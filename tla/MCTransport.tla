---------------------------- MODULE MCTransport ----------------------------
(* A state-changing call, a plain read, and a task poll with the deadline  *)
(* of --timeout: the first two in either order, or the poll.               *)
EXTENDS Transport

CONSTANTS write, read, poll

OneOfEach == {write, read, poll}
MCCommands == {{write, read}, {poll}}
Writes == {write}
Polls == {poll}
MCDecoded == {write, poll}
None == {}
PollOnly == {Polls}

Answer(s, l, f) == [status |-> s, locked |-> l, fields |-> f]

\* One answer per way doRaw and DecodeError treat an answer.
MCReplies ==
    {Answer(200, FALSE, FALSE), Answer(401, FALSE, FALSE),
     Answer(404, FALSE, FALSE), Answer(429, FALSE, FALSE),
     Answer(500, FALSE, FALSE), Answer(500, TRUE, FALSE),
     Answer(500, FALSE, TRUE), Answer(503, FALSE, FALSE)}
=============================================================================
