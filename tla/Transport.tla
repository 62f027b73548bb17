----------------------------- MODULE Transport -----------------------------
(***************************************************************************)
(* The request engine of internal/transport/client.go: Client.Do and       *)
(* DoRaw, the attempts of doRaw, the rate limiter and the authentication   *)
(* they go through, and the exit code internal/cli/errors.go gives to the  *)
(* outcome.                                                                *)
(*                                                                         *)
(* A call is one Do or DoRaw. Its requests travel to a server that may     *)
(* answer late, fail after having run the call, or never answer: a request *)
(* the network lost is one the server never handles. The calls of a run of *)
(* `pc` share one Client, one after the other.                             *)
(***************************************************************************)
EXTENDS Protocol

CONSTANTS
    Calls,          \* the calls made on the client
    Commands,       \* sets of calls: those a command makes
    Mutating,       \* those whose method is not GET, HEAD or OPTIONS
    Deadlined,      \* those whose context carries the deadline of task.Wait
    Decoded,        \* those made by Do with a value to decode the answer into
    MaxRetries,     \* Options.MaxRetries
    Limited,        \* a rate limit is configured (RateQPS > 0)
    Burst,          \* size of the limiter's bucket
    TicketLogin,    \* the profile uses ticket rather than token auth
    Replies         \* the answers of the server that are explored

ASSUME CallsAssumption ==
    /\ Mutating \subseteq Calls
    /\ Deadlined \subseteq Calls \ Mutating
    /\ Decoded \subseteq Calls
    /\ Commands \subseteq SUBSET Calls
ASSUME OptionsAssumption ==
    /\ MaxRetries \in Nat
    /\ Burst \in Nat \ {0}
    /\ Limited \in BOOLEAN
    /\ TicketLogin \in BOOLEAN
ASSUME RepliesAssumption ==
    Replies \subseteq Answers

VARIABLES
    pc,             \* where each call is in doRaw
    attempt,        \* number of the current attempt, from 1
    expired,        \* the context of the call is done
    reply,          \* answer to the current attempt, not read yet
    outcome,        \* what Do or DoRaw returned
    requests,       \* requests sent that the server has not handled
    executed,       \* how often the server ran the call
    tokens,         \* tokens in the limiter's bucket
    refilled,       \* tokens added to the bucket so far
    sent,           \* attempts made so far by all calls
    ticket,         \* the client has a ticket that it takes for fresh
    credentials,    \* the server accepts the credentials of the profile
    rejected        \* calls whose last attempt the server turned down for
                    \* their credentials (history)

callVars == <<pc, attempt, expired, reply, outcome>>
serverVars == <<requests, executed>>
limiterVars == <<tokens, refilled, sent>>
authVars == <<ticket, credentials>>
vars == <<callVars, serverVars, limiterVars, authVars, rejected>>

NoReply == [status |-> 0, locked |-> FALSE, fields |-> FALSE]

(***************************************************************************)
(* doRaw.                                                                  *)
(***************************************************************************)
\* Fault: every method is retried.
Attempts_RetryAll(c) == MaxRetries + 1

Attempts(c) == IF c \in Mutating THEN 1 ELSE MaxRetries + 1

BeforeAttempt == IF Limited THEN "limit" ELSE "apply"

Init ==
    /\ pc = [c \in Calls |-> "idle"]
    /\ attempt = [c \in Calls |-> 0]
    /\ expired = [c \in Calls |-> FALSE]
    /\ reply = [c \in Calls |-> NoReply]
    /\ outcome = [c \in Calls |-> "none"]
    /\ requests = {}
    /\ executed = [c \in Calls |-> 0]
    /\ tokens = Burst
    /\ refilled = 0
    /\ sent = 0
    /\ ticket = FALSE
    /\ credentials \in BOOLEAN
    /\ rejected = {}

Finish(c, o) ==
    /\ pc' = [pc EXCEPT ![c] = "done"]
    /\ outcome' = [outcome EXCEPT ![c] = o]

\* Fault: the attempts are counted from 0 in one place and from 1 in another.
FailAttempt_OneTooFew(c, k) ==
    /\ reply' = [reply EXCEPT ![c] = NoReply]
    /\ IF attempt[c] + 1 < Attempts(c)
       THEN /\ pc' = [pc EXCEPT ![c] = "backoff"]
            /\ UNCHANGED outcome
       ELSE Finish(c, k)
    /\ UNCHANGED <<attempt, expired>>

\* Fault: one attempt more than the call is allowed.
FailAttempt_OneTooMany(c, k) ==
    /\ reply' = [reply EXCEPT ![c] = NoReply]
    /\ IF attempt[c] <= Attempts(c)
       THEN /\ pc' = [pc EXCEPT ![c] = "backoff"]
            /\ UNCHANGED outcome
       ELSE Finish(c, k)
    /\ UNCHANGED <<attempt, expired>>

\* The bottom of the loop: back off, or return the error of this last attempt.
FailAttempt(c, k) ==
    /\ reply' = [reply EXCEPT ![c] = NoReply]
    /\ IF attempt[c] < Attempts(c)
       THEN /\ pc' = [pc EXCEPT ![c] = "backoff"]
            /\ UNCHANGED outcome
       ELSE Finish(c, k)
    /\ UNCHANGED <<attempt, expired>>

\* The next call of the process. Bulk commands go on after a failed call.
Start(c) ==
    /\ pc[c] = "idle"
    /\ \E command \in Commands :
          {c} \cup {d \in Calls : pc[d] # "idle"} \subseteq command
    /\ \A d \in Calls : pc[d] \in {"idle", "done"} /\ outcome[d] # "killed"
    /\ pc' = [pc EXCEPT ![c] = BeforeAttempt]
    /\ attempt' = [attempt EXCEPT ![c] = 1]
    /\ UNCHANGED <<expired, reply, outcome>>
    /\ UNCHANGED <<serverVars, limiterVars, authVars, rejected>>

\* Fault: the limiter is consulted once per call, not once per attempt.
BackoffElapses_SkipsLimiter(c) ==
    /\ pc[c] = "backoff"
    /\ pc' = [pc EXCEPT ![c] = "apply"]
    /\ attempt' = [attempt EXCEPT ![c] = @ + 1]
    /\ UNCHANGED <<expired, reply, outcome>>
    /\ UNCHANGED <<serverVars, limiterVars, authVars, rejected>>

\* The select of the backoff: the timer fires ...
BackoffElapses(c) ==
    /\ pc[c] = "backoff"
    /\ pc' = [pc EXCEPT ![c] = BeforeAttempt]
    /\ attempt' = [attempt EXCEPT ![c] = @ + 1]
    /\ UNCHANGED <<expired, reply, outcome>>
    /\ UNCHANGED <<serverVars, limiterVars, authVars, rejected>>

\* ... or the context is done, and doRaw returns the bare context error.
BackoffCancelled(c) ==
    /\ pc[c] = "backoff"
    /\ expired[c]
    /\ Finish(c, "ctx")
    /\ UNCHANGED <<attempt, expired, reply>>
    /\ UNCHANGED <<serverVars, limiterVars, authVars, rejected>>

\* limiter.Wait takes a token ...
TakeToken(c) ==
    /\ pc[c] = "limit"
    /\ tokens > 0
    /\ ~expired[c]
    /\ tokens' = tokens - 1
    /\ pc' = [pc EXCEPT ![c] = "apply"]
    /\ UNCHANGED <<attempt, expired, reply, outcome, refilled, sent>>
    /\ UNCHANGED <<serverVars, authVars, rejected>>

\* ... or fails: the context is done, or would be before a token is due.
LimiterFails(c) ==
    /\ pc[c] = "limit"
    /\ expired[c] \/ (c \in Deadlined /\ tokens = 0)
    /\ Finish(c, "Transport")
    /\ UNCHANGED <<attempt, expired, reply>>
    /\ UNCHANGED <<serverVars, limiterVars, authVars, rejected>>

(***************************************************************************)
(* attempt: auth.Apply, then the round trip.                               *)
(***************************************************************************)
\* TicketProvider.ensure logs in when no ticket is cached or the cached one
\* is 110 minutes old. The deadline of the call bounds the login too. The
\* attempt keeps the ticket it got, whenever it leaves.
Login(c) ==
    /\ pc[c] = "apply"
    /\ TicketLogin /\ ~ticket
    /\ credentials /\ ~expired[c]
    /\ ticket' = TRUE
    /\ pc' = [pc EXCEPT ![c] = "send"]
    /\ UNCHANGED <<attempt, expired, reply, outcome>>
    /\ UNCHANGED <<serverVars, limiterVars, credentials, rejected>>

\* The time of the ticket is up. The server takes it for some minutes more.
TicketAges ==
    /\ ticket
    /\ ticket' = FALSE
    /\ UNCHANGED <<callVars, serverVars, limiterVars, credentials, rejected>>

\* The login is refused, or does not get through. Either way attempt returns
\* an "apply auth" error, which doRaw takes for a transport error.
LoginFails(c) ==
    /\ pc[c] = "apply"
    /\ TicketLogin /\ ~ticket
    /\ FailAttempt(c, "Transport")
    /\ \/ rejected' = rejected \ {c}
       \/ ~credentials /\ ~expired[c] /\ rejected' = rejected \cup {c}
    /\ sent' = sent + 1
    /\ UNCHANGED <<tokens, refilled>>
    /\ UNCHANGED <<serverVars, authVars>>

\* Apply returns: it has logged in, or need not.
Applied(c) ==
    \/ pc[c] = "send"
    \/ pc[c] = "apply" /\ (TicketLogin => ticket)

\* The request leaves with its credentials attached.
Send(c) ==
    /\ Applied(c)
    /\ ~expired[c]
    /\ pc' = [pc EXCEPT ![c] = "await"]
    /\ requests' = requests \cup {<<c, attempt[c]>>}
    /\ sent' = sent + 1
    /\ UNCHANGED <<attempt, expired, reply, outcome>>
    /\ UNCHANGED <<executed, tokens, refilled, authVars, rejected>>

\* Fault: the HTTP client has no timeout of its own.
TransportFails_NoTimeout(c) ==
    /\ (pc[c] = "await" /\ expired[c]) \/ Applied(c)
    /\ FailAttempt(c, "Transport")
    /\ sent' = IF pc[c] = "await" THEN sent ELSE sent + 1
    /\ rejected' = rejected \ {c}
    /\ UNCHANGED <<serverVars, tokens, refilled, authVars>>

\* Fault: the error of the round trip is returned without a kind.
TransportFails_NoKind(c) ==
    /\ pc[c] = "await" \/ Applied(c)
    /\ FailAttempt(c, "Unknown")
    /\ sent' = IF pc[c] = "await" THEN sent ELSE sent + 1
    /\ rejected' = rejected \ {c}
    /\ UNCHANGED <<serverVars, tokens, refilled, authVars>>

\* No connection, a reset, the client timeout, an unreadable body, a context
\* that is done: whether the server ran the request or not.
TransportFails(c) ==
    /\ pc[c] = "await" \/ Applied(c)
    /\ FailAttempt(c, "Transport")
    /\ sent' = IF pc[c] = "await" THEN sent ELSE sent + 1
    /\ rejected' = rejected \ {c}
    /\ UNCHANGED <<serverVars, tokens, refilled, authVars>>

\* Fault: an answer whose data cannot be decoded is an answer not understood,
\* and is given the kind that DecodeError falls back on.
Returned_UndecodedIsRefusal(c, r) ==
    IF ~Success(r) THEN {KindOf(r)}
    ELSE {"ok"} \cup (IF c \in Decoded THEN {"Unknown"} ELSE {})

\* What Do or DoRaw may return for a final answer. Do decodes the data of a
\* success into what its caller passed; the error of that has no kind.
Returned(c, r) ==
    IF ~Success(r) THEN {KindOf(r)}
    ELSE {"ok"} \cup (IF c \in Decoded THEN {"undecoded"} ELSE {})

\* An answer is read: success, an error worth a retry, or a final error.
Receive(c) ==
    /\ pc[c] = "await"
    /\ reply[c] # NoReply
    /\ \/ /\ c \notin Mutating /\ RetryableStatus(reply[c])
          /\ FailAttempt(c, KindOf(reply[c]))
       \/ /\ c \in Mutating \/ ~RetryableStatus(reply[c])
          /\ \E o \in Returned(c, reply[c]) : Finish(c, o)
          /\ reply' = [reply EXCEPT ![c] = NoReply]
          /\ UNCHANGED <<attempt, expired>>
    /\ rejected' = IF reply[c].status = 401 THEN rejected \cup {c}
                   ELSE rejected \ {c}
    /\ UNCHANGED <<serverVars, limiterVars, authVars>>

(***************************************************************************)
(* The environment.                                                        *)
(***************************************************************************)
\* What the server may answer to a request it ran, or did not run. A 2xx
\* means it ran; a 4xx, a lock and a failed parameter check are decided
\* before anything is changed; any other 5xx may come from either side of
\* the change. Bad credentials are refused with a 401, and so may good ones
\* be, when the server has forgotten the ticket. That a 5xx with a lock or a
\* parameter check is such a refusal is an assumption on the server: the
\* decoder takes it for one.
Declined(r) == r.status >= 400 /\ (r.status < 500 \/ r.locked \/ r.fields)

MayAnswer(r, ran) ==
    /\ ~credentials => (r.status = 401 /\ ~ran)
    /\ r.status < 300 => ran
    /\ Declined(r) => ~ran

Serve(c, n) ==
    /\ <<c, n>> \in requests
    /\ requests' = requests \ {<<c, n>>}
    /\ \E r \in Replies, ran \in BOOLEAN :
          /\ MayAnswer(r, ran)
          /\ executed' = [executed EXCEPT ![c] = @ + (IF ran THEN 1 ELSE 0)]
          /\ reply' = IF pc[c] = "await" /\ attempt[c] = n
                      THEN [reply EXCEPT ![c] = r] ELSE reply
    /\ UNCHANGED <<pc, attempt, expired, outcome>>
    /\ UNCHANGED <<limiterVars, authVars, rejected>>

Refill ==
    /\ Limited
    /\ tokens < Burst
    /\ tokens' = tokens + 1
    /\ refilled' = refilled + 1
    /\ UNCHANGED <<callVars, serverVars, sent, authVars, rejected>>

\* The deadline task.Wait put on the context of its polls passes.
Expire(c) ==
    /\ c \in Deadlined
    /\ pc[c] \notin {"idle", "done"}
    /\ ~expired[c]
    /\ expired' = [expired EXCEPT ![c] = TRUE]
    /\ UNCHANGED <<pc, attempt, reply, outcome>>
    /\ UNCHANGED <<serverVars, limiterVars, authVars, rejected>>

\* Ctrl-C or a kill: no signal is handled, the process just goes.
Kill(c) ==
    /\ pc[c] \notin {"idle", "done"}
    /\ Finish(c, "killed")
    /\ reply' = [reply EXCEPT ![c] = NoReply]
    /\ UNCHANGED <<attempt, expired>>
    /\ UNCHANGED <<serverVars, limiterVars, authVars, rejected>>

ClientStep(c) ==
    \/ BackoffElapses(c)
    \/ BackoffCancelled(c)
    \/ TakeToken(c)
    \/ LimiterFails(c)
    \/ Login(c)
    \/ LoginFails(c)
    \/ Send(c)
    \/ TransportFails(c)
    \/ Receive(c)

Next ==
    \/ \E c \in Calls :
          \/ Start(c)
          \/ ClientStep(c)
          \/ \E n \in 1 .. Attempts(c) : Serve(c, n)
          \/ Expire(c)
          \/ Kill(c)
    \/ Refill
    \/ TicketAges

Spec == Init /\ [][Next]_vars

\* The timers of the client (http.Client.Timeout, the backoff, the bucket)
\* do fire; the server, the network and the user owe nothing.
FairSpec == Spec /\ WF_vars(Refill) /\ WF_vars(\E c \in Calls : ClientStep(c))

(***************************************************************************)
(* Properties.                                                             *)
(***************************************************************************)
\* Every variable keeps its type: a call never makes more attempts than it
\* is allowed, and the bucket never overflows.
TypeOK ==
    /\ pc \in [Calls -> {"idle", "limit", "apply", "send", "await", "backoff", "done"}]
    /\ attempt \in [Calls -> 0 .. MaxRetries + 1]
    /\ expired \in [Calls -> BOOLEAN]
    /\ reply \in [Calls -> Replies \cup {NoReply}]
    /\ outcome \in [Calls -> Kinds \cup {"none", "ok", "undecoded", "ctx", "killed"}]
    /\ requests \subseteq Calls \X (1 .. MaxRetries + 1)
    /\ executed \in [Calls -> Nat]
    /\ tokens \in 0 .. Burst
    /\ refilled \in Nat
    /\ sent \in Nat
    /\ ticket \in BOOLEAN
    /\ credentials \in BOOLEAN
    /\ rejected \subseteq Calls

\* A call that changes state runs at most once on the server, however the
\* connection fails and however late its request is handled: doRaw gives
\* only GET, HEAD and OPTIONS a second attempt.
AtMostOnce == \A c \in Mutating : executed[c] <= 1

\* Exit code 0 is never a guess: the server ran the call.
OkMeansExecuted ==
    \A c \in Calls : outcome[c] = "ok" => executed[c] >= 1

\* A refusal is final. When the server's answer was decoded into a kind other
\* than KindServer (exit codes 2, 3 and 6, 4 of a conflict, 1 of a status that
\* kindFromStatus does not know), the state-changing call did not run, and no
\* request of it is left that could still change something.
RefusalIsFinal ==
    \A c \in Mutating : outcome[c] \in DefiniteKinds =>
        /\ executed[c] = 0
        /\ \A n \in 1 .. MaxRetries + 1 : <<c, n>> \notin requests

\* Whether a state-changing call ran is left open by exit code 4 alone (and by
\* a killed process). An answer of success that Do cannot decode ends in exit
\* code 1 although the call ran, but leaves nothing open: it ran, once, and no
\* request of it is left.
DoubtIsExitFour ==
    \A c \in Mutating :
        /\ (pc[c] = "done" /\ outcome[c] \notin {"ok", "undecoded", "killed"}
               /\ (executed[c] > 0 \/ <<c, 1>> \in requests))
           => ExitCode(outcome[c]) = 4
        /\ outcome[c] = "undecoded" => executed[c] = 1 /\ <<c, 1>> \notin requests

\* A read that ends with a transport error used every retry it had, unless
\* its deadline or the limiter ended it: one lost packet never fails a read.
TransientFailureIsRetried ==
    \A c \in Calls \ Deadlined :
        outcome[c] = "Transport" => attempt[c] = Attempts(c)

\* The limiter bounds every attempt, retries included.
RateBound == Limited => sent + tokens <= Burst + refilled

\* When the server's last word on a call was that the credentials are bad,
\* the exit code is 2 (KindAuth is "401 / bad credentials").
BadCredentialsExitTwo ==
    \A c \in rejected :
        (pc[c] = "done" /\ outcome[c] # "killed") => ExitCode(outcome[c]) = 2

\* A call that started ends, whatever the server and the network do.
EveryCallEnds == \A c \in Calls : pc[c] # "idle" ~> pc[c] = "done"

(***************************************************************************)
(* What the engine implements.                                             *)
(***************************************************************************)
Verdict(c) ==
    IF pc[c] = "idle" THEN "idle"
    ELSE IF pc[c] # "done" THEN "pending"
    ELSE IF outcome[c] = "ok" THEN "applied"
    ELSE IF outcome[c] \in DefiniteKinds THEN "refused"
    ELSE "unknown"

Promise == INSTANCE CallPromise WITH
    Mutations <- Mutating,
    runs <- [c \in Mutating |-> executed[c]],
    verdict <- [c \in Mutating |-> Verdict(c)]

\* Seen from outside, a call is CallPromise: each state-changing call runs at
\* most once, its caller is never misled, and always gets a verdict.
ImplementsPromise == Promise!Spec
=============================================================================
