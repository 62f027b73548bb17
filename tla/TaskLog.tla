------------------------------ MODULE TaskLog ------------------------------
(***************************************************************************)
(* `pc task log [--follow]`: streamTaskLog of internal/cli/task.go reads   *)
(* the log of a task in pages while the task writes it.                    *)
(*                                                                         *)
(* The log is a number of lines, line n being n itself. A fetch is a read  *)
(* of the request engine: it brings a page or it fails.                    *)
(***************************************************************************)
EXTENDS Protocol, Sequences

CONSTANTS
    Page,           \* lines per fetch: --limit, or the default of the server
    MaxLines        \* bound on the lines the task writes

VARIABLES
    pc,             \* where streamTaskLog is
    follow,         \* --follow was given
    next,           \* first line not printed
    fetched,        \* lines the last fetch brought
    seen,           \* status read before the last drain
    printed,        \* lines printed so far
    written,        \* lines the task has written
    ended           \* the task is over

client == <<pc, follow, next, fetched, seen, printed>>
server == <<written, ended>>
vars == <<client, server>>

Least(a, b) == IF a < b THEN a ELSE b

Init ==
    /\ pc = "first"
    /\ follow \in BOOLEAN
    /\ next = 1
    /\ fetched = 0
    /\ seen = Running
    /\ printed = <<>>
    /\ written \in 0 .. MaxLines
    /\ ended \in BOOLEAN

\* Fault: the 1-based cursor is sent as the 0-based start.
LogPage_OneBased(start) ==
    [i \in 1 .. Least(Page, written - start - 1) |-> start + 1 + i]

\* TaskLog asks for a page from line next (0-based on the wire).
LogPage(start) == [i \in 1 .. Least(Page, written - start) |-> start + i]

\* Fault: the cursor moves by the page size, not past the lines received.
PrintFrom_ByPage ==
    LET lines == LogPage(next - 1) IN
    /\ printed' = printed \o lines
    /\ fetched' = Len(lines)
    /\ next' = next + Page

\* The loop of printFrom: print each line, move next past it.
PrintFrom ==
    LET lines == LogPage(next - 1) IN
    /\ printed' = printed \o lines
    /\ fetched' = Len(lines)
    /\ next' = IF lines = <<>> THEN next ELSE lines[Len(lines)] + 1

FirstPage ==
    /\ pc = "first"
    /\ PrintFrom
    /\ pc' = IF follow THEN "status" ELSE "done"
    /\ UNCHANGED <<follow, seen, server>>

\* Fault: the follow returns as soon as the status says so, without a drain.
ReadStatus_NoFinalDrain ==
    /\ pc = "status"
    /\ seen' = IF ended THEN Stopped("OK") ELSE Running
    /\ pc' = IF ended THEN "done" ELSE "drain"
    /\ UNCHANGED <<follow, next, fetched, printed, server>>

\* Fault: the status is read once, before the loop.
ReadStatus_Stale ==
    /\ pc = "status"
    /\ pc' = "drain"
    /\ UNCHANGED <<follow, next, fetched, seen, printed, server>>

\* Read the status BEFORE draining the log ...
ReadStatus ==
    /\ pc = "status"
    /\ seen' = IF ended THEN Stopped("OK") ELSE Running
    /\ pc' = "drain"
    /\ UNCHANGED <<follow, next, fetched, printed, server>>

\* ... then drain, then check Done.
Drain ==
    /\ pc = "drain"
    /\ PrintFrom
    /\ pc' = IF TaskDone(seen) THEN "done" ELSE "tick"
    /\ UNCHANGED <<follow, seen, server>>

Tick ==
    /\ pc = "tick"
    /\ pc' = "status"
    /\ UNCHANGED <<follow, next, fetched, seen, printed, server>>

\* A read that fails after its retries ends the command with an error.
ReadFails ==
    /\ pc \in {"first", "status", "drain"}
    /\ pc' = "failed"
    /\ UNCHANGED <<follow, next, fetched, seen, printed, server>>

WriteLine ==
    /\ ~ended
    /\ written < MaxLines
    /\ written' = written + 1
    /\ UNCHANGED <<client, ended>>

TaskEnds ==
    /\ ~ended
    /\ ended' = TRUE
    /\ UNCHANGED <<client, written>>

Stream == FirstPage \/ ReadStatus \/ Drain \/ Tick \/ ReadFails

Next == Stream \/ WriteLine \/ TaskEnds

Spec == Init /\ [][Next]_vars

\* Reads end, by an answer or by a timeout, and the ticker ticks.
FairSpec == Spec /\ WF_vars(Stream)

(***************************************************************************)
(* Properties.                                                             *)
(***************************************************************************)
\* Types: the cursor never runs ahead of the log by more than one line.
TypeOK ==
    /\ pc \in {"first", "status", "drain", "tick", "done", "failed"}
    /\ follow \in BOOLEAN
    /\ next \in 1 .. MaxLines + 1
    /\ fetched \in 0 .. Page
    /\ seen \in {Running, Stopped("OK")}
    /\ printed \in Seq(1 .. MaxLines)
    /\ written \in 0 .. MaxLines
    /\ ended \in BOOLEAN

\* What is printed is the beginning of the log, each line once and in order,
\* whatever is appended between two fetches.
NoLossNoDup == printed = [n \in 1 .. next - 1 |-> n]

\* A followed log is complete when the last page was not a full one: a task
\* that stops between the status read and the drain loses no line.
LastPageIsComplete ==
    (pc = "done" /\ follow /\ fetched < Page) => Len(printed) = written

\* The comment of streamTaskLog: "a task that stops mid-cycle loses no
\* trailing lines".
NoTrailingLineLost ==
    (pc = "done" /\ follow) => Len(printed) = written

\* Following a task ends once the task is over.
FollowEndsWithTask == ended ~> pc \in {"done", "failed"}
=============================================================================
