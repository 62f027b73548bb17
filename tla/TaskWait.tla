------------------------------ MODULE TaskWait ------------------------------
(***************************************************************************)
(* A mutating command that starts a server task, and every process that    *)
(* waits for that task: rawMutate and finishTask of internal/cli, Wait of  *)
(* internal/task/task.go, and `pc task wait` on the printed id.            *)
(*                                                                         *)
(* The call that starts the task keeps what CallPromise promises of it.    *)
(* Each poll is a read of the request engine (Transport): an attempt is    *)
(* lost, is refused, or brings the status the task had on the server.      *)
(***************************************************************************)
EXTENDS Protocol

CONSTANTS
    Issuer,         \* the process that runs the mutating command
    Followers,      \* processes that run `pc task wait <upid>`
    MaxRetries,     \* retries of a poll
    ExitStatuses    \* exit statuses of the task that are explored

ASSUME ProcessesAssumption == Issuer \notin Followers
ASSUME RetriesAssumption == MaxRetries \in Nat
ASSUME ExitStatusesAssumption ==
    /\ "OK" \in ExitStatuses
    /\ {"none", "running"} \cap ExitStatuses = {}

VARIABLES
    pc,             \* where each process is
    tries,          \* failed attempts of the poll under way
    seen,           \* the status the last poll brought
    expired,        \* the deadline of --wait-timeout (or --timeout) passed
    exit,           \* exit code of each process
    wait,           \* the command waits: --wait, the default, not --no-wait
    structured,     \* its output format is json or yaml
    bounded,        \* processes given a timeout
    task,           \* the task on the server: "none", "running", exit status
    late,           \* the call was lost to its caller but may yet start it
    printed         \* the issuer printed the task id

Processes == Followers \cup {Issuer}

flags == <<wait, structured, bounded>>
server == <<task, late>>
vars == <<pc, tries, seen, expired, exit, flags, server, printed>>

Started == task # "none"
TaskStopped == task \in ExitStatuses

NoExit == 7                 \* above every exit code

Init ==
    /\ pc = [p \in Processes |-> "idle"]
    /\ tries = [p \in Processes |-> 0]
    /\ seen = [p \in Processes |-> Running]
    /\ expired = [p \in Processes |-> FALSE]
    /\ exit = [p \in Processes |-> NoExit]
    /\ wait \in BOOLEAN
    /\ structured \in BOOLEAN
    /\ bounded \in SUBSET {Issuer}
    /\ task = "none"
    /\ late = FALSE
    /\ printed = FALSE

Finish(p, code) ==
    /\ pc' = [pc EXCEPT ![p] = "done"]
    /\ exit' = [exit EXCEPT ![p] = code]

Goto(p, where) ==
    /\ pc' = [pc EXCEPT ![p] = where]
    /\ UNCHANGED exit

(***************************************************************************)
(* rawMutate: one call, one answer.                                        *)
(***************************************************************************)
\* The answer is the id of a task.
PostStartsTask ==
    /\ pc[Issuer] = "idle"
    /\ task' = "running"
    /\ Goto(Issuer, "handle")
    /\ UNCHANGED <<tries, seen, expired, flags, late, printed>>

\* The answer carries no task id: the change is already made.
PostIsSynchronous ==
    /\ pc[Issuer] = "idle"
    /\ Finish(Issuer, 0)
    /\ UNCHANGED <<tries, seen, expired, flags, server, printed>>

\* The server declines the call, ...
PostRefused ==
    /\ pc[Issuer] = "idle"
    /\ \E k \in DefiniteKinds : Finish(Issuer, ExitCode(k))
    /\ UNCHANGED <<tries, seen, expired, flags, server, printed>>

\* ... or its answer is lost, and the task may run, now or later.
PostInDoubt ==
    /\ pc[Issuer] = "idle"
    /\ \E k \in {"Transport", "Server"} : Finish(Issuer, ExitCode(k))
    /\ late' \in BOOLEAN
    /\ UNCHANGED <<tries, seen, expired, flags, task, printed>>

\* finishTask prints the task id and returns, or waits.
FinishTask ==
    /\ pc[Issuer] = "handle"
    /\ IF ~wait \/ structured
       THEN Finish(Issuer, 0) /\ printed' = TRUE
       ELSE Goto(Issuer, "poll") /\ UNCHANGED printed
    /\ UNCHANGED <<tries, seen, expired, flags, server>>

\* `pc task wait` on an id taken from the command or from the task list, with
\* or without --timeout.
Follow(p) ==
    /\ p \in Followers
    /\ pc[p] = "idle"
    /\ Started
    /\ Goto(p, "poll")
    /\ bounded' \in {bounded, bounded \cup {p}}
    /\ UNCHANGED <<tries, seen, expired, wait, structured, server, printed>>

(***************************************************************************)
(* Wait: poll, look, sleep.                                                *)
(***************************************************************************)
\* An attempt of the poll brings the status the task has now. There is no task
\* when a handle was made up for an answer without a task id.
ReadStatus(p) ==
    /\ pc[p] = "poll"
    /\ Started
    /\ ~expired[p]
    /\ seen' = [seen EXCEPT ![p] = IF TaskStopped THEN Stopped(task) ELSE Running]
    /\ Goto(p, "look")
    /\ UNCHANGED <<tries, expired, flags, server, printed>>

\* Fault: one retry too many.
PollLost_OneTooMany(p) ==
    /\ pc[p] = "poll"
    /\ tries' = [tries EXCEPT ![p] = @ + 1]
    /\ IF tries[p] <= MaxRetries
       THEN Goto(p, "poll")
       ELSE \E k \in {"Transport", "Server", "Unknown"} : Finish(p, ExitCode(k))
    /\ UNCHANGED <<seen, expired, flags, server, printed>>

\* An attempt is lost or gets a status worth a retry (429 is of no kind).
PollLost(p) ==
    /\ pc[p] = "poll"
    /\ tries' = [tries EXCEPT ![p] = @ + 1]
    /\ IF tries[p] < MaxRetries
       THEN Goto(p, "poll")
       ELSE \E k \in {"Transport", "Server", "Unknown"} : Finish(p, ExitCode(k))
    /\ UNCHANGED <<seen, expired, flags, server, printed>>

\* The backoff between two attempts sees the deadline.
PollCancelled(p) ==
    /\ pc[p] = "poll"
    /\ tries[p] > 0
    /\ expired[p]
    /\ Finish(p, ExitCode("ctx"))
    /\ UNCHANGED <<tries, seen, expired, flags, server, printed>>

\* Any other error answer ends the poll, and with it the wait.
PollRefused(p) ==
    /\ pc[p] = "poll"
    /\ ~expired[p]
    /\ \E k \in DefiniteKinds \cup {"Server"} : Finish(p, ExitCode(k))
    /\ UNCHANGED <<tries, seen, expired, flags, server, printed>>

\* Fault: the exit status is looked at before the task is known to be done.
Look_ChecksOKFirst(p) ==
    /\ pc[p] = "look"
    /\ Finish(p, ExitCode(IF TaskOK(seen[p]) THEN "ok" ELSE "TaskFailed"))
    /\ UNCHANGED <<tries, seen, expired, flags, server, printed>>

Look(p) ==
    /\ pc[p] = "look"
    /\ \/ /\ TaskDone(seen[p])
          /\ Finish(p, ExitCode(IF TaskOK(seen[p]) THEN "ok" ELSE "TaskFailed"))
       \/ /\ ~TaskDone(seen[p])
          /\ Goto(p, "sleep")
    /\ UNCHANGED <<tries, seen, expired, flags, server, printed>>

\* The select at the end of the loop: the ticker, or the deadline.
Tick(p) ==
    /\ pc[p] = "sleep"
    /\ Goto(p, "poll")
    /\ tries' = [tries EXCEPT ![p] = 0]
    /\ UNCHANGED <<seen, expired, flags, server, printed>>

WaitTimesOut(p) ==
    /\ pc[p] = "sleep"
    /\ expired[p]
    /\ Finish(p, ExitCode("ctx"))
    /\ UNCHANGED <<tries, seen, expired, flags, server, printed>>

\* Fault: finishTask does not hand --wait-timeout down.
Expire_NotHandedDown(p) ==
    /\ p \in bounded \ {Issuer}
    /\ pc[p] \in {"poll", "look", "sleep"}
    /\ ~expired[p]
    /\ expired' = [expired EXCEPT ![p] = TRUE]
    /\ UNCHANGED <<pc, tries, seen, exit, flags, server, printed>>

Expire(p) ==
    /\ p \in bounded
    /\ pc[p] \in {"poll", "look", "sleep"}
    /\ ~expired[p]
    /\ expired' = [expired EXCEPT ![p] = TRUE]
    /\ UNCHANGED <<pc, tries, seen, exit, flags, server, printed>>

(***************************************************************************)
(* The server.                                                             *)
(***************************************************************************)
LateStart ==
    /\ late
    /\ late' = FALSE
    /\ task' = "running"
    /\ UNCHANGED <<pc, tries, seen, expired, exit, flags, printed>>

TaskEnds ==
    /\ task = "running"
    /\ task' \in ExitStatuses
    /\ UNCHANGED <<pc, tries, seen, expired, exit, flags, late, printed>>

PollStep(p) ==
    \/ ReadStatus(p)
    \/ PollLost(p)
    \/ PollCancelled(p)
    \/ PollRefused(p)
    \/ Look(p)
    \/ Tick(p)
    \/ WaitTimesOut(p)

Next ==
    \/ PostStartsTask
    \/ PostIsSynchronous
    \/ PostRefused
    \/ PostInDoubt
    \/ FinishTask
    \/ \E p \in Processes : Follow(p) \/ PollStep(p) \/ Expire(p)
    \/ LateStart
    \/ TaskEnds

Spec == Init /\ [][Next]_vars

\* Polls are bounded by the client timeout and repeated by a ticker, and
\* deadlines pass. Nothing obliges the task to end or a poll to be answered.
FairSpec ==
    /\ Spec
    /\ WF_vars(FinishTask)
    /\ \A p \in Processes : WF_vars(PollStep(p)) /\ WF_vars(Expire(p))

(***************************************************************************)
(* Properties.                                                             *)
(***************************************************************************)
\* Types: a poll has no more failed attempts than its retries allow.
TypeOK ==
    /\ pc \in [Processes -> {"idle", "handle", "poll", "look", "sleep", "done"}]
    /\ tries \in [Processes -> 0 .. MaxRetries + 1]
    /\ seen \in [Processes -> {Running} \cup {Stopped(e) : e \in ExitStatuses}]
    /\ expired \in [Processes -> BOOLEAN]
    /\ exit \in [Processes -> 0 .. 6 \cup {NoExit}]
    /\ wait \in BOOLEAN /\ structured \in BOOLEAN
    /\ bounded \subseteq Processes
    /\ task \in {"none", "running"} \cup ExitStatuses
    /\ late \in BOOLEAN /\ printed \in BOOLEAN

\* Exit code 0 of a process that waited means the task ended with "OK":
\* neither a running task nor one that ended with warnings is a success.
SuccessIsReal ==
    \A p \in Processes :
        (exit[p] = 0 /\ Started /\ ~(p = Issuer /\ printed)) => task = "OK"

\* Exit code 5 means the task is over and did not end with "OK".
FailureIsReal ==
    \A p \in Processes : exit[p] = 5 => TaskStopped /\ task # "OK"

\* A task that is over ends every wait for it, failed tasks included.
WaitEndsWithTask ==
    \A p \in Processes :
        (TaskStopped /\ pc[p] \in {"handle", "poll", "look", "sleep"}) ~> pc[p] = "done"

\* A bounded wait ends although the task may run for ever.
BoundedWaitEnds ==
    \A p \in Processes :
        (p \in bounded /\ pc[p] \in {"poll", "look", "sleep"}) ~> pc[p] = "done"

\* The help of --wait, the default: "wait for the task to finish". A command
\* that succeeds without --no-wait has seen its task end.
WaitFlagWaits ==
    (wait /\ Started /\ exit[Issuer] = 0) => TaskStopped
=============================================================================
