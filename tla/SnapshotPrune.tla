--------------------------- MODULE SnapshotPrune ---------------------------
(***************************************************************************)
(* `pc snapshot prune`, internal/cli/snapshot.go: list the snapshots of    *)
(* every guest, choose those taken before a cutoff, show them, ask, and    *)
(* delete them one by one, by name, waiting for the task of each.          *)
(*                                                                         *)
(* Other people take and delete snapshots meanwhile, and several prunes    *)
(* may run. A DELETE is what CallPromise says of a call: it starts at most *)
(* one task, maybe after its caller gave up on it. How rawMutate waits for *)
(* a task is TaskWait's subject; here a wait ends with the task's verdict, *)
(* or fails.                                                               *)
(***************************************************************************)
EXTENDS Integers, FiniteSets

CONSTANTS
    Guests,         \* vmids
    Names,          \* names of snapshots
    Prunes,         \* the running commands
    Ages,           \* values of --older-than, which may be negative
    Befores,        \* values of --before, past or to come
    MaxClock        \* bound of the clock

ASSUME ClockAssumption == MaxClock \in Nat /\ MaxClock >= 2
ASSUME GuestsAssumption == Guests \subseteq Nat
ASSUME FiniteAssumption == IsFiniteSet(Guests) /\ IsFiniteSet(Names)
ASSUME CutoffsAssumption == Ages \subseteq Int /\ Befores \subseteq Int

\* Snapshots are dated by the clock; 0 is the date of one that has none.
Dates == 0..MaxClock

Rows == [guest : Guests, name : Names, time : Dates]

VARIABLES
    clock,
    snaps,          \* the snapshots of each guest: names to dates
    requests,       \* DELETEs the server has not handled
    tasks,          \* deletions the server has started
    pc,             \* where each prune is
    cutoff,
    todo,           \* guests still to be listed
    rows,           \* snapshots found, then those chosen and shown
    left,           \* rows still to be deleted
    current,        \* the row being deleted, in a set, or no row
    failed,         \* number of failed deletions
    dryRun,
    structured      \* -o json or yaml: rawMutate does not wait

server == <<clock, snaps, requests, tasks>>
flags == <<cutoff, dryRun, structured>>
vars == <<server, flags, pc, todo, rows, left, current, failed>>

Snapshots == UNION {[D -> Dates] : D \in SUBSET Names}

RowsOf(g) == {[guest |-> g, name |-> n, time |-> snaps[g][n]] : n \in DOMAIN snaps[g]}

Present(r) == r \in RowsOf(r.guest)

Init ==
    /\ clock = 2
    /\ snaps \in [Guests -> [Names -> {0, 1}]]
    /\ requests = {} /\ tasks = {}
    /\ pc = [p \in Prunes |-> "idle"]
    /\ cutoff = [p \in Prunes |-> 0]
    /\ todo = [p \in Prunes |-> {}]
    /\ rows = [p \in Prunes |-> {}]
    /\ left = [p \in Prunes |-> {}]
    /\ current = [p \in Prunes |-> {}]
    /\ failed = [p \in Prunes |-> 0]
    /\ dryRun \in [Prunes -> BOOLEAN]
    /\ structured \in [Prunes -> BOOLEAN]

Goto(p, where) == pc' = [pc EXCEPT ![p] = where]

(***************************************************************************)
(* Choosing.                                                               *)
(***************************************************************************)
\* The cutoffs that can be asked for, by an age or a date, be they past or to
\* come: a cutoff to come makes every snapshot stale that has a date before it.
pruneCutoffs == {clock - age : age \in Ages} \cup Befores

\* The cutoff, then the list of the guests of collectSnapshots.
Start(p) ==
    /\ pc[p] = "idle"
    /\ \E c \in pruneCutoffs : cutoff' = [cutoff EXCEPT ![p] = c]
    /\ \/ todo' = [todo EXCEPT ![p] = Guests] /\ Goto(p, "collect")
       \/ UNCHANGED todo /\ Goto(p, "failed")       \* no cutoff, or no list
    /\ UNCHANGED <<server, dryRun, structured, rows, left, current, failed>>

\* A guest whose snapshots cannot be read is reported and left out.
collectSnapshots(p, g) ==
    /\ pc[p] = "collect"
    /\ g \in todo[p]
    /\ todo' = [todo EXCEPT ![p] = @ \ {g}]
    /\ \/ rows' = [rows EXCEPT ![p] = @ \cup RowsOf(g)]
       \/ UNCHANGED rows
    /\ UNCHANGED <<server, flags, pc, left, current, failed>>

\* Fault: snapshots without a date are taken for old.
stale_Undated(p, r) == r.time < cutoff[p]

\* Never one that has no date.
stale(p, r) == r.time > 0 /\ r.time < cutoff[p]

\* The table of what matched; --dry-run ends here.
Choose(p) ==
    /\ pc[p] = "collect"
    /\ todo[p] = {}
    /\ LET chosen == {r \in rows[p] : stale(p, r)} IN
          /\ rows' = [rows EXCEPT ![p] = chosen]
          /\ left' = [left EXCEPT ![p] = IF dryRun[p] THEN {} ELSE chosen]
          /\ Goto(p, IF chosen = {} \/ dryRun[p] THEN "ok" ELSE "confirm")
    /\ UNCHANGED <<server, flags, todo, current, failed>>

Confirm(p) ==
    /\ pc[p] = "confirm"
    /\ Goto(p, "delete")
    /\ UNCHANGED <<server, flags, todo, rows, left, current, failed>>

Decline(p) ==
    /\ pc[p] = "confirm"
    /\ Goto(p, "failed")
    /\ UNCHANGED <<server, flags, todo, rows, left, current, failed>>

(***************************************************************************)
(* Deleting.                                                               *)
(***************************************************************************)
\* Rows are sorted by guest, then oldest first.
Precedes(r, s) == r.guest < s.guest \/ (r.guest = s.guest /\ r.time <= s.time)

\* The DELETE names the snapshot; its date is not sent.
Delete(p, r) ==
    /\ pc[p] = "delete"
    /\ r \in left[p]
    /\ \A s \in left[p] : Precedes(r, s)
    /\ left' = [left EXCEPT ![p] = @ \ {r}]
    /\ current' = [current EXCEPT ![p] = {r}]
    /\ requests' = requests \cup {[by |-> p, row |-> r]}
    /\ Goto(p, "await")
    /\ UNCHANGED <<clock, snaps, tasks, flags, todo, rows, failed>>

\* Back to the loop.
Continue(p, failures) ==
    /\ current' = [current EXCEPT ![p] = {}]
    /\ failed' = [failed EXCEPT ![p] = @ + failures]
    /\ Goto(p, "delete")

\* Fault: an error of rawMutate is printed but not counted.
DeleteLost_NotCounted(p) ==
    /\ pc[p] = "await"
    /\ Continue(p, 0)
    /\ UNCHANGED <<server, flags, todo, rows, left>>

\* Fault: the DELETE has no timeout.
DeleteLost_NoTimeout(p) ==
    /\ pc[p] = "await"
    /\ \A q \in requests : q.by # p
    /\ Continue(p, 1)
    /\ UNCHANGED <<server, flags, todo, rows, left>>

\* Fault: an error of rawMutate is counted where it is printed and again after.
DeleteLost_CountedTwice(p) ==
    /\ pc[p] = "await"
    /\ Continue(p, 2)
    /\ UNCHANGED <<server, flags, todo, rows, left>>

\* No answer to the DELETE: rawMutate returns an error.
DeleteLost(p) ==
    /\ pc[p] = "await"
    /\ Continue(p, 1)
    /\ UNCHANGED <<server, flags, todo, rows, left>>

\* The polls of the task fail.
WaitFails(p) ==
    /\ pc[p] = "wait"
    /\ Continue(p, 1)
    /\ UNCHANGED <<server, flags, todo, rows, left>>

\* The wait for the task of the current row ends with it.
TaskSeen(p, verdict) ==
    /\ pc[p] = verdict
    /\ Continue(p, IF verdict = "task failed" THEN 1 ELSE 0)
    /\ UNCHANGED <<server, flags, todo, rows, left>>

Return(p) ==
    /\ pc[p] = "delete"
    /\ left[p] = {}
    /\ Goto(p, IF failed[p] > 0 THEN "failed" ELSE "ok")
    /\ UNCHANGED <<server, flags, todo, rows, left, current, failed>>

(***************************************************************************)
(* The server, and others.                                                 *)
(***************************************************************************)
Awaits(q, where) == pc[q.by] = where /\ q.row \in current[q.by]

\* The server starts a task, and the answer, its id, may get lost.
Accept(q) ==
    /\ q \in requests
    /\ requests' = requests \ {q}
    /\ tasks' = tasks \cup {q}
    /\ \/ /\ Awaits(q, "await")
          /\ IF structured[q.by]
             THEN Continue(q.by, 0)
             ELSE Goto(q.by, "wait") /\ UNCHANGED <<current, failed>>
       \/ UNCHANGED <<pc, current, failed>>
    /\ UNCHANGED <<clock, snaps, flags, todo, rows, left>>

Refuse(q) ==
    /\ q \in requests
    /\ requests' = requests \ {q}
    /\ \/ Awaits(q, "await") /\ Continue(q.by, 1)
       \/ UNCHANGED <<pc, current, failed>>
    /\ UNCHANGED <<clock, snaps, tasks, flags, todo, rows, left>>

TellWaiter(q, verdict) ==
    IF Awaits(q, "wait") THEN Goto(q.by, verdict) ELSE UNCHANGED pc

\* The task deletes the snapshot that has the name now.
TaskDeletes(q) ==
    /\ q \in tasks
    /\ q.row.name \in DOMAIN snaps[q.row.guest]
    /\ tasks' = tasks \ {q}
    /\ snaps' = [snaps EXCEPT ![q.row.guest] =
                    [n \in DOMAIN @ \ {q.row.name} |-> @[n]]]
    /\ TellWaiter(q, "task ok")
    /\ UNCHANGED <<clock, requests, flags, todo, rows, left, current, failed>>

\* No such snapshot, or the storage cannot delete it.
TaskFails(q) ==
    /\ q \in tasks
    /\ tasks' = tasks \ {q}
    /\ TellWaiter(q, "task failed")
    /\ UNCHANGED <<clock, snaps, requests, flags, todo, rows, left, current, failed>>

\* Someone takes a snapshot; time passes.
Take(g, n) ==
    /\ clock < MaxClock
    /\ clock' = clock + 1
    /\ n \notin DOMAIN snaps[g]
    /\ snaps' = [snaps EXCEPT ![g] =
                    [m \in DOMAIN @ \cup {n} |-> IF m = n THEN clock + 1 ELSE @[m]]]
    /\ UNCHANGED <<requests, tasks, flags, pc, todo, rows, left, current, failed>>

\* Someone deletes a snapshot.
Drop(g, n) ==
    /\ n \in DOMAIN snaps[g]
    /\ snaps' = [snaps EXCEPT ![g] = [m \in DOMAIN @ \ {n} |-> @[m]]]
    /\ UNCHANGED <<clock, requests, tasks, flags, pc, todo, rows, left, current, failed>>

PruneStep(p) ==
    \/ Start(p)
    \/ \E g \in Guests : collectSnapshots(p, g)
    \/ Choose(p)
    \/ \E r \in left[p] : Delete(p, r)
    \/ DeleteLost(p)
    \/ \E verdict \in {"task ok", "task failed"} : TaskSeen(p, verdict)
    \/ Return(p)

Next ==
    \/ \E p \in Prunes : PruneStep(p) \/ Confirm(p) \/ Decline(p) \/ WaitFails(p)
    \/ \E q \in requests : Accept(q) \/ Refuse(q)
    \/ \E q \in tasks : TaskDeletes(q) \/ TaskFails(q)
    \/ \E g \in Guests, n \in Names : Take(g, n) \/ Drop(g, n)

Spec == Init /\ [][Next]_vars

\* A call ends by an answer or a timeout. The wait for a task has no timeout.
FairSpec == Spec /\ \A p \in Prunes : WF_vars(PruneStep(p))

(***************************************************************************)
(* Properties.                                                             *)
(***************************************************************************)
Ended == {"ok", "failed"}

\* Types; no more deletions fail than were chosen.
TypeOK ==
    /\ clock \in Dates
    /\ snaps \in [Guests -> Snapshots]
    /\ requests \cup tasks \subseteq [by : Prunes, row : Rows]
    /\ pc \in [Prunes -> {"idle", "collect", "confirm", "delete", "await", "wait",
                          "task ok", "task failed"} \cup Ended]
    /\ cutoff \in [Prunes -> Int]
    /\ todo \in [Prunes -> SUBSET Guests]
    /\ rows \in [Prunes -> SUBSET Rows]
    /\ left \in [Prunes -> SUBSET Rows]
    /\ current \in [Prunes -> SUBSET Rows]
    /\ \A p \in Prunes : failed[p] \in 0..Cardinality(rows[p])
    /\ dryRun \in [Prunes -> BOOLEAN] /\ structured \in [Prunes -> BOOLEAN]

\* Exit code 0 of a prune that waits for its tasks: none of the snapshots it
\* showed is left, whatever deletion failed or was never answered.
SuccessIsDeleted ==
    \A p \in Prunes : pc[p] = "ok" /\ ~dryRun[p] /\ ~structured[p] =>
        \A r \in rows[p] : ~Present(r)

\* "never delete something we can't date", and "--dry-run previews only and
\* never deletes": also when names are used again between list and deletion.
DeletesAreAllowed ==
    [][\A q \in tasks \ tasks' : snaps' # snaps =>
          ~dryRun[q.by] /\ snaps[q.row.guest][q.row.name] > 0]_vars

\* A confirmed prune ends, unless it waits for a task that never does.
ConfirmedPruneEnds ==
    \A p \in Prunes :
        <>[](pc[p] = "wait") \/ (pc[p] = "delete" ~> pc[p] \in Ended)
=============================================================================
