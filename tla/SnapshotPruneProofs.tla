------------------------ MODULE SnapshotPruneProofs ------------------------
(***************************************************************************)
(* For any guests, names, cutoffs and prunes, with others who take        *)
(* and delete snapshots meanwhile: exit code 0 means that what was shown   *)
(* is gone, and nothing without a date is ever deleted.                    *)
(***************************************************************************)
EXTENDS SnapshotPrune, FiniteSetTheorems, TLAPS

USE ClockAssumption, GuestsAssumption, CutoffsAssumption
    DEF ClockAssumption, GuestsAssumption, CutoffsAssumption

LEMMA CutoffsAreInts ==
    ASSUME clock \in Nat, NEW c \in pruneCutoffs
    PROVE  c \in Int
<1>1. \A age \in Ages : clock - age \in Int
  <2>1. \A age \in Ages : age \in Int
    BY CutoffsAssumption
  <2> QED
    BY <2>1
<1>2. \A b \in Befores : b \in Int
  BY CutoffsAssumption
<1>3. c \in Befores \/ \E age \in Ages : c = clock - age
  BY DEF pruneCutoffs
<1> QED
  BY <1>1, <1>2, <1>3

(***************************************************************************)
(* Snapshots: one that is gone never comes back, since a new one under its *)
(* name has a later date; and a name that was dated stays dated.           *)
(***************************************************************************)
SnapsOK ==
    /\ clock \in Dates
    /\ DOMAIN snaps = Guests
    /\ \A g \in Guests : /\ DOMAIN snaps[g] \subseteq Names
                         /\ \A n \in DOMAIN snaps[g] : snaps[g][n] \in 0..clock

Dated(r) ==
    /\ r.time > 0
    /\ r.name \in DOMAIN snaps[r.guest] => snaps[r.guest][r.name] > 0

\* What may happen to the snapshots: some go, some come, dated by the clock.
Evolves ==
    /\ clock' \in Dates /\ clock' >= clock
    /\ \A g \in Guests : \A n \in DOMAIN snaps'[g] :
          \/ n \in DOMAIN snaps[g] /\ snaps'[g][n] = snaps[g][n]
          \/ snaps'[g][n] = clock' /\ clock' > clock

LEMMA PresentIs ==
    ASSUME NEW r \in Rows
    PROVE  /\ Present(r) => /\ r.name \in DOMAIN snaps[r.guest]
                            /\ snaps[r.guest][r.name] = r.time
           /\ Present(r)' => /\ r.name \in DOMAIN snaps'[r.guest]
                             /\ snaps'[r.guest][r.name] = r.time
BY DEF Present, RowsOf, Rows

LEMMA IsPresent ==
    ASSUME NEW r \in Rows, r.name \in DOMAIN snaps[r.guest],
           snaps[r.guest][r.name] = r.time
    PROVE  Present(r)
BY DEF Present, RowsOf, Rows

LEMMA Persist ==
    ASSUME SnapsOK, Evolves, NEW r \in Rows, r.time <= clock
    PROVE  /\ r.time <= clock'
           /\ ~Present(r) => ~Present(r)'
           /\ Dated(r) => Dated(r)'
<1>1. r.guest \in Guests /\ r.time \in Nat /\ clock \in Nat /\ clock' \in Nat
  BY DEF SnapsOK, Evolves, Rows, Dates
<1>2. ASSUME Present(r)' PROVE Present(r)
  <2>1. r.name \in DOMAIN snaps'[r.guest] /\ snaps'[r.guest][r.name] = r.time
    BY <1>2, PresentIs
  <2>2. ~(snaps'[r.guest][r.name] = clock' /\ clock' > clock)
    BY <1>1, <2>1
  <2>3. r.name \in DOMAIN snaps[r.guest] /\ snaps[r.guest][r.name] = r.time
    BY <1>1, <2>1, <2>2 DEF Evolves
  <2> QED
    BY <2>3, IsPresent
<1>3. ASSUME Dated(r) PROVE Dated(r)'
  <2> DEFINE n == r.name
             new == snaps'[r.guest]
  <2>1. SUFFICES ASSUME n \in DOMAIN new PROVE new[n] > 0
    BY <1>3 DEF Dated
  <2>2. \/ n \in DOMAIN snaps[r.guest] /\ new[n] = snaps[r.guest][n]
        \/ new[n] = clock' /\ clock' > clock
    BY <1>1, <2>1 DEF Evolves
  <2>3. CASE n \in DOMAIN snaps[r.guest] /\ new[n] = snaps[r.guest][n]
    BY <1>3, <2>3 DEF Dated
  <2>4. CASE new[n] = clock' /\ clock' > clock
    BY <1>1, <2>4
  <2> QED
    BY <2>2, <2>3, <2>4
<1>4. r.time <= clock'
  BY <1>1 DEF Evolves
<1> QED
  BY <1>2, <1>3, <1>4

----------------------------------------------------------------------------
(***************************************************************************)
(* The invariant. What a prune has shown and neither still has to delete   *)
(* nor is deleting is gone, as long as nothing failed.                     *)
(***************************************************************************)
Deleting == {"await", "wait", "task ok", "task failed"}

RowOK(r) == r \in Rows /\ r.time <= clock /\ (r.time > 0 => Dated(r))

PInv(p) ==
    /\ failed[p] \in Nat /\ cutoff[p] \in Int
    /\ \A r \in rows[p] : RowOK(r)
    /\ left[p] \subseteq rows[p] /\ current[p] \subseteq rows[p]
    /\ \A r \in left[p] : r.time > 0
    /\ dryRun[p] => left[p] = {}
    /\ \A r, s \in current[p] : r = s
    /\ pc[p] \notin Deleting => current[p] = {}
    /\ pc[p] \in {"idle", "collect", "confirm"} => failed[p] = 0
    /\ pc[p] = "ok" => failed[p] = 0 /\ left[p] = {}
    /\ (~structured[p] /\ failed[p] = 0 /\ pc[p] \in Deleting \cup {"confirm", "delete"}) =>
          \A r \in rows[p] \ (left[p] \cup current[p]) : ~Present(r)
    /\ (~structured[p] /\ ~dryRun[p] /\ pc[p] = "ok") => \A r \in rows[p] : ~Present(r)
    /\ pc[p] = "task ok" => \A r \in current[p] : ~Present(r)

QInv ==
    \A q \in requests \cup tasks :
        q.by \in Prunes /\ ~dryRun[q.by] /\ RowOK(q.row) /\ q.row.time > 0

Functions ==
    /\ DOMAIN pc = Prunes /\ DOMAIN cutoff = Prunes /\ DOMAIN rows = Prunes
    /\ DOMAIN left = Prunes /\ DOMAIN current = Prunes /\ DOMAIN failed = Prunes

Inv == SnapsOK /\ Functions /\ QInv /\ \A p \in Prunes : PInv(p)

LEMMA RowKeeps ==
    ASSUME SnapsOK, Evolves, NEW r, RowOK(r)
    PROVE  RowOK(r)' /\ (~Present(r) => ~Present(r)')
BY Persist DEF RowOK

\* A prune that does nothing meanwhile.
LEMMA Untouched ==
    ASSUME SnapsOK, Evolves, NEW p, PInv(p), UNCHANGED <<dryRun, structured>>,
           pc'[p] = pc[p], cutoff'[p] = cutoff[p], rows'[p] = rows[p],
           left'[p] = left[p], current'[p] = current[p], failed'[p] = failed[p]
    PROVE  PInv(p)'
BY RowKeeps DEF PInv

LEMMA Same ==
    ASSUME SnapsOK, UNCHANGED <<clock, snaps>>
    PROVE  /\ SnapsOK' /\ Evolves
           /\ \A r : Present(r)' = Present(r) /\ RowOK(r)' = RowOK(r)
BY DEF SnapsOK, Evolves, Present, RowsOf, RowOK, Dated, Dates

\* What is asked of the server stays what it was.
LEMMA QueueKeeps ==
    ASSUME SnapsOK, Evolves, QInv, UNCHANGED dryRun,
           requests' \cup tasks' \subseteq requests \cup tasks
    PROVE  QInv'
BY RowKeeps DEF QInv

LEMMA InvInit == Init => Inv
<1> SUFFICES ASSUME Init
             PROVE  Inv
  OBVIOUS
<1>1. SnapsOK
  BY DEF Init, SnapsOK, Dates
<1>2. Functions /\ QInv
  BY DEF Init, Functions, QInv
<1>3. ASSUME NEW p \in Prunes PROVE PInv(p)
  <2>1. /\ pc[p] = "idle" /\ cutoff[p] = 0 /\ rows[p] = {} /\ left[p] = {}
        /\ current[p] = {} /\ failed[p] = 0
    BY DEF Init
  <2> QED
    BY <2>1 DEF PInv, Deleting
<1> QED
  BY <1>1, <1>2, <1>3 DEF Inv

----------------------------------------------------------------------------
(***************************************************************************)
(* A step of one prune, which leaves the snapshots alone.                  *)
(***************************************************************************)
Others(p) ==
    \A o \in Prunes \ {p} :
        /\ pc'[o] = pc[o] /\ cutoff'[o] = cutoff[o] /\ rows'[o] = rows[o]
        /\ left'[o] = left[o] /\ current'[o] = current[o] /\ failed'[o] = failed[o]

LEMMA OnePrune ==
    ASSUME Inv, NEW p \in Prunes, PInv(p)', Others(p), Functions', QInv',
           UNCHANGED <<clock, snaps, dryRun, structured>>
    PROVE  Inv'
BY Same, Untouched DEF Inv, Others

\* Choosing.
LEMMA ChoosingKeeps ==
    ASSUME Inv, NEW p \in Prunes,
           \/ Start(p) \/ Choose(p) \/ Confirm(p) \/ Decline(p)
           \/ \E g \in Guests : collectSnapshots(p, g)
    PROVE  Inv'
<1> USE DEF Goto
<1>1. /\ Others(p) /\ Functions'
      /\ UNCHANGED <<clock, snaps, requests, tasks, dryRun, structured>>
  BY DEF Start, Choose, Confirm, Decline, collectSnapshots, server, flags,
         Others, Functions, Inv
<1>2. QInv'
  BY <1>1, Same, QueueKeeps DEF Inv
<1>3. PInv(p) /\ (\A r : Present(r)' = Present(r) /\ RowOK(r)' = RowOK(r))
  BY <1>1, Same DEF Inv
<1>4. CASE Start(p)
  <2>1. cutoff'[p] \in Int
    <3>1. PICK c \in pruneCutoffs : cutoff' = [cutoff EXCEPT ![p] = c]
      BY <1>4 DEF Start
    <3>2. cutoff'[p] = c /\ clock \in Nat
      BY <3>1 DEF Inv, Functions, SnapsOK, Dates
    <3> QED
      BY <3>1, <3>2, CutoffsAreInts
  <2>2. /\ pc[p] = "idle" /\ pc'[p] \in {"collect", "failed"}
        /\ rows'[p] = rows[p] /\ left'[p] = left[p] /\ current'[p] = current[p]
        /\ failed'[p] = failed[p]
    BY <1>4 DEF Start, Inv, Functions
  <2>3. PInv(p)'
    BY <1>1, <1>3, <2>1, <2>2 DEF PInv, Deleting
  <2> QED
    BY <1>1, <1>2, <2>3, OnePrune
<1>5. ASSUME NEW g \in Guests, collectSnapshots(p, g) PROVE Inv'
  <2>1. \A r \in RowsOf(g) : RowOK(r)
    BY DEF RowsOf, RowOK, Rows, Dated, Inv, SnapsOK, Dates
  <2>2. /\ pc[p] = "collect" /\ pc'[p] = pc[p] /\ cutoff'[p] = cutoff[p]
        /\ rows'[p] = rows[p] \/ rows'[p] = rows[p] \cup RowsOf(g)
        /\ left'[p] = left[p] /\ current'[p] = current[p] /\ failed'[p] = failed[p]
    BY <1>5 DEF collectSnapshots, flags, Inv, Functions
  <2>3. PInv(p)'
    BY <1>1, <1>3, <2>1, <2>2 DEF PInv, Deleting
  <2> QED
    BY <1>1, <1>2, <2>3, OnePrune
<1>6. CASE Choose(p)
  <2> DEFINE chosen == {r \in rows[p] : stale(p, r)}
  <2>1. /\ pc[p] = "collect" /\ pc'[p] = IF chosen = {} \/ dryRun[p] THEN "ok" ELSE "confirm"
        /\ cutoff'[p] = cutoff[p] /\ rows'[p] = chosen
        /\ left'[p] = IF dryRun[p] THEN {} ELSE chosen
        /\ current'[p] = current[p] /\ failed'[p] = failed[p]
    BY <1>6 DEF Choose, flags, Inv, Functions
  <2>2. \A r \in chosen : r \in rows[p] /\ r.time > 0
    BY DEF stale
  <2> HIDE DEF chosen
  <2>3. PInv(p)'
    BY <1>1, <1>3, <2>1, <2>2 DEF PInv, Deleting
  <2> QED
    BY <1>1, <1>2, <2>3, OnePrune
<1>7. CASE Confirm(p) \/ Decline(p)
  <2>1. /\ pc[p] = "confirm" /\ pc'[p] \in {"delete", "failed"}
        /\ cutoff'[p] = cutoff[p] /\ rows'[p] = rows[p] /\ left'[p] = left[p]
        /\ current'[p] = current[p] /\ failed'[p] = failed[p]
    BY <1>7 DEF Confirm, Decline, flags, Inv, Functions
  <2>2. PInv(p)'
    BY <1>1, <1>3, <2>1 DEF PInv, Deleting
  <2> QED
    BY <1>1, <1>2, <2>2, OnePrune
<1> QED
  BY <1>4, <1>5, <1>6, <1>7

\* Deleting: one row after the other, each failure counted.
LEMMA ContinueKeeps ==
    ASSUME Inv, NEW p \in Prunes, NEW k \in {0, 1}, Continue(p, k),
           pc[p] \in Deleting,
           k = 0 => structured[p] \/ \A r \in current[p] : ~Present(r),
           UNCHANGED <<clock, snaps, flags, rows, left>>,
           requests' \cup tasks' \subseteq requests \cup tasks
    PROVE  Inv'
<1>1. Others(p) /\ Functions'
  BY DEF Continue, Goto, flags, Others, Functions, Inv
<1>2. QInv'
  BY Same, QueueKeeps DEF Inv, flags
<1>3. PInv(p) /\ (\A r : Present(r)' = Present(r) /\ RowOK(r)' = RowOK(r))
  BY Same DEF Inv, flags
<1>4. /\ pc'[p] = "delete" /\ current'[p] = {} /\ failed'[p] = failed[p] + k
      /\ cutoff' = cutoff /\ rows' = rows /\ left' = left
      /\ dryRun' = dryRun /\ structured' = structured
  BY DEF Continue, Goto, flags, Inv, Functions
<1>5. failed'[p] \in Nat /\ (failed'[p] = 0 => k = 0 /\ failed[p] = 0)
  <2>1. failed[p] \in Nat
    BY <1>3, Zenon DEF PInv
  <2> QED
    BY <1>4, <2>1
<1>6. (~structured[p] /\ failed'[p] = 0) => \A r \in rows[p] \ left[p] : ~Present(r)
  BY <1>3, <1>5 DEF PInv
<1>7. PInv(p)'
  BY <1>3, <1>4, <1>5, <1>6 DEF PInv, Deleting
<1> QED
  BY <1>1, <1>2, <1>7, OnePrune DEF flags

DeletingStep(p) ==
    \/ \E r \in left[p] : Delete(p, r)
    \/ DeleteLost(p) \/ WaitFails(p) \/ Return(p)
    \/ \E verdict \in {"task ok", "task failed"} : TaskSeen(p, verdict)

LEMMA DeletingKeeps ==
    ASSUME Inv, NEW p \in Prunes, DeletingStep(p)
    PROVE  Inv'
<1>0. 1 \in {0, 1} /\ 1 # 0
  OBVIOUS
<1>1. PInv(p)
  BY DEF Inv
<1>2. ASSUME NEW r \in left[p], Delete(p, r) PROVE Inv'
  <2>1. Others(p) /\ Functions' /\ UNCHANGED <<clock, snaps, dryRun, structured>>
    BY <1>2 DEF Delete, Goto, flags, Others, Functions, Inv
  <2>2. \A o : Present(o)' = Present(o) /\ RowOK(o)' = RowOK(o)
    BY <2>1, Same DEF Inv
  <2>3. /\ pc[p] = "delete" /\ pc'[p] = "await"
        /\ cutoff'[p] = cutoff[p] /\ rows'[p] = rows[p] /\ failed'[p] = failed[p]
        /\ left'[p] = left[p] \ {r} /\ current'[p] = {r}
    BY <1>2 DEF Delete, Goto, flags, Inv, Functions
  <2>4. PInv(p)'
    BY <1>1, <2>1, <2>2, <2>3 DEF PInv, Deleting
  <2>5. ~dryRun[p] /\ RowOK(r) /\ r.time > 0
    BY <1>1 DEF PInv
  <2>6. QInv'
    <3>1. requests' \cup tasks' = requests \cup tasks \cup {[by |-> p, row |-> r]}
      BY <1>2 DEF Delete
    <3> QED
      BY <2>1, <2>2, <2>5, <3>1 DEF QInv, Inv
  <2> QED
    BY <2>1, <2>4, <2>6, OnePrune
<1>3. CASE DeleteLost(p) \/ WaitFails(p)
  <2>1. /\ Continue(p, 1) /\ pc[p] \in Deleting
        /\ UNCHANGED <<clock, snaps, flags, rows, left>>
        /\ requests' \cup tasks' \subseteq requests \cup tasks
    BY <1>3 DEF DeleteLost, WaitFails, server, Deleting
  <2> QED
    BY <1>0, <2>1, ContinueKeeps, Zenon
<1>4. ASSUME NEW verdict \in {"task ok", "task failed"}, TaskSeen(p, verdict) PROVE Inv'
  <2>1. CASE verdict = "task ok"
    BY <1>1, <1>4, <2>1, ContinueKeeps DEF TaskSeen, server, Deleting, PInv
  <2>2. CASE verdict = "task failed"
    <3>1. /\ Continue(p, 1) /\ pc[p] \in Deleting
          /\ UNCHANGED <<clock, snaps, flags, rows, left>>
          /\ requests' \cup tasks' \subseteq requests \cup tasks
      BY <1>4, <2>2 DEF TaskSeen, server, Deleting
    <3> QED
      BY <1>0, <3>1, ContinueKeeps, Zenon
  <2> QED
    BY <2>1, <2>2
<1>5. CASE Return(p)
  <2>1. /\ Others(p) /\ Functions'
        /\ UNCHANGED <<clock, snaps, requests, tasks, dryRun, structured>>
    BY <1>5 DEF Return, Goto, server, flags, Others, Functions, Inv
  <2>2. QInv' /\ \A o : Present(o)' = Present(o) /\ RowOK(o)' = RowOK(o)
    BY <2>1, Same, QueueKeeps DEF Inv
  <2>3. /\ pc[p] = "delete" /\ left[p] = {}
        /\ pc'[p] = IF failed[p] > 0 THEN "failed" ELSE "ok"
        /\ cutoff'[p] = cutoff[p] /\ rows'[p] = rows[p] /\ failed'[p] = failed[p]
        /\ left'[p] = left[p] /\ current'[p] = current[p]
    BY <1>5 DEF Return, Goto, flags, Inv, Functions
  <2>4. failed[p] > 0 \/ failed[p] = 0
    <3>1. failed[p] \in Nat
      BY <1>1, Zenon DEF PInv
    <3> QED
      BY <3>1
  <2>5. PInv(p)'
    BY <1>1, <2>1, <2>2, <2>3, <2>4 DEF PInv, Deleting
  <2> QED
    BY <2>1, <2>2, <2>5, OnePrune
<1> QED
  BY <1>2, <1>3, <1>4, <1>5 DEF DeletingStep

----------------------------------------------------------------------------
(***************************************************************************)
(* The server, and others.                                                 *)
(***************************************************************************)
\* Nobody's place changes but that of p, which waited for its task.
LEMMA TaskEnds ==
    ASSUME Inv, SnapsOK', Evolves, NEW q \in tasks, NEW verdict \in {"task ok", "task failed"},
           TellWaiter(q, verdict), verdict = "task ok" => ~Present(q.row)',
           tasks' = tasks \ {q}, UNCHANGED <<requests, flags, todo, rows, left, current, failed>>
    PROVE  Inv'
<1>1. QInv' /\ Functions'
  BY QueueKeeps DEF Inv, flags, Functions, TellWaiter, Goto
<1>2. ASSUME NEW p \in Prunes PROVE PInv(p)'
  <2>1. PInv(p) /\ UNCHANGED <<dryRun, structured>>
    BY DEF Inv, flags
  <2>2. CASE pc'[p] = pc[p]
    BY <2>1, <2>2, Untouched DEF Inv, flags
  <2>3. CASE pc'[p] # pc[p]
    <3>1. pc[p] = "wait" /\ pc'[p] = verdict /\ q.row \in current[p]
      BY <2>3 DEF TellWaiter, Goto, Awaits, Inv, Functions
    <3>2. \A r : RowOK(r) => RowOK(r)' /\ (~Present(r) => ~Present(r)')
      BY RowKeeps DEF Inv
    <3>3. verdict = "task ok" => \A r \in current[p] : ~Present(r)'
      BY <2>1, <3>1 DEF PInv
    <3>4. /\ cutoff' = cutoff /\ rows' = rows /\ left' = left /\ current' = current
          /\ failed' = failed
      BY DEF flags
    <3> QED
      BY <2>1, <3>1, <3>2, <3>3, <3>4 DEF PInv, Deleting
  <2> QED
    BY <2>2, <2>3
<1> QED
  BY <1>1, <1>2 DEF Inv

LEMMA ServerKeeps ==
    ASSUME Inv, NEW q,
           \/ q \in requests /\ (Accept(q) \/ Refuse(q))
           \/ q \in tasks /\ (TaskDeletes(q) \/ TaskFails(q))
    PROVE  Inv'
<1>1. q.by \in Prunes /\ RowOK(q.row) /\ PInv(q.by)
  BY DEF Inv, QInv
<1>2. CASE Accept(q) \/ Refuse(q)
  <2>1. /\ requests' \cup tasks' \subseteq requests \cup tasks
        /\ UNCHANGED <<clock, snaps, flags, rows, left>>
    BY <1>2 DEF Accept, Refuse
  <2>2. CASE /\ pc[q.by] = "await"
             /\ \/ structured[q.by] /\ Continue(q.by, 0)
                \/ Continue(q.by, 1)
    <3>1. pc[q.by] \in Deleting
      BY <2>2 DEF Deleting
    <3>2. CASE structured[q.by] /\ Continue(q.by, 0)
      BY <1>1, <2>1, <3>1, <3>2, ContinueKeeps, Zenon
    <3>3. CASE Continue(q.by, 1)
      <4>1. 1 \in {0, 1} /\ 1 # 0
        OBVIOUS
      <4> QED
        BY <1>1, <2>1, <3>1, <3>3, <4>1, ContinueKeeps, Zenon
    <3> QED
      BY <2>2, <3>2, <3>3
  <2>3. CASE /\ \/ pc[q.by] = "await" /\ Goto(q.by, "wait")
                \/ UNCHANGED pc
             /\ UNCHANGED <<current, failed>>
    <3>1. /\ pc'[q.by] = pc[q.by] \/ (pc[q.by] = "await" /\ pc'[q.by] = "wait")
          /\ Others(q.by) /\ Functions'
      <4>1. \/ pc' = pc
            \/ pc[q.by] = "await" /\ pc' = [pc EXCEPT ![q.by] = "wait"]
        BY <2>3 DEF Goto
      <4> QED
        BY <1>1, <2>1, <2>3, <4>1 DEF flags, Others, Functions, Inv
    <3>2. QInv' /\ \A o : Present(o)' = Present(o) /\ RowOK(o)' = RowOK(o)
      BY <2>1, Same, QueueKeeps DEF Inv, flags
    <3>3. /\ cutoff' = cutoff /\ rows' = rows /\ left' = left /\ current' = current
          /\ failed' = failed /\ dryRun' = dryRun /\ structured' = structured
      BY <2>1, <2>3 DEF flags
    <3>4. PInv(q.by)'
      BY <1>1, <3>1, <3>2, <3>3 DEF PInv, Deleting
    <3> QED
      BY <1>1, <2>1, <3>1, <3>2, <3>4, OnePrune DEF flags
  <2> QED
    BY <1>2, <2>2, <2>3 DEF Accept, Refuse, Awaits
<1>3. CASE q \in tasks /\ TaskDeletes(q)
  <2> DEFINE g == q.row.guest
             n == q.row.name
  <2>1. /\ n \in DOMAIN snaps[g] /\ UNCHANGED clock
        /\ snaps' = [snaps EXCEPT ![g] = [m \in DOMAIN @ \ {n} |-> @[m]]]
    BY <1>3 DEF TaskDeletes
  <2>2. g \in Guests /\ q.row \in Rows
    BY <1>1 DEF RowOK, Rows
  <2>3. SnapsOK' /\ Evolves
    BY <2>1, <2>2 DEF Inv, SnapsOK, Evolves, Dates
  <2>4. ~Present(q.row)'
    <3>1. n \notin DOMAIN snaps'[g]
      BY <2>1, <2>2 DEF Inv, SnapsOK
    <3> QED
      BY <2>2, <3>1, PresentIs
  <2> QED
    BY <1>3, <2>3, <2>4, TaskEnds DEF TaskDeletes
<1>4. CASE q \in tasks /\ TaskFails(q)
  <2>1. SnapsOK' /\ Evolves
    BY <1>4, Same DEF TaskFails, Inv
  <2> QED
    BY <1>4, <2>1, TaskEnds DEF TaskFails
<1> QED
  BY <1>2, <1>3, <1>4

LEMMA PeopleKeep ==
    ASSUME Inv, NEW g \in Guests, NEW n \in Names, Take(g, n) \/ Drop(g, n)
    PROVE  Inv'
<1>1. /\ SnapsOK' /\ Evolves
      /\ UNCHANGED <<requests, tasks, flags, pc, rows, left, current, failed>>
  <2>1. CASE Take(g, n)
    BY <2>1 DEF Take, Inv, SnapsOK, Evolves, Dates
  <2>2. CASE Drop(g, n)
    BY <2>2 DEF Drop, Inv, SnapsOK, Evolves, Dates
  <2> QED
    BY <2>1, <2>2
<1>2. QInv' /\ Functions'
  BY <1>1, QueueKeeps DEF Inv, flags, Functions
<1>3. \A p \in Prunes : PInv(p)'
  BY <1>1, Untouched DEF Inv, flags
<1> QED
  BY <1>1, <1>2, <1>3 DEF Inv

LEMMA Invariant == Spec => []Inv
<1>1. Inv /\ [Next]_vars => Inv'
  <2> SUFFICES ASSUME Inv, [Next]_vars
               PROVE  Inv'
    OBVIOUS
  <2>1. ASSUME NEW p \in Prunes, PruneStep(p) \/ Confirm(p) \/ Decline(p) \/ WaitFails(p)
        PROVE  Inv'
    BY <2>1, ChoosingKeeps, DeletingKeeps DEF PruneStep, DeletingStep
  <2>2. CASE UNCHANGED vars
    BY <2>2, Same, QueueKeeps, Untouched DEF Inv, Functions, vars, server, flags
  <2> QED
    BY <2>1, <2>2, ServerKeeps, PeopleKeep DEF Next
<1> QED
  BY <1>1, InvInit, PTL DEF Spec

\* Exit code 0 of a prune that waits: nothing of what it showed is left,
\* whatever failed or was never answered.
THEOREM SuccessIsDeletedHolds == Spec => []SuccessIsDeleted
<1>1. Inv => SuccessIsDeleted
  BY DEF Inv, PInv, SuccessIsDeleted
<1> QED
  BY <1>1, Invariant, PTL

\* What a deletion removes has a date, and no dry run asked for it.
THEOREM DeletesAreAllowedHolds == Spec => DeletesAreAllowed
<1>1. Inv /\ [Next]_vars =>
        [\A q \in tasks \ tasks' : snaps' # snaps =>
            ~dryRun[q.by] /\ snaps[q.row.guest][q.row.name] > 0]_vars
  <2> SUFFICES ASSUME Inv, Next, NEW q \in tasks \ tasks', snaps' # snaps
               PROVE  ~dryRun[q.by] /\ snaps[q.row.guest][q.row.name] > 0
    OBVIOUS
  <2>1. ~dryRun[q.by] /\ Dated(q.row)
    BY DEF Inv, QInv, RowOK
  <2>2. TaskDeletes(q)
    <3>1. ASSUME NEW p \in Prunes,
                 PruneStep(p) \/ Confirm(p) \/ Decline(p) \/ WaitFails(p)
          PROVE  snaps' = snaps
      BY <3>1 DEF PruneStep, Start, collectSnapshots, Choose, Delete, DeleteLost, TaskSeen,
                  Return, Confirm, Decline, WaitFails, server
    <3>2. ASSUME NEW t \in requests, Accept(t) \/ Refuse(t) PROVE snaps' = snaps
      BY <3>2 DEF Accept, Refuse
    <3>3. ASSUME NEW t \in tasks, TaskFails(t) PROVE snaps' = snaps
      BY <3>3 DEF TaskFails
    <3>4. ASSUME NEW g \in Guests, NEW n \in Names, Take(g, n) \/ Drop(g, n)
          PROVE  tasks' = tasks
      BY <3>4 DEF Take, Drop
    <3>5. ASSUME NEW t \in tasks, TaskDeletes(t) PROVE t = q
      BY <3>5 DEF TaskDeletes
    <3> QED
      BY <3>1, <3>2, <3>3, <3>4, <3>5 DEF Next
  <2> QED
    BY <2>1, <2>2 DEF TaskDeletes, Dated
<1> QED
  BY <1>1, Invariant, PTL DEF Spec, DeletesAreAllowed

----------------------------------------------------------------------------
(***************************************************************************)
(* Types, and the count of the failures: a row that was shown fails at     *)
(* most once, since it is still to be deleted, being deleted, or done.     *)
(***************************************************************************)
Places == {"idle", "collect", "confirm"} \cup {"delete"} \cup Deleting \cup Ended

TInv ==
    /\ clock \in Dates
    /\ snaps \in [Guests -> Snapshots]
    /\ requests \cup tasks \subseteq [by : Prunes, row : Rows]
    /\ pc \in [Prunes -> Places]
    /\ cutoff \in [Prunes -> Int]
    /\ todo \in [Prunes -> SUBSET Guests]
    /\ rows \in [Prunes -> SUBSET Rows]
    /\ left \in [Prunes -> SUBSET Rows]
    /\ current \in [Prunes -> SUBSET Rows]
    /\ failed \in [Prunes -> Nat]
    /\ dryRun \in [Prunes -> BOOLEAN] /\ structured \in [Prunes -> BOOLEAN]

Counted(p) ==
    /\ pc[p] \in {"idle", "collect"} => left[p] = {} /\ current[p] = {} /\ failed[p] = 0
    /\ pc[p] \in Deleting => \E r : current[p] = {r}
    /\ pc[p] \notin Deleting => current[p] = {}
    /\ failed[p] + Cardinality(left[p]) + Cardinality(current[p]) <= Cardinality(rows[p])

CInv == TInv /\ \A p \in Prunes : Counted(p)

LEMMA RowsAreFinite ==
    ASSUME NEW S \in SUBSET Rows
    PROVE  IsFiniteSet(S) /\ Cardinality(S) \in Nat
<1> DEFINE T == (Guests \X Names) \X Dates
           row == [t \in T |-> [guest |-> t[1][1], name |-> t[1][2], time |-> t[2]]]
<1>1. IsFiniteSet(T)
  <2>1. IsFiniteSet(Guests \X Names)
    BY FiniteAssumption, FS_Product
  <2>2. IsFiniteSet(Dates)
    BY FS_Interval DEF Dates
  <2> QED
    BY <2>1, <2>2, FS_Product
<1>2. row \in Surjection(T, Rows)
  <2>1. row \in [T -> Rows]
    BY DEF Rows
  <2>2. ASSUME NEW r \in Rows
        PROVE  \E t \in T : row[t] = r
    <3> DEFINE t == <<<<r.guest, r.name>>, r.time>>
    <3>1. t \in T
      BY DEF Rows
    <3>2. row[t] = [guest |-> r.guest, name |-> r.name, time |-> r.time]
      BY <3>1
    <3>3. r = [guest |-> r.guest, name |-> r.name, time |-> r.time]
      BY DEF Rows
    <3> QED
      BY <3>1, <3>2, <3>3
  <2> HIDE DEF row, T
  <2> QED
    BY <2>1, <2>2 DEF Surjection
<1> HIDE DEF row, T
<1>3. IsFiniteSet(Rows)
  BY <1>1, <1>2, FS_Surjection
<1> QED
  BY <1>3, FS_Subset, FS_CardinalityType

LEMMA InitCInv == Init => CInv
<1> SUFFICES ASSUME Init
             PROVE  CInv
  OBVIOUS
<1>1. snaps \in [Guests -> Snapshots]
  <2>1. \A f : f \in [Names -> {0, 1}] => f \in [Names -> Dates]
    BY DEF Dates
  <2>2. [Names -> Dates] \subseteq Snapshots
    BY DEF Snapshots
  <2> QED
    BY <2>1, <2>2 DEF Init
<1>2. TInv
  BY <1>1 DEF Init, TInv, Places, Dates
<1>3. \A p \in Prunes : Counted(p)
  BY FS_EmptySet DEF Init, Counted, Deleting
<1> QED
  BY <1>2, <1>3 DEF CInv

\* A prune that does nothing meanwhile, and one that takes a step.
LEMMA CountedStays ==
    ASSUME NEW p, Counted(p), pc'[p] = pc[p], left'[p] = left[p],
           current'[p] = current[p], failed'[p] = failed[p],
           Cardinality(rows'[p]) = Cardinality(rows[p])
    PROVE  Counted(p)'
BY DEF Counted

LEMMA OneCounts ==
    ASSUME CInv, NEW p \in Prunes, TInv', Counted(p)', Others(p)
    PROVE  CInv'
<1>1. ASSUME NEW o \in Prunes, o # p
      PROVE  Counted(o)'
  BY <1>1, CountedStays DEF CInv, Others
<1> QED
  BY <1>1 DEF CInv

LEMMA SnapsAreTyped ==
    ASSUME TInv, NEW g \in Guests, NEW f,
           snaps' = [snaps EXCEPT ![g] = f],
           DOMAIN f \subseteq Names, \A n \in DOMAIN f : f[n] \in Dates,
           f = [n \in DOMAIN f |-> f[n]]
    PROVE  snaps' \in [Guests -> Snapshots]
<1>1. f \in Snapshots
  BY DEF Snapshots
<1> QED
  BY <1>1 DEF TInv

LEMMA SnapshotsAre ==
    ASSUME TInv, NEW g \in Guests
    PROVE  /\ DOMAIN snaps[g] \subseteq Names
           /\ \A n \in DOMAIN snaps[g] : snaps[g][n] \in Dates
<1>1. snaps[g] \in Snapshots
  BY DEF TInv
<1> QED
  BY <1>1 DEF Snapshots

LEMMA Nothing == Cardinality({}) = 0
BY FS_EmptySet

\* A row is taken from what is left.
LEMMA ChoosingCounts ==
    ASSUME CInv, NEW p \in Prunes,
           \/ Start(p) \/ Choose(p) \/ Confirm(p) \/ Decline(p)
           \/ \E g \in Guests : collectSnapshots(p, g)
    PROVE  CInv'
<1> USE DEF Goto
<1>1. /\ p \in DOMAIN pc /\ p \in DOMAIN cutoff /\ p \in DOMAIN rows /\ p \in DOMAIN left
      /\ p \in DOMAIN todo /\ clock \in Dates /\ rows[p] \subseteq Rows
      /\ Counted(p) /\ failed[p] \in Nat
  BY DEF CInv, TInv
<1>2. CASE Start(p)
  <2>1. PICK c \in pruneCutoffs : cutoff' = [cutoff EXCEPT ![p] = c]
    BY <1>2 DEF Start
  <2>2. c \in Int
    BY <1>1, <2>1, CutoffsAreInts DEF Dates
  <2>3. /\ UNCHANGED <<clock, snaps, requests, tasks, dryRun, structured, rows, left,
                       current, failed>>
        /\ \/ todo' = [todo EXCEPT ![p] = Guests] /\ pc' = [pc EXCEPT ![p] = "collect"]
           \/ UNCHANGED todo /\ pc' = [pc EXCEPT ![p] = "failed"]
        /\ pc[p] = "idle"
    BY <1>2 DEF Start, server
  <2>4. TInv'
    BY <2>1, <2>2, <2>3 DEF CInv, TInv, Places, Ended
  <2>5. Counted(p)'
    BY <1>1, <2>3 DEF Counted, Deleting
  <2>6. Others(p)
    BY <2>1, <2>3 DEF Others, CInv, TInv
  <2> QED
    BY <2>4, <2>5, <2>6, OneCounts
<1>3. ASSUME NEW g \in Guests, collectSnapshots(p, g) PROVE CInv'
  <2>1. RowsOf(g) \subseteq Rows
    BY SnapshotsAre DEF RowsOf, Rows, CInv
  <2>2. /\ UNCHANGED <<clock, snaps, requests, tasks, cutoff, dryRun, structured, pc, left,
                       current, failed>>
        /\ todo' = [todo EXCEPT ![p] = @ \ {g}] /\ pc[p] = "collect"
        /\ \/ rows' = [rows EXCEPT ![p] = @ \cup RowsOf(g)]
           \/ UNCHANGED rows
    BY <1>3 DEF collectSnapshots, server, flags
  <2>3. TInv'
    BY <2>1, <2>2 DEF CInv, TInv
  <2>4. Others(p)
    BY <2>2 DEF Others, CInv, TInv
  <2>5. Cardinality(rows'[p]) \in Nat
    BY <2>3, RowsAreFinite DEF TInv
  <2>6. /\ pc'[p] = "collect" /\ left'[p] = {} /\ current'[p] = {} /\ failed'[p] = 0
    BY <1>1, <2>2 DEF Counted
  <2>7. Counted(p)'
    BY <2>5, <2>6, Nothing DEF Counted, Deleting
  <2> QED
    BY <2>3, <2>4, <2>7, OneCounts
<1>4. CASE Choose(p)
  <2> DEFINE chosen == {r \in rows[p] : stale(p, r)}
  <2>1. /\ UNCHANGED <<clock, snaps, requests, tasks, cutoff, dryRun, structured, todo,
                       current, failed>>
        /\ rows' = [rows EXCEPT ![p] = chosen] /\ pc[p] = "collect"
        /\ left' = [left EXCEPT ![p] = IF dryRun[p] THEN {} ELSE chosen]
        /\ pc' = [pc EXCEPT ![p] = IF chosen = {} \/ dryRun[p] THEN "ok" ELSE "confirm"]
    BY <1>4 DEF Choose, server, flags
  <2>2. chosen \in SUBSET Rows
    BY <1>1
  <2> HIDE DEF chosen
  <2>3. TInv'
    BY <2>1, <2>2 DEF CInv, TInv, Places, Ended
  <2>4. Others(p)
    BY <2>1 DEF Others, CInv, TInv
  <2>5. Cardinality(chosen) \in Nat
    BY <2>2, RowsAreFinite
  <2>6. /\ rows'[p] = chosen /\ left'[p] \in {{}, chosen} /\ current'[p] = {}
        /\ failed'[p] = 0 /\ pc'[p] \in {"ok", "confirm"}
    BY <1>1, <2>1 DEF Counted
  <2>7. failed'[p] + Cardinality(left'[p]) + Cardinality(current'[p])
           <= Cardinality(rows'[p])
    <3>1. CASE left'[p] = {}
      BY <2>5, <2>6, <3>1, Nothing
    <3>2. CASE left'[p] = chosen
      BY <2>5, <2>6, <3>2, Nothing
    <3> QED
      BY <2>6, <3>1, <3>2
  <2>8. Counted(p)'
    BY <2>6, <2>7 DEF Counted, Deleting
  <2> QED
    BY <2>3, <2>4, <2>8, OneCounts
<1>5. CASE Confirm(p) \/ Decline(p)
  <2>1. /\ UNCHANGED <<clock, snaps, requests, tasks, cutoff, dryRun, structured, todo, rows,
                       left, current, failed>>
        /\ pc[p] = "confirm"
        /\ pc' = [pc EXCEPT ![p] = "delete"] \/ pc' = [pc EXCEPT ![p] = "failed"]
    BY <1>5 DEF Confirm, Decline, server, flags
  <2>2. TInv' /\ Others(p)
    BY <2>1 DEF CInv, TInv, Places, Ended, Others
  <2>3. pc'[p] \in {"delete", "failed"}
    BY <1>1, <2>1
  <2>4. Counted(p)'
    BY <1>1, <2>1, <2>3 DEF Counted, Deleting
  <2> QED
    BY <2>2, <2>4, OneCounts
<1> QED
  BY <1>2, <1>3, <1>4, <1>5

LEMMA ContinueCounts ==
    ASSUME CInv, NEW p \in Prunes, NEW k \in {0, 1}, Continue(p, k), pc[p] \in Deleting,
           UNCHANGED <<clock, snaps, flags, todo, rows, left>>,
           requests' \cup tasks' \subseteq requests \cup tasks
    PROVE  CInv'
<1>1. /\ current' = [current EXCEPT ![p] = {}]
      /\ failed' = [failed EXCEPT ![p] = @ + k]
      /\ pc' = [pc EXCEPT ![p] = "delete"]
      /\ UNCHANGED <<cutoff, dryRun, structured>>
  BY DEF Continue, Goto, flags
<1>2. TInv'
  BY <1>1 DEF CInv, TInv, Places
<1>3. Others(p)
  BY <1>1 DEF CInv, TInv, Others
<1>4. /\ pc'[p] = "delete" /\ current'[p] = {} /\ failed'[p] = failed[p] + k
      /\ left'[p] = left[p] /\ rows'[p] = rows[p]
  BY <1>1 DEF CInv, TInv
<1>5. /\ Cardinality(current[p]) = 1 /\ Cardinality({}) = 0
      /\ Cardinality(left[p]) \in Nat /\ Cardinality(rows[p]) \in Nat /\ failed[p] \in Nat
  <2>1. \E r : current[p] = {r}
    BY DEF CInv, Counted
  <2>2. left[p] \in SUBSET Rows /\ rows[p] \in SUBSET Rows /\ failed[p] \in Nat
    BY DEF CInv, TInv
  <2> QED
    BY <2>1, <2>2, RowsAreFinite, FS_EmptySet, FS_Singleton
<1>6. failed[p] + Cardinality(left[p]) + Cardinality(current[p]) <= Cardinality(rows[p])
  BY DEF CInv, Counted
<1>7. failed'[p] + Cardinality(left'[p]) + Cardinality(current'[p]) <= Cardinality(rows'[p])
  BY <1>4, <1>5, <1>6
<1>8. Counted(p)'
  BY <1>4, <1>7 DEF Counted, Deleting
<1> QED
  BY <1>2, <1>3, <1>8, OneCounts

LEMMA DeletingCounts ==
    ASSUME CInv, NEW p \in Prunes, DeletingStep(p)
    PROVE  CInv'
<1>0. 1 \in {0, 1} /\ 0 \in {0, 1}
  OBVIOUS
<1>1. /\ Counted(p) /\ p \in DOMAIN pc /\ p \in DOMAIN left /\ p \in DOMAIN current
      /\ left[p] \in SUBSET Rows /\ rows[p] \in SUBSET Rows /\ failed[p] \in Nat
  BY DEF CInv, TInv
<1>2. ASSUME NEW r \in left[p], Delete(p, r) PROVE CInv'
  <2>1. /\ UNCHANGED <<clock, snaps, cutoff, dryRun, structured, todo, rows, failed>>
        /\ left' = [left EXCEPT ![p] = @ \ {r}] /\ current' = [current EXCEPT ![p] = {r}]
        /\ requests' \cup tasks' = requests \cup tasks \cup {[by |-> p, row |-> r]}
        /\ pc[p] = "delete" /\ pc' = [pc EXCEPT ![p] = "await"]
    BY <1>2 DEF Delete, Goto, flags
  <2>2. r \in Rows /\ [by |-> p, row |-> r] \in [by : Prunes, row : Rows]
    BY <1>1
  <2>3. TInv'
    BY <2>1, <2>2 DEF CInv, TInv, Places, Deleting
  <2>4. Others(p)
    BY <2>1 DEF CInv, TInv, Others
  <2>5. /\ pc'[p] = "await" /\ left'[p] = left[p] \ {r} /\ current'[p] = {r}
        /\ failed'[p] = failed[p] /\ rows'[p] = rows[p]
    BY <1>1, <2>1
  <2>6. /\ Cardinality(left[p] \ {r}) = Cardinality(left[p]) - 1
        /\ Cardinality({r}) = 1 /\ Cardinality({}) = 0
        /\ Cardinality(left[p]) \in Nat /\ Cardinality(rows[p]) \in Nat
    BY <1>1, RowsAreFinite, FS_RemoveElement, FS_Singleton, FS_EmptySet
  <2>7. failed[p] + Cardinality(left[p]) + 0 <= Cardinality(rows[p])
    BY <1>1, <2>1, <2>6 DEF Counted, Deleting
  <2>8. failed'[p] + Cardinality(left'[p]) + Cardinality(current'[p])
           <= Cardinality(rows'[p])
    BY <1>1, <2>5, <2>6, <2>7
  <2>9. Counted(p)'
    BY <2>5, <2>8 DEF Counted, Deleting
  <2> QED
    BY <2>3, <2>4, <2>9, OneCounts
<1>3. CASE DeleteLost(p) \/ WaitFails(p)
  <2>1. /\ Continue(p, 1) /\ pc[p] \in Deleting
        /\ UNCHANGED <<clock, snaps, flags, todo, rows, left>>
        /\ requests' \cup tasks' \subseteq requests \cup tasks
    BY <1>3 DEF DeleteLost, WaitFails, server, Deleting
  <2> QED
    BY <1>0, <2>1, ContinueCounts, Zenon
<1>4. ASSUME NEW verdict \in {"task ok", "task failed"}, TaskSeen(p, verdict) PROVE CInv'
  <2>1. /\ Continue(p, 0) \/ Continue(p, 1)
        /\ pc[p] \in Deleting
        /\ UNCHANGED <<clock, snaps, flags, todo, rows, left>>
        /\ requests' \cup tasks' \subseteq requests \cup tasks
    BY <1>4 DEF TaskSeen, server, Deleting
  <2> QED
    BY <1>0, <2>1, ContinueCounts, Zenon
<1>5. CASE Return(p)
  <2>1. /\ UNCHANGED <<clock, snaps, requests, tasks, cutoff, dryRun, structured, todo, rows,
                       left, current, failed>>
        /\ pc[p] = "delete"
        /\ pc' = [pc EXCEPT ![p] = "ok"] \/ pc' = [pc EXCEPT ![p] = "failed"]
    BY <1>5 DEF Return, Goto, server, flags
  <2>2. TInv' /\ Others(p)
    BY <2>1 DEF CInv, TInv, Places, Ended, Others
  <2>3. pc'[p] \in {"ok", "failed"}
    BY <1>1, <2>1
  <2>4. Counted(p)'
    BY <1>1, <2>1, <2>3 DEF Counted, Deleting
  <2> QED
    BY <2>2, <2>4, OneCounts
<1> QED
  BY <1>2, <1>3, <1>4, <1>5 DEF DeletingStep

\* The server moves at most one prune, from one place of a deletion to another.
LEMMA ServerCounts ==
    ASSUME CInv, NEW q,
           \/ q \in requests /\ (Accept(q) \/ Refuse(q))
           \/ q \in tasks /\ (TaskDeletes(q) \/ TaskFails(q))
    PROVE  CInv'
<1>0. q.by \in Prunes /\ q.row \in Rows /\ q.row.guest \in Guests
  <2>1. q \in [by : Prunes, row : Rows]
    BY DEF CInv, TInv
  <2> QED
    BY <2>1 DEF Rows
<1>1. ASSUME pc[q.by] \in Deleting, NEW where \in Deleting, Goto(q.by, where) \/ UNCHANGED pc,
             UNCHANGED <<flags, todo, rows, left, current, failed>>,
             clock' \in Dates, snaps' \in [Guests -> Snapshots],
             requests' \cup tasks' \subseteq requests \cup tasks
      PROVE  CInv'
  <2>1. /\ UNCHANGED <<cutoff, dryRun, structured, todo, rows, left, current, failed>>
        /\ pc' = pc \/ pc' = [pc EXCEPT ![q.by] = where]
    BY <1>1 DEF Goto, flags
  <2>2. TInv'
    BY <1>1, <2>1 DEF CInv, TInv, Places
  <2>3. Others(q.by)
    BY <2>1 DEF CInv, TInv, Others
  <2>4. pc'[q.by] \in Deleting
    BY <1>0, <1>1, <2>1 DEF CInv, TInv
  <2>5. Counted(q.by)
    BY <1>0 DEF CInv
  <2>6. Counted(q.by)'
    BY <1>1, <2>1, <2>4, <2>5 DEF Counted, Deleting
  <2> QED
    BY <1>0, <2>2, <2>3, <2>6, OneCounts
<1>2. ASSUME UNCHANGED <<pc, flags, todo, rows, left, current, failed>>,
             clock' \in Dates, snaps' \in [Guests -> Snapshots],
             requests' \cup tasks' \subseteq requests \cup tasks
      PROVE  CInv'
  BY <1>2 DEF CInv, TInv, Counted, flags
<1>3. clock \in Dates /\ snaps \in [Guests -> Snapshots]
  BY DEF CInv, TInv
<1>4. CASE Accept(q) \/ Refuse(q)
  <2>1. /\ requests' \cup tasks' \subseteq requests \cup tasks
        /\ UNCHANGED <<clock, snaps, flags, todo, rows, left>>
        /\ \/ pc[q.by] = "await" /\ (Continue(q.by, 0) \/ Continue(q.by, 1))
           \/ pc[q.by] = "await" /\ Goto(q.by, "wait") /\ UNCHANGED <<current, failed>>
           \/ UNCHANGED <<pc, current, failed>>
    BY <1>4 DEF Accept, Refuse, Awaits
  <2>2. "await" \in Deleting /\ "wait" \in Deleting /\ 0 \in {0, 1} /\ 1 \in {0, 1}
    BY DEF Deleting
  <2>3. clock' \in Dates /\ snaps' \in [Guests -> Snapshots]
    BY <1>3, <2>1
  <2>4. CASE pc[q.by] = "await" /\ (Continue(q.by, 0) \/ Continue(q.by, 1))
    BY <1>0, <2>1, <2>2, <2>4, ContinueCounts, Zenon
  <2>5. CASE pc[q.by] = "await" /\ Goto(q.by, "wait") /\ UNCHANGED <<current, failed>>
    BY <1>1, <2>1, <2>2, <2>3, <2>5
  <2>6. CASE UNCHANGED <<pc, current, failed>>
    BY <1>2, <2>1, <2>3, <2>6
  <2> QED
    BY <2>1, <2>4, <2>5, <2>6
<1>5. CASE q \in tasks /\ (TaskDeletes(q) \/ TaskFails(q))
  <2>1. /\ requests' \cup tasks' \subseteq requests \cup tasks
        /\ UNCHANGED <<clock, flags, todo, rows, left, current, failed>>
        /\ \/ pc[q.by] = "wait" /\ (Goto(q.by, "task ok") \/ Goto(q.by, "task failed"))
           \/ UNCHANGED pc
    BY <1>5 DEF TaskDeletes, TaskFails, TellWaiter, Awaits
  <2>2. snaps' \in [Guests -> Snapshots]
    <3>1. CASE TaskDeletes(q)
      <4> DEFINE g == q.row.guest
                 f == [n \in DOMAIN snaps[g] \ {q.row.name} |-> snaps[g][n]]
      <4>1. snaps' = [snaps EXCEPT ![g] = f]
        BY <3>1 DEF TaskDeletes
      <4>2. /\ DOMAIN f \subseteq Names /\ \A n \in DOMAIN f : f[n] \in Dates
            /\ f = [n \in DOMAIN f |-> f[n]]
        BY <1>0, SnapshotsAre DEF CInv
      <4> HIDE DEF f
      <4> QED
        BY <1>0, <4>1, <4>2, SnapsAreTyped DEF CInv
    <3>2. CASE TaskFails(q)
      BY <1>3, <3>2 DEF TaskFails
    <3> QED
      BY <1>5, <3>1, <3>2
  <2>3. "wait" \in Deleting /\ "task ok" \in Deleting /\ "task failed" \in Deleting
    BY DEF Deleting
  <2>4. CASE UNCHANGED pc
    BY <1>2, <1>3, <2>1, <2>2, <2>4
  <2>5. CASE pc[q.by] = "wait" /\ (Goto(q.by, "task ok") \/ Goto(q.by, "task failed"))
    BY <1>1, <1>3, <2>1, <2>2, <2>3, <2>5
  <2> QED
    BY <2>1, <2>4, <2>5
<1> QED
  BY <1>4, <1>5

LEMMA PeopleCount ==
    ASSUME CInv, NEW g \in Guests, NEW n \in Names, Take(g, n) \/ Drop(g, n)
    PROVE  CInv'
<1>1. /\ UNCHANGED <<requests, tasks, cutoff, dryRun, structured, pc, todo, rows, left,
                     current, failed>>
      /\ clock' \in Dates
  <2>1. clock \in Dates
    BY DEF CInv, TInv
  <2> QED
    BY <2>1 DEF Take, Drop, flags, Dates
<1>2. snaps' \in [Guests -> Snapshots]
  <2>1. CASE Take(g, n)
    <3> DEFINE f == [m \in DOMAIN snaps[g] \cup {n} |->
                        IF m = n THEN clock + 1 ELSE snaps[g][m]]
    <3>1. snaps' = [snaps EXCEPT ![g] = f] /\ clock + 1 \in Dates
      BY <1>1, <2>1 DEF Take
    <3>2. /\ DOMAIN f \subseteq Names /\ \A m \in DOMAIN f : f[m] \in Dates
          /\ f = [m \in DOMAIN f |-> f[m]]
      BY <3>1, SnapshotsAre DEF CInv
    <3> HIDE DEF f
    <3> QED
      BY <3>1, <3>2, SnapsAreTyped DEF CInv
  <2>2. CASE Drop(g, n)
    <3> DEFINE f == [m \in DOMAIN snaps[g] \ {n} |-> snaps[g][m]]
    <3>1. snaps' = [snaps EXCEPT ![g] = f]
      BY <2>2 DEF Drop
    <3>2. /\ DOMAIN f \subseteq Names /\ \A m \in DOMAIN f : f[m] \in Dates
          /\ f = [m \in DOMAIN f |-> f[m]]
      BY SnapshotsAre DEF CInv
    <3> HIDE DEF f
    <3> QED
      BY <3>1, <3>2, SnapsAreTyped DEF CInv
  <2> QED
    BY <2>1, <2>2
<1> QED
  BY <1>1, <1>2 DEF CInv, TInv, Counted

LEMMA CountInvariant == Spec => []CInv
<1>1. CInv /\ [Next]_vars => CInv'
  <2> SUFFICES ASSUME CInv, [Next]_vars
               PROVE  CInv'
    OBVIOUS
  <2>1. ASSUME NEW p \in Prunes, PruneStep(p) \/ Confirm(p) \/ Decline(p) \/ WaitFails(p)
        PROVE  CInv'
    BY <2>1, ChoosingCounts, DeletingCounts DEF PruneStep, DeletingStep
  <2>2. CASE UNCHANGED vars
    BY <2>2 DEF CInv, TInv, Counted, vars, server, flags
  <2> QED
    BY <2>1, <2>2, ServerCounts, PeopleCount DEF Next
<1> QED
  BY <1>1, InitCInv, PTL DEF Spec

\* Types, for any ages and dates given, past or to come: the snapshots shown
\* and deleted are among those that can exist whatever the cutoff, and a prune
\* counts no more failures than it showed snapshots.
THEOREM TypeOKHolds == Spec => []TypeOK
<1>1. CInv => TypeOK
  <2> SUFFICES ASSUME CInv
               PROVE  TypeOK
    OBVIOUS
  <2>1. TInv
    BY DEF CInv
  <2>2. ASSUME NEW p \in Prunes
        PROVE  failed[p] \in 0..Cardinality(rows[p])
    <3>1. /\ failed[p] \in Nat /\ left[p] \in SUBSET Rows /\ current[p] \in SUBSET Rows
          /\ rows[p] \in SUBSET Rows
      BY <2>1 DEF TInv
    <3>2. /\ Cardinality(left[p]) \in Nat /\ Cardinality(current[p]) \in Nat
          /\ Cardinality(rows[p]) \in Nat
      BY <3>1, RowsAreFinite
    <3>3. failed[p] + Cardinality(left[p]) + Cardinality(current[p]) <= Cardinality(rows[p])
      BY DEF CInv, Counted
    <3> QED
      BY <3>1, <3>2, <3>3
  <2>3. pc \in [Prunes -> {"idle", "collect", "confirm", "delete", "await", "wait",
                           "task ok", "task failed"} \cup Ended]
    BY <2>1 DEF TInv, Places, Deleting
  <2> QED
    BY <2>1, <2>2, <2>3 DEF TInv, TypeOK
<1> QED
  BY <1>1, CountInvariant, PTL
=============================================================================
