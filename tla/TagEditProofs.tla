--------------------------- MODULE TagEditProofs ---------------------------
(***************************************************************************)
(* Proofs about TagEdit: types, the completeness of a reported success,    *)
(* and that the tag commands implement AtomicTags when configurations come *)
(* with a digest.                                                          *)
(***************************************************************************)
EXTENDS TagEdit, TLAPS

\* What a command makes of tags is tags.
LEMMA PlanType ==
    ASSUME NEW p \in Commands, NEW cur \in SUBSET Tags
    PROVE  plan(p, cur) \in SUBSET Tags
  <1>1. p.tags \in SUBSET Tags
    BY CommandsAssumption DEF CommandsAssumption, CommandType
  <1> QED BY <1>1 DEF plan, addTags, removeTags

\* Where a command finds nothing to change, it is done with the guest.
LEMMA PlanFixed ==
    ASSUME NEW p \in Commands, NEW cur, plan(p, cur) = cur
    PROVE  NoChange(p, cur)
  BY DEF NoChange

LEMMA SelectedType == \A p \in Commands : p.selected \in SUBSET Guests
  BY CommandsAssumption DEF CommandsAssumption, CommandType

(***************************************************************************)
(* Types.                                                                  *)
(***************************************************************************)
LEMMA TypeInit == Init => TypeOK
  BY DEF Init, TypeOK, Ended

LEMMA TypeStep == TypeOK /\ [Next]_vars => TypeOK'
  <1> SUFFICES ASSUME TypeOK, [Next]_vars PROVE TypeOK'
    OBVIOUS
  <1> USE DEF TypeOK, Goto, Fail, Settle, NextGuest, Ended
  <1>1. ASSUME NEW p \in Commands, ResolveGuest(p) PROVE TypeOK'
    BY <1>1, SelectedType DEF ResolveGuest
  <1>2. ASSUME NEW p \in Commands, ListGuests(p) PROVE TypeOK'
    <2> DEFINE idle == {g \in p.selected : NoChange(p, config[g].tags)}
    <2>1. /\ settled' = settled \cup ({p} \X idle)
          /\ todo' = [todo EXCEPT ![p] = p.selected \ idle]
          /\ pc' = [pc EXCEPT ![p] = IF p.selected = idle THEN "return" ELSE "confirm"]
          /\ UNCHANGED <<config, writes, targets, writing, failed>>
      BY <1>2 DEF ListGuests
    <2>2. idle \subseteq Guests /\ p.selected \ idle \subseteq Guests
      BY SelectedType
    <2> HIDE DEF idle
    <2> QED BY <2>1, <2>2
  <1>3. ASSUME NEW p \in Commands, PrepareFails(p) PROVE TypeOK'
    BY <1>3 DEF PrepareFails
  <1>4. ASSUME NEW p \in Commands, OpenFile(p) PROVE TypeOK'
    BY <1>4, SelectedType DEF OpenFile
  <1>5. ASSUME NEW p \in Commands, NEW g \in Guests, ResolveEntry(p, g) PROVE TypeOK'
    <2>1. /\ todo' = [todo EXCEPT ![p] = @ \ {g}]
          /\ UNCHANGED <<config, writes, pc, writing>>
      BY <1>5 DEF ResolveEntry
    <2>2. CASE Fail(p) /\ UNCHANGED <<targets, settled>>
      BY <2>1, <2>2
    <2>3. CASE /\ UNCHANGED <<failed, targets>>
               /\ settled' = settled \cup ({p} \X {g})
      BY <2>1, <2>3
    <2>4. CASE /\ UNCHANGED <<failed, settled>>
               /\ targets' = [targets EXCEPT ![p] = @ \cup {g}]
      BY <2>1, <2>4
    <2> QED BY <1>5, <2>2, <2>3, <2>4 DEF ResolveEntry
  <1>6. ASSUME NEW p \in Commands, NEW g \in Guests, ReadGuest(p, g) PROVE TypeOK'
    <2>1. config[g] \in Configs /\ config[g].tags \in SUBSET Tags
      BY DEF Configs
    <2>2. [by |-> p, guest |-> g, tags |-> plan(p, config[g].tags),
           digest |-> IF Digests THEN {config[g]} ELSE {}] \in Writes
      BY <2>1, PlanType DEF Writes
    <2>3. CASE p.bulk /\ plan(p, config[g].tags) = config[g].tags
      <3>1. /\ settled' = settled \cup ({p} \X {g})
            /\ todo' = [todo EXCEPT ![p] = @ \ {g}]
            /\ writing' = [writing EXCEPT ![p] = {}]
            /\ pc' = [pc EXCEPT ![p] = IF todo[p] = {g} THEN "return" ELSE "read"]
            /\ UNCHANGED <<config, writes, targets, failed>>
        BY <1>6, <2>3 DEF ReadGuest
      <3> QED BY <3>1
    <2>4. CASE ~(p.bulk /\ plan(p, config[g].tags) = config[g].tags)
      <3>1. writes' \subseteq Writes
        BY <1>6, <2>2, <2>4 DEF ReadGuest
      <3>2. /\ writing' = [writing EXCEPT ![p] = {g}]
            /\ pc' = [pc EXCEPT ![p] = "await"]
            /\ UNCHANGED <<config, todo, targets, failed, settled>>
        BY <1>6, <2>4 DEF ReadGuest
      <3> QED BY <3>1, <3>2
    <2> QED BY <2>3, <2>4
  <1>7. ASSUME NEW p \in Commands, NEW g \in Guests, ReadFails(p, g) PROVE TypeOK'
    BY <1>7 DEF ReadFails
  <1>8. ASSUME NEW p \in Commands, NEW g \in Guests, WriteLost(p, g) PROVE TypeOK'
    BY <1>8 DEF WriteLost
  <1>9. ASSUME NEW p \in Commands, Resolved(p) PROVE TypeOK'
    BY <1>9 DEF Resolved
  <1>10. ASSUME NEW p \in Commands, Return(p) PROVE TypeOK'
    BY <1>10 DEF Return
  <1>11. ASSUME NEW p \in Commands, Confirm(p) \/ Decline(p) \/ Kill(p) PROVE TypeOK'
    BY <1>11 DEF Confirm, Decline, Kill
  <1>12. ASSUME NEW w \in writes, Accept(w) PROVE TypeOK'
    <2>1. w.by \in Commands /\ w.guest \in Guests /\ w.tags \in SUBSET Tags
      BY DEF Writes
    <2>2. [config[w.guest] EXCEPT !.tags = w.tags] \in Configs
      BY <2>1 DEF Configs
    <2>3. config' = [config EXCEPT ![w.guest] = [config[w.guest] EXCEPT !.tags = w.tags]]
      BY <1>12 DEF Accept
    <2>4. config' \in [Guests -> Configs]
      BY <2>1, <2>2, <2>3
    <2> QED BY <1>12, <2>1, <2>4 DEF Accept
  <1>13. ASSUME NEW w \in writes, Refuse(w) PROVE TypeOK'
    <2>1. w.by \in Commands /\ w.guest \in Guests
      BY DEF Writes
    <2>2. /\ writes' \subseteq Writes
          /\ UNCHANGED <<config, targets, settled>>
      BY <1>13 DEF Refuse
    <2>3. CASE NextGuest(w.by, w.guest) /\ Fail(w.by)
      BY <2>1, <2>2, <2>3
    <2>4. CASE UNCHANGED <<pc, todo, writing, failed>>
      BY <2>2, <2>4
    <2> QED BY <1>13, <2>3, <2>4 DEF Refuse
  <1>14. ASSUME NEW g \in Guests, Foreign(g) PROVE TypeOK'
    BY <1>14 DEF Foreign
  <1>15. CASE UNCHANGED vars
    BY <1>15 DEF vars
  <1> QED
    BY <1>1, <1>2, <1>3, <1>4, <1>5, <1>6, <1>7, <1>8, <1>9, <1>10, <1>11,
       <1>12, <1>13, <1>14, <1>15 DEF Next, CommandStep

\* The types hold for any guests, tags and commands, with or without digests.
THEOREM TypeCorrect == Spec => []TypeOK
  BY TypeInit, TypeStep, PTL DEF Spec

(***************************************************************************)
(* The invariant behind SuccessIsComplete and the refinement.              *)
(***************************************************************************)
\* A command is busy with the guest it writes, and with no other.
Busy(p) ==
    /\ pc[p] = "await" => \E g \in todo[p] : writing[p] = {g}
    /\ pc[p] \notin {"await", "quit"} => writing[p] = {}
    /\ pc[p] \in {"idle", "return", "ok", "failed"} => todo[p] = {}
    /\ pc[p] \notin {"resolve", "quit"} => targets[p] = {}
    /\ targets[p] \cap todo[p] = {}
    /\ pc[p] = "ok" => ~failed[p]

\* Nothing is settled before its turn, and nothing is written twice.
Untouched(p) ==
    /\ pc[p] = "idle" => \A g \in Guests : <<p, g>> \notin settled
    /\ \A g \in targets[p] \cup (todo[p] \ writing[p]) : <<p, g>> \notin settled
    /\ \A w \in writes : w.by = p =>
          /\ pc[p] # "idle"
          /\ w.guest \notin targets[p] \cup (todo[p] \ writing[p])

\* As long as no guest failed, all guests but those to come are settled and
\* the only write not handled is the one that is awaited.
Complete(p) ==
    (~failed[p] /\ pc[p] \notin {"idle", "quit"}) =>
        /\ {p} \X (p.selected \ (todo[p] \cup targets[p])) \subseteq settled
        /\ \A w \in writes : w.by = p => pc[p] = "await" /\ w.guest \in writing[p]

WriteTrue(w) ==
    /\ <<w.by, w.guest>> \notin settled
    /\ \A v \in writes : (v.by = w.by /\ v.guest = w.guest) => v = w
    /\ Digests => \E c \in Configs : w.digest = {c} /\ w.tags = plan(w.by, c.tags)

Good(p) == Busy(p) /\ Untouched(p) /\ Complete(p)

IInv ==
    /\ TypeOK
    /\ \A p \in Commands : Good(p)
    /\ \A w \in writes : WriteTrue(w)

LEMMA InvInit == Init => IInv
  <1> SUFFICES ASSUME Init PROVE IInv
    OBVIOUS
  <1>1. ASSUME NEW p \in Commands PROVE Good(p)
    BY DEF Init, Good, Busy, Untouched, Complete
  <1> QED BY <1>1, TypeInit DEF Init, IInv

\* A step of one command leaves what is known of the others.
LEMMA Frame ==
    ASSUME NEW q \in Commands, Good(q),
           pc'[q] = pc[q], todo'[q] = todo[q], targets'[q] = targets[q],
           writing'[q] = writing[q], failed'[q] = failed[q],
           \A g : <<q, g>> \in settled' <=> <<q, g>> \in settled,
           \A w \in writes' : w.by = q => w \in writes
    PROVE  Good(q)'
  <1>1. Busy(q)'
    BY DEF Good, Busy
  <1>2. Untouched(q)'
    BY DEF Good, Untouched
  <1>3. Complete(q)'
    BY DEF Good, Complete
  <1> QED BY <1>1, <1>2, <1>3 DEF Good

\* A write stays as it is while its pair is not settled and no other write
\* to the pair appears.
LEMMA WriteFrame ==
    ASSUME NEW w, WriteTrue(w), <<w.by, w.guest>> \notin settled',
           \A v \in writes' : (v.by = w.by /\ v.guest = w.guest) => v \in writes
    PROVE  WriteTrue(w)'
  BY DEF WriteTrue, plan, addTags, removeTags

\* Steps of a command that only move it.
LEMMA MoveStep ==
    ASSUME IInv, NEW p \in Commands,
           \/ ResolveGuest(p) \/ PrepareFails(p) \/ OpenFile(p) \/ Resolved(p)
           \/ Confirm(p) \/ Decline(p) \/ Return(p) \/ Kill(p)
    PROVE  /\ \A q \in Commands : Good(q)'
           /\ \A w \in writes' : WriteTrue(w)'
  <1> USE DEF Goto, Fail
  <1>1. /\ UNCHANGED <<config, writes, writing, settled>>
        /\ \A q \in Commands \ {p} :
              /\ pc'[q] = pc[q] /\ todo'[q] = todo[q]
              /\ targets'[q] = targets[q] /\ failed'[q] = failed[q]
    BY DEF IInv, TypeOK, ResolveGuest, PrepareFails, OpenFile, Resolved, Confirm,
           Decline, Return, Kill
  <1>2. ASSUME NEW q \in Commands, q # p PROVE Good(q)'
    <2>1. Good(q)
      BY DEF IInv
    <2> QED BY <1>1, <1>2, <2>1, Frame
  <1>3. ASSUME NEW w \in writes' PROVE WriteTrue(w)'
    BY <1>1, <1>3, WriteFrame DEF IInv, WriteTrue
  <1>4. Good(p) /\ TypeOK
    BY DEF IInv
  <1> USE DEF TypeOK, Good, Busy, Untouched, Complete
  <1>5. CASE ResolveGuest(p)
    <2>1. /\ pc[p] = "idle" /\ pc'[p] = "read" /\ todo'[p] = p.selected
          /\ targets'[p] = {} /\ writing'[p] = {} /\ failed'[p] = failed[p]
      BY <1>4, <1>5 DEF ResolveGuest
    <2>2. \A g : <<p, g>> \notin settled
      BY <1>4, <2>1
    <2> QED BY <1>1, <1>2, <1>3, <1>4, <2>1, <2>2
  <1>6. CASE OpenFile(p)
    <2>1. /\ pc[p] = "idle" /\ pc'[p] = "resolve" /\ todo'[p] = p.selected
          /\ targets'[p] = {} /\ writing'[p] = {} /\ failed'[p] = failed[p]
      BY <1>4, <1>6 DEF OpenFile
    <2>2. \A g : <<p, g>> \notin settled
      BY <1>4, <2>1
    <2> QED BY <1>1, <1>2, <1>3, <1>4, <2>1, <2>2
  <1>7. CASE PrepareFails(p)
    <2>1. /\ pc[p] = "idle" /\ pc'[p] = "return" /\ todo'[p] = {}
          /\ targets'[p] = {} /\ writing'[p] = {} /\ failed'[p]
      BY <1>4, <1>7 DEF PrepareFails
    <2> QED BY <1>1, <1>2, <1>3, <1>4, <2>1
  <1>8. CASE Resolved(p)
    <2>1. /\ pc[p] = "resolve" /\ todo[p] = {} /\ todo'[p] = targets[p]
          /\ pc'[p] = IF targets[p] = {} THEN "return" ELSE "confirm"
          /\ targets'[p] = {} /\ writing[p] = {} /\ writing'[p] = {}
          /\ failed'[p] = failed[p]
      BY <1>4, <1>8 DEF Resolved
    <2> QED BY <1>1, <1>2, <1>3, <1>4, <2>1
  <1>9. CASE Confirm(p)
    <2>1. /\ pc[p] = "confirm" /\ pc'[p] = "read" /\ todo'[p] = todo[p]
          /\ targets'[p] = targets[p] /\ writing'[p] = writing[p]
          /\ failed'[p] = failed[p]
      BY <1>4, <1>9 DEF Confirm
    <2> QED BY <1>1, <1>2, <1>3, <1>4, <2>1
  <1>10. CASE Return(p)
    <2>1. /\ pc[p] = "return" /\ pc'[p] = (IF failed[p] THEN "failed" ELSE "ok")
          /\ todo'[p] = todo[p] /\ targets'[p] = targets[p]
          /\ writing'[p] = writing[p] /\ failed'[p] = failed[p]
      BY <1>4, <1>10 DEF Return
    <2> QED BY <1>1, <1>2, <1>3, <1>4, <2>1
  <1>11. CASE Decline(p) \/ Kill(p)
    <2>1. /\ pc[p] # "idle" /\ pc'[p] = "quit" /\ todo'[p] = todo[p]
          /\ targets'[p] = targets[p] /\ writing'[p] = writing[p]
          /\ failed'[p] = failed[p]
      BY <1>4, <1>11 DEF Decline, Kill
    <2> QED BY <1>1, <1>2, <1>3, <1>4, <2>1
  <1> QED BY <1>5, <1>6, <1>7, <1>8, <1>9, <1>10, <1>11

\* A command that finds guests in no need of a change, or gives up on one.
LEMMA SkipStep ==
    ASSUME IInv, NEW p \in Commands,
           \/ ListGuests(p)
           \/ \E g \in Guests : ResolveEntry(p, g) \/ ReadFails(p, g) \/ WriteLost(p, g)
    PROVE  /\ \A q \in Commands : Good(q)'
           /\ \A w \in writes' : WriteTrue(w)'
  <1> USE DEF Goto, Fail, Settle, NextGuest
  <1>0. Good(p) /\ TypeOK
    BY DEF IInv
  <1>1. CASE ListGuests(p)
    <2> DEFINE idle == {g \in p.selected : NoChange(p, config[g].tags)}
    <2>1. /\ settled' = settled \cup ({p} \X idle)
          /\ todo' = [todo EXCEPT ![p] = p.selected \ idle]
          /\ pc' = [pc EXCEPT ![p] = IF p.selected = idle THEN "return" ELSE "confirm"]
          /\ UNCHANGED <<config, writes, targets, writing, failed>>
          /\ pc[p] = "idle"
      BY <1>1 DEF ListGuests
    <2>2. idle \subseteq p.selected
      OBVIOUS
    <2> HIDE DEF idle
    <2>3. ASSUME NEW q \in Commands, q # p PROVE Good(q)'
      <3>1. Good(q)
        BY DEF IInv
      <3> QED BY <1>0, <2>1, <2>3, <3>1, Frame DEF TypeOK
    <2>4. ASSUME NEW w \in writes' PROVE WriteTrue(w)'
      <3>1. WriteTrue(w) /\ w.by # p
        BY <1>0, <2>1, <2>4 DEF IInv, Good, Untouched
      <3> QED BY <2>1, <3>1, WriteFrame DEF WriteTrue
    <2>5. Busy(p)'
      BY <1>0, <2>1, <2>2 DEF TypeOK, Good, Busy
    <2>6. Untouched(p)'
      BY <1>0, <2>1, <2>2, SelectedType DEF TypeOK, Good, Busy, Untouched
    <2>7. Complete(p)'
      BY <1>0, <2>1, <2>2 DEF TypeOK, Good, Busy, Untouched, Complete
    <2> QED BY <2>3, <2>4, <2>5, <2>6, <2>7 DEF Good
  <1>2. ASSUME NEW g \in Guests, ResolveEntry(p, g)
        PROVE  /\ \A q \in Commands : Good(q)'
               /\ \A w \in writes' : WriteTrue(w)'
    <2>1. /\ pc[p] = "resolve" /\ g \in todo[p] /\ writing[p] = {}
          /\ todo' = [todo EXCEPT ![p] = @ \ {g}]
          /\ UNCHANGED <<config, writes, pc, writing>>
          /\ \/ /\ failed' = [failed EXCEPT ![p] = TRUE]
                /\ UNCHANGED <<targets, settled>>
             \/ /\ settled' = settled \cup ({p} \X {g})
                /\ UNCHANGED <<failed, targets>>
             \/ /\ targets' = [targets EXCEPT ![p] = @ \cup {g}]
                /\ UNCHANGED <<failed, settled>>
      BY <1>0, <1>2 DEF ResolveEntry, Good, Busy
    <2>2. /\ settled \subseteq settled'
          /\ settled' \subseteq settled \cup {<<p, g>>}
          /\ todo'[p] = todo[p] \ {g}
          /\ targets[p] \subseteq targets'[p]
          /\ targets'[p] \subseteq targets[p] \cup {g}
          /\ g \notin targets[p]
          /\ g \in targets'[p] => <<p, g>> \notin settled'
          /\ failed'[p] \/ (failed'[p] = failed[p] /\ (g \in targets'[p] \/ <<p, g>> \in settled'))
      BY <1>0, <2>1 DEF TypeOK, Good, Busy, Untouched
    <2>3. ASSUME NEW q \in Commands, q # p PROVE Good(q)'
      <3>1. Good(q)
        BY DEF IInv
      <3>2. /\ todo'[q] = todo[q] /\ targets'[q] = targets[q] /\ failed'[q] = failed[q]
            /\ pc'[q] = pc[q] /\ writing'[q] = writing[q]
        BY <1>0, <2>1, <2>3 DEF TypeOK
      <3> QED BY <2>1, <2>2, <2>3, <3>1, <3>2, Frame
    <2>4. ASSUME NEW w \in writes' PROVE WriteTrue(w)'
      <3>1. /\ WriteTrue(w)
            /\ w.by = p => w.guest # g
        BY <1>0, <2>1, <2>4 DEF IInv, Good, Untouched
      <3> QED BY <2>1, <2>2, <3>1, WriteFrame DEF WriteTrue
    <2>5. Busy(p)'
      BY <1>0, <2>1, <2>2 DEF TypeOK, Good, Busy
    <2>6. Untouched(p)'
      BY <1>0, <2>1, <2>2 DEF TypeOK, Good, Busy, Untouched
    <2>7. Complete(p)'
      BY <1>0, <2>1, <2>2 DEF TypeOK, Good, Complete
    <2> QED BY <2>3, <2>4, <2>5, <2>6, <2>7 DEF Good
  <1>3. ASSUME NEW g \in Guests, ReadFails(p, g) \/ WriteLost(p, g)
        PROVE  /\ \A q \in Commands : Good(q)'
               /\ \A w \in writes' : WriteTrue(w)'
    <2>1. /\ pc[p] \in {"read", "await"} /\ g \in todo[p]
          /\ writing[p] \subseteq {g} /\ targets[p] = {}
          /\ todo' = [todo EXCEPT ![p] = @ \ {g}]
          /\ writing' = [writing EXCEPT ![p] = {}]
          /\ pc' = [pc EXCEPT ![p] = IF todo[p] = {g} THEN "return" ELSE "read"]
          /\ failed' = [failed EXCEPT ![p] = TRUE]
          /\ UNCHANGED <<config, writes, targets, settled>>
      BY <1>0, <1>3 DEF ReadFails, WriteLost, Good, Busy
    <2>2. /\ todo'[p] = todo[p] \ {g} /\ writing'[p] = {} /\ failed'[p]
          /\ pc'[p] = IF todo[p] = {g} THEN "return" ELSE "read"
          /\ targets'[p] = {}
      BY <1>0, <2>1 DEF TypeOK
    <2>3. ASSUME NEW q \in Commands, q # p PROVE Good(q)'
      <3>1. Good(q)
        BY DEF IInv
      <3> QED BY <1>0, <2>1, <2>3, <3>1, Frame DEF TypeOK
    <2>4. ASSUME NEW w \in writes' PROVE WriteTrue(w)'
      BY <2>1, <2>4, WriteFrame DEF IInv, WriteTrue
    <2>5. Busy(p)'
      BY <1>0, <2>1, <2>2 DEF Good, Busy
    <2>6. Untouched(p)'
      BY <1>0, <2>1, <2>2 DEF Good, Untouched
    <2>7. Complete(p)'
      BY <2>2 DEF Complete
    <2> QED BY <2>3, <2>4, <2>5, <2>6, <2>7 DEF Good
  <1> QED BY <1>1, <1>2, <1>3

\* A command that reads a guest, and skips it or sends its write.
LEMMA ReadStep ==
    ASSUME IInv, NEW p \in Commands, NEW g \in Guests, ReadGuest(p, g)
    PROVE  /\ \A q \in Commands : Good(q)'
           /\ \A w \in writes' : WriteTrue(w)'
  <1> USE DEF Goto, Settle, NextGuest
  <1>0. /\ Good(p) /\ TypeOK
        /\ pc[p] = "read" /\ g \in todo[p] /\ writing[p] = {} /\ targets[p] = {}
        /\ <<p, g>> \notin settled
        /\ \A w \in writes : w.by = p => w.guest \notin todo[p]
    BY DEF IInv, ReadGuest, Good, Busy, Untouched
  <1>1. CASE p.bulk /\ plan(p, config[g].tags) = config[g].tags
    <2>1. /\ settled' = settled \cup ({p} \X {g})
          /\ todo' = [todo EXCEPT ![p] = @ \ {g}]
          /\ writing' = [writing EXCEPT ![p] = {}]
          /\ pc' = [pc EXCEPT ![p] = IF todo[p] = {g} THEN "return" ELSE "read"]
          /\ UNCHANGED <<config, writes, targets, failed>>
      BY <1>1 DEF ReadGuest
    <2>2. /\ todo'[p] = todo[p] \ {g} /\ writing'[p] = {}
          /\ pc'[p] = IF todo[p] = {g} THEN "return" ELSE "read"
          /\ settled' = settled \cup {<<p, g>>}
      BY <1>0, <2>1 DEF TypeOK
    <2>3. ASSUME NEW q \in Commands, q # p PROVE Good(q)'
      <3>1. Good(q)
        BY DEF IInv
      <3> QED BY <1>0, <2>1, <2>2, <2>3, <3>1, Frame DEF TypeOK
    <2>4. ASSUME NEW w \in writes' PROVE WriteTrue(w)'
      BY <1>0, <2>1, <2>2, <2>4, WriteFrame DEF IInv, WriteTrue
    <2>5. Busy(p)'
      BY <1>0, <2>1, <2>2 DEF Good, Busy
    <2>6. Untouched(p)'
      BY <1>0, <2>1, <2>2 DEF Good, Untouched
    <2>7. Complete(p)'
      BY <1>0, <2>1, <2>2 DEF Good, Complete
    <2> QED BY <2>3, <2>4, <2>5, <2>6, <2>7 DEF Good
  <1>2. CASE ~(p.bulk /\ plan(p, config[g].tags) = config[g].tags)
    <2> DEFINE new == [by |-> p, guest |-> g, tags |-> plan(p, config[g].tags),
                       digest |-> IF Digests THEN {config[g]} ELSE {}]
    <2>1. /\ writes' = writes \cup {new}
          /\ writing' = [writing EXCEPT ![p] = {g}]
          /\ pc' = [pc EXCEPT ![p] = "await"]
          /\ UNCHANGED <<config, todo, targets, failed, settled>>
      BY <1>2 DEF ReadGuest
    <2>2. /\ new.by = p /\ new.guest = g
          /\ Digests => \E c \in Configs : new.digest = {c} /\ new.tags = plan(p, c.tags)
      BY <1>0 DEF TypeOK
    <2> HIDE DEF new
    <2>3. ASSUME NEW q \in Commands, q # p PROVE Good(q)'
      <3>1. Good(q)
        BY DEF IInv
      <3> QED BY <1>0, <2>1, <2>2, <2>3, <3>1, Frame DEF TypeOK
    <2>4. ASSUME NEW w \in writes' PROVE WriteTrue(w)'
      <3>1. CASE w \in writes
        <4>1. WriteTrue(w) /\ (w.by = p => w.guest # g)
          BY <1>0, <3>1 DEF IInv
        <4> QED BY <2>1, <2>2, <4>1, WriteFrame DEF WriteTrue
      <3>2. CASE w = new
        <4>1. <<w.by, w.guest>> \notin settled'
          BY <1>0, <2>1, <2>2, <3>2
        <4>2. \A v \in writes' : (v.by = w.by /\ v.guest = w.guest) => v = w
          BY <1>0, <2>1, <2>2, <3>2
        <4> QED BY <2>2, <3>2, <4>1, <4>2 DEF WriteTrue, plan, addTags, removeTags
      <3> QED BY <2>1, <2>4, <3>1, <3>2
    <2>5. /\ pc'[p] = "await" /\ writing'[p] = {g} /\ todo'[p] = todo[p]
          /\ targets'[p] = {} /\ failed'[p] = failed[p]
      BY <1>0, <2>1 DEF TypeOK
    <2>6. Busy(p)'
      BY <1>0, <2>5 DEF Busy
    <2>7. Untouched(p)'
      BY <1>0, <2>1, <2>2, <2>5 DEF Good, Untouched
    <2>8. Complete(p)'
      BY <1>0, <2>1, <2>2, <2>5 DEF Good, Complete
    <2> QED BY <2>3, <2>4, <2>6, <2>7, <2>8 DEF Good
  <1> QED BY <1>1, <1>2

\* The server handles a write, and the command may learn of it.
LEMMA ServerStep ==
    ASSUME IInv, NEW w \in writes, Accept(w) \/ Refuse(w)
    PROVE  /\ \A q \in Commands : Good(q)'
           /\ \A v \in writes' : WriteTrue(v)'
  <1> DEFINE p == w.by
             g == w.guest
  <1> USE DEF Goto, Fail, Settle, NextGuest
  <1>0. /\ TypeOK /\ WriteTrue(w)
        /\ p \in Commands /\ g \in Guests /\ Good(p)
    BY DEF IInv, TypeOK, Writes
  <1>1. /\ g \notin targets[p] \cup (todo[p] \ writing[p])
        /\ pc[p] # "idle"
        /\ \A v \in writes \ {w} : v.by = p => v.guest # g
    BY <1>0 DEF Good, Untouched, WriteTrue
  <1>2. /\ writes' = writes \ {w}
        /\ UNCHANGED targets
        /\ settled \subseteq settled'
        /\ settled' \subseteq settled \cup {<<p, g>>}
        /\ \/ UNCHANGED <<pc, todo, writing, failed>>
           \/ /\ pc[p] = "await" /\ g \in writing[p]
              /\ todo' = [todo EXCEPT ![p] = @ \ {g}]
              /\ writing' = [writing EXCEPT ![p] = {}]
              /\ pc' = [pc EXCEPT ![p] = IF todo[p] = {g} THEN "return" ELSE "read"]
              /\ \/ UNCHANGED failed /\ <<p, g>> \in settled'
                 \/ failed' = [failed EXCEPT ![p] = TRUE]
    BY <1>0 DEF Accept, Refuse, Waits
  <1> HIDE DEF p, g
  <1>3. ASSUME NEW q \in Commands, q # p PROVE Good(q)'
    <2>1. Good(q)
      BY DEF IInv
    <2>2. /\ pc'[q] = pc[q] /\ todo'[q] = todo[q] /\ writing'[q] = writing[q]
          /\ failed'[q] = failed[q] /\ targets'[q] = targets[q]
      BY <1>0, <1>2, <1>3 DEF TypeOK
    <2> QED BY <1>2, <1>3, <2>1, <2>2, Frame
  <1>4. ASSUME NEW v \in writes' PROVE WriteTrue(v)'
    <2>1. WriteTrue(v) /\ ~(v.by = p /\ v.guest = g)
      BY <1>1, <1>2, <1>4 DEF IInv
    <2> QED BY <1>2, <2>1, WriteFrame DEF WriteTrue
  <1>5. CASE UNCHANGED <<pc, todo, writing, failed>>
    <2>1. Busy(p)'
      BY <1>0, <1>2, <1>5 DEF Good, Busy
    <2>2. Untouched(p)'
      BY <1>0, <1>1, <1>2, <1>5 DEF Good, Untouched
    <2>3. Complete(p)'
      BY <1>0, <1>2, <1>5 DEF Good, Complete
    <2> QED BY <1>3, <1>4, <2>1, <2>2, <2>3 DEF Good
  <1>6. CASE /\ pc[p] = "await" /\ g \in writing[p]
             /\ todo' = [todo EXCEPT ![p] = @ \ {g}]
             /\ writing' = [writing EXCEPT ![p] = {}]
             /\ pc' = [pc EXCEPT ![p] = IF todo[p] = {g} THEN "return" ELSE "read"]
             /\ \/ UNCHANGED failed /\ <<p, g>> \in settled'
                \/ failed' = [failed EXCEPT ![p] = TRUE]
    <2>1. /\ g \in todo[p] /\ writing[p] = {g} /\ targets[p] = {}
          /\ targets'[p] = {} /\ writing'[p] = {} /\ todo'[p] = todo[p] \ {g}
          /\ pc'[p] = IF todo[p] = {g} THEN "return" ELSE "read"
          /\ failed'[p] \/ (failed'[p] = failed[p] /\ <<p, g>> \in settled')
      BY <1>0, <1>2, <1>6 DEF TypeOK, Good, Busy
    <2>2. Busy(p)'
      BY <2>1 DEF Busy
    <2>3. Untouched(p)'
      BY <1>0, <1>1, <1>2, <2>1 DEF Good, Untouched
    <2>4. Complete(p)'
      BY <1>0, <1>1, <1>2, <1>6, <2>1 DEF Good, Complete
    <2> QED BY <1>3, <1>4, <2>2, <2>3, <2>4 DEF Good
  <1> QED BY <1>2, <1>5, <1>6

\* A step of nobody's, or of someone else: the commands are where they were.
LEMMA QuietStep ==
    ASSUME IInv, (\E g \in Guests : Foreign(g)) \/ UNCHANGED vars
    PROVE  /\ \A q \in Commands : Good(q)'
           /\ \A w \in writes' : WriteTrue(w)'
  <1>1. UNCHANGED <<writes, pc, todo, targets, writing, failed, settled>>
    BY DEF Foreign, vars
  <1> QED BY <1>1, Frame, WriteFrame DEF IInv, WriteTrue

LEMMA InvStep == IInv /\ [Next]_vars => IInv'
  <1> SUFFICES ASSUME IInv, [Next]_vars PROVE IInv'
    OBVIOUS
  <1>1. TypeOK'
    BY TypeStep DEF IInv
  <1>2. /\ \A q \in Commands : Good(q)'
        /\ \A w \in writes' : WriteTrue(w)'
    BY MoveStep, SkipStep, ReadStep, ServerStep, QuietStep DEF Next, CommandStep
  <1> QED BY <1>1, <1>2 DEF IInv

LEMMA Invariant == Spec => []IInv
  BY InvInit, InvStep, PTL DEF Spec

\* Exit code 0 of a bulk command is never a partial success, for any guests,
\* tags and commands, with or without digests.
THEOREM SuccessIsCompleteHolds == Spec => []SuccessIsComplete
  <1>1. IInv => SuccessIsComplete
    <2> SUFFICES ASSUME IInv, NEW p \in Commands, pc[p] = "ok"
                 PROVE  /\ {p} \X p.selected \subseteq settled
                        /\ \A w \in writes : w.by # p
      BY DEF SuccessIsComplete
    <2>1. ~failed[p]
      BY DEF IInv, Good, Busy
    <2> QED BY <2>1 DEF IInv, Good, Busy, Complete
  <1> QED BY <1>1, Invariant, PTL

(***************************************************************************)
(* TagEdit implements AtomicTags.                                          *)
(***************************************************************************)
\* What AtomicTags sees: the tags of the guests, and who succeeded.
TagsOf == [g \in Guests |-> config[g].tags]

Succeeded == {p \in Commands : pc[p] = "ok"}

Shown == <<TagsOf, settled, Succeeded>>

\* A step that shows nothing is a step of AtomicTags that does nothing.
LEMMA Unseen ==
    ASSUME UNCHANGED <<config, settled>>,
           \A p \in Commands : pc'[p] = "ok" <=> pc[p] = "ok"
    PROVE  UNCHANGED Shown
  <1>1. UNCHANGED TagsOf
    BY DEF TagsOf
  <1>2. Succeeded' = Succeeded
    BY DEF Succeeded
  <1> QED BY <1>1, <1>2 DEF Shown

\* A command that finds guests of S in no need of a change.
LEMMA SeenLeaveAlone ==
    ASSUME TypeOK, NEW p \in Commands, NEW S \in SUBSET Guests,
           \A g \in S : NoChange(p, config[g].tags),
           settled' = settled \cup ({p} \X S), UNCHANGED config,
           \A q \in Commands : pc'[q] = "ok" <=> pc[q] = "ok"
    PROVE  Atomic!LeaveAlone(p, S)
  <1>1. UNCHANGED TagsOf
    BY DEF TagsOf
  <1>2. Succeeded' = Succeeded
    BY DEF Succeeded
  <1>3. \A g \in S : NoChange(p, TagsOf[g])
    BY DEF TagsOf
  <1> QED BY <1>1, <1>2, <1>3 DEF Atomic!LeaveAlone, TagsOf, Succeeded

\* Every step of a command, the server or anyone else is a step of AtomicTags.
LEMMA StepImplements ==
    ASSUME Digests, IInv, [Next]_vars
    PROVE  [Atomic!Next]_Shown
  <1> USE DEF Goto, Settle, NextGuest
  <1>0. TypeOK
    BY DEF IInv
  <1>1. ASSUME NEW p \in Commands,
               \/ ResolveGuest(p) \/ PrepareFails(p) \/ OpenFile(p) \/ Resolved(p)
               \/ Confirm(p) \/ Decline(p) \/ Kill(p)
        PROVE  UNCHANGED Shown
    <2>1. /\ UNCHANGED <<config, settled>>
          /\ \E where \in {"read", "return", "resolve", "confirm", "quit"} :
                pc' = [pc EXCEPT ![p] = where]
          /\ pc[p] # "ok"
      BY <1>1 DEF ResolveGuest, PrepareFails, OpenFile, Resolved, Confirm, Decline, Kill
    <2> QED BY <1>0, <2>1, Unseen DEF TypeOK
  <1>2. ASSUME NEW p \in Commands, ListGuests(p)
        PROVE  \E S \in SUBSET Guests : Atomic!LeaveAlone(p, S)
    <2> DEFINE idle == {g \in p.selected : NoChange(p, config[g].tags)}
    <2>1. /\ settled' = settled \cup ({p} \X idle)
          /\ pc' = [pc EXCEPT ![p] = IF p.selected = idle THEN "return" ELSE "confirm"]
          /\ UNCHANGED config
          /\ pc[p] = "idle"
      BY <1>2 DEF ListGuests
    <2>2. idle \in SUBSET Guests /\ \A g \in idle : NoChange(p, config[g].tags)
      BY SelectedType
    <2> HIDE DEF idle
    <2>3. \A q \in Commands : pc'[q] = "ok" <=> pc[q] = "ok"
      BY <1>0, <2>1 DEF TypeOK
    <2> QED BY <1>0, <2>1, <2>2, <2>3, SeenLeaveAlone
  <1>3. ASSUME NEW p \in Commands, NEW g \in Guests,
               ResolveEntry(p, g) \/ ReadFails(p, g) \/ WriteLost(p, g) \/ ReadGuest(p, g)
        PROVE  \/ UNCHANGED Shown
               \/ \E S \in SUBSET Guests : Atomic!LeaveAlone(p, S)
    <2>1. /\ UNCHANGED config
          /\ \/ UNCHANGED settled
             \/ /\ settled' = settled \cup ({p} \X {g})
                /\ plan(p, config[g].tags) = config[g].tags
          /\ pc[p] # "ok"
          /\ \/ UNCHANGED pc
             \/ \E where \in {"return", "read", "await"} : pc' = [pc EXCEPT ![p] = where]
      BY <1>3 DEF ResolveEntry, ReadFails, WriteLost, ReadGuest
    <2>2. \A q \in Commands : pc'[q] = "ok" <=> pc[q] = "ok"
      BY <1>0, <2>1 DEF TypeOK
    <2>3. CASE UNCHANGED settled
      BY <2>1, <2>2, <2>3, Unseen
    <2>4. CASE settled' = settled \cup ({p} \X {g}) /\ plan(p, config[g].tags) = config[g].tags
      <3>1. \A h \in {g} : NoChange(p, config[h].tags)
        BY <2>4, PlanFixed
      <3>2. {g} \in SUBSET Guests
        OBVIOUS
      <3> QED BY <1>0, <2>1, <2>2, <2>4, <3>1, <3>2, SeenLeaveAlone
    <2> QED BY <2>1, <2>3, <2>4
  <1>4. ASSUME NEW p \in Commands, Return(p)
        PROVE  UNCHANGED Shown \/ Atomic!Succeed(p)
    <2>1. /\ pc[p] = "return" /\ UNCHANGED <<config, settled>>
          /\ pc' = [pc EXCEPT ![p] = IF failed[p] THEN "failed" ELSE "ok"]
      BY <1>4 DEF Return
    <2>2. CASE failed[p]
      BY <1>0, <2>1, <2>2, Unseen DEF TypeOK
    <2>3. CASE ~failed[p]
      <3>1. {p} \X p.selected \subseteq settled
        BY <2>1, <2>3 DEF IInv, Good, Busy, Complete
      <3>2. Succeeded' = Succeeded \cup {p}
        BY <1>0, <2>1, <2>3 DEF Succeeded, TypeOK
      <3>3. UNCHANGED TagsOf
        BY <2>1 DEF TagsOf
      <3> QED BY <2>1, <3>1, <3>2, <3>3 DEF Atomic!Succeed, selects, TagsOf, Succeeded
    <2> QED BY <2>2, <2>3
  <1>5. ASSUME NEW w \in writes, Accept(w)
        PROVE  \E p \in Commands, g \in Guests : Atomic!Apply(p, g)
    <2> DEFINE p == w.by
               g == w.guest
    <2>1. /\ p \in Commands /\ g \in Guests /\ w.tags \in SUBSET Tags
          /\ config \in [Guests -> Configs]
      BY <1>0 DEF TypeOK, Writes
    <2>2. /\ <<p, g>> \notin settled
          /\ w.tags = plan(p, config[g].tags)
      <3>1. PICK c \in Configs : w.digest = {c} /\ w.tags = plan(p, c.tags)
        BY DEF IInv, WriteTrue
      <3>2. c = config[g]
        BY <1>5, <3>1 DEF Accept, Stale
      <3> QED BY <3>1, <3>2 DEF IInv, WriteTrue
    <2>3. /\ config' = [config EXCEPT ![g] = [config[g] EXCEPT !.tags = w.tags]]
          /\ settled' = settled \cup {<<p, g>>}
      BY <1>5 DEF Accept
    <2>4. Succeeded' = Succeeded
      <3>1. \/ UNCHANGED pc
            \/ pc[p] = "await" /\ \E where \in {"return", "read"} : pc' = [pc EXCEPT ![p] = where]
        BY <1>5 DEF Accept, Waits
      <3> QED BY <1>0, <2>1, <3>1 DEF TypeOK, Succeeded
    <2>5. TagsOf' = [TagsOf EXCEPT ![g] = plan(p, @)]
      <3>1. config'[g].tags = plan(p, config[g].tags)
        BY <2>1, <2>2, <2>3 DEF Configs
      <3>2. \A h \in Guests \ {g} : config'[h] = config[h]
        BY <2>1, <2>3
      <3> QED BY <2>1, <3>1, <3>2 DEF TagsOf
    <2> HIDE DEF p, g
    <2>6. Atomic!Apply(p, g)
      BY <2>2, <2>3, <2>4, <2>5 DEF Atomic!Apply, TagsOf, Succeeded
    <2> QED BY <2>1, <2>6
  <1>6. ASSUME NEW w \in writes, Refuse(w) PROVE UNCHANGED Shown
    <2>1. /\ UNCHANGED <<config, settled>>
          /\ \/ UNCHANGED pc
             \/ /\ pc[w.by] = "await"
                /\ \E where \in {"return", "read"} : pc' = [pc EXCEPT ![w.by] = where]
      BY <1>6 DEF Refuse, Waits
    <2> QED BY <1>0, <2>1, Unseen DEF TypeOK
  <1>7. ASSUME NEW g \in Guests, Foreign(g) PROVE Atomic!Foreign(g)
    <2>1. /\ \A h \in Guests \ {g} : config'[h] = config[h]
          /\ UNCHANGED <<settled, pc>>
      BY <1>0, <1>7 DEF Foreign, TypeOK
    <2> QED BY <2>1 DEF Atomic!Foreign
  <1>8. CASE UNCHANGED vars
    BY <1>8, Unseen DEF vars
  <1> QED
    BY <1>1, <1>2, <1>3, <1>4, <1>5, <1>6, <1>7, <1>8
       DEF Next, CommandStep, Atomic!Next

\* No lost update: where the server gives out digests, the commands are the
\* atomic edits of AtomicTags, whatever else edits the guests meanwhile.
THEOREM AtomicWithDigests == Digests => (Spec => ImplementsAtomicTags)
  <1> SUFFICES ASSUME Digests PROVE Spec => ImplementsAtomicTags
    OBVIOUS
  <1>1. Init => Atomic!Init
    BY DEF Init, Atomic!Init
  <1>2. IInv /\ [Next]_vars => [Atomic!Next]_(Atomic!vars)
    BY StepImplements DEF Shown, TagsOf, Succeeded, Atomic!vars
  <1> QED BY <1>1, <1>2, Invariant, PTL DEF Spec, ImplementsAtomicTags, Atomic!Spec
=============================================================================
