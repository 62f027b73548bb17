----------------------------- MODULE AtomicTags -----------------------------
(***************************************************************************)
(* What the tag commands promise to people who edit the same guests at the *)
(* same time: a command changes a guest at most once, in one atomic step   *)
(* that applies its edit to the tags the guest has at that moment; and a   *)
(* command that succeeds has edited every guest it was asked to edit,      *)
(* except those it found it had to leave alone.                            *)
(* TagEdit implements this specification.                                  *)
(***************************************************************************)
CONSTANTS
    Commands,           \* the running commands
    Guests,
    Selects(_),         \* the guests a command is asked to edit
    Edit(_, _),         \* the tags a command makes of a guest's tags
    LeavesAlone(_, _)   \* the command has nothing to do on such tags

VARIABLES
    tags,               \* tags of each guest
    settled,            \* command and guest pairs that are dealt with
    succeeded           \* commands that reported success

vars == <<tags, settled, succeeded>>

Init ==
    /\ settled = {}
    /\ succeeded = {}

\* A command finds guests that need nothing.
LeaveAlone(p, S) ==
    /\ \A g \in S : LeavesAlone(p, tags[g])
    /\ settled' = settled \cup ({p} \X S)
    /\ UNCHANGED <<tags, succeeded>>

Apply(p, g) ==
    /\ <<p, g>> \notin settled
    /\ tags' = [tags EXCEPT ![g] = Edit(p, @)]
    /\ settled' = settled \cup {<<p, g>>}
    /\ UNCHANGED succeeded

Succeed(p) ==
    /\ {p} \X Selects(p) \subseteq settled
    /\ succeeded' = succeeded \cup {p}
    /\ UNCHANGED <<tags, settled>>

\* Other tools edit guests too.
Foreign(g) ==
    /\ \A h \in Guests \ {g} : tags'[h] = tags[h]
    /\ UNCHANGED <<settled, succeeded>>

Next ==
    \/ \E p \in Commands :
          \/ \E S \in SUBSET Guests : LeaveAlone(p, S)
          \/ \E g \in Guests : Apply(p, g)
          \/ Succeed(p)
    \/ \E g \in Guests : Foreign(g)

Spec == Init /\ [][Next]_vars
=============================================================================
