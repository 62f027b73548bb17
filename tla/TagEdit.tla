------------------------------ MODULE TagEdit ------------------------------
(***************************************************************************)
(* The commands that edit guest tags, internal/cli/tag.go: `tag add`, `rm`,*)
(* `set` and `clear` of one guest, the bulk `add`, `rm` and `clear`,       *)
(* `rename` and `import`. Each reads the configuration of a guest, edits   *)
(* the tags, and writes them back with the digest of what it read.         *)
(*                                                                         *)
(* Other people edit the guests meanwhile. A call is what CallPromise says *)
(* of it: a write runs at most once, but it may run after its caller gave  *)
(* up on it. The digest of a configuration is the set of that             *)
(* configuration, empty when the digest is not known.                      *)
(***************************************************************************)
CONSTANTS
    Guests,
    Tags,
    Names,          \* guest names
    Digests,        \* the server gives a configuration its digest
    Commands,       \* the commands that may run
    Scenarios       \* which of them run together

Ops == {"add", "rm", "set", "clear", "rename", "import"}

\* bulk commands preview, ask and skip what needs no change; having is the
\* --has-tag filter, or the old tag of a rename; selected is the guests named
\* by the selector or listed in the file; name is their name in the file.
CommandType ==
    [op : Ops, bulk : BOOLEAN, tags : SUBSET Tags, having : SUBSET Tags,
     selected : SUBSET Guests, name : Names, force : BOOLEAN]

ASSUME CommandsAssumption ==
    /\ Commands \subseteq CommandType
    /\ \A p \in Commands :
          /\ ~p.bulk => p.having = {} /\ \E g \in Guests : p.selected = {g}
          /\ p.op = "import" => p.bulk /\ p.having = {}
          /\ p.op = "rename" => /\ p.bulk
                                /\ \E old, new \in Tags : old # new
                                      /\ p.having = {old} /\ p.tags = {new}
ASSUME ScenariosAssumption == Scenarios \subseteq SUBSET Commands
ASSUME DigestsAssumption == Digests \in BOOLEAN

VARIABLES
    config,         \* name and tags of each guest, on the server
    writes,         \* PUTs the server has not handled
    pc,             \* where each command is
    todo,           \* guests still to be resolved, or to be written
    targets,        \* guests of an import found to need a change
    writing,        \* the guest whose PUT is awaited, in a set, or no guest
    failed,         \* some guest could not be dealt with
    settled         \* command and guest pairs that are dealt with (history)

vars == <<config, writes, pc, todo, targets, writing, failed, settled>>

Configs == [name : Names, tags : SUBSET Tags]

(***************************************************************************)
(* addTags, removeTags and the edits the commands make with them.          *)
(***************************************************************************)
\* Fault: the arguments are taken for one tag.
addTags_AsOneTag(current, extra) == current \cup {extra}

addTags(current, extra) == current \cup extra

removeTags(current, drop) == current \ drop

plan(p, cur) ==
    CASE p.op = "add"    -> addTags(cur, p.tags)
      [] p.op = "rm"     -> removeTags(cur, p.tags)
      [] p.op = "clear"  -> {}
      [] p.op = "rename" -> addTags(removeTags(cur, p.having), p.tags)
      [] OTHER           -> p.tags

guestHasAnyTag(tags, want) == want = {} \/ tags \cap want # {}

\* A bulk command finds such a guest in no need of a change.
NoChange(p, tags) == plan(p, tags) = tags \/ ~guestHasAnyTag(tags, p.having)

tagEntryMismatch(p, g) == p.name # config[g].name

Init ==
    /\ config \in [Guests -> Configs]
    /\ writes = {}
    /\ \E run \in Scenarios :
          pc = [p \in Commands |-> IF p \in run THEN "idle" ELSE "quit"]
    /\ todo = [p \in Commands |-> {}]
    /\ targets = [p \in Commands |-> {}]
    /\ writing = [p \in Commands |-> {}]
    /\ failed = [p \in Commands |-> FALSE]
    /\ settled = {}

Goto(p, where) == pc' = [pc EXCEPT ![p] = where]

Settle(p, S) == settled' = settled \cup ({p} \X S)

\* Done with guest g: on to the next one, or return.
NextGuest(p, g) ==
    /\ todo' = [todo EXCEPT ![p] = @ \ {g}]
    /\ writing' = [writing EXCEPT ![p] = {}]
    /\ Goto(p, IF todo[p] = {g} THEN "return" ELSE "read")

Fail(p) == failed' = [failed EXCEPT ![p] = TRUE]

(***************************************************************************)
(* Choosing the guests.                                                    *)
(***************************************************************************)
\* resolveGuest of a command on one guest.
ResolveGuest(p) ==
    /\ pc[p] = "idle"
    /\ ~p.bulk
    /\ todo' = [todo EXCEPT ![p] = p.selected]
    /\ Goto(p, "read")
    /\ UNCHANGED <<config, writes, targets, writing, failed, settled>>

\* A bulk command lists the guests, and previews those it would change.
ListGuests(p) ==
    /\ pc[p] = "idle"
    /\ p.bulk /\ p.op # "import"
    /\ LET idle == {g \in p.selected : NoChange(p, config[g].tags)} IN
          /\ Settle(p, idle)
          /\ todo' = [todo EXCEPT ![p] = p.selected \ idle]
          /\ Goto(p, IF p.selected = idle THEN "return" ELSE "confirm")
    /\ UNCHANGED <<config, writes, targets, writing, failed>>

\* The list or the first read fails: nothing is done.
PrepareFails(p) ==
    /\ pc[p] = "idle"
    /\ Fail(p)
    /\ Goto(p, "return")
    /\ UNCHANGED <<config, writes, todo, targets, writing, settled>>

OpenFile(p) ==
    /\ pc[p] = "idle"
    /\ p.op = "import"
    /\ todo' = [todo EXCEPT ![p] = p.selected]
    /\ Goto(p, "resolve")
    /\ UNCHANGED <<config, writes, targets, writing, failed, settled>>

\* An import resolves its entries one by one.
ResolveEntry(p, g) ==
    /\ pc[p] = "resolve"
    /\ g \in todo[p]
    /\ todo' = [todo EXCEPT ![p] = @ \ {g}]
    /\ \/ /\ Fail(p)            \* not found, or not the guest of the file
          /\ UNCHANGED <<targets, settled>>
       \/ /\ p.force \/ ~tagEntryMismatch(p, g)
          /\ UNCHANGED failed
          /\ IF plan(p, config[g].tags) = config[g].tags
             THEN Settle(p, {g}) /\ UNCHANGED targets
             ELSE /\ targets' = [targets EXCEPT ![p] = @ \cup {g}]
                  /\ UNCHANGED settled
    /\ UNCHANGED <<config, writes, pc, writing>>

Resolved(p) ==
    /\ pc[p] = "resolve"
    /\ todo[p] = {}
    /\ todo' = [todo EXCEPT ![p] = targets[p]]
    /\ targets' = [targets EXCEPT ![p] = {}]
    /\ Goto(p, IF targets[p] = {} THEN "return" ELSE "confirm")
    /\ UNCHANGED <<config, writes, writing, failed, settled>>

Confirm(p) ==
    /\ pc[p] = "confirm"
    /\ Goto(p, "read")
    /\ UNCHANGED <<config, writes, todo, targets, writing, failed, settled>>

\* --dry-run, or the answer to the prompt is no.
Decline(p) ==
    /\ pc[p] = "confirm"
    /\ Goto(p, "quit")
    /\ UNCHANGED <<config, writes, todo, targets, writing, failed, settled>>

(***************************************************************************)
(* Editing one guest.                                                      *)
(***************************************************************************)
\* Fault: the digest is not sent back.
ReadGuest_NoDigest(p, g) ==
    /\ pc[p] = "read"
    /\ g \in todo[p]
    /\ LET cur == config[g].tags IN
       IF p.bulk /\ plan(p, cur) = cur
       THEN /\ Settle(p, {g})
            /\ NextGuest(p, g)
            /\ UNCHANGED writes
       ELSE /\ writes' = writes \cup
                  {[by |-> p, guest |-> g, tags |-> plan(p, cur), digest |-> {}]}
            /\ writing' = [writing EXCEPT ![p] = {g}]
            /\ Goto(p, "await")
            /\ UNCHANGED <<todo, settled>>
    /\ UNCHANGED <<config, targets, failed>>

\* guestTagsAndDigest, then the PUT of writeGuestTags, unless a bulk command
\* finds nothing left to change.
ReadGuest(p, g) ==
    /\ pc[p] = "read"
    /\ g \in todo[p]
    /\ LET cur == config[g].tags IN
       IF p.bulk /\ plan(p, cur) = cur
       THEN /\ Settle(p, {g})
            /\ NextGuest(p, g)
            /\ UNCHANGED writes
       ELSE /\ writes' = writes \cup
                  {[by |-> p, guest |-> g, tags |-> plan(p, cur),
                    digest |-> IF Digests THEN {config[g]} ELSE {}]}
            /\ writing' = [writing EXCEPT ![p] = {g}]
            /\ Goto(p, "await")
            /\ UNCHANGED <<todo, settled>>
    /\ UNCHANGED <<config, targets, failed>>

ReadFails(p, g) ==
    /\ pc[p] = "read"
    /\ g \in todo[p]
    /\ Fail(p)
    /\ NextGuest(p, g)
    /\ UNCHANGED <<config, writes, targets, settled>>

\* Fault: a write without an answer is not counted as a failure.
WriteLost_NotCounted(p, g) ==
    /\ pc[p] = "await"
    /\ g \in writing[p]
    /\ NextGuest(p, g)
    /\ UNCHANGED <<config, writes, targets, failed, settled>>

\* Fault: a write waits for its answer without a timeout.
WriteLost_NoTimeout(p, g) ==
    /\ pc[p] = "await"
    /\ g \in writing[p]
    /\ \A w \in writes : w.by # p
    /\ Fail(p)
    /\ NextGuest(p, g)
    /\ UNCHANGED <<config, writes, targets, settled>>

\* No answer to the PUT: it is over for the command, not for the server.
WriteLost(p, g) ==
    /\ pc[p] = "await"
    /\ g \in writing[p]
    /\ Fail(p)
    /\ NextGuest(p, g)
    /\ UNCHANGED <<config, writes, targets, settled>>

\* The exit code: 0 only when no guest failed.
Return(p) ==
    /\ pc[p] = "return"
    /\ Goto(p, IF failed[p] THEN "failed" ELSE "ok")
    /\ UNCHANGED <<config, writes, todo, targets, writing, failed, settled>>

\* Ctrl-C.
Kill(p) ==
    /\ pc[p] \notin {"idle", "ok", "failed", "quit"}
    /\ Goto(p, "quit")
    /\ UNCHANGED <<config, writes, todo, targets, writing, failed, settled>>

(***************************************************************************)
(* The server, and other people.                                           *)
(***************************************************************************)
\* The command reads the answer, if it still waits and the answer arrives.
Waits(w) == pc[w.by] = "await" /\ w.guest \in writing[w.by]

Stale(w) == ~(w.digest \subseteq {config[w.guest]})

Accept(w) ==
    /\ w \in writes
    /\ ~Stale(w)
    /\ writes' = writes \ {w}
    /\ config' = [config EXCEPT ![w.guest].tags = w.tags]
    /\ Settle(w.by, {w.guest})
    /\ \/ Waits(w) /\ NextGuest(w.by, w.guest)
       \/ UNCHANGED <<pc, todo, writing>>
    /\ UNCHANGED <<targets, failed>>

\* The digest does not match, or the guest is locked, gone or forbidden.
Refuse(w) ==
    /\ w \in writes
    /\ writes' = writes \ {w}
    /\ \/ Waits(w) /\ NextGuest(w.by, w.guest) /\ Fail(w.by)
       \/ UNCHANGED <<pc, todo, writing, failed>>
    /\ UNCHANGED <<config, targets, settled>>

\* Someone edits the guest, or replaces it by another one.
Foreign(g) ==
    /\ \E c \in Configs : config' = [config EXCEPT ![g] = c]
    /\ UNCHANGED <<writes, pc, todo, targets, writing, failed, settled>>

CommandStep(p) ==
    \/ ResolveGuest(p)
    \/ ListGuests(p)
    \/ PrepareFails(p)
    \/ OpenFile(p)
    \/ \E g \in Guests :
          \/ ResolveEntry(p, g)
          \/ ReadGuest(p, g)
          \/ ReadFails(p, g)
          \/ WriteLost(p, g)
    \/ Resolved(p)
    \/ Return(p)

Next ==
    \/ \E p \in Commands : CommandStep(p) \/ Confirm(p) \/ Decline(p) \/ Kill(p)
    \/ \E w \in writes : Accept(w) \/ Refuse(w)
    \/ \E g \in Guests : Foreign(g)

Spec == Init /\ [][Next]_vars

\* Calls end by an answer or a timeout. Nobody has to answer the prompt.
FairSpec == Spec /\ WF_vars(\E p \in Commands : CommandStep(p))

(***************************************************************************)
(* Properties.                                                             *)
(***************************************************************************)
Ended == {"ok", "failed", "quit"}

Writes == [by : Commands, guest : Guests, tags : SUBSET Tags,
           digest : SUBSET Configs]

\* Types.
TypeOK ==
    /\ config \in [Guests -> Configs]
    /\ writes \subseteq Writes
    /\ pc \in [Commands -> {"idle", "resolve", "confirm", "read", "await",
                            "return"} \cup Ended]
    /\ todo \in [Commands -> SUBSET Guests]
    /\ targets \in [Commands -> SUBSET Guests]
    /\ writing \in [Commands -> SUBSET Guests]
    /\ failed \in [Commands -> BOOLEAN]
    /\ settled \subseteq Commands \X Guests

\* Exit code 0 of a bulk command is not a partial success: every guest it
\* selects is dealt with, and none of its writes may still change a guest.
SuccessIsComplete ==
    \A p \in Commands : pc[p] = "ok" =>
        /\ {p} \X p.selected \subseteq settled
        /\ \A w \in writes : w.by # p

selects(p) == p.selected

Atomic == INSTANCE AtomicTags WITH
    Selects <- selects,
    Edit <- plan,
    LeavesAlone <- NoChange,
    tags <- [g \in Guests |-> config[g].tags],
    succeeded <- {p \in Commands : pc[p] = "ok"}

\* No lost update: whatever else edits the guests between the read and the
\* write, each write is the edit of the command on the tags of that moment,
\* once per guest, and a command that succeeds has dealt with all its guests.
ImplementsAtomicTags == Atomic!Spec

\* A command that has its answer at the prompt comes to an end.
EveryEditEnds == \A p \in Commands : pc[p] = "read" ~> pc[p] \in Ended
=============================================================================
