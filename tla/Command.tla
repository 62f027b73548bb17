------------------------------ MODULE Command ------------------------------
(***************************************************************************)
(* A command from its arguments to the end of the task it starts: the      *)
(* steps of Verbs, the resolution of its guest by Providers, its call, and *)
(* then the wait of TaskWait and the followed log of TaskLog on the task.  *)
(*                                                                         *)
(* The guests of the server change at any time: a listing shows any guests *)
(* that may exist together, and by the time of the call the path leads to  *)
(* any guest that fits it. Reads and calls fail with any kind of error.    *)
(***************************************************************************)
EXTENDS TaskWait, Verbs

CONSTANTS
    Guests,         \* the guests that may exist, for each provider
    Page,           \* lines per fetch of a log
    MaxLines        \* bound on the lines a task writes

ASSUME PageAssumption == Page \in Nat \ {0}
ASSUME MaxLinesAssumption == MaxLines \in Nat
ASSUME GuestsAssumption == \A p \in {"pve", "pdm"} :
    /\ IsFiniteSet(Guests[p])
    /\ Guests[p] \subseteq [vmid : Nat \ {0}, name : STRING, kind : Typed,
                           node : STRING, remote : STRING]
    /\ \A g \in Guests[p] : (g.remote = Unset) = (p = "pve")

VARIABLES
    cmd,            \* what the command knows, until its call is answered
    sent,           \* the call of the step just taken, and the guest it reached
    logPc, logFollow, logNext, logFetched, logSeen, logPrinted, written

log == <<logPc, logFollow, logNext, logFetched, logSeen, logPrinted, written>>
cvars == <<vars, cmd, sent, log>>

Log == INSTANCE TaskLog WITH pc <- logPc, follow <- logFollow, next <- logNext,
           fetched <- logFetched, seen <- logSeen, printed <- logPrinted,
           ended <- TaskStopped

\* listed and present are the guests the listing showed, and those that
\* existed then, which fit what was typed; consent is what was settled, the
\* guest if there is one, when the prompt was answered.
Blank == [provider |-> "pve", args |-> NoArgs, todo |-> <<>>, guest |-> NoGuest,
          consent |-> {}, listed |-> {}, present |-> {}]

NothingSent == [call |-> "none", guest |-> NoGuest]

CommandInit ==
    /\ Init
    /\ \E program \in Programs, provider \in {"pve", "pdm"} : \E a \in program.takes :
          /\ cmd = [Blank EXCEPT !.provider = provider, !.args = a,
                                 !.todo = program.steps]
          /\ program.flags \/ (wait /\ bounded = {})
    /\ sent = NothingSent
    /\ logPc = "off" /\ logFollow = FALSE /\ logNext = 1 /\ logFetched = 0
    /\ logSeen = Running /\ logPrinted = <<>> /\ written = 0

(***************************************************************************)
(* The steps before the call.                                              *)
(***************************************************************************)
Doing(steps) == cmd.todo # <<>> /\ Head(cmd.todo) \in steps

Advance(next) ==
    /\ cmd' = [next EXCEPT !.todo = Tail(@)]
    /\ UNCHANGED vars

Ends(outcomes) ==
    /\ \E k \in outcomes : Finish(Issuer, ExitCode(k))
    /\ cmd' = Blank
    /\ UNCHANGED <<tries, seen, expired, flags, server, printed>>

Quietly == sent' = NothingSent /\ UNCHANGED log

\* "local" is an error of no kind.
CheckLocally ==
    /\ Doing({"args", "provider"})
    /\ Advance(cmd) \/ Ends({"local"})

EnsureProvider ==
    /\ Doing({"pve", "pdm"})
    /\ IF Head(cmd.todo) = cmd.provider THEN Advance(cmd) ELSE Ends({"local"})

\* Guests that exist together: PVE has one guest of an id, PDM one in each
\* remote.
Listings(provider) ==
    {S \in SUBSET Guests[provider] :
        \A g, h \in S : (g.vmid = h.vmid /\ g.remote = h.remote) => g = h}

\* What was typed fits a guest; --node selects among names.
Named(a, g) ==
    /\ a.kind \in {Unset, g.kind}
    /\ IF a.vmid = 0 THEN g.name = a.name /\ a.node \in {Unset, g.node}
                     ELSE g.vmid = a.vmid
    /\ InRemote(a.remote, g)

Resolved(r, listed, present) ==
    IF r.error = "ok"
    THEN Advance([cmd EXCEPT !.guest = r.guest, !.listed = listed,
                             !.present = present])
    ELSE Ends({r.error})

Resolve ==
    /\ Doing({"resolve"})
    /\ IF LooksUp(cmd.args)
       THEN \/ Ends(Kinds \cup {"ctx"})
            \/ \E present \in Listings(cmd.provider), down \in SUBSET Remotes :
                  LET rows == ListedGuests(present, down) IN
                  \E r \in resolveGuest(cmd.provider, rows, cmd.args) :
                     Resolved(r, {g \in rows : Named(cmd.args, g)},
                                 {g \in present : Named(cmd.args, g)})
       ELSE \E r \in resolveGuest(cmd.provider, {}, cmd.args) : Resolved(r, {}, {})

Base ==
    /\ Doing({"base"})
    /\ IF HasBase(cmd.provider, cmd.guest) THEN Advance(cmd) ELSE Ends({"local"})

ClusterPath ==
    /\ Doing({"nodes"})
    /\ IF cmd.provider = "pve" THEN Advance(cmd) ELSE Ends(DefiniteKinds)

\* --node, or a node that is online.
NodeOrAuto ==
    /\ Doing({"node"})
    /\ Advance(cmd) \/ Ends(Kinds \cup {"ctx", "local"})

\* --yes or an answer of yes; no terminal, or any other answer.
Confirm ==
    /\ Doing({"confirm"})
    /\ Advance([cmd EXCEPT !.consent = {cmd.guest}]) \/ Ends({"local"})

\* A read may be all there is to do.
Read ==
    /\ Doing({"read"})
    /\ \/ Ends(Kinds \cup {"ctx"})
       \/ IF Len(cmd.todo) = 1 THEN Ends({"ok"}) ELSE Advance(cmd)

Prepare ==
    /\ \/ CheckLocally \/ EnsureProvider \/ Resolve \/ Base \/ ClusterPath
       \/ NodeOrAuto \/ Confirm \/ Read
    /\ Quietly

(***************************************************************************)
(* The call. From here on the command is TaskWait's.                       *)
(***************************************************************************)
Path ==
    LET b == guestBase(cmd.provider, cmd.guest) IN
    IF Doing(Backups) THEN [b EXCEPT !.kind = Unset] ELSE b

\* The guests the call may reach; a call on no guest reaches none.
Reached ==
    IF cmd.guest = NoGuest THEN {NoGuest}
    ELSE {g \in Guests[cmd.provider] : LeadsTo(cmd.provider, Path, g)}

Sends(guests) ==
    /\ \E g \in guests : sent' = [call |-> Head(cmd.todo), guest |-> g]
    /\ cmd' = Blank
    /\ UNCHANGED log

\* Declined, or lost: then it may reach its guest, now or later.
NotAnswered ==
    \/ PostRefused /\ Sends({NoGuest})
    \/ PostInDoubt /\ Sends(Reached \cup {NoGuest})

RawMutate ==
    /\ Doing(Calls \ (PowerActions \cup {"raw", "print"}))
    /\ \/ (PostStartsTask \/ PostIsSynchronous) /\ Sends(Reached)
       \/ NotAnswered

\* An answer without a task id is made a handle, and waited for.
HandleIsMadeUp ==
    /\ Goto(Issuer, "handle")
    /\ UNCHANGED <<tries, seen, expired, flags, server, printed>>

\* An answer of success that is no string is an error of Client.Do, of no
\* kind, whether the action is a task or was one.
AnswerUndecoded ==
    /\ pc[Issuer] = "idle"
    /\ Finish(Issuer, ExitCode("undecoded"))
    /\ task' \in {"none", "running"}
    /\ UNCHANGED <<tries, seen, expired, flags, late, printed>>

GuestPower ==
    /\ Doing(PowerActions)
    /\ IF cmd.provider = "pdm" /\ (Head(cmd.todo) \notin PDMPowerActions
                                    \/ ~HasBase("pdm", cmd.guest))
       THEN Ends({"local"}) /\ Quietly
       ELSE \/ (PostStartsTask \/ HandleIsMadeUp \/ AnswerUndecoded) /\ Sends(Reached)
            \/ NotAnswered

\* `pc raw`, `pc api` and `agent exec` print the answer and wait for nothing.
PrintAnswer ==
    /\ Doing({"raw", "print"})
    /\ \/ /\ Finish(Issuer, 0)
          /\ \/ task' = "running" /\ printed' = TRUE
             \/ UNCHANGED <<task, printed>>
          /\ UNCHANGED <<tries, seen, expired, flags, late>>
          /\ Sends(Reached)
       \/ NotAnswered

Call == RawMutate \/ GuestPower \/ PrintAnswer

(***************************************************************************)
(* After the call: the task, those who wait for it, and its log. One other *)
(* command watches a task, waiting for it or following its log.            *)
(***************************************************************************)
Watched == \E p \in Followers : pc[p] # "idle"

TaskStep ==
    /\ \/ FinishTask
       \/ \E p \in Processes : PollStep(p) \/ Expire(p)
       \/ logPc = "off" /\ \E p \in Followers : Follow(p)
       \/ LateStart
       \/ TaskEnds
    /\ sent' = NothingSent
    /\ UNCHANGED <<cmd, log>>

OpenLog ==
    /\ logPc = "off" /\ Started /\ ~Watched /\ pc[Issuer] = "done"
    /\ logPc' = "first"
    /\ logFollow' \in BOOLEAN
    /\ written' \in 0 .. MaxLines
    /\ UNCHANGED <<logNext, logFetched, logSeen, logPrinted>>

LogStep ==
    /\ UNCHANGED <<vars, cmd>>
    /\ sent' = NothingSent
    /\ OpenLog \/ Log!Stream \/ (logPc # "off" /\ Log!WriteLine)

CommandNext == Prepare \/ Call \/ TaskStep \/ LogStep

CommandSpec == CommandInit /\ [][CommandNext]_cvars

\* As in TaskWait and TaskLog: a client takes its steps and its reads end; the
\* task may run for ever.
Polling(p) == PollStep(p) /\ sent' = NothingSent /\ UNCHANGED <<cmd, log>>
Finishing == FinishTask /\ sent' = NothingSent /\ UNCHANGED <<cmd, log>>
Expiring(p) == Expire(p) /\ sent' = NothingSent /\ UNCHANGED <<cmd, log>>
Streaming == UNCHANGED <<vars, cmd>> /\ sent' = NothingSent /\ Log!Stream

FairCommand ==
    /\ CommandSpec
    /\ WF_cvars(Finishing)
    /\ \A p \in Processes : WF_cvars(Polling(p)) /\ WF_cvars(Expiring(p))
    /\ WF_cvars(Streaming)

(***************************************************************************)
(* Properties.                                                             *)
(***************************************************************************)
\* Types: a command that was answered has nothing left to do, and neither a
\* poll nor the cursor of a log runs away.
CommandTypeOK ==
    /\ TypeOK
    /\ logPc # "off" => Log!TypeOK
    /\ cmd.todo # <<>> => pc[Issuer] = "idle" /\ task = "none"
    /\ cmd.guest.vmid \in Nat /\ cmd.listed \subseteq cmd.present
    /\ sent.call \in Calls \cup {"none"}

\* A call that reaches a guest reaches one the arguments name, whatever
\* changed since the listing: of the kind of the noun, with the id that was
\* typed or the id that the name had, on the node (PVE) given or in the remote
\* (PDM) given, whose name is that of the guest's remote but for letter case.
OnlyTheNamedGuest ==
    [][sent'.guest # NoGuest =>
          LET g == sent'.guest
              a == cmd.args
          IN /\ a.kind \in {Unset, g.kind}
             /\ IF a.vmid = 0 THEN \E l \in cmd.listed : l.vmid = g.vmid
                              ELSE g.vmid = a.vmid
             /\ IF cmd.provider = "pve" THEN a.vmid = 0 \/ a.node \in {Unset, g.node}
                                        ELSE InRemote(a.remote, g)
      ]_cvars

\* Among several guests of the listing that fit the arguments the command
\* never picks one: it stops before its prompt and its call. The exception is
\* an id with --remote, where it takes the first, and those that fit may be in
\* remotes whose names differ, in letter case alone.
NeverPicksAmong ==
    (cmd.guest # NoGuest /\ LooksUp(cmd.args)) =>
        \/ Cardinality(cmd.listed) = 1
        \/ /\ cmd.args.vmid # 0 /\ cmd.args.remote # Unset
           /\ \A g, h \in cmd.listed :
                 g # h => g.remote # h.remote /\ EqualFold(g.remote, h.remote)

\* README.md:141, "destructive ops prompt unless --yes/--force", holds of the
\* calls that take something away or down but for those of Unasked, which the
\* code sends without: no other is sent without consent, nor reaches another
\* guest than the one, by its id and kind, that was settled at the prompt.
AsksFirst ==
    [][sent'.call \in Destructive \ Unasked =>
          \E g \in cmd.consent :
             sent'.guest = NoGuest
             \/ (sent'.guest.vmid = g.vmid /\ sent'.guest.kind = g.kind)
      ]_cvars

\* The comment of PDM.ResolveGuest, "ambiguous if present on several": when an
\* id is looked up that several guests have, the command picks none of them.
AmbiguousIsRefused ==
    (cmd.guest # NoGuest /\ LooksUp(cmd.args) /\ cmd.args.vmid # 0)
        => Cardinality(cmd.present) <= 1

\* The log of the task: no line lost or repeated, ...
LogNoLossNoDup == logPc # "off" => Log!NoLossNoDup

\* ... complete when the last page was not full, ...
LogLastPageIsComplete == Log!LastPageIsComplete

\* ... and a follow that ends with the task, however that was started and
\* whoever waits for it.
LogFollowEndsWithTask ==
    (TaskStopped /\ logPc # "off") ~> logPc \in {"done", "failed"}
=============================================================================
