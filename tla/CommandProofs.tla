---------------------------- MODULE CommandProofs ----------------------------
(***************************************************************************)
(* For any guests, arguments, exit statuses and followers: where a  *)
(* command chooses among guests that fit what was typed and where not,     *)
(* what its call reaches, which calls it sends unasked, and that exit      *)
(* codes 0 and 5 tell the truth about the task.                            *)
(***************************************************************************)
EXTENDS Command, FiniteSetTheorems, SequenceTheorems, TLAPS

USE ProcessesAssumption, RetriesAssumption, ExitStatusesAssumption

----------------------------------------------------------------------------
(***************************************************************************)
(* What the commands do before their calls.                                *)
(***************************************************************************)
Steps == Calls \cup {"args", "provider", "pve", "pdm", "resolve", "base", "node",
                     "nodes", "read", "confirm"}

\* The calls that must be asked for.
MustAsk == Destructive \ Unasked

\* The steps that are left, of a command that has asked or has not: no call
\* that must be asked for before the prompt, and no guest looked up after it.
InOrder(steps, asked) ==
    \A i \in 1 .. Len(steps) :
       /\ steps[i] \in MustAsk =>
             asked \/ \E j \in 1 .. i - 1 : steps[j] = "confirm"
       /\ steps[i] = "resolve" =>
             ~asked /\ \A j \in 1 .. i - 1 : steps[j] # "confirm"

\* Only a backup is taken of a guest of any kind.
KindIsKept(steps, a) ==
    \A i \in 1 .. Len(steps) : steps[i] \in Backups => a.kind = Unset

AreArgs(a) == a.vmid \in Nat /\ a.kind \in AnyNoun

IsProgram(program) ==
    /\ program.steps \in Seq(Steps)
    /\ InOrder(program.steps, FALSE)
    /\ \A a \in program.takes : AreArgs(a) /\ KindIsKept(program.steps, a)

\* A list of steps that starts a command and is no backup.
IsList(s) ==
    /\ Len(s) \in Nat /\ s = [i \in 1 .. Len(s) |-> s[i]]
    /\ \A i \in 1 .. Len(s) : s[i] \in Steps \ Backups
    /\ InOrder(s, FALSE)

IsHarmless(s) ==
    /\ IsList(s)
    /\ \A i \in 1 .. Len(s) : s[i] \notin MustAsk \cup {"confirm"}

LEMMA ListIsSeq ==
    ASSUME NEW s, IsList(s)
    PROVE  s \in Seq(Steps) /\ \A i \in 1 .. Len(s) : s[i] \notin Backups
<1>1. [i \in 1 .. Len(s) |-> s[i]] \in Seq(Steps)
  BY DEF IsList
<1> QED
  BY <1>1 DEF IsList

\* What is put before a list and does no harm leaves it in order.
LEMMA HarmlessPrefix ==
    ASSUME NEW s, NEW t, IsHarmless(s), IsList(t)
    PROVE  IsList(s \o t)
<1> DEFINE u == s \o t
<1>0. /\ s \in Seq(Steps) /\ t \in Seq(Steps) /\ IsList(s)
      /\ Len(s) \in Nat /\ Len(t) \in Nat
  BY ListIsSeq DEF IsHarmless, IsList
<1>1. /\ u \in Seq(Steps) /\ Len(u) = Len(s) + Len(t)
      /\ \A i \in 1 .. Len(s) + Len(t) :
              u[i] = IF i <= Len(s) THEN s[i] ELSE t[i - Len(s)]
  <2>1. \A a, b \in Seq(Steps) :
           /\ a \o b \in Seq(Steps) /\ Len(a \o b) = Len(a) + Len(b)
           /\ \A i \in 1 .. Len(a) + Len(b) :
                 (a \o b)[i] = IF i <= Len(a) THEN a[i] ELSE b[i - Len(a)]
    BY ConcatProperties, Zenon
  <2> QED
    BY <1>0, <2>1, Zenon
<1> HIDE DEF u
\* An index of the whole is one of the first part or of the second.
<1>2. ASSUME NEW i \in 1 .. Len(u)
      PROVE  \/ i \in 1 .. Len(s) /\ u[i] = s[i]
             \/ /\ i - Len(s) \in 1 .. Len(t) /\ u[i] = t[i - Len(s)]
                /\ \A j \in 1 .. i - Len(s) - 1 :
                      Len(s) + j \in 1 .. i - 1 /\ u[Len(s) + j] = t[j]
  <2>1. CASE i <= Len(s)
    BY <1>0, <1>1, <2>1
  <2>2. CASE ~(i <= Len(s))
    <3>1. i - Len(s) \in 1 .. Len(t) /\ u[i] = t[i - Len(s)]
      BY <1>0, <1>1, <2>2
    <3>2. ASSUME NEW j \in 1 .. i - Len(s) - 1
          PROVE  Len(s) + j \in 1 .. i - 1 /\ u[Len(s) + j] = t[j]
      <4>1. /\ Len(s) + j \in 1 .. i - 1 /\ Len(s) + j \in 1 .. Len(s) + Len(t)
            /\ ~(Len(s) + j <= Len(s)) /\ Len(s) + j - Len(s) = j
        BY <1>0, <1>1, <2>2
      <4> QED
        BY <1>1, <4>1
    <3> QED
      BY <3>1, <3>2
  <2> QED
    BY <2>1, <2>2
<1>3. \A i \in 1 .. Len(u) : u[i] \in Steps \ Backups
  BY <1>0, <1>2 DEF IsList
<1>4. ASSUME NEW i \in 1 .. Len(u), u[i] \in MustAsk
      PROVE  \E j \in 1 .. i - 1 : u[j] = "confirm"
  <2>1. u[i] = t[i - Len(s)] /\ i - Len(s) \in 1 .. Len(t)
    BY <1>2, <1>4 DEF IsHarmless
  <2>2. PICK j \in 1 .. i - Len(s) - 1 : t[j] = "confirm"
    BY <1>4, <2>1 DEF IsList, InOrder
  <2>3. ~(i \in 1 .. Len(s))
    BY <1>0, <2>1
  <2> QED
    BY <1>2, <2>2, <2>3
<1>5. ASSUME NEW i \in 1 .. Len(u), u[i] = "resolve", NEW j \in 1 .. i - 1
      PROVE  u[j] # "confirm"
  <2>1. j \in 1 .. Len(u) /\ Len(u) \in Nat
    BY <1>0, <1>1
  <2>2. CASE j \in 1 .. Len(s) /\ u[j] = s[j]
    BY <2>2 DEF IsHarmless
  <2>3. CASE j - Len(s) \in 1 .. Len(t) /\ u[j] = t[j - Len(s)]
    <3>1. ~(i \in 1 .. Len(s)) /\ j - Len(s) \in 1 .. i - Len(s) - 1
      BY <1>0, <2>1, <2>3
    <3>2. i - Len(s) \in 1 .. Len(t) /\ u[i] = t[i - Len(s)]
      BY <1>2, <3>1
    <3> QED
      BY <1>5, <2>3, <3>1, <3>2 DEF IsList, InOrder
  <2> QED
    BY <1>2, <2>1, <2>2, <2>3
<1>6. Len(u) \in Nat /\ u = [i \in 1 .. Len(u) |-> u[i]]
  BY <1>1, LenProperties
<1> QED
  BY <1>3, <1>4, <1>5, <1>6 DEF IsList, InOrder, u

LEMMA TakesAreArgs ==
    ASSUME NEW nouns, NEW remotes, NEW fl, NEW steps, nouns \subseteq AnyNoun,
           NEW a \in OnGuest(nouns, remotes, fl, steps).takes
    PROVE  AreArgs(a)
<1>1. a \in [vmid : Vmids \cup {0}, name : Names \cup {Unset}, kind : nouns,
             node : Nodes \cup {Unset}, remote : remotes \cup {Unset}]
  BY DEF OnGuest
<1>2. a.vmid \in Vmids \cup {0} /\ a.kind \in nouns
  BY <1>1
<1>3. a.vmid \in Nat
  <2>1. \A v \in Vmids \cup {0} : v \in Nat
    BY VmidsAssumption
  <2> QED
    BY <1>2, <2>1, Zenon
<1>4. a.kind \in AnyNoun
  BY <1>2
<1> QED
  BY <1>3, <1>4 DEF AreArgs

\* A list of steps makes a program, on a guest ...
LEMMA OnGuestIsProgram ==
    ASSUME NEW nouns, NEW remotes, NEW fl, NEW steps, nouns \subseteq AnyNoun,
           IsList(steps)
    PROVE  IsProgram(OnGuest(nouns, remotes, fl, steps))
<1>1. OnGuest(nouns, remotes, fl, steps).steps = steps
  BY DEF OnGuest
<1> QED
  BY <1>1, ListIsSeq, TakesAreArgs DEF IsProgram, KindIsKept, IsList

\* ... or on none.
LEMMA DoesIsProgram ==
    ASSUME NEW fl, NEW steps, IsList(steps)
    PROVE  IsProgram(Does(fl, steps))
<1>1. Does(fl, steps).steps = steps /\ Does(fl, steps).takes = {NoArgs}
  BY DEF Does
<1>2. AreArgs(NoArgs)
  BY DEF NoArgs, AreArgs, AnyNoun, Unset
<1> QED
  BY <1>1, <1>2, ListIsSeq DEF IsProgram, KindIsKept, IsList

LEMMA Nouns == {Typed, VM, CT, AnyNoun} \subseteq SUBSET AnyNoun
BY DEF AnyNoun, Typed

\* The commands of guest.go and guest_lifecycle.go.
GuestLists ==
    {<<"provider", "resolve", "read">>, <<"provider", "resolve", "base", "read">>,
     <<"provider", "resolve", "args", "pve", "POST">>,
     <<"provider", "resolve", "pve", "confirm", "DELETE">>,
     <<"args", "provider", "resolve", "base", "POST">>,
     <<"provider", "resolve", "pve", "args", "PUT">>,
     <<"provider", "resolve", "pve", "args", "clearField">>}

LEMMA GuestPrograms ==
    \A program \in Power \cup SnapshotCommands \cup ConfigSet
          \cup {Show, Status, Monitor, Clone, Delete, Migrate, ConfigShow} :
       IsProgram(program)
<1> USE DEF IsList, InOrder, MustAsk, Destructive, Unasked, Steps, Calls,
            PowerActions, Backups
<1>1. /\ \A x \in {"start", "resume"} : IsList(<<"provider", "resolve", x>>)
      /\ \A x \in {"stop", "shutdown", "reboot", "suspend"} :
            IsList(<<"provider", "resolve", "confirm", x>>)
  OBVIOUS
<1>2. \A s \in GuestLists : IsList(s)
  BY DEF GuestLists
<1>3. /\ IsHarmless(<<"provider", "resolve", "base">>)
      /\ \A s \in {<<"POST">>, <<"read">>, <<"confirm", "DELETE">>,
                   <<"confirm", "rollback">>} : IsList(s)
  BY DEF IsHarmless
<1> HIDE DEF IsList, InOrder, MustAsk, Destructive, Unasked, Steps, Calls,
            PowerActions, Backups
<1>4. \A program \in Power : IsProgram(program)
  <2>1. \A x \in {"start", "resume"} :
           IsProgram(OnGuest(AnyNoun, Remotes, TRUE, <<"provider", "resolve", x>>))
    BY <1>1, OnGuestIsProgram
  <2>2. \A x \in {"stop", "shutdown", "reboot", "suspend"} :
           IsProgram(OnGuest(AnyNoun, Remotes, TRUE,
                             <<"provider", "resolve", "confirm", x>>))
    BY <1>1, OnGuestIsProgram
  <2> QED
    BY <2>1, <2>2 DEF Power
<1>5. \A program \in SnapshotCommands : IsProgram(program)
  <2> DEFINE Rests == {<<"POST">>, <<"read">>, <<"confirm", "DELETE">>,
                       <<"confirm", "rollback">>}
             first == <<"provider", "resolve", "base">>
  <2>1. \A s \in Rests : IsList(first \o s)
    <3> HIDE DEF Rests, first
    <3> QED BY <1>3, HarmlessPrefix DEF Rests, first
  <2>2. Typed \subseteq AnyNoun
    BY Nouns
  <2>3. \A s \in Rests : IsProgram(OnGuest(Typed, Remotes, FALSE, first \o s))
    <3> HIDE DEF Rests, first
    <3> QED BY <2>1, <2>2, OnGuestIsProgram
  <2>4. SnapshotCommands = {OnGuest(Typed, Remotes, FALSE, first \o s) : s \in Rests}
    BY DEF SnapshotCommands
  <2> HIDE DEF Rests, first
  <2> QED BY <2>3, <2>4
<1>6. ASSUME NEW nouns \in {Typed, AnyNoun}, NEW remotes, NEW fl, NEW s \in GuestLists
      PROVE  IsProgram(OnGuest(nouns, remotes, fl, s))
  BY <1>2, Nouns, OnGuestIsProgram
<1>7. \A program \in ConfigSet
            \cup {Show, Status, Monitor, Clone, Delete, Migrate, ConfigShow} :
         IsProgram(program)
  BY <1>6 DEF GuestLists, Show, Status, Monitor, Clone, Delete, Migrate, ConfigShow,
              ConfigSet
<1> QED
  BY <1>4, <1>5, <1>7

\* The commands of guest_extras.go, which share their first steps.
ExtraLists ==
    {<<"args", "PUT">>, <<"confirm", "template">>, <<"confirm", "reset">>,
     <<"args", "POST">>, <<"args", "confirm", "unlink">>, <<"PUT">>, <<"read">>,
     <<"POST">>, <<"print">>, <<"args", "deleteSource">>, <<"agentShutdown">>}

LEMMA ExtraPrograms ==
    \A program \in CloudInit \cup MoveDisk \cup MoveVolume \cup AgentPost
          \cup {Resize, Template, Reset, Unlink, SendKey, AgentRead, AgentExec,
                AgentSetPassword} :
       IsProgram(program)
<1> USE DEF IsList, InOrder, MustAsk, Destructive, Unasked, Steps, Calls,
            PowerActions, Backups
<1>1. \A s \in ExtraLists : IsList(s)
  BY DEF ExtraLists
<1>2. IsHarmless(<<"provider", "pve", "resolve", "base">>)
  BY DEF IsHarmless
<1> HIDE DEF IsList, InOrder, MustAsk, Destructive, Unasked, Steps, Calls,
            PowerActions, Backups
<1>3. \A nouns \in {Typed, VM, CT}, s \in ExtraLists : IsProgram(OnPVEGuest(nouns, s))
  BY <1>1, <1>2, Nouns, HarmlessPrefix, OnGuestIsProgram DEF OnPVEGuest
<1> QED
  BY <1>3 DEF ExtraLists, CloudInit, Resize, Template, Reset, MoveDisk, Unlink, SendKey,
              MoveVolume, AgentRead, AgentPost, AgentExec, AgentSetPassword

\* The firewall commands, and the backup of a guest of any kind.
LEMMA FirewallPrograms ==
    \A program \in FirewallRead \cup FirewallRuleAdd \cup FirewallRuleDelete :
       IsProgram(program)
<1> DEFINE Rests == {<<"read">>, <<"args", "POST">>, <<"confirm", "DELETE">>}
<1>1. /\ \A s \in Rests : IsList(s)
      /\ IsHarmless(<<"provider">>)
      /\ IsHarmless(<<"provider", "args", "resolve", "nodes">>)
  BY DEF IsList, IsHarmless, InOrder, MustAsk, Destructive, Unasked, Steps, Calls,
            PowerActions, Backups
<1>2. ASSUME NEW s \in Rests, NEW program \in FirewallScopes(s)
      PROVE  IsProgram(program)
  <2> DEFINE on == <<"provider", "args", "resolve", "nodes">> \o s
  <2>1. IsList(<<"provider">> \o s) /\ IsList(on)
    BY <1>1, HarmlessPrefix
  <2>2. CASE program = Does(FALSE, <<"provider">> \o s)
    BY <2>1, <2>2, DoesIsProgram
  <2>3. CASE program # Does(FALSE, <<"provider">> \o s)
    <3>0. program = [takes |-> {a \in OnGuest(AnyNoun, {}, FALSE, <<>>).takes :
                                  a.vmid # 0 /\ (a.kind = Unset) = (a.node = Unset)},
                     flags |-> FALSE, steps |-> on]
      BY <1>2, <2>3 DEF FirewallScopes
    <3>1. /\ program.steps = on
          /\ program.takes \subseteq OnGuest(AnyNoun, {}, FALSE, <<>>).takes
      <4> HIDE DEF on
      <4> QED BY <3>0
    <3>2. \A a \in program.takes : AreArgs(a)
      BY <3>1, TakesAreArgs
    <3> HIDE DEF on
    <3> QED
      BY <2>1, <3>1, <3>2, ListIsSeq DEF IsProgram, KindIsKept, IsList
  <2> QED
    BY <2>2, <2>3
<1> QED
  BY <1>2 DEF FirewallRead, FirewallRuleAdd, FirewallRuleDelete

LEMMA BackupPrograms == \A program \in BackupCreate : IsProgram(program)
<1> DEFINE s(call) == <<"args", "provider", "resolve", "nodes", call>>
<1>1. \A call \in Backups : s(call) \in Seq(Steps) /\ InOrder(s(call), FALSE)
  BY DEF InOrder, MustAsk, Destructive, Unasked, Steps, Calls, PowerActions, Backups
<1> HIDE DEF s
<1>2. ASSUME NEW program \in BackupCreate PROVE IsProgram(program)
  <2>1. PICK call \in Backups :
           program = [takes |-> {[NoArgs EXCEPT !.vmid = v] : v \in Vmids \cup {0}},
                      flags |-> TRUE, steps |-> s(call)]
    BY <1>2 DEF BackupCreate, s
  <2>2. program.steps = s(call)
    BY <2>1
  <2>3. ASSUME NEW a \in program.takes PROVE AreArgs(a) /\ a.kind = Unset
    <3>1. PICK v \in Vmids \cup {0} : a = [NoArgs EXCEPT !.vmid = v]
      BY <2>1, <2>3
    <3>2. v \in Nat
      <4>1. \A w \in Vmids \cup {0} : w \in Nat
        BY VmidsAssumption
      <4> QED
        BY <4>1
    <3> QED
      BY <3>1, <3>2 DEF NoArgs, AreArgs, AnyNoun
  <2> QED
    BY <1>1, <2>2, <2>3 DEF IsProgram, KindIsKept
<1> QED
  BY <1>2

\* The commands on no guest.
PlainLists ==
    {<<"provider", "read">>, <<"args", "provider", "read">>,
     <<"provider", "node", "read">>, <<"args", "provider", "node", "read">>,
     <<"provider", "args", "read">>, <<"args", "provider", "args", "read">>,
     <<"provider", "POST">>, <<"provider", "args", "POST">>,
     <<"provider", "args", "PUT">>, <<"provider", "pve", "args", "POST">>,
     <<"provider", "pve", "args", "PUT">>, <<"provider", "pve", "read", "args", "PUT">>,
     <<"provider", "pve", "args", "node", "POST">>,
     <<"args", "provider", "pve", "args", "POST">>,
     <<"pdm", "read">>, <<"pdm", "PUT">>, <<"pdm", "args", "POST">>,
     <<"pdm", "args", "PUT">>, <<"args", "pdm", "args", "POST">>,
     <<"provider", "args", "removeMembers">>, <<"provider", "args", "deleteACL">>,
     <<"provider", "pve", "args", "clearField">>,
     <<"provider", "pve", "read", "args", "clearField">>,
     <<"pdm", "args", "clearField">>}

AskingLists ==
    {<<"provider", "confirm", "DELETE">>, <<"args", "provider", "confirm", "DELETE">>,
     <<"provider", "args", "confirm", "DELETE">>,
     <<"provider", "pve", "confirm", "DELETE">>, <<"provider", "pve", "confirm", "apply">>,
     <<"provider", "confirm", "apply">>, <<"provider", "confirm", "halt">>,
     <<"provider", "args", "confirm", "halt">>,
     <<"provider", "args", "confirm", "rebalance">>,
     <<"provider", "args", "confirm", "raw">>,
     <<"args", "provider", "args", "confirm", "raw">>,
     <<"pdm", "confirm", "DELETE">>, <<"args", "pdm", "confirm", "DELETE">>}

LEMMA DoesLists ==
    \A fl, s : s \in PlainLists \cup AskingLists => IsProgram(Does(fl, s))
<1>1. \A s \in PlainLists : IsList(s)
  BY DEF PlainLists, IsList, InOrder, MustAsk, Destructive, Unasked, Steps, Calls,
            PowerActions, Backups
<1>2. \A s \in AskingLists : IsList(s)
  BY DEF AskingLists, IsList, InOrder, MustAsk, Destructive, Unasked, Steps, Calls,
            PowerActions, Backups
<1> QED
  BY <1>1, <1>2, DoesIsProgram

LEMMA PairPrograms ==
    \A program \in
         PruneBackups \cup NodeService \cup CephService \cup OSDMark \cup
         ServerNotes \cup Raw \cup API \cup TaskRead \cup NetworkUpdate \cup
         PoolUpdate \cup RealmUpdate \cup ACLSet \cup RemoteUpdate :
       IsProgram(program)
<1> DEFINE Plain == {Does(FALSE, s) : s \in PlainLists \cup AskingLists}
<1>1. PruneBackups \subseteq Plain /\ NodeService \subseteq Plain
  BY DEF PlainLists, AskingLists, PruneBackups, NodeService
<1>2. CephService \subseteq Plain /\ OSDMark \subseteq Plain
  BY DEF PlainLists, AskingLists, CephService, OSDMark
<1>3. ServerNotes \subseteq Plain /\ TaskRead \subseteq Plain
  BY DEF PlainLists, AskingLists, ServerNotes, TaskRead
<1>4. Raw \subseteq Plain /\ API \subseteq Plain
  BY DEF PlainLists, AskingLists, Raw, API
<1>5. /\ NetworkUpdate \subseteq Plain /\ PoolUpdate \subseteq Plain
      /\ RealmUpdate \subseteq Plain
  BY DEF PlainLists, AskingLists, NetworkUpdate, PoolUpdate, RealmUpdate
<1>6. ACLSet \subseteq Plain /\ RemoteUpdate \subseteq Plain
  BY DEF PlainLists, AskingLists, ACLSet, RemoteUpdate
<1> QED
  <2>1. \A program \in Plain : IsProgram(program)
    BY DoesLists
  <2> HIDE DEF Plain
  <2> QED
    BY <1>1, <1>2, <1>3, <1>4, <1>5, <1>6, <2>1

LEMMA StoragePrograms ==
    \A program \in
         {StorageRead, ContentList, ContentDelete, StorageStatus, Upload,
         BackupList, BackupJobCreate, BackupJobDelete} :
       IsProgram(program)
BY DoesLists DEF PlainLists, AskingLists, StorageRead, ContentList, ContentDelete,
   StorageStatus, Upload, BackupList, BackupJobCreate, BackupJobDelete

LEMMA NetworkPrograms ==
    \A program \in
         {GuestList, Create, NetworkRead, NetworkCreate, NetworkDelete, NetworkApply, NetworkRevert} :
       IsProgram(program)
BY DoesLists DEF PlainLists, AskingLists, GuestList, Create, NetworkRead,
   NetworkCreate, NetworkDelete, NetworkApply, NetworkRevert

LEMMA ClusterPrograms ==
    \A program \in
         {anyGet, PoolCreate, PoolDelete, HAAdd, HARemove, SDNApply,
         SDNZoneCreate, SDNVnetCreate, SDNSubnetCreate, SDNSubnetDelete,
         SDNControllerCreate, sdnDelete, sdnRead} :
       IsProgram(program)
BY DoesLists DEF PlainLists, AskingLists, anyGet, PoolCreate, PoolDelete,
   HAAdd, HARemove, SDNApply, SDNZoneCreate, SDNVnetCreate, SDNSubnetCreate,
   SDNSubnetDelete, SDNControllerCreate, sdnDelete, sdnRead

LEMMA AdminPrograms ==
    \A program \in
         {NodeRead, CephRead, OSDDestroy, CephPoolCreate, CephPoolDelete,
         RealmCreate, RealmDelete, RealmSync, UserCreate, UserDelete,
         TokenCreate, TokenDelete} :
       IsProgram(program)
BY DoesLists DEF PlainLists, AskingLists, NodeRead, CephRead, OSDDestroy,
   CephPoolCreate, CephPoolDelete, RealmCreate, RealmDelete, RealmSync,
   UserCreate, UserDelete, TokenCreate, TokenDelete

LEMMA PDMPrograms ==
    \A program \in
         {simpleGet, RemoteList, RemoteAdd, RemoteRemove,
          RemoteClusterStatus, RemoteUpdates, ServerRealmCreate, ServerRealmDelete,
          ServerViewCreate, ServerViewDelete, SubKeyAdd, SubKeyRemove, ApplianceDelete} :
       IsProgram(program)
BY DoesLists DEF PlainLists, AskingLists, simpleGet, RemoteList, RemoteAdd,
   RemoteRemove, RemoteClusterStatus, RemoteUpdates, ServerRealmCreate, ServerRealmDelete,
   ServerViewCreate, ServerViewDelete, SubKeyAdd, SubKeyRemove, ApplianceDelete

\* Every command of the program asks before it destroys, and looks its guest
\* up before it asks.
LEMMA ProgramsAreInOrder == \A program \in Programs : IsProgram(program)
BY GuestPrograms, ExtraPrograms, FirewallPrograms, BackupPrograms, PairPrograms,
   StoragePrograms, NetworkPrograms, ClusterPrograms, AdminPrograms, PDMPrograms DEF Programs

----------------------------------------------------------------------------
(***************************************************************************)
(* What a resolution returns.                                              *)
(***************************************************************************)
ResolveErrors == {"ok", "NotFound", "Conflict", "local"}

GuestRecords == [vmid : Nat \ {0}, name : STRING, kind : Typed, node : STRING,
                 remote : STRING]

\* The guest that was found is what the arguments ask for.
Fits(g, a, listed) ==
    /\ g.vmid \in Nat /\ g.kind \in Typed /\ a.kind \in {Unset, g.kind}
    /\ IF a.vmid = 0 THEN \E l \in listed : l.vmid = g.vmid
                     ELSE g.vmid = a.vmid /\ a.node \in {Unset, g.node}
    /\ InRemote(a.remote, g)

\* One guest of the listing fits; or several do, of the id that was typed, in
\* remotes whose names --remote does not tell apart.
OneFits(a, listed) ==
    \/ Cardinality(listed) = 1
    \/ /\ a.vmid # 0 /\ a.remote # Unset
       /\ \A g, h \in listed :
             g # h => g.remote # h.remote /\ EqualFold(g.remote, h.remote)

\* TheOnly finds a guest where there is exactly one.
LEMMA TheOnlyIsOne ==
    ASSUME NEW M
    PROVE  /\ TheOnly(M).error \in {"ok", "NotFound", "Conflict"}
           /\ TheOnly(M).error = "ok" => /\ Cardinality(M) = 1
                                         /\ TheOnly(M).guest \in M
                                         /\ TheOnly(M) = Found(TheOnly(M).guest)
<1>1. CASE M = {}
  <2>1. TheOnly(M) = Failed("NotFound")
    BY <1>1, FS_EmptySet DEF TheOnly
  <2> QED
    BY <2>1 DEF Failed
<1>2. CASE M # {} /\ Cardinality(M) = 1
  <2>1. TheOnly(M) = Found(CHOOSE g \in M : TRUE)
    BY <1>2 DEF TheOnly
  <2>2. (CHOOSE g \in M : TRUE) \in M
    BY <1>2
  <2> QED
    BY <1>2, <2>1, <2>2 DEF Found
<1>3. CASE M # {} /\ Cardinality(M) # 1
  <2>1. TheOnly(M) = Failed("Conflict")
    BY <1>3 DEF TheOnly
  <2> QED
    BY <2>1 DEF Failed
<1> QED
  BY <1>1, <1>2, <1>3

\* enforceKind and --node keep a failure, and let pass a guest of the kind.
LEMMA FiltersKeepErrors ==
    ASSUME NEW kind, NEW node, NEW r, r.error \in ResolveErrors
    PROVE  LET s == atNode(node, enforceKind(kind, r)) IN
           /\ s.error \in ResolveErrors
           /\ s.error = "ok" => r.error = "ok" /\ kind \in {Unset, r.guest.kind}
<1> DEFINE e == enforceKind(kind, r)
<1>1. /\ e.error \in ResolveErrors
      /\ e.error = "ok" => r.error = "ok" /\ kind \in {Unset, r.guest.kind}
  BY DEF enforceKind, Failed, ResolveErrors
<1>2. atNode(node, e).error = e.error
  BY DEF atNode
<1> QED
  BY <1>1, <1>2

\* A guest that passes is the one that was resolved, but for its node.
LEMMA FiltersKeepGuest ==
    ASSUME NEW kind, NEW node, NEW g \in GuestRecords,
           atNode(node, enforceKind(kind, Found(g))).error = "ok"
    PROVE  LET s == atNode(node, enforceKind(kind, Found(g))) IN
           /\ s.guest.vmid = g.vmid /\ s.guest.kind = g.kind
           /\ s.guest.remote = g.remote /\ node \in {Unset, s.guest.node}
<1> DEFINE e == enforceKind(kind, Found(g))
           s == atNode(node, e)
<1>1. e = Found(g)
  BY DEF enforceKind, Found, Failed, atNode
<1>2. s = IF node = Unset THEN Found(g) ELSE [Found(g) EXCEPT !.guest.node = node]
  BY <1>1 DEF atNode, Found
<1>3. s.guest = IF node = Unset THEN g ELSE [g EXCEPT !.node = node]
  BY <1>2 DEF Found
<1> HIDE DEF s
<1>4. /\ s.guest.vmid = g.vmid /\ s.guest.kind = g.kind
      /\ s.guest.remote = g.remote /\ node \in {Unset, s.guest.node}
  BY <1>3 DEF GuestRecords
<1> QED
  BY <1>4 DEF s

LEMMA ResolveInRemote ==
    ASSUME NEW rows, NEW vmid, NEW remote,
           NEW r \in ResolveGuestInRemote(rows, vmid, remote)
    PROVE  /\ r.error \in ResolveErrors
           /\ r.error = "ok" =>
                /\ r.guest \in rows /\ r.guest.vmid = vmid
                /\ EqualFold(r.guest.remote, remote) /\ r = Found(r.guest)
<1> DEFINE M == {g \in ListGuests(rows, Unset, Unset) :
                    g.vmid = vmid /\ EqualFold(g.remote, remote)}
<1>1. \A g \in M : g \in rows /\ g.vmid = vmid /\ EqualFold(g.remote, remote)
  BY DEF ListGuests
<1>2. r = Failed("NotFound") \/ \E g \in M : r = Found(g)
  BY DEF ResolveGuestInRemote
<1> HIDE DEF M
<1>3. CASE r = Failed("NotFound")
  BY <1>3 DEF Failed, ResolveErrors
<1>4. CASE \E g \in M : r = Found(g)
  <2>1. PICK g \in M : r = Found(g)
    BY <1>4
  <2>2. r.error = "ok" /\ r.guest = g
    BY <2>1 DEF Found
  <2> QED
    BY <1>1, <2>1, <2>2 DEF ResolveErrors
<1> QED
  BY <1>2, <1>3, <1>4

\* A look-up that succeeds has found a row that fits the arguments, and the only
\* one unless it took the first of an id with --remote, in any listing with one guest of an id in each remote; without a look-up the
\* guest is what the arguments say.
LEMMA ResolvedIsTheOnly ==
    ASSUME NEW provider, NEW rows, NEW a, IsFiniteSet(rows), rows \subseteq GuestRecords,
           AreArgs(a),
           \A g, h \in rows : (g.vmid = h.vmid /\ g.remote = h.remote) => g = h,
           NEW r \in resolveGuest(provider, rows, a)
    PROVE  LET listed == {g \in rows : Named(a, g)} IN
           /\ r.error \in ResolveErrors
           /\ r.error = "ok" => Fits(r.guest, a, listed)
           /\ r.error = "ok" /\ LooksUp(a) => OneFits(a, listed)
<1> DEFINE listed == {g \in rows : Named(a, g)}
<1>1. CASE a.vmid = 0
  <2> DEFINE M == {g \in ListGuests(rows, a.kind, a.node) :
                      g.name = a.name /\ InRemote(a.remote, g)}
  <2>1. r = TheOnly(M)
    <3>1. resolveGuestByName(rows, a) = TheOnly(M)
      BY DEF resolveGuestByName
    <3>2. r = resolveGuestByName(rows, a)
      BY <1>1 DEF resolveGuest, LooksUp
    <3> QED
      BY <3>1, <3>2
  <2>2. M = listed
    BY <1>1 DEF ListGuests, Named
  <2> HIDE DEF M
  <2>3. /\ r.error \in {"ok", "NotFound", "Conflict"}
        /\ r.error = "ok" => Cardinality(M) = 1 /\ r.guest \in M
    BY <2>1, TheOnlyIsOne
  <2>4. ASSUME r.error = "ok" PROVE Fits(r.guest, a, listed)
    <3>1. r.guest \in listed /\ r.guest \in GuestRecords
      BY <2>2, <2>3, <2>4
    <3>2. a.kind \in {Unset, r.guest.kind} /\ InRemote(a.remote, r.guest)
      BY <3>1 DEF Named
    <3>3. r.guest.vmid \in Nat /\ r.guest.kind \in Typed
      BY <3>1 DEF GuestRecords
    <3> HIDE DEF listed
    <3> QED
      BY <1>1, <3>1, <3>2, <3>3 DEF Fits
  <2> HIDE DEF listed
  <2>5. r.error = "ok" => OneFits(a, listed)
    <3>1. r.error = "ok" => Cardinality(listed) = 1
      BY <2>2, <2>3, Zenon
    <3> QED
      BY <3>1 DEF OneFits
  <2>6. r.error \in ResolveErrors
    BY <2>3 DEF ResolveErrors
  <2> QED
    BY <2>4, <2>5, <2>6 DEF listed
<1>2. CASE a.vmid # 0 /\ ~LooksUp(a)
  <2>1. r = Found([vmid |-> a.vmid, name |-> Unset, kind |-> a.kind, node |-> a.node,
                   remote |-> a.remote])
    BY <1>2 DEF resolveGuest
  <2>2. a.kind \in Typed
    BY <1>2 DEF LooksUp, AreArgs, AnyNoun
  <2> QED
    BY <1>2, <2>1, <2>2 DEF Found, ResolveErrors, Fits, AreArgs, InRemote, EqualFold
<1>3. CASE a.vmid # 0 /\ LooksUp(a) /\ a.remote = Unset
  <2> DEFINE M == {g \in ListGuests(rows, Unset, Unset) : g.vmid = a.vmid}
             q == ResolveGuest(rows, a.vmid)
  <2>1. r = atNode(a.node, enforceKind(a.kind, q))
    BY <1>3 DEF resolveGuest
  <2>2. M = {g \in rows : g.vmid = a.vmid}
    BY DEF ListGuests
  <2>3. q = TheOnly(M)
    BY DEF ResolveGuest
  <2>4. /\ q.error \in {"ok", "NotFound", "Conflict"}
        /\ q.error = "ok" => Cardinality(M) = 1 /\ q.guest \in M /\ q = Found(q.guest)
    <3> HIDE DEF M, q
    <3> QED BY <2>3, TheOnlyIsOne
  <2> HIDE DEF q
  <2>5. /\ r.error \in ResolveErrors
        /\ r.error = "ok" => q.error = "ok" /\ a.kind \in {Unset, q.guest.kind}
    BY <2>1, <2>4, FiltersKeepErrors DEF ResolveErrors
  <2>6. ASSUME r.error = "ok"
        PROVE  Cardinality(listed) = 1 /\ Fits(r.guest, a, listed)
    <3>1. Cardinality(M) = 1 /\ q.guest \in M /\ a.kind \in {Unset, q.guest.kind}
      BY <2>4, <2>5, <2>6
    <3>2. PICK x : M = {x}
      <4>1. IsFiniteSet(M)
        BY <2>2, FS_Subset
      <4> HIDE DEF M
      <4> QED BY <3>1, <4>1, FS_Singleton
    <3>3. listed = {x}
      BY <1>3, <2>2, <3>1, <3>2 DEF Named, InRemote
    <3>4. q.guest \in GuestRecords /\ q.guest.vmid = a.vmid
      BY <2>2, <3>1
    <3>5. /\ r.guest.vmid = a.vmid /\ r.guest.kind = q.guest.kind
          /\ a.node \in {Unset, r.guest.node}
      BY <2>1, <2>4, <2>5, <2>6, <3>4, FiltersKeepGuest
    <3>6. q.guest.kind \in Typed
      BY <3>4 DEF GuestRecords
    <3>7. Fits(r.guest, a, listed)
      BY <1>3, <3>1, <3>5, <3>6 DEF Fits, AreArgs, InRemote
    <3> QED
      BY <3>3, <3>7, FS_Singleton
  <2> QED
    BY <2>5, <2>6 DEF OneFits
<1>4. CASE a.vmid # 0 /\ LooksUp(a) /\ a.remote # Unset
  <2>1. \/ r = Failed("local")
        \/ \E q \in ResolveGuestInRemote(rows, a.vmid, a.remote) :
              r = atNode(a.node, enforceKind(a.kind, q))
    BY <1>4 DEF resolveGuest
  <2>2. OneFits(a, listed)
    <3>1. ASSUME NEW g \in listed, NEW h \in listed, g # h
          PROVE  g.remote # h.remote /\ EqualFold(g.remote, h.remote)
      <4>1. /\ g \in rows /\ h \in rows /\ g.vmid = a.vmid /\ h.vmid = a.vmid
            /\ EqualFold(g.remote, a.remote) /\ EqualFold(h.remote, a.remote)
        BY <1>4, <3>1 DEF Named, InRemote
      <4> QED
        BY <3>1, <4>1 DEF EqualFold
    <3> QED
      BY <1>4, <3>1 DEF OneFits
  <2>3. CASE r = Failed("local")
    BY <2>3 DEF Failed, ResolveErrors
  <2>4. CASE r # Failed("local")
    <3>0. PICK q \in ResolveGuestInRemote(rows, a.vmid, a.remote) :
             r = atNode(a.node, enforceKind(a.kind, q))
      BY <2>1, <2>4
    <3>1. /\ q.error \in ResolveErrors
          /\ q.error = "ok" =>
               /\ q.guest \in rows /\ q.guest.vmid = a.vmid
               /\ EqualFold(q.guest.remote, a.remote) /\ q = Found(q.guest)
      BY ResolveInRemote
    <3>2. /\ r.error \in ResolveErrors
          /\ r.error = "ok" => q.error = "ok" /\ a.kind \in {Unset, q.guest.kind}
      BY <3>0, <3>1, FiltersKeepErrors
    <3>3. ASSUME r.error = "ok" PROVE Fits(r.guest, a, listed)
      <4>1. q.guest \in GuestRecords
        BY <3>1, <3>2, <3>3
      <4>2. /\ r.guest.vmid = a.vmid /\ r.guest.kind = q.guest.kind
            /\ r.guest.remote = q.guest.remote /\ a.node \in {Unset, r.guest.node}
        BY <3>0, <3>1, <3>2, <3>3, <4>1, FiltersKeepGuest
      <4>3. q.guest.kind \in Typed
        BY <4>1 DEF GuestRecords
      <4>4. InRemote(a.remote, r.guest)
        BY <3>1, <3>2, <3>3, <4>2 DEF InRemote
      <4> QED
        BY <1>4, <3>2, <3>3, <4>2, <4>3, <4>4 DEF Fits, AreArgs
    <3> QED
      BY <3>2, <3>3, <2>2
  <2> QED
    BY <2>3, <2>4
<1> QED
  BY <1>1, <1>2, <1>3, <1>4

----------------------------------------------------------------------------
(***************************************************************************)
(* The task and those who wait for it.                                     *)
(***************************************************************************)
PlacesOfWait == {"handle", "poll", "look", "sleep"}

\* A poll is made with retries left.
RetriesLeft == \A p \in Processes : pc[p] # "done" => tries[p] <= MaxRetries

\* Nothing happens to the task before the command has sent its call, and who
\* has no exit code is not done.
BeforeTheCall ==
    /\ pc[Issuer] = "idle" => task = "none" /\ ~late
    /\ late => task = "none" /\ pc[Issuer] = "done" /\ exit[Issuer] # 0
    /\ \A p \in Processes : pc[p] # "done" => exit[p] = NoExit

\* A status that says the task is over is still true: tasks do not go on.
SeenIsTrue ==
    \A p \in Processes : seen[p] # Running => TaskStopped /\ seen[p] = Stopped(task)

\* Exit code 0 of the command that prints no id: there was no task, and there
\* will be none, or it ended well.
ZeroIsTrue ==
    /\ exit[Issuer] = 0 /\ ~printed => task = "OK" \/ (task = "none" /\ ~late)
    /\ \A p \in Followers : exit[p] = 0 => task = "OK"

WInv ==
    /\ TypeOK /\ RetriesLeft /\ BeforeTheCall /\ SeenIsTrue
    /\ ZeroIsTrue /\ FailureIsReal

LEMMA ExitCodes ==
    ASSUME NEW o
    PROVE  /\ ExitCode(o) \in 0 .. 6
           /\ ExitCode(o) = 0 <=> o = "ok"
           /\ ExitCode(o) = 5 <=> o = "TaskFailed"
BY DEF ExitCode

LEMMA Statuses ==
    /\ \A e : Stopped(e) # Running /\ TaskDone(Stopped(e))
    /\ \A e : TaskOK(Stopped(e)) <=> e = "OK"
    /\ ~TaskDone(Running)
BY DEF Stopped, Running, TaskDone, TaskOK

LEMMA InitWInv == Init => WInv
<1> SUFFICES ASSUME Init PROVE WInv
  OBVIOUS
<1>1. TypeOK
  <2>1. /\ tries \in [Processes -> 0 .. MaxRetries + 1]
        /\ exit \in [Processes -> (0 .. 6) \cup {NoExit}]
    BY DEF Init, NoExit
  <2>2. seen \in [Processes -> {Running} \cup {Stopped(e) : e \in ExitStatuses}]
    BY DEF Init
  <2>3. bounded \subseteq Processes
    BY DEF Init, Processes
  <2> QED
    BY <2>1, <2>2, <2>3 DEF Init, TypeOK
<1>2. RetriesLeft /\ BeforeTheCall /\ SeenIsTrue
  BY DEF Init, RetriesLeft, BeforeTheCall, SeenIsTrue, Processes, NoExit
<1>3. ZeroIsTrue /\ FailureIsReal
  BY DEF Init, ZeroIsTrue, FailureIsReal, Processes, NoExit
<1> QED
  BY <1>1, <1>2, <1>3 DEF WInv

\* The command ends before its call, or with the answer of a call that
\* started nothing.
LEMMA EndsBeforeTask ==
    ASSUME WInv, pc[Issuer] = "idle",
           NEW code \in (0 .. 6) \ {5}, Finish(Issuer, code),
           UNCHANGED <<tries, seen, expired, flags, server, printed>>
    PROVE  WInv'
<1>0. Issuer \in Processes
  BY DEF Processes
<1>1. TypeOK'
  BY <1>0 DEF WInv, TypeOK, Finish, flags, server
<1>2. RetriesLeft' /\ BeforeTheCall'
  BY <1>0 DEF WInv, TypeOK, RetriesLeft, BeforeTheCall, Finish, server, NoExit
<1>3. SeenIsTrue'
  BY DEF WInv, SeenIsTrue, server, TaskStopped
<1>4. ZeroIsTrue'
  BY <1>0 DEF WInv, TypeOK, ZeroIsTrue, BeforeTheCall, Finish, server, Processes
<1>5. FailureIsReal'
  BY <1>0 DEF WInv, TypeOK, FailureIsReal, Finish, server, TaskStopped
<1> QED
  BY <1>1, <1>2, <1>3, <1>4, <1>5 DEF WInv

\* A waiting process ends with the error of a poll or of its deadline.
LEMMA EndsWithError ==
    ASSUME WInv, NEW p \in Processes, pc[p] \in PlacesOfWait,
           NEW code \in (0 .. 6) \ {0, 5}, Finish(p, code),
           UNCHANGED <<seen, expired, flags, server, printed>>,
           tries' \in [Processes -> 0 .. MaxRetries + 1],
           \A q \in Processes \ {p} : tries'[q] = tries[q]
    PROVE  WInv'
<1>1. TypeOK'
  BY DEF WInv, TypeOK, Finish, flags, server
<1>2. RetriesLeft' /\ BeforeTheCall'
  <2>1. RetriesLeft'
    BY DEF WInv, TypeOK, RetriesLeft, Finish
  <2>2. BeforeTheCall'
    BY DEF WInv, TypeOK, BeforeTheCall, Finish, server, NoExit, Processes, PlacesOfWait
  <2> QED
    BY <2>1, <2>2
<1>3. SeenIsTrue'
  BY DEF WInv, SeenIsTrue, server, TaskStopped
<1>4. ZeroIsTrue'
  BY DEF WInv, TypeOK, ZeroIsTrue, Finish, server, Processes
<1>5. FailureIsReal'
  BY DEF WInv, TypeOK, FailureIsReal, Finish, server, TaskStopped
<1> QED
  BY <1>1, <1>2, <1>3, <1>4, <1>5 DEF WInv

\* A process moves on without an exit code, and without news of the task.
LEMMA MovesOn ==
    ASSUME WInv, NEW p \in Processes, NEW where \in PlacesOfWait, Goto(p, where),
           pc[p] # "done",
           UNCHANGED <<seen, expired, wait, structured, server, printed>>,
           bounded' \subseteq Processes,
           tries' \in [Processes -> 0 .. MaxRetries + 1],
           tries'[p] <= MaxRetries,
           \A q \in Processes \ {p} : tries'[q] = tries[q]
    PROVE  WInv'
<1>1. TypeOK'
  BY DEF WInv, TypeOK, Goto, server, PlacesOfWait
<1>2. RetriesLeft'
  BY DEF WInv, TypeOK, RetriesLeft, Goto
<1>3. BeforeTheCall'
  BY DEF WInv, TypeOK, BeforeTheCall, Goto, server, Processes, PlacesOfWait
<1>4. SeenIsTrue'
  BY DEF WInv, SeenIsTrue, server, TaskStopped
<1>5. ZeroIsTrue' /\ FailureIsReal'
  BY DEF WInv, ZeroIsTrue, FailureIsReal, Goto, server, TaskStopped
<1> QED
  BY <1>1, <1>2, <1>3, <1>4, <1>5 DEF WInv

----------------------------------------------------------------------------
(***************************************************************************)
(* Every step of the wait keeps the invariant.                             *)
(***************************************************************************)
LEMMA ReadStatusKeeps ==
    ASSUME WInv, NEW p \in Processes, ReadStatus(p)
    PROVE  WInv'
<1> DEFINE now == IF TaskStopped THEN Stopped(task) ELSE Running
<1>1. /\ pc[p] = "poll" /\ task # "none"
      /\ seen' = [seen EXCEPT ![p] = now]
      /\ Goto(p, "look")
      /\ UNCHANGED <<tries, expired, wait, structured, bounded, task, late, printed>>
  BY DEF ReadStatus, Started, flags, server
<1>2. now \in {Running} \cup {Stopped(e) : e \in ExitStatuses}
  BY DEF TaskStopped
<1>3. TypeOK'
  <2> HIDE DEF now
  <2> QED BY <1>1, <1>2 DEF WInv, TypeOK, Goto
<1>4. RetriesLeft' /\ BeforeTheCall'
  BY <1>1 DEF WInv, TypeOK, RetriesLeft, BeforeTheCall, Goto, Processes
<1>5. SeenIsTrue'
  <2>1. now # Running => TaskStopped /\ now = Stopped(task)
    OBVIOUS
  <2> HIDE DEF now
  <2> QED
    BY <1>1, <2>1 DEF WInv, TypeOK, SeenIsTrue, TaskStopped
<1>6. ZeroIsTrue' /\ FailureIsReal'
  BY <1>1 DEF WInv, ZeroIsTrue, FailureIsReal, Goto, TaskStopped
<1> QED
  BY <1>3, <1>4, <1>5, <1>6 DEF WInv

\* A process ends with what the task ended with.
LEMMA EndsWithTask ==
    ASSUME WInv, NEW p \in Processes, pc[p] = "look", TaskStopped,
           NEW code \in {0, 5}, code = 0 <=> task = "OK", Finish(p, code),
           UNCHANGED <<tries, seen, expired, flags, server, printed>>
    PROVE  WInv'
<1>1. TypeOK'
  BY DEF WInv, TypeOK, Finish, flags, server
<1>2. RetriesLeft' /\ SeenIsTrue'
  BY DEF WInv, TypeOK, RetriesLeft, SeenIsTrue, Finish, server, TaskStopped
<1>3. BeforeTheCall'
  BY DEF WInv, TypeOK, BeforeTheCall, Finish, server, NoExit, Processes, TaskStopped
<1>4. ZeroIsTrue'
  BY DEF WInv, TypeOK, ZeroIsTrue, Finish, server, Processes
<1>5. FailureIsReal'
  BY DEF WInv, TypeOK, FailureIsReal, Finish, server, TaskStopped
<1> QED
  BY <1>1, <1>2, <1>3, <1>4, <1>5 DEF WInv

LEMMA LookKeeps ==
    ASSUME WInv, NEW p \in Processes, Look(p)
    PROVE  WInv'
<1>1. pc[p] = "look" /\ UNCHANGED <<tries, seen, expired, flags, server, printed>>
  BY DEF Look
<1>2. CASE TaskDone(seen[p]) /\ Finish(p, ExitCode(IF TaskOK(seen[p]) THEN "ok" ELSE "TaskFailed"))
  <2>1. TaskStopped /\ seen[p] = Stopped(task)
    BY <1>2, Statuses DEF WInv, SeenIsTrue
  <2>2. CASE task = "OK"
    <3>1. Finish(p, ExitCode("ok"))
      BY <1>2, <2>1, <2>2, Statuses
    <3> QED
      BY <1>1, <2>1, <2>2, <3>1, ExitCodes, EndsWithTask
  <2>3. CASE task # "OK"
    <3>1. Finish(p, ExitCode("TaskFailed"))
      BY <1>2, <2>1, <2>3, Statuses
    <3> QED
      BY <1>1, <2>1, <2>3, <3>1, ExitCodes, EndsWithTask
  <2> QED
    BY <2>2, <2>3
<1>3. CASE Goto(p, "sleep")
  BY <1>1, <1>3, MovesOn DEF PlacesOfWait, WInv, TypeOK, RetriesLeft, flags
<1> QED
  BY <1>2, <1>3 DEF Look

LEMMA PollStepKeeps ==
    ASSUME WInv, NEW p \in Processes, PollStep(p)
    PROVE  WInv'
<1> USE DEF PlacesOfWait
<1>1. tries \in [Processes -> 0 .. MaxRetries + 1] /\ bounded \subseteq Processes
  BY DEF WInv, TypeOK
<1>2. CASE ReadStatus(p)
  BY <1>2, ReadStatusKeeps
<1>3. CASE PollLost(p)
  <2>1. /\ pc[p] = "poll" /\ tries' = [tries EXCEPT ![p] = @ + 1]
        /\ UNCHANGED <<seen, expired, flags, server, printed>>
    BY <1>3 DEF PollLost
  <2>2. /\ tries' \in [Processes -> 0 .. MaxRetries + 1]
        /\ tries'[p] = tries[p] + 1
        /\ \A q \in Processes \ {p} : tries'[q] = tries[q]
    BY <1>1, <2>1 DEF WInv, RetriesLeft
  <2>3. CASE tries[p] < MaxRetries
    <3>1. Goto(p, "poll")
      BY <1>3, <2>3 DEF PollLost
    <3>2. tries'[p] <= MaxRetries
      BY <1>1, <2>2, <2>3
    <3> QED
      BY <1>1, <2>1, <2>2, <3>1, <3>2, MovesOn DEF flags
  <2>4. CASE ~(tries[p] < MaxRetries)
    <3>1. PICK k \in {"Transport", "Server", "Unknown"} : Finish(p, ExitCode(k))
      BY <1>3, <2>4 DEF PollLost
    <3>2. ExitCode(k) \in (0 .. 6) \ {0, 5}
      BY ExitCodes
    <3> QED
      BY <2>1, <2>2, <3>1, <3>2, EndsWithError
  <2> QED
    BY <2>3, <2>4
<1>4. CASE PollCancelled(p)
  <2>1. ExitCode("ctx") \in (0 .. 6) \ {0, 5}
    BY ExitCodes
  <2> QED
    BY <1>1, <1>4, <2>1, EndsWithError DEF PollCancelled
<1>5. CASE PollRefused(p)
  <2>1. PICK k \in DefiniteKinds \cup {"Server"} : Finish(p, ExitCode(k))
    BY <1>5 DEF PollRefused
  <2>2. ExitCode(k) \in (0 .. 6) \ {0, 5}
    BY ExitCodes DEF DefiniteKinds, Kinds
  <2> QED
    BY <1>1, <1>5, <2>1, <2>2, EndsWithError DEF PollRefused
<1>6. CASE Look(p)
  BY <1>6, LookKeeps
<1>7. CASE Tick(p)
  <2>1. /\ pc[p] = "sleep" /\ Goto(p, "poll") /\ tries' = [tries EXCEPT ![p] = 0]
        /\ UNCHANGED <<seen, expired, wait, structured, bounded, server, printed>>
    BY <1>7 DEF Tick, flags
  <2>2. /\ tries' \in [Processes -> 0 .. MaxRetries + 1] /\ tries'[p] <= MaxRetries
        /\ \A q \in Processes \ {p} : tries'[q] = tries[q]
    BY <1>1, <2>1
  <2> QED
    BY <1>1, <2>1, <2>2, MovesOn
<1>8. CASE WaitTimesOut(p)
  <2>1. ExitCode("ctx") \in (0 .. 6) \ {0, 5}
    BY ExitCodes
  <2> QED
    BY <1>1, <1>8, <2>1, EndsWithError DEF WaitTimesOut
<1> QED
  BY <1>2, <1>3, <1>4, <1>5, <1>6, <1>7, <1>8 DEF PollStep

LEMMA FinishTaskKeeps == ASSUME WInv, FinishTask PROVE WInv'
<1>0. Issuer \in Processes
  BY DEF Processes
<1>1. pc[Issuer] = "handle" /\ UNCHANGED <<tries, seen, expired, flags, server>>
  BY DEF FinishTask
<1>2. CASE Finish(Issuer, 0) /\ printed' = TRUE
  <2>1. TypeOK' /\ RetriesLeft'
    BY <1>0, <1>1, <1>2 DEF WInv, TypeOK, RetriesLeft, Finish, flags, server
  <2>2. BeforeTheCall' /\ SeenIsTrue'
    BY <1>0, <1>1, <1>2 DEF WInv, TypeOK, BeforeTheCall, SeenIsTrue, Finish, server,
                            NoExit, TaskStopped
  <2>3. ZeroIsTrue'
    BY <1>0, <1>1, <1>2 DEF WInv, TypeOK, ZeroIsTrue, Finish, server, Processes
  <2>4. FailureIsReal'
    BY <1>0, <1>1, <1>2 DEF WInv, TypeOK, FailureIsReal, Finish, server, TaskStopped
  <2> QED
    BY <2>1, <2>2, <2>3, <2>4 DEF WInv
<1>3. CASE Goto(Issuer, "poll") /\ UNCHANGED printed
  <2>1. /\ tries' \in [Processes -> 0 .. MaxRetries + 1] /\ tries'[Issuer] <= MaxRetries
        /\ bounded' \subseteq Processes
    BY <1>0, <1>1 DEF WInv, TypeOK, RetriesLeft, flags
  <2> QED
    BY <1>0, <1>1, <1>3, <2>1, MovesOn DEF flags, PlacesOfWait
<1> QED
  BY <1>2, <1>3 DEF FinishTask

LEMMA FollowKeeps ==
    ASSUME WInv, NEW p \in Followers, Follow(p)
    PROVE  WInv'
<1>1. /\ p \in Processes /\ pc[p] = "idle" /\ Goto(p, "poll")
      /\ UNCHANGED <<tries, seen, expired, wait, structured, server, printed>>
      /\ bounded' \in {bounded, bounded \cup {p}}
  BY DEF Follow, Processes
<1>2. /\ tries' \in [Processes -> 0 .. MaxRetries + 1] /\ tries'[p] <= MaxRetries
      /\ bounded' \subseteq Processes
  BY <1>1 DEF WInv, TypeOK, RetriesLeft
<1> QED
  BY <1>1, <1>2, MovesOn DEF PlacesOfWait

LEMMA ExpireKeeps ==
    ASSUME WInv, NEW p \in Processes, Expire(p)
    PROVE  WInv'
<1>1. /\ expired' = [expired EXCEPT ![p] = TRUE]
      /\ UNCHANGED <<pc, tries, seen, exit, wait, structured, bounded, task, late, printed>>
  BY DEF Expire, flags, server
<1>2. TypeOK'
  BY <1>1 DEF WInv, TypeOK
<1> QED
  BY <1>1, <1>2 DEF WInv, RetriesLeft, BeforeTheCall, SeenIsTrue, ZeroIsTrue,
                    FailureIsReal, TaskStopped

\* The task starts when nobody has an exit code that speaks of it.
LEMMA StartKeeps ==
    ASSUME WInv, task = "none", task' = "running", late' = FALSE,
           UNCHANGED <<tries, seen, expired, flags>>,
           \/ UNCHANGED <<pc, exit, printed>> /\ exit[Issuer] # 0 /\ pc[Issuer] = "done"
           \/ pc[Issuer] = "idle" /\ Goto(Issuer, "handle") /\ UNCHANGED printed
           \/ pc[Issuer] = "idle" /\ Finish(Issuer, 0) /\ printed' = TRUE
           \/ pc[Issuer] = "idle" /\ Finish(Issuer, 1) /\ UNCHANGED printed
    PROVE  WInv'
<1>0. Issuer \in Processes
  BY DEF Processes
<1>1. /\ pc' \in [Processes -> {"idle", "handle", "poll", "look", "sleep", "done"}]
      /\ exit' \in [Processes -> (0 .. 6) \cup {NoExit}]
      /\ printed' \in BOOLEAN
  <2>1. /\ pc \in [Processes -> {"idle", "handle", "poll", "look", "sleep", "done"}]
        /\ exit \in [Processes -> (0 .. 6) \cup {NoExit}]
        /\ printed \in BOOLEAN
    BY DEF WInv, TypeOK
  <2>2. CASE UNCHANGED <<pc, exit, printed>>
    BY <2>1, <2>2
  <2>3. CASE Goto(Issuer, "handle") /\ UNCHANGED printed
    BY <2>1, <2>3 DEF Goto
  <2>4. CASE Finish(Issuer, 0) /\ printed' = TRUE
    <3>1. printed' \in BOOLEAN
      BY <2>4
    <3>2. 0 \in (0 .. 6) \cup {NoExit}
      OBVIOUS
    <3>3. pc' = [pc EXCEPT ![Issuer] = "done"] /\ exit' = [exit EXCEPT ![Issuer] = 0]
      BY <2>4 DEF Finish
    <3>4. /\ pc' \in [Processes -> {"idle", "handle", "poll", "look", "sleep", "done"}]
          /\ exit' \in [Processes -> (0 .. 6) \cup {NoExit}]
      BY <2>1, <3>2, <3>3
    <3> QED
      BY <3>1, <3>4
  <2>5. CASE Finish(Issuer, 1) /\ UNCHANGED printed
    <3>1. 1 \in (0 .. 6) \cup {NoExit}
      OBVIOUS
    <3> QED
      BY <2>1, <2>5, <3>1 DEF Finish
  <2> QED
    BY <2>2, <2>3, <2>4, <2>5
<1>2. /\ \A p \in Followers : pc'[p] = pc[p] /\ exit'[p] = exit[p]
      /\ pc'[Issuer] # "idle"
      /\ pc'[Issuer] # "done" => exit'[Issuer] = NoExit
      /\ pc[Issuer] = "done" => pc'[Issuer] = "done"
      /\ exit'[Issuer] = 0 => printed'
      /\ exit'[Issuer] = 5 => exit[Issuer] = 5
  BY <1>0 DEF WInv, TypeOK, BeforeTheCall, Goto, Finish, Processes, NoExit
<1>3. TypeOK'
  BY <1>1 DEF WInv, TypeOK, flags
<1>4. RetriesLeft' /\ BeforeTheCall' /\ SeenIsTrue'
  BY <1>0, <1>2 DEF WInv, RetriesLeft, BeforeTheCall, SeenIsTrue, TaskStopped, Processes
<1>5. ZeroIsTrue' /\ FailureIsReal'
  BY <1>0, <1>2 DEF WInv, ZeroIsTrue, FailureIsReal, TaskStopped, Processes
<1> QED
  BY <1>3, <1>4, <1>5 DEF WInv

LEMMA TaskEndsKeeps == ASSUME WInv, TaskEnds PROVE WInv'
<1>1. /\ task = "running" /\ task' \in ExitStatuses
      /\ UNCHANGED <<pc, tries, seen, expired, exit, wait, structured, bounded, late, printed>>
  BY DEF TaskEnds, flags
<1>2. TypeOK'
  BY <1>1 DEF WInv, TypeOK
<1>3. RetriesLeft' /\ BeforeTheCall' /\ SeenIsTrue'
  BY <1>1 DEF WInv, RetriesLeft, BeforeTheCall, SeenIsTrue, TaskStopped
<1>4. ZeroIsTrue' /\ FailureIsReal'
  BY <1>1 DEF WInv, ZeroIsTrue, FailureIsReal, TaskStopped
<1> QED
  BY <1>2, <1>3, <1>4 DEF WInv

LEMMA PostInDoubtKeeps == ASSUME WInv, PostInDoubt PROVE WInv'
<1>0. Issuer \in Processes
  BY DEF Processes
<1>1. /\ pc[Issuer] = "idle" /\ late' \in BOOLEAN
      /\ UNCHANGED <<tries, seen, expired, wait, structured, bounded, task, printed>>
  BY DEF PostInDoubt, flags
<1>2. Finish(Issuer, 4)
  BY DEF PostInDoubt, ExitCode
<1>3. TypeOK'
  BY <1>0, <1>1, <1>2 DEF WInv, TypeOK, Finish
<1>4. RetriesLeft' /\ SeenIsTrue'
  BY <1>0, <1>1, <1>2 DEF WInv, TypeOK, RetriesLeft, SeenIsTrue, Finish, TaskStopped
<1>5. BeforeTheCall'
  BY <1>0, <1>1, <1>2 DEF WInv, TypeOK, BeforeTheCall, Finish, NoExit
<1>6. ZeroIsTrue'
  BY <1>0, <1>1, <1>2 DEF WInv, TypeOK, ZeroIsTrue, Finish, Processes
<1>7. FailureIsReal'
  BY <1>0, <1>1, <1>2 DEF WInv, TypeOK, FailureIsReal, Finish, TaskStopped
<1> QED
  BY <1>3, <1>4, <1>5, <1>6, <1>7 DEF WInv

----------------------------------------------------------------------------
(***************************************************************************)
(* The command and its task together.                                      *)
(***************************************************************************)
Fields == {"provider", "args", "todo", "guest", "consent", "listed", "present"}

\* What a command knows: its guest is one that fits, as OneFits says, and the
\* one it asked about.
IsCommand(c) ==
    /\ c = [f \in Fields |-> c[f]]
    /\ c.provider \in {"pve", "pdm"} /\ AreArgs(c.args)
    /\ c.guest.vmid \in Nat /\ c.listed \subseteq c.present
    /\ c.guest # NoGuest => Fits(c.guest, c.args, c.listed)
    /\ (c.guest # NoGuest /\ LooksUp(c.args)) => OneFits(c.args, c.listed)
    /\ c.consent \in {{}, {c.guest}}

\* What it has left to do is in order, having asked or not.
IsTodo(c) ==
    /\ c.todo \in Seq(Steps)
    /\ InOrder(c.todo, c.consent # {})
    /\ KindIsKept(c.todo, c.args)

CInv ==
    /\ IsCommand(cmd) /\ IsTodo(cmd)
    /\ cmd.todo # <<>> => pc[Issuer] = "idle"

IInv == WInv /\ CInv

LEMMA BlankIsCommand == IsCommand(Blank) /\ IsTodo(Blank) /\ Blank.todo = <<>>
<1>1. Blank = [f \in Fields |-> Blank[f]]
  BY DEF Blank, Fields
<1>2. AreArgs(Blank.args)
  <2>1. Blank.args = NoArgs
    BY DEF Blank
  <2>2. NoArgs.vmid = 0 /\ NoArgs.kind = Unset
    BY DEF NoArgs
  <2>3. Unset \in AnyNoun
    BY DEF AnyNoun
  <2> QED
    BY <2>1, <2>2, <2>3 DEF AreArgs
<1>3. IsTodo(Blank) /\ Blank.todo = <<>>
  <2>1. Blank.todo = <<>> /\ <<>> \in Seq(Steps) /\ Len(<<>>) = 0
    BY DEF Blank
  <2> QED
    BY <2>1 DEF IsTodo, InOrder, KindIsKept
<1>4. /\ Blank.provider \in {"pve", "pdm"} /\ Blank.guest = NoGuest
      /\ Blank.listed = {} /\ Blank.present = {} /\ Blank.consent = {}
  BY DEF Blank
<1>5. NoGuest.vmid \in Nat
  BY DEF NoGuest
<1> QED
  BY <1>1, <1>2, <1>3, <1>4, <1>5 DEF IsCommand

LEMMA InitIInv == CommandInit => IInv
<1> SUFFICES ASSUME CommandInit PROVE IInv
  OBVIOUS
<1>1. WInv
  BY InitWInv DEF CommandInit
<1>2. PICK program \in Programs, provider \in {"pve", "pdm"} : \E a \in program.takes :
         cmd = [Blank EXCEPT !.provider = provider, !.args = a,
                             !.todo = program.steps]
  BY Zenon DEF CommandInit
<1>3. PICK a \in program.takes :
         cmd = [Blank EXCEPT !.provider = provider, !.args = a,
                             !.todo = program.steps]
  BY <1>2, Zenon
<1>4. /\ cmd = [f \in Fields |-> cmd[f]]
      /\ cmd.provider = provider /\ cmd.args = a /\ cmd.todo = program.steps
      /\ cmd.guest = NoGuest /\ cmd.listed = {} /\ cmd.present = {} /\ cmd.consent = {}
  BY <1>3 DEF Blank, Fields
<1>5. /\ program.steps \in Seq(Steps) /\ InOrder(program.steps, FALSE)
      /\ AreArgs(a) /\ KindIsKept(program.steps, a)
  BY ProgramsAreInOrder DEF IsProgram
<1>6. IsCommand(cmd)
  <2>1. NoGuest.vmid \in Nat
    BY DEF NoGuest
  <2> QED
    BY <1>4, <1>5, <2>1 DEF IsCommand
<1>7. IsTodo(cmd)
  BY <1>4, <1>5 DEF IsTodo
<1>8. pc[Issuer] = "idle"
  BY DEF CommandInit, Init, Processes
<1> QED
  BY <1>1, <1>6, <1>7, <1>8 DEF IInv, CInv

\* The rest of what is in order is in order, once the step is taken.
LEMMA RestIsInOrder ==
    ASSUME NEW s \in Seq(Steps), s # <<>>, NEW asked \in BOOLEAN, InOrder(s, asked), NEW a,
           KindIsKept(s, a)
    PROVE  /\ Tail(s) \in Seq(Steps) /\ KindIsKept(Tail(s), a)
           /\ InOrder(Tail(s), asked \/ Head(s) = "confirm")
<1> DEFINE t == Tail(s)
<1>1. /\ t \in Seq(Steps) /\ Len(t) = Len(s) - 1 /\ Len(s) \in Nat \ {0}
      /\ \A i \in 1 .. Len(t) : t[i] = s[i + 1]
      /\ Head(s) = s[1]
  BY HeadTailProperties, LenProperties, EmptySeq
<1> HIDE DEF t
<1>2. ASSUME NEW i \in 1 .. Len(t)
      PROVE  i + 1 \in 1 .. Len(s) /\ t[i] = s[i + 1]
  BY <1>1
<1>3. KindIsKept(t, a)
  BY <1>2 DEF KindIsKept
<1>4. ASSUME NEW i \in 1 .. Len(t), t[i] \in MustAsk, ~asked, Head(s) # "confirm"
      PROVE  \E j \in 1 .. i - 1 : t[j] = "confirm"
  <2>1. PICK k \in 1 .. i : s[k] = "confirm"
    <3>1. \E k \in 1 .. (i + 1) - 1 : s[k] = "confirm"
      BY <1>2, <1>4 DEF InOrder
    <3> QED
      BY <3>1
  <2>2. k # 1
    BY <1>1, <1>4, <2>1
  <2>3. k - 1 \in 1 .. i - 1 /\ k - 1 \in 1 .. Len(t) /\ (k - 1) + 1 = k
    BY <1>1, <2>1, <2>2
  <2> QED
    BY <1>1, <2>1, <2>3
<1>5. ASSUME NEW i \in 1 .. Len(t), t[i] = "resolve"
      PROVE  /\ ~asked /\ Head(s) # "confirm"
             /\ \A j \in 1 .. i - 1 : t[j] # "confirm"
  <2>1. ~asked /\ \A k \in 1 .. (i + 1) - 1 : s[k] # "confirm"
    BY <1>2, <1>5 DEF InOrder
  <2>2. 1 \in 1 .. (i + 1) - 1
    OBVIOUS
  <2>3. ASSUME NEW j \in 1 .. i - 1
        PROVE  t[j] # "confirm"
    <3>1. j + 1 \in 1 .. (i + 1) - 1 /\ j \in 1 .. Len(t)
      BY <1>1
    <3> QED
      BY <1>1, <2>1, <3>1
  <2> QED
    BY <1>1, <2>1, <2>2, <2>3
<1>6. InOrder(t, asked \/ Head(s) = "confirm")
  BY <1>4, <1>5 DEF InOrder
<1> QED
  BY <1>1, <1>3, <1>6 DEF t

\* A step before the call has one of two ends: the command goes on, ...
LEMMA AdvanceKeeps ==
    ASSUME IInv, cmd.todo # <<>>, NEW next, IsCommand(next), Advance(next),
           next.todo = cmd.todo, next.args = cmd.args,
           next.consent # {} <=> (cmd.consent # {} \/ Head(cmd.todo) = "confirm")
    PROVE  IInv'
<1>1. UNCHANGED vars /\ cmd' = [next EXCEPT !.todo = Tail(@)]
  BY DEF Advance
<1>2. /\ cmd' = [f \in Fields |-> cmd'[f]]
      /\ cmd'.provider = next.provider /\ cmd'.guest = next.guest
      /\ cmd'.args = next.args /\ cmd'.listed = next.listed
      /\ cmd'.present = next.present /\ cmd'.consent = next.consent
      /\ cmd'.todo = Tail(cmd.todo)
  BY <1>1 DEF IsCommand, Fields
<1>3. IsCommand(cmd')
  BY <1>2 DEF IsCommand
<1>4. IsTodo(cmd')
  <2> DEFINE asked == cmd.consent # {}
             now == asked \/ Head(cmd.todo) = "confirm"
  <2>1. cmd.todo \in Seq(Steps) /\ InOrder(cmd.todo, asked) /\ KindIsKept(cmd.todo, cmd.args)
    BY DEF IInv, CInv, IsTodo
  <2>2. /\ cmd'.todo \in Seq(Steps) /\ KindIsKept(cmd'.todo, cmd'.args)
        /\ InOrder(cmd'.todo, now)
    <3>1. asked \in BOOLEAN
      OBVIOUS
    <3> HIDE DEF asked
    <3> QED
      BY <1>2, <2>1, <3>1, RestIsInOrder
  <2>3. InOrder(cmd'.todo, cmd'.consent # {})
    <3>1. now <=> cmd'.consent # {}
      BY <1>2
    <3> HIDE DEF now
    <3> QED
      BY <2>2, <3>1 DEF InOrder
  <2> QED
    BY <2>2, <2>3 DEF IsTodo
<1>5. WInv'
  BY <1>1 DEF vars, flags, server, IInv, WInv, TypeOK, RetriesLeft, BeforeTheCall,
              SeenIsTrue, ZeroIsTrue, FailureIsReal, TaskStopped
<1>6. pc'[Issuer] = "idle"
  BY <1>1 DEF IInv, CInv, vars
<1> QED
  BY <1>3, <1>4, <1>5, <1>6 DEF IInv, CInv

\* ... or it ends, with an error or with what it read.
LEMMA EndsKeeps ==
    ASSUME IInv, cmd.todo # <<>>, NEW outcomes, "TaskFailed" \notin outcomes,
           Ends(outcomes)
    PROVE  IInv'
<1>1. PICK k \in outcomes : Finish(Issuer, ExitCode(k))
  BY DEF Ends
<1>2. ExitCode(k) \in (0 .. 6) \ {5}
  BY ExitCodes
<1>3. WInv'
  BY <1>1, <1>2, EndsBeforeTask DEF Ends, IInv, CInv
<1>4. CInv'
  <2>1. cmd' = Blank
    BY DEF Ends
  <2> QED
    BY <2>1, BlankIsCommand DEF CInv
<1> QED
  BY <1>3, <1>4 DEF IInv

LEMMA ResolveKeeps == ASSUME IInv, Resolve PROVE IInv'
<1>1. cmd.todo # <<>> /\ IsCommand(cmd)
  BY DEF Resolve, Doing, IInv, CInv
<1>0. Head(cmd.todo) = "resolve" /\ cmd.consent = {}
  <2>1. Head(cmd.todo) = "resolve"
    BY DEF Resolve, Doing
  <2>2. /\ cmd.todo \in Seq(Steps) /\ Len(cmd.todo) \in Nat \ {0}
        /\ cmd.todo[1] = Head(cmd.todo)
    BY <1>1, HeadTailProperties, LenProperties, EmptySeq DEF IInv, CInv, IsTodo
  <2>3. 1 \in 1 .. Len(cmd.todo)
    BY <2>2
  <2>4. InOrder(cmd.todo, cmd.consent # {})
    BY DEF IInv, CInv, IsTodo
  <2> QED
    BY <2>1, <2>2, <2>3, <2>4 DEF InOrder
<1>2. ASSUME NEW r, NEW listed, NEW present, r.error \in ResolveErrors,
             listed \subseteq present,
             r.error = "ok" => Fits(r.guest, cmd.args, listed),
             r.error = "ok" /\ LooksUp(cmd.args) => OneFits(cmd.args, listed),
             Resolved(r, listed, present)
      PROVE  IInv'
  <2>1. CASE r.error = "ok"
    <3> DEFINE next == [cmd EXCEPT !.guest = r.guest, !.listed = listed,
                                   !.present = present]
    <3>1. Advance(next)
      BY <1>2, <2>1 DEF Resolved
    <3>2. /\ next = [f \in Fields |-> next[f]] /\ next.provider = cmd.provider
          /\ next.args = cmd.args /\ next.listed = listed
          /\ next.present = present /\ next.todo = cmd.todo
          /\ next.consent = cmd.consent /\ next.guest = r.guest
      BY <1>1 DEF IsCommand, Fields
    <3> HIDE DEF next
    <3>3. Fits(next.guest, next.args, next.listed)
      BY <1>2, <2>1, <3>2
    <3>4. IsCommand(next)
      BY <1>0, <1>1, <1>2, <2>1, <3>2, <3>3 DEF IsCommand, Fits
    <3> QED
      BY <1>0, <1>1, <3>1, <3>2, <3>4, AdvanceKeeps
  <2>2. CASE r.error # "ok"
    <3>1. Ends({r.error}) /\ "TaskFailed" \notin {r.error}
      BY <1>2, <2>2 DEF Resolved, ResolveErrors
    <3> QED
      BY <1>1, <3>1, EndsKeeps
  <2> QED
    BY <2>1, <2>2
<1>3. CASE ~LooksUp(cmd.args)
  <2>1. PICK r \in resolveGuest(cmd.provider, {}, cmd.args) : Resolved(r, {}, {})
    BY <1>3 DEF Resolve
  <2>2. r.error \in ResolveErrors /\ (r.error = "ok" => Fits(r.guest, cmd.args, {}))
    <3>1. AreArgs(cmd.args) /\ {} \subseteq GuestRecords /\ IsFiniteSet({})
      BY <1>1, FS_EmptySet DEF IsCommand
    <3>2. {g \in {} : Named(cmd.args, g)} = {}
      OBVIOUS
    <3> QED
      BY <3>1, <3>2, ResolvedIsTheOnly
  <2> QED
    BY <1>2, <1>3, <2>1, <2>2
<1>4. CASE LooksUp(cmd.args) /\ Ends(Kinds \cup {"ctx"})
  <2>1. "TaskFailed" \notin Kinds \cup {"ctx"}
    BY DEF Kinds
  <2> QED
    BY <1>1, <1>4, <2>1, EndsKeeps
<1>5. CASE LooksUp(cmd.args) /\ ~Ends(Kinds \cup {"ctx"})
  <2>1. PICK guests \in Listings(cmd.provider), down \in SUBSET Remotes :
           \E r \in resolveGuest(cmd.provider, ListedGuests(guests, down), cmd.args) :
              Resolved(r, {g \in ListedGuests(guests, down) : Named(cmd.args, g)},
                          {g \in guests : Named(cmd.args, g)})
    BY <1>5 DEF Resolve
  <2> DEFINE rows == ListedGuests(guests, down)
             listed == {g \in rows : Named(cmd.args, g)}
             present == {g \in guests : Named(cmd.args, g)}
  <2>2. /\ IsFiniteSet(rows) /\ rows \subseteq GuestRecords
        /\ listed \subseteq present
        /\ \A g, h \in rows : (g.vmid = h.vmid /\ g.remote = h.remote) => g = h
    <3>1. /\ guests \subseteq Guests[cmd.provider]
          /\ \A g, h \in guests : (g.vmid = h.vmid /\ g.remote = h.remote) => g = h
      BY <2>1 DEF Listings
    <3>2. /\ IsFiniteSet(Guests[cmd.provider])
          /\ Guests[cmd.provider] \subseteq GuestRecords
      BY <1>1, GuestsAssumption DEF IsCommand, GuestRecords
    <3>3. rows \subseteq guests
      BY DEF ListedGuests
    <3> QED
      BY <3>1, <3>2, <3>3, FS_Subset
  <2>3. PICK r \in resolveGuest(cmd.provider, rows, cmd.args) :
           Resolved(r, listed, present)
    BY <2>1
  <2> HIDE DEF rows
  <2>4. /\ r.error \in ResolveErrors
        /\ r.error = "ok" => Fits(r.guest, cmd.args, listed)
        /\ r.error = "ok" /\ LooksUp(cmd.args) => OneFits(cmd.args, listed)
    <3>1. AreArgs(cmd.args)
      BY <1>1 DEF IsCommand
    <3> QED
      BY <2>2, <3>1, ResolvedIsTheOnly
  <2> HIDE DEF listed, present
  <2> QED
    BY <1>2, <2>2, <2>3, <2>4
<1> QED
  BY <1>3, <1>4, <1>5

LEMMA PrepareKeeps == ASSUME IInv, Prepare PROVE IInv'
<1>1. cmd.todo # <<>> /\ IsCommand(cmd)
  BY DEF Prepare, CheckLocally, EnsureProvider, Resolve, Base, ClusterPath, NodeOrAuto,
         Confirm, Read, Doing, IInv, CInv
<1>2. ASSUME Advance(cmd), Head(cmd.todo) # "confirm" PROVE IInv'
  BY <1>1, <1>2, AdvanceKeeps
<1>3. ASSUME NEW outcomes, "TaskFailed" \notin outcomes, Ends(outcomes) PROVE IInv'
  BY <1>1, <1>3, EndsKeeps
<1>4. /\ "TaskFailed" \notin {"local"} /\ "TaskFailed" \notin {"ok"}
      /\ "TaskFailed" \notin Kinds \cup {"ctx"}
      /\ "TaskFailed" \notin Kinds \cup {"ctx", "local"}
      /\ "TaskFailed" \notin DefiniteKinds
  BY DEF Kinds, DefiniteKinds
<1>5. CASE CheckLocally \/ EnsureProvider \/ Base
  BY <1>2, <1>3, <1>4, <1>5 DEF CheckLocally, EnsureProvider, Base, Doing
<1>6. CASE Resolve
  BY <1>6, ResolveKeeps
<1>7. CASE ClusterPath \/ NodeOrAuto \/ Read
  BY <1>2, <1>3, <1>4, <1>7 DEF ClusterPath, NodeOrAuto, Read, Doing
<1>8. CASE Confirm
  <2> DEFINE next == [cmd EXCEPT !.consent = {cmd.guest}]
  <2>1. CASE Advance(next)
    <3>1. /\ next = [f \in Fields |-> next[f]] /\ next.provider = cmd.provider
          /\ next.args = cmd.args /\ next.listed = cmd.listed
          /\ next.guest = cmd.guest /\ next.present = cmd.present
          /\ next.todo = cmd.todo /\ next.consent = {cmd.guest}
      BY <1>1 DEF IsCommand, Fields
    <3> HIDE DEF next
    <3>2. IsCommand(next)
      BY <1>1, <3>1 DEF IsCommand
    <3>3. Head(cmd.todo) = "confirm"
      BY <1>8 DEF Confirm, Doing
    <3> QED
      BY <1>1, <2>1, <3>1, <3>2, <3>3, AdvanceKeeps
  <2>2. CASE Ends({"local"})
    BY <1>3, <1>4, <2>2
  <2> QED
    BY <1>8, <2>1, <2>2 DEF Confirm
<1> QED
  BY <1>5, <1>6, <1>7, <1>8 DEF Prepare

LEMMA CallKeeps == ASSUME IInv, Call PROVE IInv'
<1>0. /\ cmd.todo # <<>> /\ pc[Issuer] = "idle" /\ task = "none" /\ late = FALSE
      /\ WInv
  <2>1. cmd.todo # <<>>
    BY DEF Call, RawMutate, GuestPower, PrintAnswer, Doing
  <2>2. pc[Issuer] = "idle" /\ WInv
    BY <2>1 DEF IInv, CInv
  <2>3. task = "none" /\ late = FALSE
    BY <2>2 DEF WInv, TypeOK, BeforeTheCall
  <2> QED
    BY <2>1, <2>2, <2>3
<1>1. ASSUME WInv', NEW guests, Sends(guests) PROVE IInv'
  <2>1. cmd' = Blank
    BY <1>1 DEF Sends
  <2> QED
    BY <1>1, <2>1, BlankIsCommand DEF IInv, CInv
<1>2. PostStartsTask => WInv'
  BY <1>0, StartKeeps DEF PostStartsTask
<1>3. PostIsSynchronous => WInv'
  BY <1>0, EndsBeforeTask DEF PostIsSynchronous
<1>4. ASSUME PostRefused PROVE WInv'
  <2>1. PICK k \in DefiniteKinds : Finish(Issuer, ExitCode(k))
    BY <1>4 DEF PostRefused
  <2>2. ExitCode(k) \in (0 .. 6) \ {5}
    BY ExitCodes DEF DefiniteKinds, Kinds
  <2> QED
    BY <1>0, <1>4, <2>1, <2>2, EndsBeforeTask DEF PostRefused
<1>5. NotAnswered => IInv'
  BY <1>0, <1>1, <1>4, PostInDoubtKeeps DEF NotAnswered
<1>6. CASE RawMutate
  BY <1>1, <1>2, <1>3, <1>5, <1>6 DEF RawMutate
<1>7. CASE GuestPower
  <2>1. ASSUME HandleIsMadeUp PROVE WInv'
    <3>1. /\ Issuer \in Processes /\ Goto(Issuer, "handle")
          /\ UNCHANGED <<tries, seen, expired, wait, structured, bounded, server, printed>>
      BY <2>1 DEF HandleIsMadeUp, Processes, flags
    <3>2. /\ tries' \in [Processes -> 0 .. MaxRetries + 1] /\ tries'[Issuer] <= MaxRetries
          /\ bounded' \subseteq Processes
      BY <1>0, <3>1 DEF WInv, TypeOK, RetriesLeft
    <3> QED
      BY <1>0, <3>1, <3>2, MovesOn DEF PlacesOfWait
  <2>2. ASSUME AnswerUndecoded PROVE WInv'
    <3>1. Finish(Issuer, 1)
      BY <2>2 DEF AnswerUndecoded, ExitCode
    <3>2. CASE task' = "none"
      BY <1>0, <2>2, <3>1, <3>2, EndsBeforeTask DEF AnswerUndecoded, server
    <3>3. CASE task' = "running"
      BY <1>0, <2>2, <3>1, <3>3, StartKeeps DEF AnswerUndecoded
    <3> QED
      BY <2>2, <3>2, <3>3 DEF AnswerUndecoded
  <2>3. "TaskFailed" \notin {"local"}
    OBVIOUS
  <2> QED
    BY <1>0, <1>1, <1>2, <1>5, <1>7, <2>1, <2>2, <2>3, EndsKeeps DEF GuestPower
<1>8. CASE PrintAnswer
  <2>1. CASE /\ Finish(Issuer, 0) /\ task' = "running" /\ printed' = TRUE
             /\ UNCHANGED <<tries, seen, expired, flags, late>> /\ Sends(Reached)
    <3>1. WInv'
      BY <1>0, <2>1, StartKeeps
    <3> QED
      BY <1>1, <2>1, <3>1
  <2>2. CASE /\ Finish(Issuer, 0) /\ UNCHANGED <<task, printed>>
             /\ UNCHANGED <<tries, seen, expired, flags, late>> /\ Sends(Reached)
    <3>1. WInv'
      BY <1>0, <2>2, EndsBeforeTask DEF server
    <3> QED
      BY <1>1, <2>2, <3>1
  <2> QED
    BY <1>5, <1>8, <2>1, <2>2 DEF PrintAnswer
<1> QED
  BY <1>6, <1>7, <1>8 DEF Call

\* No step of a wait is one of a command that has not sent its call.
LEMMA WaitLeavesTheCall ==
    ASSUME IInv, TaskStep, pc[Issuer] = "idle"
    PROVE  pc'[Issuer] = "idle"
<1>0. pc \in [Processes -> {"idle", "handle", "poll", "look", "sleep", "done"}]
  BY DEF IInv, WInv, TypeOK
<1>1. ASSUME NEW p \in Processes, PollStep(p)
      PROVE  pc'[Issuer] = "idle"
  <2>1. p # Issuer
    BY <1>1 DEF PollStep, ReadStatus, PollLost, PollCancelled, PollRefused, Look, Tick,
                WaitTimesOut
  <2>2. \E where : pc' = [pc EXCEPT ![p] = where]
    BY <1>1 DEF PollStep, ReadStatus, PollLost, PollCancelled, PollRefused, Look, Tick,
                WaitTimesOut, Goto, Finish
  <2> QED
    BY <1>0, <2>1, <2>2 DEF Processes
<1>2. ASSUME NEW p \in Processes, Expire(p)
      PROVE  pc'[Issuer] = "idle"
  BY <1>2 DEF Expire
<1>3. ASSUME NEW p \in Followers, Follow(p)
      PROVE  pc'[Issuer] = "idle"
  BY <1>0, <1>3 DEF Follow, Goto, Processes
<1>4. ~FinishTask /\ ~LateStart
  BY DEF FinishTask, LateStart, IInv, WInv, BeforeTheCall
<1>5. TaskEnds => pc'[Issuer] = "idle"
  BY DEF TaskEnds
<1> QED
  BY <1>1, <1>2, <1>3, <1>4, <1>5 DEF TaskStep

LEMMA TaskStepKeeps == ASSUME IInv, TaskStep PROVE IInv'
<1>0. WInv
  BY DEF IInv
<1>1. WInv'
  <2>1. ASSUME LateStart PROVE WInv'
    BY <1>0, <2>1, StartKeeps DEF LateStart, WInv, BeforeTheCall
  <2> QED
    BY <1>0, <2>1, FinishTaskKeeps, PollStepKeeps, ExpireKeeps, FollowKeeps,
       TaskEndsKeeps DEF TaskStep
<1>2. CInv'
  <2>1. cmd' = cmd
    BY DEF TaskStep
  <2> QED
    BY <2>1, WaitLeavesTheCall DEF IInv, CInv, IsCommand
<1> QED
  BY <1>1, <1>2 DEF IInv

LEMMA Unchanged == ASSUME IInv, UNCHANGED <<vars, cmd>> PROVE IInv'
BY DEF vars, flags, server, IInv, WInv, TypeOK, RetriesLeft, BeforeTheCall,
       SeenIsTrue, ZeroIsTrue, FailureIsReal, TaskStopped, CInv, IsCommand

LEMMA Invariant == CommandSpec => []IInv
<1>1. CommandInit => IInv
  BY InitIInv
<1>2. IInv /\ [CommandNext]_cvars => IInv'
  <2> SUFFICES ASSUME IInv, [CommandNext]_cvars PROVE IInv'
    OBVIOUS
  <2>1. CASE Prepare
    BY <2>1, PrepareKeeps
  <2>2. CASE Call
    BY <2>2, CallKeeps
  <2>3. CASE TaskStep
    BY <2>3, TaskStepKeeps
  <2>4. CASE LogStep
    BY <2>4, Unchanged DEF LogStep
  <2>5. CASE UNCHANGED cvars
    BY <2>5, Unchanged DEF cvars
  <2> QED
    BY <2>1, <2>2, <2>3, <2>4, <2>5 DEF CommandNext
<1> QED
  BY <1>1, <1>2, PTL DEF CommandSpec

----------------------------------------------------------------------------
\* Whatever guests there are, of whatever names, in whatever remotes, and
\* whatever is typed: a command that goes on after looking a guest up found
\* one guest in its listing that fits, the kind of the noun included, or, given
\* an id and --remote, guests that are all in remotes of that name but for
\* letter case, of which it took the first (ResolveGuest, ResolveGuestInRemote,
\* resolveGuestByName).
THEOREM NeverPicksAmongHolds == CommandSpec => []NeverPicksAmong
<1>1. IInv => NeverPicksAmong
  BY DEF IInv, CInv, IsCommand, NeverPicksAmong, OneFits
<1> QED
  BY <1>1, Invariant, PTL

\* With any number of processes waiting for the task, retries and exit
\* statuses: exit code 0 of one that waited means that the task ended with
\* "OK" (finishTask, Wait, TaskStatus.OK).
THEOREM SuccessIsRealHolds == CommandSpec => []SuccessIsReal
<1>1. IInv => SuccessIsReal
  BY DEF IInv, WInv, ZeroIsTrue, SuccessIsReal, Started, Processes
<1> QED
  BY <1>1, Invariant, PTL

\* Under the same conditions exit code 5 means that the task is over and did
\* not end with "OK".
THEOREM FailureIsRealHolds == CommandSpec => []FailureIsReal
<1>1. IInv => FailureIsReal
  BY DEF IInv, WInv
<1> QED
  BY <1>1, Invariant, PTL

----------------------------------------------------------------------------
(***************************************************************************)
(* What a call reaches, and what was asked before it.                      *)
(***************************************************************************)
\* The call of a step, and the guest it reached, that of the path or none.
LEMMA CallIsOfTheHead ==
    ASSUME IInv, [CommandNext]_cvars, ~UNCHANGED cvars, sent' # NothingSent
    PROVE  /\ cmd.todo # <<>> /\ Head(cmd.todo) \in Calls
           /\ sent'.call = Head(cmd.todo)
           /\ sent'.guest \in Reached \cup {NoGuest}
<1>1. Call
  BY DEF CommandNext, Prepare, TaskStep, LogStep, Quietly
<1>2. cmd.todo # <<>> /\ Head(cmd.todo) \in Calls
  <2>1. Doing(Calls \ (PowerActions \cup {"raw", "print"})) \/ Doing(PowerActions)
        \/ Doing({"raw", "print"})
    BY <1>1, Zenon DEF Call, RawMutate, GuestPower, PrintAnswer
  <2>2. {"raw", "print"} \subseteq Calls /\ PowerActions \subseteq Calls
    BY DEF Calls, Destructive, Unasked
  <2> QED
    BY <2>1, <2>2 DEF Doing
<1>3. ASSUME NEW guests, guests \subseteq Reached \cup {NoGuest}, Sends(guests)
      PROVE  sent'.call = Head(cmd.todo) /\ sent'.guest \in Reached \cup {NoGuest}
  BY <1>3 DEF Sends
<1>4. NoGuest \in {NoGuest} /\ Reached \subseteq Reached \cup {NoGuest}
  OBVIOUS
<1>5. Sends(Reached) \/ Sends({NoGuest}) \/ Sends(Reached \cup {NoGuest})
  BY <1>1 DEF Call, RawMutate, GuestPower, PrintAnswer, NotAnswered, Quietly
<1> QED
  BY <1>2, <1>3, <1>4, <1>5

\* The guest that a call reaches has the id, the kind and the place of the one
\* the command settled on; a backup is of whatever has the id.
LEMMA ReachedFits ==
    ASSUME IInv, cmd.todo # <<>>, NEW g \in Reached, g # NoGuest
    PROVE  /\ cmd.guest # NoGuest /\ Fits(cmd.guest, cmd.args, cmd.listed)
           /\ g.vmid = cmd.guest.vmid
           /\ IF Head(cmd.todo) \in Backups THEN cmd.args.kind = Unset
                                           ELSE g.kind = cmd.guest.kind
           /\ IF cmd.provider = "pve" THEN g.node = cmd.guest.node
                                      ELSE g.remote = cmd.guest.remote
<1>1. cmd.guest # NoGuest /\ LeadsTo(cmd.provider, Path, g)
  BY DEF Reached
<1>2. IsCommand(cmd) /\ IsTodo(cmd) /\ Fits(cmd.guest, cmd.args, cmd.listed)
  BY <1>1 DEF IInv, CInv, IsCommand
<1>3. /\ Path.vmid = cmd.guest.vmid
      /\ Head(cmd.todo) \notin Backups => Path.kind = cmd.guest.kind
      /\ cmd.provider = "pve" => Path.node = cmd.guest.node
      /\ cmd.provider = "pdm" => Path.remote = cmd.guest.remote
  <2> DEFINE b == guestBase(cmd.provider, cmd.guest)
  <2>1. /\ b.vmid = cmd.guest.vmid /\ b.kind = cmd.guest.kind
        /\ cmd.provider = "pve" => b.node = cmd.guest.node
        /\ cmd.provider = "pdm" => b.remote = cmd.guest.remote
        /\ [b EXCEPT !.kind = Unset].vmid = b.vmid
        /\ [b EXCEPT !.kind = Unset].node = b.node
        /\ [b EXCEPT !.kind = Unset].remote = b.remote
    BY DEF guestBase
  <2>2. Path = IF Doing(Backups) THEN [b EXCEPT !.kind = Unset] ELSE b
    BY Zenon DEF Path
  <2> HIDE DEF b
  <2> QED
    BY <2>1, <2>2 DEF Doing
<1>4. cmd.guest.kind # Unset
  BY <1>2, Zenon DEF Fits, Typed, VM, CT, Unset
<1>5. ASSUME Head(cmd.todo) \in Backups
      PROVE  cmd.args.kind = Unset
  <2>1. /\ cmd.todo \in Seq(Steps) /\ 1 \in 1 .. Len(cmd.todo)
        /\ cmd.todo[1] = Head(cmd.todo)
    BY <1>2, HeadTailProperties, LenProperties, EmptySeq DEF IsTodo
  <2> QED
    BY <1>2, <1>5, <2>1 DEF IsTodo, KindIsKept
<1>6. cmd.provider \in {"pve", "pdm"}
  BY <1>2 DEF IsCommand
<1> QED
  BY <1>1, <1>2, <1>3, <1>4, <1>5, <1>6 DEF LeadsTo

\* Whatever guests there are and whatever became of them since the listing: a
\* call reaches no guest but one that the arguments name, its remote by a name
\* that may differ in letter case (resolveGuest, guestBase, and the arguments
\* of each command).
THEOREM OnlyTheNamedGuestHolds == CommandSpec => OnlyTheNamedGuest
<1>1. ASSUME IInv, [CommandNext]_cvars, ~UNCHANGED cvars, sent'.guest # NoGuest
      PROVE  LET g == sent'.guest
                 a == cmd.args
             IN /\ a.kind \in {Unset, g.kind}
                /\ IF a.vmid = 0 THEN \E l \in cmd.listed : l.vmid = g.vmid
                                 ELSE g.vmid = a.vmid
                /\ IF cmd.provider = "pve" THEN a.vmid = 0 \/ a.node \in {Unset, g.node}
                                           ELSE InRemote(a.remote, g)
  <2> DEFINE g == sent'.guest
  <2>1. cmd.todo # <<>> /\ g \in Reached /\ g # NoGuest
    BY <1>1, CallIsOfTheHead DEF NothingSent
  <2> HIDE DEF g
  <2>2. /\ Fits(cmd.guest, cmd.args, cmd.listed) /\ g.vmid = cmd.guest.vmid
        /\ cmd.args.kind = Unset \/ g.kind = cmd.guest.kind
        /\ IF cmd.provider = "pve" THEN g.node = cmd.guest.node
                                   ELSE g.remote = cmd.guest.remote
    BY <1>1, <2>1, ReachedFits
  <2>3. /\ cmd.args.kind \in {Unset, g.kind}
        /\ IF cmd.args.vmid = 0 THEN \E l \in cmd.listed : l.vmid = g.vmid
                                ELSE g.vmid = cmd.args.vmid
        /\ IF cmd.provider = "pve" THEN cmd.args.vmid = 0 \/ cmd.args.node \in {Unset, g.node}
                                   ELSE InRemote(cmd.args.remote, g)
    BY <2>2 DEF Fits, InRemote, EqualFold
  <2> QED
    BY <2>3 DEF g
<1> QED
  BY <1>1, Invariant, PTL DEF CommandSpec, OnlyTheNamedGuest

\* For every command of Verbs: before a call that takes something away or
\* down, and is not one of the six that Unasked lists, the prompt was answered,
\* after the guest was looked up, and the call reaches that guest's id and kind
\* or nothing (confirm, and where each RunE has it).
THEOREM AsksFirstHolds == CommandSpec => AsksFirst
<1>1. ASSUME IInv, [CommandNext]_cvars, ~UNCHANGED cvars, sent'.call \in MustAsk
      PROVE  \E g \in cmd.consent :
                sent'.guest = NoGuest
                \/ (sent'.guest.vmid = g.vmid /\ sent'.guest.kind = g.kind)
  <2>1. /\ cmd.todo # <<>> /\ Head(cmd.todo) \in MustAsk
        /\ sent'.guest \in Reached \cup {NoGuest}
    <3>1. sent' # NothingSent
      BY <1>1 DEF NothingSent, MustAsk, Destructive, Unasked
    <3> QED
      BY <1>1, <3>1, CallIsOfTheHead
  <2>2. IsCommand(cmd) /\ IsTodo(cmd)
    BY <1>1 DEF IInv, CInv
  <2>3. /\ cmd.todo \in Seq(Steps) /\ 1 \in 1 .. Len(cmd.todo)
        /\ cmd.todo[1] = Head(cmd.todo)
    BY <2>1, <2>2, HeadTailProperties, LenProperties, EmptySeq DEF IsTodo
  <2>4. cmd.consent # {}
    BY <2>1, <2>2, <2>3 DEF IsTodo, InOrder
  <2>5. cmd.consent = {cmd.guest}
    BY <2>2, <2>4 DEF IsCommand
  <2>6. Head(cmd.todo) \notin Backups
    BY <2>1 DEF MustAsk, Destructive, Unasked, Backups
  <2> QED
    BY <1>1, <2>1, <2>5, <2>6, ReachedFits
<1> QED
  BY <1>1, Invariant, PTL DEF CommandSpec, AsksFirst, MustAsk

----------------------------------------------------------------------------
(***************************************************************************)
(* The log of the task.                                                    *)
(***************************************************************************)
Upto(m) == [n \in 1 .. m |-> n]

\* A page that starts where the last one ended.
LEMMA ReadOn ==
    ASSUME NEW m \in Nat, NEW k \in Nat
    PROVE  Upto(m) \o [i \in 1 .. k |-> m + i] = Upto(m + k)
<1> DEFINE page == [i \in 1 .. k |-> m + i]
<1>1. Upto(m) \in Seq(Nat) /\ Len(Upto(m)) = m /\ \A i \in 1 .. m : Upto(m)[i] = i
  BY DEF Upto
<1>2. page \in Seq(Nat) /\ Len(page) = k /\ \A i \in 1 .. k : page[i] = m + i
  OBVIOUS
<1> HIDE DEF page
<1> DEFINE both == Upto(m) \o page
<1>3. /\ both \in Seq(Nat) /\ Len(both) = m + k
      /\ \A i \in 1 .. m + k : both[i] = IF i <= m THEN Upto(m)[i] ELSE page[i - m]
  <2>1. \A s, t \in Seq(Nat) :
           /\ s \o t \in Seq(Nat) /\ Len(s \o t) = Len(s) + Len(t)
           /\ \A i \in 1 .. Len(s) + Len(t) :
                 (s \o t)[i] = IF i <= Len(s) THEN s[i] ELSE t[i - Len(s)]
    BY ConcatProperties, Zenon
  <2>2. Upto(m) \in Seq(Nat) /\ page \in Seq(Nat) /\ Len(Upto(m)) = m /\ Len(page) = k
    BY <1>1, <1>2
  <2> HIDE DEF both
  <2>3. both = Upto(m) \o page
    BY DEF both
  <2>4. /\ both \in Seq(Nat) /\ Len(both) = Len(Upto(m)) + Len(page)
        /\ \A i \in 1 .. Len(Upto(m)) + Len(page) :
              both[i] = IF i <= Len(Upto(m)) THEN Upto(m)[i] ELSE page[i - Len(Upto(m))]
    BY <2>1, <2>2, <2>3, Zenon
  <2> QED
    BY <2>2, <2>4
<1> HIDE DEF both
<1>4. \A i \in 1 .. m + k : both[i] = i
  BY <1>1, <1>2, <1>3
<1>5. both = [i \in 1 .. m + k |-> both[i]]
  <2>1. both \in [1 .. Len(both) -> Nat]
    BY <1>3, LenProperties
  <2> QED
    BY <1>3, <2>1
<1>6. both = Upto(m + k)
  BY <1>4, <1>5 DEF Upto
<1> QED
  BY <1>6 DEF both, page

\* What was read is the beginning of the log, a status that says the task is
\* over is still true, and a follow that ended saw such a status before a page
\* that, where it was not full, brought the end of the log.
LInv ==
    /\ logPc \in {"off", "first", "status", "drain", "tick", "done", "failed"}
    /\ written \in 0 .. MaxLines /\ logNext \in 1 .. written + 1
    /\ logFetched \in 0 .. Page /\ logFollow \in BOOLEAN
    /\ logPrinted = Upto(logNext - 1)
    /\ logSeen \in {Running, Stopped("OK")}
    /\ logSeen # Running => TaskStopped
    /\ logPc = "off" => logNext = 1 /\ logSeen = Running
    /\ logPc = "done" /\ logFollow =>
          /\ logSeen # Running
          /\ logFetched < Page => logNext = written + 1

LEMMA SameWords ==
    /\ Log!Running = Running /\ \A e : Log!Stopped(e) = Stopped(e)
    /\ \A st : Log!TaskDone(st) <=> TaskDone(st)
BY DEF Log!Running, Log!Stopped, Log!TaskDone, Running, Stopped, TaskDone

LEMMA InitLInv == CommandInit => LInv
<1> SUFFICES ASSUME CommandInit PROVE LInv
  OBVIOUS
<1>1. Upto(0) = <<>>
  BY DEF Upto
<1>2. /\ logPc = "off" /\ logFollow = FALSE /\ logNext = 1 /\ logFetched = 0
      /\ logSeen = Running /\ logPrinted = <<>> /\ written = 0
  BY DEF CommandInit
<1>3. logPrinted = Upto(logNext - 1)
  <2>1. logNext - 1 = 0
    BY <1>2
  <2> QED
    BY <1>1, <1>2, <2>1
<1>4. /\ logPc # "done" /\ logPc \in {"off", "first", "status", "drain", "tick", "done", "failed"}
      /\ written \in 0 .. MaxLines /\ logNext \in 1 .. written + 1
      /\ logFetched \in 0 .. Page
  BY <1>2, MaxLinesAssumption, PageAssumption
<1>5. /\ logFollow \in BOOLEAN /\ logSeen \in {Running, Stopped("OK")}
      /\ logSeen = Running /\ logNext = 1
  BY <1>2
<1> QED
  BY <1>3, <1>4, <1>5 DEF LInv

\* printFrom moves the cursor past the lines it received.
LEMMA PrintFromReads ==
    ASSUME LInv, Log!PrintFrom
    PROVE  /\ logNext' \in 1 .. written + 1 /\ logFetched' \in 0 .. Page
           /\ logPrinted' = Upto(logNext' - 1)
           /\ logFetched' < Page => logNext' = written + 1
<1> USE PageAssumption
<1> DEFINE m == logNext - 1
           k == Log!Least(Page, written - m)
           lines == [i \in 1 .. k |-> m + i]
<1>1. /\ m \in Nat /\ k \in 0 .. Page /\ m + k <= written /\ written \in Nat
      /\ k < Page => m + k = written
  BY DEF LInv, Log!Least
<1>2. Log!LogPage(m) = lines
  BY DEF Log!LogPage
<1>3. /\ logPrinted' = logPrinted \o lines /\ logFetched' = Len(lines)
      /\ logNext' = IF lines = <<>> THEN logNext ELSE lines[Len(lines)] + 1
  BY <1>2 DEF Log!PrintFrom
<1> HIDE DEF k
<1>4. /\ Len(lines) = k
      /\ lines = <<>> <=> k = 0
      /\ k > 0 => lines[Len(lines)] = m + k
  <2>1. Len(lines) = k /\ (k > 0 => lines[k] = m + k)
    BY <1>1
  <2>2. lines = <<>> <=> k = 0
    <3>1. lines \in Seq(Nat)
      BY <1>1
    <3> QED
      BY <2>1, <3>1, EmptySeq
  <2> QED
    BY <2>1, <2>2
<1>5. logPrinted' = Upto(m + k)
  <2>1. logPrinted = Upto(m) /\ k \in Nat
    BY <1>1 DEF LInv
  <2> HIDE DEF m
  <2>2. Upto(m) \o lines = Upto(m + k)
    BY <1>1, <2>1, ReadOn, Zenon
  <2> QED
    BY <1>3, <2>1, <2>2
<1> HIDE DEF lines
<1>6. logNext' = m + k + 1
  <2>1. logNext \in Nat
    BY DEF LInv
  <2>2. CASE k = 0
    BY <1>3, <1>4, <2>1, <2>2
  <2>3. CASE k > 0
    <3>1. logNext' = lines[Len(lines)] + 1
      BY <1>3, <1>4, <2>3
    <3> QED
      BY <1>4, <2>3, <3>1
  <2> QED
    BY <1>1, <2>2, <2>3
<1>7. logNext' - 1 = m + k /\ logNext' \in Nat
  BY <1>1, <1>6 DEF LInv
<1>8. logNext' \in 1 .. written + 1 /\ logFetched' \in 0 .. Page
  BY <1>1, <1>3, <1>4, <1>6, <1>7 DEF LInv
<1>9. logFetched' < Page => logNext' = written + 1
  BY <1>1, <1>3, <1>4, <1>6
<1> QED
  BY <1>5, <1>7, <1>8, <1>9

LEMMA LogStepKeeps == ASSUME LInv, LogStep PROVE LInv'
<1>1. TaskStopped' <=> TaskStopped
  BY DEF LogStep, vars, server, TaskStopped
<1>2. CASE OpenLog
  <2>1. /\ logPc = "off" /\ logPc' = "first" /\ logFollow' \in BOOLEAN
        /\ written' \in 0 .. MaxLines
        /\ UNCHANGED <<logNext, logFetched, logSeen, logPrinted>>
    BY <1>2, MaxLinesAssumption DEF OpenLog
  <2>2. logNext = 1
    BY <2>1 DEF LInv
  <2>3. logNext' \in 1 .. written' + 1
    <3>1. \A w \in Nat : 1 \in 1 .. w + 1
      OBVIOUS
    <3>2. logNext' = 1 /\ written' \in Nat
      BY <2>1, <2>2, MaxLinesAssumption
    <3> QED
      BY <3>1, <3>2
  <2> QED
    BY <1>1, <2>1, <2>2, <2>3 DEF LInv
<1>3. CASE Log!FirstPage
  <2>1. Log!PrintFrom
    BY <1>3 DEF Log!FirstPage
  <2> QED
    BY <1>1, <1>3, <2>1, PrintFromReads DEF Log!FirstPage, Log!server, LInv
<1>4. CASE Log!Drain
  <2>1. Log!PrintFrom /\ logSeen' = logSeen /\ written' = written /\ logFollow' = logFollow
        /\ logPc = "drain" /\ logPc' = IF TaskDone(logSeen) THEN "done" ELSE "tick"
    BY <1>4, SameWords DEF Log!Drain, Log!server
  <2>2. TaskDone(logSeen) => logSeen # Running
    BY Statuses
  <2> QED
    BY <1>1, <2>1, <2>2, PrintFromReads DEF LInv
<1>5. CASE Log!ReadStatus
  BY <1>1, <1>5, SameWords DEF Log!ReadStatus, Log!server, LInv
<1>6. CASE Log!Tick \/ Log!ReadFails
  BY <1>1, <1>6 DEF Log!Tick, Log!ReadFails, Log!server, LInv
<1>7. CASE logPc # "off" /\ Log!WriteLine
  <2>1. ~TaskStopped /\ written < MaxLines /\ written' = written + 1
        /\ UNCHANGED <<logPc, logFollow, logNext, logFetched, logSeen, logPrinted>>
    BY <1>7 DEF Log!WriteLine, Log!client
  <2> QED
    BY <1>1, <2>1, MaxLinesAssumption DEF LInv
<1> QED
  BY <1>2, <1>3, <1>4, <1>5, <1>6, <1>7 DEF LogStep, Log!Stream

\* A task that is over stays over, and as it ended.
LEMMA StoppedStays ==
    ASSUME IInv, TaskStopped, Prepare \/ Call \/ TaskStep \/ UNCHANGED cvars
    PROVE  TaskStopped'
<1> SUFFICES ASSUME task' # task PROVE FALSE
  BY DEF TaskStopped
<1>0. task # "none" /\ task # "running" /\ pc[Issuer] # "idle" /\ late = FALSE
      /\ cmd.todo = <<>>
  BY DEF TaskStopped, IInv, WInv, TypeOK, BeforeTheCall, CInv
<1>1. ~Prepare
  BY <1>0 DEF Prepare, CheckLocally, EnsureProvider, Resolve, Base, ClusterPath,
              NodeOrAuto, Confirm, Read, Doing
<1>2. ~Call
  BY <1>0 DEF Call, RawMutate, GuestPower, PrintAnswer, Doing
<1>3. ~(UNCHANGED cvars)
  BY DEF cvars, vars, server
<1>4. ~TaskStep
  BY <1>0 DEF TaskStep, FinishTask, PollStep, ReadStatus, PollLost, PollCancelled,
              PollRefused, Look, Tick, WaitTimesOut, Expire, Follow, LateStart, TaskEnds,
              server
<1> QED
  BY <1>1, <1>2, <1>3, <1>4

LEMMA LogInvariant == CommandSpec => []LInv
<1>1. CommandInit => LInv
  BY InitLInv
<1>2. LInv /\ IInv /\ [CommandNext]_cvars => LInv'
  <2> SUFFICES ASSUME LInv, IInv, [CommandNext]_cvars PROVE LInv'
    OBVIOUS
  <2>1. CASE LogStep
    BY <2>1, LogStepKeeps
  <2>2. CASE Prepare \/ Call \/ TaskStep \/ UNCHANGED cvars
    <3>1. UNCHANGED log
      BY <2>2 DEF Prepare, Quietly, Call, RawMutate, GuestPower, PrintAnswer, NotAnswered,
                  Sends, TaskStep, cvars
    <3>2. TaskStopped => TaskStopped'
      BY <2>2, StoppedStays
    <3> QED
      BY <3>1, <3>2 DEF LInv, log
  <2> QED
    BY <2>1, <2>2 DEF CommandNext
<1> QED
  BY <1>1, <1>2, Invariant, PTL DEF CommandSpec

\* For pages of any size, logs of any length and any task: what `task log`
\* prints is the beginning of the log, each line once and in order
\* (streamTaskLog and its cursor).
THEOREM LogNoLossNoDupHolds == CommandSpec => []LogNoLossNoDup
<1>1. LInv => LogNoLossNoDup
  BY DEF LInv, LogNoLossNoDup, Log!NoLossNoDup, Upto
<1> QED
  BY <1>1, LogInvariant, PTL

\* Under the same conditions a follow whose last page was not full has printed
\* the whole log: the status is read before the page.
THEOREM LogLastPageIsCompleteHolds == CommandSpec => []LogLastPageIsComplete
<1>1. ASSUME LInv PROVE LogLastPageIsComplete
  <2>1. Len(Upto(logNext - 1)) = logNext - 1
    BY <1>1 DEF LInv, Upto
  <2> QED
    BY <1>1, <2>1 DEF LInv, LogLastPageIsComplete, Log!LastPageIsComplete
<1> QED
  BY <1>1, LogInvariant, PTL

\* The call of the last step.
SInv == sent.call \in Calls \cup {"none"}

LEMMA SentInvariant == CommandSpec => []SInv
<1>1. NothingSent.call = "none"
  BY DEF NothingSent
<1>2. ASSUME CommandInit PROVE SInv
  <2>1. sent = NothingSent
    BY <1>2 DEF CommandInit
  <2> QED
    BY <1>1, <2>1 DEF SInv
<1>3. SInv /\ IInv /\ [CommandNext]_cvars => SInv'
  <2> SUFFICES ASSUME SInv, IInv, [CommandNext]_cvars PROVE SInv'
    OBVIOUS
  <2>1. CASE UNCHANGED cvars
    BY <2>1 DEF cvars, SInv
  <2>2. CASE sent' = NothingSent
    BY <1>1, <2>2 DEF SInv
  <2>3. CASE ~UNCHANGED cvars /\ sent' # NothingSent
    BY <2>3, CallIsOfTheHead DEF SInv
  <2> QED
    BY <2>1, <2>2, <2>3
<1> QED
  BY <1>2, <1>3, Invariant, PTL DEF CommandSpec

\* Types, with what they say of the run of a command: nothing is left to do
\* once the call is sent, a wait has no more failures in a row than it may
\* retry, and the cursor of a log is never more than a line past its end.
THEOREM CommandTypeOKHolds == CommandSpec => []CommandTypeOK
<1>1. ASSUME IInv, LInv, SInv PROVE CommandTypeOK
  <2>1. TypeOK /\ sent.call \in Calls \cup {"none"}
    BY <1>1 DEF IInv, WInv, SInv
  <2>2. cmd.todo # <<>> => pc[Issuer] = "idle" /\ task = "none"
    BY <1>1 DEF IInv, WInv, CInv, BeforeTheCall
  <2>3. cmd.guest.vmid \in Nat /\ cmd.listed \subseteq cmd.present
    BY <1>1 DEF IInv, CInv, IsCommand
  <2>4. ASSUME logPc # "off" PROVE Log!TypeOK
    <3>1. logNext - 1 \in Nat /\ logNext - 1 <= MaxLines /\ written \in Nat
      BY <1>1, MaxLinesAssumption DEF LInv
    <3>2. logPrinted \in Seq(1 .. MaxLines)
      BY <1>1, <3>1, MaxLinesAssumption DEF LInv, Upto
    <3>3. logNext \in 1 .. MaxLines + 1
      BY <1>1, MaxLinesAssumption DEF LInv
    <3>4. TaskStopped \in BOOLEAN
      BY DEF TaskStopped
    <3> QED
      BY <1>1, <2>4, <3>2, <3>3, <3>4, SameWords DEF LInv, Log!TypeOK
  <2> QED
    BY <2>1, <2>2, <2>3, <2>4 DEF CommandTypeOK
<1> QED
  BY <1>1, Invariant, LogInvariant, SentInvariant, PTL
=============================================================================
