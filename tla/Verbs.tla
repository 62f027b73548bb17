------------------------------- MODULE Verbs -------------------------------
(***************************************************************************)
(* The commands of internal/cli that reach the API, each as the steps its  *)
(* RunE takes, in the order of the code. A step is                         *)
(*   "args"      arguments, flags, prompts for secrets and local files are *)
(*               looked at: the command may end with an error of no kind   *)
(*   "provider"  a.Provider()                                              *)
(*   "pve","pdm" the other backend is refused                              *)
(*   "resolve"   resolveGuest, or ResolveGuest alone                       *)
(*   "base"      guestBase                                                 *)
(*   "node"      nodeOrAuto                                                *)
(*   "read"      a GET that the rest of the command needs                  *)
(*   "confirm"   the prompt                                                *)
(*   "nodes"     the path is a guest's below /nodes, which a PDM has not   *)
(* and the last step is the call, named for its method or for what it does.*)
(* What is sent besides the guest, and what is printed, is left out.       *)
(***************************************************************************)
EXTENDS Sequences, Providers

CONSTANTS
    Vmids,          \* ids that are typed
    Names,          \* guest names that are typed
    Nodes,          \* values of --node
    Remotes         \* values of --remote

\* No other number is the id of a guest.
ASSUME VmidsAssumption == Vmids \subseteq Nat \ {0}

NoArgs == [vmid |-> 0, name |-> Unset, kind |-> Unset, node |-> Unset,
           remote |-> Unset]

VM == {"qemu"}
CT == {"lxc"}
Typed == VM \cup CT
AnyNoun == Typed \cup {Unset}           \* `pc guest` has no kind

Backups == {"vzdump", "vzdumpDown"}     \* the latter in mode suspend or stop

\* A command on a guest: an id or a name, the kind of the noun, --node and,
\* where the command has the flag, --remote.
OnGuest(nouns, remotes, flags, steps) ==
    [takes |-> {a \in [vmid : Vmids \cup {0}, name : Names \cup {Unset},
                       kind : nouns, node : Nodes \cup {Unset},
                       remote : remotes \cup {Unset}] :
                    (a.vmid = 0) # (a.name = Unset)},
     flags |-> flags, steps |-> steps]

Does(flags, steps) == [takes |-> {NoArgs}, flags |-> flags, steps |-> steps]

(***************************************************************************)
(* guest.go, guest_lifecycle.go, guest_monitor.go.                         *)
(***************************************************************************)
\* confirm is called when the action is one of the destructive ones.
Power ==
    {OnGuest(AnyNoun, Remotes, TRUE, <<"provider", "resolve", action>>) :
        action \in {"start", "resume"}}
    \cup
    {OnGuest(AnyNoun, Remotes, TRUE, <<"provider", "resolve", "confirm", action>>) :
        action \in {"stop", "shutdown", "reboot", "suspend"}}

GuestList == Does(FALSE, <<"provider", "read">>)

\* The live status of `show` is added when it can be had.
Show == OnGuest(AnyNoun, Remotes, FALSE, <<"provider", "resolve", "read">>)

Status == OnGuest(AnyNoun, Remotes, FALSE, <<"provider", "resolve", "base", "read">>)

Monitor == OnGuest(Typed, Remotes, FALSE, <<"provider", "resolve", "base", "read">>)

Clone == OnGuest(Typed, {}, TRUE, <<"provider", "resolve", "args", "pve", "POST">>)

\* Fault: delete does not ask.
Delete_Unasked == OnGuest(Typed, {}, TRUE, <<"provider", "resolve", "pve", "DELETE">>)

Delete ==
    OnGuest(Typed, {}, TRUE, <<"provider", "resolve", "pve", "confirm", "DELETE">>)

Migrate ==
    OnGuest(Typed, Remotes, TRUE, <<"args", "provider", "resolve", "base", "POST">>)

ConfigShow == OnGuest(Typed, Remotes, FALSE, <<"provider", "resolve", "read">>)

\* `--set delete=<key>` removes the key, a disk or a network card among others.
ConfigSet ==
    {OnGuest(Typed, Remotes, FALSE, <<"provider", "resolve", "pve", "args", call>>) :
        call \in {"PUT", "clearField"}}

Create == Does(TRUE, <<"args", "provider", "pve", "args", "POST">>)

SnapshotCommands ==
    {OnGuest(Typed, Remotes, FALSE, <<"provider", "resolve", "base">> \o rest) :
        rest \in {<<"POST">>, <<"read">>, <<"confirm", "DELETE">>,
                  <<"confirm", "rollback">>}}

(***************************************************************************)
(* guest_extras.go: PDM is refused before the guest is looked up.          *)
(***************************************************************************)
OnPVEGuest(nouns, rest) ==
    OnGuest(nouns, Remotes, FALSE, <<"provider", "pve", "resolve", "base">> \o rest)

Resize == OnPVEGuest(Typed, <<"args", "PUT">>)
Template == OnPVEGuest(Typed, <<"confirm", "template">>)
Reset == OnPVEGuest(VM, <<"confirm", "reset">>)
MoveDisk == {OnPVEGuest(VM, <<"args", call>>) : call \in {"POST", "deleteSource"}}
Unlink == OnPVEGuest(VM, <<"args", "confirm", "unlink">>)
SendKey == OnPVEGuest(VM, <<"PUT">>)
MoveVolume == {OnPVEGuest(CT, <<"args", call>>) : call \in {"POST", "deleteSource"}}
CloudInit == {OnPVEGuest(VM, <<"PUT">>), OnPVEGuest(VM, <<"read">>)}
AgentRead == OnPVEGuest(VM, <<"read">>)
AgentPost == {OnPVEGuest(VM, <<call>>) : call \in {"POST", "agentShutdown"}}
AgentExec == OnPVEGuest(VM, <<"print">>)
AgentSetPassword == OnPVEGuest(VM, <<"args", "POST">>)

(***************************************************************************)
(* storage.go: volumes, uploads and backups.                               *)
(***************************************************************************)
StorageRead == Does(FALSE, <<"provider", "read">>)
ContentList == Does(FALSE, <<"args", "provider", "read">>)
ContentDelete == Does(FALSE, <<"args", "provider", "confirm", "DELETE">>)
StorageStatus == Does(FALSE, <<"provider", "node", "read">>)
PruneBackups ==
    {Does(FALSE, <<"args", "provider", "read">>),
     Does(FALSE, <<"args", "provider", "confirm", "DELETE">>)}

\* The body is a file that is streamed once.
Upload == Does(TRUE, <<"provider", "pve", "args", "node", "POST">>)

\* Any guest of that id, on the node where it was listed; a name is read as
\* the id 0, which no guest has. In the modes suspend
\* and stop the guest is down for a while.
BackupCreate ==
    {[takes |-> {[NoArgs EXCEPT !.vmid = v] : v \in Vmids \cup {0}}, flags |-> TRUE,
      steps |-> <<"args", "provider", "resolve", "nodes", call>>] :
        call \in Backups}
BackupList == Does(FALSE, <<"args", "provider", "node", "read">>)
BackupJobCreate == Does(FALSE, <<"provider", "args", "POST">>)
BackupJobDelete == Does(FALSE, <<"provider", "confirm", "DELETE">>)

(***************************************************************************)
(* node_network.go: changes are staged on the node until `apply`.          *)
(***************************************************************************)
NetworkRead == Does(FALSE, <<"provider", "read">>)
NetworkCreate == Does(FALSE, <<"provider", "pve", "args", "POST">>)
\* PVE requires the type, which is read and sent back.
NetworkUpdate == {Does(FALSE, <<"provider", "pve", "read", "args", call>>) :
                      call \in {"PUT", "clearField"}}
NetworkDelete == Does(FALSE, <<"provider", "pve", "confirm", "DELETE">>)
NetworkApply == Does(FALSE, <<"provider", "pve", "confirm", "apply">>)
NetworkRevert == Does(FALSE, <<"provider", "pve", "confirm", "DELETE">>)

(***************************************************************************)
(* node.go, task.go, pve_admin.go, pve_sdn.go, pve_ceph.go,                *)
(* pve_firewall.go.                                                        *)
(***************************************************************************)
anyGet == Does(FALSE, <<"provider", "read">>)
NodeRead == Does(FALSE, <<"provider", "read">>)
TaskRead == {Does(FALSE, <<"provider", "read">>), Does(FALSE, <<"provider", "args", "read">>)}
PoolCreate == Does(FALSE, <<"provider", "POST">>)
PoolDelete == Does(FALSE, <<"provider", "confirm", "DELETE">>)
\* `--remove` takes the members named out of the pool.
PoolUpdate == {Does(FALSE, <<"provider", "args", call>>) :
                   call \in {"PUT", "removeMembers"}}
HAAdd == Does(FALSE, <<"provider", "POST">>)
HARemove == Does(FALSE, <<"provider", "confirm", "DELETE">>)
NodeService ==
    {Does(FALSE, <<"provider", "POST">>),
     Does(FALSE, <<"provider", "confirm", "halt">>)}

SDNApply == Does(FALSE, <<"provider", "confirm", "apply">>)
SDNZoneCreate == Does(FALSE, <<"provider", "args", "POST">>)
SDNVnetCreate == Does(FALSE, <<"provider", "args", "POST">>)
SDNSubnetCreate == Does(FALSE, <<"provider", "args", "POST">>)
SDNSubnetDelete == Does(FALSE, <<"provider", "confirm", "DELETE">>)
SDNControllerCreate == Does(FALSE, <<"provider", "args", "POST">>)
sdnDelete == Does(FALSE, <<"provider", "confirm", "DELETE">>)
sdnRead == Does(FALSE, <<"provider", "read">>)

CephRead == Does(FALSE, <<"provider", "node", "read">>)
CephService ==
    {Does(FALSE, <<"provider", "args", "POST">>),
     Does(FALSE, <<"provider", "args", "confirm", "halt">>)}
OSDMark ==
    {Does(FALSE, <<"provider", "args", "POST">>),
     Does(FALSE, <<"provider", "args", "confirm", "rebalance">>)}
OSDDestroy == Does(FALSE, <<"provider", "args", "confirm", "DELETE">>)
CephPoolCreate == Does(FALSE, <<"provider", "args", "POST">>)
CephPoolDelete == Does(FALSE, <<"provider", "args", "confirm", "DELETE">>)

\* fwBase: the datacenter, a node, or a guest. A guest's kind is the flag's
\* when --node is given, and otherwise that of the guest that is found.
FirewallScopes(steps) ==
    {Does(FALSE, <<"provider">> \o steps),
     [takes |-> {a \in OnGuest(AnyNoun, {}, FALSE, <<>>).takes :
                    a.vmid # 0 /\ (a.kind = Unset) = (a.node = Unset)},
      flags |-> FALSE, steps |-> <<"provider", "args", "resolve", "nodes">> \o steps]}
FirewallRead == FirewallScopes(<<"read">>)
FirewallRuleAdd == FirewallScopes(<<"args", "POST">>)
FirewallRuleDelete == FirewallScopes(<<"confirm", "DELETE">>)

(***************************************************************************)
(* access_realm.go, pdm_access.go, and the groups that need a PDM.         *)
(***************************************************************************)
RealmCreate == Does(FALSE, <<"provider", "pve", "args", "POST">>)
RealmUpdate == {Does(FALSE, <<"provider", "pve", "args", call>>) :
                    call \in {"PUT", "clearField"}}
RealmDelete == Does(FALSE, <<"provider", "pve", "confirm", "DELETE">>)
RealmSync == Does(FALSE, <<"provider", "POST">>)
UserCreate == Does(FALSE, <<"provider", "args", "POST">>)
UserDelete == Does(FALSE, <<"provider", "confirm", "DELETE">>)
TokenCreate == Does(FALSE, <<"provider", "POST">>)
TokenDelete == Does(FALSE, <<"provider", "confirm", "DELETE">>)
\* `--delete` removes the entry.
ACLSet == {Does(FALSE, <<"provider", "args", call>>) : call \in {"PUT", "deleteACL"}}

simpleGet == Does(FALSE, <<"pdm", "read">>)
RemoteList == Does(FALSE, <<"pdm", "read">>)
RemoteAdd == Does(FALSE, <<"pdm", "args", "POST">>)
RemoteUpdate == {Does(FALSE, <<"pdm", "args", call>>) : call \in {"PUT", "clearField"}}
RemoteRemove == Does(FALSE, <<"pdm", "confirm", "DELETE">>)
RemoteClusterStatus == Does(FALSE, <<"pdm", "read">>)
RemoteUpdates == Does(FALSE, <<"pdm", "read">>)
ServerRealmCreate == Does(FALSE, <<"args", "pdm", "args", "POST">>)
ServerRealmDelete == Does(FALSE, <<"args", "pdm", "confirm", "DELETE">>)
ServerViewCreate == Does(FALSE, <<"pdm", "args", "POST">>)
ServerViewDelete == Does(FALSE, <<"pdm", "confirm", "DELETE">>)
ServerNotes == {Does(FALSE, <<"pdm", "PUT">>), Does(FALSE, <<"pdm", "read">>)}
SubKeyAdd == Does(FALSE, <<"pdm", "args", "POST">>)
SubKeyRemove == Does(FALSE, <<"pdm", "confirm", "DELETE">>)
ApplianceDelete == Does(FALSE, <<"pdm", "confirm", "DELETE">>)

(***************************************************************************)
(* raw.go and api.go: confirmWrite asks before any method but a read; what *)
(* the server answers is printed, a task id included. Above an endpoint     *)
(* `raw` lists what is below it and sends nothing, which is left out.      *)
(***************************************************************************)
Raw == {Does(FALSE, <<"args", "provider", "args", "read">>),
        Does(FALSE, <<"args", "provider", "args", "confirm", "raw">>)}
API == {Does(FALSE, <<"provider", "args", "read">>),
        Does(FALSE, <<"provider", "args", "confirm", "raw">>)}

Programs ==
    Power \cup SnapshotCommands \cup CloudInit \cup PruneBackups \cup NodeService
    \cup CephService \cup OSDMark \cup FirewallRead \cup FirewallRuleAdd
    \cup FirewallRuleDelete \cup ServerNotes \cup Raw \cup API
    \cup TaskRead \cup ConfigSet \cup MoveDisk \cup MoveVolume \cup AgentPost
    \cup BackupCreate \cup NetworkUpdate \cup PoolUpdate \cup RealmUpdate
    \cup ACLSet \cup RemoteUpdate \cup
    {GuestList, Show, Status, Monitor, Clone, Delete, Migrate, ConfigShow,
     Create, Resize, Template, Reset, Unlink, SendKey,
     AgentRead, AgentExec, AgentSetPassword, StorageRead, ContentList,
     ContentDelete, StorageStatus, Upload, BackupList, BackupJobCreate,
     BackupJobDelete, NetworkRead, NetworkCreate, NetworkDelete,
     NetworkApply, NetworkRevert, anyGet, PoolCreate, PoolDelete, HAAdd,
     HARemove, SDNApply, SDNZoneCreate, SDNVnetCreate, SDNSubnetCreate,
     SDNSubnetDelete, SDNControllerCreate, sdnDelete, sdnRead, NodeRead, CephRead, OSDDestroy,
     CephPoolCreate, CephPoolDelete, RealmCreate, RealmDelete, RealmSync,
     UserCreate, UserDelete, TokenCreate, TokenDelete, simpleGet, RemoteList,
     RemoteAdd, RemoteRemove, RemoteClusterStatus, RemoteUpdates,
     ServerRealmCreate, ServerRealmDelete, ServerViewCreate, ServerViewDelete,
     SubKeyAdd, SubKeyRemove, ApplianceDelete}

PowerActions == {"start", "resume", "stop", "shutdown", "reboot", "suspend"}

\* The calls that take something away or down and are sent without a prompt:
\* by a flag of a command that otherwise adds or copies, by a field that is
\* cleared in an edit, by the agent of the guest or for a backup.
Unasked == {"removeMembers", "deleteACL", "deleteSource", "clearField",
            "agentShutdown", "vzdumpDown"}

\* The calls that take something away, or take something down.
Destructive ==
    {"DELETE", "stop", "shutdown", "reboot", "suspend", "rollback", "template",
     "reset", "unlink", "apply", "halt", "rebalance", "raw"} \cup Unasked

Calls == Destructive \cup PowerActions \cup Backups \cup {"POST", "PUT", "print"}
=============================================================================
