----------------------------- MODULE Providers -----------------------------
(***************************************************************************)
(* How a guest is found from the arguments of a command, and the path its  *)
(* call is sent to: internal/provider/pve, internal/provider/pdm and the   *)
(* first half of internal/cli/guest.go, as operators on what a listing     *)
(* returned.                                                               *)
(*                                                                         *)
(* A guest is a record of its id, name, kind, node and remote; the remote  *)
(* is empty on PVE, which is one cluster. A vmid is a number, 0 where the  *)
(* argument is a name. Strings that are not given are empty.               *)
(***************************************************************************)
EXTENDS Naturals, FiniteSets

CONSTANT Fold(_)        \* the name of a remote without its letter case

Unset == ""

\* strings.EqualFold, by which --remote is compared.
EqualFold(r, s) == Fold(r) = Fold(s)

NoGuest == [vmid |-> 0, name |-> Unset, kind |-> Unset, node |-> Unset,
            remote |-> Unset]

(***************************************************************************)
(* Listings: the guests of /cluster/resources (PVE), or the guests of the  *)
(* groups of /resources/list, one group per remote (PDM). A group of a     *)
(* remote that cannot be reached has an error and no guests.               *)
(***************************************************************************)
\* The error of a group is decoded and not looked at.
ListedGuests(guests, down) == {g \in guests : g.remote \notin down}

\* Fault: the filter by kind is forgotten.
ListGuests_AnyKind(rows, kind, node) ==
    {g \in rows : node \in {Unset, g.node}}

ListGuests(rows, kind, node) ==
    {g \in rows : kind \in {Unset, g.kind} /\ node \in {Unset, g.node}}

(***************************************************************************)
(* The result of a resolution: a guest, or the kind of the error, "local"  *)
(* for an error of no kind. A resolution is the set of its results, since  *)
(* the order of a listing may decide.                                      *)
(***************************************************************************)
Found(g) == [error |-> "ok", guest |-> g]
Failed(kind) == [error |-> kind, guest |-> NoGuest]

\* Fault: the first of several matches is taken.
TheOnly_First(matches) ==
    IF matches = {} THEN Failed("NotFound")
    ELSE Found(CHOOSE g \in matches : TRUE)

\* No match, one match, many: ResolveGuest and resolveGuestByName agree.
TheOnly(matches) ==
    CASE matches = {}              -> Failed("NotFound")
      [] Cardinality(matches) = 1  -> Found(CHOOSE g \in matches : TRUE)
      [] OTHER                     -> Failed("Conflict")

ResolveGuest(rows, vmid) ==
    TheOnly({g \in ListGuests(rows, Unset, Unset) : g.vmid = vmid})

\* The first match of the listing is taken: any, where the names of several
\* remotes differ in letter case only.
ResolveGuestInRemote(rows, vmid, remote) ==
    LET matches == {g \in ListGuests(rows, Unset, Unset) :
                        g.vmid = vmid /\ EqualFold(g.remote, remote)}
    IN IF matches = {} THEN {Failed("NotFound")}
       ELSE {Found(g) : g \in matches}

\* A remote is not given, or is that of the guest but for letter case.
InRemote(remote, g) == remote = Unset \/ EqualFold(g.remote, remote)

resolveGuestByName(rows, args) ==
    TheOnly({g \in ListGuests(rows, args.kind, args.node) :
                g.name = args.name /\ InRemote(args.remote, g)})

\* Fault: the kind that was resolved is not compared with the noun.
enforceKind_Any(kind, r) == r

\* `pc vm` and `pc ct` refuse a guest of the other kind.
enforceKind(kind, r) ==
    IF r.error = "ok" /\ kind \notin {Unset, r.guest.kind} THEN Failed("local")
    ELSE r

\* --node overrides the node that was resolved.
atNode(node, r) ==
    IF r.error = "ok" /\ node # Unset THEN [r EXCEPT !.guest.node = node] ELSE r

\* With a typed noun and --node nothing is looked up.
LooksUp(args) == args.vmid = 0 \/ args.node = Unset \/ args.kind = Unset

resolveGuest(provider, rows, args) ==
    CASE args.vmid = 0       -> {resolveGuestByName(rows, args)}
      [] ~LooksUp(args)      -> {Found([vmid |-> args.vmid, name |-> Unset,
                                        kind |-> args.kind, node |-> args.node,
                                        remote |-> args.remote])}
      [] args.remote # Unset /\ provider = "pve" /\ args.vmid # 0 /\ LooksUp(args)
                             -> {Failed("local")}
      [] OTHER ->
            {atNode(args.node, enforceKind(args.kind, r)) : r \in
                IF args.remote = Unset THEN {ResolveGuest(rows, args.vmid)}
                ELSE ResolveGuestInRemote(rows, args.vmid, args.remote)}

(***************************************************************************)
(* Paths.                                                                  *)
(***************************************************************************)
\* PVE addresses a guest by its node, PDM by its remote; without a remote
\* guestBase and GuestPower of PDM fail.
HasBase(provider, g) == provider = "pve" \/ g.remote # Unset

guestBase(provider, g) ==
    [vmid |-> g.vmid, kind |-> g.kind,
     node |-> IF provider = "pve" THEN g.node ELSE Unset,
     remote |-> IF provider = "pdm" THEN g.remote ELSE Unset]

\* The guest a path leads to when the server looks: the guest of that id and
\* kind, on that node or in that remote.
LeadsTo(provider, path, g) ==
    /\ g.vmid = path.vmid
    /\ path.kind \in {Unset, g.kind}
    /\ IF provider = "pve" THEN g.node = path.node ELSE g.remote = path.remote

\* PDM hands on these power actions only.
PDMPowerActions == {"start", "stop", "shutdown", "resume"}
=============================================================================
