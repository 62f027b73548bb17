----------------------------- MODULE MCCommand -----------------------------
(* One command and one other that watches its task. On PVE: a VM and a     *)
(* container share a name, two VMs share a name and a node, and the id 1   *)
(* is a VM or, once that is gone, a container elsewhere. On PDM: the id 1  *)
(* is in both remotes, as a VM and as a VM or a container, and in a remote *)
(* whose name differs from one of theirs in letter case.                   *)
EXTENDS Command

CONSTANTS issuer, follower

OneFollower == {follower}
MCExitStatuses == {"OK", "WARNINGS: 1", "command failed"}

G(v, n, k, node, r) == [vmid |-> v, name |-> n, kind |-> k, node |-> node,
                        remote |-> r]

MCVmids == {1}
MCNames == {"web"}
MCNodes == {"n2"}
MCRemotes == {"r1"}
MCFold(r) == IF r = "R1" THEN "r1" ELSE r
MCGuests ==
    [pve |-> {G(1, "web", "qemu", "n1", ""), G(1, "db", "lxc", "n2", ""),
              G(2, "web", "lxc", "n2", ""), G(3, "web", "qemu", "n1", "")},
     pdm |-> {G(1, "web", "qemu", "n1", "r1"), G(1, "web", "qemu", "n2", "r2"),
              G(1, "db", "lxc", "n2", "r2"), G(2, "web", "lxc", "n1", "r1"),
              G(1, "db", "qemu", "n1", "R1")}]
=============================================================================
