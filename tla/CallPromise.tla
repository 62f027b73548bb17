---------------------------- MODULE CallPromise ----------------------------
(***************************************************************************)
(* What `pc` promises about one state-changing API call, whatever happens  *)
(* to the connection: the server runs it at most once, and the exit code   *)
(* tells the caller apart the three things that can be known of it.        *)
(*   "applied"  it ran                                                     *)
(*   "refused"  it did not run and never will                              *)
(*   "unknown"  it may have run, or may still run                          *)
(* Transport implements this specification.                                *)
(***************************************************************************)
EXTENDS Naturals

CONSTANT Mutations          \* the state-changing calls

VARIABLES runs,             \* how many times the server ran each call
          verdict           \* what the caller was told

vars == <<runs, verdict>>

Verdicts == {"idle", "pending", "applied", "refused", "unknown"}

Init ==
    /\ runs = [m \in Mutations |-> 0]
    /\ verdict = [m \in Mutations |-> "idle"]

Ask(m) ==
    /\ verdict[m] = "idle"
    /\ verdict' = [verdict EXCEPT ![m] = "pending"]
    /\ UNCHANGED runs

Run(m) ==
    /\ runs[m] = 0
    /\ verdict[m] \in {"pending", "unknown"}
    /\ runs' = [runs EXCEPT ![m] = 1]
    /\ UNCHANGED verdict

Tell(m, v) ==
    /\ verdict[m] = "pending"
    /\ v = "applied" => runs[m] = 1
    /\ v = "refused" => runs[m] = 0
    /\ verdict' = [verdict EXCEPT ![m] = v]
    /\ UNCHANGED runs

Next ==
    \E m \in Mutations :
        \/ Ask(m)
        \/ Run(m)
        \/ \E v \in {"applied", "refused", "unknown"} : Tell(m, v)

Safe == Init /\ [][Next]_vars

Spec ==
    /\ Safe
    /\ \A m \in Mutations :
          WF_vars(\E v \in {"applied", "refused", "unknown"} : Tell(m, v))
=============================================================================
