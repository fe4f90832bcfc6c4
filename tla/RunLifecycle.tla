---------------------------- MODULE RunLifecycle ----------------------------
(***************************************************************************)
(* What the sync run queue promises its callers, independent of tables,    *)
(* leases and clocks.  A run is submitted once, executed in numbered terms *)
(* (a new term for every executor that picks it up), and settled at most   *)
(* once; a run whose executor vanished goes back to waiting; a run may be  *)
(* removed together with its account.                                      *)
(***************************************************************************)
EXTENDS Naturals

CONSTANT Runs              \* the run ids that will ever be used

VARIABLES phase,           \* phase of every run
          term             \* number of executors that have picked the run up

lifecycleVars == <<phase, term>>

Phases == {"unused", "waiting", "running", "settled", "removed"}

LifecycleInit ==
    /\ phase = [r \in Runs |-> "unused"]
    /\ term = [r \in Runs |-> 0]

Submit(r) ==
    /\ phase[r] = "unused"
    /\ phase' = [phase EXCEPT ![r] = "waiting"]
    /\ UNCHANGED term

(* A waiting run is started, or a running one is taken over. *)
Start(r) ==
    /\ phase[r] \in {"waiting", "running"}
    /\ phase' = [phase EXCEPT ![r] = "running"]
    /\ term' = [term EXCEPT ![r] = @ + 1]

(* The executors of the runs in S are gone: all of S waits again. *)
Requeue(S) ==
    /\ \A r \in S : phase[r] = "running"
    /\ phase' = [r \in Runs |-> IF r \in S THEN "waiting" ELSE phase[r]]
    /\ UNCHANGED term

Settle(r) ==
    /\ phase[r] = "running"
    /\ phase' = [phase EXCEPT ![r] = "settled"]
    /\ UNCHANGED term

Remove(S) ==
    /\ \A r \in S : phase[r] # "unused"
    /\ phase' = [r \in Runs |-> IF r \in S THEN "removed" ELSE phase[r]]
    /\ UNCHANGED term

LifecycleNext ==
    \/ \E r \in Runs : Submit(r) \/ Start(r) \/ Settle(r)
    \/ \E S \in SUBSET Runs : Requeue(S) \/ Remove(S)

LifecycleSpec == LifecycleInit /\ [][LifecycleNext]_lifecycleVars
=============================================================================
