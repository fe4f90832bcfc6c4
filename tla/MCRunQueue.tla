----------------------------- MODULE MCRunQueue -----------------------------
(* Model checking of RunQueue: two runs, two accounts, two daemons.  *)
EXTENDS RunQueue, TLC

Symmetry == Permutations(Runs) \cup Permutations(Accounts)
=============================================================================
