-------------------------- MODULE MCTradeExecution --------------------------
(* Model-checking instances of TradeExecution. *)
EXTENDS TradeExecution, TLC

\* Bound: how many jobs are between their first and last step at the same time.
MaxBusy == 2
BusyBound == Cardinality({j \in Jobs : pc[j] # "idle"}) <= MaxBusy

Symmetry == Permutations(Replicas)

=============================================================================
