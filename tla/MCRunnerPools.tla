--------------------------- MODULE MCRunnerPools ---------------------------
(* Model-checking instance of RunnerPools: one pool with one slot and one
   registration token, the first execution of a change and routed to it, the
   second an ordinary one. *)
EXTENDS RunnerPools, TLC

CONSTANTS p1, t1, f1, f2, w1, w2

OnePoolOf == t1 :> p1
TwoRegistrations == t1 :> 2
OneSlot == p1 :> 1
RoutedToFirst == [e \in ChangeBound |-> {p1}]
AllCapable == [e \in Executions |-> Pools]

(* Workers and installations are only compared for equality.               *)
WorkerSymmetry == Permutations(Workers) \cup Permutations(Fingerprints)
=============================================================================
