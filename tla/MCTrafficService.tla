-------------------------- MODULE MCTrafficService --------------------------
(* TrafficService on small sets of callers, gateway runs and owners.       *)
EXTENDS TrafficService, TLC

\* Callers, runs and owners are interchangeable.
MCSymmetry == Permutations(Callers) \cup Permutations(Runs) \cup Permutations(Owners)
=============================================================================
