--------------------------- MODULE MCReliefSupply ---------------------------
(* Instances of ReliefSupply for TLC.                                      *)
EXTENDS ReliefSupply, TLC

Symmetry == Permutations(OneByOne) \cup Permutations(Resource \ OneByOne)
              \cup Permutations(Dispatcher) \cup Permutations(Request)

=============================================================================
