--------------------------- MODULE MCTripDispatch ---------------------------
(* TripDispatch for TLC: the identifiers of each kind are interchangeable.  *)
EXTENDS TripDispatch, TLC

Symmetry == Permutations(Vehicle \ Seeds) \cup Permutations(Volunteer)
              \cup Permutations(Trip) \cup Permutations(Incident)
              \cup Permutations(Request)
=============================================================================
