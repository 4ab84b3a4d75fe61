-------------------------------- MODULE Booking --------------------------------
(***************************************************************************)
(* What the fleet service promises of vehicles whose requests come one     *)
(* after the other: a trip takes a vehicle that is on no trip, at one      *)
(* moment, and gives back the same one, once.                              *)
(***************************************************************************)
CONSTANTS Vehicle, Trip

VARIABLES
  on,     \* the trips each vehicle is on
  past    \* the trips that are over

Init ==
  /\ on = [v \in Vehicle |-> {}]
  /\ past = {}

Fresh(t) == t \notin past /\ \A v \in Vehicle : t \notin on[v]

Book(v, t) ==
  /\ on[v] = {} /\ Fresh(t)
  /\ on' = [on EXCEPT ![v] = {t}]
  /\ UNCHANGED past

GiveBack(v) ==
  /\ on[v] # {}
  /\ on' = [on EXCEPT ![v] = {}]
  /\ past' = past \cup on[v]

Next == \E v \in Vehicle : GiveBack(v) \/ \E t \in Trip : Book(v, t)

Spec == Init /\ [][Next]_<<on, past>>

=============================================================================
