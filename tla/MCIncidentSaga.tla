--------------------------- MODULE MCIncidentSaga ---------------------------
(* Instances of IncidentSaga for TLC.                                      *)
EXTENDS IncidentSaga, TLC

\* The POSTs report different things.
Reports == CHOOSE f \in [Poster -> Text] : \A g, h \in Poster : f[g] = f[h] => g = h

=============================================================================
