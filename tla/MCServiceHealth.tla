--------------------------- MODULE MCServiceHealth ---------------------------
(* An instance of ServiceHealth for TLC: a service that waits for its       *)
(* database before it listens, one that does not, the one whose health is   *)
(* that of its database, and one without a database after all of them.      *)
EXTENDS ServiceHealth

FourServices == <<"volunteer", "shelter", "alert", "auth">>

=============================================================================
