--------------------------- MODULE RecentRequests ---------------------------
(***************************************************************************)
(* What the gateway's request log promises: the MaxSize latest entries     *)
(* since the last Clear, oldest first.                                     *)
(***************************************************************************)
EXTENDS Integers, Sequences

CONSTANTS Entry, MaxSize

VARIABLE kept

Latest(s) == IF Len(s) > MaxSize THEN Tail(s) ELSE s

Init == kept = << >>

Log(e) == kept' = Latest(Append(kept, e))

Clear == kept' = << >>

Next == (\E e \in Entry : Log(e)) \/ Clear

Spec == Init /\ [][Next]_kept

=============================================================================
