------------------------------ MODULE GoodsStore ------------------------------
(***************************************************************************)
(* What dispatching promises of goods whose dispatches come one by one: a  *)
(* store from which each dispatch takes, at one moment, exactly what it    *)
(* confirms and no more than is there.  Only an error may take goods that  *)
(* nobody was sent.                                                        *)
(***************************************************************************)
EXTENDS Integers

CONSTANTS Goods, MaxQuantity

VARIABLE stock

Amount == 1..MaxQuantity

Nothing(state) == [state |-> state, quantity |-> 0, available |-> 0, sent |-> 0]

Kept(k, a, n) == [state |-> "kept", quantity |-> k, available |-> a, sent |-> n]

Init == stock = [x \in Goods |-> Nothing("none")]

Becomes(x, row) == stock' = [stock EXCEPT ![x] = row]

\* A stock of q, all of it available; what was removed does not come back.
Supply(x, q) ==
  /\ stock[x].state # "removed"
  /\ Becomes(x, Kept(q, q, 0))

Enough(x, q) == 0 < q /\ q <= stock[x].available

Take(x, q) ==
  /\ Enough(x, q)
  /\ Becomes(x, Kept(stock[x].quantity, stock[x].available - q, stock[x].sent + q))

Lose(x, q) ==
  /\ Enough(x, q)
  /\ Becomes(x, Kept(stock[x].quantity, stock[x].available - q, stock[x].sent))

Remove(x) ==
  /\ stock[x].state = "kept"
  /\ Becomes(x, Nothing("removed"))

Next ==
  \E x \in Goods :
     \/ \E q \in Amount : Supply(x, q)
     \/ \E q \in 1..stock[x].available : Take(x, q) \/ Lose(x, q)
     \/ Remove(x)

Spec == Init /\ [][Next]_stock

=============================================================================
