----------------------------- MODULE MCVarScope -----------------------------
(***************************************************************************)
(* VarScope on two names and two values.                                   *)
(***************************************************************************)
EXTENDS VarScope

CONSTANTS x, y, u, e

MCNames == {x, y}
MCValues == {u, e}

To(n, rhs) == [key |-> n, rhs |-> rhs]

MCPreAssigns == {<<>>, <<To(x, u)>>}
MCLists == {<<To(x, u)>>, <<To(y, u)>>, <<To(x, u), To(y, x)>>, <<To(y, x), To(x, u)>>}
MCTwice == MCLists \cup {<<To(x, u), To(x, e)>>}
=============================================================================
