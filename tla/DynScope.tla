------------------------------ MODULE DynScope ------------------------------
(***************************************************************************)
(* Dynamic scoping, as a script sees it.  cells[1] is the global layer;    *)
(* every call in progress adds two, an even one for the assignments in     *)
(* front of the call and an odd one for its `local` names.  A name means   *)
(* its newest cell, and leaving the call takes away the two layers of the  *)
(* call and nothing else.                                                  *)
(***************************************************************************)
EXTENDS Naturals, Sequences, FiniteSetsExt, Functions

CONSTANTS Names, Values, Unset, MaxDepth

VARIABLE cells      \* layers of cells: name -> value, or Unset

Layer(V) == UNION {[S -> V] : S \in SUBSET Names}

(* The layer a name means when the layers are c.                           *)
Newest(c, n) == Max({k \in DOMAIN c : n \in DOMAIN c[k]})

Set(layer, n, v) ==
  [m \in DOMAIN layer \cup {n} |-> IF m = n THEN v ELSE layer[m]]

(* Writing goes to the newest cells.                                       *)
Written(c, new) ==
  [k \in DOMAIN c |-> [n \in DOMAIN c[k] |->
     IF n \in DOMAIN new /\ k = Newest(c, n) THEN new[n] ELSE c[k][n]]]

Init == cells \in {<<globals>> : globals \in [Names -> Values \cup {Unset}]}

Assign == LET c == cells IN \E new \in Layer(Values) : cells' = Written(c, new)

Call == LET c == cells
        IN  /\ Len(c) < 2 * MaxDepth
            /\ \E prefix \in Layer(Values) : cells' = c \o << prefix, <<>> >>

Return == LET c == cells
          IN  Len(c) > 1 /\ cells' = SubSeq(c, 1, Len(c) - 2)

Local(n) == LET c == cells
            IN  /\ Len(c) > 1
                /\ \E v \in Values : cells' = [c EXCEPT ![Len(c)] = Set(@, n, v)]

(* A callee that unsets its caller's local takes the cell itself away: the *)
(* name means the next older cell from then on.                            *)
CallersLocal(c, n) == {k \in 2 .. Len(c) - 1 : k % 2 = 1 /\ n \in DOMAIN c[k]}

Remove(n) ==
  LET c == cells
      mine == Len(c) = 1 \/ n \in DOMAIN c[Len(c)]
  IN  IF mine \/ CallersLocal(c, n) = {} THEN cells' = Written(c, [m \in {n} |-> Unset])
      ELSE cells' = [c EXCEPT ![Max(CallersLocal(c, n))] = Restrict(@, DOMAIN @ \ {n})]

Next == \/ Assign \/ Call \/ Return
        \/ \E n \in Names : Local(n) \/ Remove(n)

Spec == Init /\ [][Next]_cells
=============================================================================
