------------------------- MODULE MCDatabaseWriters -------------------------
EXTENDS DatabaseWriters, TLC

CONSTANTS d1, d2, small, large

E(id, dim) == [id |-> id, dim |-> dim]

(* No vectors at first, then vectors; a missing id; two dimensions in one  *)
(* list; one id twice.                                                     *)
SomeBatches == {<<E(d1, None)>>, <<E(d1, small), E(None, small)>>,
                <<E(d1, large), E(d2, small)>>, <<E(d2, small), E(d2, None), E(d1, small)>>}

Symmetric == Permutations(Calls)
=============================================================================
