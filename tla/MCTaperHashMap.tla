--------------------------- MODULE MCTaperHashMap ---------------------------
(***************************************************************************)
(* Six keys: a and b have the same hash; c has the home of a at up to four  *)
(* chunks and a neighbouring tag; d shares home and tag with a at any size; *)
(* the hash of e is the filling of an empty slot; f is at home in the last  *)
(* chunk of two or four, so that probes wrap around.                        *)
(***************************************************************************)
EXTENDS TaperHashMap

CONSTANTS a, b, c, d, e, f

MCKeys == {a, b, c, d, e, f}
MCHashOf == [k \in MCKeys |->
    CASE k \in {a, b} -> 1
      [] k = c -> 5
      [] k = d -> 17
      [] k = e -> 4
      [] k = f -> 3]
=============================================================================
