--------------------------- MODULE MCInvertedIndex ---------------------------
(***************************************************************************)
(* Strings over a two-letter alphabet: "a" < "aa" < "ab" < "b", so that    *)
(* "a" is a proper prefix of two others and every operator's bound falls   *)
(* strictly inside, at, and outside the stored keys.                       *)
(***************************************************************************)
EXTENDS InvertedIndex

MCValues == {<<1>>, <<1, 1>>, <<1, 2>>, <<2>>}
=============================================================================
