------------------------ MODULE MCApplicationEditor ------------------------
(***************************************************************************)
(* An instance of ApplicationEditor for TLC: one field, and two texts of   *)
(* the row that nothing tells apart.  The uploads write fields, the row's  *)
(* own requests write the row: the two are not under way together.         *)
(***************************************************************************)
EXTENDS ApplicationEditor, TLC

Symmetry == Permutations(RowText)

Apart == upload = {} \/ patches = {}
=============================================================================
