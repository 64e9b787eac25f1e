--------------------------- MODULE MCPagedMemory ----------------------------
(***************************************************************************)
(* Two pages of two words, bytes of two values.  The program uses the last *)
(* word of page 0 and the first of page 1 (addresses 4 to 11): neighbours  *)
(* in a word, across words and across pages, at every width and alignment. *)
(***************************************************************************)
EXTENDS PagedMemory

MCAccessed == {4, 5, 6, 7, 8, 11}

\* Words whose lanes tell the two halves and the two bytes of a half apart.
MCData == {[l \in Lane |-> IF l \in ones THEN 1 ELSE 0] : ones \in {{0, 3}, {1, 3}}}
=============================================================================
