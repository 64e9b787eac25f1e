---------------------------- MODULE MCGuestHeap -----------------------------
(***************************************************************************)
(* Classes of 8, 16 and 24 bytes: the first has three blocks in a chunk by *)
(* the minimum of an allocation, the others two by the factor.             *)
(***************************************************************************)
EXTENDS GuestHeap

\* The largest of a class and the smallest of the next, and on both sides of what
\* is served.
MCSizes == {0, 4, 5, 20, 21}
=============================================================================
