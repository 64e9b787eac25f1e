----------------------------- MODULE Benchmarks -----------------------------
(***************************************************************************)
(* The benchmark programs that need no files, fib.c and erat.c: a run of   *)
(* the simulator executes one of them.                                     *)
(***************************************************************************)
EXTENDS Fib, Sieve

VARIABLE program  \* which one

benchmarkVars == <<program, fibVars, eratVars>>

Init ==
  /\ program \in {"fib", "erat"}
  /\ FibInit /\ EratInit

Next ==
  \/ program = "fib" /\ FibNext /\ UNCHANGED <<program, eratVars>>
  \/ program = "erat" /\ EratNext /\ UNCHANGED <<program, fibVars>>

Spec == Init /\ [][Next]_benchmarkVars

\* One thread, which waits for nobody.
FairSpec == Spec /\ WF_benchmarkVars(Next)

-----------------------------------------------------------------------------
\* The recursion of fib (fib.c:5) unwinds for every argument, and the loops of erat.c
\* (12-19) pass every number, whatever is crossed out: both programs return.
Ends ==
  /\ program = "fib" => <>(phase = "stopped")
  /\ program = "erat" => <>(i = max \/ max < 2)
=============================================================================
