-------------------------------- MODULE Fib ---------------------------------
(***************************************************************************)
(* fib.c: a program that prints a Fibonacci number, computed by a function *)
(* that calls itself twice.  Its calls are explicit: the stack has a frame *)
(* for each call that has not returned.                                    *)
(***************************************************************************)
EXTENDS Conversions

CONSTANT Arguments  \* the arguments after argv[0], in memory one after another

\* Strings: each ends with its NUL.  Memory after the last one is zero.
ASSUME FibAssumption ==
  \A args \in Arguments :
    /\ args \in Seq(Seq(0 .. 255))
    /\ \A i \in DOMAIN args :
         args[i] # <<>> /\ \A k \in DOMAIN args[i] : args[i][k] = NUL <=> k = Len(args[i])

VARIABLES
  args,    \* argv from argv[1] on
  phase,   \* "start", "call", "return", "stopped"
  stack,   \* a frame: the argument, and the result of fib(arg - 1), or NoResult
  result,  \* what the last call returned
  out      \* the characters printed

fibVars == <<args, phase, stack, result, out>>

NoResult == -1
Frame(arg) == [arg |-> arg, first |-> NoResult]

\* argv[1] as it lies in memory, in front of the other arguments.
InMemory == FlattenSeq(args) \o <<NUL, NUL>>

Message == <<"fib() missing arguments\n">>

FibInit ==
  /\ args \in Arguments
  /\ phase = "start" /\ stack = <<>> /\ result = 0 /\ out = <<>>

\* terminate never returns.
Missing ==
  /\ phase = "start" /\ args = <<>>
  /\ out' = Message
  /\ phase' = "stopped"
  /\ UNCHANGED <<args, stack, result>>

Start ==
  /\ phase = "start" /\ args # <<>>
  /\ out' = <<"fib(">> \o print_string(InMemory) \o <<") = ">>
  /\ stack' = <<Frame(str_to_uns(InMemory))>>
  /\ phase' = "call"
  /\ UNCHANGED <<args, result>>

Top == Last(stack)

Return(value) ==
  /\ result' = value
  /\ stack' = Front(stack)
  /\ phase' = "return"

\* Mutant: the base case tests for one only, so that fib(0) calls itself.
BaseOneOnly ==
  /\ phase = "call" /\ Top.arg < 2
  /\ IF Top.arg = 1
     THEN Return(1)
     ELSE stack' = Append(stack, Frame(UIntValues - 1)) /\ UNCHANGED <<phase, result>>
  /\ UNCHANGED <<args, out>>

Base ==
  /\ phase = "call" /\ Top.arg < 2
  /\ Return(Top.arg)
  /\ UNCHANGED <<args, out>>

CallFirst ==
  /\ phase = "call" /\ Top.arg >= 2
  /\ stack' = Append(stack, Frame(Top.arg - 1))
  /\ UNCHANGED <<args, phase, result, out>>

\* Mutant: the result of the first call is not kept while the second one runs.
CallSecondForgets ==
  /\ phase = "return" /\ stack # <<>> /\ Top.first = NoResult
  /\ stack' = Append(stack, Frame(Top.arg - 2))
  /\ phase' = "call"
  /\ UNCHANGED <<args, result, out>>

CallSecond ==
  /\ phase = "return" /\ stack # <<>> /\ Top.first = NoResult
  /\ stack' = Append(Front(stack), [Top EXCEPT !.first = result])
                \o <<Frame(Top.arg - 2)>>
  /\ phase' = "call"
  /\ UNCHANGED <<args, result, out>>

Add ==
  /\ phase = "return" /\ stack # <<>> /\ Top.first # NoResult
  /\ Return((Top.first + result) % UIntValues)
  /\ UNCHANGED <<args, out>>

\* The last call has returned: the result is printed, and main returns.
PrintResult ==
  /\ phase = "return" /\ stack = <<>>
  /\ out' = out \o print_string(uns_to_str(result).buffer) \o <<"\n">>
  /\ phase' = "stopped"
  /\ UNCHANGED <<args, stack, result>>

FibNext == Missing \/ Start \/ Base \/ CallFirst \/ CallSecond \/ Add \/ PrintResult

-----------------------------------------------------------------------------
\* The value of a text in the decimal system, characters that are no digits
\* included, modulo the width of an unsigned int.
ValueOfText(text) ==
  LET place[k \in 0 .. Len(text)] == IF k = 0 THEN 1 ELSE 10 * place[k - 1]
      sum[k \in 0 .. Len(text)] ==
        IF k = 0 THEN 0
        ELSE sum[k - 1] + (text[k] - ZeroChar) * place[Len(text) - k]
  IN  sum[Len(text)] % UIntValues

\* An empty argument has no characters of its own: its NUL is taken for one, and
\* the next argument for the rest.
Asked ==
  ValueOfText(IF Head(InMemory) = NUL /\ Len(args) > 1
              THEN <<NUL>> \o Front(args[2]) ELSE
              IF Head(InMemory) = NUL THEN <<NUL>> ELSE Front(args[1]))

Fibonacci[n \in Nat] ==
  IF n < 2 THEN n ELSE (Fibonacci[n - 1] + Fibonacci[n - 2]) % UIntValues

\* main of fib.c: what uns_to_str makes of fib's result, printed after the equals sign,
\* reads as the Fibonacci number of what str_to_uns makes of the argument.
PrintsFibonacci ==
  phase = "stopped" /\ args # <<>> =>
    LET answer == SubSeq(out, Len(print_string(InMemory)) + 3, Len(out) - 1)
    IN  /\ ValueOfText(answer) = Fibonacci[Asked]
        /\ \A k \in DOMAIN answer : answer[k] - ZeroChar \in 0 .. 9
        /\ Len(answer) > 1 => Head(answer) # ZeroChar

\* The stack, which nothing in the program limits, never holds more calls than the
\* number asked for (fib.c:5): no return leaves a frame behind.
DepthFollowsArgument == Len(stack) <= IF Asked < 2 THEN 1 ELSE Asked
=============================================================================
