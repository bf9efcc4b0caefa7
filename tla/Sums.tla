-------------------------------- MODULE Sums --------------------------------
(***************************************************************************)
(* Sums over sequences of integers, written as a recursive function so     *)
(* that their laws can be proved by induction on the length.               *)
(***************************************************************************)
EXTENDS Integers, Sequences

\* SumUpTo(s)[n]: the sum of the first n elements
SumUpTo(s) ==
    LET upTo[n \in 0 .. Len(s)] == IF n = 0 THEN 0 ELSE upTo[n - 1] + s[n]
    IN  upTo

Sum(s) == SumUpTo(s)[Len(s)]

=============================================================================
