----------------------------- MODULE WalkForward -----------------------------
(***************************************************************************)
(* The division of M5 candles into training, validation and test sets      *)
(* (app/backtesting/walk_forward.py): chronological_split() and            *)
(* rolling_walk_forward_splits().                                          *)
(*                                                                         *)
(* A candle is its timestamp.  Candles follow each other at the regular    *)
(* distance or, over a closed market, at a longer one; the state is the    *)
(* data set, which grows by one candle per step.                           *)
(***************************************************************************)
EXTENDS Naturals, Sequences

CONSTANTS
    TrainBars, ValidationBars, TestBars, StepBars,
    Distances,      \* distances of consecutive candles
    MaxData         \* bound: candles

\* rolling_walk_forward_splits() raises otherwise.
ASSUME WindowAssumption ==
    /\ {TrainBars, ValidationBars, TestBars, StepBars} \subseteq Nat \ {0}
    /\ Distances \subseteq Nat \ {0}

VARIABLE m5

WalkInit == m5 = <<0, 1>>

Candle(d) ==
    /\ Len(m5) < MaxData
    /\ m5' = Append(m5, m5[Len(m5)] + d)

WalkDone == Len(m5) = MaxData /\ UNCHANGED m5

WalkNext == WalkDone \/ \E d \in Distances : Candle(d)

WalkSpec == WalkInit /\ [][WalkNext]_m5

-----------------------------------------------------------------------------

\* _slice_by_bounds(), as the indices of the candles
Slice(starts, ends) == {i \in DOMAIN m5 : m5[i] >= starts /\ m5[i] < ends}

\* _boundaries() and the three slices; the arguments count candles from the
\* start of the data.
Split(start, trainEnd, validationEnd, testEnd) ==
    LET step == m5[Len(m5)] - m5[Len(m5) - 1]
    IN  [train      |-> Slice(m5[start + 1], m5[trainEnd + 1]),
         validation |-> Slice(m5[trainEnd + 1], m5[validationEnd + 1]),
         test       |-> Slice(m5[validationEnd + 1], m5[testEnd] + step)]

Larger(a, b)  == IF a >= b THEN a ELSE b
Smaller(a, b) == IF a <= b THEN a ELSE b

\* chronological_split() with its default fractions
ChronologicalSplit ==
    LET n == Len(m5)
        trainEnd == Larger(1, (n * 6) \div 10)
        validationEnd == Smaller(Larger(trainEnd + 1, (n * 8) \div 10), n - 1)
    IN  Split(0, trainEnd, validationEnd, n)

\* Mutant: the validation set starts with the training set.
FoldFromStart(o) ==
    [Split(o, o + TrainBars, o + TrainBars + ValidationBars,
           o + TrainBars + ValidationBars + TestBars)
       EXCEPT !.validation = Slice(m5[o + 1], m5[o + TrainBars + ValidationBars + 1])]

Fold(o) ==
    Split(o, o + TrainBars, o + TrainBars + ValidationBars,
          o + TrainBars + ValidationBars + TestBars)

\* rolling_walk_forward_splits(): where the folds start
Offsets ==
    {o \in 0 .. Len(m5) - 1 :
        o % StepBars = 0 /\ o + TrainBars + ValidationBars + TestBars <= Len(m5)}

-----------------------------------------------------------------------------
(* Properties.                                                             *)

Before(A, B) == \A a \in A, b \in B : a < b

\* The chronological split puts every candle into exactly one of three sets
\* that are not empty and follow each other, wherever the market was closed.
SplitIsPartition ==
    Len(m5) >= 5 =>
        LET s == ChronologicalSplit
        IN  /\ s.train \cup s.validation \cup s.test = DOMAIN m5
            /\ {} \notin {s.train, s.validation, s.test}
            /\ Before(s.train, s.validation) /\ Before(s.validation, s.test)

TestBegins(o) == o + TrainBars + ValidationBars + 1

\* In every fold the test comes strictly after what the parameters were chosen on;
\* the sets before the test are exactly their numbers of consecutive candles from
\* the offset on, and the test has at least its candles.
FoldsInOrder ==
    \A o \in Offsets :
        LET f == Fold(o)
        IN  /\ Before(f.train, f.validation) /\ Before(f.validation, f.test)
            /\ f.train = o + 1 .. o + TrainBars
            /\ f.validation = o + TrainBars + 1 .. o + TrainBars + ValidationBars
            /\ TestBegins(o) .. o + TrainBars + ValidationBars + TestBars \subseteq f.test

\* chronological_split() puts every candle into exactly one of three sets in order,
\* and in every fold of rolling_walk_forward_splits() the test comes after what the
\* parameters were chosen on.
TestsComeLater == SplitIsPartition /\ FoldsInOrder

\* The test set of every fold has its width too.
FoldsHaveFixedWidth ==
    \A o \in Offsets :
        Fold(o).test = TestBegins(o) .. o + TrainBars + ValidationBars + TestBars

=============================================================================
