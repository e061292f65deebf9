------------------------------- MODULE Stats -------------------------------
(***************************************************************************)
(* The running statistics of a sample set: sample_reset and sample_data of *)
(* src/data.c with every field, fed any sequence of values and compared    *)
(* with the textbook definitions over the values of the open window.  The  *)
(* doubles are exact fractions here, so rounding is not part of the model. *)
(***************************************************************************)
EXTENDS Integers, Sequences, SequencesExt, FiniteSetsExt

CONSTANTS Values,        \* the values clients submit
          MaxValues      \* bound: values in one window

ASSUME StatsAssumption == Values \subseteq Int /\ MaxValues \in Nat

VARIABLES s,             \* the sample_t
          vals           \* history: the values since the last reset

----------------------------------------------------------------------------
(* Fractions <<p, q>> in lowest terms, q > 0.                              *)

Lowest(p, q) == LET d == Max({k \in 1..q : p % k = 0 /\ q % k = 0})
                IN  <<p \div d, q \div d>>
Whole(i)    == <<i, 1>>
Plus(x, y)  == Lowest(x[1] * y[2] + y[1] * x[2], x[2] * y[2])
Minus(x, y) == Plus(x, <<-y[1], y[2]>>)
Times(x, y) == Lowest(x[1] * y[1], x[2] * y[2])
Over(x, n)  == Lowest(x[1], x[2] * n)

----------------------------------------------------------------------------

SampleReset == [n |-> 0, min |-> 0, max |-> 0, sum |-> 0,
                 mean |-> Whole(0), var |-> Whole(0)]

\* Each value moves the mean by its share of the distance.
Bad_next_mean(mean, v, n) == Plus(mean, Over(Minus(Whole(v), mean), n + 1))

next_mean(mean, v, n) == Plus(mean, Over(Minus(Whole(v), mean), n))

SampleData(v) ==
    LET n    == s.n + 1
        mean == next_mean(s.mean, v, n)
    IN  [n    |-> n,
         min  |-> IF s.n = 0 \/ v < s.min THEN v ELSE s.min,
         max  |-> IF s.n = 0 \/ v > s.max THEN v ELSE s.max,
         sum  |-> s.sum + v,
         mean |-> mean,
         var  |-> Over(Plus(Times(Whole(n - 1), s.var),
                            Times(Minus(Whole(v), s.mean),
                                  Minus(Whole(v), mean))), n)]

StatsInit == s = [n |-> 0, min |-> 0, max |-> 0, sum |-> 0,
                  mean |-> Whole(0), var |-> Whole(0)] /\ vals = <<>>

Data(v) == /\ Len(vals) < MaxValues
           /\ s' = SampleData(v) /\ vals' = Append(vals, v)

Reset == vals # <<>> /\ s' = SampleReset /\ vals' = <<>>

StatsNext == Reset \/ \E v \in Values : Data(v)

----------------------------------------------------------------------------

SumOf(seq)  == FoldSeq(+, 0, seq)
Squares(seq) == [i \in DOMAIN seq |-> seq[i] * seq[i]]

\* The running mean and variance are the mean and the population variance of
\* the values since the last reset, in whatever order they came and however
\* often the set was reset before, although sample_data never sees the values
\* of a window together.
MomentsMatch ==
    LET n    == Len(vals)
        sum  == SumOf(vals)
    IN  IF n = 0 THEN s.mean = Whole(0) /\ s.var = Whole(0)
        ELSE /\ s.mean = Lowest(sum, n)
             /\ s.var = Lowest(n * SumOf(Squares(vals)) - sum * sum, n * n)

=============================================================================
