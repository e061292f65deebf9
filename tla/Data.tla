-------------------------------- MODULE Data --------------------------------
(***************************************************************************)
(* The datapoints of the aggregator and the operations on them: the        *)
(* records of src/bolo.h and the functions of src/data.c.  Everything here *)
(* is a pure operator; the kernel (module Kernel) keeps tables of these    *)
(* records and calls the operators from its handlers.                      *)
(*                                                                         *)
(* A table is a function from the names the hash holds to their records.   *)
(* The machine's word sizes are constants, so that an instance can put the *)
(* rollovers within reach: U64 stands for 2^64, U32MAX for 0xffffffff and  *)
(* U16MAX for 0xffff.                                                      *)
(*                                                                         *)
(* A definition Bad_f is a faulty variant of the definition f after it. No *)
(* specification uses it: it stands for the mistake that a property of f   *)
(* has to notice.                                                          *)
(***************************************************************************)
EXTENDS Integers

CONSTANTS U64, U32MAX, U16MAX

ASSUME WordAssumption == /\ U64 \in Nat /\ U64 > 1
                         /\ U32MAX \in Nat /\ U16MAX \in Nat

PENDING == 4         \* after OK, WARNING, CRITICAL and UNKNOWN

Word == 0 .. (U64 - 1)

----------------------------------------------------------------------------
(* Hash tables: hash_set, hash_unset and the lookup behind every find_*.   *)

Put(tbl, name, rec) ==
    [n \in DOMAIN tbl \cup {name} |-> IF n = name THEN rec ELSE tbl[n]]

PutAll(tbl, recs) ==
    [n \in DOMAIN tbl \cup DOMAIN recs |->
        IF n \in DOMAIN recs THEN recs[n] ELSE tbl[n]]

Drop(tbl, names) == [n \in DOMAIN tbl \ names |-> tbl[n]]

\* A name is found if the hash has it or if some /regex/ directive matches
\* it; in the second case the lookup also creates its record.
Found(tbl, name, matched) == name \in DOMAIN tbl \/ name \in matched

Find(tbl, name, new) == IF name \in DOMAIN tbl THEN tbl[name] ELSE new

----------------------------------------------------------------------------
(* States.                                                                 *)

NewState(freshness, now) ==
    [status |-> PENDING, summary |-> "pending", last_seen |-> 0,
     expiry |-> freshness + now, stale |-> FALSE, ignore |-> FALSE]

----------------------------------------------------------------------------
(* Counters.                                                               *)

NewCounter == [last_seen |-> 0, value |-> 0, ignore |-> FALSE]

Bad_counter_reset(c) == [c EXCEPT !.value = 0]

counter_reset(c) == [c EXCEPT !.last_seen = 0, !.value = 0]

Bad_counter_data(c, ts, incr) ==
    [c EXCEPT !.last_seen = ts, !.value = c.value + incr]

\* value is a uint64_t and incr an int32_t: a decrement below zero wraps.
counter_data(c, ts, incr) ==
    [c EXCEPT !.last_seen = ts, !.value = (c.value + incr) % U64]

----------------------------------------------------------------------------
(* Samples.  The running mean and variance, which need division, are the   *)
(* subject of module Stats; the control of the kernel only needs these.    *)

NewSample == [last_seen |-> 0, n |-> 0, min |-> 0, max |-> 0, sum |-> 0,
              ignore |-> FALSE]

sample_reset(s) == [s EXCEPT !.last_seen = 0, !.n = 0, !.min = 0, !.max = 0,
                             !.sum = 0]

\* One call per value of the PDU; b sums the values up.
sample_data(s, b) ==
    [s EXCEPT !.min = IF s.n = 0 \/ b.min < s.min THEN b.min ELSE s.min,
              !.max = IF s.n = 0 \/ b.max > s.max THEN b.max ELSE s.max,
              !.sum = s.sum + b.sum,
              !.n   = s.n + b.n]

----------------------------------------------------------------------------
(* Rates.                                                                  *)

NewRate == [first_seen |-> 0, last_seen |-> 0, first |-> 0, last |-> 0,
            ignore |-> FALSE]

Bad_rate_reset(r) == [r EXCEPT !.last_seen = 0, !.first = 0, !.last = 0]

rate_reset(r) == [r EXCEPT !.first_seen = 0, !.last_seen = 0,
                           !.first = 0, !.last = 0]

rate_data(r, v) ==
    [r EXCEPT !.last = v, !.first = IF r.last_seen = 0 THEN v ELSE r.first]

Bad_rate_diff(r) ==
    (IF r.last >= r.first THEN r.last - r.first ELSE U16MAX - r.first + r.last)
    % U64

\* The increase of the source between the first and the last value, as a
\* uint64_t: a last value below the first one is taken for a rollover.
rate_diff(r) ==
    (CASE r.last >= r.first    -> r.last - r.first
       [] r.last < r.first /\ r.first < U16MAX  -> U16MAX - r.first + r.last
       [] r.last < r.first /\ r.first >= U16MAX -> U32MAX - r.first + r.last)
    % U64

\* A rate is a fraction <<numerator, denominator>>; a zero denominator is the
\* infinity or NaN that the division of doubles returns.
rate_calc(r, span) ==
    IF r.last_seen = 0 THEN <<0, 1>>
    ELSE <<rate_diff(r) * span, r.last_seen - r.first_seen>>

=============================================================================
