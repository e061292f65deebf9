----------------------------- MODULE RateSource -----------------------------
(***************************************************************************)
(* A source that counts in a 32-bit word, and a rate that is told the word *)
(* now and then: rate_data, rate_calc and rate_reset of module Data        *)
(* against what the source really counted in the window.                   *)
(***************************************************************************)
EXTENDS Data

CONSTANTS Steps,         \* how much the source counts between two reports
          MaxTotal,      \* bound: the end of the source's count
          MaxTime        \* bound: the number of reports

ASSUME SourceAssumption ==
    /\ Steps \subseteq Nat /\ MaxTotal \in Nat /\ MaxTime \in Nat
    /\ 0 < U16MAX /\ U16MAX < U32MAX /\ U32MAX < U64

VARIABLES r,             \* the rate_t
          total,         \* all the source has counted, without rollover
          base,          \* total at the first report of the window
          time           \* the timestamp of the last report

SourceInit ==
    /\ r = NewRate /\ total \in 0..U32MAX /\ base = total /\ time = 1

\* The RATE handler, within one window.
Report(d) ==
    LET v == (total + d) % (U32MAX + 1)
    IN  /\ total + d <= MaxTotal /\ time < MaxTime
        /\ total' = total + d
        /\ base' = IF r.last_seen = 0 THEN total + d ELSE base
        /\ time' = time + 1
        /\ r' = [rate_data(r, v) EXCEPT
                    !.last_seen  = time + 1,
                    !.first_seen = IF @ = 0 THEN time + 1 ELSE @]

\* The window closes and its rate is broadcast.
Close == /\ r.last_seen # 0
         /\ r' = rate_reset(r)
         /\ UNCHANGED <<total, base, time>>

SourceNext == Close \/ \E d \in Steps : Report(d)

----------------------------------------------------------------------------

\* What the source has counted since the first report of the window.
Counted == total - base

\* As long as the source does not count almost a full 32-bit word in one
\* window, the increase that rate_calc() finds is never off by more than the
\* one count it loses when the word rolls over.
RateWithinOne ==
    r.last_seen # 0 /\ Counted <= U32MAX + 1 - U16MAX
        => Counted - rate_diff(r) \in {0, 1}

=============================================================================
