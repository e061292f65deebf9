------------------------------- MODULE PgFeed -------------------------------
(***************************************************************************)
(* The aggregator and bolo2pg, with the threads of module Postgres between *)
(* the PUB socket and the database.  The other subscribers are as in       *)
(* module Feed.                                                            *)
(***************************************************************************)
EXTENDS Feed, Postgres

VARIABLE
    order        \* ghost: per state, the latest timestamp in a STATE PDU, and
                 \* whether each change of the code came with a later one

pgfvars == <<fvars, pg, order>>

PgFeedInit == FeedInit /\ PgInit /\ order = Nothing

\* The latest timestamp so far; p is in order unless it changes the code
\* without a later one, or is older than a PDU before it.
OrderAfter(p) ==
    IF p.name \notin DOMAIN shown THEN [top |-> p.ts, ok |-> TRUE]
    ELSE [top |-> IF p.ts > order[p.name].top THEN p.ts ELSE order[p.name].top,
          ok  |-> /\ order[p.name].ok /\ p.ts >= order[p.name].top
                  /\ p.code # shown[p.name].code => p.ts > order[p.name].top]

\* A PDU that is broadcast while bolo2pg is down is lost.
PgKernelStep ==
    /\ who = "pg"
    /\ Len(feed) + BagCardinality(inserts) + BagCardinality(staging) < MaxFlight
    /\ Next /\ ~BootDies /\ Observe
    /\ order' = [n \in DOMAIN order \cup SentNames |->
                    IF n \in SentNames THEN OrderAfter(PDU(n)) ELSE order[n]]
    /\ IF pg_up THEN \E b \in Broadcast : feed' = feed \o b
                ELSE UNCHANGED feed
    /\ UNCHANGED <<who, pg, subs>>

\* The dispatcher handles the next PDU.
PgFeedReceive ==
    /\ who = "pg" /\ feed # <<>>
    /\ PgReceive(Head(feed))
    /\ feed' = Tail(feed)
    /\ UNCHANGED <<vars, who, ghosts, order, subs>>

\* What the other threads do.  A PDU that was on its way to a bolo2pg that
\* stops is lost.
PgStep ==
    /\ who = "pg" /\ PgThreads
    /\ feed' = IF pg_up' THEN feed ELSE <<>>
    /\ UNCHANGED <<vars, who, ghosts, order, subs>>

\* Another subscriber than bolo2pg.
OtherStep == who # "pg" /\ FeedNext /\ UNCHANGED <<pg, order>>

PgFeedNext == PgKernelStep \/ PgFeedReceive \/ PgStep \/ OtherStep

PgFeedSpec == PgFeedInit /\ [][PgFeedNext]_pgfvars

----------------------------------------------------------------------------
(* What the database knows, when there is nothing left to be received.     *)

Status(n) == statstr(states[n].status)

\* What bolo2pg.8's skip strategy is for: whatever order the inserters work
\* in, however a transaction ends, and whatever was missed while bolo2pg was
\* down, once it has heard of a state again and no INSERT for it failed, the
\* table says what the aggregator says, as long as timestamps go up when the
\* code changes.
DatabaseConsistent ==
    who = "pg" /\ Arrived /\ PgQuiet =>
        \A n \in (seen \ failed) \cap DOMAIN states :
            order[n].ok => n \in DOMAIN table /\ table[n].status = Status(n)

\* "the states table (which tracks the current state of all things
\* monitored)": the same, whatever the timestamps are.
DatabaseCurrent ==
    who = "pg" /\ Arrived /\ PgQuiet =>
        \A n \in (seen \ failed) \cap DOMAIN states :
            n \in DOMAIN table /\ table[n].status = Status(n)

=============================================================================
