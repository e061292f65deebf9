------------------------------- MODULE MCFeed -------------------------------
(***************************************************************************)
(* Instances of Feed and PgFeed for TLC.                                   *)
(***************************************************************************)
EXTENDS PgFeed

MCFreshness   == [n \in StateNames |-> 2]
MCStaleStatus == [n \in StateNames |-> 1]
MCWindow      == [n \in Metrics |-> 2]
MCTrimmed     == [v \in KeyValues |-> v]
MCBatches     == {[n |-> 1, min |-> 1, max |-> 1, sum |-> 1]}
MCNoPatterns  == {}

----------------------------------------------------------------------------
(* State constraint: each subscriber is fed with what it looks at, and the *)
(* kinds of datapoints that it treats apart are looked at one by one.      *)

Used == {n \in DOMAIN counters : counters[n].last_seen # 0}
        \cup DOMAIN samples \cup DOMAIN rates

Events == {r \in BagToSet(inserts) : r.kind = "EVENT"}

Unreported == \A n \in DOMAIN states : states[n].last_seen = 0

\* What is on its way to the database.
Flight == Len(feed) + BagCardinality(inserts) + BagCardinality(staging)

Relevant ==
    /\ who \in {"pg", "log", "redis"} => Used = {}
    /\ who \in {"cache", "sqlite"} => /\ Used \subseteq CounterNames
                                      /\ Used = {} \/ Unreported
    /\ who = "meta" => /\ Cardinality(Used) <= 1
                       /\ shown # Nothing => Used = {} /\ DOMAIN keys = {}
                       /\ Used # {} => DOMAIN keys = {}
    /\ who \notin {"redis", "meta"} => DOMAIN keys = {}
    /\ who = "redis" => Unreported
    /\ failed # {} => reboots = 0          \* one fault at a time
    /\ Flight > 2 => failed = {} /\ reboots = 0 /\ Cardinality(history) <= 1
    /\ Events # {} \/ pg_events # {} => Unreported

=============================================================================
