------------------------------ MODULE Postgres ------------------------------
(***************************************************************************)
(* bolo2pg (src/bolo2pg/main.c) and the reconcile() function of its        *)
(* database (examples/schema/pg.sql).                                      *)
(*                                                                         *)
(* The dispatcher thread turns broadcast PDUs into insert requests, a pool *)
(* of inserter threads writes them to states_staging in whatever order     *)
(* they get to it, and at each TOCK the reconciler thread has the database *)
(* merge the oldest staged records, in one transaction, into the tables    *)
(* states (what is the case now) and history (what was the case when).     *)
(*                                                                         *)
(* The transaction is modelled record by record: table and history are     *)
(* what it sees, and saved is what the rest of the world sees until it     *)
(* ends.  A timestamp is a number; messages and the anomalies, which only  *)
(* people read, are left out.                                              *)
(***************************************************************************)
EXTENDS Integers, FiniteSets, Bags

CONSTANTS
    Limit,       \* the most records one reconcile() takes (LIMIT 500)
    MaxReboots   \* bound: how often bolo2pg is stopped

ASSUME PgAssumption == Limit \in Nat \ {0} /\ MaxReboots \in Nat

OK   == 0        \* the code "OK"
NULL_TS == -1    \* an ended_at that is NULL

VARIABLES
    pg_up,       \* bolo2pg is running
    reboots,     \* how often it stopped
    seen,        \* dispatcher_t.seen: the states heard of since the start
    inserts,     \* the insert requests on their way to, and at, the inserters
    staging,     \* states_staging
    table,       \* states
    history,
    batch,       \* the records that the running transaction has yet to merge
    taken,       \* those it has merged
    saved,       \* the tables as they were when it began, while it runs
    pg_events,   \* events
    failed       \* ghost: the states with an INSERT that failed since the start

pg == <<pg_up, reboots, seen, inserts, staging, table, history, batch, taken,
        saved, pg_events, failed>>

NoTables == [table |-> [n \in {} |-> 0], history |-> {}]

PgInit ==
    /\ pg_up = TRUE /\ reboots = 0 /\ seen = {}
    /\ inserts = EmptyBag /\ staging = EmptyBag
    /\ table = [n \in {} |-> 0] /\ history = {}
    /\ batch = EmptyBag /\ taken = EmptyBag
    /\ saved = NoTables
    /\ pg_events = {} /\ failed = {}

----------------------------------------------------------------------------
(* The dispatcher: _dispatcher_reactor.                                    *)

StateRow(p) == [kind |-> "STATE", name |-> p.name, status |-> p.code,
                ts |-> p.ts]
EventRow(p) == [kind |-> "EVENT", ts |-> p.event.ts]

Bad_Skipped(p) == p.code = OK

\* A STATE that says what the database knows already.
Skipped(p) == p.code = OK /\ p.name \in seen

Requests(p) ==
    CASE p.type = "STATE"      -> IF Skipped(p) THEN {} ELSE {StateRow(p)}
      [] p.type = "TRANSITION" -> {StateRow(p)}
      [] p.type = "EVENT"      -> {EventRow(p)}
      [] OTHER                 -> {}

PgReceive(p) ==
    /\ pg_up
    /\ seen' = IF p.type \in {"STATE", "TRANSITION"} THEN seen \cup {p.name}
                                                     ELSE seen
    /\ inserts' = inserts (+) SetToBag(Requests(p))
    /\ UNCHANGED <<pg_up, reboots, staging, table, history, batch, taken,
                   saved, pg_events, failed>>

----------------------------------------------------------------------------
(* The inserters: _inserter_reactor.  The requests are dealt out to several *)
(* threads, each with a connection of its own, so any of those on their    *)
(* way may be the next to be inserted.                                     *)

Insert ==
    \E r \in BagToSet(inserts) :
        /\ pg_up
        /\ inserts' = inserts (-) SetToBag({r})
        /\ IF r.kind = "STATE"
           THEN staging' = staging (+) SetToBag({r}) /\ UNCHANGED pg_events
           ELSE pg_events' = pg_events \cup {r.ts} /\ UNCHANGED staging
        /\ UNCHANGED <<pg_up, reboots, seen, table, history, batch, taken,
                       saved, failed>>

\* The INSERT fails: the request is counted as an error, and gone.
InsertFails ==
    \E r \in BagToSet(inserts) :
        /\ pg_up /\ r.kind = "STATE"
        /\ inserts' = inserts (-) SetToBag({r})
        /\ failed' = failed \cup {r.name}
        /\ UNCHANGED <<pg_up, reboots, seen, staging, table, history, batch,
                       taken, saved, pg_events>>

----------------------------------------------------------------------------
(* The reconciler: `SELECT reconcile()' at each TOCK.                      *)

\* Some of the oldest rows, as many as LIMIT allows.  (The first conjunct only
\* repeats what a subbag is: the proofs cannot open the library's definition.)
Oldest(b) ==
    {s \in SubBag(b) :
        /\ BagToSet(s) \subseteq BagToSet(b)
        /\ BagCardinality(s) = IF BagCardinality(b) < Limit
                               THEN BagCardinality(b) ELSE Limit
        /\ \A r \in BagToSet(s), q \in BagToSet(b (-) s) : r.ts <= q.ts}

Reconcile ==
    /\ pg_up /\ batch = EmptyBag /\ staging # EmptyBag
    /\ batch' \in Oldest(staging)
    /\ saved' = [table |-> table, history |-> history]
    /\ UNCHANGED <<pg_up, reboots, seen, inserts, staging, table, history,
                   taken, pg_events, failed>>

Newer(old, st) == old.last_seen < st.ts

\* The states table after st.
StatesAfter(st) ==
    LET old   == IF st.name \in DOMAIN table THEN table[st.name]
                 ELSE [status |-> st.status, first_seen |-> st.ts,
                       last_seen |-> st.ts]
        first == IF old.status # st.status THEN st.ts ELSE old.first_seen
        new   == IF Newer(old, st)
                 THEN [status |-> st.status, first_seen |-> first,
                       last_seen |-> st.ts]
                 ELSE old
    IN  [n \in DOMAIN table \cup {st.name} |->
            IF n = st.name THEN new ELSE table[n]]

OpenRow(st) == [name |-> st.name, status |-> st.status, started_at |-> st.ts,
                tentative_ended_at |-> st.ts, ended_at |-> NULL_TS]

\* The rows of history that st may continue, and the last of them to start.
Before(st) == {h \in history : h.name = st.name /\ h.started_at <= st.ts}

Bad_IsPrev(h, st) == h \in Before(st)

IsPrev(h, st) ==
    h \in Before(st) /\ \A g \in Before(st) : g.started_at <= h.started_at

\* Cases (B) and (C) need a row that is open and not yet known to last so long.
Extends(h, st) == h.ended_at = NULL_TS /\ h.tentative_ended_at < st.ts

Continued(h, st) == [h EXCEPT !.tentative_ended_at = st.ts]
Closed_at(h, st) == [h EXCEPT !.tentative_ended_at = st.ts, !.ended_at = st.ts]

HistoryAfter(st) ==
    \/ Before(st) = {} /\ history' = history \cup {OpenRow(st)}        \* (A)
    \/ \E h \in history :
        /\ IsPrev(h, st)
        /\ \/ /\ Extends(h, st) /\ h.status = st.status                \* (B)
              /\ history' = (history \ {h}) \cup {Continued(h, st)}
           \/ /\ Extends(h, st) /\ h.status # st.status                \* (C)
              /\ history' = (history \ {h})
                            \cup {Closed_at(h, st), OpenRow(st)}
           \/ ~Extends(h, st) /\ history' = history                \* an anomaly

\* The transaction merges the next record, in the order of the timestamps,
\* and commits after the last one.
MergeRow ==
    \E st \in BagToSet(batch) :
        LET rest == batch (-) SetToBag({st}) IN
        /\ \A q \in BagToSet(batch) : st.ts <= q.ts
        /\ batch' = rest
        /\ staging' = staging (-) SetToBag({st})
        /\ taken' = IF rest = EmptyBag THEN EmptyBag
                                       ELSE taken (+) SetToBag({st})
        /\ saved' = IF rest = EmptyBag THEN NoTables ELSE saved
        /\ table' = StatesAfter(st) /\ HistoryAfter(st)
        /\ UNCHANGED <<pg_up, reboots, seen, inserts, pg_events, failed>>

\* It is rolled back: the connection or the database failed.
RollBack ==
    /\ batch # EmptyBag
    /\ batch' = EmptyBag /\ taken' = EmptyBag /\ saved' = NoTables
    /\ staging' = staging (+) taken
    /\ table' = saved.table /\ history' = saved.history
    /\ UNCHANGED <<pg_up, reboots, seen, inserts, pg_events, failed>>

----------------------------------------------------------------------------
(* bolo2pg stops, and starts again with the database as it is.             *)

PgStop ==
    /\ pg_up /\ reboots < MaxReboots
    /\ pg_up' = FALSE /\ reboots' = reboots + 1
    /\ seen' = {} /\ inserts' = EmptyBag /\ failed' = {}
    /\ batch' = EmptyBag /\ taken' = EmptyBag /\ saved' = NoTables
    /\ staging' = staging (+) taken
    /\ IF batch = EmptyBag THEN UNCHANGED <<table, history>>
       ELSE table' = saved.table /\ history' = saved.history
    /\ UNCHANGED pg_events

PgBoot == /\ ~pg_up /\ pg_up' = TRUE
          /\ UNCHANGED <<reboots, seen, inserts, staging, table, history,
                         batch, taken, saved, pg_events, failed>>

PgThreads == \/ Insert \/ InsertFails \/ Reconcile \/ MergeRow \/ RollBack
             \/ PgStop \/ PgBoot

----------------------------------------------------------------------------

\* Nothing that was received is still on its way to the states table.
PgQuiet == pg_up /\ inserts = EmptyBag /\ staging = EmptyBag

\* However late and out of order the records arrive, the history of a state
\* is a sequence of periods: no two rows start at the same time (UNIQUE), no
\* row ends before it starts (both CHECKs), and a row ends, also tentatively,
\* before the next one starts.  So reconcile() never runs into a constraint,
\* which would roll it back at every TOCK from then on.
HistorySound ==
    /\ \A h \in history :
        /\ h.started_at <= h.tentative_ended_at
        /\ h.ended_at = NULL_TS \/ h.started_at <= h.ended_at
    /\ \A g, h \in history :
        g.name = h.name /\ g # h =>
            /\ g.started_at # h.started_at
            /\ g.started_at < h.started_at =>
                /\ g.tentative_ended_at <= h.started_at
                /\ g.ended_at = NULL_TS \/ g.ended_at <= h.started_at

=============================================================================
