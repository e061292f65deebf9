---------------------------- MODULE Subscribers ----------------------------
(***************************************************************************)
(* What the smaller subscribers do with a PDU that the kernel broadcast:   *)
(* `bolo cache' (src/bolo/cmd_cache.c) with one client of its own,         *)
(* bolo2sqlite, bolo2log, bolo2meta and bolo2redis (src/bolo2*/main.c).    *)
(* Each of them is one thread that handles one PDU after the other, so     *)
(* each has one action that takes a PDU.                                   *)
(***************************************************************************)
EXTENDS Integers, Sequences, FiniteSets

CONSTANTS Logged,        \* the names that bolo2log's pattern matches
          MaxHangups     \* bound: how many SIGHUPs bolo2log gets

VARIABLES
    cached,      \* dispatcher_t.pdus: the last PDU stored under each name
    client,      \* the last STATE of each name that the cache's client got
    joined,      \* the client: "no", "yes", or "asked" once it sent a REPEAT
    rows,        \* bolo2sqlite: the table states
    tracked,     \* bolo2sqlite: the table datapoints
    logfd,       \* bolo2log: the log file is open
    reopen,      \* bolo2log: a SIGHUP asked for it to be opened again
    hangups,
    crashed,     \* bolo2log or bolo2redis died
    missed,      \* ghost: a line could not be logged, a SET was refused
    logged,      \* the last line in the log for each state
    counted,     \* bolo2meta: the metrics that it has incremented
    redis        \* the keys in redis

cachevars  == <<cached, client, joined>>
sqlitevars == <<rows, tracked>>
logvars    == <<logfd, reopen, hangups, crashed, missed, logged>>
subs       == <<cachevars, sqlitevars, logvars, counted, redis>>

Nothing == [n \in {} |-> 0]

\* f, with v at x.
With(f, x, v) == [y \in DOMAIN f \cup {x} |-> IF y = x THEN v ELSE f[y]]

SubsInit ==
    /\ cached = Nothing /\ client = Nothing /\ joined = "no"
    /\ rows = Nothing /\ tracked = Nothing
    /\ logfd = TRUE /\ reopen = FALSE /\ hangups = 0 /\ crashed = FALSE
    /\ missed = FALSE /\ logged = Nothing
    /\ counted = {} /\ redis = Nothing

MetricTypes == {"COUNTER", "SAMPLE", "RATE"}

----------------------------------------------------------------------------
(* bolo cache: relays every PDU, and keeps the last one for every name.    *)

Relay(p) == IF joined # "no" /\ p.type = "STATE"
            THEN client' = With(client, p.name, p)
            ELSE UNCHANGED client

Bad_Store(p) == IF p.type \in MetricTypes \cup {"STATE"}
                   /\ p.name \notin DOMAIN cached
                THEN With(cached, p.name, p) ELSE cached

Store(p) == IF p.type \in MetricTypes \cup {"STATE"}
            THEN With(cached, p.name, p) ELSE cached

CacheReceive(p) == Relay(p) /\ cached' = Store(p) /\ UNCHANGED joined

\* A client subscribes, and gets what is relayed from now on.
Join == joined = "no" /\ joined' = "yes" /\ UNCHANGED <<cached, client>>

\* A REPEAT on the listener: everything is sent again.
Repeat ==
    LET old == {n \in DOMAIN cached : cached[n].type = "STATE"} IN
    /\ joined = "yes" /\ joined' = "asked"
    /\ client' = [n \in DOMAIN client \cup old |->
                    IF n \in old THEN cached[n] ELSE client[n]]
    /\ UNCHANGED cached

----------------------------------------------------------------------------
(* bolo2sqlite.  CHECK (last_seen >= first_seen) refuses some updates.     *)

Bad_FirstSeen(row, p) == p.ts

\* s_insert_state: the time at which the code was first the one of p.
FirstSeen(row, p) == IF row.status = p.code THEN row.first_seen ELSE p.ts

s_insert_state(p) ==
    LET first == IF p.name \in DOMAIN rows THEN FirstSeen(rows[p.name], p)
                                           ELSE p.ts
    IN  IF first <= p.ts
        THEN With(rows, p.name, [status |-> p.code, first_seen |-> first,
                                 last_seen |-> p.ts])
        ELSE rows

\* The UPDATE goes by the name alone.
s_track_datapoint(p) ==
    IF p.name \notin DOMAIN tracked
    THEN With(tracked, p.name, [type |-> p.type, first_seen |-> p.ts,
                                last_seen |-> p.ts])
    ELSE IF tracked[p.name].first_seen <= p.ts
         THEN [tracked EXCEPT ![p.name].last_seen = p.ts]
         ELSE tracked

SqliteReceive(p) ==
    /\ rows'    = IF p.type = "STATE" THEN s_insert_state(p) ELSE rows
    /\ tracked' = IF p.type \in MetricTypes THEN s_track_datapoint(p)
                                            ELSE tracked

----------------------------------------------------------------------------
(* bolo2log, with its log in a file and without --all.                     *)

Line(p) == IF p.name \in Logged
           THEN With(logged, p.name, [stale |-> p.stale, code |-> p.code])
           ELSE logged

sighup_handler == /\ ~crashed /\ hangups < MaxHangups
                  /\ hangups' = hangups + 1 /\ reopen' = TRUE
                  /\ UNCHANGED <<logfd, crashed, missed, logged>>

Bad_Reopen(p) == /\ reopen /\ logfd
                 /\ reopen' = FALSE
                 /\ UNCHANGED <<logfd, hangups, crashed, missed, logged>>

\* s_log: the file is opened again, and the line goes there.
Reopen(p) == /\ reopen /\ logfd
             /\ reopen' = FALSE /\ logged' = Line(p)
             /\ UNCHANGED <<logfd, hangups, crashed, missed>>

\* It cannot be opened: the line is lost, and it will be tried again.
ReopenFails == /\ reopen /\ logfd
               /\ logfd' = FALSE /\ missed' = TRUE
               /\ UNCHANGED <<reopen, hangups, crashed, logged>>

\* The next time, fclose() gets the NULL that fopen() returned.
ReopenAgain == /\ reopen /\ ~logfd
               /\ crashed' = TRUE
               /\ UNCHANGED <<logfd, reopen, hangups, missed, logged>>

LogLine(p) == /\ ~reopen
              /\ logged' = Line(p)
              /\ UNCHANGED <<logfd, reopen, hangups, crashed, missed>>

LogReceive(p) ==
    /\ ~crashed
    /\ IF p.type = "TRANSITION"
       THEN Reopen(p) \/ ReopenFails \/ ReopenAgain \/ LogLine(p)
       ELSE UNCHANGED logvars

----------------------------------------------------------------------------
(* bolo2meta: counts the PDUs by type, and those with a wrong number of    *)
(* frames apart.                                                           *)

\* The frames of a PDU as the broadcast_* functions of the kernel make it.
pdu_size(p) ==
    CASE p.type = "COUNTER"                 -> 4
      [] p.type = "SAMPLE"                  -> 9
      [] p.type = "RATE"                    -> 5
      [] p.type \in {"STATE", "TRANSITION"} -> 6
      [] p.type = "EVENT"                   -> 4
      [] p.type = "SET.KEYS"                -> 1 + 2 * Cardinality(DOMAIN p.pairs)

Bad_WellFormed(p) == p.type = "SET.KEYS" => pdu_size(p) = 3

\* The frames that bolo2meta expects.
WellFormed(p) ==
    /\ p.type = "COUNTER"    => pdu_size(p) = 4
    /\ p.type = "SAMPLE"     => pdu_size(p) = 9
    /\ p.type = "RATE"       => pdu_size(p) = 5
    /\ p.type = "STATE"      => pdu_size(p) = 6
    /\ p.type = "TRANSITION" => pdu_size(p) = 6
    /\ p.type = "EVENT"      => pdu_size(p) = 4
    /\ p.type = "SET.KEYS"   => pdu_size(p) % 2 = 1 /\ pdu_size(p) >= 3

MetaReceive(p) ==
    counted' = counted \cup {[bogon |-> ~WellFormed(p), type |-> p.type]}

----------------------------------------------------------------------------
(* bolo2redis: SETs the pairs of a SET.KEYS one by one.                    *)

\* redis, with the pairs of p for the keys in S set.
SetAll(p, S) == [k \in DOMAIN redis \cup S |->
                    IF k \in S THEN p.pairs[k] ELSE redis[k]]

Bad_RedisSet(p) == /\ redis' = SetAll(p, DOMAIN p.pairs \ DOMAIN redis)
                   /\ UNCHANGED <<crashed, missed>>

\* An error in the reply, to one SET or to several, is only logged.
RedisSet(p) == \E S \in SUBSET DOMAIN p.pairs :
                    /\ redis' = SetAll(p, S)
                    /\ missed' = (missed \/ S # DOMAIN p.pairs)
                    /\ UNCHANGED crashed

\* The connection breaks: redisCommand() returns a NULL that is dereferenced.
RedisBreaks(p) == /\ \E S \in SUBSET DOMAIN p.pairs \ {DOMAIN p.pairs} :
                        redis' = SetAll(p, S)
                  /\ crashed' = TRUE /\ UNCHANGED missed

RedisReceive(p) ==
    /\ ~crashed
    /\ IF p.type = "SET.KEYS" THEN RedisSet(p) \/ RedisBreaks(p)
                              ELSE UNCHANGED <<redis, crashed, missed>>

=============================================================================
