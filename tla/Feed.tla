-------------------------------- MODULE Feed --------------------------------
(***************************************************************************)
(* The aggregator and a subscriber: what the kernel broadcasts travels, in *)
(* order, over the PUB socket to one of the programs of module             *)
(* Subscribers.  The subscribers know nothing of each other, so every      *)
(* behaviour has just one of them, named by who.  (Module PgFeed does the  *)
(* same for bolo2pg.)                                                      *)
(***************************************************************************)
EXTENDS Kernel, Subscribers, Functions

CONSTANTS Programs,      \* the subscribers that are looked at
          MaxFlight      \* bound: the PDUs and insert requests on their way

ASSUME FeedAssumption ==
    /\ Programs \subseteq {"cache", "pg", "sqlite", "log", "meta", "redis"}
    /\ MaxFlight \in Nat /\ MaxHangups \in Nat

VARIABLES
    who,         \* the program of the subscriber
    feed,        \* the PDUs that it has not received yet
    shown,       \* ghost: the last STATE PDU broadcast for each state
    since,       \* ghost: per state, the timestamp of the first STATE PDU in
                 \* the present run of PDUs with the same code
    dirty        \* ghost: keys were changed since the last SET.KEYS

ghosts == <<shown, since, dirty>>
fvars  == <<vars, who, feed, ghosts, subs>>

FeedInit ==
    /\ Init /\ SubsInit
    /\ who \in Programs
    /\ feed = <<>>
    /\ shown = Nothing /\ since = Nothing /\ dirty = FALSE

----------------------------------------------------------------------------

\* The sequences with every element of S once.
Orders(S) == UNION {Bijection(1..k, S) : k \in 0..Cardinality(S)}

\* What a step of the kernel puts on the PUB socket: the hashes are walked in
\* no particular order, and of a state that changed the TRANSITION is sent
\* just before the STATE.  (Beacons have another socket.)
Broadcast ==
    {s \in Orders({p \in out' : p.type # "BEACON"}) :
        \A i \in DOMAIN s : s[i].type = "TRANSITION" =>
            i + 1 \in DOMAIN s /\ s[i + 1] = [s[i] EXCEPT !.type = "STATE"]}

StatesOut == {p \in out' : p.type = "STATE"}

SentNames == {p.name : p \in StatesOut}

PDU(n) == CHOOSE p \in StatesOut : p.name = n

SinceAfter(p) ==
    IF p.name \in DOMAIN shown /\ shown[p.name].code = p.code
    THEN since[p.name] ELSE p.ts

\* What the ghosts remember of the step.
Observe ==
    /\ shown' = [n \in DOMAIN shown \cup SentNames |->
                    IF n \in SentNames THEN PDU(n) ELSE shown[n]]
    /\ since' = IF who # "sqlite" THEN since
                ELSE [n \in DOMAIN since \cup SentNames |->
                        IF n \in SentNames THEN SinceAfter(PDU(n)) ELSE since[n]]
    /\ dirty' = IF \E p \in out' : p.type = "SET.KEYS" THEN FALSE
                ELSE dirty \/ keys' # keys

\* A start that dies leaves everything as it was, and sends nothing.
KernelStep ==
    /\ Len(feed) < MaxFlight
    /\ Next /\ ~BootDies /\ Observe
    /\ \E b \in Broadcast : feed' = feed \o b
    /\ UNCHANGED <<who, subs>>

\* The subscriber handles the next PDU.
Receive ==
    /\ feed # <<>>
    /\ LET p == Head(feed) IN
       \/ /\ who = "cache" /\ CacheReceive(p)
          /\ UNCHANGED <<sqlitevars, logvars, counted, redis>>
       \/ /\ who = "sqlite" /\ SqliteReceive(p)
          /\ UNCHANGED <<cachevars, logvars, counted, redis>>
       \/ /\ who = "log" /\ LogReceive(p)
          /\ UNCHANGED <<cachevars, sqlitevars, counted, redis>>
       \/ /\ who = "meta" /\ MetaReceive(p)
          /\ UNCHANGED <<cachevars, sqlitevars, logvars, redis>>
       \/ /\ who = "redis" /\ RedisReceive(p)
          /\ UNCHANGED <<cachevars, sqlitevars, counted, logfd, reopen,
                         hangups, logged>>
    /\ feed' = Tail(feed)
    /\ UNCHANGED <<vars, who, ghosts>>

\* What else the subscriber does.
CacheStep ==
    /\ who = "cache" /\ (Join \/ Repeat)
    /\ UNCHANGED <<vars, who, feed, ghosts, sqlitevars, logvars, counted, redis>>

LogStep ==
    /\ who = "log" /\ sighup_handler
    /\ UNCHANGED <<vars, who, feed, ghosts, cachevars, sqlitevars, counted, redis>>

FeedNext == KernelStep \/ Receive \/ CacheStep \/ LogStep

FeedSpec == FeedInit /\ [][FeedNext]_fvars

----------------------------------------------------------------------------
(* What the subscribers know, when there is nothing left to be received.   *)

Arrived == feed = <<>>

\* A client that joined late and sent a REPEAT knows, once the cache is up to
\* date, the last STATE of every state that was broadcast so far; and without
\* the REPEAT nothing that is out of date.
ClientCurrent ==
    who = "cache" /\ Arrived =>
        /\ \A n \in DOMAIN client : client[n] = shown[n]
        /\ joined = "asked" => DOMAIN client = DOMAIN shown

\* The table of bolo2sqlite has the present status of every state and the
\* time since when it has it, although updates are refused by a CHECK when a
\* report comes late.
RowsCurrent ==
    who = "sqlite" /\ Arrived =>
        \A n \in DOMAIN shown :
            /\ n \in DOMAIN rows
            /\ rows[n].status = shown[n].code
            /\ rows[n].first_seen = since[n]

\* Unless a line was lost because the log could not be opened again, the last
\* line for a state tells its present status and freshness: whatever changes
\* them is announced, and a SIGHUP loses nothing.  (The code of PENDING is
\* shown as UNKNOWN.)
LogCurrent ==
    who = "log" /\ Arrived /\ ~missed =>
        \A n \in DOMAIN shown \cap Logged :
            /\ n \in DOMAIN logged
            /\ logged[n] = [stale |-> shown[n].stale, code |-> shown[n].code]

\* bolo2meta never takes a PDU of the aggregator for a bogon.
NoBogons == \A c \in counted : ~c.bogon

\* Redis has the present value of every key, if no key was changed since the
\* aggregator last broadcast them, and redis refused none.
RedisCurrent ==
    who = "redis" /\ Arrived /\ ~dirty /\ ~crashed /\ ~missed =>
        \A k \in LiveKeys(keys) : k \in DOMAIN redis /\ redis[k] = keys[k]

=============================================================================
