------------------------------- MODULE Kernel -------------------------------
(***************************************************************************)
(* The kernel thread of `bolo aggr` (src/core.c) with its save file        *)
(* (src/binf.c) and its keys file.  One reactor handles, one PDU at a      *)
(* time, the submissions of the LISTENER socket, the requests of the       *)
(* MANAGEMENT socket and the TOCKs of the scheduler thread; each handler   *)
(* below is one action and does everything the handler does.  The process  *)
(* may stop between two handlers (TERMINATE, a crash) or inside a save,    *)
(* and is then started again on what the files hold.                       *)
(*                                                                         *)
(* Each kind of datapoint has a hash of its own, so the sets of names of   *)
(* the four kinds are taken to be disjoint.  `out' is the set of PDUs the  *)
(* last handler sent; no handler sends the same PDU twice, and a           *)
(* TRANSITION is always sent just before the STATE with the same contents. *)
(***************************************************************************)
EXTENDS Data, Sequences, FiniteSets

CONSTANTS
    StateNames, CounterNames, SampleNames, RateNames,
    Configured,      \* names with a directive of their own in bolo.conf
    Matched,         \* names that a /regex/ directive matches
    Freshness,       \* of the type of each state, in seconds
    StaleStatus,     \* what the type of each state triggers on staleness
    Window,          \* of each counter, sample and rate, in seconds
    Grace,           \* grace.period
    MaxEvents, KeepNumber,              \* max.events, and its unit
    HasBeacon, SweepInterval, SaveInterval,
    Stamps,          \* timestamps that clients put in PDUs
    Codes, Messages, \* of STATE submissions
    Increments,      \* of COUNTER submissions, as sent
    SampleBatches,   \* of SAMPLE submissions: the values of one PDU, summed up
    RateValues,
    Extras,          \* of EVENT submissions; "" is a client with no details
    Keys, KeyValues,
    PlainKeys,       \* keys read_keys() can read back: no blank, no leading #
    Trimmed,         \* a value without its leading blanks
    Patterns,        \* the sets of names that FORGET requests match
    DiskOutcomes,    \* how the system calls of a save may end
    I31, I15,        \* 2^31 and 2^15: the ranges of int32_t and int16_t
    Scale,           \* a sample value v stands for the number v / Scale
    Epoch,           \* the time of the first start
    MaxTime, MaxStops, MaxBuffered, MaxSampled, \* bounds of the instance
    SubmitUntil      \* the last time at which clients submit

Metrics == CounterNames \cup SampleNames \cup RateNames
Names   == StateNames \cup Metrics

ASSUME TypeAssumption == /\ Freshness \in [StateNames -> Nat]
                         /\ StaleStatus \in [StateNames -> 1..3]
ASSUME WindowAssumption == Window \in [Metrics -> Nat \ {0}]
ASSUME ConfigAssumption ==
    /\ Grace \in Nat /\ MaxEvents \in Nat /\ KeepNumber \in BOOLEAN
    /\ HasBeacon \in BOOLEAN /\ SweepInterval \in Nat /\ SaveInterval \in Nat
NoText == ""         \* the empty string

ASSUME InputAssumption ==
    /\ Stamps \subseteq Nat /\ Codes \subseteq 0..255
    /\ NoText \notin Messages       \* the STATE handler refuses an empty one
    /\ Increments \subseteq Nat
    /\ SampleBatches \subseteq [n : Nat \ {0}, min : Nat, max : Nat, sum : Nat]
    /\ RateValues \subseteq Word /\ Patterns \subseteq SUBSET Names
    /\ DiskOutcomes \subseteq {"ok", "noopen", "nospace"}
ASSUME MachineAssumption ==
    /\ I31 \in Nat \ {0} /\ I15 \in Nat \ {0} /\ Scale \in Nat \ {0}
ASSUME BoundAssumption == /\ Epoch \in Nat \ {0}
                          /\ Epoch > SweepInterval /\ Epoch > SaveInterval
                          /\ MaxTime \in Nat /\ MaxStops \in Nat
                          /\ MaxBuffered \in Nat /\ MaxSampled \in Nat
                          /\ SubmitUntil \in Nat

NULL == "NULL"       \* the value DEL.KEYS leaves behind
ASSUME KeysAssumption == /\ NULL \notin KeyValues
                         /\ Trimmed \in [KeyValues -> KeyValues]

VARIABLES
    now,             \* time_s()
    up,              \* the process is running
    stops,           \* how often it stopped
    states, counters, samples, rates,   \* db_t's hashes
    events, events_count,               \* the buffered events
    keys,
    last,            \* kernel_t's timers: when each was last due
    savefile, keysfile,
    out

db    == <<states, counters, samples, rates, events, events_count>>
disk  == <<savefile, keysfile>>
vars  == <<now, up, stops, db, keys, last, disk, out>>

----------------------------------------------------------------------------
(* Windows and conversions.                                                *)

winstart(n, t) == t - (t % Window[n])
winend(n, t)   == winstart(n, t) + Window[n]

statstr(status) == IF status > 3 THEN 3 ELSE status

\* strtol() of what the client printed with %u, kept in an int32_t.
int32(x) == ((x + I31) % (2 * I31)) - I31

\* A uint16_t interval copied to an int16_t one.
int16(x) == ((x + I15) % (2 * I15)) - I15

----------------------------------------------------------------------------
(* The PDUs the kernel sends.                                              *)

StatePDU(type, n, s) ==
    [type |-> type, name |-> n, ts |-> s.last_seen, stale |-> s.stale,
     code |-> statstr(s.status), summary |-> s.summary]

Bad_broadcast_state(n, s, transition) ==
    {StatePDU(IF transition THEN "TRANSITION" ELSE "STATE", n, s)}

\* A TRANSITION, if the status or the freshness changed, and the STATE.
broadcast_state(n, s, transition) ==
    {StatePDU("STATE", n, s)} \cup
        (IF transition THEN {StatePDU("TRANSITION", n, s)} ELSE {})

broadcast_counter(n, c) ==
    [type |-> "COUNTER", name |-> n, ts |-> winstart(n, c.last_seen),
     value |-> c.value]

broadcast_sample(n, s) ==
    [type |-> "SAMPLE", name |-> n, ts |-> winstart(n, s.last_seen),
     n |-> s.n, min |-> s.min, max |-> s.max, sum |-> s.sum]

broadcast_rate(n, r) ==
    [type |-> "RATE", name |-> n, ts |-> winstart(n, r.last_seen),
     window |-> Window[n], rate |-> rate_calc(r, Window[n])]

broadcast_event(ev) == [type |-> "EVENT", event |-> ev]

\* The keys that still have a value, with it.  (The PDUs of at most 30 pairs
\* that carry them are not told apart.)
LiveKeys(ks) == {k \in DOMAIN ks : ks[k] # NULL}

broadcast_setkeys(ks) ==
    IF LiveKeys(ks) = {} THEN {}
    ELSE {[type |-> "SET.KEYS", pairs |-> [k \in LiveKeys(ks) |-> ks[k]]]}

\* The interval is converted back to a uint16_t.
beacon_sweep == [type |-> "BEACON", sent |-> now,
                 interval |-> int16(SweepInterval) % (2 * I15)]

----------------------------------------------------------------------------
(* The save file.  Records are written in the order of the fields of       *)
(* SaveFile, each kind in the order of its hash.                           *)

NoFile    == [tag |-> "none"]
EmptyFile == [tag |-> "empty"]   \* truncated by open(), not yet extended

\* A sample's doubles go through htonl(): only the whole part is written.
OnWire(v) == Scale * (v \div Scale)

s_write_sample(s) ==
    [s EXCEPT !.min = OnWire(s.min), !.max = OnWire(s.max),
              !.sum = OnWire(s.sum)]

\* expiry and events_count are not part of the format.
s_write_state(s) ==
    [status |-> s.status, summary |-> s.summary, last_seen |-> s.last_seen,
     stale |-> s.stale, ignore |-> s.ignore]

SaveFile(sts, cts, sms, evs, rts) ==
    [tag      |-> "data",
     states   |-> [n \in DOMAIN sts |-> s_write_state(sts[n])],
     counters |-> cts,
     samples  |-> [n \in DOMAIN sms |-> s_write_sample(sms[n])],
     events   |-> evs,
     rates    |-> rts]

NoRecords == [n \in {} |-> 0]

\* Extended to its size and still all zeros: binf_read() refuses it.
ZeroFile == SaveFile(NoRecords, NoRecords, NoRecords, <<>>, NoRecords)

\* The second string of the record that was being written: still all zeros,
\* although the length in front of the record counts it.
Cut == "cut"
ASSUME CutAssumption == Cut \notin Messages \cup Extras

\* The records of names S in tbl, as far as they are written when the one of
\* a name in Half has no second string yet.
Written(tbl, S, Half) ==
    [n \in DOMAIN tbl \cap S |->
        IF n \in Half THEN [tbl[n] EXCEPT !.summary = Cut] ELSE tbl[n]]

FirstEvents(evs, k, half) ==
    [i \in 1..k |-> IF half /\ i = k THEN [evs[i] EXCEPT !.extra = Cut]
                                    ELSE evs[i]]

\* f with the states sts, the metrics c, m and r and the events evs written.
TornFile(f, sts, c, m, evs, r) ==
    [tag |-> "data", states |-> sts,
     counters |-> Drop(f.counters, DOMAIN f.counters \ c),
     samples  |-> Drop(f.samples, DOMAIN f.samples \ m),
     events   |-> evs,
     rates    |-> Drop(f.rates, DOMAIN f.rates \ r)]

\* What a process that dies while it writes f may leave: the truncated file,
\* or the records written so far with zeros after them.
TornFiles(f) ==
    LET S == DOMAIN f.states    C == DOMAIN f.counters
        M == DOMAIN f.samples   R == DOMAIN f.rates
    IN  {EmptyFile}
        \cup {TornFile(f, Written(f.states, s, h), {}, {}, <<>>, {}) :
                    s \in SUBSET S, h \in {{}} \cup {{n} : n \in S}}
        \cup {TornFile(f, f.states, c, {}, <<>>, {}) : c \in SUBSET C}
        \cup {TornFile(f, f.states, C, m, <<>>, {})  : m \in SUBSET M}
        \cup {TornFile(f, f.states, C, M, FirstEvents(f.events, k, half), {}) :
                    k \in 0..Len(f.events), half \in BOOLEAN}
        \cup {TornFile(f, f.states, C, M, f.events, r) : r \in SUBSET R}

\* How binf_write leaves the disk when none of its calls dies: if open()
\* fails the old file stays, if a later call fails the old records are gone.
binf_write(f) ==
    (IF "ok" \in DiskOutcomes THEN {f} ELSE {})
    \cup (IF "noopen" \in DiskOutcomes THEN {savefile} ELSE {})
    \cup (IF "nospace" \in DiskOutcomes THEN {EmptyFile, ZeroFile} ELSE {})

\* Keys without a value are not written; fopen() may fail.
save_keys(ks) ==
    (IF "ok" \in DiskOutcomes THEN {[k \in LiveKeys(ks) |-> ks[k]]} ELSE {})
    \cup (IF DiskOutcomes # {"ok"} THEN {keysfile} ELSE {})

\* fopen(..., "w") truncates; a process that dies leaves only some lines.
TornKeys(ks) == {[k \in S |-> ks[k]] : S \in SUBSET LiveKeys(ks)}

\* How many leading events s_read_record can read, as a set of one number: it
\* takes a record whose second string is empty for a truncated one, and
\* binf_read() gives up.
Readable(evs) ==
    {k \in 0..Len(evs) : /\ \A i \in 1..k : evs[i].extra # NoText
                        /\ k < Len(evs) => evs[k + 1].extra = NoText}

\* The states it cannot read, and the sets of states that may stand before
\* the first of them.
Blank(f) == {n \in DOMAIN f.states : f.states[n].summary = NoText}

ReadStates(f) == IF Blank(f) = {} THEN {DOMAIN f.states}
                 ELSE SUBSET (DOMAIN f.states \ Blank(f))

----------------------------------------------------------------------------
(* Start: configure() and then binf_read() and read_keys().                *)

configure_states == [n \in StateNames \cap Configured |->
                        NewState(Freshness[n], now)]
configure_counters == [n \in CounterNames \cap Configured |-> NewCounter]
configure_samples  == [n \in SampleNames \cap Configured |-> NewSample]
configure_rates    == [n \in RateNames \cap Configured |-> NewRate]

Bad_Restored(conf, recs) ==
    [n \in DOMAIN conf |-> IF n \in DOMAIN recs THEN recs[n] ELSE conf[n]]

\* Records read from the file replace what configure() made; the names that
\* no directive covers any more are skipped.
Restored(conf, recs) ==
    [n \in DOMAIN conf \cup (DOMAIN recs \cap Matched) |->
        IF n \in DOMAIN recs THEN recs[n] ELSE conf[n]]

read_state(n, r) ==
    [status |-> r.status, last_seen |-> r.last_seen,
     summary |-> IF r.summary = Cut THEN NoText ELSE r.summary,
     expiry |-> NewState(Freshness[n], now).expiry,
     stale |-> r.stale, ignore |-> r.ignore]

read_event(e) ==
    [ts |-> e.ts, extra |-> IF e.extra = Cut THEN NoText ELSE e.extra]

Bad_RestoredCount(f) == Len(f.events)

\* Events are linked into the list as they are read, and not counted.
RestoredCount(f) == 0

binf_read(f) ==
    LET whole == Blank(f) = {}
    IN  /\ \E S \in ReadStates(f) :
            states' = Restored(configure_states,
                               [n \in S |-> read_state(n, f.states[n])])
        /\ counters' = Restored(configure_counters,
                                IF whole THEN f.counters ELSE NoRecords)
        /\ samples'  = Restored(configure_samples,
                                IF whole THEN f.samples ELSE NoRecords)
        /\ \E k \in IF whole THEN Readable(f.events) ELSE {0} :
            /\ events' = [i \in 1..k |-> read_event(f.events[i])]
            /\ rates'  = Restored(configure_rates,
                                  IF whole /\ k = Len(f.events) THEN f.rates
                                                                ELSE NoRecords)
        /\ events_count' = RestoredCount(f)

read_keys == [k \in DOMAIN keysfile \cap PlainKeys |-> Trimmed[keysfile[k]]]

Timers == [tick |-> 0, sweep |-> 0, freshness |-> 0, savestate |-> 0]

Init ==
    /\ now = Epoch /\ up = TRUE /\ stops = 0
    /\ states = configure_states /\ counters = configure_counters
    /\ samples = configure_samples /\ rates = configure_rates
    /\ events = <<>> /\ events_count = 0 /\ keys = NoRecords
    /\ last = Timers
    /\ savefile = NoFile /\ keysfile = NoRecords
    /\ out = {}

Boot ==
    /\ ~up /\ savefile # EmptyFile
    /\ up' = TRUE
    /\ binf_read(IF savefile = NoFile THEN ZeroFile ELSE savefile)
    /\ keys' = read_keys
    /\ last' = Timers
    /\ out' = {}
    /\ UNCHANGED <<now, stops, disk>>

\* A start on a truncated save file dies when it copies the header out of
\* the empty mapping.
BootDies == ~up /\ savefile = EmptyFile /\ UNCHANGED vars

\* The process is gone, with everything it had in memory.
Dead ==
    /\ up /\ stops < MaxStops
    /\ up' = FALSE /\ stops' = stops + 1
    /\ states' = NoRecords /\ counters' = NoRecords /\ samples' = NoRecords
    /\ rates' = NoRecords /\ events' = <<>> /\ events_count' = 0
    /\ keys' = NoRecords /\ last' = Timers
    /\ UNCHANGED now

\* TERMINATE halts the reactor, and the thread exits without a save; so does
\* a crash between two handlers.
Stop == Dead /\ out' = {} /\ UNCHANGED disk

Advance ==
    /\ now < MaxTime
    /\ now' = now + 1
    /\ out' = {}
    /\ UNCHANGED <<up, stops, db, keys, last, disk>>

----------------------------------------------------------------------------
(* Handlers of the LISTENER socket.  A submission for a name that is not   *)
(* found, or whose datapoint is ignored, is dropped.                       *)

\* Also what an unhandled or malformed PDU does on either socket.
Dropped == /\ up /\ out' = {}
           /\ UNCHANGED <<now, up, stops, db, keys, last, disk>>

Bad_Transition(old, code) == old.status # code

\* The submission changes the status, or makes a stale state fresh again.
Transition(old, code) == old.stale \/ old.status # code

SubmitState(ts, n, code, msg) ==
    LET old == Find(states, n, NewState(Freshness[n], now))
        new == [status |-> code, summary |-> msg, last_seen |-> ts,
                expiry |-> ts + Freshness[n], stale |-> FALSE,
                ignore |-> FALSE]
    IN  /\ up /\ Found(states, n, Matched) /\ ~old.ignore
        /\ states' = Put(states, n, new)
        /\ out' = broadcast_state(n, new, Transition(old, code))
        /\ UNCHANGED <<now, up, stops, counters, samples, rates, events,
                       events_count, keys, last, disk>>

Bad_Rollover(n, dp, ts) ==
    /\ dp.last_seen > 0 /\ dp.last_seen < ts
    /\ winstart(n, dp.last_seen) # winstart(n, ts)

\* The datapoint holds values of another window than the one of ts.
Rollover(n, dp, ts) ==
    /\ dp.last_seen > 0 /\ dp.last_seen # ts
    /\ winstart(n, dp.last_seen) # winstart(n, ts)

SubmitCounter(ts, n, incr) ==
    LET old == Find(counters, n, NewCounter)
        cur == IF Rollover(n, old, ts) THEN counter_reset(old) ELSE old
    IN  /\ up /\ Found(counters, n, Matched) /\ ~old.ignore
        /\ counters' = Put(counters, n, counter_data(cur, ts, int32(incr)))
        /\ out' = IF Rollover(n, old, ts) THEN {broadcast_counter(n, old)}
                                          ELSE {}
        /\ UNCHANGED <<now, up, stops, states, samples, rates, events,
                       events_count, keys, last, disk>>

SubmitSample(ts, n, batch) ==
    LET old == Find(samples, n, NewSample)
        cur == IF Rollover(n, old, ts) THEN sample_reset(old) ELSE old
    IN  /\ up /\ Found(samples, n, Matched) /\ ~old.ignore
        /\ cur.n + batch.n <= MaxSampled
        /\ samples' = Put(samples, n,
                          [sample_data(cur, batch) EXCEPT !.last_seen = ts])
        /\ out' = IF Rollover(n, old, ts) THEN {broadcast_sample(n, old)}
                                          ELSE {}
        /\ UNCHANGED <<now, up, stops, states, counters, rates, events,
                       events_count, keys, last, disk>>

SubmitRate(ts, n, v) ==
    LET old == Find(rates, n, NewRate)
        cur == IF Rollover(n, old, ts) THEN rate_reset(old) ELSE old
        fst == IF cur.first_seen = 0 THEN ts ELSE cur.first_seen
    IN  /\ up /\ Found(rates, n, Matched) /\ ~old.ignore
        /\ rates' = Put(rates, n,
                        [rate_data(cur, v) EXCEPT !.first_seen = fst,
                                                  !.last_seen  = ts])
        /\ out' = IF Rollover(n, old, ts) THEN {broadcast_rate(n, old)}
                                          ELSE {}
        /\ UNCHANGED <<now, up, stops, states, counters, samples, events,
                       events_count, keys, last, disk>>

Bad_Surplus(evs, count) ==
    LET new == evs[Len(evs)] IN
    IF KeepNumber
    THEN {IF count >= MaxEvents THEN count - MaxEvents + 1 ELSE 0}
    ELSE {k \in 0..Len(evs) :
            /\ \A i \in 1..k : evs[i].ts <= new.ts - MaxEvents + 1
            /\ k < Len(evs) => evs[k + 1].ts > new.ts - MaxEvents + 1}

\* How many of the oldest events of evs buffer_event() drops after it has
\* added the last one, as a set of one number: count is events_count with the
\* new event included.
Surplus(evs, count) ==
    LET new == evs[Len(evs)] IN
    IF KeepNumber
    THEN {IF count > MaxEvents THEN count - MaxEvents ELSE 0}
    ELSE {k \in 0..Len(evs) :
            /\ \A i \in 1..k : evs[i].ts <= new.ts - MaxEvents
            /\ k < Len(evs) => evs[k + 1].ts > new.ts - MaxEvents}

SubmitEvent(ts, extra) ==
    LET ev  == [ts |-> ts, extra |-> extra]
        evs == Append(events, ev)
    IN  /\ up /\ Len(events) < MaxBuffered
        /\ IF MaxEvents > 0
           THEN \E k \in Surplus(evs, events_count + 1) :
                    /\ events' = SubSeq(evs, k + 1, Len(evs))
                    /\ events_count' = events_count + 1 - k
           ELSE UNCHANGED <<events, events_count>>
        /\ out' = {broadcast_event(ev)}
        /\ UNCHANGED <<now, up, stops, states, counters, samples, rates,
                       keys, last, disk>>

\* One PDU sets every key of pairs.
SetKeys(pairs) ==
    /\ up
    /\ keys' = PutAll(keys, pairs)
    /\ out' = {}
    /\ UNCHANGED <<now, up, stops, db, last, disk>>

----------------------------------------------------------------------------
(* The handler of the scheduler's TOCK.  The interval of the tick and      *)
(* freshness timers is never set, so both are due once a second.           *)

TickDue  == last.tick < now
Bad_FreshDue == last.freshness = 0

SweepDue == HasBeacon /\ last.sweep + int16(SweepInterval) < now
FreshDue == last.freshness < now
SaveDue  == last.savestate + int16(SaveInterval) < now

Bad_Closed(tbl) ==
    {n \in DOMAIN tbl : /\ ~tbl[n].ignore /\ tbl[n].last_seen # 0
                        /\ winend(n, tbl[n].last_seen) < now}

Bad_ClosedOnTime(tbl) ==
    {n \in DOMAIN tbl : /\ ~tbl[n].ignore /\ tbl[n].last_seen # 0
                        /\ winend(n, tbl[n].last_seen) + 1 = now - Grace}

\* The metrics whose window closed more than the grace period ago.
Closed(tbl) ==
    {n \in DOMAIN tbl : /\ ~tbl[n].ignore /\ tbl[n].last_seen # 0
                        /\ winend(n, tbl[n].last_seen) < now - Grace}

Flush(tbl) == IF TickDue THEN Closed(tbl) ELSE {}

tock_counters == [n \in DOMAIN counters |->
    IF n \in Flush(counters) THEN counter_reset(counters[n]) ELSE counters[n]]
tock_samples == [n \in DOMAIN samples |->
    IF n \in Flush(samples) THEN sample_reset(samples[n]) ELSE samples[n]]
tock_rates == [n \in DOMAIN rates |->
    IF n \in Flush(rates) THEN rate_reset(rates[n]) ELSE rates[n]]

Bad_Expired == IF FreshDue
               THEN {n \in DOMAIN states : states[n].expiry <= now + 1
                                           /\ ~states[n].ignore}
               ELSE {}

Bad_ExpiredLate == IF FreshDue
                   THEN {n \in DOMAIN states : states[n].expiry < now
                                               /\ ~states[n].ignore}
                   ELSE {}

\* check_freshness()
Expired == IF FreshDue
           THEN {n \in DOMAIN states : states[n].expiry <= now
                                       /\ ~states[n].ignore}
           ELSE {}

MarkStale(n) ==
    [states[n] EXCEPT !.stale = TRUE, !.expiry = now + Freshness[n],
                      !.status = StaleStatus[n], !.summary = "stale"]

tock_states == [n \in DOMAIN states |->
    IF n \in Expired THEN MarkStale(n) ELSE states[n]]

tock_out ==
    {broadcast_counter(n, counters[n]) : n \in Flush(counters)}
    \cup {broadcast_sample(n, samples[n]) : n \in Flush(samples)}
    \cup {broadcast_rate(n, rates[n]) : n \in Flush(rates)}
    \cup (IF SweepDue THEN {beacon_sweep} ELSE {})
    \cup (UNION {broadcast_state(n, MarkStale(n),
                    ~states[n].stale \/ states[n].status # StaleStatus[n])
                 : n \in Expired})
    \cup (IF SaveDue THEN broadcast_setkeys(keys) ELSE {})

tock_file == SaveFile(tock_states, tock_counters, tock_samples, events,
                      tock_rates)

Tock ==
    /\ up
    /\ counters' = tock_counters /\ samples' = tock_samples
    /\ rates' = tock_rates /\ states' = tock_states
    /\ last' = [tick      |-> IF TickDue  THEN now ELSE last.tick,
                sweep     |-> IF SweepDue THEN now ELSE last.sweep,
                freshness |-> IF FreshDue THEN now ELSE last.freshness,
                savestate |-> IF SaveDue  THEN now ELSE last.savestate]
    /\ IF SaveDue THEN /\ savefile' \in binf_write(tock_file)
                       /\ keysfile' \in save_keys(keys)
                  ELSE UNCHANGED disk
    /\ out' = tock_out
    /\ UNCHANGED <<now, up, stops, events, events_count, keys>>

\* The process dies while it writes f or, after it, the keys.
TornSave(f) ==
    \/ savefile' \in TornFiles(f) /\ UNCHANGED keysfile
    \/ savefile' \in binf_write(f) /\ keysfile' \in TornKeys(keys)

TockDies == SaveDue /\ Dead /\ TornSave(tock_file) /\ out' = tock_out

----------------------------------------------------------------------------
(* Handlers of the MANAGEMENT socket.                                      *)

cur_file == SaveFile(states, counters, samples, events, rates)

\* The reply is OK whatever binf_write and save_keys return.
SaveState ==
    /\ up
    /\ savefile' \in binf_write(cur_file) /\ keysfile' \in save_keys(keys)
    /\ out' = {}
    /\ UNCHANGED <<now, up, stops, db, keys, last>>

SaveStateDies == Dead /\ TornSave(cur_file) /\ out' = {}

\* Forgotten datapoints leave their hash, ignored ones stay and are skipped.
Forgotten(tbl, pattern, ignore) ==
    IF ignore
    THEN [n \in DOMAIN tbl |-> IF n \in pattern
                               THEN [tbl[n] EXCEPT !.ignore = TRUE]
                               ELSE tbl[n]]
    ELSE Drop(tbl, pattern)

\* The names of the kinds that the payload mask selects are in pattern.
Forget(pattern, ignore) ==
    /\ up
    /\ states'   = Forgotten(states, pattern, ignore)
    /\ counters' = Forgotten(counters, pattern, ignore)
    /\ samples'  = Forgotten(samples, pattern, ignore)
    /\ rates'    = Forgotten(rates, pattern, ignore)
    /\ out' = {}
    /\ UNCHANGED <<now, up, stops, events, events_count, keys, last, disk>>

\* The keys stay in the hash, with no value.
DelKeys(ks) ==
    /\ up
    /\ keys' = PutAll(keys, [k \in ks |-> NULL])
    /\ out' = {}
    /\ UNCHANGED <<now, up, stops, db, last, disk>>

\* The requests that only read: what their replies contain.
GetKeys(ks) == [k \in ks \cap LiveKeys(keys) |-> keys[k]]

SearchKeys(pattern) == DOMAIN keys \cap pattern

GetEvents(since) == SelectSeq(events, LAMBDA ev : ev.ts >= since)

----------------------------------------------------------------------------

Listener ==
    /\ now <= SubmitUntil
    /\ \/ \E ts \in Stamps, n \in StateNames, code \in Codes, m \in Messages :
                SubmitState(ts, n, code, m)
       \/ \E ts \in Stamps, n \in CounterNames, i \in Increments :
                SubmitCounter(ts, n, i)
       \/ \E ts \in Stamps, n \in SampleNames, b \in SampleBatches :
                SubmitSample(ts, n, b)
       \/ \E ts \in Stamps, n \in RateNames, v \in RateValues :
                SubmitRate(ts, n, v)
       \/ \E ts \in Stamps, x \in Extras : SubmitEvent(ts, x)
       \/ \E ks \in SUBSET Keys \ {{}} : \E kv \in [ks -> KeyValues] : SetKeys(kv)
       \/ Dropped

Management ==
    \/ SaveState
    \/ \E p \in Patterns, ig \in BOOLEAN : Forget(p, ig)
    \/ \E ks \in SUBSET Keys \ {{}} : DelKeys(ks)

Process == Stop \/ TockDies \/ SaveStateDies \/ Boot \/ BootDies

Next == Listener \/ Management \/ Tock \/ Process \/ Advance

Spec == Init /\ [][Next]_vars

----------------------------------------------------------------------------
(* Types.                                                                  *)

IsTable(tbl, names, S) == /\ DOMAIN tbl \subseteq names
                          /\ tbl \in [DOMAIN tbl -> S]

Summary == Messages \cup {"pending", "stale", NoText}

StateRec == [status : 0..255, summary : Summary, last_seen : Nat,
             expiry : Nat, stale : BOOLEAN, ignore : BOOLEAN]
SavedState == [status : 0..255, summary : Summary \cup {Cut},
               last_seen : Nat, stale : BOOLEAN, ignore : BOOLEAN]
CounterRec == [last_seen : Nat, value : Word, ignore : BOOLEAN]
SampleRec == [last_seen : Nat, n : Nat, min : Nat, max : Nat, sum : Nat,
              ignore : BOOLEAN]
RateRec == [first_seen : Nat, last_seen : Nat, first : Word, last : Word,
            ignore : BOOLEAN]
EventRec == [ts : Nat, extra : Extras \cup {NoText}]
SavedEvent == [ts : Nat, extra : Extras \cup {NoText, Cut}]

IsDataFile(f) ==
    /\ f = [tag |-> "data", states |-> f.states, counters |-> f.counters,
            samples |-> f.samples, events |-> f.events, rates |-> f.rates]
    /\ IsTable(f.states, StateNames, SavedState)
    /\ IsTable(f.counters, CounterNames, CounterRec)
    /\ IsTable(f.samples, SampleNames, SampleRec)
    /\ f.events \in Seq(SavedEvent)
    /\ IsTable(f.rates, RateNames, RateRec)

\* Every variable of the kernel and both files hold what their C types allow.
TypeOK ==
    /\ now \in Nat /\ up \in BOOLEAN /\ stops \in 0..MaxStops
    /\ IsTable(states, StateNames, StateRec)
    /\ IsTable(counters, CounterNames, CounterRec)
    /\ IsTable(samples, SampleNames, SampleRec)
    /\ IsTable(rates, RateNames, RateRec)
    /\ events \in Seq(EventRec) /\ events_count \in Int
    /\ IsTable(keys, Keys, KeyValues \cup {NULL})
    /\ last \in [tick : Nat, sweep : Nat, freshness : Nat, savestate : Nat]
    /\ savefile \in {NoFile, EmptyFile} \/ IsDataFile(savefile)
    /\ IsTable(keysfile, Keys, KeyValues)

----------------------------------------------------------------------------
(* Properties that need no history.                                        *)

\* The trimming loop of buffer_event never reads the head of an empty list:
\* what it counts down is never more than what the list holds, although the
\* events that a start restores are not counted.
TrimInBounds ==
    KeepNumber => /\ 0 <= events_count /\ events_count <= Len(events)
                  /\ events_count <= MaxEvents

\* Until the first restart no state is called stale while a report of it is
\* younger than the freshness of its type: handlers of two sockets change
\* the expiry that check_freshness() compares with the clock.
StaleIsLate ==
    stops = 0 => \A n \in DOMAIN states :
        states[n].stale => states[n].last_seen + Freshness[n] <= now

\* State s of name n is not called fresh on the strength of a report that is
\* older than the freshness of its type.
FreshAt(n, s, t) ==
    ~s.stale /\ ~s.ignore /\ s.last_seen # 0 => s.last_seen + Freshness[n] > t

\* Until the first restart the first TOCK of a second leaves no state fresh
\* whose last report is too old for its type.
CheckedFresh ==
    [][stops = 0 /\ Tock /\ FreshDue =>
        \A n \in DOMAIN states' : FreshAt(n, states'[n], now)]_vars

=============================================================================
