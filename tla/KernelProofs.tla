---------------------------- MODULE KernelProofs ----------------------------
(***************************************************************************)
(* Proofs about module Kernel, for all values of its constants.            *)
(***************************************************************************)
EXTENDS Kernel, TLAPS

----------------------------------------------------------------------------
(* Tables.                                                                 *)

\* hash_set() keeps a table well-typed.
LEMMA PutTable ==
    ASSUME NEW names, NEW S, NEW tbl, IsTable(tbl, names, S),
           NEW n \in names, NEW r \in S
    PROVE  IsTable(Put(tbl, n, r), names, S)
BY DEF IsTable, Put

\* So does hash_unset().
LEMMA DropTable ==
    ASSUME NEW names, NEW S, NEW tbl, IsTable(tbl, names, S), NEW ns
    PROVE  IsTable(Drop(tbl, ns), names, S)
BY DEF IsTable, Drop

\* A lookup returns a record of the table's type.
LEMMA FindTyped ==
    ASSUME NEW names, NEW S, NEW tbl, IsTable(tbl, names, S),
           NEW n, NEW new \in S
    PROVE  Find(tbl, n, new) \in S
BY DEF IsTable, Find

\* The table without records has every type.
LEMMA NoRecordsTable ==
    ASSUME NEW names, NEW S
    PROVE  IsTable(NoRecords, names, S)
BY DEF IsTable, NoRecords

\* Restoring a table's records over the configured ones.
LEMMA RestoredTable ==
    ASSUME NEW names, NEW S, NEW conf, IsTable(conf, names, S),
           NEW recs, IsTable(recs, names, S)
    PROVE  IsTable(Restored(conf, recs), names, S)
BY DEF IsTable, Restored

\* FORGET keeps a table well-typed if its records can be marked.
LEMMA ForgottenTable ==
    ASSUME NEW names, NEW S, NEW tbl, IsTable(tbl, names, S),
           \A r \in S : [r EXCEPT !.ignore = TRUE] \in S,
           NEW pattern, NEW ignore \in BOOLEAN
    PROVE  IsTable(Forgotten(tbl, pattern, ignore), names, S)
<1>1. CASE ignore
  BY <1>1 DEF IsTable, Forgotten
<1>2. CASE ~ignore
  BY <1>2, DropTable DEF Forgotten
<1> QED BY <1>1, <1>2

----------------------------------------------------------------------------
(* Arithmetic.                                                             *)

\* A remainder is within its word.
LEMMA Remainder ==
    ASSUME NEW x \in Int, NEW m \in Nat \ {0}
    PROVE  x % m \in 0..(m - 1)
OBVIOUS

\* A value cut down to its whole part is still one.
LEMMA OnWireTyped ==
    ASSUME NEW v \in Nat PROVE OnWire(v) \in Nat
<1>1. Scale \in Nat \ {0} BY MachineAssumption
<1>2. v \div Scale \in Nat BY <1>1
<1> QED BY <1>1, <1>2 DEF OnWire

\* Converting to an int32_t gives an integer.
LEMMA Int32Typed ==
    ASSUME NEW x \in Int PROVE int32(x) \in Int
BY MachineAssumption DEF int32

\* The quotient and the remainder.
LEMMA Division ==
    ASSUME NEW x \in Int, NEW m \in Nat \ {0}
    PROVE  \E q \in Int : /\ x = m * q + (x % m) /\ x % m \in 0..(m - 1)
                          /\ x \in Nat => q \in Nat
<1>1. x % m \in 0..(m - 1)
  OBVIOUS
<1>2. /\ x \div m \in Int /\ x = m * (x \div m) + (x % m)
      /\ x \in Nat => x \div m \in Nat
  OBVIOUS
<1> QED BY <1>1, <1>2, Zenon

\* Adding a multiple does not change a remainder.
LEMMA RemainderShift ==
    ASSUME NEW m \in Nat \ {0}, NEW x \in Int, NEW q \in Int
    PROVE  (x + m * q) % m = x % m
<1> PICK y \in Int : y = x + m * q
  OBVIOUS
<1> PICK p \in Int : x = m * p + (x % m) /\ x % m \in 0..(m - 1)
  BY Division, Zenon
<1> PICK s \in Int : y = m * s + (y % m) /\ y % m \in 0..(m - 1)
  BY Division, Zenon
<1> DEFINE a == x % m
           b == y % m
           d == p + q - s
<1>1. a \in 0..(m - 1) /\ b \in 0..(m - 1) /\ x = m * p + a /\ y = m * s + b
  OBVIOUS
<1> HIDE DEF a, b
<1>2. d \in Int /\ m * d = m * p + m * q - m * s /\ m * d \in Int
  OBVIOUS
<1>3. m * d = b - a
  BY <1>1, <1>2
<1>4. m * d < m /\ m * d > -m
  BY <1>1, <1>3
<1>5. d = 0
  <2>1. ASSUME d >= 1 PROVE FALSE
    <3>1. m * d >= m
      BY <1>2, <2>1
    <3> QED BY <1>2, <1>4, <3>1
  <2>2. ASSUME d <= -1 PROVE FALSE
    <3>1. m * d <= -m
      BY <1>2, <2>2
    <3> QED BY <1>2, <1>4, <3>1
  <2> QED BY <1>2, <2>1, <2>2
<1>6. a = b
  BY <1>1, <1>2, <1>3, <1>5
<1> QED BY <1>6 DEF a, b

\* Remainders may be taken before or after an addition.
LEMMA RemainderAdd ==
    ASSUME NEW m \in Nat \ {0}, NEW a \in Int, NEW b \in Int
    PROVE  /\ ((a % m) + b) % m = (a + b) % m
           /\ (a + (b % m)) % m = (a + b) % m
           /\ (a % m) % m = a % m
<1>1. ASSUME NEW x \in Int, NEW y \in Int
      PROVE  ((x % m) + y) % m = (x + y) % m
  <2>1. /\ x \div m \in Int /\ x % m \in Int /\ m * (x \div m) \in Int
        /\ x = m * (x \div m) + (x % m)
    OBVIOUS
  <2> DEFINE q == x \div m
             r == x % m
  <2>2. q \in Int /\ r \in Int /\ m * q \in Int /\ x = m * q + r
    BY <2>1
  <2> HIDE DEF q, r
  <2>3. x + y = (r + y) + m * q /\ r + y \in Int
    BY <2>2
  <2>4. ((r + y) + m * q) % m = (r + y) % m
    BY <2>2, <2>3, RemainderShift, Zenon
  <2> QED BY <2>3, <2>4 DEF r
<1>2. ((a % m) + b) % m = (a + b) % m
  BY <1>1, Zenon
<1>3. (a + (b % m)) % m = (a + b) % m
  <2>1. ((b % m) + a) % m = (b + a) % m
    BY <1>1, Zenon
  <2>2. b % m \in Int
    OBVIOUS
  <2> QED BY <2>1, <2>2
<1>4. (a % m) % m = a % m
  <2>1. ((a % m) + 0) % m = (a + 0) % m
    <3>1. 0 \in Int
      OBVIOUS
    <3> QED BY <1>1, <3>1, Zenon
  <2>2. a % m \in Int
    OBVIOUS
  <2> QED BY <2>1, <2>2
<1> QED BY <1>2, <1>3, <1>4

\* Where a window starts, and that it contains the time it is for.
LEMMA WinstartBounds ==
    ASSUME NEW n \in Metrics, NEW t \in Nat
    PROVE  /\ winstart(n, t) \in Nat /\ Window[n] \in Nat \ {0}
           /\ winstart(n, t) <= t /\ t < winstart(n, t) + Window[n]
<1>1. Window[n] \in Nat \ {0}
  BY WindowAssumption
<1>2. t % Window[n] \in 0..(Window[n] - 1) /\ t % Window[n] <= t
  <2> PICK m \in Nat \ {0} : m = Window[n]
    BY <1>1
  <2> PICK q \in Nat : t = m * q + (t % m) /\ t % m \in 0..(m - 1)
    <3>1. t \in Int
      OBVIOUS
    <3> QED BY <3>1, Division, Zenon
  <2>1. m * q \in Nat
    OBVIOUS
  <2> QED BY <2>1
<1> QED BY <1>1, <1>2 DEF winstart

----------------------------------------------------------------------------
(* Records and files.                                                      *)

\* The records that configure() and the find_* functions create.
LEMMA NewRecords ==
    /\ NewCounter \in CounterRec /\ NewSample \in SampleRec
    /\ NewRate \in RateRec
    /\ \A n \in StateNames : \A t \in Nat :
            NewState(Freshness[n], t) \in StateRec
<1>1. 0 \in Word
  BY WordAssumption DEF Word
<1>2. NewCounter \in CounterRec /\ NewSample \in SampleRec
  BY <1>1 DEF NewCounter, CounterRec, NewSample, SampleRec
<1>3. NewRate \in RateRec
  BY <1>1 DEF NewRate, RateRec
<1>4. ASSUME NEW n \in StateNames, NEW t \in Nat
      PROVE  NewState(Freshness[n], t) \in StateRec
  BY TypeAssumption DEF NewState, StateRec, Summary, PENDING
<1> QED BY <1>2, <1>3, <1>4

\* The IGNORE mark of a FORGET fits every kind of record.
LEMMA IgnoreTyped ==
    /\ \A r \in StateRec : [r EXCEPT !.ignore = TRUE] \in StateRec
    /\ \A r \in CounterRec : [r EXCEPT !.ignore = TRUE] \in CounterRec
    /\ \A r \in SampleRec : [r EXCEPT !.ignore = TRUE] \in SampleRec
    /\ \A r \in RateRec : [r EXCEPT !.ignore = TRUE] \in RateRec
BY Zenon DEF StateRec, CounterRec, SampleRec, RateRec

\* The operations on counters, samples and rates.
LEMMA ResetTyped ==
    /\ \A r \in CounterRec : counter_reset(r) \in CounterRec
    /\ \A r \in SampleRec : sample_reset(r) \in SampleRec
    /\ \A r \in RateRec : rate_reset(r) \in RateRec
<1>1. 0 \in Word
  BY WordAssumption DEF Word
<1> QED
  BY <1>1, Zenon DEF counter_reset, CounterRec, sample_reset, SampleRec,
              rate_reset, RateRec

\* A COUNTER submission leaves a counter within its 64-bit word.
LEMMA CounterDataTyped ==
    ASSUME NEW c \in CounterRec, NEW ts \in Nat, NEW i \in Int
    PROVE  counter_data(c, ts, i) \in CounterRec
<1>1. c.value + i \in Int
  BY DEF CounterRec, Word
<1>2. (c.value + i) % U64 \in Word
  <2>1. U64 \in Nat \ {0}
    BY WordAssumption
  <2>2. (c.value + i) % U64 \in 0..(U64 - 1)
    BY <1>1, <2>1, Remainder, Zenon
  <2> QED BY <2>2 DEF Word
<1> QED BY <1>2, Zenon DEF counter_data, CounterRec

\* A SAMPLE submission leaves a well-typed sample set.
LEMMA SampleDataTyped ==
    ASSUME NEW s \in SampleRec, NEW b \in SampleBatches, NEW ts \in Nat
    PROVE  [sample_data(s, b) EXCEPT !.last_seen = ts] \in SampleRec
<1>1. b \in [n : Nat \ {0}, min : Nat, max : Nat, sum : Nat]
  BY InputAssumption
<1> DEFINE mn == IF s.n = 0 \/ b.min < s.min THEN b.min ELSE s.min
           mx == IF s.n = 0 \/ b.max > s.max THEN b.max ELSE s.max
           sm == s.sum + b.sum
           k  == s.n + b.n
<1>2. mn \in Nat /\ mx \in Nat /\ sm \in Nat /\ k \in Nat
  BY <1>1 DEF SampleRec
<1>3. sample_data(s, b) = [s EXCEPT !.min = mn, !.max = mx, !.sum = sm, !.n = k]
  BY Zenon DEF sample_data
<1> HIDE DEF mn, mx, sm, k
<1>4. sample_data(s, b) \in SampleRec
  BY <1>2, <1>3, Zenon DEF SampleRec
<1> QED BY <1>4 DEF SampleRec

\* A RATE submission leaves a well-typed rate.
LEMMA RateDataTyped ==
    ASSUME NEW r \in RateRec, NEW v \in Word, NEW f \in Nat, NEW ts \in Nat
    PROVE  [rate_data(r, v) EXCEPT !.first_seen = f, !.last_seen = ts]
                \in RateRec
BY Zenon DEF rate_data, RateRec

\* What configure() builds.
LEMMA ConfigureTyped ==
    ASSUME now \in Nat
    PROVE  /\ IsTable(configure_states, StateNames, StateRec)
           /\ IsTable(configure_counters, CounterNames, CounterRec)
           /\ IsTable(configure_samples, SampleNames, SampleRec)
           /\ IsTable(configure_rates, RateNames, RateRec)
<1>1. IsTable(configure_states, StateNames, StateRec)
  BY NewRecords DEF IsTable, configure_states
<1>2. IsTable(configure_counters, CounterNames, CounterRec)
  BY NewRecords DEF IsTable, configure_counters
<1>3. IsTable(configure_samples, SampleNames, SampleRec)
  BY NewRecords DEF IsTable, configure_samples
<1>4. IsTable(configure_rates, RateNames, RateRec)
  BY NewRecords DEF IsTable, configure_rates
<1> QED BY <1>1, <1>2, <1>3, <1>4

\* A function on 1..k is a sequence.
LEMMA FunctionIsSeq ==
    ASSUME NEW S, NEW k \in Nat, NEW g \in [1..k -> S]
    PROVE  g \in Seq(S)
OBVIOUS

\* binf_write() turns well-typed tables into a well-typed file.
LEMMA SaveFileTyped ==
    ASSUME NEW sts, IsTable(sts, StateNames, StateRec),
           NEW cts, IsTable(cts, CounterNames, CounterRec),
           NEW sms, IsTable(sms, SampleNames, SampleRec),
           NEW evs \in Seq(EventRec),
           NEW rts, IsTable(rts, RateNames, RateRec)
    PROVE  IsDataFile(SaveFile(sts, cts, sms, evs, rts))
<1>1. ASSUME NEW r \in StateRec PROVE s_write_state(r) \in SavedState
  BY DEF StateRec, SavedState, s_write_state
<1>2. ASSUME NEW r \in SampleRec PROVE s_write_sample(r) \in SampleRec
  <2>1. OnWire(r.min) \in Nat /\ OnWire(r.max) \in Nat /\ OnWire(r.sum) \in Nat
    BY OnWireTyped DEF SampleRec
  <2> QED BY <2>1, Zenon DEF SampleRec, s_write_sample
<1>3. IsTable([n \in DOMAIN sts |-> s_write_state(sts[n])],
              StateNames, SavedState)
  BY <1>1 DEF IsTable
<1>4. IsTable([n \in DOMAIN sms |-> s_write_sample(sms[n])],
              SampleNames, SampleRec)
  BY <1>2 DEF IsTable
<1>5. evs \in Seq(SavedEvent)
  <2>1. EventRec \subseteq SavedEvent
    BY DEF EventRec, SavedEvent
  <2> QED BY <2>1
<1> QED BY <1>3, <1>4, <1>5, Zenon DEF IsDataFile, SaveFile

\* So is the file of zeros.
LEMMA ZeroFileTyped == IsDataFile(ZeroFile)
<1>1. <<>> \in Seq(EventRec)
  OBVIOUS
<1> QED BY <1>1, SaveFileTyped, NoRecordsTable, Zenon DEF ZeroFile

\* And what a process that dies while it writes the file leaves of it.
LEMMA TornFilesTyped ==
    ASSUME NEW f, IsDataFile(f), NEW g \in TornFiles(f)
    PROVE  g \in {NoFile, EmptyFile} \/ IsDataFile(g)
<1>1. ASSUME NEW sts, IsTable(sts, StateNames, SavedState),
             NEW evs \in Seq(SavedEvent), NEW c, NEW m, NEW r
      PROVE  IsDataFile(TornFile(f, sts, c, m, evs, r))
  <2>1. /\ IsTable(Drop(f.counters, DOMAIN f.counters \ c), CounterNames,
                   CounterRec)
        /\ IsTable(Drop(f.samples, DOMAIN f.samples \ m), SampleNames, SampleRec)
        /\ IsTable(Drop(f.rates, DOMAIN f.rates \ r), RateNames, RateRec)
    BY DropTable DEF IsDataFile
  <2> QED BY <1>1, <2>1 DEF IsDataFile, TornFile
<1>2. ASSUME NEW S, NEW H
      PROVE  IsTable(Written(f.states, S, H), StateNames, SavedState)
  <2>1. IsTable(f.states, StateNames, SavedState)
    BY DEF IsDataFile
  <2>2. ASSUME NEW s \in SavedState
        PROVE  [s EXCEPT !.summary = Cut] \in SavedState
    BY DEF SavedState
  <2> QED BY <2>1, <2>2 DEF IsTable, Written
<1>3. f.events \in Seq(SavedEvent) /\ <<>> \in Seq(SavedEvent)
  BY DEF IsDataFile
<1>4. ASSUME NEW k \in 0..Len(f.events), NEW half \in BOOLEAN
      PROVE  FirstEvents(f.events, k, half) \in Seq(SavedEvent)
  <2>1. k \in Nat /\ \A i \in 1..k : f.events[i] \in SavedEvent
    BY <1>3
  <2>2. ASSUME NEW e \in SavedEvent
        PROVE  [e EXCEPT !.extra = Cut] \in SavedEvent
    BY DEF SavedEvent
  <2>3. FirstEvents(f.events, k, half) \in [1..k -> SavedEvent]
    BY <2>1, <2>2 DEF FirstEvents
  <2> QED BY <2>1, <2>3, FunctionIsSeq
<1>5. IsTable(f.states, StateNames, SavedState)
  BY DEF IsDataFile
<1>6. g = EmptyFile \/ \E sts, c, m, evs, r :
            /\ IsTable(sts, StateNames, SavedState)
            /\ evs \in Seq(SavedEvent)
            /\ g = TornFile(f, sts, c, m, evs, r)
  <2> DEFINE C == DOMAIN f.counters   M == DOMAIN f.samples
  <2>1. \/ g = EmptyFile
        \/ \E s, h : g = TornFile(f, Written(f.states, s, h), {}, {}, <<>>, {})
        \/ \E c : g = TornFile(f, f.states, c, {}, <<>>, {})
        \/ \E m : g = TornFile(f, f.states, C, m, <<>>, {})
        \/ \E k \in 0..Len(f.events), half \in BOOLEAN :
              g = TornFile(f, f.states, C, M, FirstEvents(f.events, k, half), {})
        \/ \E r : g = TornFile(f, f.states, C, M, f.events, r)
    BY DEF TornFiles
  <2> HIDE DEF C, M
  <2> QED BY <2>1, <1>2, <1>3, <1>4, <1>5, Zenon
<1> QED BY <1>1, <1>6

\* buffer_event() drops a number of events: what is above max.events, or the
\* ones up to the first that is not too old.
LEMMA SurplusTyped ==
    ASSUME NEW evs \in Seq(EventRec), NEW count \in Int,
           NEW k \in Surplus(evs, count)
    PROVE  k \in Nat
BY ConfigAssumption DEF Surplus

\* A piece of a sequence of events.
LEMMA PieceTyped ==
    ASSUME NEW evs \in Seq(EventRec), NEW m \in Nat \ {0}, NEW k \in Nat,
           k <= Len(evs)
    PROVE  /\ SubSeq(evs, m, k) \in Seq(EventRec)
           /\ Len(SubSeq(evs, m, k)) = IF m <= k THEN k - m + 1 ELSE 0
<1>1. Len(evs) \in Nat
  OBVIOUS
<1>2. \A i \in m..k : evs[i] \in EventRec
  BY <1>1
<1> QED BY <1>2

----------------------------------------------------------------------------
(* Type correctness, one lemma for each group of handlers.                 *)

\* SET.KEYS and DEL.KEYS.
LEMMA KeysType ==
    ASSUME TypeOK,
           NEW ks \in SUBSET Keys,
           DelKeys(ks) \/ \E kv \in [ks -> KeyValues] : SetKeys(kv)
    PROVE  TypeOK'
<1>1. PICK kv \in [ks -> KeyValues \cup {NULL}] : keys' = PutAll(keys, kv)
  BY DEF DelKeys, SetKeys
<1>2. IsTable(keys', Keys, KeyValues \cup {NULL})
  BY <1>1 DEF TypeOK, IsTable, PutAll
<1> QED BY <1>2 DEF TypeOK, DelKeys, SetKeys, db, disk

\* Nothing happens, as when a start dies before it changes anything.
LEMMA StutterType ==
    ASSUME TypeOK, UNCHANGED vars
    PROVE  TypeOK'
BY DEF TypeOK, vars, db, disk

\* A PDU without effect.
LEMMA DroppedType ==
    ASSUME TypeOK, Dropped
    PROVE  TypeOK'
BY DEF TypeOK, Dropped, db, disk

\* Time passes.
LEMMA AdvanceType ==
    ASSUME TypeOK, Advance
    PROVE  TypeOK'
<1>1. now' \in Nat
  BY DEF TypeOK, Advance
<1> QED BY <1>1 DEF TypeOK, Advance, db, disk

\* The STATE handler.
LEMMA SubmitStateType ==
    ASSUME TypeOK, NEW ts \in Stamps, NEW n \in StateNames, NEW code \in Codes,
           NEW m \in Messages, SubmitState(ts, n, code, m)
    PROVE  TypeOK'
<1> DEFINE new == [status |-> code, summary |-> m, last_seen |-> ts,
                   expiry |-> ts + Freshness[n], stale |-> FALSE,
                   ignore |-> FALSE]
<1>1. new \in StateRec
  BY InputAssumption, TypeAssumption DEF StateRec, Summary
<1>2. states' = Put(states, n, new)
  BY DEF SubmitState
<1> HIDE DEF new
<1>3. IsTable(states', StateNames, StateRec)
  BY <1>1, <1>2, PutTable, Zenon DEF TypeOK
<1> QED BY <1>3, Zenon DEF TypeOK, SubmitState, disk

\* The COUNTER handler.
LEMMA SubmitCounterType ==
    ASSUME TypeOK, NEW ts \in Stamps, NEW n \in CounterNames,
           NEW i \in Increments, SubmitCounter(ts, n, i)
    PROVE  TypeOK'
<1> DEFINE old == Find(counters, n, NewCounter)
           cur == IF Rollover(n, old, ts) THEN counter_reset(old) ELSE old
<1>1. counters' = Put(counters, n, counter_data(cur, ts, int32(i)))
  BY ZenonT(40) DEF SubmitCounter
<1>2. old \in CounterRec
  BY FindTyped, NewRecords DEF TypeOK
<1>3. cur \in CounterRec
  BY <1>2, ResetTyped
<1>4. ts \in Nat /\ int32(i) \in Int
  BY InputAssumption, Int32Typed
<1> HIDE DEF old, cur
<1>5. counter_data(cur, ts, int32(i)) \in CounterRec
  BY <1>3, <1>4, CounterDataTyped
<1>6. IsTable(counters', CounterNames, CounterRec)
  BY <1>1, <1>5, PutTable DEF TypeOK
<1> QED BY <1>6 DEF TypeOK, SubmitCounter, disk

\* The SAMPLE handler.
LEMMA SubmitSampleType ==
    ASSUME TypeOK, NEW ts \in Stamps, NEW n \in SampleNames,
           NEW b \in SampleBatches, SubmitSample(ts, n, b)
    PROVE  TypeOK'
<1> DEFINE old == Find(samples, n, NewSample)
           cur == IF Rollover(n, old, ts) THEN sample_reset(old) ELSE old
           new == [sample_data(cur, b) EXCEPT !.last_seen = ts]
<1>1. samples' = Put(samples, n, new)
  BY Zenon DEF SubmitSample
<1>2. old \in SampleRec
  BY FindTyped, NewRecords DEF TypeOK
<1>3. cur \in SampleRec
  BY <1>2, ResetTyped
<1>4. ts \in Nat
  BY InputAssumption
<1> HIDE DEF old, cur
<1>5. new \in SampleRec
  BY <1>3, <1>4, SampleDataTyped
<1> HIDE DEF new
<1>6. IsTable(samples', SampleNames, SampleRec)
  BY <1>1, <1>5, PutTable DEF TypeOK
<1> QED BY <1>6 DEF TypeOK, SubmitSample, disk

\* The RATE handler.
LEMMA SubmitRateType ==
    ASSUME TypeOK, NEW ts \in Stamps, NEW n \in RateNames,
           NEW v \in RateValues, SubmitRate(ts, n, v)
    PROVE  TypeOK'
<1> DEFINE old == Find(rates, n, NewRate)
           cur == IF Rollover(n, old, ts) THEN rate_reset(old) ELSE old
           fst == IF cur.first_seen = 0 THEN ts ELSE cur.first_seen
           new == [rate_data(cur, v) EXCEPT !.first_seen = fst,
                                            !.last_seen = ts]
<1>1. rates' = Put(rates, n, new)
  BY ZenonT(40) DEF SubmitRate
<1>2. old \in RateRec
  BY FindTyped, NewRecords DEF TypeOK
<1>3. cur \in RateRec
  BY <1>2, ResetTyped
<1>4. ts \in Nat /\ v \in Word
  BY InputAssumption
<1> HIDE DEF old, cur
<1>5. fst \in Nat
  BY <1>3, <1>4 DEF RateRec
<1> HIDE DEF fst
<1>6. new \in RateRec
  BY <1>3, <1>4, <1>5, RateDataTyped, Zenon
<1> HIDE DEF new
<1>7. IsTable(rates', RateNames, RateRec)
  BY <1>1, <1>6, PutTable, Zenon DEF TypeOK
<1> QED BY <1>7 DEF TypeOK, SubmitRate, disk

\* The EVENT handler, with the trimming of buffer_event().
LEMMA SubmitEventType ==
    ASSUME TypeOK, NEW ts \in Stamps, NEW x \in Extras, SubmitEvent(ts, x)
    PROVE  TypeOK'
<1> DEFINE ev  == [ts |-> ts, extra |-> x]
           evs == Append(events, ev)
<1>1. ev \in EventRec
  BY InputAssumption DEF EventRec
<1>2. \/ UNCHANGED <<events, events_count>>
      \/ \E k \in Surplus(evs, events_count + 1) :
            /\ events' = SubSeq(evs, k + 1, Len(evs))
            /\ events_count' = events_count + 1 - k
  BY Zenon DEF SubmitEvent
<1> HIDE DEF ev
<1>3. evs \in Seq(EventRec) /\ Len(evs) \in Nat
  BY <1>1 DEF TypeOK
<1> HIDE DEF evs
<1>4. ASSUME NEW k \in Surplus(evs, events_count + 1)
      PROVE  /\ SubSeq(evs, k + 1, Len(evs)) \in Seq(EventRec)
             /\ events_count + 1 - k \in Int
  <2>1. k \in Nat
    BY <1>3, SurplusTyped DEF TypeOK
  <2> QED BY <1>3, <2>1, PieceTyped DEF TypeOK
<1>5. events' \in Seq(EventRec) /\ events_count' \in Int
  BY <1>2, <1>4, Zenon DEF TypeOK
<1> QED BY <1>5 DEF TypeOK, SubmitEvent, disk

\* The tables that a TOCK leaves.
LEMMA TockTables ==
    ASSUME TypeOK
    PROVE  /\ IsTable(tock_states, StateNames, StateRec)
           /\ IsTable(tock_counters, CounterNames, CounterRec)
           /\ IsTable(tock_samples, SampleNames, SampleRec)
           /\ IsTable(tock_rates, RateNames, RateRec)
<1>1. ASSUME NEW n \in DOMAIN states PROVE MarkStale(n) \in StateRec
  <2>1. states[n] \in StateRec /\ n \in StateNames /\ now \in Nat
    BY DEF TypeOK, IsTable
  <2>2. now + Freshness[n] \in Nat /\ StaleStatus[n] \in 0..255
    BY <2>1, TypeAssumption
  <2> QED BY <2>1, <2>2, Zenon DEF MarkStale, StateRec, Summary
<1>2. IsTable(tock_states, StateNames, StateRec)
  BY <1>1 DEF TypeOK, IsTable, tock_states
<1>3. IsTable(tock_counters, CounterNames, CounterRec)
  BY ResetTyped DEF TypeOK, IsTable, tock_counters
<1>4. IsTable(tock_samples, SampleNames, SampleRec)
  BY ResetTyped DEF TypeOK, IsTable, tock_samples
<1>5. IsTable(tock_rates, RateNames, RateRec)
  BY ResetTyped DEF TypeOK, IsTable, tock_rates
<1> QED BY <1>2, <1>3, <1>4, <1>5

\* What a save may leave on the disk, also if the process dies in it.
DiskOK == /\ savefile \in {NoFile, EmptyFile} \/ IsDataFile(savefile)
          /\ IsTable(keysfile, Keys, KeyValues)

\* binf_write() leaves the old file, an empty one, zeros or the new one.
LEMMA WriteType ==
    ASSUME TypeOK, NEW f, IsDataFile(f), NEW g \in binf_write(f)
    PROVE  g \in {NoFile, EmptyFile} \/ IsDataFile(g)
BY ZeroFileTyped, Zenon DEF TypeOK, binf_write

\* save_keys() leaves the old lines, or the new ones or some of them.
LEMMA KeysWriteType ==
    ASSUME TypeOK, NEW g \in save_keys(keys) \cup TornKeys(keys)
    PROVE  IsTable(g, Keys, KeyValues)
<1>1. \A S \in SUBSET LiveKeys(keys) :
          IsTable([k \in S |-> keys[k]], Keys, KeyValues)
  BY DEF TypeOK, IsTable, LiveKeys
<1> QED BY <1>1 DEF TypeOK, save_keys, TornKeys

\* A save, whether it ends, fails or dies, leaves well-typed files.
LEMMA SaveType ==
    ASSUME TypeOK, NEW f, IsDataFile(f),
           \/ savefile' \in binf_write(f) /\ keysfile' \in save_keys(keys)
           \/ TornSave(f)
           \/ UNCHANGED disk
    PROVE  DiskOK'
<1>1. CASE savefile' \in binf_write(f) /\ keysfile' \in save_keys(keys)
  BY <1>1, WriteType, KeysWriteType DEF DiskOK
<1>2. CASE TornSave(f)
  <2>1. CASE savefile' \in TornFiles(f) /\ UNCHANGED keysfile
    BY <2>1, TornFilesTyped DEF DiskOK, TypeOK
  <2>2. CASE savefile' \in binf_write(f) /\ keysfile' \in TornKeys(keys)
    BY <2>2, WriteType, KeysWriteType DEF DiskOK
  <2> QED BY <1>2, <2>1, <2>2 DEF TornSave
<1>3. CASE UNCHANGED disk
  BY <1>3, Zenon DEF DiskOK, TypeOK, disk
<1> QED BY <1>1, <1>2, <1>3

\* What a TOCK and a SAVESTATE write.
LEMMA FilesTyped ==
    ASSUME TypeOK
    PROVE  IsDataFile(tock_file) /\ IsDataFile(cur_file)
BY TockTables, SaveFileTyped, Zenon DEF TypeOK, tock_file, cur_file

\* The TOCK handler.
LEMMA TockType ==
    ASSUME TypeOK, Tock
    PROVE  TypeOK'
<1>1. DiskOK'
  BY FilesTyped, SaveType, Zenon DEF Tock
<1>2. last' \in [tick : Nat, sweep : Nat, freshness : Nat, savestate : Nat]
  <2>1. /\ (IF TickDue THEN now ELSE last.tick) \in Nat
        /\ (IF SweepDue THEN now ELSE last.sweep) \in Nat
        /\ (IF FreshDue THEN now ELSE last.freshness) \in Nat
        /\ (IF SaveDue THEN now ELSE last.savestate) \in Nat
    BY Zenon DEF TypeOK
  <2> QED BY <2>1 DEF Tock
<1> QED BY <1>1, <1>2, TockTables, Zenon DEF TypeOK, DiskOK, Tock

\* The end of the process, wherever it comes.
LEMMA DeadType ==
    ASSUME TypeOK, Dead, DiskOK'
    PROVE  TypeOK'
<1>1. stops' \in 0..MaxStops
  <2>1. stops \in Nat /\ stops < MaxStops /\ stops' = stops + 1
    BY BoundAssumption DEF TypeOK, Dead
  <2> QED BY <2>1, BoundAssumption
<1>4. up' \in BOOLEAN /\ now' \in Nat
  BY Zenon DEF TypeOK, Dead
<1>2. last' \in [tick : Nat, sweep : Nat, freshness : Nat, savestate : Nat]
  BY DEF Dead, Timers
<1>3. events' \in Seq(EventRec) /\ events_count' \in Int
  BY DEF Dead
<1> QED BY <1>1, <1>2, <1>3, <1>4, NoRecordsTable DEF TypeOK, DiskOK, Dead

\* The three ways in which the process ends.
LEMMA StopType ==
    ASSUME TypeOK, Stop \/ TockDies \/ SaveStateDies
    PROVE  TypeOK'
<1>1. CASE Stop
  <2>1. DiskOK'
    BY <1>1, SaveType, FilesTyped DEF Stop
  <2> QED BY <1>1, <2>1, DeadType DEF Stop
<1>2. CASE TockDies
  <2>1. DiskOK'
    BY <1>2, SaveType, FilesTyped DEF TockDies
  <2> QED BY <1>2, <2>1, DeadType DEF TockDies
<1>3. CASE SaveStateDies
  <2>1. DiskOK'
    BY <1>3, SaveType, FilesTyped, ZenonT(40) DEF SaveStateDies
  <2> QED BY <1>3, <2>1, DeadType DEF SaveStateDies
<1> QED BY <1>1, <1>2, <1>3

\* The SAVESTATE handler.
LEMMA SaveStateType ==
    ASSUME TypeOK, SaveState
    PROVE  TypeOK'
<1>1. DiskOK'
  BY FilesTyped, SaveType, ZenonT(40) DEF SaveState
<1> QED BY <1>1 DEF TypeOK, DiskOK, SaveState, db

\* The FORGET handler.
LEMMA ForgetType ==
    ASSUME TypeOK, NEW p, NEW ig \in BOOLEAN, Forget(p, ig)
    PROVE  TypeOK'
<1>1. /\ IsTable(states', StateNames, StateRec)
      /\ IsTable(counters', CounterNames, CounterRec)
      /\ IsTable(samples', SampleNames, SampleRec)
      /\ IsTable(rates', RateNames, RateRec)
  BY ForgottenTable, IgnoreTyped, Zenon DEF TypeOK, Forget
<1> QED BY <1>1 DEF TypeOK, Forget, disk

\* A start restores well-typed tables from a well-typed file.
LEMMA BootType ==
    ASSUME TypeOK, Boot
    PROVE  TypeOK'
<1> DEFINE f == IF savefile = NoFile THEN ZeroFile ELSE savefile
           whole == Blank(f) = {}
<1>1. IsDataFile(f)
  BY ZeroFileTyped DEF TypeOK, Boot
<1>2. binf_read(f)
  BY ZenonT(40) DEF Boot
<1> HIDE DEF f
<1>3. ASSUME NEW n \in StateNames, NEW r \in SavedState
      PROVE  read_state(n, r) \in StateRec
  <2>1. NewState(Freshness[n], now).expiry \in Nat
    BY NewRecords, Zenon DEF TypeOK, StateRec
  <2>2. (IF r.summary = Cut THEN NoText ELSE r.summary) \in Summary
    BY DEF SavedState, Summary
  <2> QED BY <2>1, <2>2 DEF read_state, SavedState, StateRec
<1>4. PICK k \in 0..Len(f.events) :
        /\ events' = [i \in 1..k |-> read_event(f.events[i])]
        /\ rates' = Restored(configure_rates, IF whole /\ k = Len(f.events)
                                              THEN f.rates ELSE NoRecords)
  <2>1. f.events \in Seq(SavedEvent)
    BY <1>1, Zenon DEF IsDataFile
  <2>2. Readable(f.events) \cup {0} \subseteq 0..Len(f.events)
    BY <2>1 DEF Readable
  <2>3. (IF whole THEN Readable(f.events) ELSE {0}) \subseteq 0..Len(f.events)
    BY <2>2, Zenon
  <2> QED BY <1>2, <2>3, Zenon DEF binf_read
<1>5. IsTable(states', StateNames, StateRec)
  <2>1. PICK S \in ReadStates(f) : states' =
            Restored(configure_states, [n \in S |-> read_state(n, f.states[n])])
    BY <1>2, Zenon DEF binf_read
  <2>2. S \subseteq DOMAIN f.states
    BY Zenon DEF ReadStates
  <2>3. IsTable([n \in S |-> read_state(n, f.states[n])], StateNames, StateRec)
    BY <1>1, <1>3, <2>2 DEF IsDataFile, IsTable
  <2> QED BY <2>1, <2>3, RestoredTable, ConfigureTyped DEF TypeOK
<1>6. /\ IsTable(counters', CounterNames, CounterRec)
      /\ IsTable(samples', SampleNames, SampleRec)
      /\ IsTable(rates', RateNames, RateRec)
  <2> DEFINE all == whole /\ k = Len(f.events)
  <2>1. /\ counters' = Restored(configure_counters,
                                IF whole THEN f.counters ELSE NoRecords)
        /\ samples' = Restored(configure_samples,
                               IF whole THEN f.samples ELSE NoRecords)
        /\ rates' = Restored(configure_rates,
                             IF all THEN f.rates ELSE NoRecords)
    BY <1>2, <1>4, Zenon DEF binf_read
  <2> HIDE DEF whole, all
  <2>2. /\ IsTable(IF whole THEN f.counters ELSE NoRecords, CounterNames, CounterRec)
        /\ IsTable(IF whole THEN f.samples ELSE NoRecords, SampleNames, SampleRec)
        /\ IsTable(IF all THEN f.rates ELSE NoRecords, RateNames, RateRec)
    BY <1>1, NoRecordsTable DEF IsDataFile
  <2> QED BY <2>1, <2>2, RestoredTable, ConfigureTyped, Zenon DEF TypeOK
<1>8. events' \in Seq(EventRec) /\ events_count' \in Int
  <2>1. events_count' = 0
    BY <1>2 DEF binf_read, RestoredCount
  <2>2. k \in Nat /\ \A i \in 1..k : f.events[i] \in SavedEvent
    BY <1>1, <1>4 DEF IsDataFile
  <2>3. ASSUME NEW e \in SavedEvent PROVE read_event(e) \in EventRec
    BY Zenon DEF read_event, SavedEvent, EventRec
  <2>4. events' \in [1..k -> EventRec]
    BY <1>4, <2>2, <2>3, Zenon
  <2> QED BY <2>1, <2>2, <2>4, FunctionIsSeq
<1>9. IsTable(keys', Keys, KeyValues \cup {NULL})
  BY KeysAssumption, Zenon DEF TypeOK, IsTable, Boot, read_keys
<1>10. last' \in [tick : Nat, sweep : Nat, freshness : Nat, savestate : Nat]
  BY Zenon DEF Boot, Timers
<1> QED BY <1>5, <1>6, <1>8, <1>9, <1>10, ZenonT(40) DEF TypeOK, Boot, disk

\* The first start.
LEMMA InitType ==
    ASSUME Init
    PROVE  TypeOK
<1>1. now \in Nat /\ up \in BOOLEAN /\ stops \in 0..MaxStops
  BY BoundAssumption DEF Init
<1>2. /\ IsTable(states, StateNames, StateRec)
      /\ IsTable(counters, CounterNames, CounterRec)
      /\ IsTable(samples, SampleNames, SampleRec)
      /\ IsTable(rates, RateNames, RateRec)
  BY <1>1, ConfigureTyped DEF Init
<1>3. last \in [tick : Nat, sweep : Nat, freshness : Nat, savestate : Nat]
  BY DEF Init, Timers
<1> QED BY <1>1, <1>2, <1>3, NoRecordsTable DEF Init, TypeOK

\* Every step of the kernel keeps the types.
LEMMA NextType ==
    ASSUME TypeOK, [Next]_vars
    PROVE  TypeOK'
<1>1. CASE Listener
  BY <1>1, SubmitStateType, SubmitCounterType, SubmitSampleType,
     SubmitRateType, SubmitEventType, KeysType, DroppedType DEF Listener
<1>2. CASE Management
  BY <1>2, SaveStateType, ForgetType, KeysType DEF Management
<1>3. CASE Tock
  BY <1>3, TockType
<1>4. CASE Process
  BY <1>4, StopType, BootType, StutterType DEF Process, BootDies
<1>5. CASE Advance
  BY <1>5, AdvanceType
<1>6. CASE UNCHANGED vars
  BY <1>6, StutterType
<1> QED BY <1>1, <1>2, <1>3, <1>4, <1>5, <1>6, ZenonT(40) DEF Next

\* The variables of the kernel and its files always hold what their C types
\* allow, whatever the configuration, the clients and the disk do.
THEOREM TypeCorrect == Spec => []TypeOK
<1>1. Init => TypeOK
  BY InitType
<1>2. TypeOK /\ [Next]_vars => TypeOK'
  BY NextType
<1> QED BY <1>1, <1>2, PTL DEF Spec

----------------------------------------------------------------------------
(* The event buffer.                                                       *)

\* With max.events a number, buffer_event() drops what is above it.
LEMMA SurplusNumber ==
    ASSUME KeepNumber, NEW evs, NEW count \in Int, NEW k \in Surplus(evs, count)
    PROVE  k = IF count > MaxEvents THEN count - MaxEvents ELSE 0
BY SMT DEF Surplus

\* Appending the new event and trimming the list keeps the count in bounds.
LEMMA SubmitEventTrim ==
    ASSUME TypeOK, TrimInBounds,
           NEW ts \in Stamps, NEW x \in Extras, SubmitEvent(ts, x)
    PROVE  TrimInBounds'
<1> DEFINE ev  == [ts |-> ts, extra |-> x]
           evs == Append(events, ev)
<1> SUFFICES ASSUME KeepNumber
             PROVE  /\ 0 <= events_count' /\ events_count' <= Len(events')
                    /\ events_count' <= MaxEvents
  BY DEF TrimInBounds
<1>1. /\ MaxEvents \in Nat /\ events_count \in Int /\ Len(events) \in Nat
      /\ 0 <= events_count /\ events_count <= Len(events)
      /\ events_count <= MaxEvents
  BY ConfigAssumption DEF TypeOK, TrimInBounds
<1>2. CASE MaxEvents > 0
  <2>1. ev \in EventRec
    BY InputAssumption, Zenon DEF EventRec
  <2>2. PICK k \in Surplus(evs, events_count + 1) :
            /\ events' = SubSeq(evs, k + 1, Len(evs))
            /\ events_count' = events_count + 1 - k
    BY <1>2, Zenon DEF SubmitEvent
  <2> HIDE DEF ev
  <2>3. evs \in Seq(EventRec) /\ Len(evs) = Len(events) + 1
    BY <2>1 DEF TypeOK
  <2>4. k = IF events_count + 1 > MaxEvents THEN events_count + 1 - MaxEvents
                                            ELSE 0
    <3> HIDE DEF evs
    <3> QED BY <1>1, SurplusNumber
  <2> HIDE DEF evs
  <2>5. k \in Nat /\ k <= Len(evs)
    BY <1>1, <2>3, <2>4
  <2>6. Len(events') = Len(evs) - k
    <3>1. Len(events') = IF k + 1 <= Len(evs) THEN Len(evs) - (k + 1) + 1 ELSE 0
      BY <1>1, <2>3, <2>2, <2>5, PieceTyped
    <3> QED BY <1>1, <2>3, <2>5, <3>1
  <2>7. events_count' <= Len(events')
    BY <1>1, <2>3, <2>2, <2>5, <2>6
  <2>8. 0 <= events_count' /\ events_count' <= MaxEvents
    <3>1. CASE events_count + 1 > MaxEvents
      BY <1>1, <2>4, <2>2, <3>1
    <3>2. CASE ~(events_count + 1 > MaxEvents)
      BY <1>1, <2>4, <2>2, <3>2
    <3> QED BY <3>1, <3>2
  <2> QED BY <2>7, <2>8
<1>3. CASE ~(MaxEvents > 0)
  BY <1>1, <1>3 DEF SubmitEvent
<1> QED BY <1>2, <1>3

\* Apart from that, only the end and the start of the process change the
\* buffer or its count.
LEMMA TrimKept ==
    ASSUME TypeOK, TrimInBounds,
           \/ UNCHANGED <<events, events_count>>
           \/ events' = <<>> /\ events_count' = 0
           \/ events' \in Seq(EventRec) /\ events_count' = 0
    PROVE  TrimInBounds'
<1>1. MaxEvents \in Nat
  BY ConfigAssumption
<1>2. CASE UNCHANGED <<events, events_count>>
  BY <1>2 DEF TrimInBounds
<1>3. CASE events' \in Seq(EventRec) /\ events_count' = 0
  <2>1. Len(events') \in Nat
    BY <1>3
  <2> QED BY <1>1, <1>3, <2>1 DEF TrimInBounds
<1>4. <<>> \in Seq(EventRec)
  OBVIOUS
<1> QED BY <1>2, <1>3, <1>4, Zenon

\* The trimming loop of buffer_event() never runs off the list, for any
\* max.events and across any number of restarts, although the events that
\* binf_read() restores are not counted.
THEOREM TrimSafe == Spec => []TrimInBounds
<1>1. Init => TrimInBounds
  BY ConfigAssumption DEF Init, TrimInBounds
<1>2. TypeOK /\ TypeOK' /\ TrimInBounds /\ [Next]_vars => TrimInBounds'
  <2> SUFFICES ASSUME TypeOK, TypeOK', TrimInBounds, [Next]_vars
               PROVE  TrimInBounds'
    OBVIOUS
  <2>1. ASSUME NEW ts \in Stamps, NEW x \in Extras, SubmitEvent(ts, x)
        PROVE  TrimInBounds'
    BY <2>1, SubmitEventTrim, Zenon
  <2>2. CASE Stop \/ TockDies \/ SaveStateDies
    BY <2>2, TrimKept DEF Stop, TockDies, SaveStateDies, Dead
  <2>3. CASE Boot
    <3>1. events' \in Seq(EventRec)
      BY DEF TypeOK
    <3>2. events_count' = 0
      BY <2>3, Zenon DEF Boot, binf_read, RestoredCount
    <3> QED BY <3>1, <3>2, TrimKept, Zenon
  <2>4. CASE UNCHANGED <<events, events_count>>
    BY <2>4, TrimKept
  <2>5. \/ \E ts \in Stamps, x \in Extras : SubmitEvent(ts, x)
        \/ Stop \/ TockDies \/ SaveStateDies
        \/ Boot
        \/ UNCHANGED <<events, events_count>>
    BY ZenonT(40) DEF Next, Listener, Management, Process, SubmitState,
                      SubmitCounter,
           SubmitSample, SubmitRate, SetKeys, Dropped, SaveState, Forget,
           DelKeys, Tock, BootDies, Advance, vars, db
  <2> QED BY <2>1, <2>2, <2>3, <2>4, <2>5
<1> QED BY <1>1, <1>2, TypeCorrect, PTL DEF Spec

=============================================================================
