---------------------------- MODULE MetricProofs ----------------------------
(***************************************************************************)
(* The books of counters and samples balance, and every window of one is   *)
(* broadcast at most once as long as its clients keep to the grace period, *)
(* for every configuration, every set of clients and any number of         *)
(* restarts: WindowLedger and OncePerWindow of module KernelHistory as     *)
(* theorems.                                                               *)
(***************************************************************************)
EXTENDS KernelHistory, KernelProofs

----------------------------------------------------------------------------
(* The history variables only observe.                                     *)

\* A step with its observation is a step of the kernel.
LEMMA HStep ==
    ASSUME [HNext]_hvars
    PROVE  [Next]_vars
<1>1. CASE HListener
  BY <1>1, Zenon DEF HListener, HSubmitState, HSubmitCounter, HSubmitSample,
     HSubmitRate, HSubmitEvent, HSetKeys, HDropped, Next, Listener
<1>2. CASE HTock \/ HTockDies \/ HSaveStateDies \/ HStop \/ HBoot
           \/ HBootDies \/ HAdvance
  BY <1>2 DEF HTock, HTockDies, HSaveStateDies, HStop, HBoot, HBootDies,
     HAdvance, Next, Process
<1>3. CASE HSaveState \/ HForget \/ HDelKeys
  BY <1>3, Zenon DEF HSaveState, HForget, HDelKeys, Next, Management
<1>4. CASE UNCHANGED hvars
  BY <1>4 DEF hvars
<1> QED BY <1>1, <1>2, <1>3, <1>4 DEF HNext

\* So what is proved of the kernel holds of the kernel that is observed: the
\* types, for instance.
THEOREM ObservedTypes == HSpec => []TypeOK
<1>1. HInit => TypeOK
  BY InitType DEF HInit
<1>2. TypeOK /\ [HNext]_hvars => TypeOK'
  BY HStep, NextType
<1> QED BY <1>1, <1>2, PTL DEF HSpec

----------------------------------------------------------------------------
(* What a step does to counter or sample n.                                *)

\* When n last got a value of the open window, and what it holds of it.
Seen(n) == IF n \in DOMAIN Dp(n) THEN Dp(n)[n].last_seen ELSE 0
Held(n) == IF n \in DOMAIN Dp(n) THEN Amount(n, Dp(n)[n]) ELSE 0

\* The step sends nothing for n.
Silent(n) == ~(\E p \in out' : /\ p.type \in {"COUNTER", "SAMPLE"}
                               /\ p.name = n)

\* The step sends what n holds, for the window it holds it of, and nothing
\* else for n.
Sends(n) ==
    \E p \in out' :
        /\ p.ts = winstart(n, Seen(n)) /\ Carried(p) = Held(n)
        /\ p.type \in {"COUNTER", "SAMPLE"} /\ p.name = n
        /\ \A q \in out' : q.type \in {"COUNTER", "SAMPLE"} /\ q.name = n
                              => q = p

\* n is not concerned.
Idles(n) == Silent(n) /\ Seen(n)' = Seen(n) /\ Held(n)' = Held(n)

\* An amount stamped ts joins what n holds.
Joins(n, ts, amount) ==
    /\ Seen(n) = 0 \/ winstart(n, Seen(n)) = winstart(n, ts)
    /\ Silent(n) /\ Seen(n)' = ts
    /\ Held(n)' % U64 = (Held(n) + amount) % U64

\* It is of another window: that one is opened after the old one is sent.
Turns(n, ts, amount) ==
    /\ Seen(n) # 0 /\ winstart(n, Seen(n)) # winstart(n, ts)
    /\ Sends(n) /\ Seen(n)' = ts /\ Held(n)' % U64 = amount % U64

\* The window of n is sent after the grace period.
Closes(n) == /\ Seen(n) # 0 /\ winend(n, Seen(n)) < now - Grace
             /\ Sends(n)

\* n holds nothing afterwards.
Empties(n) == Seen(n)' = 0 /\ Held(n)' = 0

\* The types of what n holds.
LEMMA HeldTyped ==
    ASSUME TypeOK, NEW n \in Ledgered
    PROVE  /\ Seen(n) \in Nat /\ Held(n) \in Nat /\ n \in Metrics
           /\ winstart(n, Seen(n)) \in Nat
<1>1. Seen(n) \in Nat /\ Held(n) \in Nat
  <2>1. CASE n \in CounterNames
    BY <2>1, WordAssumption DEF TypeOK, IsTable, CounterRec, Word, Seen, Held,
       Dp, Amount
  <2>2. CASE n \notin CounterNames
    BY <2>2 DEF TypeOK, IsTable, SampleRec, Seen, Held, Dp, Amount
  <2> QED BY <2>1, <2>2
<1>2. n \in Metrics
  BY DEF Ledgered, Metrics
<1> QED BY <1>1, <1>2, WinstartBounds

\* What is held back of a window, in these terms.
LEMMA PendingIs ==
    ASSUME NEW n, NEW w
    PROVE  /\ Pending(n, w) = IF Seen(n) # 0 /\ winstart(n, Seen(n)) = w
                              THEN Held(n) ELSE 0
           /\ Pending(n, w)' = IF Seen(n)' # 0 /\ winstart(n, Seen(n)') = w
                               THEN Held(n)' ELSE 0
BY DEF Pending, Seen, Held, winstart

\* What a step sends, in these terms.
LEMMA SilentSends ==
    ASSUME NEW n, Silent(n)
    PROVE  SentFor(n) = {} /\ \A w : Sent(n, w) = 0
BY DEF Silent, SentFor, Sent, Carries

\* The one PDU for n is for one window, and carries all that is held of it.
LEMMA SendsOnce ==
    ASSUME NEW n, Sends(n)
    PROVE  /\ SentFor(n) \subseteq {winstart(n, Seen(n))}
           /\ \A w : Sent(n, w) = IF w = winstart(n, Seen(n)) THEN Held(n)
                                                              ELSE 0
<1> PICK p \in out' :
        /\ p.ts = winstart(n, Seen(n)) /\ Carried(p) = Held(n)
        /\ p.type \in {"COUNTER", "SAMPLE"} /\ p.name = n
        /\ \A q \in out' : q.type \in {"COUNTER", "SAMPLE"} /\ q.name = n
                              => q = p
  BY DEF Sends
<1>1. \A q \in out' : \A w : Carries(q, n, w) => q = p /\ w = p.ts
  BY DEF Carries
<1>2. Carries(p, n, p.ts)
  BY DEF Carries
<1>3. SentFor(n) \subseteq {winstart(n, Seen(n))}
  BY <1>1 DEF SentFor
<1>4. ASSUME NEW w
      PROVE  Sent(n, w) = IF w = winstart(n, Seen(n)) THEN Held(n) ELSE 0
  <2>1. CASE w = p.ts
    <3>1. (CHOOSE q \in out' : Carries(q, n, w)) = p
      BY <1>1, <1>2, <2>1
    <3> QED BY <1>2, <2>1, <3>1, Zenon DEF Sent
  <2>2. CASE w # p.ts
    BY <1>1, <2>2 DEF Sent
  <2> QED BY <2>1, <2>2
<1> QED BY <1>3, <1>4

\* A submission for a counter, and what it is to every counter and sample.
LEMMA SubmitCounterLedger ==
    ASSUME TypeOK, NEW ts \in Stamps, NEW n \in CounterNames,
           NEW i \in Increments, SubmitCounter(ts, n, i)
    PROVE  /\ Joins(n, ts, int32(i)) \/ Turns(n, ts, int32(i))
           /\ \A m \in Ledgered \ {n} : Idles(m)
<1> DEFINE old == Find(counters, n, NewCounter)
           cur == IF Rollover(n, old, ts) THEN counter_reset(old) ELSE old
           new == counter_data(cur, ts, int32(i))
<1>1. /\ counters' = Put(counters, n, new) /\ samples' = samples
      /\ out' = IF Rollover(n, old, ts) THEN {broadcast_counter(n, old)} ELSE {}
  BY DEF SubmitCounter
<1>2. old \in CounterRec /\ cur \in CounterRec
  BY FindTyped, NewRecords, ResetTyped, Zenon DEF TypeOK
<1>3. Seen(n) = old.last_seen /\ Held(n) = old.value /\ Seen(n) \in Nat
  BY <1>2, Zenon DEF Seen, Held, Dp, Amount, Find, NewCounter, CounterRec
<1>4. Seen(n)' = new.last_seen /\ Held(n)' = new.value
  BY <1>1 DEF Seen, Held, Dp, Amount, Put
<1>5. new.last_seen = ts /\ new.value = (cur.value + int32(i)) % U64
  BY <1>2, Zenon DEF counter_data, CounterRec
<1>6. new.value % U64 = (cur.value + int32(i)) % U64
  <2>1. int32(i) \in Int
    BY Int32Typed, InputAssumption
  <2>2. cur.value + int32(i) \in Int /\ U64 \in Nat \ {0}
    BY <1>2, <2>1, WordAssumption DEF CounterRec, Word
  <2> QED BY <1>5, <2>2, RemainderAdd
<1>7. ASSUME NEW m \in Ledgered \ {n} PROVE Idles(m)
  <2>1. Seen(m)' = Seen(m) /\ Held(m)' = Held(m)
    BY <1>1 DEF Seen, Held, Dp, Amount, Put
  <2>2. Silent(m)
    BY <1>1 DEF Silent, broadcast_counter
  <2> QED BY <2>1, <2>2, Zenon DEF Idles
<1>8. CASE Rollover(n, old, ts)
  <2>1. cur.value + int32(i) = int32(i)
    <3>1. cur.value = 0
      BY <1>2, <1>8, Zenon DEF counter_reset, CounterRec
    <3> QED BY <3>1, Int32Typed, InputAssumption
  <2>2. Seen(n) # 0 /\ winstart(n, Seen(n)) # winstart(n, ts)
    BY <1>3, <1>8 DEF Rollover
  <2>3. Sends(n)
    <3>1. out' = {broadcast_counter(n, old)}
      BY <1>1, <1>8, ZenonT(40)
    <3> QED BY <1>3, <3>1 DEF Sends, broadcast_counter, Carried
  <2>4. Turns(n, ts, int32(i))
    BY <1>4, <1>5, <1>6, <2>1, <2>2, <2>3 DEF Turns
  <2> QED BY <1>7, <2>4, Zenon
<1>9. CASE ~Rollover(n, old, ts)
  <2>1. Seen(n) = 0 \/ winstart(n, Seen(n)) = winstart(n, ts)
    BY <1>3, <1>9 DEF Rollover
  <2>2. Silent(n)
    BY <1>1, <1>9, ZenonT(40) DEF Silent
  <2>3. Joins(n, ts, int32(i))
    BY <1>3, <1>4, <1>5, <1>6, <1>9, <2>1, <2>2 DEF Joins
  <2> QED BY <1>7, <2>3
<1> QED BY <1>8, <1>9

\* A submission for a sample.
LEMMA SubmitSampleLedger ==
    ASSUME TypeOK, NEW ts \in Stamps, NEW n \in SampleNames,
           NEW b \in SampleBatches, SubmitSample(ts, n, b)
    PROVE  /\ Joins(n, ts, b.sum) \/ Turns(n, ts, b.sum)
           /\ \A m \in Ledgered \ {n} : Idles(m)
<1> DEFINE old == Find(samples, n, NewSample)
           cur == IF Rollover(n, old, ts) THEN sample_reset(old) ELSE old
           new == [sample_data(cur, b) EXCEPT !.last_seen = ts]
<1>1. /\ samples' = Put(samples, n, new) /\ counters' = counters
      /\ out' = IF Rollover(n, old, ts) THEN {broadcast_sample(n, old)} ELSE {}
  BY DEF SubmitSample
<1>2. old \in SampleRec /\ cur \in SampleRec
  BY FindTyped, NewRecords, ResetTyped DEF TypeOK
<1>3. n \notin CounterNames
  BY KindsAssumption, ZenonT(40)
<1>4. Seen(n) = old.last_seen /\ Held(n) = old.sum /\ Seen(n) \in Nat
  BY <1>2, <1>3 DEF Seen, Held, Dp, Amount, Find, NewSample, SampleRec
<1>5. Seen(n)' = new.last_seen /\ Held(n)' = new.sum
  BY <1>1, <1>3, Zenon DEF Seen, Held, Dp, Amount, Put
<1>6. new.last_seen = ts /\ new.sum = cur.sum + b.sum
  BY <1>2 DEF sample_data, SampleRec
<1>7. b.sum \in Nat
  BY InputAssumption
<1>8. ASSUME NEW m \in Ledgered \ {n} PROVE Idles(m)
  <2>1. Seen(m)' = Seen(m) /\ Held(m)' = Held(m)
    BY <1>1 DEF Seen, Held, Dp, Amount, Put
  <2>2. Silent(m)
    BY <1>1 DEF Silent, broadcast_sample
  <2> QED BY <2>1, <2>2 DEF Idles
<1>9. CASE Rollover(n, old, ts)
  <2>1. new.sum = b.sum
    BY <1>2, <1>6, <1>7, <1>9 DEF sample_reset, SampleRec
  <2>2. Seen(n) # 0 /\ winstart(n, Seen(n)) # winstart(n, ts)
    BY <1>4, <1>9 DEF Rollover
  <2>3. Sends(n)
    <3>1. out' = {broadcast_sample(n, old)}
      BY <1>1, <1>9
    <3> QED BY <1>4, <3>1 DEF Sends, broadcast_sample, Carried
  <2>4. Turns(n, ts, b.sum)
    BY <1>5, <1>6, <2>1, <2>2, <2>3 DEF Turns
  <2> QED BY <1>8, <2>4
<1>10. CASE ~Rollover(n, old, ts)
  <2>1. Seen(n) = 0 \/ winstart(n, Seen(n)) = winstart(n, ts)
    BY <1>4, <1>10 DEF Rollover
  <2>2. Silent(n)
    BY <1>1, <1>10 DEF Silent
  <2>3. Joins(n, ts, b.sum)
    BY <1>4, <1>5, <1>6, <1>10, <2>1, <2>2 DEF Joins
  <2> QED BY <1>8, <2>3
<1> QED BY <1>9, <1>10

\* The PDUs of a TOCK for counters and samples are those of closed windows.
LEMMA TockCarries ==
    ASSUME NEW p \in tock_out, p.type \in {"COUNTER", "SAMPLE"}
    PROVE  \/ \E m \in Flush(counters) : p = broadcast_counter(m, counters[m])
           \/ \E m \in Flush(samples) : p = broadcast_sample(m, samples[m])
<1>1. /\ \A n, r : broadcast_rate(n, r).type = "RATE"
      /\ \A ks : \A q \in broadcast_setkeys(ks) : q.type = "SET.KEYS"
      /\ beacon_sweep.type = "BEACON"
  BY DEF broadcast_rate, broadcast_setkeys, beacon_sweep
<1>2. \A n, s, t : \A q \in broadcast_state(n, s, t) :
            q.type \in {"STATE", "TRANSITION"}
  BY DEF broadcast_state, StatePDU
<1> QED BY <1>1, <1>2 DEF tock_out

\* A TOCK sends the closed windows, and resets them.
LEMMA TockSends ==
    ASSUME TypeOK, out' = tock_out, NEW n \in Ledgered
    PROVE  IF n \in Flush(Dp(n)) THEN Closes(n) ELSE Silent(n)
<1>1. /\ Flush(counters) \subseteq DOMAIN counters
      /\ Flush(samples) \subseteq DOMAIN samples
      /\ DOMAIN counters \subseteq CounterNames
      /\ DOMAIN samples \subseteq SampleNames
  BY DEF Flush, Closed, TypeOK, IsTable
<1>2. CounterNames \cap SampleNames = {}
  BY KindsAssumption, ZenonT(40)
<1>3. /\ \A m, c : broadcast_counter(m, c).name = m
      /\ \A m, s : broadcast_sample(m, s).name = m
  BY DEF broadcast_counter, broadcast_sample
<1>4. CASE n \in Flush(Dp(n))
  <2>1. n \in DOMAIN Dp(n) /\ Seen(n) = Dp(n)[n].last_seen
        /\ Held(n) = Amount(n, Dp(n)[n])
    BY <1>4 DEF Flush, Closed, Seen, Held
  <2>2. Seen(n) # 0 /\ winend(n, Seen(n)) < now - Grace
    BY <1>4, <2>1 DEF Flush, Closed
  <2>3. Sends(n)
    <3>1. CASE n \in CounterNames
      <4>1. Dp(n) = counters /\ n \in Flush(counters) /\ n \notin Flush(samples)
        BY <1>1, <1>2, <1>4, <3>1, Zenon DEF Dp
      <4> DEFINE p == broadcast_counter(n, counters[n])
      <4>2. p \in out'
        BY <4>1 DEF tock_out
      <4>3. \A q \in out' : q.type \in {"COUNTER", "SAMPLE"} /\ q.name = n
                                => q = p
        BY <1>3, <4>1, TockCarries
      <4>4. /\ p.ts = winstart(n, Seen(n)) /\ Carried(p) = Held(n)
            /\ p.type = "COUNTER" /\ p.name = n
        BY <2>1, <3>1, <4>1 DEF broadcast_counter, Carried, Amount
      <4> HIDE DEF p
      <4> QED BY <4>2, <4>3, <4>4 DEF Sends
    <3>2. CASE n \notin CounterNames
      <4>1. Dp(n) = samples /\ n \in Flush(samples) /\ n \notin Flush(counters)
        BY <1>1, <1>4, <3>2 DEF Dp
      <4> DEFINE p == broadcast_sample(n, samples[n])
      <4>2. p \in out'
        BY <4>1 DEF tock_out
      <4>3. \A q \in out' : q.type \in {"COUNTER", "SAMPLE"} /\ q.name = n
                                => q = p
        BY <1>3, <4>1, TockCarries
      <4>4. /\ p.ts = winstart(n, Seen(n)) /\ Carried(p) = Held(n)
            /\ p.type = "SAMPLE" /\ p.name = n
        BY <2>1, <3>2, <4>1 DEF broadcast_sample, Carried, Amount
      <4> HIDE DEF p
      <4> QED BY <4>2, <4>3, <4>4 DEF Sends
    <3> QED BY <3>1, <3>2
  <2> QED BY <1>4, <2>2, <2>3 DEF Closes
<1>5. CASE n \notin Flush(Dp(n))
  <2>1. n \notin Flush(counters) /\ n \notin Flush(samples)
    BY <1>1, <1>2, <1>5 DEF Dp
  <2>2. Silent(n)
    BY <1>3, <2>1, TockCarries DEF Silent
  <2> QED BY <1>5, <2>2
<1> QED BY <1>4, <1>5

\* A TOCK closes some windows and leaves the rest alone.
LEMMA TockLedger ==
    ASSUME TypeOK, Tock, NEW n \in Ledgered
    PROVE  (Closes(n) /\ Empties(n)) \/ Idles(n)
<1>1. IF n \in Flush(Dp(n)) THEN Closes(n) ELSE Silent(n)
  BY TockSends DEF Tock
<1>2. counters' = tock_counters /\ samples' = tock_samples
  BY DEF Tock
<1>3. CASE n \in Flush(Dp(n))
  <2>1. Empties(n)
    <3>1. CASE n \in CounterNames
      <4>1. n \in Flush(counters) /\ n \in DOMAIN counters
        BY <1>3, <3>1, Zenon DEF Dp, Flush, Closed
      <4>2. n \in DOMAIN counters' /\ counters'[n] = counter_reset(counters[n])
        BY <1>2, <4>1 DEF tock_counters
      <4>3. counters[n] \in CounterRec
        BY <4>1 DEF TypeOK, IsTable
      <4> QED BY <3>1, <4>2, <4>3, Zenon DEF Empties, Seen, Held, Dp, Amount,
                 counter_reset, CounterRec
    <3>2. CASE n \notin CounterNames
      <4>1. n \in Flush(samples) /\ n \in DOMAIN samples
        BY <1>3, <3>2 DEF Dp, Flush, Closed
      <4>2. n \in DOMAIN samples' /\ samples'[n] = sample_reset(samples[n])
        BY <1>2, <4>1 DEF tock_samples
      <4>3. samples[n] \in SampleRec
        BY <4>1 DEF TypeOK, IsTable
      <4> QED BY <3>2, <4>2, <4>3, Zenon DEF Empties, Seen, Held, Dp, Amount,
                 sample_reset, SampleRec
    <3> QED BY <3>1, <3>2
  <2> QED BY <1>1, <1>3, <2>1
<1>4. CASE n \notin Flush(Dp(n))
  <2>1. Seen(n)' = Seen(n) /\ Held(n)' = Held(n)
    BY <1>2, <1>4 DEF Seen, Held, Dp, Amount, tock_counters, tock_samples
  <2> QED BY <1>1, <1>4, <2>1, ZenonT(40) DEF Idles
<1> QED BY <1>3, <1>4, ZenonT(40)

\* A process that dies in a TOCK may have sent closed windows before.
LEMMA DeadLedger ==
    ASSUME TypeOK, Dead, NEW n \in Ledgered
    PROVE  /\ Empties(n)
           /\ TockDies => Closes(n) \/ Silent(n)
<1>1. Empties(n)
  BY DEF Dead, Empties, Seen, Held, Dp, NoRecords
<1>2. TockDies => Closes(n) \/ Silent(n)
  BY TockSends DEF TockDies
<1> QED BY <1>1, <1>2, Zenon

\* A FORGET takes what it drops from the books, or leaves it all where it is.
LEMMA ForgetLedger ==
    ASSUME TypeOK, NEW p, NEW ig \in BOOLEAN, Forget(p, ig),
           NEW n \in Ledgered
    PROVE  IF n \in p /\ ~ig THEN Empties(n)
           ELSE Seen(n)' = Seen(n) /\ Held(n)' = Held(n)
<1>1. /\ counters' = Forgotten(counters, p, ig)
      /\ samples' = Forgotten(samples, p, ig)
  BY DEF Forget
<1>2. CASE n \in p /\ ~ig
  BY <1>1, <1>2 DEF Forgotten, Drop, Empties, Seen, Held, Dp
<1>3. CASE n \notin p /\ ~ig
  BY <1>1, <1>3 DEF Forgotten, Drop, Seen, Held, Dp, Amount
<1>4. CASE ig
  <2>1. CASE n \in CounterNames
    <3>1. n \in DOMAIN counters => counters[n] \in CounterRec
      BY DEF TypeOK, IsTable
    <3> QED BY <1>1, <1>4, <2>1, <3>1, Zenon
            DEF Forgotten, Seen, Held, Dp, Amount,
               CounterRec
  <2>2. CASE n \notin CounterNames
    <3>1. n \in DOMAIN samples => samples[n] \in SampleRec
      BY DEF TypeOK, IsTable
    <3> QED BY <1>1, <1>4, <2>2, <3>1, Zenon
            DEF Forgotten, Seen, Held, Dp, Amount,
               SampleRec
  <2> QED BY <2>1, <2>2
<1> QED BY <1>2, <1>3, <1>4

----------------------------------------------------------------------------
(* The books balance.                                                      *)

\* The books of n agree with what the kernel holds for n.
Balanced(n) ==
    /\ Seen(n) = 0 => Held(n) = 0
    /\ \A w \in Starts : owed[n][w] = Pending(n, w) % U64

\* The inductive invariant: WindowLedger, and that a metric that was never
\* submitted to with the stamp 0 holds nothing while it has no window.
LedgerInv == up => \A n \in Ledgered \ zeroed : Balanced(n)

\* What an entry in the books comes to.
LEMMA Entries ==
    ASSUME NEW h \in Int, NEW d \in Int
    PROVE  /\ ((h % U64) + d - 0) % U64 = (h + d) % U64
           /\ ((h % U64) + 0 - 0) % U64 = h % U64
           /\ ((h % U64) + 0 - h) % U64 = 0 % U64
           /\ (0 % U64) = 0
<1>1. U64 \in Nat \ {0} /\ h % U64 \in Int
  BY WordAssumption
<1>2. (h % U64) + d - 0 = (h % U64) + d /\ (h % U64) + 0 - 0 = h % U64
      /\ (h % U64) + 0 - h = (h % U64) + (-h) /\ h + (-h) = 0 /\ -h \in Int
  BY <1>1
<1>3. /\ ((h % U64) + d) % U64 = (h + d) % U64
      /\ ((h % U64) + (-h)) % U64 = (h + (-h)) % U64
      /\ (h % U64) % U64 = h % U64
  BY <1>1, <1>2, RemainderAdd, Zenon
<1>4. 0 % U64 = 0
  BY <1>1
<1> QED BY <1>2, <1>3, <1>4

\* A counter that nothing was added to.
LEMMA EmptyEntry == 0 \in Int /\ \A d \in Int : 0 + d = d
OBVIOUS

\* A metric that is not concerned keeps its books.
LEMMA IdleBalance ==
    ASSUME TypeOK, NEW n \in Ledgered, Balanced(n), Idles(n),
           NEW due, Book(due), \A w \in Starts : due[n][w] = 0,
           n \notin zeroed'
    PROVE  Balanced(n)'
<1>1. /\ Seen(n) \in Nat /\ Held(n) \in Int /\ Seen(n)' = Seen(n)
      /\ Held(n)' = Held(n)
  BY HeldTyped DEF Idles
<1>2. ASSUME NEW w \in Starts PROVE owed'[n][w] = Pending(n, w)' % U64
  <2>1. Sent(n, w) = 0
    BY SilentSends DEF Idles
  <2>2. owed'[n][w] = (owed[n][w] + 0 - 0) % U64
    BY <2>1, ZenonT(40) DEF Book
  <2> DEFINE h == Pending(n, w)
  <2>3. h \in Int /\ Pending(n, w)' = h /\ owed[n][w] = h % U64
    BY <1>1, PendingIs DEF Balanced
  <2> HIDE DEF h
  <2> QED BY <2>2, <2>3, Entries, ZenonT(40)
<1> QED BY <1>1, <1>2 DEF Balanced

\* A submission is entered, with what it sends.
LEMMA SubmitBalance ==
    ASSUME TypeOK, NEW n \in Ledgered, Balanced(n),
           NEW ts \in Stamps \ {0}, NEW amount \in Int,
           Joins(n, ts, amount) \/ Turns(n, ts, amount),
           Book(Due(n, ts, amount)), n \notin zeroed'
    PROVE  Balanced(n)'
<1>1. Seen(n) \in Nat /\ Held(n) \in Int /\ Seen(n)' = ts
  BY HeldTyped DEF Joins, Turns
<1>2. ASSUME NEW w \in Starts PROVE owed'[n][w] = Pending(n, w)' % U64
  <2>1. Due(n, ts, amount)[n][w] = IF w = winstart(n, ts) THEN amount ELSE 0
    BY Zenon DEF Due, NoAmounts
  <2>2. owed'[n][w] =
            (owed[n][w] + Due(n, ts, amount)[n][w] - Sent(n, w)) % U64
    BY ZenonT(40) DEF Book
  <2>3. /\ owed[n][w] = (IF Seen(n) # 0 /\ winstart(n, Seen(n)) = w
                         THEN Held(n) ELSE 0) % U64
        /\ Seen(n) = 0 => Held(n) = 0
    BY PendingIs DEF Balanced
  <2>4. Pending(n, w)' = IF winstart(n, ts) = w THEN Held(n)' ELSE 0
    BY <1>1, PendingIs
  <2>5. CASE Joins(n, ts, amount)
    <3>1. Sent(n, w) = 0
      BY <2>5, SilentSends DEF Joins
    <3>2. CASE w = winstart(n, ts)
      <4>1. owed[n][w] = Held(n) % U64
        BY <2>3, <2>5, <3>2, Zenon DEF Joins
      <4>2. owed'[n][w] = ((Held(n) % U64) + amount - 0) % U64
        BY <2>1, <2>2, <3>1, <3>2, <4>1, Zenon
      <4>3. owed'[n][w] = (Held(n) + amount) % U64
        BY <1>1, <4>2, Entries, Zenon
      <4> QED BY <2>4, <2>5, <3>2, <4>3, Zenon DEF Joins
    <3>3. CASE w # winstart(n, ts)
      <4>1. owed[n][w] = 0 % U64
        BY <2>3, <2>5, <3>3, Zenon DEF Joins
      <4>2. owed'[n][w] = ((0 % U64) + 0 - 0) % U64
        BY <2>1, <2>2, <3>1, <3>3, <4>1, Zenon
      <4>3. owed'[n][w] = 0 % U64
        BY <4>2, Entries, EmptyEntry, Zenon
      <4> QED BY <2>4, <3>3, <4>3, Zenon
    <3> QED BY <3>2, <3>3, ZenonT(40)
  <2>6. CASE Turns(n, ts, amount)
    <3>1. Sent(n, w) = IF w = winstart(n, Seen(n)) THEN Held(n) ELSE 0
      BY <2>6, SendsOnce, Zenon DEF Turns
    <3>2. Seen(n) # 0 /\ winstart(n, Seen(n)) # winstart(n, ts)
      BY <2>6 DEF Turns
    <3>3. CASE w = winstart(n, ts)
      <4>1. owed'[n][w] = ((0 % U64) + amount - 0) % U64
        BY <2>1, <2>2, <2>3, <3>1, <3>2, <3>3, Zenon
      <4>2. owed'[n][w] = (0 + amount) % U64
        BY <4>1, Entries, EmptyEntry, Zenon
      <4>3. owed'[n][w] = amount % U64
        BY <4>2, EmptyEntry, Zenon
      <4> QED BY <2>4, <2>6, <3>3, <4>3, Zenon DEF Turns
    <3>4. CASE w = winstart(n, Seen(n))
      <4>1. owed'[n][w] = ((Held(n) % U64) + 0 - Held(n)) % U64
        BY <2>1, <2>2, <2>3, <3>1, <3>2, <3>4, ZenonT(40)
      <4>2. owed'[n][w] = 0 % U64
        BY <1>1, <4>1, Entries, Zenon
      <4> QED BY <2>4, <3>2, <3>4, <4>2, Zenon
    <3>5. CASE w # winstart(n, ts) /\ w # winstart(n, Seen(n))
      <4>1. owed'[n][w] = ((0 % U64) + 0 - 0) % U64
        BY <2>1, <2>2, <2>3, <3>1, <3>5, Zenon
      <4>2. owed'[n][w] = 0 % U64
        BY <4>1, Entries, EmptyEntry, Zenon
      <4> QED BY <2>4, <3>5, <4>2, Zenon
    <3> QED BY <3>3, <3>4, <3>5, Zenon
  <2> QED BY <2>5, <2>6, Zenon
<1> QED BY <1>1, <1>2, Zenon DEF Balanced

\* A closed window is entered as sent.
LEMMA CloseBalance ==
    ASSUME TypeOK, NEW n \in Ledgered, Balanced(n), Closes(n), Empties(n),
           Book(NoAmounts), n \notin zeroed'
    PROVE  Balanced(n)'
<1>1. /\ Seen(n) \in Nat /\ Held(n) \in Int /\ Seen(n) # 0 /\ Seen(n)' = 0
      /\ Held(n)' = 0
  BY HeldTyped DEF Closes, Empties
<1>2. ASSUME NEW w \in Starts PROVE owed'[n][w] = Pending(n, w)' % U64
  <2>1. owed'[n][w] = (owed[n][w] + 0 - Sent(n, w)) % U64
    BY Zenon DEF Book, NoAmounts
  <2>2. Sent(n, w) = IF w = winstart(n, Seen(n)) THEN Held(n) ELSE 0
    BY SendsOnce, ZenonT(40) DEF Closes
  <2>3. owed[n][w] = (IF w = winstart(n, Seen(n)) THEN Held(n) ELSE 0) % U64
    BY <1>1, PendingIs DEF Balanced
  <2>4. owed'[n][w] = 0 % U64
    <3>1. ((0 % U64) + 0 - 0) % U64 = 0 % U64
      BY Entries
    <3>2. ((Held(n) % U64) + 0 - Held(n)) % U64 = 0 % U64
      BY <1>1, Entries
    <3> QED BY <2>1, <2>2, <2>3, <3>1, <3>2, ZenonT(40)
  <2>5. Pending(n, w)' = 0
    BY <1>1, PendingIs
  <2> QED BY <2>4, <2>5, Zenon
<1> QED BY <1>1, <1>2, ZenonT(40) DEF Balanced

\* Steps that leave counters, samples and their books alone.
LEMMA QuietLedger ==
    ASSUME LedgerInv, UNCHANGED <<up, counters, samples, owed>>,
           zeroed \subseteq zeroed'
    PROVE  LedgerInv'
<1>1. ASSUME NEW n, Balanced(n) PROVE Balanced(n)'
  BY <1>1, Zenon DEF Balanced, Seen, Held, Pending, Dp, Amount, winstart
<1> QED BY <1>1, Zenon DEF LedgerInv

\* A submission for one counter or sample.
LEMMA SubmitLedger ==
    ASSUME TypeOK, LedgerInv, up, NEW n \in Ledgered, NEW ts \in Stamps,
           NEW amount \in Int,
           Joins(n, ts, amount) \/ Turns(n, ts, amount),
           \A m \in Ledgered \ {n} : Idles(m),
           Arrive(n, ts), Book(Due(n, ts, amount))
    PROVE  LedgerInv'
<1>1. zeroed \subseteq zeroed' /\ (ts = 0 => n \in zeroed')
  BY DEF Arrive
<1>2. SUFFICES ASSUME NEW m \in Ledgered \ zeroed' PROVE Balanced(m)'
  BY DEF LedgerInv
<1>3. Balanced(m)
  BY <1>1, Zenon DEF LedgerInv
<1>4. CASE m = n
  BY <1>1, <1>3, <1>4, SubmitBalance
<1>5. CASE m # n
  <2>1. Idles(m)
    BY <1>5
  <2>2. \A w \in Starts : Due(n, ts, amount)[m][w] = 0
    BY <1>5 DEF Due, NoAmounts
  <2> QED BY <1>3, <2>1, <2>2, IdleBalance, Zenon
<1> QED BY <1>4, <1>5, Zenon

\* A TOCK.
LEMMA TockBalance ==
    ASSUME TypeOK, LedgerInv, HTock
    PROVE  LedgerInv'
<1>1. Tock /\ up /\ zeroed' = zeroed /\ Book(NoAmounts)
  BY Zenon DEF HTock, Tock
<1>2. SUFFICES ASSUME NEW n \in Ledgered \ zeroed' PROVE Balanced(n)'
  BY DEF LedgerInv
<1>3. Balanced(n)
  BY <1>1 DEF LedgerInv
<1>4. \A w \in Starts : NoAmounts[n][w] = 0
  BY Zenon DEF NoAmounts
<1>5. CASE Idles(n)
  BY <1>1, <1>3, <1>4, <1>5, IdleBalance, Zenon
<1>6. CASE Closes(n) /\ Empties(n)
  BY <1>1, <1>3, <1>6, CloseBalance, Zenon
<1> QED BY <1>1, <1>5, <1>6, TockLedger

\* A FORGET.
LEMMA ForgetBalance ==
    ASSUME TypeOK, LedgerInv, HForget
    PROVE  LedgerInv'
<1> PICK p \in Patterns, ig \in BOOLEAN :
        /\ Forget(p, ig)
        /\ owed' = [n \in Ledgered |-> [w \in Starts |->
                        IF n \in p \ zeroed /\ ~ig
                        THEN (owed[n][w] - Pending(n, w)) % U64 ELSE owed[n][w]]]
  BY DEF HForget
<1>1. up /\ zeroed' = zeroed
  BY Zenon DEF HForget, Forget
<1>2. SUFFICES ASSUME NEW n \in Ledgered \ zeroed PROVE Balanced(n)'
  BY <1>1, Zenon DEF LedgerInv
<1>3. Balanced(n) /\ Seen(n) \in Nat /\ Held(n) \in Nat
  BY <1>1, HeldTyped, Zenon DEF LedgerInv
<1>4. CASE n \in p /\ ~ig
  <2>1. Seen(n)' = 0 /\ Held(n)' = 0
    BY <1>4, ForgetLedger, Zenon DEF Empties
  <2>2. ASSUME NEW w \in Starts PROVE owed'[n][w] = Pending(n, w)' % U64
    <3> DEFINE h == Pending(n, w)
    <3>1. h \in Int /\ owed[n][w] = h % U64
      BY <1>3, PendingIs DEF Balanced
    <3>2. owed'[n][w] = (owed[n][w] - h) % U64
      BY <1>4, Zenon
    <3>3. Pending(n, w)' = 0
      BY <2>1, PendingIs, Zenon
    <3> HIDE DEF h
    <3>4. ((h % U64) + 0 - h) % U64 = 0 % U64 /\ h % U64 \in Int
      <4>1. ((h % U64) + 0 - h) % U64 = 0 % U64
        BY <3>1, Entries, ZenonT(40)
      <4>2. h % U64 \in Int
        BY <3>1, WordAssumption
      <4> QED BY <4>1, <4>2, Zenon
    <3>5. (h % U64) + 0 - h = (h % U64) - h
      BY <3>1, <3>4
    <3> QED BY <3>1, <3>2, <3>3, <3>4, <3>5, ZenonT(40)
  <2> QED BY <2>1, <2>2, Zenon DEF Balanced
<1>5. CASE ~(n \in p /\ ~ig)
  <2>1. Seen(n)' = Seen(n) /\ Held(n)' = Held(n)
    BY <1>5, ForgetLedger, Zenon
  <2>2. ASSUME NEW w \in Starts PROVE owed'[n][w] = Pending(n, w)' % U64
    <3>1. owed'[n][w] = owed[n][w]
      BY <1>5, Zenon
    <3>2. Pending(n, w)' = Pending(n, w)
      BY <2>1, PendingIs, ZenonT(40)
    <3> QED BY <1>3, <3>1, <3>2, Zenon DEF Balanced
  <2> QED BY <1>3, <2>1, <2>2 DEF Balanced
<1> QED BY <1>4, <1>5, ZenonT(40)

\* A start opens the books with what it restores.
LEMMA ReopenBalance ==
    ASSUME Reopen
    PROVE  LedgerInv'
<1>1. SUFFICES ASSUME NEW n \in Ledgered \ zeroed' PROVE Balanced(n)'
  BY DEF LedgerInv
<1>2. \A w \in Starts : owed'[n][w] = Pending(n, w)' % U64
  BY Zenon DEF Reopen
<1>3. ~Unstamped(n)'
  BY Zenon DEF Reopen
<1>4. Seen(n)' = 0 => Held(n)' = 0
  BY <1>3, ZenonT(40) DEF Unstamped, Seen, Held
<1> QED BY <1>2, <1>4 DEF Balanced

\* The handlers that have nothing to do with counters and samples.
LEMMA QuietSteps ==
    ASSUME HSubmitState \/ HSubmitRate \/ HSubmitEvent \/ HSetKeys \/ HDropped
           \/ HSaveState \/ HDelKeys \/ HBootDies \/ HAdvance
           \/ UNCHANGED hvars
    PROVE  /\ UNCHANGED <<up, counters, samples, owed, done, repeated>>
           /\ now' \in {now, now + 1}
           /\ HSubmitRate \/ UNCHANGED <<latest, orderly, zeroed>>
<1>1. CASE HSubmitState \/ HSubmitEvent \/ HSetKeys
  BY <1>1, Zenon DEF HSubmitState, SubmitState, HSubmitEvent, SubmitEvent,
                     HSetKeys,
     SetKeys, NoMetric, hist, db
<1>2. CASE HSubmitRate
  BY <1>2, Zenon DEF HSubmitRate, SubmitRate
<1>3. CASE HDropped \/ HSaveState \/ HDelKeys
  BY <1>3, Zenon DEF HDropped, Dropped, HSaveState, SaveState, HDelKeys,
                     DelKeys,
     NoMetric, hist, db
<1>4. CASE HBootDies \/ HAdvance \/ UNCHANGED hvars
  BY <1>4, Zenon DEF HBootDies, BootDies, HAdvance, Advance, hvars, vars,
                     hist, db
<1> QED BY <1>1, <1>2, <1>3, <1>4

\* The steps that end the process.
LEMMA DeadSteps ==
    ASSUME HTockDies \/ HSaveStateDies \/ HStop
    PROVE  Dead /\ (TockDies \/ UNCHANGED <<owed, done, repeated>>)
           /\ UNCHANGED <<latest, orderly, zeroed>>
BY Zenon DEF HTockDies, HSaveStateDies, HStop, TockDies, SaveStateDies, Stop,
             hist,
   NoMetric

\* A submission for a counter or a sample, in the same terms.
LEMMA LedgeredSteps ==
    ASSUME TypeOK, HSubmitCounter \/ HSubmitSample
    PROVE  /\ up /\ UNCHANGED <<up, now>>
           /\ \E n \in Ledgered, ts \in Stamps, amount \in Int :
                /\ Joins(n, ts, amount) \/ Turns(n, ts, amount)
                /\ \A m \in Ledgered \ {n} : Idles(m)
                /\ Arrive(n, ts) /\ Book(Due(n, ts, amount))
<1>1. CASE HSubmitCounter
  <2> PICK ts \in Stamps, n \in CounterNames, i \in Increments :
            /\ SubmitCounter(ts, n, i)
            /\ Arrive(n, ts) /\ Book(Due(n, ts, int32(i)))
    BY <1>1, Zenon DEF HSubmitCounter
  <2>1. int32(i) \in Int /\ n \in Ledgered
    BY Int32Typed, InputAssumption DEF Ledgered
  <2>2. up /\ UNCHANGED <<up, now>>
    BY Zenon DEF SubmitCounter
  <2> QED BY <2>1, <2>2, SubmitCounterLedger, Zenon
<1>2. CASE HSubmitSample
  <2> PICK ts \in Stamps, n \in SampleNames, b \in SampleBatches :
            /\ SubmitSample(ts, n, b)
            /\ Arrive(n, ts) /\ Book(Due(n, ts, b.sum))
    BY <1>2, Zenon DEF HSubmitSample
  <2>1. b.sum \in Int /\ n \in Ledgered
    BY InputAssumption DEF Ledgered
  <2>2. up /\ UNCHANGED <<up, now>>
    BY DEF SubmitSample
  <2> QED BY <2>1, <2>2, SubmitSampleLedger, Zenon
<1> QED BY <1>1, <1>2, Zenon

\* The books always balance: the rollover of the submission handlers, the
\* flush of the TOCK handler and the FORGET handler agree on which window
\* holds what, for any number of clients, windows, decrements that wrap and
\* restarts.
THEOREM LedgerInvariant == HSpec => []LedgerInv
<1>1. HInit => LedgerInv
  <2> SUFFICES ASSUME HInit PROVE LedgerInv
    OBVIOUS
  <2>1. ASSUME NEW n \in Ledgered PROVE Seen(n) = 0 /\ Held(n) = 0
    BY ZenonT(40) DEF HInit, Init, Seen, Held, Dp, Amount, configure_counters,
       configure_samples, NewCounter, NewSample
  <2>2. ASSUME NEW n \in Ledgered, NEW w \in Starts
        PROVE  owed[n][w] = Pending(n, w) % U64
    BY <2>1, PendingIs, Entries DEF HInit, NoAmounts
  <2> QED BY <2>1, <2>2 DEF LedgerInv, Balanced
<1>2. TypeOK /\ LedgerInv /\ [HNext]_hvars => LedgerInv'
  <2> SUFFICES ASSUME TypeOK, LedgerInv, [HNext]_hvars PROVE LedgerInv'
    OBVIOUS
  <2>1. CASE HSubmitState \/ HSubmitRate \/ HSubmitEvent \/ HSetKeys
             \/ HDropped \/ HSaveState \/ HDelKeys \/ HBootDies \/ HAdvance
             \/ UNCHANGED hvars
    <3>1. HSubmitRate => zeroed \subseteq zeroed'
      BY Zenon DEF HSubmitRate, Arrive
    <3> QED BY <2>1, <3>1, QuietSteps, QuietLedger
  <2>2. CASE HSubmitCounter \/ HSubmitSample
    BY <2>2, LedgeredSteps, SubmitLedger
  <2>3. CASE HTock
    BY <2>3, TockBalance
  <2>4. CASE HForget
    BY <2>4, ForgetBalance, Zenon
  <2>5. CASE HTockDies \/ HSaveStateDies \/ HStop
    BY <2>5, DeadSteps DEF Dead, LedgerInv
  <2>6. CASE HBoot
    BY <2>6, ReopenBalance DEF HBoot
  <2> QED BY <2>1, <2>2, <2>3, <2>4, <2>5, <2>6, Zenon DEF HNext, HListener
<1> QED BY <1>1, <1>2, ObservedTypes, PTL DEF HSpec

\* So no amount that clients submitted is lost, counted twice or booked to
\* another window.
THEOREM NothingLost == HSpec => []WindowLedger
<1>1. LedgerInv => WindowLedger
  BY DEF LedgerInv, Balanced, WindowLedger
<1> QED BY <1>1, LedgerInvariant, PTL

----------------------------------------------------------------------------
(* Once per window.                                                        *)

\* As long as the submissions for n are in time and in order: of the windows
\* broadcast for n only the latest may still be the one submissions fall
\* into, and then its grace period is over; the one n holds is not among
\* them.
Prompt(n) ==
    orderly[n] =>
        /\ \A w \in done[n] :
                /\ w <= latest[n]
                /\ w = latest[n] => w + Window[n] < now - Grace
        /\ Seen(n) # 0 => /\ winstart(n, Seen(n)) = latest[n]
                          /\ latest[n] \notin done[n]

OrderTypes ==
    /\ latest \in [Metrics -> Nat] /\ orderly \in [Metrics -> BOOLEAN]
    /\ \A n \in Ledgered : done[n] \subseteq Starts

\* The inductive invariant.
OrderInv == OrderTypes /\ repeated = {} /\ \A n \in Ledgered : Prompt(n)

\* The order of windows.
LEMMA InOrder ==
    ASSUME NEW a \in Nat, NEW b \in Nat
    PROVE  /\ a <= a /\ a >= a
           /\ a <= b /\ a >= b => a = b
           /\ a < b => a <= b /\ a # b
           /\ \A c \in Nat : a <= b /\ c >= b /\ a # c => a < c
OBVIOUS

\* Where a window ends.
LEMMA NatSum ==
    ASSUME NEW a \in Nat, NEW b \in Nat
    PROVE  a + b \in Nat
OBVIOUS

\* A submission that is in time is not for a window whose grace is over.
LEMMA TooLate ==
    ASSUME NEW t \in Nat, NEW a \in Nat, t < a,
           NEW b \in Nat, NEW g \in Nat, a < b - g, t >= b - g
    PROVE  FALSE
OBVIOUS

\* Once its grace is over, it stays so.
LEMMA StillLate ==
    ASSUME NEW w \in Nat, NEW d \in Nat, NEW g \in Nat,
           NEW t \in Nat, NEW u \in Nat, t <= u
    PROVE  w + d < t - g => w + d < u - g
OBVIOUS

\* The clock goes on by at most a second.
LEMMA Onwards ==
    ASSUME NEW t \in Nat, NEW u \in {t, t + 1}
    PROVE  u \in Nat /\ t <= u
OBVIOUS

\* Windows start at natural numbers.
LEMMA StartsTyped ==
    /\ Starts \subseteq Nat
    /\ \A n \in Metrics : \A ts \in Stamps : winstart(n, ts) \in Starts
BY WinstartBounds, InputAssumption DEF Starts

\* A step that sends nothing for n and does not concern it.
LEMMA IdlePrompt ==
    ASSUME TypeOK, OrderInv, NEW n \in Ledgered, Prompt(n),
           now' \in Nat, now <= now',
           latest'[n] = latest[n], orderly'[n] = orderly[n],
           done'[n] \subseteq done[n],
           Seen(n)' \in {0, Seen(n)}
    PROVE  Prompt(n)'
<1>1. /\ done[n] \subseteq Nat /\ latest[n] \in Nat /\ now \in Nat
      /\ Grace \in Nat /\ Window[n] \in Nat
  BY StartsTyped, ConfigAssumption, WindowAssumption, Zenon
     DEF OrderInv, OrderTypes, TypeOK, Ledgered, Metrics
<1>2. SUFFICES ASSUME orderly'[n] PROVE
        /\ \A w \in done'[n] :
                /\ w <= latest'[n]
                /\ w = latest'[n] => w + Window[n] < now' - Grace
        /\ Seen(n)' # 0 => /\ winstart(n, Seen(n)') = latest'[n]
                           /\ latest'[n] \notin done'[n]
  BY ZenonT(40) DEF Prompt, winstart
<1>3. ASSUME NEW w \in done'[n]
      PROVE  /\ w <= latest'[n]
             /\ w = latest'[n] => w + Window[n] < now' - Grace
  <2>1. w \in done[n] /\ w \in Nat
    BY <1>1, <1>3, Zenon
  <2>2. w <= latest[n] /\ (w = latest[n] => w + Window[n] < now - Grace)
    BY <1>2, <2>1, Zenon DEF Prompt
  <2> QED BY <1>1, <2>1, <2>2, StillLate, ZenonT(40)
<1>4. ASSUME Seen(n)' # 0
      PROVE  /\ winstart(n, Seen(n)') = latest'[n]
             /\ latest'[n] \notin done'[n]
  <2>1. Seen(n)' = Seen(n) /\ Seen(n) # 0
    BY <1>4, Zenon
  <2>2. winstart(n, Seen(n)) = latest[n] /\ latest[n] \notin done[n]
    BY <1>2, <2>1, Zenon DEF Prompt
  <2> QED BY <2>1, <2>2, Zenon
<1> QED BY <1>3, <1>4, Zenon

\* What Book does when nothing is sent for n.
LEMMA SilentBook ==
    ASSUME NEW n \in Ledgered, Silent(n), NEW due, Book(due)
    PROVE  done'[n] \subseteq done[n] /\ (n \in repeated' => n \in repeated)
<1>1. SentFor(n) = {}
  BY SilentSends, Zenon
<1>2. done'[n] = IF orderly'[n] THEN done[n] \cup SentFor(n) ELSE {}
  BY ZenonT(40) DEF Book
<1>3. n \in repeated' => n \in repeated \/ done[n] \cap SentFor(n) # {}
  BY ZenonT(40) DEF Book
<1> QED BY <1>1, <1>2, <1>3, ZenonT(40)

\* The window of n is sent after its grace period: not for the second time.
LEMMA ClosePrompt ==
    ASSUME TypeOK, OrderInv, NEW n \in Ledgered, Prompt(n), Closes(n),
           Seen(n)' = 0, Book(NoAmounts), now' = now,
           latest'[n] = latest[n], orderly'[n] = orderly[n]
    PROVE  Prompt(n)' /\ (n \in repeated' => n \in repeated)
<1>1. /\ SentFor(n) \subseteq {winstart(n, Seen(n))}
      /\ Seen(n) # 0 /\ winstart(n, Seen(n)) + Window[n] < now - Grace
  BY SendsOnce, ZenonT(40) DEF Closes, winend
<1>2. done'[n] = IF orderly'[n] THEN done[n] \cup SentFor(n) ELSE {}
  BY ZenonT(40) DEF Book
<1>3. n \in repeated' => n \in repeated
  BY <1>1, ZenonT(40) DEF Book, Prompt
<1>4. done[n] \subseteq Nat /\ latest[n] \in Nat
  BY StartsTyped, Zenon DEF OrderInv, OrderTypes, Ledgered, Metrics
<1>5. ASSUME orderly'[n], NEW w \in done'[n]
      PROVE  /\ w <= latest'[n]
             /\ w = latest'[n] => w + Window[n] < now' - Grace
  <2>1. CASE w \in done[n]
    BY <1>5, <2>1, ZenonT(40) DEF Prompt
  <2>2. CASE w = winstart(n, Seen(n))
    <3>1. w = latest[n]
      BY <1>1, <1>5, <2>2, ZenonT(40) DEF Prompt
    <3> QED BY <1>1, <1>4, <2>2, <3>1, InOrder, ZenonT(40)
  <2> QED BY <1>1, <1>2, <1>5, <2>1, <2>2, Zenon
<1>6. Prompt(n)'
  BY <1>5, Zenon DEF Prompt
<1> QED BY <1>3, <1>6, Zenon

\* A submission for n: if it is in time, its window has not been sent.
LEMMA SubmitPrompt ==
    ASSUME TypeOK, OrderInv, NEW n \in Ledgered, Prompt(n),
           NEW ts \in Stamps, NEW amount,
           Joins(n, ts, amount) \/ Turns(n, ts, amount),
           Arrive(n, ts), Book(Due(n, ts, amount)), now' = now
    PROVE  Prompt(n)' /\ (n \in repeated' => n \in repeated)
<1> DEFINE w1 == winstart(n, ts)
<1>1. /\ n \in Metrics /\ ts \in Nat /\ now \in Nat /\ Grace \in Nat
      /\ done[n] \subseteq Nat /\ latest[n] \in Nat
  BY StartsTyped, InputAssumption, ConfigAssumption, ZenonT(40)
     DEF OrderInv, OrderTypes, Ledgered, Metrics, TypeOK
<1>2. w1 \in Nat /\ ts < w1 + Window[n] /\ w1 + Window[n] \in Nat
  <2>1. w1 \in Nat /\ Window[n] \in Nat /\ ts < w1 + Window[n]
    BY <1>1, WinstartBounds, ZenonT(40)
  <2> QED BY <2>1, NatSum, Zenon
<1>3. /\ latest'[n] = w1
      /\ orderly'[n] <=> orderly[n] /\ w1 >= latest[n] /\ ts >= now - Grace
  BY <1>1, Zenon DEF Arrive, OrderInv, OrderTypes
<1>4. Seen(n)' = ts
  BY DEF Joins, Turns
<1>5. done'[n] = IF orderly'[n] THEN done[n] \cup SentFor(n) ELSE {}
  BY ZenonT(40) DEF Book
<1>6. n \in repeated' => \/ n \in repeated
                         \/ orderly'[n] /\ done[n] \cap SentFor(n) # {}
  BY ZenonT(40) DEF Book
<1> HIDE DEF w1
<1>7. ASSUME orderly'[n] PROVE w1 \notin done[n]
  <2>1. ASSUME w1 \in done[n] PROVE FALSE
    <3>1. w1 <= latest[n] /\ (w1 = latest[n] => w1 + Window[n] < now - Grace)
      BY <1>3, <1>7, <2>1, ZenonT(40) DEF Prompt
    <3>2. w1 = latest[n]
      BY <1>1, <1>2, <1>3, <1>7, <3>1, InOrder, Zenon
    <3> QED BY <1>1, <1>2, <1>3, <1>7, <3>1, <3>2, TooLate, ZenonT(40)
  <2> QED BY <2>1, Zenon
<1>8. ASSUME orderly'[n], NEW w \in SentFor(n)
      PROVE  w < w1 /\ w \in Nat /\ w \notin done[n]
  <2>1. Turns(n, ts, amount)
    BY <1>8, SilentSends DEF Joins
  <2>2. w = winstart(n, Seen(n)) /\ Seen(n) # 0
    BY <1>8, <2>1, SendsOnce, Zenon DEF Turns
  <2>3. w = latest[n] /\ latest[n] \notin done[n]
    BY <1>3, <1>8, <2>2, Zenon DEF Prompt
  <2>4. w # w1
    BY <2>1, <2>2, Zenon DEF Turns, w1
  <2>5. w \in Nat /\ w <= w /\ w1 >= w
    BY <1>1, <1>3, <1>8, <2>3, InOrder, Zenon
  <2> QED BY <1>2, <2>3, <2>4, <2>5, InOrder, ZenonT(40)
<1>9. ASSUME orderly'[n], NEW w \in done'[n]
      PROVE  w < w1
  <2>1. CASE w \in done[n]
    <3>1. w <= latest[n] /\ w \in Nat
      BY <1>1, <1>3, <1>9, <2>1, Zenon DEF Prompt
    <3>2. w # w1 /\ w1 >= latest[n]
      BY <1>3, <1>7, <1>9, <2>1, Zenon
    <3> QED BY <1>1, <1>2, <3>1, <3>2, InOrder, ZenonT(40)
  <2>2. CASE w \in SentFor(n)
    BY <1>8, <1>9, <2>2, ZenonT(40)
  <2> QED BY <1>5, <1>9, <2>1, <2>2, Zenon
<1>10. ASSUME orderly'[n]
       PROVE  /\ \A w \in done'[n] :
                    /\ w <= latest'[n]
                    /\ w = latest'[n] => w + Window[n] < now' - Grace
              /\ winstart(n, Seen(n)') = latest'[n]
              /\ latest'[n] \notin done'[n]
  <2>1. ASSUME NEW w \in done'[n] PROVE w <= w1 /\ w # w1
    <3>1. w \in Nat
      BY <1>1, <1>5, <1>8, <1>10, Zenon
    <3> QED BY <1>2, <1>9, <1>10, <3>1, InOrder, ZenonT(40)
  <2>2. winstart(n, Seen(n)') = w1
    BY <1>4, Zenon DEF w1
  <2> QED BY <1>3, <2>1, <2>2, Zenon
<1>11. Prompt(n)'
  BY <1>10, Zenon DEF Prompt, winstart
<1>12. n \in repeated' => n \in repeated
  BY <1>6, <1>8, Zenon
<1> QED BY <1>11, <1>12, ZenonT(40)

\* Book never adds a window that is not one.
LEMMA BookTypes ==
    ASSUME NEW n \in Ledgered, NEW due, Book(due), done[n] \subseteq Starts
    PROVE  done'[n] \subseteq Starts
BY ZenonT(40) DEF Book, SentFor

\* A submission for one counter or sample.
LEMMA SubmitOrder ==
    ASSUME TypeOK, OrderInv, UNCHANGED now, NEW n \in Ledgered,
           NEW ts \in Stamps, NEW amount,
           Joins(n, ts, amount) \/ Turns(n, ts, amount),
           \A m \in Ledgered \ {n} : Idles(m),
           Arrive(n, ts), Book(Due(n, ts, amount))
    PROVE  OrderInv'
<1>1. OrderTypes /\ repeated = {} /\ \A m \in Ledgered : Prompt(m)
  BY DEF OrderInv
<1>2. n \in Metrics /\ winstart(n, ts) \in Nat /\ now \in Nat
  BY StartsTyped, Zenon DEF Ledgered, Metrics, TypeOK
<1>3. OrderTypes'
  <2>1. \A m \in Ledgered : done'[m] \subseteq Starts
    BY <1>1, BookTypes, Zenon DEF OrderTypes
  <2>2. /\ latest' \in [Metrics -> Nat]
        /\ orderly' \in [Metrics -> BOOLEAN]
    <3>1. latest' = [latest EXCEPT ![n] = winstart(n, ts)]
          /\ orderly' = [orderly EXCEPT ![n] = @ /\ winstart(n, ts) >= latest[n]
                                                 /\ ts >= now - Grace]
      BY DEF Arrive
    <3> QED BY <1>1, <1>2, <3>1, ZenonT(40) DEF OrderTypes
  <2> QED BY <2>1, <2>2, Zenon DEF OrderTypes
<1>4. ASSUME NEW m \in Ledgered
      PROVE  Prompt(m)' /\ (m \in repeated' => m \in repeated)
  <2>1. CASE m = n
    BY <1>1, <2>1, SubmitPrompt, Zenon
  <2>2. CASE m # n
    <3>1. Silent(m) /\ Seen(m)' = Seen(m)
      BY <2>2, Zenon DEF Idles
    <3>2. latest'[m] = latest[m] /\ orderly'[m] = orderly[m]
      BY <1>1, <2>2, Zenon DEF Arrive, OrderTypes, Ledgered, Metrics
    <3>3. done'[m] \subseteq done[m] /\ (m \in repeated' => m \in repeated)
      BY <3>1, SilentBook, Zenon
    <3>4. now' \in Nat /\ now <= now' /\ Seen(m)' \in {0, Seen(m)}
      BY <1>2, <3>1, InOrder, Zenon
    <3> QED BY <1>1, <3>2, <3>3, <3>4, IdlePrompt, ZenonT(40)
  <2> QED BY <2>1, <2>2, Zenon
<1>5. repeated' \subseteq repeated \cup Ledgered
  BY ZenonT(40) DEF Book
<1> QED BY <1>1, <1>3, <1>4, <1>5 DEF OrderInv

\* A TOCK, also one that the process dies in.
LEMMA TockOrder ==
    ASSUME TypeOK, OrderInv, Tock \/ TockDies, Book(NoAmounts),
           UNCHANGED <<latest, orderly>>
    PROVE  OrderInv'
<1>1. OrderTypes /\ repeated = {} /\ \A n \in Ledgered : Prompt(n)
  BY ZenonT(40) DEF OrderInv
<1>2. now' = now /\ now \in Nat
  BY DEF Tock, TockDies, Dead, TypeOK
<1>3. OrderTypes'
  BY <1>1, BookTypes, ZenonT(40) DEF OrderTypes
<1>4. ASSUME NEW n \in Ledgered
      PROVE  Prompt(n)' /\ (n \in repeated' => n \in repeated)
  <2>1. \/ Closes(n) /\ Seen(n)' = 0
        \/ Silent(n) /\ Seen(n)' \in {0, Seen(n)}
    BY TockLedger, DeadLedger DEF Idles, Empties, TockDies
  <2>2. CASE Closes(n) /\ Seen(n)' = 0
    BY <1>1, <1>2, <2>2, ClosePrompt, ZenonT(40)
  <2>3. CASE Silent(n) /\ Seen(n)' \in {0, Seen(n)}
    <3>1. done'[n] \subseteq done[n] /\ (n \in repeated' => n \in repeated)
      BY <2>3, SilentBook, ZenonT(40)
    <3>2. now' \in Nat /\ now <= now'
      BY <1>2, InOrder, Zenon
    <3> QED BY <1>1, <2>3, <3>1, <3>2, IdlePrompt, ZenonT(40)
  <2> QED BY <2>1, <2>2, <2>3
<1>5. repeated' \subseteq repeated \cup Ledgered
  BY Zenon DEF Book
<1> QED BY <1>1, <1>3, <1>4, <1>5 DEF OrderInv

\* Steps that broadcast no windows: datapoints may go, time may pass, and a
\* rate may get a submission.
LEMMA QuietOrder ==
    ASSUME TypeOK, OrderInv, now' \in Nat, now <= now',
           UNCHANGED <<done, repeated>>,
           latest' \in [Metrics -> Nat], orderly' \in [Metrics -> BOOLEAN],
           \A n \in Ledgered : /\ Seen(n)' \in {0, Seen(n)}
                               /\ latest'[n] = latest[n]
                               /\ orderly'[n] = orderly[n]
    PROVE  OrderInv'
<1>1. OrderTypes /\ repeated = {} /\ \A n \in Ledgered : Prompt(n)
  BY DEF OrderInv
<1>2. ASSUME NEW n \in Ledgered PROVE Prompt(n)'
  BY <1>1, IdlePrompt, ZenonT(40)
<1> QED BY <1>1, <1>2, ZenonT(40) DEF OrderInv, OrderTypes

\* A start begins new books.
LEMMA ReopenOrder ==
    ASSUME TypeOK', Reopen
    PROVE  OrderInv'
<1>1. ASSUME NEW n \in Metrics PROVE Opened(n)' \in Nat
  <2>1. CASE n \in Ledgered /\ (n \in DOMAIN Dp(n))'
    <3>1. Dp(n)'[n].last_seen \in Nat
      BY <2>1 DEF Dp, TypeOK, IsTable, CounterRec, SampleRec
    <3> QED BY <2>1, <3>1, WinstartBounds, ZenonT(40) DEF Opened
  <2>2. CASE ~(n \in Ledgered /\ (n \in DOMAIN Dp(n))')
    BY <2>2, Zenon DEF Opened
  <2> QED BY <2>1, <2>2, Zenon
<1>2. OrderTypes' /\ repeated' = {}
  BY <1>1, Zenon DEF Reopen, OrderTypes
<1>3. ASSUME NEW n \in Ledgered PROVE Prompt(n)'
  <2>1. n \in Metrics /\ done'[n] = {} /\ latest'[n] = Opened(n)'
    BY ZenonT(40) DEF Reopen, Ledgered, Metrics
  <2>2. Seen(n)' # 0 => Opened(n)' = winstart(n, Seen(n))'
    BY DEF Opened, Seen
  <2> QED BY <2>1, <2>2, Zenon DEF Prompt
<1> QED BY <1>2, <1>3 DEF OrderInv

\* The order of windows is kept by every step, with the grace period of
\* flush_counters() and flush_samples() and the rollover of the submission
\* handlers as they are.
THEOREM OrderInvariant == HSpec => []OrderInv
<1>1. HInit => OrderInv
  <2> SUFFICES ASSUME HInit PROVE OrderInv
    OBVIOUS
  <2>1. ASSUME NEW n \in Ledgered PROVE Seen(n) = 0
    BY Zenon DEF HInit, Init, Seen, Dp, configure_counters, configure_samples,
       NewCounter, NewSample
  <2>2. OrderTypes /\ repeated = {} /\ \A n \in Ledgered : done[n] = {}
    BY DEF HInit, OrderTypes
  <2> QED BY <2>1, <2>2 DEF OrderInv, Prompt
<1>2. TypeOK /\ TypeOK' /\ OrderInv /\ [HNext]_hvars => OrderInv'
  <2> SUFFICES ASSUME TypeOK, TypeOK', OrderInv, [HNext]_hvars PROVE OrderInv'
    OBVIOUS
  <2>1. /\ latest \in [Metrics -> Nat] /\ orderly \in [Metrics -> BOOLEAN]
        /\ now \in Nat /\ now' \in Nat
    BY Zenon DEF OrderInv, OrderTypes, TypeOK
  <2>2. CASE HSubmitState \/ HSubmitRate \/ HSubmitEvent \/ HSetKeys
             \/ HDropped \/ HSaveState \/ HDelKeys \/ HBootDies \/ HAdvance
             \/ UNCHANGED hvars
    <3>1. /\ UNCHANGED <<counters, samples, done, repeated>>
          /\ now' \in {now, now + 1}
          /\ HSubmitRate \/ UNCHANGED <<latest, orderly>>
      BY <2>2, QuietSteps, ZenonT(40)
    <3>2. now <= now' /\ \A n \in Ledgered : Seen(n)' = Seen(n)
      BY <2>1, <3>1, Onwards, ZenonT(40) DEF Seen, Dp
    <3>3. CASE UNCHANGED <<latest, orderly>>
      BY <2>1, <3>1, <3>2, <3>3, QuietOrder, ZenonT(40)
    <3>4. CASE HSubmitRate
      <4> PICK ts \in Stamps, m \in RateNames : Arrive(m, ts)
        BY <3>4, ZenonT(40) DEF HSubmitRate
      <4>1. m \in Metrics /\ m \notin Ledgered /\ winstart(m, ts) \in Nat
        BY KindsAssumption, StartsTyped, Zenon DEF Metrics, Ledgered
      <4>2. /\ latest' = [latest EXCEPT ![m] = winstart(m, ts)]
            /\ orderly' = [orderly EXCEPT ![m] = @ /\ winstart(m, ts) >= latest[m]
                                                   /\ ts >= now - Grace]
        BY ZenonT(40) DEF Arrive
      <4>3. /\ latest' \in [Metrics -> Nat] /\ orderly' \in [Metrics -> BOOLEAN]
            /\ \A n \in Ledgered : /\ latest'[n] = latest[n]
                                   /\ orderly'[n] = orderly[n]
        BY <2>1, <4>1, <4>2 DEF Ledgered, Metrics
      <4> QED BY <2>1, <3>1, <3>2, <4>3, QuietOrder, ZenonT(40)
    <3> QED BY <3>1, <3>3, <3>4, Zenon
  <2>3. CASE HSubmitCounter \/ HSubmitSample
    BY <2>3, LedgeredSteps, SubmitOrder, ZenonT(40)
  <2>4. CASE HTock \/ HTockDies
    BY <2>4, TockOrder DEF HTock, HTockDies
  <2>5. CASE HSaveStateDies \/ HStop
    <3>1. /\ Dead /\ now' = now
          /\ UNCHANGED <<done, repeated, latest, orderly>>
      BY <2>5 DEF HSaveStateDies, HStop, SaveStateDies, Stop, Dead, hist,
         NoMetric
    <3>2. now <= now' /\ \A n \in Ledgered : Seen(n)' = 0
      BY <2>1, <3>1, DeadLedger, InOrder, ZenonT(40) DEF Empties
    <3> QED BY <2>1, <3>1, <3>2, QuietOrder, ZenonT(40)
  <2>6. CASE HForget
    <3> PICK p \in Patterns, ig \in BOOLEAN : Forget(p, ig)
      BY <2>6, Zenon DEF HForget
    <3>1. now' = now /\ UNCHANGED <<done, repeated, latest, orderly>>
      BY <2>6, Zenon DEF HForget, Forget
    <3>2. \A n \in Ledgered : Seen(n)' \in {0, Seen(n)}
      BY ForgetLedger DEF Empties
    <3>3. now <= now'
      BY <2>1, <3>1, InOrder, ZenonT(40)
    <3> QED BY <2>1, <3>1, <3>2, <3>3, QuietOrder, ZenonT(40)
  <2>7. CASE HBoot
    BY <2>7, ReopenOrder DEF HBoot
  <2> QED BY <2>2, <2>3, <2>4, <2>5, <2>6, <2>7, ZenonT(40)
         DEF HNext, HListener
<1> QED BY <1>1, <1>2, ObservedTypes, PTL DEF HSpec

\* So as long as the clients of a counter or sample keep to the grace period
\* and to the order of windows, each of its windows is broadcast at most once
\* between two starts: a late flush never splits it.
THEOREM NeverTwice == HSpec => []OncePerWindow
<1>1. OrderInv => OncePerWindow
  BY DEF OrderInv, OncePerWindow
<1> QED BY <1>1, OrderInvariant, PTL

=============================================================================
