--------------------------- MODULE HistoryProofs ----------------------------
(***************************************************************************)
(* Which events the buffer holds and what a restart brings back, for every *)
(* configuration, every set of clients and any number of restarts: the     *)
(* properties of module KernelHistory about events and saves.              *)
(*                                                                         *)
(* And the counters implement module Windows: each handler is a step of    *)
(* the abstract specification, or leaves its variables alone.              *)
(***************************************************************************)
EXTENDS KernelHistory, CounterWindows, KernelProofs

----------------------------------------------------------------------------
(* The history variables only observe.                                     *)

\* A step with its observation is a step of the kernel.
LEMMA HStep ==
    ASSUME [HNext]_hvars
    PROVE  [Next]_vars
<1>1. CASE HListener
  BY <1>1, Zenon DEF HListener, HSubmitState, HSubmitCounter, HSubmitSample,
     HSubmitRate, HSubmitEvent, HSetKeys, HDropped, Next, Listener
<1>2. CASE HTock \/ HTockDies \/ HSaveStateDies \/ HStop \/ HBoot
           \/ HBootDies \/ HAdvance
  BY <1>2 DEF HTock, HTockDies, HSaveStateDies, HStop, HBoot, HBootDies,
     HAdvance, Next, Process
<1>3. CASE HSaveState \/ HForget \/ HDelKeys
  BY <1>3, Zenon DEF HSaveState, HForget, HDelKeys, Next, Management
<1>4. CASE UNCHANGED hvars
  BY <1>4 DEF hvars
<1> QED BY <1>1, <1>2, <1>3, <1>4 DEF HNext

\* So what is proved of the kernel holds of the kernel that is observed: the
\* types, for instance.
THEOREM ObservedTypes == HSpec => []TypeOK
<1>1. HInit => TypeOK
  BY InitType DEF HInit
<1>2. TypeOK /\ [HNext]_hvars => TypeOK'
  BY HStep, NextType
<1> QED BY <1>1, <1>2, PTL DEF HSpec

----------------------------------------------------------------------------
(* Events.                                                                 *)

\* s is the end of t.
Ends(s, t) ==
    /\ Len(s) <= Len(t)
    /\ \A i \in 1..Len(s) : s[i] = t[Len(t) - Len(s) + i]

\* Ends as the operators on sequences have it.
LEMMA EndsIsLast ==
    ASSUME NEW S, NEW s \in Seq(S), NEW t \in Seq(S), Ends(s, t)
    PROVE  s = Last(t, Len(s))
<1> DEFINE m == Len(t) - Len(s) + 1
<1>1. Len(s) \in Nat /\ Len(t) \in Nat /\ Len(s) <= Len(t) /\ m \in 1..(Len(t) + 1)
  BY DEF Ends
<1>2. s \in [1..Len(s) -> S] /\ t \in [1..Len(t) -> S]
  OBVIOUS
<1>3. \A i \in m..Len(t) : t[i] \in S
  BY <1>1, <1>2
<1> DEFINE u == SubSeq(t, m, Len(t))
<1>4. /\ u \in Seq(S)
      /\ Len(u) = IF m <= Len(t) THEN Len(t) - m + 1 ELSE 0
      /\ \A i \in 1..(Len(t) - m + 1) : u[i] = t[m + i - 1]
  BY <1>1, <1>3
<1>5. Len(u) = Len(s) /\ \A i \in 1..Len(s) : u[i] = s[i]
  <2>1. Len(u) = Len(s)
    BY <1>1, <1>4
  <2>2. ASSUME NEW i \in 1..Len(s) PROVE u[i] = s[i]
    <3>1. m + i - 1 = Len(t) - Len(s) + i /\ i \in 1..(Len(t) - m + 1)
      BY <1>1
    <3> QED BY <1>4, <3>1 DEF Ends
  <2> QED BY <2>1, <2>2
<1> HIDE DEF u
<1>6. u \in [1..Len(s) -> S]
  BY <1>4, <1>5
<1>7. u = s
  BY <1>2, <1>5, <1>6
<1> QED BY <1>7 DEF u, Last

\* Adding the same element to both keeps the one the end of the other.
LEMMA EndsAppend ==
    ASSUME NEW S, NEW s \in Seq(S), NEW t \in Seq(S), NEW e \in S, Ends(s, t)
    PROVE  Ends(Append(s, e), Append(t, e))
<1>1. Len(s) \in Nat /\ Len(t) \in Nat /\ Len(s) <= Len(t)
  BY DEF Ends
<1> DEFINE a == Append(s, e)
           b == Append(t, e)
<1>2. /\ Len(a) = Len(s) + 1 /\ Len(b) = Len(t) + 1
      /\ \A i \in 1..Len(s) : a[i] = s[i]
      /\ \A i \in 1..Len(t) : b[i] = t[i]
      /\ a[Len(s) + 1] = e /\ b[Len(t) + 1] = e
  BY <1>1
<1> HIDE DEF a, b
<1>3. ASSUME NEW i \in 1..Len(a) PROVE a[i] = b[Len(b) - Len(a) + i]
  <2>1. Len(b) - Len(a) + i = Len(t) - Len(s) + i
    BY <1>1, <1>2
  <2>2. CASE i \in 1..Len(s)
    <3>1. Len(t) - Len(s) + i \in 1..Len(t)
      BY <1>1, <2>2
    <3> QED BY <1>2, <2>1, <2>2, <3>1 DEF Ends
  <2>3. CASE i = Len(s) + 1
    <3>1. Len(t) - Len(s) + i = Len(t) + 1
      BY <1>1, <2>3
    <3> QED BY <1>2, <2>1, <2>3, <3>1
  <2> QED BY <1>1, <1>2, <2>2, <2>3
<1>4. Len(a) <= Len(b)
  BY <1>1, <1>2
<1> QED BY <1>3, <1>4, Zenon DEF Ends, a, b

\* Dropping the first k elements leaves an end.
LEMMA EndsTrim ==
    ASSUME NEW S, NEW s \in Seq(S), NEW t \in Seq(S), NEW k \in Nat, Ends(s, t)
    PROVE  /\ Ends(SubSeq(s, k + 1, Len(s)), t)
           /\ SubSeq(s, k + 1, Len(s)) \in Seq(S)
           /\ Len(SubSeq(s, k + 1, Len(s))) = IF k <= Len(s) THEN Len(s) - k ELSE 0
<1> DEFINE u == SubSeq(s, k + 1, Len(s))
<1>1. Len(s) \in Nat /\ Len(t) \in Nat /\ Len(s) <= Len(t)
  BY DEF Ends
<1>2. \A i \in (k + 1)..Len(s) : s[i] \in S
  BY <1>1
<1>3. /\ u \in Seq(S)
      /\ Len(u) = IF k + 1 <= Len(s) THEN Len(s) - (k + 1) + 1 ELSE 0
      /\ \A i \in 1..(Len(s) - (k + 1) + 1) : u[i] = s[(k + 1) + i - 1]
  BY <1>1, <1>2
<1> HIDE DEF u
<1>4. Len(u) = IF k <= Len(s) THEN Len(s) - k ELSE 0
  BY <1>1, <1>3
<1>5. ASSUME NEW i \in 1..Len(u) PROVE u[i] = t[Len(t) - Len(u) + i]
  <2>1. k <= Len(s) /\ Len(u) = Len(s) - k /\ k + i \in 1..Len(s)
    BY <1>1, <1>4
  <2>2. u[i] = s[k + i]
    BY <1>1, <1>3, <2>1
  <2>3. s[k + i] = t[Len(t) - Len(s) + (k + i)]
    BY <2>1 DEF Ends
  <2>4. Len(t) - Len(s) + (k + i) = Len(t) - Len(u) + i
    BY <1>1, <2>1
  <2> QED BY <2>2, <2>3, <2>4
<1>6. Len(u) <= Len(t)
  BY <1>1, <1>4
<1> QED BY <1>3, <1>4, <1>5, <1>6, Zenon DEF Ends, u

\* Event i of the log is too old for max.events, next to a later arrival or
\* an earlier one.
TooOld(i) == \E j \in 1..Len(log) : log[i].ts <= log[j].ts - MaxEvents

\* The buffer is the end of the log, also while the process is down, and
\* what is not in it any more is too old, or above the number to keep.
EventInv ==
    /\ log \in Seq(EventRec) /\ Ends(events, log)
    /\ ~KeepNumber /\ up => \A i \in 1..(Len(log) - Len(events)) : TooOld(i)
    /\ stops = 0 => up
    /\ KeepNumber /\ stops = 0 =>
            /\ events_count = Len(events)
            /\ \/ Len(events) = MaxEvents
               \/ Len(events) = Len(log) /\ Len(log) <= MaxEvents

\* With max.events 0 nothing is buffered, so nothing is saved either.
NoneKept ==
    MaxEvents = 0 => /\ events = <<>>
                     /\ savefile.tag = "data" => savefile.events = <<>>

\* An event is submitted.
LEMMA SubmitEventEnds ==
    ASSUME TypeOK, EventInv, NoneKept, NEW ts \in Stamps, NEW x \in Extras,
           SubmitEvent(ts, x), log' = Append(log, [ts |-> ts, extra |-> x])
    PROVE  EventInv' /\ NoneKept'
<1> DEFINE ev  == [ts |-> ts, extra |-> x]
           evs == Append(events, ev)
<1>1. /\ ev \in EventRec /\ ev.ts = ts /\ ts \in Nat
      /\ events \in Seq(EventRec) /\ log \in Seq(EventRec)
      /\ Len(events) \in Nat /\ Len(log) \in Nat /\ Len(events) <= Len(log)
      /\ MaxEvents \in Nat /\ events_count \in Int /\ KeepNumber \in BOOLEAN
  BY InputAssumption, ConfigAssumption
     DEF EventRec, TypeOK, EventInv, Ends
<1>2. UNCHANGED <<up, stops, savefile>> /\ up /\ log' = Append(log, ev)
  BY DEF SubmitEvent, disk
<1>3. CASE MaxEvents > 0
  <2>1. PICK k \in Surplus(evs, events_count + 1) :
            /\ events' = SubSeq(evs, k + 1, Len(evs))
            /\ events_count' = events_count + 1 - k
    BY <1>3, Zenon DEF SubmitEvent
  <2> HIDE DEF ev
  <2>2. /\ evs \in Seq(EventRec) /\ Len(evs) = Len(events) + 1
        /\ log' \in Seq(EventRec) /\ Len(log') = Len(log) + 1
        /\ \A i \in 1..Len(log) : log'[i] = log[i]
        /\ log'[Len(log) + 1] = ev /\ evs[Len(evs)] = ev
    BY <1>1, <1>2
  <2>3. Ends(evs, log')
    BY <1>1, <1>2, EndsAppend DEF EventInv
  <2> HIDE DEF evs
  <2>4. k \in Nat
    BY <1>1, <2>2, SurplusTyped
  <2>5. ~KeepNumber => /\ k <= Len(evs)
                       /\ \A i \in 1..k : evs[i].ts <= ts - MaxEvents
    <3>1. evs[Len(evs)].ts = ts
      BY <1>1, <2>2
    <3> QED BY <2>2, <3>1 DEF Surplus
  <2>6. KeepNumber => k = IF events_count + 1 > MaxEvents
                          THEN events_count + 1 - MaxEvents ELSE 0
    BY <1>1, SurplusNumber
  <2>7. /\ Ends(events', log')
        /\ Len(events') = IF k <= Len(evs) THEN Len(evs) - k ELSE 0
    BY <2>1, <2>2, <2>3, <2>4, EndsTrim, ZenonT(40)
  <2>8. ASSUME ~KeepNumber, NEW i \in 1..(Len(log') - Len(events'))
        PROVE  TooOld(i)'
    <3>1. i \in 1..(Len(log) - Len(events) + k) /\ k <= Len(evs)
      BY <1>1, <2>2, <2>4, <2>5, <2>7, <2>8
    <3>2. CASE i <= Len(log) - Len(events)
      <4>1. TooOld(i)
        BY <1>1, <1>2, <2>8, <3>1, <3>2 DEF EventInv
      <4>2. PICK j \in 1..Len(log) : log[i].ts <= log[j].ts - MaxEvents
        BY <4>1 DEF TooOld
      <4>3. log'[i] = log[i] /\ log'[j] = log[j] /\ j \in 1..Len(log')
        BY <1>1, <2>2, <3>1, <3>2
      <4> QED BY <4>2, <4>3, Zenon DEF TooOld
    <3>3. CASE i > Len(log) - Len(events)
      <4>1. PICK m \in 1..k : i = Len(log) - Len(events) + m
        <5>1. /\ i - (Len(log) - Len(events)) \in 1..k
              /\ i = Len(log) - Len(events) + (i - (Len(log) - Len(events)))
          BY <1>1, <2>4, <3>1, <3>3
        <5> QED BY <5>1
      <4>2. evs[m] = log'[i]
        <5>1. m \in 1..Len(evs) /\ i = Len(log') - Len(evs) + m
          BY <1>1, <2>2, <2>4, <3>1, <4>1
        <5> QED BY <2>3, <5>1, Zenon DEF Ends
      <4>3. log'[i].ts <= log'[Len(log')].ts - MaxEvents /\ Len(log') \in 1..Len(log')
        BY <1>1, <2>2, <2>5, <2>8, <4>2
      <4> QED BY <4>3 DEF TooOld
    <3> QED BY <1>1, <3>1, <3>2, <3>3
  <2>9. ASSUME KeepNumber, stops = 0
        PROVE  /\ events_count' = Len(events')
               /\ \/ Len(events') = MaxEvents
                  \/ Len(events') = Len(log') /\ Len(log') <= MaxEvents
    <3>1. /\ events_count = Len(events)
          /\ Len(events) = MaxEvents \/ Len(events) = Len(log)
      BY <2>9 DEF EventInv
    <3>2. k = IF Len(events) + 1 > MaxEvents THEN Len(events) + 1 - MaxEvents
                                              ELSE 0
      BY <2>6, <2>9, <3>1, Zenon
    <3>3. k \in 0..Len(evs)
      BY <1>1, <2>2, <3>2
    <3>4. /\ Len(events') = Len(events) + 1 - k
          /\ events_count' = Len(events) + 1 - k
      BY <1>1, <2>1, <2>2, <2>7, <3>1, <3>3
    <3>5. CASE Len(events) + 1 > MaxEvents
      BY <1>1, <3>2, <3>4, <3>5
    <3>6. CASE ~(Len(events) + 1 > MaxEvents)
      BY <1>1, <2>2, <3>1, <3>2, <3>4, <3>6
    <3> QED BY <3>5, <3>6
  <2>10. EventInv'
    BY <1>2, <2>2, <2>7, <2>8, <2>9, ZenonT(40) DEF EventInv
  <2>11. NoneKept'
    BY <1>3 DEF NoneKept
  <2> QED BY <2>10, <2>11
<1>4. CASE MaxEvents = 0
  <2>1. UNCHANGED <<events, events_count>> /\ events = <<>> /\ Len(events) = 0
    BY <1>1, <1>4 DEF SubmitEvent, NoneKept
  <2> HIDE DEF ev
  <2>2. log' \in Seq(EventRec) /\ Len(log') = Len(log) + 1
    BY <1>1, <1>2
  <2>3. ASSUME NEW i \in 1..Len(log') PROVE TooOld(i)'
    <3>1. log'[i] \in EventRec /\ log'[i].ts \in Nat
      <4>1. log'[i] \in EventRec
        BY <2>2
      <4> QED BY <4>1 DEF EventRec
    <3>2. log'[i].ts <= log'[i].ts - MaxEvents
      BY <1>4, <3>1
    <3> QED BY <3>2 DEF TooOld
  <2>4. Ends(events', log')
    BY <1>1, <2>1, <2>2 DEF Ends
  <2>5. KeepNumber /\ stops = 0 => events_count' = Len(events') /\ Len(events') = MaxEvents
    BY <1>4, <2>1 DEF EventInv
  <2>6. Len(log') - Len(events') = Len(log')
    BY <1>1, <2>1, <2>2
  <2> QED BY <1>2, <2>1, <2>2, <2>3, <2>4, <2>5, <2>6, ZenonT(40)
          DEF EventInv, NoneKept
<1> QED BY <1>1, <1>3, <1>4

\* A save, complete or not, of a database without events.
LEMMA WriteNone ==
    ASSUME NoneKept, MaxEvents = 0, NEW f \in {tock_file, cur_file},
           savefile' = savefile \/ savefile' \in binf_write(f) \cup TornFiles(f)
    PROVE  savefile'.tag = "data" => savefile'.events = <<>>
<1>1. f.tag = "data" /\ f.events = <<>>
  BY DEF NoneKept, tock_file, cur_file, SaveFile
<1>2. CASE savefile' = savefile
  BY <1>2, ZenonT(40) DEF NoneKept
<1>3. CASE savefile' \in binf_write(f)
  BY <1>1, <1>3 DEF NoneKept, binf_write, EmptyFile, ZeroFile, SaveFile
<1>4. CASE savefile' \in TornFiles(f)
  <2>1. \A k \in 0..Len(f.events), half \in BOOLEAN :
            FirstEvents(f.events, k, half) = <<>>
    BY <1>1 DEF FirstEvents
  <2>2. \/ savefile' = EmptyFile
        \/ \E sts, c, m, r : savefile' = TornFile(f, sts, c, m, <<>>, r)
    BY <1>1, <1>4, <2>1 DEF TornFiles
  <2>3. CASE savefile' = EmptyFile
    BY <2>3, Zenon DEF EmptyFile
  <2>4. ASSUME NEW sts, NEW c, NEW m, NEW r,
               savefile' = TornFile(f, sts, c, m, <<>>, r)
        PROVE  savefile'.events = <<>>
    BY <2>4, Zenon DEF TornFile
  <2> QED BY <2>2, <2>3, <2>4
<1> QED BY <1>2, <1>3, <1>4, ZenonT(40)

\* What the other steps do to the events, the log and the save file.
LEMMA EventSteps ==
    ASSUME [HNext]_hvars
    PROVE  \/ \E ts \in Stamps, x \in Extras :
                    /\ SubmitEvent(ts, x)
                    /\ log' = Append(log, [ts |-> ts, extra |-> x])
           \/ Boot /\ log' = events'
           \/ /\ \/ Dead \/ UNCHANGED <<events, events_count, up, stops>>
              /\ log' = log
              /\ \E f \in {tock_file, cur_file} :
                    \/ savefile' = savefile
                    \/ savefile' \in binf_write(f) \cup TornFiles(f)
<1>1. CASE HListener
  <2>1. CASE HSubmitEvent
    BY <2>1 DEF HSubmitEvent
  <2>2. CASE HSubmitState \/ HSubmitCounter \/ HSubmitSample \/ HSubmitRate
             \/ HSetKeys \/ HDropped
    <3>1. UNCHANGED <<events, events_count, up, stops, log, savefile>>
      BY <2>2, ZenonT(40) DEF HSubmitState, HSubmitCounter, HSubmitSample,
                              HSubmitRate,
         HSetKeys, HDropped, hist, db, disk, SubmitState, SubmitCounter,
         SubmitSample, SubmitRate, SetKeys, Dropped
    <3> QED BY <3>1
  <2> QED BY <1>1, <2>1, <2>2, Zenon DEF HListener
<1>2. CASE HTock
  BY <1>2, Zenon DEF HTock, Tock, disk
<1>3. CASE HTockDies \/ HSaveStateDies \/ HStop \/ HBoot
  BY <1>3, Zenon DEF HTockDies, HSaveStateDies, HStop, HBoot, hist, TockDies,
     SaveStateDies, TornSave, Stop, Reopen, disk
<1>4. CASE HBootDies \/ HAdvance
  BY <1>4 DEF HBootDies, HAdvance, BootDies, Advance, hist, vars, db, disk
<1>5. CASE HSaveState \/ HForget \/ HDelKeys
  BY <1>5, Zenon DEF HSaveState, HForget, HDelKeys, hist, SaveState, Forget,
     DelKeys, db, disk
<1>6. CASE UNCHANGED hvars
  BY <1>6 DEF hvars, vars, db, disk, hist
<1> QED BY <1>1, <1>2, <1>3, <1>4, <1>5, <1>6, Zenon DEF HNext

\* The invariant of the events holds throughout.
THEOREM EventInvariant == HSpec => [](EventInv /\ NoneKept)
<1>1. HInit => EventInv /\ NoneKept
  BY BoundAssumption, ConfigAssumption
     DEF HInit, Init, EventInv, NoneKept, NoFile, Ends
<1>2. TypeOK /\ TypeOK' /\ EventInv /\ NoneKept /\ [HNext]_hvars
        => EventInv' /\ NoneKept'
  <2> SUFFICES ASSUME TypeOK, TypeOK', EventInv, NoneKept, [HNext]_hvars
               PROVE  EventInv' /\ NoneKept'
    OBVIOUS
  <2>1. ASSUME NEW ts \in Stamps, NEW x \in Extras, SubmitEvent(ts, x),
               log' = Append(log, [ts |-> ts, extra |-> x])
        PROVE  EventInv' /\ NoneKept'
    BY <2>1, SubmitEventEnds
  <2>2. CASE Boot /\ log' = events'
    <3>1. events' \in Seq(EventRec) /\ Len(events') \in Nat
      BY DEF TypeOK
    <3>2. Ends(events', log')
      BY <2>2, <3>1 DEF Ends
    <3>3. up' /\ stops' = stops /\ stops # 0
      BY <2>2 DEF Boot, EventInv
    <3>4. EventInv'
      <4>1. Len(log') - Len(events') = 0
        BY <2>2, <3>1
      <4> QED BY <2>2, <3>1, <3>2, <3>3, <4>1 DEF EventInv
    <3>5. ASSUME MaxEvents = 0 PROVE events' = <<>>
      <4> DEFINE f == IF savefile = NoFile THEN ZeroFile ELSE savefile
      <4>1. f.events = <<>>
        <5>1. savefile # NoFile => savefile.tag = "data"
          BY <2>2 DEF Boot, TypeOK, IsDataFile
        <5> QED BY <3>5, <5>1, ZenonT(40) DEF NoneKept, ZeroFile, SaveFile
      <4>2. Readable(f.events) \subseteq {0}
        BY <4>1 DEF Readable
      <4>3. PICK k \in {0} : events' = [i \in 1..k |-> read_event(f.events[i])]
        BY <2>2, <4>2, Zenon DEF Boot, binf_read
      <4> QED BY <4>3
    <3>6. savefile' = savefile
      BY <2>2 DEF Boot, disk
    <3> QED BY <3>4, <3>5, <3>6, ZenonT(40) DEF NoneKept
  <2>3. CASE /\ \/ Dead \/ UNCHANGED <<events, events_count, up, stops>>
             /\ log' = log
             /\ \E f \in {tock_file, cur_file} :
                    \/ savefile' = savefile
                    \/ savefile' \in binf_write(f) \cup TornFiles(f)
    <3>1. CASE Dead
      <4>1. events' = <<>> /\ up' = FALSE /\ stops' = stops + 1 /\ stops \in Nat
        BY <3>1, BoundAssumption DEF Dead, TypeOK
      <4>2. Ends(events', log') /\ stops' # 0
        <5>1. Len(log') - 0 \in Nat /\ log' \in Seq(EventRec)
          BY <2>3 DEF EventInv
        <5> QED BY <4>1, <5>1 DEF Ends
      <4> QED BY <2>3, <4>1, <4>2, WriteNone, ZenonT(40) DEF EventInv, NoneKept
    <3>2. CASE UNCHANGED <<events, events_count, up, stops>>
      BY <2>3, <3>2, WriteNone DEF EventInv, NoneKept, Ends, TooOld
    <3> QED BY <2>3, <3>1, <3>2
  <2> QED BY <2>1, <2>2, <2>3, EventSteps, Zenon
<1> QED BY <1>1, <1>2, ObservedTypes, PTL DEF HSpec

\* The buffer always holds the newest arrivals, and until the first restart
\* with max.events a number just that many of them.  (A restart restores
\* events without counting them: the buffer may then hold up to twice as
\* many, but still the newest ones.)
THEOREM EventsAlwaysNewest ==
    HSpec => [](/\ stops = 0 => EventsAreNewest
                /\ Len(events) <= Len(log) /\ events = Last(log, Len(events)))
<1>1. TypeOK /\ EventInv =>
        /\ stops = 0 => EventsAreNewest
        /\ Len(events) <= Len(log) /\ events = Last(log, Len(events))
  <2> SUFFICES ASSUME TypeOK, EventInv
               PROVE  /\ stops = 0 => EventsAreNewest
                      /\ Len(events) <= Len(log)
                      /\ events = Last(log, Len(events))
    BY ZenonT(40)
  <2>1. Len(events) <= Len(log) /\ events = Last(log, Len(events))
    BY EndsIsLast DEF TypeOK, EventInv, Ends
  <2> QED BY <2>1 DEF EventInv, EventsAreNewest
<1> QED BY <1>1, EventInvariant, ObservedTypes, PTL

\* With max.events a span of time, no event is dropped that is younger than
\* that span, seen from every other event, in whatever order the clients'
\* timestamps arrive and however often the process is restarted.
THEOREM RecentAlwaysKept == HSpec => []RecentEventsKept
<1>1. TypeOK /\ EventInv => RecentEventsKept
  <2> SUFFICES ASSUME TypeOK, EventInv, up, ~KeepNumber
               PROVE  /\ Len(events) <= Len(log)
                      /\ events = Last(log, Len(events))
                      /\ \A i \in 1..Len(log) :
                            (\A j \in 1..Len(log) :
                                log[j].ts - MaxEvents < log[i].ts)
                            => i > Len(log) - Len(events)
    BY ZenonT(40) DEF RecentEventsKept
  <2>1. Len(events) <= Len(log) /\ events = Last(log, Len(events))
    BY EndsIsLast DEF TypeOK, EventInv, Ends
  <2>2. ASSUME NEW i \in 1..Len(log), i <= Len(log) - Len(events)
        PROVE  \E j \in 1..Len(log) : ~(log[j].ts - MaxEvents < log[i].ts)
    <3>1. Len(log) \in Nat /\ Len(events) \in Nat
      BY DEF TypeOK, EventInv
    <3>2. i \in 1..(Len(log) - Len(events))
      BY <2>2, <3>1
    <3>3. PICK j \in 1..Len(log) : log[i].ts <= log[j].ts - MaxEvents
      BY <3>2 DEF EventInv, TooOld
    <3>4. log[i] \in EventRec /\ log[j] \in EventRec
      BY DEF EventInv
    <3>5. log[i].ts \in Nat /\ log[j].ts \in Nat /\ MaxEvents \in Nat
      BY <3>4, ConfigAssumption, Zenon DEF EventRec
    <3> QED BY <3>3, <3>5
  <2>3. Len(log) \in Nat /\ Len(events) \in Nat
    BY DEF TypeOK, EventInv
  <2> QED BY <2>1, <2>2, <2>3
<1> QED BY <1>1, EventInvariant, ObservedTypes, PTL

----------------------------------------------------------------------------
(* Windows.                                                                *)

Opening == [n \in CounterNames |-> OpenWindow(n)]

Published == {<<p.name, p.ts, p.value>> : p \in CounterPDUs}

----------------------------------------------------------------------------

\* The window open for a counter has the types that Windows asks for.
LEMMA OpenTyped ==
    ASSUME TypeOK, NEW n \in CounterNames
    PROVE  /\ OpenWindow(n) \in W!Held
           /\ n \in DOMAIN counters => counters[n] \in CounterRec
<1>1. CASE n \in DOMAIN counters
  <2>1. counters[n] \in CounterRec
    BY <1>1 DEF TypeOK, IsTable
  <2>2. winstart(n, counters[n].last_seen) \in Nat
    BY <2>1, WinstartBounds, ZenonT(40) DEF CounterRec, Metrics
  <2>3. PICK a : a = IF counters[n].last_seen = 0 THEN -1
                     ELSE winstart(n, counters[n].last_seen)
    OBVIOUS
  <2>4. a \in Int
    BY <2>2, <2>3
  <2>5. counters[n].value \in W!Total
    BY <2>1 DEF W!Total, CounterRec, Word
  <2>6. OpenWindow(n) = [start |-> a, total |-> counters[n].value]
    BY <1>1, <2>3, ZenonT(40) DEF OpenWindow
  <2>7. OpenWindow(n) \in W!Held
    BY <2>4, <2>5, <2>6 DEF W!Held
  <2> QED BY <2>1, <2>7, ZenonT(40)
<1>2. CASE n \notin DOMAIN counters
  <2>1. OpenWindow(n) = [start |-> -1, total |-> 0]
    BY <1>2, ZenonT(40) DEF OpenWindow
  <2>2. 0 \in W!Total
    BY WordAssumption DEF W!Total
  <2> QED BY <1>2, <2>1, <2>2 DEF W!Held
<1> QED BY <1>1, <1>2, ZenonT(40)

\* A step that leaves the counters alone and broadcasts none publishes nothing.
LEMMA IdleStep ==
    ASSUME UNCHANGED <<counters, up>>, \A p \in out' : p.type # "COUNTER"
    PROVE  W!Publish({})
<1>1. CounterPDUs' = {}
  BY DEF CounterPDUs
<1>2. Published' = {}
  BY <1>1 DEF Published
<1>3. \A n \in CounterNames : OpenWindow(n)' = OpenWindow(n)
  BY ZenonT(40) DEF OpenWindow, winstart
<1> QED BY <1>2, <1>3 DEF Published, W!Publish, W!Cleared, W!Publication

\* No window has to be open.
LEMMA EmptyIsOpened == {} \in SUBSET W!Opened
OBVIOUS

\* The PDUs of the other kinds.
LEMMA OtherKinds ==
    /\ \A n, s, t : \A p \in broadcast_state(n, s, t) : p.type # "COUNTER"
    /\ \A n, s : broadcast_sample(n, s).type # "COUNTER"
    /\ \A n, r : broadcast_rate(n, r).type # "COUNTER"
    /\ \A ev : broadcast_event(ev).type # "COUNTER"
    /\ \A ks : \A p \in broadcast_setkeys(ks) : p.type # "COUNTER"
    /\ beacon_sweep.type # "COUNTER"
<1>1. \A n, s, t : \A p \in broadcast_state(n, s, t) : p.type # "COUNTER"
  BY DEF broadcast_state, StatePDU
<1>2. \A n, s : broadcast_sample(n, s).type # "COUNTER"
  BY DEF broadcast_sample
<1>3. \A n, r : broadcast_rate(n, r).type # "COUNTER"
  BY DEF broadcast_rate
<1>4. \A ev : broadcast_event(ev).type # "COUNTER"
  BY DEF broadcast_event
<1>5. \A ks : \A p \in broadcast_setkeys(ks) : p.type # "COUNTER"
  BY DEF broadcast_setkeys
<1>6. beacon_sweep.type # "COUNTER"
  BY DEF beacon_sweep
<1> QED BY <1>1, <1>2, <1>3, <1>4, <1>5, <1>6

----------------------------------------------------------------------------

\* The COUNTER handler adds to the open window or turns to another one.
LEMMA SubmitCounterStep ==
    ASSUME TypeOK, NEW ts \in Stamps, NEW n \in CounterNames,
           NEW i \in Increments, SubmitCounter(ts, n, i)
    PROVE  W!Next
<1> DEFINE old == Find(counters, n, NewCounter)
           cur == IF Rollover(n, old, ts) THEN counter_reset(old) ELSE old
           new == counter_data(cur, ts, int32(i))
           w   == IF ts = 0 THEN -1 ELSE winstart(n, ts)
<1>1. ts \in Nat /\ i \in Nat /\ int32(i) \in Int
  BY InputAssumption, Int32Typed
<1>2. old \in CounterRec
  BY NewRecords, FindTyped, ZenonT(40) DEF TypeOK
<1>3. counters' = Put(counters, n, new) /\ UNCHANGED up /\ up
      /\ out' = IF Rollover(n, old, ts) THEN {broadcast_counter(n, old)} ELSE {}
  BY DEF SubmitCounter
<1>4. OpenWindow(n) = [start |-> IF old.last_seen = 0 THEN -1
                                 ELSE winstart(n, old.last_seen),
                       total |-> old.value]
  BY Zenon DEF OpenWindow, Find, NewCounter
<1>5. \A m \in CounterNames \ {n} : OpenWindow(m)' = OpenWindow(m)
  BY <1>3, ZenonT(40) DEF OpenWindow, Put, winstart
<1>6. OpenWindow(n)' = [start |-> IF new.last_seen = 0 THEN -1
                                  ELSE winstart(n, new.last_seen),
                        total |-> new.value]
  BY <1>3, ZenonT(40) DEF OpenWindow, Put, winstart
<1>7. OpenWindow(n)' = [start |-> w, total |-> (cur.value + int32(i)) % U64]
  <2>1. cur \in CounterRec
    BY <1>2, ResetTyped, Zenon
  <2>2. new.last_seen = ts /\ new.value = (cur.value + int32(i)) % U64
    BY <2>1 DEF counter_data, CounterRec
  <2> QED BY <1>6, <2>2, Zenon
<1>8. /\ w \in CounterStarts \cup {W!NoWindow}
      /\ int32(i) \in {int32(j) : j \in Increments}
  BY DEF CounterStarts, W!NoWindow
<1>9. CASE Rollover(n, old, ts)
  <2>1. cur.value = 0 /\ old.last_seen > 0
        /\ winstart(n, old.last_seen) # winstart(n, ts)
    BY <1>2, <1>9 DEF counter_reset, CounterRec, Rollover
  <2>2. old.last_seen \in Nat /\ old.last_seen # 0
    BY <1>2, <2>1 DEF CounterRec
  <2>3. OpenWindow(n).start = winstart(n, old.last_seen)
        /\ OpenWindow(n).total = old.value
    BY <1>4, <2>2
  <2>4. OpenWindow(n).start \notin {-1, w}
    BY <2>1, <2>2, <2>3, WinstartBounds DEF Metrics
  <2>5. OpenWindow(n)' = [start |-> w, total |-> int32(i) % U64]
    <3>1. 0 + int32(i) = int32(i)
      BY <1>1
    <3> QED BY <1>7, <2>1, <3>1, Zenon
  <2>6. CounterPDUs' = {broadcast_counter(n, old)}
    BY <1>3, <1>9 DEF CounterPDUs, broadcast_counter
  <2>7. Published' = {<<n, OpenWindow(n).start, OpenWindow(n).total>>}
    <3>1. PICK p : p = broadcast_counter(n, old)
      OBVIOUS
    <3>2. /\ p.name = n /\ p.ts = winstart(n, old.last_seen)
          /\ p.value = old.value
      BY <3>1, Zenon DEF broadcast_counter
    <3>3. Published' = {<<p.name, p.ts, p.value>>}
      BY <2>6, <3>1, Zenon DEF Published
    <3> QED BY <2>3, <3>2, <3>3, Zenon
  <2>8. Opening' = [Opening EXCEPT ![n] = [start |-> w, total |-> int32(i) % U64]]
    BY <1>5, <2>5, Zenon DEF Opening
  <2>9. W!Turn(n, w, int32(i))
    BY <1>3, <2>4, <2>7, <2>8, ZenonT(40)
    DEF W!Turn, W!Publication, W!NoWindow, Opening, Published
  <2> HIDE DEF w
  <2> QED BY <1>8, <2>9, ZenonT(40) DEF W!Next
<1>10. CASE ~Rollover(n, old, ts)
  <2>1. cur = old
    BY <1>10
  <2>2. old.last_seen \in Nat
    BY <1>2, ZenonT(40) DEF CounterRec
  <2>3. OpenWindow(n).start \in {-1, w} \/ w = -1
    BY <1>1, <1>4, <1>10, <2>2 DEF Rollover
  <2>4. OpenWindow(n)' = [start |-> w,
                          total |-> (OpenWindow(n).total + int32(i)) % U64]
    <3>1. OpenWindow(n).total = old.value
      BY <1>4
    <3> QED BY <1>7, <2>1, <3>1, ZenonT(40)
  <2>5. Published' = {}
    BY <1>3, <1>10, Zenon DEF Published, CounterPDUs
  <2>6. Opening' = [Opening EXCEPT ![n] =
                        [start |-> w,
                         total |-> (OpenWindow(n).total + int32(i)) % U64]]
    BY <1>5, <2>4, Zenon DEF Opening
  <2>7. W!Join(n, w, int32(i))
    BY <1>3, <2>3, <2>5, <2>6, Zenon DEF W!Join, W!NoWindow, Opening, Published
  <2> HIDE DEF w
  <2> QED BY <1>8, <2>7, ZenonT(40) DEF W!Next
<1> QED BY <1>9, <1>10

----------------------------------------------------------------------------

\* What the TOCK handler broadcasts of counters, also when it dies in its save.
LEMMA TockPublishes ==
    ASSUME TypeOK, out' = tock_out
    PROVE  /\ Flush(counters) \in SUBSET W!Opened
           /\ Published' = {W!Publication(n) : n \in Flush(counters)}
<1>1. \A n \in Flush(counters) : /\ n \in CounterNames /\ n \in DOMAIN counters
                                 /\ counters[n].last_seen # 0
  BY DEF Flush, Closed, TypeOK, IsTable
<1>2. \A n \in Flush(counters) :
        /\ OpenWindow(n).start = winstart(n, counters[n].last_seen)
        /\ OpenWindow(n).total = counters[n].value
        /\ OpenWindow(n).start # -1
  <2> SUFFICES ASSUME NEW n \in Flush(counters)
               PROVE  /\ OpenWindow(n).start = winstart(n, counters[n].last_seen)
                      /\ OpenWindow(n).total = counters[n].value
                      /\ OpenWindow(n).start # -1
    BY Zenon
  <2>1. counters[n] \in CounterRec
    BY <1>1, OpenTyped, ZenonT(40)
  <2>2. winstart(n, counters[n].last_seen) \in Nat
    BY <1>1, <2>1, WinstartBounds DEF CounterRec, Metrics
  <2>3. winstart(n, counters[n].last_seen) # -1
    BY <2>2
  <2> QED BY <1>1, <2>3, ZenonT(40) DEF OpenWindow
<1>3. CounterPDUs' = {broadcast_counter(n, counters[n]) : n \in Flush(counters)}
  <2>1. \A n : broadcast_counter(n, counters[n]).type = "COUNTER"
    BY DEF broadcast_counter
  <2>2. \A p \in out' : p.type = "COUNTER" =>
            p \in {broadcast_counter(n, counters[n]) : n \in Flush(counters)}
    <3> SUFFICES ASSUME NEW p \in out', p.type = "COUNTER",
                        p \notin {broadcast_counter(n, counters[n]) :
                                    n \in Flush(counters)}
                 PROVE  FALSE
      BY ZenonT(40)
    <3>1. CASE p \in {broadcast_sample(n, samples[n]) : n \in Flush(samples)}
      BY <3>1, OtherKinds, ZenonT(40)
    <3>2. CASE p \in {broadcast_rate(n, rates[n]) : n \in Flush(rates)}
      BY <3>2, OtherKinds, ZenonT(40)
    <3>3. CASE p = beacon_sweep
      BY <3>3, OtherKinds, ZenonT(40)
    <3>4. CASE p \in broadcast_setkeys(keys)
      BY <3>4, OtherKinds, ZenonT(40)
    <3>5. CASE \E n \in Expired :
                    p \in broadcast_state(n, MarkStale(n),
                            ~states[n].stale \/ states[n].status # StaleStatus[n])
      BY <3>5, OtherKinds, ZenonT(40)
    <3>6. p \in tock_out
      BY ZenonT(40)
    <3> QED BY <3>1, <3>2, <3>3, <3>4, <3>5, <3>6, ZenonT(30) DEF tock_out
  <2>3. {broadcast_counter(n, counters[n]) : n \in Flush(counters)} \subseteq out'
    BY ZenonT(40) DEF tock_out
  <2> QED BY <2>1, <2>2, <2>3 DEF CounterPDUs
<1>4. \A n \in Flush(counters) :
        LET p == broadcast_counter(n, counters[n])
        IN  <<p.name, p.ts, p.value>> = W!Publication(n)
  BY <1>1, <1>2, ZenonT(40) DEF broadcast_counter, W!Publication
<1>5. Flush(counters) \in SUBSET W!Opened
  BY <1>1, <1>2 DEF W!Opened, W!NoWindow
<1> QED BY <1>3, <1>4, <1>5, ZenonT(40) DEF Published

\* The TOCK handler publishes the windows it flushes.
LEMMA TockStep ==
    ASSUME TypeOK, Tock
    PROVE  W!Next
<1> PICK S : S = Flush(counters)
  BY Zenon
<1>1. out' = tock_out /\ counters' = tock_counters /\ UNCHANGED up
  BY ZenonT(40) DEF Tock
<1>2. \A n \in CounterNames :
        OpenWindow(n)' = IF n \in S THEN [start |-> -1, total |-> 0]
                                    ELSE OpenWindow(n)
  <2> TAKE n \in CounterNames
  <2>1. CASE n \in S
    <3>1. n \in DOMAIN counters /\ counters[n] \in CounterRec
      BY <2>1, OpenTyped DEF Flush, Closed
    <3>2. n \in DOMAIN counters' /\ counters'[n] = counter_reset(counters[n])
      BY <1>1, <2>1, <3>1 DEF tock_counters
    <3>3. counters'[n].last_seen = 0 /\ counters'[n].value = 0
      BY <3>1, <3>2, Zenon DEF counter_reset, CounterRec
    <3> QED BY <2>1, <3>2, <3>3, ZenonT(40) DEF OpenWindow
  <2>2. CASE n \notin S
    BY <1>1, <2>2, ZenonT(40) DEF OpenWindow, tock_counters, winstart
  <2> QED BY <2>1, <2>2
<1>3. S \in SUBSET W!Opened /\ Published' = {W!Publication(n) : n \in S}
  BY <1>1, TockPublishes
<1>4. Opening' = W!Cleared(S)
  BY <1>2 DEF Opening, W!Cleared, W!None, W!NoWindow
<1>5. W!Publish(S)
  BY <1>1, <1>3, <1>4, ZenonT(40) DEF W!Publish, Published, Opening
<1>6. \E T \in SUBSET W!Opened : W!Publish(T) \/ W!Stop(T)
  BY <1>3, <1>5
<1> QED BY <1>6 DEF W!Next

\* A process that stops loses what is open, but for what its last handler
\* broadcast.
LEMMA StopStep ==
    ASSUME TypeOK, Stop \/ TockDies \/ SaveStateDies
    PROVE  W!Next
<1>1. up /\ up' = FALSE /\ counters' = NoRecords
  BY ZenonT(40) DEF Stop, TockDies, SaveStateDies, Dead
<1>2. \A n \in CounterNames : OpenWindow(n)' = [start |-> -1, total |-> 0]
  BY <1>1 DEF OpenWindow, NoRecords
<1>3. Opening' = W!Cleared(CounterNames)
  BY <1>2 DEF Opening, W!Cleared, W!None, W!NoWindow
<1>4. CASE TockDies
  <2>1. out' = tock_out
    BY <1>4 DEF TockDies
  <2> PICK S : S = Flush(counters)
    OBVIOUS
  <2>2. S \in SUBSET W!Opened /\ Published' = {W!Publication(n) : n \in S}
    BY <2>1, TockPublishes, ZenonT(40)
  <2>3. W!Stop(S)
    BY <1>1, <1>3, <2>2 DEF W!Stop, Published, Opening
  <2>4. \E T \in SUBSET W!Opened : W!Publish(T) \/ W!Stop(T)
    BY <2>2, <2>3
  <2> QED BY <2>4 DEF W!Next
<1>5. CASE Stop \/ SaveStateDies
  <2>1. Published' = {}
    BY <1>5 DEF Stop, SaveStateDies, Published, CounterPDUs
  <2>2. W!Stop({})
    BY <1>1, <1>3, <2>1 DEF W!Stop, Published, Opening
  <2> QED BY <2>2, EmptyIsOpened, ZenonT(40) DEF W!Next
<1> QED BY <1>4, <1>5

\* FORGET discards the counters it drops; those it ignores keep their window.
LEMMA ForgetStep ==
    ASSUME TypeOK, NEW p, NEW ig \in BOOLEAN, Forget(p, ig)
    PROVE  W!Next
<1>1. up /\ UNCHANGED up /\ out' = {} /\ counters' = Forgotten(counters, p, ig)
  BY DEF Forget
<1>2. Published' = {}
  BY <1>1 DEF Published, CounterPDUs
<1> DEFINE S == IF ig THEN {} ELSE CounterNames \cap p
<1>3. \A n \in CounterNames :
        OpenWindow(n)' = IF n \in S THEN [start |-> -1, total |-> 0]
                                    ELSE OpenWindow(n)
  <2> TAKE n \in CounterNames
  <2>1. CASE ig
    <3>1. DOMAIN counters' = DOMAIN counters
      BY <1>1, <2>1, ZenonT(40) DEF Forgotten
    <3>2. CASE n \in DOMAIN counters
      <4>1. counters[n] \in CounterRec
        BY <3>2, OpenTyped
      <4>2. /\ counters'[n].last_seen = counters[n].last_seen
            /\ counters'[n].value = counters[n].value
        BY <1>1, <2>1, <3>2, <4>1, ZenonT(40) DEF Forgotten, CounterRec
      <4> QED BY <2>1, <3>1, <3>2, <4>2 DEF OpenWindow, winstart
    <3>3. CASE n \notin DOMAIN counters
      BY <2>1, <3>1, <3>3, ZenonT(40) DEF OpenWindow
    <3> QED BY <3>2, <3>3
  <2>2. CASE ~ig
    BY <1>1, <2>2 DEF OpenWindow, Forgotten, Drop, winstart
  <2> QED BY <2>1, <2>2
<1>4. Opening' = W!Cleared(S)
  BY <1>3, ZenonT(40) DEF Opening, W!Cleared, W!None, W!NoWindow
<1>5. W!Discard(S)
  BY <1>1, <1>2, <1>4 DEF W!Discard, Published, Opening
<1>6. S \in SUBSET CounterNames
  BY ZenonT(40)
<1> QED BY <1>5, <1>6 DEF W!Next

\* A start begins with some windows open.
LEMMA BootStep ==
    ASSUME TypeOK, Boot
    PROVE  W!Next
<1>1. TypeOK'
  BY BootType
<1>2. \A n \in CounterNames : OpenWindow(n)' \in W!Held
  <2>1. ASSUME NEW n \in CounterNames PROVE OpenWindow(n)' \in W!Held
    <3>1. CASE n \in DOMAIN counters'
      <4>1. counters'[n] \in CounterRec
        BY <1>1, <3>1 DEF TypeOK, IsTable
      <4>2. winstart(n, counters'[n].last_seen) \in Nat
        BY <4>1, WinstartBounds, ZenonT(40) DEF CounterRec, Metrics
      <4>3. PICK a : a = IF counters'[n].last_seen = 0 THEN -1
                         ELSE winstart(n, counters'[n].last_seen)
        OBVIOUS
      <4>4. a \in Int
        BY <4>2, <4>3
      <4>5. counters'[n].value \in W!Total
        BY <4>1 DEF W!Total, CounterRec, Word
      <4>6. OpenWindow(n)' = [start |-> a, total |-> counters'[n].value]
        BY <3>1, <4>3, ZenonT(40) DEF OpenWindow, winstart
      <4> QED BY <4>4, <4>5, <4>6 DEF W!Held
    <3>2. CASE n \notin DOMAIN counters'
      <4>1. OpenWindow(n)' = [start |-> W!NoWindow, total |-> 0]
        BY <3>2, Zenon DEF OpenWindow, W!NoWindow
      <4> QED BY <4>1, WordAssumption DEF W!NoWindow, W!Held, W!Total
    <3> QED BY <3>1, <3>2, ZenonT(40)
  <2> QED BY <2>1
<1>3. ~up /\ up' = TRUE /\ Published' = {}
  BY ZenonT(40) DEF Boot, Published, CounterPDUs
<1>4. Opening' \in [CounterNames -> W!Held]
  BY <1>2 DEF Opening
<1>5. W!Start
  BY <1>3, <1>4, ZenonT(40) DEF W!Start, Published, Opening
<1> QED BY <1>5, ZenonT(40) DEF W!Next

\* The handlers that have nothing to do with counters.
LEMMA OtherStep ==
    ASSUME TypeOK,
           \/ \E ts \in Stamps, n \in StateNames, code \in Codes, m \in Messages :
                    SubmitState(ts, n, code, m)
           \/ \E ts \in Stamps, n \in SampleNames, b \in SampleBatches :
                    SubmitSample(ts, n, b)
           \/ \E ts \in Stamps, n \in RateNames, v \in RateValues :
                    SubmitRate(ts, n, v)
           \/ \E ts \in Stamps, x \in Extras : SubmitEvent(ts, x)
           \/ \E kv : SetKeys(kv)
           \/ \E ks : DelKeys(ks)
           \/ Dropped \/ SaveState \/ Advance
    PROVE  W!Next
<1>1. UNCHANGED <<counters, up>>
  BY ZenonT(40) DEF SubmitState, SubmitSample, SubmitRate, SubmitEvent,
                    SetKeys, DelKeys,
         Dropped, SaveState, Advance, db
<1>2. \A p \in out' : p.type # "COUNTER"
  <2>1. CASE \E ts \in Stamps, n \in StateNames, code \in Codes, m \in Messages :
                SubmitState(ts, n, code, m)
    BY <2>1, OtherKinds, ZenonT(40) DEF SubmitState
  <2>2. CASE \E ts \in Stamps, n \in SampleNames, b \in SampleBatches :
                SubmitSample(ts, n, b)
    BY <2>2, OtherKinds, ZenonT(40) DEF SubmitSample
  <2>3. CASE \E ts \in Stamps, n \in RateNames, v \in RateValues :
                SubmitRate(ts, n, v)
    BY <2>3, OtherKinds, Zenon DEF SubmitRate
  <2>4. CASE \E ts \in Stamps, x \in Extras : SubmitEvent(ts, x)
    BY <2>4, OtherKinds, Zenon DEF SubmitEvent
  <2>5. CASE \/ \E kv : SetKeys(kv)
             \/ \E ks : DelKeys(ks)
             \/ Dropped \/ SaveState \/ Advance
    BY <2>5, Zenon DEF SetKeys, DelKeys, Dropped, SaveState, Advance
  <2> QED BY <2>1, <2>2, <2>3, <2>4, <2>5, ZenonT(40)
<1>3. W!Publish({})
  BY <1>1, <1>2, IdleStep, Zenon
<1> QED BY <1>3, EmptyIsOpened DEF W!Next

----------------------------------------------------------------------------

\* The kernel's counters are windowed totals: every behaviour of the kernel,
\* with all its restarts, is one of module Windows.
THEOREM CountersImplementWindows == Spec => CountersAreWindows
<1>1. Init => W!Init
  <2> SUFFICES ASSUME Init PROVE W!Init
    BY ZenonT(40)
  <2>1. \A n \in CounterNames : OpenWindow(n) = [start |-> -1, total |-> 0]
    BY DEF Init, OpenWindow, configure_counters, NewCounter
  <2>2. Published = {} /\ up = TRUE
    BY Zenon DEF Init, Published, CounterPDUs
  <2> QED BY <2>1, <2>2, Zenon DEF W!Init, W!None, W!NoWindow, Published
<1>2. TypeOK /\ [Next]_vars =>
        [W!Next]_<<Opening, Published, up>>
  <2> SUFFICES ASSUME TypeOK, [Next]_vars
               PROVE  W!Next \/ UNCHANGED <<Opening, Published, up>>
    BY ZenonT(40)
  <2>1. CASE Listener
    BY <2>1, SubmitCounterStep, OtherStep DEF Listener
  <2>2. CASE Management
    BY <2>2, ForgetStep, OtherStep DEF Management
  <2>3. CASE Tock
    BY <2>3, TockStep
  <2>4. CASE Stop \/ TockDies \/ SaveStateDies \/ Boot
    BY <2>4, StopStep, BootStep
  <2>5. CASE Advance
    BY <2>5, OtherStep, ZenonT(40)
  <2>6. CASE BootDies \/ UNCHANGED vars
    <3>1. UNCHANGED <<counters, out, up>>
      BY <2>6 DEF BootDies, vars, db
    <3> QED BY <3>1 DEF Opening, Published, OpenWindow, CounterPDUs, winstart
  <2> QED BY <2>1, <2>2, <2>3, <2>4, <2>5, <2>6 DEF Next, Process
<1>3. TypeOK /\ [Next]_vars =>
        [W!Next]_<<[n \in CounterNames |-> OpenWindow(n)],
                   {<<p.name, p.ts, p.value>> : p \in CounterPDUs}, up>>
  BY <1>2, Zenon DEF Opening, Published
<1> QED BY <1>1, <1>3, TypeCorrect, PTL DEF Spec, CountersAreWindows, W!Spec

----------------------------------------------------------------------------
(* Restarts.                                                               *)

IsSnapshot(d) ==
    /\ IsTable(d.states, StateNames, StateRec)
    /\ IsTable(d.counters, CounterNames, CounterRec)
    /\ IsTable(d.samples, SampleNames, SampleRec)
    /\ d.events \in Seq(EventRec)
    /\ IsTable(d.rates, RateNames, RateRec)
    /\ IsTable(d.keys, Keys, KeyValues \cup {NULL})

\* As long as a save stands, both files hold what it saved.
DurableInv ==
    /\ durable = [stands |-> durable.stands, snap |-> durable.snap]
    /\ durable.stands \in BOOLEAN
    /\ durable.stands =>
         LET d == durable.snap IN
         /\ IsSnapshot(d)
         /\ savefile = SaveFile(d.states, d.counters, d.samples, d.events, d.rates)
         /\ keysfile = [k \in LiveKeys(d.keys) |-> d.keys[k]]

\* A save that ends well makes the files stand for what it saved, and one
\* that does not makes them stand for nothing.
LEMMA SavedDurable ==
    ASSUME DurableInv, NEW d, IsSnapshot(d), d.keys = keys, Saved(d)
    PROVE  DurableInv'
<1> DEFINE complete == /\ savefile' = SaveFile(d.states, d.counters, d.samples,
                                               d.events, d.rates)
                       /\ keysfile' = [k \in LiveKeys(keys) |-> keys[k]]
<1>1. CASE complete
  <2>1. durable' = [stands |-> TRUE, snap |-> d]
    BY <1>1, ZenonT(40) DEF Saved
  <2> QED BY <1>1, <2>1 DEF DurableInv
<1>2. CASE ~complete
  <2>1. durable' = [stands |-> FALSE, snap |-> durable.snap]
    BY <1>2, ZenonT(40) DEF Saved, DurableInv
  <2> QED BY <2>1 DEF DurableInv
<1> QED BY <1>1, <1>2, ZenonT(40)

\* So does every save that is interrupted; and what the process holds is a
\* snapshot, before and after a TOCK.
LEMMA InterruptedDurable ==
    ASSUME DurableInv, Interrupted
    PROVE  DurableInv'
<1>1. durable' = [stands |-> FALSE, snap |-> durable.snap]
  BY ZenonT(40) DEF Interrupted, DurableInv
<1> QED BY <1>1 DEF DurableInv

\* What a save writes has the types of the file.
LEMMA SnapshotTyped ==
    ASSUME TypeOK, NEW sts, IsTable(sts, StateNames, StateRec),
           NEW cts, IsTable(cts, CounterNames, CounterRec),
           NEW sms, IsTable(sms, SampleNames, SampleRec),
           NEW rts, IsTable(rts, RateNames, RateRec)
    PROVE  /\ IsSnapshot(Snapshot(sts, cts, sms, rts))
           /\ Snapshot(sts, cts, sms, rts).keys = keys
BY DEF TypeOK, IsSnapshot, Snapshot

\* The files and the record of the last save agree throughout.
THEOREM DurableInvariant == HSpec => []DurableInv
<1>1. HInit => DurableInv
  BY DEF HInit, DurableInv
<1>2. TypeOK /\ TypeOK' /\ DurableInv /\ [HNext]_hvars => DurableInv'
  <2> SUFFICES ASSUME TypeOK, TypeOK', DurableInv, [HNext]_hvars
               PROVE  DurableInv'
    OBVIOUS
  <2>1. CASE HTock /\ SaveDue
    <3>1. Saved(Snapshot(states', counters', samples', rates'))
      BY <2>1, ZenonT(40) DEF HTock
    <3>2. /\ IsTable(states', StateNames, StateRec)
          /\ IsTable(counters', CounterNames, CounterRec)
          /\ IsTable(samples', SampleNames, SampleRec)
          /\ IsTable(rates', RateNames, RateRec)
      BY DEF TypeOK
    <3>3. /\ IsSnapshot(Snapshot(states', counters', samples', rates'))
          /\ Snapshot(states', counters', samples', rates').keys = keys
      BY <3>2, SnapshotTyped
    <3> QED BY <3>1, <3>3, SavedDurable
  <2>2. CASE HSaveState
    <3>1. /\ IsSnapshot(Snapshot(states, counters, samples, rates))
          /\ Snapshot(states, counters, samples, rates).keys = keys
      BY SnapshotTyped, Zenon DEF TypeOK
    <3> QED BY <2>2, <3>1, SavedDurable, Zenon DEF HSaveState
  <2>3. CASE HTockDies \/ HSaveStateDies
    BY <2>3, InterruptedDurable, Zenon DEF HTockDies, HSaveStateDies
  <2>4. CASE UNCHANGED <<savefile, keysfile, durable>>
    BY <2>4, Zenon DEF DurableInv
  <2>5. CASE HListener
    BY <2>4, <2>5, ZenonT(40) DEF HListener, HSubmitState, HSubmitCounter,
                                  HSubmitSample,
       HSubmitRate, HSubmitEvent, HSetKeys, HDropped, hist, disk, SubmitState,
       SubmitCounter, SubmitSample, SubmitRate, SubmitEvent, SetKeys, Dropped
  <2>6. CASE HTock /\ ~SaveDue
    BY <2>4, <2>6, Zenon DEF HTock, Tock, disk
  <2>7. CASE HForget \/ HDelKeys \/ HStop \/ HBoot
    BY <2>4, <2>7, Zenon DEF HForget, HDelKeys, HStop, HBoot, hist, disk,
                             Forget,
       DelKeys, Stop, Boot
  <2>8. CASE HBootDies \/ HAdvance \/ UNCHANGED hvars
    BY <2>4, <2>8, Zenon DEF HBootDies, HAdvance, BootDies, Advance, hist,
                             hvars,
       vars, disk
  <2> QED BY <2>1, <2>2, <2>3, <2>5, <2>6, <2>7, <2>8, Zenon DEF HNext
<1> QED BY <1>1, <1>2, ObservedTypes, PTL DEF HSpec

\* A number without its remainder, as htonl() and as Whole have it.
LEMMA WholePart ==
    ASSUME NEW v \in Nat
    PROVE  OnWire(v) = v - (v % Scale)
<1>1. Scale \in Nat \ {0}
  BY MachineAssumption
<1>2. v = Scale * (v \div Scale) + (v % Scale) /\ v \div Scale \in Nat
      /\ v % Scale \in Nat
  BY <1>1
<1>3. Scale * (v \div Scale) \in Nat
  BY <1>1, <1>2
<1> QED BY <1>2, <1>3 DEF OnWire

\* Events that all have a text are read to the last.
LEMMA ReadToEnd ==
    ASSUME NEW evs \in Seq(EventRec),
           \A i \in 1..Len(evs) : evs[i].extra # NoText
    PROVE  \A k \in Readable(evs) : k = Len(evs)
<1> SUFFICES ASSUME NEW k \in 0..Len(evs), k < Len(evs),
                    evs[k + 1].extra = NoText
             PROVE  FALSE
  BY DEF Readable
<1>1. k + 1 \in 1..Len(evs)
  OBVIOUS
<1> QED BY <1>1, Zenon

\* The save that stands is read to its end, if no record of it has an empty
\* second string.
LEMMA ReadsAll ==
    ASSUME DurableInv, durable.stands, AllReadable(durable.snap)
    PROVE  LET d == durable.snap IN
           /\ savefile # NoFile /\ savefile.counters = d.counters
           /\ savefile.rates = d.rates /\ savefile.events = d.events
           /\ savefile.states = [n \in DOMAIN d.states |-> s_write_state(d.states[n])]
           /\ savefile.samples = [n \in DOMAIN d.samples |-> s_write_sample(d.samples[n])]
           /\ Blank(savefile) = {}
           /\ \A k \in Readable(d.events) : k = Len(d.events)
<1> PICK d : d = durable.snap
  BY Zenon
<1>1. /\ IsSnapshot(d) /\ AllReadable(d)
      /\ savefile = SaveFile(d.states, d.counters, d.samples, d.events, d.rates)
  BY Zenon DEF DurableInv
<1>2. /\ savefile.counters = d.counters /\ savefile.tag = "data"
      /\ savefile.rates = d.rates /\ savefile.events = d.events
      /\ savefile.states = [n \in DOMAIN d.states |-> s_write_state(d.states[n])]
      /\ savefile.samples = [n \in DOMAIN d.samples |-> s_write_sample(d.samples[n])]
  BY <1>1, ZenonT(40) DEF SaveFile
<1>3. savefile # NoFile
  BY <1>2 DEF NoFile
<1>4. Blank(savefile) = {}
  <2>1. ASSUME NEW n \in DOMAIN d.states
        PROVE  savefile.states[n].summary # NoText
    <3>1. savefile.states[n] = s_write_state(d.states[n])
      BY <1>2
    <3>2. d.states[n].summary # NoText
      BY <1>1, ZenonT(40) DEF AllReadable
    <3>3. savefile.states[n].summary = d.states[n].summary
      BY <3>1 DEF s_write_state
    <3> QED BY <3>2, <3>3, ZenonT(40)
  <2> QED BY <1>2, <2>1, Zenon DEF Blank
<1>5. \A k \in Readable(d.events) : k = Len(d.events)
  <2>1. /\ d.events \in Seq(EventRec)
        /\ \A i \in 1..Len(d.events) : d.events[i].extra # NoText
    BY <1>1, Zenon DEF AllReadable, IsSnapshot
  <2> QED BY <2>1, ReadToEnd, Zenon
<1> QED BY <1>2, <1>3, <1>4, <1>5, Zenon

\* The datapoints after the restart.
LEMMA BootRestores ==
    ASSUME TypeOK, DurableInv, durable.stands, AllReadable(durable.snap), Boot
    PROVE  LET d == durable.snap IN
           /\ \A n \in Covered(d.states) :
                    n \in DOMAIN states' /\ SameState(d.states[n], states'[n])
           /\ SameMetrics(d.counters, counters')
           /\ SameMetrics([n \in DOMAIN d.samples |-> Whole(d.samples[n])],
                          samples')
           /\ SameMetrics(d.rates, rates')
<1> PICK d : d = durable.snap
  BY ZenonT(40)
<1>1. /\ IsSnapshot(d) /\ savefile # NoFile /\ savefile.counters = d.counters
      /\ savefile.rates = d.rates /\ savefile.events = d.events
      /\ savefile.states = [n \in DOMAIN d.states |-> s_write_state(d.states[n])]
      /\ savefile.samples = [n \in DOMAIN d.samples |-> s_write_sample(d.samples[n])]
      /\ Blank(savefile) = {} /\ \A k \in Readable(d.events) : k = Len(d.events)
  BY ReadsAll DEF DurableInv
<1> DEFINE sts == [n \in DOMAIN savefile.states |->
                        read_state(n, savefile.states[n])]
<1>2. /\ states' = Restored(configure_states, sts)
      /\ counters' = Restored(configure_counters, d.counters)
      /\ samples' = Restored(configure_samples, savefile.samples)
      /\ rates' = Restored(configure_rates, d.rates)
  BY <1>1, Zenon DEF Boot, binf_read, ReadStates
<1>3. ASSUME NEW n \in Covered(d.states)
      PROVE  n \in DOMAIN states' /\ SameState(d.states[n], states'[n])
  <2>1. /\ n \in DOMAIN d.states /\ d.states[n] \in StateRec /\ n \in StateNames
        /\ n \in Configured \cup Matched
    BY <1>1, Zenon DEF Covered, IsSnapshot, IsTable
  <2>2. d.states[n].summary # Cut
    BY <2>1, CutAssumption, ZenonT(40) DEF StateRec, Summary, Cut, NoText
  <2>3. /\ n \in DOMAIN states'
        /\ states'[n] = read_state(n, s_write_state(d.states[n]))
    BY <1>1, <1>2, <2>1, Zenon DEF Restored, configure_states
  <2>4. SameState(d.states[n], read_state(n, s_write_state(d.states[n])))
    BY <2>2, Zenon DEF SameState, read_state, s_write_state
  <2> QED BY <2>3, <2>4, Zenon
<1>4. SameMetrics(d.counters, counters') /\ SameMetrics(d.rates, rates')
  <2>1. DOMAIN d.counters \subseteq CounterNames /\ DOMAIN d.rates \subseteq RateNames
    BY <1>1, Zenon DEF IsSnapshot, IsTable
  <2>2. SameMetrics(d.counters, counters')
    BY <1>2, <2>1, Zenon DEF SameMetrics, Covered, Restored, configure_counters
  <2>3. SameMetrics(d.rates, rates')
    BY <1>2, <2>1, Zenon DEF SameMetrics, Covered, Restored, configure_rates
  <2> QED BY <2>2, <2>3, Zenon
<1>5. SameMetrics([n \in DOMAIN d.samples |-> Whole(d.samples[n])], samples')
  <2>1. ASSUME NEW n \in DOMAIN d.samples
        PROVE  s_write_sample(d.samples[n]) = Whole(d.samples[n])
    <3>1. PICK s \in SampleRec : s = d.samples[n]
      BY <1>1, Zenon DEF IsSnapshot, IsTable
    <3>2. /\ OnWire(s.min) = s.min - (s.min % Scale)
          /\ OnWire(s.max) = s.max - (s.max % Scale)
          /\ OnWire(s.sum) = s.sum - (s.sum % Scale)
      BY WholePart DEF SampleRec
    <3> QED BY <3>1, <3>2 DEF s_write_sample, Whole
  <2>2. savefile.samples = [n \in DOMAIN d.samples |-> Whole(d.samples[n])]
    BY <1>1, <2>1, Zenon
  <2>3. DOMAIN savefile.samples \subseteq SampleNames
    BY <1>1, Zenon DEF IsSnapshot, IsTable
  <2>4. SameMetrics(savefile.samples, samples')
    BY <1>2, <2>3, Zenon DEF SameMetrics, Covered, Restored, configure_samples
  <2> QED BY <2>2, <2>4, ZenonT(40)
<1> QED BY <1>3, <1>4, <1>5, Zenon

\* The events of a file as a function of their numbers.
LEMMA SeqIsFunction ==
    ASSUME NEW S, NEW q \in Seq(S)
    PROVE  q \in [1..Len(q) -> S]
OBVIOUS

\* The events and the keys after the restart.
LEMMA BootRestoresRest ==
    ASSUME TypeOK, DurableInv, durable.stands, AllReadable(durable.snap), Boot
    PROVE  LET d == durable.snap IN
           /\ events' = d.events
           /\ \A k \in PlainKeys :
                IF k \in DOMAIN d.keys /\ d.keys[k] # NULL
                THEN k \in DOMAIN keys' /\ keys'[k] = Trimmed[d.keys[k]]
                ELSE k \notin DOMAIN keys'
<1> PICK d : d = durable.snap
  OBVIOUS
<1>1. /\ d.events \in Seq(EventRec)
      /\ keysfile = [k \in LiveKeys(d.keys) |-> d.keys[k]]
  BY Zenon DEF DurableInv, IsSnapshot
<1>2. events' = d.events
  <2>1. events' = [i \in 1..Len(d.events) |-> read_event(d.events[i])]
    BY ReadsAll, Zenon DEF Boot, binf_read
  <2>2. d.events \in [1..Len(d.events) -> EventRec]
    BY <1>1, SeqIsFunction, Zenon
  <2>3. ASSUME NEW i \in 1..Len(d.events) PROVE read_event(d.events[i]) = d.events[i]
    <3>1. PICK e : e \in EventRec /\ e = d.events[i]
      BY <2>2, Zenon
    <3>2. e.extra # Cut /\ e = [ts |-> e.ts, extra |-> e.extra]
      BY <3>1, CutAssumption, Zenon DEF EventRec, Cut, NoText
    <3> QED BY <3>1, <3>2, Zenon DEF read_event
  <2> QED BY <2>1, <2>2, <2>3, Zenon
<1>3. keys' = [k \in LiveKeys(d.keys) \cap PlainKeys |-> Trimmed[d.keys[k]]]
  BY <1>1, ZenonT(40) DEF Boot, read_keys
<1> QED BY <1>2, <1>3, Zenon DEF LiveKeys

\* After any number of restarts, crashes inside saves and disk faults: what
\* the last complete save saved is what a restart brings back.
THEOREM SavedAlwaysSurvives == HSpec => SavedSurvives
<1>1. TypeOK /\ DurableInv /\ [HNext]_hvars =>
        [Restart /\ durable.stands /\ AllReadable(durable.snap) =>
            LET d == durable.snap IN
            /\ \A n \in Covered(d.states) :
                    n \in DOMAIN states' /\ SameState(d.states[n], states'[n])
            /\ SameMetrics(d.counters, counters')
            /\ SameMetrics([n \in DOMAIN d.samples |-> Whole(d.samples[n])],
                           samples')
            /\ SameMetrics(d.rates, rates')
            /\ events' = d.events
            /\ \A k \in PlainKeys :
                    IF k \in DOMAIN d.keys /\ d.keys[k] # NULL
                    THEN k \in DOMAIN keys' /\ keys'[k] = Trimmed[d.keys[k]]
                    ELSE k \notin DOMAIN keys']_hvars
  <2> SUFFICES ASSUME TypeOK, DurableInv, [HNext]_hvars, Restart,
                      durable.stands, AllReadable(durable.snap)
               PROVE  Boot
    BY BootRestores, BootRestoresRest, Zenon
  <2>1. [Next]_vars
    BY HStep
  <2> QED BY <2>1, ZenonT(40) DEF Restart, Next, Listener, Management,
                                  Process, vars, db,
        SubmitState, SubmitCounter, SubmitSample, SubmitRate, SubmitEvent,
        SetKeys, Dropped, SaveState, Forget, DelKeys, Tock, Stop, TockDies,
        SaveStateDies, Dead, BootDies, Advance
<1> QED BY <1>1, DurableInvariant, ObservedTypes, PTL DEF HSpec, SavedSurvives
=============================================================================
