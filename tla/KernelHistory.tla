--------------------------- MODULE KernelHistory ---------------------------
(***************************************************************************)
(* The kernel with history variables: what clients have submitted and what *)
(* subscribers have been sent since the process was last started, and what *)
(* the last complete save contained.  They only observe the kernel: every  *)
(* step is a step of module Kernel, and nothing there reads them.  The     *)
(* correctness properties of the kernel are stated here.                   *)
(***************************************************************************)
EXTENDS Kernel

CONSTANT MaxLog          \* bound: the number of events submitted

ASSUME LogAssumption == MaxLog \in Nat

\* The names of the four kinds stand for entries of four hashes.
ASSUME KindsAssumption ==
    /\ StateNames \cap Metrics = {} /\ CounterNames \cap SampleNames = {}
    /\ (CounterNames \cup SampleNames) \cap RateNames = {}

Ledgered == CounterNames \cup SampleNames
Starts   == {winstart(n, ts) : n \in Metrics, ts \in Stamps}

VARIABLES
    owed,        \* owed[n][w]: the sum of what was submitted for window w, less
                 \* what was broadcast for it, less what a FORGET dropped of it;
                 \* no books are kept for n any more once it is in zeroed
    done,        \* the windows of n broadcast so far, as long as n is orderly
    repeated,    \* metrics with a window broadcast twice, though orderly
    latest,      \* the last window of n that a submission fell into
    orderly,     \* no submission for n was late or went back to an old window
    zeroed,      \* the metrics that got a submission stamped 0
    ends,        \* the first and the last report of a rate's open window
    view,        \* the last STATE broadcast for each state
    log,         \* every event submitted, and first those restored
    durable      \* what the last complete save saved, and whether it stands

hist  == <<owed, done, repeated, latest, orderly, zeroed, ends,
           view, log, durable>>
hvars == <<vars, hist>>

----------------------------------------------------------------------------
(* What the kernel holds back of window w of a counter or sample.          *)

Dp(n) == IF n \in CounterNames THEN counters ELSE samples

Amount(n, dp) == IF n \in CounterNames THEN dp.value ELSE dp.sum

Pending(n, w) ==
    IF n \in DOMAIN Dp(n) /\ Dp(n)[n].last_seen # 0
       /\ winstart(n, Dp(n)[n].last_seen) = w
    THEN Amount(n, Dp(n)[n]) ELSE 0

\* The window that is open for metric n.
Opened(n) == IF n \in Ledgered /\ n \in DOMAIN Dp(n)
             THEN winstart(n, Dp(n)[n].last_seen) ELSE 0

\* n holds values, all of them stamped 0.
Unstamped(n) == /\ n \in DOMAIN Dp(n) /\ Dp(n)[n].last_seen = 0
                /\ Amount(n, Dp(n)[n]) # 0

NoAmounts == [n \in Ledgered |-> [w \in Starts |-> 0]]

Carries(p, n, w) ==
    p.type \in {"COUNTER", "SAMPLE"} /\ p.name = n /\ p.ts = w

Carried(p) == IF p.type = "COUNTER" THEN p.value ELSE p.sum

\* What the PDUs of this step carry for window w of n, and which windows of
\* n they are for.
Sent(n, w) == IF \E p \in out' : Carries(p, n, w)
              THEN Carried(CHOOSE p \in out' : Carries(p, n, w)) ELSE 0

SentFor(n) == {w \in Starts : \E p \in out' : Carries(p, n, w)}

\* A step that owes `due[n][w]' more than before and sends what is in out'.
Book(due) ==
    /\ owed' = [n \in Ledgered |-> [w \in Starts |->
                    IF n \in zeroed' THEN 0
                    ELSE (owed[n][w] + due[n][w] - Sent(n, w)) % U64]]
    /\ done' = [n \in Ledgered |-> IF orderly'[n] THEN done[n] \cup SentFor(n)
                                                  ELSE {}]
    /\ repeated' = repeated \cup {n \in Ledgered : /\ orderly'[n]
                                                   /\ done[n] \cap SentFor(n) # {}}

ShownAs(s) == [ts |-> s.last_seen, stale |-> s.stale,
               code |-> statstr(s.status), summary |-> s.summary]

StatesIn(pdus) == {p \in pdus : p.type = "STATE"}

View ==
    view' = [n \in DOMAIN view \cup {p.name : p \in StatesIn(out')} |->
        IF \E p \in StatesIn(out') : p.name = n
        THEN LET p == CHOOSE p \in StatesIn(out') : p.name = n
             IN  [ts |-> p.ts, stale |-> p.stale, code |-> p.code,
                  summary |-> p.summary]
        ELSE view[n]]

\* A submission for metric n, stamped ts: its place in the order of windows.
Arrive(n, ts) ==
    LET w == winstart(n, ts) IN
    /\ latest'  = [latest EXCEPT ![n] = w]
    /\ orderly' = [orderly EXCEPT
                      ![n] = @ /\ w >= latest[n] /\ ts >= now - Grace]
    /\ zeroed'  = IF ts = 0 THEN zeroed \cup {n} ELSE zeroed

\* The submission's amount is due for its window, and nothing else is.
Due(n, ts, amount) ==
    [NoAmounts EXCEPT ![n][winstart(n, ts)] = amount]

NoMetric == UNCHANGED <<owed, done, repeated, latest, orderly, zeroed>>

----------------------------------------------------------------------------

Snapshot(sts, cts, sms, rts) ==
    [states |-> sts, counters |-> cts, samples |-> sms, rates |-> rts,
     events |-> events, keys |-> keys]

\* A save has ended: it is the durable one if the files say so.
Saved(snap) ==
    durable' = IF /\ savefile' = SaveFile(snap.states, snap.counters,
                                    snap.samples, snap.events, snap.rates)
                  /\ keysfile' = [k \in LiveKeys(keys) |-> keys[k]]
               THEN [stands |-> TRUE, snap |-> snap]
               ELSE [durable EXCEPT !.stands = FALSE]

\* A save was interrupted: the last complete one is what ought to survive.
Interrupted == durable' = [durable EXCEPT !.stands = FALSE]

\* A start: the books are opened with what was restored.  (A rate that got a
\* submission stamped 0 may have been saved with the ends that this left.)
Reopen ==
    /\ owed' = [n \in Ledgered |-> [w \in Starts |-> Pending(n, w)' % U64]]
    /\ done' = [n \in Ledgered |-> {}] /\ repeated' = {}
    /\ latest' = [n \in Metrics |-> Opened(n)']
    /\ orderly' = [n \in Metrics |-> TRUE]
    /\ zeroed' = {n \in Ledgered : Unstamped(n)'} \cup (zeroed \cap RateNames)
    /\ ends' = [n \in {n \in DOMAIN rates' : rates'[n].last_seen # 0} |->
                    [first |-> <<rates'[n].first_seen, rates'[n].first>>,
                     last  |-> <<rates'[n].last_seen, rates'[n].last>>]]
    /\ view' = NoRecords
    /\ log' = events'

----------------------------------------------------------------------------
(* The steps of the kernel, observed.                                      *)

HSubmitState ==
    /\ \E ts \in Stamps, n \in StateNames, code \in Codes, m \in Messages :
            SubmitState(ts, n, code, m)
    /\ View
    /\ NoMetric /\ UNCHANGED <<ends, log, durable>>

HSubmitCounter ==
    /\ \E ts \in Stamps, n \in CounterNames, i \in Increments :
            /\ SubmitCounter(ts, n, i)
            /\ Arrive(n, ts) /\ Book(Due(n, ts, int32(i)))
    /\ UNCHANGED <<ends, view, log, durable>>

HSubmitSample ==
    /\ \E ts \in Stamps, n \in SampleNames, b \in SampleBatches :
            /\ SubmitSample(ts, n, b)
            /\ Arrive(n, ts) /\ Book(Due(n, ts, b.sum))
    /\ UNCHANGED <<ends, view, log, durable>>

RatesIn(pdus) == {p.name : p \in {q \in pdus : q.type = "RATE"}}

HSubmitRate ==
    /\ \E ts \in Stamps, n \in RateNames, v \in RateValues :
            /\ SubmitRate(ts, n, v)
            /\ Arrive(n, ts)
            /\ ends' = Put(ends, n,
                    [first |-> IF n \in DOMAIN ends \ RatesIn(out')
                               THEN ends[n].first ELSE <<ts, v>>,
                     last  |-> <<ts, v>>])
    /\ UNCHANGED <<owed, done, repeated, view, log, durable>>

HSubmitEvent ==
    /\ Len(log) < MaxLog
    /\ \E ts \in Stamps, x \in Extras :
            /\ SubmitEvent(ts, x)
            /\ log' = Append(log, [ts |-> ts, extra |-> x])
    /\ NoMetric /\ UNCHANGED <<ends, view, durable>>

HSetKeys == /\ \E ks \in SUBSET Keys \ {{}} :
                    \E kv \in [ks -> KeyValues] : SetKeys(kv)
            /\ UNCHANGED hist

HDropped == Dropped /\ UNCHANGED hist

HTock ==
    /\ Tock /\ UNCHANGED <<latest, orderly, zeroed, log>>
    /\ Book(NoAmounts) /\ View
    /\ ends' = Drop(ends, RatesIn(out'))
    /\ IF SaveDue
       THEN Saved(Snapshot(states', counters', samples', rates'))
       ELSE UNCHANGED durable

HTockDies ==
    /\ TockDies /\ UNCHANGED <<latest, orderly, zeroed, ends, log>>
    /\ Book(NoAmounts) /\ View /\ Interrupted

HSaveState ==
    /\ SaveState /\ Saved(Snapshot(states, counters, samples, rates))
    /\ NoMetric /\ UNCHANGED <<ends, view, log>>

HSaveStateDies ==
    /\ SaveStateDies /\ Interrupted
    /\ NoMetric /\ UNCHANGED <<ends, view, log>>

HForget ==
    /\ \E p \in Patterns, ig \in BOOLEAN :
            /\ Forget(p, ig)
            /\ owed' = [n \in Ledgered |-> [w \in Starts |->
                    IF n \in p \ zeroed /\ ~ig
                    THEN (owed[n][w] - Pending(n, w)) % U64 ELSE owed[n][w]]]
            /\ ends' = IF ig THEN ends ELSE Drop(ends, p)
    /\ UNCHANGED <<done, repeated, latest, orderly, zeroed, view, log,
                   durable>>

HDelKeys == (\E ks \in SUBSET Keys \ {{}} : DelKeys(ks)) /\ UNCHANGED hist

HStop == Stop /\ UNCHANGED hist

HBoot == Boot /\ Reopen /\ UNCHANGED durable

HBootDies == BootDies /\ UNCHANGED hist

HAdvance == Advance /\ UNCHANGED hist

HInit ==
    /\ Init
    /\ owed = NoAmounts /\ done = [n \in Ledgered |-> {}] /\ repeated = {}
    /\ latest = [n \in Metrics |-> 0]
    /\ orderly = [n \in Metrics |-> TRUE] /\ zeroed = {}
    /\ ends = NoRecords /\ view = NoRecords /\ log = <<>>
    /\ durable = [stands |-> FALSE, snap |-> NoFile]

HListener ==
    /\ now <= SubmitUntil
    /\ \/ HSubmitState \/ HSubmitCounter \/ HSubmitSample \/ HSubmitRate
       \/ HSubmitEvent \/ HSetKeys \/ HDropped

HNext == \/ HListener
         \/ HTock \/ HTockDies
         \/ HSaveState \/ HSaveStateDies \/ HForget \/ HDelKeys
         \/ HStop \/ HBoot \/ HBootDies \/ HAdvance

HSpec == HInit /\ [][HNext]_hvars

----------------------------------------------------------------------------
(* Metrics.                                                                *)

\* Nothing a client submitted for a window of a counter or sample is lost,
\* counted twice or booked to another window: what was submitted for it and
\* has not been broadcast for it, or dropped by a FORGET, is what the
\* datapoint holds.  The rollover of the submission handlers and the flush
\* of the TOCK handler have to agree for this.  (Submissions stamped 0 are
\* the exception: last_seen = 0 also means that the window is empty.)
WindowLedger ==
    up => \A n \in Ledgered \ zeroed, w \in Starts :
            owed[n][w] = Pending(n, w) % U64

\* The grace period does what bolo.conf(5) has it for: as long as the
\* submissions for a metric are at most that late, and do not go back to an
\* earlier window, every window is broadcast at most once, so subscribers
\* can store the value under its timestamp.
OncePerWindow == repeated = {}

\* The rate that will be broadcast is the one between the first and the last
\* report of the open window: the value and the time of each end of it come
\* from the same submission, although SubmitRate sets them at different
\* places under different conditions.
RateEndpoints ==
    \A n \in DOMAIN rates \ zeroed :
        rates[n].last_seen # 0 =>
            /\ ends[n] = [first |-> <<rates[n].first_seen, rates[n].first>>,
                          last  |-> <<rates[n].last_seen, rates[n].last>>]
            /\ winstart(n, rates[n].first_seen) =
               winstart(n, rates[n].last_seen)

----------------------------------------------------------------------------
(* States.                                                                 *)

\* A subscriber knows what the kernel knows: the last STATE broadcast for a
\* state since the start shows its record, whichever handler changed it.
ViewMatches ==
    \A n \in DOMAIN view \cap DOMAIN states : view[n] = ShownAs(states[n])

\* A change of status or freshness that subscribers can see in the STATE
\* PDUs is announced by a TRANSITION, also when the state was forgotten and
\* is created again.  (A submission with the code of PENDING is left out.)
TransitionAnnounced ==
    [][\A n \in DOMAIN view \cap DOMAIN view' :
            /\ <<view[n].code, view[n].stale>> # <<view'[n].code, view'[n].stale>>
            /\ states'[n].status # PENDING
            => \E p \in out' : p.type = "TRANSITION" /\ p.name = n]_hvars

----------------------------------------------------------------------------
(* Events.                                                                 *)

Last(s, k) == SubSeq(s, Len(s) - k + 1, Len(s))

\* The buffer holds the newest arrivals, in order and without gaps, and with
\* max.events a number it holds that many of them (or all there were).
EventsAreNewest ==
    up => /\ Len(events) <= Len(log)
          /\ events = Last(log, Len(events))
          /\ KeepNumber => \/ Len(events) = MaxEvents
                           \/ Len(events) = Len(log) /\ Len(log) <= MaxEvents

\* With max.events a span of time, an event that happened within that span
\* of the latest one is never dropped, whatever the order of arrival.  (The
\* buffer is the end of the log.)
RecentEventsKept ==
    up /\ ~KeepNumber =>
        /\ Len(events) <= Len(log) /\ events = Last(log, Len(events))
        /\ \A i \in 1..Len(log) :
            (\A j \in 1..Len(log) : log[j].ts - MaxEvents < log[i].ts)
                => i > Len(log) - Len(events)

----------------------------------------------------------------------------
(* Restarts.                                                               *)

Restart == ~up /\ up'

Covered(tbl) == DOMAIN tbl \cap (Configured \cup Matched)

SameMetrics(old, new) ==
    \A n \in Covered(old) : n \in DOMAIN new /\ new[n] = old[n]

SameState(old, new) ==
    /\ new.status = old.status /\ new.summary = old.summary
    /\ new.last_seen = old.last_seen /\ new.stale = old.stale
    /\ new.ignore = old.ignore

Whole(s) == [s EXCEPT !.min = @ - (@ % Scale), !.max = @ - (@ % Scale),
                      !.sum = @ - (@ % Scale)]

\* No record of the snapshot has an empty second string.
AllReadable(d) == /\ \A i \in 1..Len(d.events) : d.events[i].extra # NoText
                  /\ \A n \in DOMAIN d.states : d.states[n].summary # NoText

\* A restart brings back what the last save saved, if nothing went wrong with
\* that save: every datapoint that bolo.conf still covers, with the FORGET
\* mark, all the events in their order, and just those keys that had a value
\* (if the line format can represent them).  Of a sample's quantities the
\* whole part is meant.
SavedSurvives ==
    [][Restart /\ durable.stands /\ AllReadable(durable.snap) =>
        LET d == durable.snap IN
        /\ \A n \in Covered(d.states) :
                n \in DOMAIN states' /\ SameState(d.states[n], states'[n])
        /\ SameMetrics(d.counters, counters')
        /\ SameMetrics([n \in DOMAIN d.samples |-> Whole(d.samples[n])],
                       samples')
        /\ SameMetrics(d.rates, rates')
        /\ events' = d.events
        /\ \A k \in PlainKeys :
                IF k \in DOMAIN d.keys /\ d.keys[k] # NULL
                THEN k \in DOMAIN keys' /\ keys'[k] = Trimmed[d.keys[k]]
                ELSE k \notin DOMAIN keys']_hvars

=============================================================================
