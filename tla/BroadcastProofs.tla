-------------------------- MODULE BroadcastProofs ---------------------------
(***************************************************************************)
(* What the kernel broadcasts is what it was told, for every configuration,*)
(* every set of clients and any number of restarts: the properties of      *)
(* module KernelHistory about states and rates.                            *)
(*                                                                         *)
(* And it marks states stale in time: the freshness check is exact until   *)
(* the first restart.  StaleIsLate and CheckedFresh do not mention         *)
(* `expiry', the one field that check_freshness() looks at: the invariant  *)
(* FreshInv ties it to the last report.                                    *)
(***************************************************************************)
EXTENDS KernelHistory, KernelProofs

----------------------------------------------------------------------------
(* The history variables only observe.                                     *)

\* A step with its observation is a step of the kernel.
LEMMA HStep ==
    ASSUME [HNext]_hvars
    PROVE  [Next]_vars
<1>1. CASE HListener
  BY <1>1, Zenon DEF HListener, HSubmitState, HSubmitCounter, HSubmitSample,
     HSubmitRate, HSubmitEvent, HSetKeys, HDropped, Next, Listener
<1>2. CASE HTock \/ HTockDies \/ HSaveStateDies \/ HStop \/ HBoot
           \/ HBootDies \/ HAdvance
  BY <1>2 DEF HTock, HTockDies, HSaveStateDies, HStop, HBoot, HBootDies,
     HAdvance, Next, Process
<1>3. CASE HSaveState \/ HForget \/ HDelKeys
  BY <1>3, Zenon DEF HSaveState, HForget, HDelKeys, Next, Management
<1>4. CASE UNCHANGED hvars
  BY <1>4 DEF hvars
<1> QED BY <1>1, <1>2, <1>3, <1>4 DEF HNext

\* So what is proved of the kernel holds of the kernel that is observed: the
\* types, for instance.
THEOREM ObservedTypes == HSpec => []TypeOK
<1>1. HInit => TypeOK
  BY InitType DEF HInit
<1>2. TypeOK /\ [HNext]_hvars => TypeOK'
  BY HStep, NextType
<1> QED BY <1>1, <1>2, PTL DEF HSpec

----------------------------------------------------------------------------
(* States.                                                                 *)

\* The other PDUs are no STATEs.
LEMMA NoStates ==
    /\ \A n, c : broadcast_counter(n, c).type # "STATE"
    /\ \A n, s : broadcast_sample(n, s).type # "STATE"
    /\ \A n, r : broadcast_rate(n, r).type # "STATE"
    /\ \A ks : \A p \in broadcast_setkeys(ks) : p.type # "STATE"
    /\ beacon_sweep.type # "STATE"
BY DEF broadcast_counter, broadcast_sample, broadcast_rate,
       broadcast_setkeys, beacon_sweep

\* What a PDU shows is what the subscribers' view has of it.
LEMMA PDUShows ==
    ASSUME NEW n, NEW s
    PROVE  LET p == StatePDU("STATE", n, s)
           IN  /\ p.type = "STATE" /\ p.name = n
               /\ [ts |-> p.ts, stale |-> p.stale, code |-> p.code,
                   summary |-> p.summary] = ShownAs(s)
BY DEF StatePDU, ShownAs

\* A handler broadcasts the records recs of the states S, once each.
Shows(S, recs) ==
    /\ \A n \in S : StatePDU("STATE", n, recs[n]) \in StatesIn(out')
    /\ \A p \in StatesIn(out') : \E n \in S : p = StatePDU("STATE", n, recs[n])

\* It leaves the view with these.
LEMMA ViewSteps ==
    ASSUME NEW S, NEW recs, View, Shows(S, recs)
    PROVE  /\ DOMAIN view' = DOMAIN view \cup S
           /\ \A n \in S : view'[n] = ShownAs(recs[n])
           /\ \A n \in DOMAIN view \ S : view'[n] = view[n]
<1>1. {p.name : p \in StatesIn(out')} = S
  BY PDUShows DEF Shows
<1>2. ASSUME NEW n \in S
      PROVE  LET p == CHOOSE p \in StatesIn(out') : p.name = n
             IN  /\ \E q \in StatesIn(out') : q.name = n
                 /\ p = StatePDU("STATE", n, recs[n])
  <2>1. StatePDU("STATE", n, recs[n]) \in StatesIn(out')
    BY DEF Shows
  <2>2. \A q \in StatesIn(out') : q.name = n => q = StatePDU("STATE", n, recs[n])
    BY PDUShows DEF Shows
  <2> QED BY <2>1, <2>2, PDUShows
<1>3. ASSUME NEW n, n \notin S
      PROVE  ~ \E q \in StatesIn(out') : q.name = n
  BY <1>3, PDUShows DEF Shows
<1>4. DOMAIN view' = DOMAIN view \cup S
  BY <1>1 DEF View
<1>5. ASSUME NEW n \in S PROVE view'[n] = ShownAs(recs[n])
  <2>1. PICK p : p = CHOOSE q \in StatesIn(out') : q.name = n
    OBVIOUS
  <2>2. view'[n] = [ts |-> p.ts, stale |-> p.stale, code |-> p.code,
                    summary |-> p.summary]
    BY <1>2, <1>4, <2>1 DEF View
  <2>3. p = StatePDU("STATE", n, recs[n])
    BY <1>2, <2>1
  <2> QED BY <2>2, <2>3, PDUShows
<1>6. ASSUME NEW n \in DOMAIN view \ S PROVE view'[n] = view[n]
  BY <1>3, <1>4 DEF View
<1> QED BY <1>4, <1>5, <1>6

\* The STATEs of a submission: the one of its state.
LEMMA SubmitShows ==
    ASSUME NEW ts \in Stamps, NEW n \in StateNames, NEW code \in Codes,
           NEW m \in Messages, SubmitState(ts, n, code, m)
    PROVE  /\ n \in DOMAIN states'
           /\ Shows({n}, states')
           /\ \A x \in DOMAIN states' \ {n} :
                    x \in DOMAIN states /\ states'[x] = states[x]
<1> DEFINE new == [status |-> code, summary |-> m, last_seen |-> ts,
                   expiry |-> ts + Freshness[n], stale |-> FALSE,
                   ignore |-> FALSE]
           old == Find(states, n, NewState(Freshness[n], now))
<1>1. /\ states' = Put(states, n, new)
      /\ out' = broadcast_state(n, new, Transition(old, code))
  BY DEF SubmitState
<1> HIDE DEF new, old
<1>2. states'[n] = new /\ n \in DOMAIN states'
  BY <1>1, Zenon DEF Put
<1>3. StatesIn(out') = {StatePDU("STATE", n, new)}
  BY <1>1 DEF broadcast_state, StatePDU, StatesIn
<1> QED BY <1>1, <1>2, <1>3, Zenon DEF Put, Shows

\* The STATEs of a TOCK: those of the states it finds expired.
LEMMA TockShows ==
    ASSUME out' = tock_out
    PROVE  Shows(Expired, tock_states)
<1>1. ASSUME NEW n \in Expired
      PROVE  /\ tock_states[n] = MarkStale(n)
             /\ StatePDU("STATE", n, MarkStale(n)) \in StatesIn(out')
  <2>1. n \in DOMAIN states
    BY DEF Expired
  <2>2. StatePDU("STATE", n, MarkStale(n)) \in
            broadcast_state(n, MarkStale(n),
                ~states[n].stale \/ states[n].status # StaleStatus[n])
    BY DEF broadcast_state
  <2>3. StatePDU("STATE", n, MarkStale(n)) \in out'
    BY <2>2 DEF tock_out
  <2> QED BY <2>1, <2>3 DEF tock_states, StatesIn, StatePDU
<1>2. ASSUME NEW p \in StatesIn(out')
      PROVE  \E n \in Expired : p = StatePDU("STATE", n, MarkStale(n))
  <2>1. p \in tock_out /\ p.type = "STATE"
    BY DEF StatesIn
  <2>2. PICK n \in Expired :
            p \in broadcast_state(n, MarkStale(n),
                    ~states[n].stale \/ states[n].status # StaleStatus[n])
    BY <2>1, NoStates, Zenon DEF tock_out
  <2> QED BY <2>1, <2>2 DEF broadcast_state, StatePDU
<1> QED BY <1>1, <1>2 DEF Shows

\* The view after a submission, and after a TOCK.
LEMMA SubmitView ==
    ASSUME NEW ts \in Stamps, NEW n \in StateNames, NEW code \in Codes,
           NEW m \in Messages, SubmitState(ts, n, code, m), View
    PROVE  /\ DOMAIN view' = DOMAIN view \cup {n}
           /\ view'[n] = ShownAs(states'[n])
           /\ view'[n].code = statstr(code) /\ view'[n].stale = FALSE
           /\ states'[n].status = code
           /\ \A x \in DOMAIN view \ {n} : view'[x] = view[x]
<1>1. Shows({n}, states')
  BY SubmitShows, Zenon
<1>2. /\ DOMAIN view' = DOMAIN view \cup {n}
      /\ view'[n] = ShownAs(states'[n])
      /\ \A x \in DOMAIN view \ {n} : view'[x] = view[x]
  BY <1>1, ViewSteps, ZenonT(40)
<1>3. states'[n].status = code /\ states'[n].stale = FALSE
  BY DEF SubmitState, Put
<1> QED BY <1>2, <1>3 DEF ShownAs

\* And what a TOCK broadcast: the states that are found expired.
LEMMA TockView ==
    ASSUME TypeOK, out' = tock_out, View
    PROVE  /\ DOMAIN view' = DOMAIN view \cup Expired
           /\ \A n \in Expired :
                    /\ view'[n] = ShownAs(tock_states[n])
                    /\ view'[n].code = statstr(StaleStatus[n])
                    /\ view'[n].stale = TRUE
           /\ \A n \in DOMAIN view \ Expired : view'[n] = view[n]
<1>1. /\ DOMAIN view' = DOMAIN view \cup Expired
      /\ \A n \in Expired : view'[n] = ShownAs(tock_states[n])
      /\ \A n \in DOMAIN view \ Expired : view'[n] = view[n]
  BY TockShows, ViewSteps, Zenon
<1>2. ASSUME NEW n \in Expired
      PROVE  tock_states[n].status = StaleStatus[n] /\ tock_states[n].stale = TRUE
  <2>1. n \in DOMAIN states /\ states[n] \in StateRec
    BY DEF Expired, TypeOK, IsTable
  <2> QED BY <2>1, Zenon DEF tock_states, MarkStale, StateRec
<1>3. ASSUME NEW n \in Expired
      PROVE  view'[n].code = statstr(StaleStatus[n]) /\ view'[n].stale = TRUE
  <2>1. view'[n] = ShownAs(tock_states[n])
    BY <1>1
  <2>2. PICK s : s = tock_states[n]
    OBVIOUS
  <2>3. s.status = StaleStatus[n] /\ s.stale = TRUE /\ view'[n] = ShownAs(s)
    BY <1>2, <2>1, <2>2, Zenon
  <2> QED BY <2>3 DEF ShownAs
<1> QED BY <1>1, <1>3, Zenon

\* The steps that change the states or show them, with what they do to both.
LEMMA StateSteps ==
    ASSUME [HNext]_hvars
    PROVE  \/ \E ts \in Stamps, n \in StateNames, code \in Codes, m \in Messages :
                    SubmitState(ts, n, code, m) /\ View
           \/ Tock /\ View
           \/ TockDies /\ View
           \/ (\E p \in Patterns, ig \in BOOLEAN : Forget(p, ig)) /\ view' = view
           \/ Dead /\ view' = view
           \/ Boot /\ view' = NoRecords
           \/ UNCHANGED <<states, view>>
<1>1. CASE HListener
  BY <1>1, Zenon DEF HListener, HSubmitState, HSubmitCounter, HSubmitSample,
     HSubmitRate, HSubmitEvent, HSetKeys, HDropped, hist, db,
     SubmitCounter, SubmitSample, SubmitRate, SubmitEvent, SetKeys, Dropped
<1>2. CASE HTock \/ HTockDies \/ HSaveStateDies \/ HStop \/ HBoot
           \/ HBootDies \/ HAdvance
  BY <1>2, Zenon DEF HTock, HTockDies, HSaveStateDies, HStop, HBoot, HBootDies,
     HAdvance, hist, SaveStateDies, Stop, BootDies, Advance, Reopen, vars, db
<1>3. CASE HSaveState \/ HForget \/ HDelKeys
  BY <1>3, Zenon DEF HSaveState, HForget, HDelKeys, hist, SaveState, DelKeys, db
<1>4. CASE UNCHANGED hvars
  BY <1>4, Zenon DEF hvars, vars, db, hist
<1> QED BY <1>1, <1>2, <1>3, <1>4, Zenon DEF HNext

\* Subscribers are never left with an outdated picture of a state: after any
\* steps of all the handlers, across restarts, the last STATE broadcast for
\* it shows what the record holds.
THEOREM ViewAlwaysMatches == HSpec => []ViewMatches
<1>1. HInit => ViewMatches
  BY DEF HInit, ViewMatches, NoRecords
<1>2. TypeOK /\ ViewMatches /\ [HNext]_hvars => ViewMatches'
  <2> SUFFICES ASSUME TypeOK, ViewMatches, [HNext]_hvars PROVE ViewMatches'
    BY Zenon
  <2>1. ASSUME NEW ts \in Stamps, NEW n \in StateNames, NEW code \in Codes,
               NEW m \in Messages, SubmitState(ts, n, code, m), View
        PROVE  ViewMatches'
    <3>1. /\ DOMAIN view' = DOMAIN view \cup {n}
          /\ view'[n] = ShownAs(states'[n])
          /\ \A x \in DOMAIN view \ {n} : view'[x] = view[x]
      BY <2>1, SubmitView, Zenon
    <3> QED BY <2>1, <3>1, SubmitShows, Zenon DEF ViewMatches
  <2>2. CASE Tock /\ View
    <3>1. /\ DOMAIN view' = DOMAIN view \cup Expired
          /\ \A n \in Expired : view'[n] = ShownAs(tock_states[n])
          /\ \A n \in DOMAIN view \ Expired : view'[n] = view[n]
      BY <2>2, TockView, Zenon DEF Tock
    <3>2. states' = tock_states
      BY <2>2 DEF Tock
    <3> QED BY <3>1, <3>2 DEF ViewMatches, tock_states
  <2>3. CASE (TockDies /\ View) \/ Dead
    BY <2>3 DEF TockDies, Dead, NoRecords, ViewMatches
  <2>4. ASSUME NEW p, NEW ig \in BOOLEAN, Forget(p, ig), view' = view
        PROVE  ViewMatches'
    <3> SUFFICES ASSUME NEW n \in DOMAIN view \cap DOMAIN states'
                 PROVE  view[n] = ShownAs(states'[n])
      BY <2>4 DEF ViewMatches
    <3>1. /\ n \in DOMAIN states
          /\ states'[n] \in {states[n], [states[n] EXCEPT !.ignore = TRUE]}
      BY <2>4 DEF Forget, Forgotten, Drop
    <3>2. states[n] \in StateRec
      BY <3>1, ZenonT(40) DEF TypeOK, IsTable
    <3>3. ShownAs([states[n] EXCEPT !.ignore = TRUE]) = ShownAs(states[n])
      BY <3>2 DEF StateRec, ShownAs
    <3> QED BY <3>1, <3>3, Zenon DEF ViewMatches
  <2>5. CASE view' = NoRecords
    BY <2>5 DEF ViewMatches, NoRecords
  <2>6. CASE UNCHANGED <<states, view>>
    BY <2>6, ZenonT(40) DEF ViewMatches
  <2> QED BY <2>1, <2>2, <2>3, <2>4, <2>5, <2>6, StateSteps, Zenon
<1> QED BY <1>1, <1>2, ObservedTypes, PTL DEF HSpec

\* What subscribers see change of a state is a reason for the STATE handler
\* to announce a transition, if the state was known before.
LEMMA SubmitAnnounces ==
    ASSUME TypeOK, ViewMatches,
           NEW ts \in Stamps, NEW n \in StateNames, NEW code \in Codes,
           NEW m \in Messages, SubmitState(ts, n, code, m), n \in DOMAIN view,
           <<view[n].code, view[n].stale>> # <<statstr(code), FALSE>>,
           code # PENDING
    PROVE  \E p \in out' : p.type = "TRANSITION" /\ p.name = n
<1> DEFINE old == Find(states, n, NewState(Freshness[n], now))
           new == [status |-> code, summary |-> m, last_seen |-> ts,
                   expiry |-> ts + Freshness[n], stale |-> FALSE,
                   ignore |-> FALSE]
<1>1. Transition(old, code)
  <2>1. CASE n \in DOMAIN states
    <3>1. /\ view[n].code = statstr(states[n].status)
          /\ view[n].stale = states[n].stale
      BY <2>1 DEF ViewMatches, ShownAs
    <3>2. states[n].stale \in BOOLEAN
      BY <2>1, Zenon DEF TypeOK, IsTable, StateRec
    <3>3. states[n].stale \/ states[n].status # code
      BY <3>1, <3>2, Zenon
    <3> QED BY <2>1, <3>3, ZenonT(40) DEF Transition, Find
  <2>2. CASE n \notin DOMAIN states
    BY <2>2 DEF Transition, Find, NewState
  <2> QED BY <2>1, <2>2, Zenon
<1>2. out' = broadcast_state(n, new, Transition(old, code))
  BY Zenon DEF SubmitState
<1>3. StatePDU("TRANSITION", n, new) \in out'
  BY <1>1, <1>2, Zenon DEF broadcast_state
<1> QED BY <1>3 DEF StatePDU

\* And for check_freshness().
LEMMA TockAnnounces ==
    ASSUME TypeOK, ViewMatches, out' = tock_out,
           NEW n \in Expired, n \in DOMAIN view,
           <<view[n].code, view[n].stale>> # <<statstr(StaleStatus[n]), TRUE>>
    PROVE  \E p \in out' : p.type = "TRANSITION" /\ p.name = n
<1>1. n \in DOMAIN states
  BY Zenon DEF Expired
<1>2. view[n].code = statstr(states[n].status) /\ view[n].stale = states[n].stale
  BY <1>1 DEF ViewMatches, ShownAs
<1>3. states[n].stale \in BOOLEAN
  BY <1>1, Zenon DEF TypeOK, IsTable, StateRec
<1>4. ~states[n].stale \/ states[n].status # StaleStatus[n]
  BY <1>2, <1>3, ZenonT(40)
<1>5. StatePDU("TRANSITION", n, MarkStale(n)) \in
            broadcast_state(n, MarkStale(n),
                ~states[n].stale \/ states[n].status # StaleStatus[n])
  BY <1>4 DEF broadcast_state
<1>6. StatePDU("TRANSITION", n, MarkStale(n)) \in out'
  BY <1>5 DEF tock_out
<1> QED BY <1>6 DEF StatePDU

\* No change of a state's status or freshness goes unannounced, whichever
\* handler made it: a subscriber that only acts on TRANSITIONs misses none.
THEOREM TransitionsAnnounced == HSpec => TransitionAnnounced
<1>1. TypeOK /\ ViewMatches /\ [HNext]_hvars =>
        [\A n \in DOMAIN view \cap DOMAIN view' :
            /\ <<view[n].code, view[n].stale>> # <<view'[n].code, view'[n].stale>>
            /\ states'[n].status # PENDING
            => \E p \in out' : p.type = "TRANSITION" /\ p.name = n]_hvars
  <2> SUFFICES ASSUME TypeOK, ViewMatches, [HNext]_hvars,
                      NEW n \in DOMAIN view \cap DOMAIN view',
                      <<view[n].code, view[n].stale>> #
                      <<view'[n].code, view'[n].stale>>,
                      states'[n].status # PENDING
               PROVE  \E p \in out' : p.type = "TRANSITION" /\ p.name = n
    BY Zenon
  <2>1. ASSUME NEW ts \in Stamps, NEW x \in StateNames, NEW code \in Codes,
               NEW m \in Messages, SubmitState(ts, x, code, m), View
        PROVE  \E p \in out' : p.type = "TRANSITION" /\ p.name = n
    <3>0. /\ view'[x].code = statstr(code) /\ view'[x].stale = FALSE
          /\ states'[x].status = code
          /\ \A y \in DOMAIN view \ {x} : view'[y] = view[y]
      BY <2>1, SubmitView, ZenonT(40)
    <3>1. /\ n = x /\ states'[x].status = code
          /\ view'[x].code = statstr(code) /\ view'[x].stale = FALSE
      BY <3>0, Zenon
    <3>2. /\ n \in DOMAIN view /\ code # PENDING
          /\ <<view[n].code, view[n].stale>> # <<statstr(code), FALSE>>
      BY <3>1, Zenon
    <3> QED BY <2>1, <3>1, <3>2, SubmitAnnounces, Zenon
  <2>2. CASE (Tock \/ TockDies) /\ View
    <3>1. View /\ out' = tock_out
      BY <2>2 DEF Tock, TockDies
    <3>2. /\ n \in Expired
          /\ view'[n].code = statstr(StaleStatus[n]) /\ view'[n].stale = TRUE
      BY <3>1, TockView, Zenon
    <3> QED BY <3>1, <3>2, TockAnnounces, Zenon
  <2>3. CASE view' = view \/ view' = NoRecords
    BY <2>3 DEF NoRecords
  <2> QED BY <2>1, <2>2, <2>3, StateSteps, Zenon
<1> QED BY <1>1, ObservedTypes, ViewAlwaysMatches, PTL
        DEF HSpec, TransitionAnnounced

----------------------------------------------------------------------------
(* The ends of a rate's window.                                            *)

EndsOf(r) == [first |-> <<r.first_seen, r.first>>,
              last  |-> <<r.last_seen, r.last>>]

\* Either no report is held, or the first and the last one of one window.
OneWindow(n, r) ==
    IF r.last_seen = 0 THEN r.first_seen = 0
    ELSE /\ r.first_seen # 0
         /\ winstart(n, r.first_seen) = winstart(n, r.last_seen)

\* All the rates of a table or file are like that, but those of Z.
SoundRates(tbl, Z) == \A n \in DOMAIN tbl \ Z : OneWindow(n, tbl[n])
SoundFile(f, Z) == f.tag = "data" => SoundRates(f.rates, Z)

\* The inductive invariant: RateEndpoints, that a rate without a report has
\* no first one left either, in memory and in the save file, and that the
\* ends are known of no other rates.
RateInv ==
    /\ SoundRates(rates, zeroed) /\ SoundFile(savefile, zeroed)
    /\ \A n \in DOMAIN rates \ zeroed :
            rates[n].last_seen # 0 => n \in DOMAIN ends
                                      /\ ends[n] = EndsOf(rates[n])
    /\ up => \A n \in DOMAIN ends \ zeroed :
                n \in DOMAIN rates /\ rates[n].last_seen # 0

\* A save writes sound rates, as far as it gets.
LEMMA WriteRates ==
    ASSUME NEW Z, NEW sts, NEW cts, NEW sms, NEW evs, NEW rts,
           SoundRates(rts, Z), SoundFile(savefile, Z),
           NEW f, f = SaveFile(sts, cts, sms, evs, rts)
    PROVE  \A g \in binf_write(f) \cup TornFiles(f) : SoundFile(g, Z)
<1>1. f.tag = "data" /\ f.rates = rts
  BY DEF SaveFile
<1>2. SoundFile(f, Z) /\ SoundFile(EmptyFile, Z) /\ SoundFile(ZeroFile, Z)
  BY <1>1, Zenon DEF SoundFile, SoundRates, EmptyFile, ZeroFile, SaveFile,
                     NoRecords
<1>3. \A g \in binf_write(f) : SoundFile(g, Z)
  BY <1>2 DEF binf_write
<1>4. ASSUME NEW s, NEW c, NEW m, NEW e, NEW r
      PROVE  SoundFile(TornFile(f, s, c, m, e, r), Z)
  BY <1>1, Zenon DEF SoundFile, SoundRates, TornFile, Drop
<1>5. \A g \in TornFiles(f) : SoundFile(g, Z)
  BY <1>2, <1>4 DEF TornFiles
<1> QED BY <1>3, <1>5

\* A rate record after a submission stamped ts.
LEMMA SubmitRateEnds ==
    ASSUME TypeOK, NEW ts \in Stamps \ {0}, NEW n \in RateNames,
           NEW v \in RateValues, SubmitRate(ts, n, v),
           OneWindow(n, Find(rates, n, NewRate))
    PROVE  LET old == Find(rates, n, NewRate)
               turn == Rollover(n, old, ts)
           IN  /\ n \in DOMAIN rates' /\ OneWindow(n, rates'[n])
               /\ rates'[n].last_seen = ts
               /\ EndsOf(rates'[n]) =
                    [first |-> IF old.last_seen # 0 /\ ~turn
                               THEN EndsOf(old).first ELSE <<ts, v>>,
                     last  |-> <<ts, v>>]
               /\ RatesIn(out') = IF turn THEN {n} ELSE {}
<1> DEFINE old == Find(rates, n, NewRate)
           turn == Rollover(n, old, ts)
           cur == IF turn THEN rate_reset(old) ELSE old
           fst == IF cur.first_seen = 0 THEN ts ELSE cur.first_seen
           new == [rate_data(cur, v) EXCEPT !.first_seen = fst, !.last_seen = ts]
<1>1. /\ rates' = Put(rates, n, new)
      /\ out' = IF turn THEN {broadcast_rate(n, old)} ELSE {}
  BY DEF SubmitRate
<1>2. old \in RateRec /\ cur \in RateRec
  BY FindTyped, NewRecords, ResetTyped, Zenon DEF TypeOK
<1>3. n \in DOMAIN rates' /\ rates'[n] = new
  BY <1>1 DEF Put
<1>4. /\ new.first_seen = fst /\ new.last_seen = ts /\ new.last = v
      /\ new.first = IF cur.last_seen = 0 THEN v ELSE cur.first
  BY <1>2 DEF rate_data, RateRec
<1>5. RatesIn(out') = IF turn THEN {n} ELSE {}
  <2>1. broadcast_rate(n, old).type = "RATE" /\ broadcast_rate(n, old).name = n
    BY DEF broadcast_rate
  <2>2. RatesIn({}) = {} /\ RatesIn({broadcast_rate(n, old)}) = {n}
    BY <2>1, Zenon DEF RatesIn
  <2> QED BY <1>1, <2>2, Zenon
<1>6. CASE turn \/ old.last_seen = 0
  <2>1. cur.first_seen = 0 /\ cur.last_seen = 0
    <3>1. CASE turn
      BY <1>2, <3>1, Zenon DEF rate_reset, RateRec
    <3>2. CASE ~turn
      BY <1>6, <3>2, Zenon DEF OneWindow
    <3> QED BY <3>1, <3>2
  <2>2. new.first_seen = ts /\ new.first = v
    BY <1>4, <2>1, ZenonT(40)
  <2> HIDE DEF new, cur, fst
  <2>3. OneWindow(n, new)
    BY <1>4, <2>2 DEF OneWindow
  <2> HIDE DEF turn, old
  <2> QED BY <1>3, <1>4, <1>5, <1>6, <2>2, <2>3, ZenonT(40)
          DEF EndsOf, turn, old
<1>7. CASE ~turn /\ old.last_seen # 0
  <2>1. cur = old /\ old.first_seen # 0
        /\ winstart(n, old.first_seen) = winstart(n, old.last_seen)
    BY <1>7, Zenon DEF OneWindow
  <2>2. new.first_seen = old.first_seen /\ new.first = old.first
    BY <1>4, <1>7, <2>1, ZenonT(40)
  <2>3. winstart(n, old.last_seen) = winstart(n, ts)
    BY <1>2, <1>7 DEF Rollover, RateRec
  <2> HIDE DEF new, cur, fst
  <2>4. OneWindow(n, new)
    BY <1>4, <2>1, <2>2, <2>3, Zenon DEF OneWindow
  <2> HIDE DEF turn, old
  <2> QED BY <1>3, <1>4, <1>5, <1>7, <2>2, <2>4, ZenonT(40)
          DEF EndsOf, turn, old
<1> QED BY <1>6, <1>7

\* A rate submission of one name.
LEMMA SubmitRateInv ==
    ASSUME TypeOK, RateInv, HSubmitRate
    PROVE  RateInv'
<1> PICK ts \in Stamps, n \in RateNames, v \in RateValues :
        /\ SubmitRate(ts, n, v) /\ Arrive(n, ts)
        /\ ends' = Put(ends, n,
                [first |-> IF n \in DOMAIN ends \ RatesIn(out')
                           THEN ends[n].first ELSE <<ts, v>>,
                 last  |-> <<ts, v>>])
  BY Zenon DEF HSubmitRate
<1> DEFINE old == Find(rates, n, NewRate)
<1>1. /\ up /\ up' = up /\ savefile' = savefile
      /\ DOMAIN rates' = DOMAIN rates \cup {n}
      /\ \A m \in DOMAIN rates \ {n} : rates'[m] = rates[m]
  BY ZenonT(40) DEF SubmitRate, Put, disk
<1>2. zeroed \subseteq zeroed' /\ (ts = 0 => n \in zeroed')
  BY DEF Arrive
<1>3. /\ DOMAIN ends' = DOMAIN ends \cup {n}
      /\ \A m \in DOMAIN ends \ {n} : ends'[m] = ends[m]
      /\ ends'[n] = [first |-> IF n \in DOMAIN ends \ RatesIn(out')
                               THEN ends[n].first ELSE <<ts, v>>,
                     last  |-> <<ts, v>>]
  BY Zenon DEF Put
<1>4. ASSUME n \notin zeroed'
      PROVE  /\ OneWindow(n, rates'[n]) /\ rates'[n].last_seen # 0
             /\ ends'[n] = EndsOf(rates'[n])
  <2>1. ts # 0 /\ n \notin zeroed
    BY <1>2, <1>4
  <2>2. OneWindow(n, old)
    BY <2>1, Zenon DEF RateInv, SoundRates, Find, NewRate, OneWindow
  <2>3. /\ OneWindow(n, rates'[n]) /\ rates'[n].last_seen = ts
        /\ EndsOf(rates'[n]) =
                [first |-> IF old.last_seen # 0 /\ ~Rollover(n, old, ts)
                           THEN EndsOf(old).first ELSE <<ts, v>>,
                 last  |-> <<ts, v>>]
        /\ RatesIn(out') = IF Rollover(n, old, ts) THEN {n} ELSE {}
    BY <2>1, <2>2, SubmitRateEnds, Zenon
  <2>4. n \in DOMAIN ends <=> old.last_seen # 0
    BY <1>1, <2>1, Zenon DEF RateInv, Find, NewRate
  <2>5. old.last_seen # 0 => ends[n] = EndsOf(old)
    BY <2>1, Zenon DEF RateInv, Find, NewRate
  <2> HIDE DEF old
  <2> QED BY <1>3, <2>1, <2>3, <2>4, <2>5, ZenonT(40)
<1>5. SoundRates(rates', zeroed')
  BY <1>1, <1>2, <1>4, Zenon DEF RateInv, SoundRates
<1>6. SoundFile(savefile', zeroed')
  BY <1>1, <1>2, Zenon DEF RateInv, SoundFile, SoundRates
<1>7. ASSUME NEW m \in DOMAIN rates' \ zeroed', rates'[m].last_seen # 0
      PROVE  m \in DOMAIN ends' /\ ends'[m] = EndsOf(rates'[m])
  <2>1. CASE m = n
    BY <1>3, <1>4, <1>7, <2>1, Zenon
  <2>2. CASE m # n
    BY <1>1, <1>2, <1>3, <1>7, <2>2, ZenonT(40) DEF RateInv
  <2> QED BY <2>1, <2>2, Zenon
<1>8. ASSUME NEW m \in DOMAIN ends' \ zeroed'
      PROVE  m \in DOMAIN rates' /\ rates'[m].last_seen # 0
  <2>1. CASE m = n
    BY <1>1, <1>4, <1>8, <2>1, Zenon
  <2>2. CASE m # n
    BY <1>1, <1>2, <1>3, <1>8, <2>2, Zenon DEF RateInv
  <2> QED BY <2>1, <2>2
<1> QED BY <1>5, <1>6, <1>7, <1>8, Zenon DEF RateInv, EndsOf, SoundRates,
                                             SoundFile,
           OneWindow, winstart

\* Steps that touch no rate but may save them or lose them all.
LEMMA QuietRates ==
    ASSUME RateInv, zeroed \subseteq zeroed', ends' = ends,
           \/ rates' = rates /\ up' = up
           \/ rates' = NoRecords /\ up' = FALSE,
           SoundFile(savefile', zeroed)
    PROVE  RateInv'
<1>1. SoundRates(rates', zeroed') /\ SoundFile(savefile', zeroed')
  BY Zenon DEF RateInv, SoundRates, SoundFile, NoRecords
<1>2. \A n \in DOMAIN rates' \ zeroed' :
            rates'[n].last_seen # 0 => n \in DOMAIN ends'
                                       /\ ends'[n] = EndsOf(rates'[n])
  BY Zenon DEF RateInv, NoRecords
<1>3. up' => \A n \in DOMAIN ends' \ zeroed' :
                n \in DOMAIN rates' /\ rates'[n].last_seen # 0
  BY ZenonT(40) DEF RateInv
<1> QED BY <1>1, <1>2, <1>3, Zenon DEF RateInv, EndsOf, SoundRates, SoundFile,
           OneWindow, winstart

\* A TOCK resets the rates whose windows it closes, and only those.
LEMMA TockRates ==
    ASSUME TypeOK, SoundRates(rates, zeroed)
    PROVE  /\ DOMAIN tock_rates = DOMAIN rates
           /\ SoundRates(tock_rates, zeroed)
           /\ \A n \in DOMAIN rates :
                IF n \in Flush(rates) THEN tock_rates[n].last_seen = 0
                ELSE tock_rates[n] = rates[n]
           /\ RatesIn(tock_out) = Flush(rates)
<1>1. DOMAIN tock_rates = DOMAIN rates
  BY DEF tock_rates
<1>2. ASSUME NEW n \in DOMAIN rates
      PROVE  /\ IF n \in Flush(rates) THEN tock_rates[n].last_seen = 0
                ELSE tock_rates[n] = rates[n]
             /\ n \notin zeroed => OneWindow(n, tock_rates[n])
  <2>1. rates[n] \in RateRec
    BY DEF TypeOK, IsTable
  <2>2. rate_reset(rates[n]).last_seen = 0 /\ rate_reset(rates[n]).first_seen = 0
    BY <2>1, Zenon DEF rate_reset, RateRec
  <2> QED BY <2>2, Zenon DEF tock_rates, SoundRates, OneWindow
<1>3. RatesIn(tock_out) = Flush(rates)
  <2>1. /\ \A n : /\ broadcast_rate(n, rates[n]).type = "RATE"
                  /\ broadcast_rate(n, rates[n]).name = n
        /\ \A q \in broadcast_setkeys(keys) : q.type # "RATE"
        /\ beacon_sweep.type # "RATE"
    <3>1. beacon_sweep.type # "RATE"
      BY DEF beacon_sweep
    <3>2. \A q \in broadcast_setkeys(keys) : q.type # "RATE"
      BY DEF broadcast_setkeys
    <3>3. \A n : /\ broadcast_rate(n, rates[n]).type = "RATE"
                 /\ broadcast_rate(n, rates[n]).name = n
      BY Zenon DEF broadcast_rate
    <3> QED BY <3>1, <3>2, <3>3, Zenon
  <2>2. \A n, s, t : \A q \in broadcast_state(n, s, t) : q.type # "RATE"
    BY DEF broadcast_state, StatePDU
  <2>3. ASSUME NEW p \in tock_out, p.type = "RATE" PROVE p.name \in Flush(rates)
    <3>1. \/ \E n \in Flush(counters) : p = broadcast_counter(n, counters[n])
          \/ \E n \in Flush(samples) : p = broadcast_sample(n, samples[n])
          \/ \E n \in Flush(rates) : p = broadcast_rate(n, rates[n])
          \/ p = beacon_sweep
          \/ \E n, s, t : p \in broadcast_state(n, s, t)
          \/ p \in broadcast_setkeys(keys)
      <4>1. \/ p \in {broadcast_counter(n, counters[n]) : n \in Flush(counters)}
            \/ p \in {broadcast_sample(n, samples[n]) : n \in Flush(samples)}
            \/ p \in {broadcast_rate(n, rates[n]) : n \in Flush(rates)}
            \/ p \in (IF SweepDue THEN {beacon_sweep} ELSE {})
            \/ \E n \in Expired : p \in broadcast_state(n, MarkStale(n),
                    ~states[n].stale \/ states[n].status # StaleStatus[n])
            \/ p \in (IF SaveDue THEN broadcast_setkeys(keys) ELSE {})
        BY <2>3, Zenon DEF tock_out
      <4>2. p \in (IF SweepDue THEN {beacon_sweep} ELSE {}) => p = beacon_sweep
        BY Zenon
      <4>3. p \in (IF SaveDue THEN broadcast_setkeys(keys) ELSE {})
            => p \in broadcast_setkeys(keys)
        BY Zenon
      <4> QED BY <4>1, <4>2, <4>3, Zenon
    <3>2. CASE \E n \in Flush(counters) : p = broadcast_counter(n, counters[n])
      <4>1. \A n : broadcast_counter(n, counters[n]).type # "RATE"
        BY DEF broadcast_counter
      <4> QED BY <2>3, <3>2, <4>1, ZenonT(40)
    <3>3. CASE \E n \in Flush(samples) : p = broadcast_sample(n, samples[n])
      <4>1. \A n : broadcast_sample(n, samples[n]).type # "RATE"
        BY DEF broadcast_sample
      <4> QED BY <2>3, <3>3, <4>1, ZenonT(40)
    <3>4. CASE \E n \in Flush(rates) : p = broadcast_rate(n, rates[n])
      BY <2>1, <3>4, Zenon
    <3>5. CASE p = beacon_sweep \/ p \in broadcast_setkeys(keys)
      BY <2>1, <2>3, <3>5, Zenon
    <3>6. CASE \E n, s, t : p \in broadcast_state(n, s, t)
      BY <2>2, <2>3, <3>6, Zenon
    <3> QED BY <3>1, <3>2, <3>3, <3>4, <3>5, <3>6, ZenonT(40)
  <2>4. ASSUME NEW n \in Flush(rates)
        PROVE  broadcast_rate(n, rates[n]) \in tock_out
    BY Zenon DEF tock_out
  <2>5. ASSUME NEW n \in RatesIn(tock_out) PROVE n \in Flush(rates)
    <3>1. PICK p \in {q \in tock_out : q.type = "RATE"} : n = p.name
      BY <2>5, Zenon DEF RatesIn
    <3> QED BY <2>3, <3>1, Zenon
  <2>6. ASSUME NEW n \in Flush(rates) PROVE n \in RatesIn(tock_out)
    <3>1. PICK p : p = broadcast_rate(n, rates[n])
      BY Zenon
    <3>2. p \in {q \in tock_out : q.type = "RATE"} /\ p.name = n
      BY <2>1, <2>4, <2>6, <3>1, Zenon
    <3> QED BY <3>2, Zenon DEF RatesIn
  <2> QED BY <2>5, <2>6, Zenon
<1> QED BY <1>1, <1>2, <1>3 DEF SoundRates

\* Their ends are dropped with them; what is saved is what the TOCK left.
LEMMA TockRateInv ==
    ASSUME TypeOK, RateInv, HTock
    PROVE  RateInv'
<1>1. /\ up /\ up' = up /\ rates' = tock_rates /\ zeroed' = zeroed
      /\ ends' = Drop(ends, RatesIn(out')) /\ out' = tock_out
      /\ IF SaveDue THEN savefile' \in binf_write(tock_file)
                    ELSE savefile' = savefile
  BY Zenon DEF HTock, Tock, disk
<1>2. SoundRates(rates, zeroed) /\ SoundFile(savefile, zeroed)
  BY ZenonT(40) DEF RateInv
<1>3. /\ DOMAIN tock_rates = DOMAIN rates
      /\ SoundRates(tock_rates, zeroed)
      /\ \A n \in DOMAIN rates :
            IF n \in Flush(rates) THEN tock_rates[n].last_seen = 0
            ELSE tock_rates[n] = rates[n]
      /\ RatesIn(tock_out) = Flush(rates)
  BY <1>2, TockRates
<1>4. SoundFile(savefile', zeroed)
  BY <1>1, <1>2, <1>3, WriteRates, ZenonT(40) DEF tock_file
<1>5. /\ DOMAIN ends' = DOMAIN ends \ Flush(rates)
      /\ \A n \in DOMAIN ends' : ends'[n] = ends[n]
  BY <1>1, <1>3 DEF Drop
<1>6. \A n \in DOMAIN rates' \ zeroed' :
            rates'[n].last_seen # 0 => n \in DOMAIN ends'
                                       /\ ends'[n] = EndsOf(rates'[n])
  BY <1>1, <1>3, <1>5, Zenon DEF RateInv
<1>7. \A n \in DOMAIN ends' \ zeroed' :
            n \in DOMAIN rates' /\ rates'[n].last_seen # 0
  BY <1>1, <1>3, <1>5, Zenon DEF RateInv
<1> QED BY <1>1, <1>3, <1>4, <1>6, <1>7, Zenon DEF RateInv, EndsOf, SoundRates,
           SoundFile, OneWindow, winstart

\* A process that dies, or that saves on request.
LEMMA SaveRateInv ==
    ASSUME TypeOK, RateInv,
           HTockDies \/ HSaveState \/ HSaveStateDies \/ HStop
    PROVE  RateInv'
<1>1. SoundRates(rates, zeroed) /\ SoundFile(savefile, zeroed)
  BY DEF RateInv
<1>2. SoundRates(tock_rates, zeroed)
  BY <1>1, TockRates, Zenon
<1>3. /\ zeroed' = zeroed /\ ends' = ends
      /\ \/ rates' = rates /\ up' = up
         \/ rates' = NoRecords /\ up' = FALSE
  BY ZenonT(40) DEF HTockDies, TockDies, HSaveState, SaveState, HSaveStateDies,
     SaveStateDies, HStop, Stop, Dead, NoMetric, hist, db
<1>4. \/ savefile' \in binf_write(tock_file) \cup TornFiles(tock_file)
      \/ savefile' \in binf_write(cur_file) \cup TornFiles(cur_file)
      \/ savefile' = savefile
  BY DEF HTockDies, TockDies, HSaveState, SaveState, HSaveStateDies,
     SaveStateDies, HStop, Stop, TornSave, disk
<1>5. \A g \in binf_write(tock_file) \cup TornFiles(tock_file) :
            SoundFile(g, zeroed)
  BY <1>1, <1>2, WriteRates, Zenon DEF tock_file
<1>6. \A g \in binf_write(cur_file) \cup TornFiles(cur_file) :
            SoundFile(g, zeroed)
  BY <1>1, WriteRates DEF cur_file
<1>7. SoundFile(savefile', zeroed)
  BY <1>1, <1>4, <1>5, <1>6
<1> QED BY <1>3, <1>7, QuietRates, ZenonT(40)

\* A FORGET: an ignored rate keeps its ends, a forgotten one leaves them.
LEMMA ForgetRateInv ==
    ASSUME TypeOK, RateInv, HForget
    PROVE  RateInv'
<1> PICK p \in Patterns, ig \in BOOLEAN :
        Forget(p, ig) /\ ends' = IF ig THEN ends ELSE Drop(ends, p)
  BY Zenon DEF HForget
<1>1. /\ up' = up /\ zeroed' = zeroed /\ savefile' = savefile
      /\ rates' = Forgotten(rates, p, ig)
  BY Zenon DEF HForget, Forget, disk
<1>2. /\ DOMAIN rates' = IF ig THEN DOMAIN rates ELSE DOMAIN rates \ p
      /\ DOMAIN ends' = IF ig THEN DOMAIN ends ELSE DOMAIN ends \ p
      /\ \A n \in DOMAIN ends' : ends'[n] = ends[n]
  BY <1>1 DEF Forgotten, Drop
<1>3. ASSUME NEW n \in DOMAIN rates'
      PROVE  /\ n \in DOMAIN rates /\ EndsOf(rates'[n]) = EndsOf(rates[n])
             /\ rates'[n].last_seen = rates[n].last_seen
             /\ rates'[n].first_seen = rates[n].first_seen
  <2>1. n \in DOMAIN rates /\ rates[n] \in RateRec
    BY <1>2 DEF TypeOK, IsTable
  <2>2. rates'[n] \in {rates[n], [rates[n] EXCEPT !.ignore = TRUE]}
    BY <1>1, <1>2, <2>1 DEF Forgotten, Drop
  <2> QED BY <2>1, <2>2, ZenonT(40) DEF RateRec, EndsOf
<1>4. SoundRates(rates', zeroed') /\ SoundFile(savefile', zeroed')
  <2>1. SoundFile(savefile', zeroed')
    BY <1>1, Zenon DEF RateInv
  <2>2. SoundRates(rates, zeroed)
    BY Zenon DEF RateInv
  <2>3. ASSUME NEW n \in DOMAIN rates' \ zeroed PROVE OneWindow(n, rates'[n])
    <3>1. n \in DOMAIN rates \ zeroed
      BY <1>3, <2>3, Zenon
    <3>2. OneWindow(n, rates[n])
      BY <2>2, <3>1, Zenon DEF SoundRates
    <3> QED BY <1>3, <2>3, <3>2, Zenon DEF OneWindow
  <2> QED BY <1>1, <2>1, <2>3, Zenon DEF SoundRates
<1>5. \A n \in DOMAIN rates' \ zeroed' :
            rates'[n].last_seen # 0 => n \in DOMAIN ends'
                                       /\ ends'[n] = EndsOf(rates'[n])
  BY <1>1, <1>2, <1>3, ZenonT(40) DEF RateInv
<1>6. up' => \A n \in DOMAIN ends' \ zeroed' :
                n \in DOMAIN rates' /\ rates'[n].last_seen # 0
  BY <1>1, <1>2, <1>3, Zenon DEF RateInv
<1> QED BY <1>4, <1>5, <1>6, ZenonT(40) DEF RateInv, EndsOf, SoundRates,
                                            SoundFile,
           OneWindow, winstart

\* A start restores sound rates.
LEMMA BootRateInv ==
    ASSUME TypeOK, RateInv, HBoot
    PROVE  RateInv'
<1>1. Boot /\ Reopen
  BY DEF HBoot
<1>2. savefile' = savefile /\ savefile # EmptyFile
  BY <1>1 DEF Boot, disk
<1> DEFINE Z == zeroed \cap RateNames
<1>3. /\ zeroed' = {n \in Ledgered : Unstamped(n)'} \cup Z
      /\ ends' = [n \in {n \in DOMAIN rates' : rates'[n].last_seen # 0} |->
                    EndsOf(rates'[n])]
  BY <1>1, Zenon DEF Reopen, EndsOf
<1>4. \E recs : /\ rates' = Restored(configure_rates, recs)
                /\ recs = NoRecords \/ (savefile.tag = "data"
                                        /\ recs = savefile.rates)
  <2>1. CASE savefile = NoFile
    <3>1. ZeroFile.rates = NoRecords
      BY DEF ZeroFile, SaveFile
    <3> QED BY <1>1, <2>1, <3>1, ZenonT(40) DEF Boot, binf_read
  <2>2. CASE savefile # NoFile
    <3>1. savefile.tag = "data"
      <4>1. IsDataFile(savefile)
        BY <1>2, <2>2, ZenonT(40) DEF TypeOK
      <4> QED BY <4>1 DEF IsDataFile
    <3> QED BY <1>1, <2>2, <3>1, ZenonT(40) DEF Boot, binf_read
  <2> QED BY <2>1, <2>2
<1>5. savefile.tag = "data" => DOMAIN savefile.rates \subseteq RateNames
  BY DEF TypeOK, IsDataFile, IsTable, NoFile, EmptyFile
<1>6. SoundFile(savefile, Z)
  BY <1>5, Zenon DEF RateInv, SoundFile, SoundRates
<1>7. SoundRates(rates', Z)
  <2> PICK recs : /\ rates' = Restored(configure_rates, recs)
                  /\ recs = NoRecords \/ (savefile.tag = "data"
                                          /\ recs = savefile.rates)
    BY <1>4, Zenon
  <2>1. SoundRates(recs, Z)
    BY <1>6, ZenonT(40) DEF SoundFile, SoundRates, NoRecords
  <2>2. \A n \in DOMAIN configure_rates : OneWindow(n, configure_rates[n])
    BY DEF configure_rates, NewRate, OneWindow
  <2> QED BY <2>1, <2>2, Zenon DEF SoundRates, Restored
<1>8. SoundRates(rates', zeroed') /\ SoundFile(savefile', zeroed')
  BY <1>2, <1>3, <1>6, <1>7, ZenonT(40) DEF SoundRates, SoundFile
<1>9. \A n \in DOMAIN rates' \ zeroed' :
            rates'[n].last_seen # 0 => n \in DOMAIN ends'
                                       /\ ends'[n] = EndsOf(rates'[n])
  BY <1>3
<1>10. \A n \in DOMAIN ends' \ zeroed' :
            n \in DOMAIN rates' /\ rates'[n].last_seen # 0
  BY <1>3
<1> QED BY <1>8, <1>9, <1>10, Zenon DEF RateInv, EndsOf, SoundRates, SoundFile,
           OneWindow, winstart

\* The handlers that have nothing to do with rates.
LEMMA OtherRates ==
    ASSUME RateInv,
           HSubmitState \/ HSubmitCounter \/ HSubmitSample \/ HSubmitEvent
           \/ HSetKeys \/ HDropped \/ HDelKeys \/ HBootDies \/ HAdvance
           \/ UNCHANGED hvars
    PROVE  RateInv'
<1>1. UNCHANGED <<rates, up, savefile, ends>>
  <2>1. CASE HSubmitState \/ HSubmitEvent \/ HSetKeys
    BY <2>1, ZenonT(40) DEF HSubmitState, SubmitState, HSubmitEvent,
                            SubmitEvent, HSetKeys,
       SetKeys, hist, db, disk
  <2>2. CASE HSubmitCounter \/ HSubmitSample
    BY <2>2, Zenon DEF HSubmitCounter, SubmitCounter, HSubmitSample,
                       SubmitSample, disk
  <2>3. CASE HDropped \/ HDelKeys \/ HBootDies
    BY <2>3, Zenon DEF HDropped, Dropped, HDelKeys, DelKeys, HBootDies,
                       BootDies,
       hist, vars, db, disk
  <2>4. CASE HAdvance \/ UNCHANGED hvars
    BY <2>4, Zenon DEF HAdvance, Advance, hvars, hist, vars, db, disk
  <2> QED BY <2>1, <2>2, <2>3, <2>4
<1>2. zeroed \subseteq zeroed'
  BY Zenon DEF HSubmitState, HSubmitCounter, HSubmitSample, HSubmitEvent,
               HSetKeys,
     HDropped, HDelKeys, HBootDies, HAdvance, hvars, hist, NoMetric, Arrive
<1>3. SoundFile(savefile', zeroed)
  BY <1>1, Zenon DEF RateInv
<1> QED BY <1>1, <1>2, <1>3, QuietRates, ZenonT(40)

\* Every handler, a save, a crash in it and a restart keep this.
THEOREM RateInvariant == HSpec => []RateInv
<1>1. HInit => RateInv
  <2> SUFFICES ASSUME HInit PROVE RateInv
    OBVIOUS
  <2>1. /\ rates = configure_rates /\ savefile = NoFile
        /\ ends = NoRecords
    BY Zenon DEF HInit, Init
  <2>2. NoFile.tag # "data"
    BY DEF NoFile
  <2>3. DOMAIN ends = {}
    BY <2>1 DEF NoRecords
  <2>4. ASSUME NEW n \in DOMAIN rates PROVE rates[n] = NewRate
    BY <2>1, <2>4, Zenon DEF configure_rates
  <2>5. NewRate.last_seen = 0 /\ NewRate.first_seen = 0
    BY DEF NewRate
  <2> QED BY <2>1, <2>2, <2>3, <2>4, <2>5, ZenonT(40) DEF RateInv, SoundRates,
             SoundFile, OneWindow
<1>2. TypeOK /\ RateInv /\ [HNext]_hvars => RateInv'
  <2> SUFFICES ASSUME TypeOK, RateInv, [HNext]_hvars PROVE RateInv'
    OBVIOUS
  <2>1. CASE HSubmitState \/ HSubmitCounter \/ HSubmitSample \/ HSubmitEvent
             \/ HSetKeys \/ HDropped \/ HDelKeys \/ HBootDies \/ HAdvance
             \/ UNCHANGED hvars
    BY <2>1, OtherRates
  <2>2. CASE HSubmitRate
    BY <2>2, SubmitRateInv
  <2>3. CASE HTock
    BY <2>3, TockRateInv
  <2>4. CASE HTockDies \/ HSaveState \/ HSaveStateDies \/ HStop
    BY <2>4, SaveRateInv
  <2>5. CASE HForget
    BY <2>5, ForgetRateInv
  <2>6. CASE HBoot
    BY <2>6, BootRateInv
  <2> QED BY <2>1, <2>2, <2>3, <2>4, <2>5, <2>6, ZenonT(40) DEF HNext, HListener
<1> QED BY <1>1, <1>2, ObservedTypes, PTL DEF HSpec

\* So a rate is always computed between two reports of one window, the first
\* and the last one, each with its own time.
THEOREM EndsAreReports == HSpec => []RateEndpoints
<1>1. RateInv => RateEndpoints
  BY ZenonT(40) DEF RateInv, SoundRates, OneWindow, EndsOf, RateEndpoints
<1> QED BY <1>1, RateInvariant, PTL

----------------------------------------------------------------------------
(* Freshness.                                                              *)

\* What `expiry' says about record s of state n at time t: it is never before
\* the end of the last report's freshness, and it is just that while the
\* state is fresh and has been reported.
Timely(n, s, t) ==
    /\ s.last_seen + Freshness[n] <= s.expiry
    /\ s.stale => s.last_seen + Freshness[n] <= t
    /\ ~s.stale /\ s.last_seen # 0 => s.expiry = s.last_seen + Freshness[n]

\* All states are timely, as long as the process has not been restarted: a
\* start sets `expiry' anew and does not know of the last report.
FreshInv ==
    /\ ~up => stops # 0
    /\ stops = 0 => \A n \in DOMAIN states : Timely(n, states[n], now)

----------------------------------------------------------------------------

\* New states are timely.
LEMMA NewStateTimely ==
    ASSUME NEW n \in StateNames, NEW t \in Nat
    PROVE  Timely(n, NewState(Freshness[n], t), t)
<1>1. Freshness[n] \in Nat
  BY TypeAssumption
<1> QED BY <1>1 DEF Timely, NewState

\* A timely state stays so as time passes, and when it is ignored.
LEMMA TimelyLater ==
    ASSUME NEW n \in StateNames, NEW s \in StateRec, NEW t \in Nat,
           Timely(n, s, t)
    PROVE  Timely(n, s, t + 1) /\ Timely(n, [s EXCEPT !.ignore = TRUE], t)
<1>1. Freshness[n] \in Nat /\ s.last_seen \in Nat /\ s.expiry \in Nat
  BY TypeAssumption DEF StateRec
<1>2. Timely(n, s, t + 1)
  BY <1>1 DEF Timely
<1>3. /\ [s EXCEPT !.ignore = TRUE].last_seen = s.last_seen
      /\ [s EXCEPT !.ignore = TRUE].expiry = s.expiry
      /\ [s EXCEPT !.ignore = TRUE].stale = s.stale
  BY DEF StateRec
<1> QED BY <1>2, <1>3 DEF Timely

\* A STATE submission leaves a timely state.
LEMMA SubmitTimely ==
    ASSUME TypeOK, FreshInv,
           NEW ts \in Stamps, NEW n \in StateNames, NEW code \in Codes,
           NEW m \in Messages, SubmitState(ts, n, code, m)
    PROVE  FreshInv'
<1> DEFINE new == [status |-> code, summary |-> m, last_seen |-> ts,
                   expiry |-> ts + Freshness[n], stale |-> FALSE,
                   ignore |-> FALSE]
<1>1. ts \in Nat /\ Freshness[n] \in Nat
  BY InputAssumption, TypeAssumption
<1>2. Timely(n, new, now)
  BY <1>1 DEF Timely
<1>3. states' = Put(states, n, new) /\ now' = now /\ stops' = stops /\ up' = up
  BY DEF SubmitState
<1> HIDE DEF new
<1>4. ASSUME stops = 0, NEW x \in DOMAIN states'
      PROVE  Timely(x, states'[x], now)
  <2>1. \/ x = n /\ states'[x] = new
        \/ x \in DOMAIN states /\ states'[x] = states[x]
    BY <1>3 DEF Put
  <2> QED BY <1>2, <1>4, <2>1, ZenonT(40) DEF FreshInv
<1> QED BY <1>3, <1>4 DEF FreshInv

\* So does check_freshness(), whichever states it marks.
LEMMA TockTimely ==
    ASSUME TypeOK, FreshInv, Tock
    PROVE  FreshInv'
<1>1. ASSUME stops = 0, NEW n \in DOMAIN states
      PROVE  Timely(n, tock_states[n], now)
  <2>1. Timely(n, states[n], now)
    BY <1>1, ZenonT(40) DEF FreshInv
  <2>2. /\ states[n] \in StateRec /\ now \in Nat /\ Freshness[n] \in Nat
        /\ states[n].last_seen \in Nat /\ states[n].expiry \in Nat
    BY TypeAssumption DEF TypeOK, IsTable, StateRec
  <2>3. CASE n \in Expired
    <3>1. states[n].expiry <= now
      BY <2>3 DEF Expired
    <3>2. states[n].last_seen + Freshness[n] <= now
      BY <2>1, <2>2, <3>1 DEF Timely
    <3>3. /\ MarkStale(n).last_seen = states[n].last_seen
          /\ MarkStale(n).expiry = now + Freshness[n] /\ MarkStale(n).stale = TRUE
      BY <2>2 DEF MarkStale, StateRec
    <3>4. Timely(n, MarkStale(n), now)
      BY <2>2, <3>2, <3>3 DEF Timely
    <3> QED BY <2>3, <3>4 DEF tock_states
  <2>4. CASE n \notin Expired
    BY <2>1, <2>4 DEF tock_states
  <2> QED BY <2>3, <2>4
<1>2. /\ states' = tock_states /\ DOMAIN tock_states = DOMAIN states
      /\ now' = now /\ stops' = stops /\ up' = up
  BY ZenonT(40) DEF Tock, tock_states
<1> QED BY <1>1, <1>2 DEF FreshInv

\* And so does a FORGET.
LEMMA ForgetTimely ==
    ASSUME TypeOK, FreshInv, NEW p, NEW ig \in BOOLEAN, Forget(p, ig)
    PROVE  FreshInv'
<1>1. ASSUME stops = 0, NEW n \in DOMAIN states'
      PROVE  Timely(n, states'[n], now)
  <2>1. /\ n \in DOMAIN states
        /\ states'[n] \in {states[n], [states[n] EXCEPT !.ignore = TRUE]}
    BY DEF Forget, Forgotten, Drop
  <2>2. Timely(n, states[n], now) /\ states[n] \in StateRec /\ n \in StateNames
    BY <1>1, <2>1 DEF FreshInv, TypeOK, IsTable
  <2> QED BY <2>1, <2>2, TimelyLater DEF TypeOK
<1> QED BY <1>1, ZenonT(40) DEF FreshInv, Forget

\* Time passes.
LEMMA AdvanceTimely ==
    ASSUME TypeOK, FreshInv, Advance
    PROVE  FreshInv'
<1>1. ASSUME stops = 0, NEW n \in DOMAIN states
      PROVE  Timely(n, states[n], now + 1)
  BY <1>1, TimelyLater, ZenonT(40) DEF FreshInv, TypeOK, IsTable
<1> QED BY <1>1 DEF FreshInv, Advance, db

\* The invariant holds throughout.
THEOREM FreshInvariant == Spec => []FreshInv
<1>1. Init => FreshInv
  BY NewStateTimely, BoundAssumption DEF Init, FreshInv, configure_states
<1>2. TypeOK /\ FreshInv /\ [Next]_vars => FreshInv'
  <2> SUFFICES ASSUME TypeOK, FreshInv, [Next]_vars PROVE FreshInv'
    OBVIOUS
  <2>1. ASSUME NEW ts \in Stamps, NEW n \in StateNames, NEW code \in Codes,
               NEW m \in Messages, SubmitState(ts, n, code, m)
        PROVE  FreshInv'
    BY <2>1, SubmitTimely
  <2>2. CASE Tock
    BY <2>2, TockTimely
  <2>3. ASSUME NEW p, NEW ig \in BOOLEAN, Forget(p, ig) PROVE FreshInv'
    BY <2>3, ForgetTimely
  <2>4. CASE Advance
    BY <2>4, AdvanceTimely
  <2>5. CASE Stop \/ TockDies \/ SaveStateDies
    <3>1. stops' # 0
      <4>1. stops \in Nat /\ stops' = stops + 1
        BY <2>5, BoundAssumption DEF TypeOK, Stop, TockDies, SaveStateDies, Dead
      <4> QED BY <4>1
    <3> QED BY <3>1 DEF FreshInv
  <2>6. CASE Boot
    BY <2>6 DEF Boot, FreshInv
  <2>7. CASE UNCHANGED <<states, now, stops, up>>
    BY <2>7 DEF FreshInv
  <2>8. \/ \E ts \in Stamps, n \in StateNames, code \in Codes, m \in Messages :
                SubmitState(ts, n, code, m)
        \/ Tock
        \/ \E p \in Patterns, ig \in BOOLEAN : Forget(p, ig)
        \/ Advance
        \/ Stop \/ TockDies \/ SaveStateDies
        \/ Boot
        \/ UNCHANGED <<states, now, stops, up>>
    BY ZenonT(40) DEF Next, Listener, Management, Process, SubmitCounter,
                      SubmitSample,
           SubmitRate, SubmitEvent, SetKeys, Dropped, SaveState, DelKeys,
           BootDies, vars, db
  <2> QED BY <2>1, <2>2, <2>3, <2>4, <2>5, <2>6, <2>7, <2>8, ZenonT(40)
<1> QED BY <1>1, <1>2, TypeCorrect, PTL DEF Spec

----------------------------------------------------------------------------

\* check_freshness() never calls a state stale too early, for any freshness
\* and any timestamps in the reports, until the first restart.
THEOREM NeverStaleEarly == Spec => []StaleIsLate
<1>1. FreshInv => StaleIsLate
  BY DEF FreshInv, Timely, StaleIsLate
<1> QED BY <1>1, FreshInvariant, PTL

\* And it calls a state stale at the first TOCK that finds its last report
\* too old, until the first restart.
THEOREM NeverStaleLate == Spec => CheckedFresh
<1>1. TypeOK /\ FreshInv /\ [Next]_vars =>
        [stops = 0 /\ Tock /\ FreshDue =>
            \A n \in DOMAIN states' : FreshAt(n, states'[n], now)]_vars
  <2> SUFFICES ASSUME TypeOK, FreshInv, stops = 0, Tock, FreshDue,
                      NEW n \in DOMAIN states'
               PROVE  FreshAt(n, states'[n], now)
    OBVIOUS
  <2>1. states' = tock_states /\ n \in DOMAIN states
    BY DEF Tock, tock_states
  <2>2. Timely(n, states[n], now)
    BY <2>1 DEF FreshInv
  <2>3. states[n] \in StateRec /\ states[n].expiry \in Nat /\ now \in Nat
    BY <2>1, ZenonT(40) DEF TypeOK, IsTable, StateRec
  <2>4. CASE n \in Expired
    <3>1. states'[n].stale
      BY <2>1, <2>3, <2>4, ZenonT(40) DEF tock_states, MarkStale, StateRec
    <3> QED BY <3>1 DEF FreshAt
  <2>5. CASE n \notin Expired
    <3>1. states'[n] = states[n]
      BY <2>1, <2>5 DEF tock_states
    <3>2. states[n].expiry > now \/ states[n].ignore
      BY <2>1, <2>3, <2>5 DEF Expired
    <3> QED BY <2>2, <3>1, <3>2 DEF FreshAt, Timely
  <2> QED BY <2>4, <2>5
<1> QED BY <1>1, TypeCorrect, FreshInvariant, PTL DEF Spec, CheckedFresh

=============================================================================
