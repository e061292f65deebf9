----------------------------- MODULE ViewProofs -----------------------------
(***************************************************************************)
(* What bolo2log, bolo2sqlite and bolo2meta make of the feed agrees with   *)
(* what the aggregator broadcast.  A log and a row also depend on the PDUs *)
(* before the last one: the invariants are about the runs of STATEs with   *)
(* the same code that are on their way.                                    *)
(***************************************************************************)
EXTENDS FeedProofs

----------------------------------------------------------------------------
(* bolo2log.  As long as the aggregator was not started again, what it     *)
(* knows of a state is what it last told of it.                            *)

Tells(sent, n, s) ==
    IF n \in DOMAIN sent
    THEN sent[n].code = statstr(s.status) /\ sent[n].stale = s.stale
    ELSE s.status = PENDING /\ s.stale = FALSE

Shows ==
    stops = 0 => up /\ \A n \in DOMAIN states : Tells(shown, n, states[n])

\* A STATE without a TRANSITION says what the one before it said.
StepShows ==
    \A n \in SentNames :
        \/ Announced(PDU(n)) \in out'
        \/ /\ n \in DOMAIN shown
           /\ shown[n].code = PDU(n).code /\ shown[n].stale = PDU(n).stale

\* A handler that sends the records recs of the states S.
LEMMA ShowsAfter ==
    ASSUME Observe, NEW S, NEW T, Sends(S, states', T),
           \A n \in DOMAIN states : Tells(shown, n, states[n]),
           \A n \in DOMAIN states' \ S :
                /\ n \in DOMAIN states /\ states'[n].status = states[n].status
                /\ states'[n].stale = states[n].stale,
           \A n \in S \ T :
                /\ n \in DOMAIN shown
                /\ shown[n].code = statstr(states'[n].status)
                /\ shown[n].stale = states'[n].stale
    PROVE  /\ \A n \in DOMAIN states' : Tells(shown', n, states'[n])
           /\ StepShows
<1>1. /\ SentNames = S
      /\ \A n \in S : PDU(n) = StatePDU("STATE", n, states'[n])
      /\ \A n \in T : Announced(PDU(n)) \in out'
  BY SentPDUs, Zenon
<1>2. /\ DOMAIN shown' = DOMAIN shown \cup S
      /\ \A n \in S : shown'[n] = PDU(n)
      /\ \A n \in DOMAIN shown \ S : shown'[n] = shown[n]
  BY <1>1, ShownAfter, Zenon
<1>3. \A n \in S : /\ PDU(n).code = statstr(states'[n].status)
                   /\ PDU(n).stale = states'[n].stale
  BY <1>1, PDUFields
<1>4. ASSUME NEW n \in DOMAIN states' PROVE Tells(shown', n, states'[n])
  <2>1. CASE n \in S
    <3>1. n \in DOMAIN shown' /\ shown'[n] = PDU(n)
      BY <1>2, <2>1, Zenon
    <3> QED BY <1>3, <2>1, <3>1 DEF Tells
  <2>2. CASE n \notin S
    <3>1. /\ Tells(shown, n, states[n])
          /\ states'[n].status = states[n].status
          /\ states'[n].stale = states[n].stale
      BY <2>2, Zenon
    <3>2. /\ n \in DOMAIN shown' <=> n \in DOMAIN shown
          /\ n \in DOMAIN shown => shown'[n] = shown[n]
      BY <1>2, <2>2, Zenon
    <3> QED BY <3>1, <3>2 DEF Tells
  <2> QED BY <2>1, <2>2
<1>5. StepShows
  BY <1>1, <1>3 DEF StepShows
<1> QED BY <1>4, <1>5

\* FORGET changes neither.
LEMMA IgnoredSame ==
    ASSUME NEW r \in StateRec
    PROVE  /\ [r EXCEPT !.ignore = TRUE].status = r.status
           /\ [r EXCEPT !.ignore = TRUE].stale = r.stale
BY DEF StateRec

\* A start is counted.
LEMMA StopsStay ==
    ASSUME FeedOK, KernelStep, stops' = 0
    PROVE  stops = 0 /\ ~Dead
<1>1. TypeOK /\ Next /\ ~BootDies
  BY Zenon DEF FeedOK, KernelStep
<1>2. ~Dead
  <2>1. stops \in Nat
    BY <1>1 DEF TypeOK
  <2>2. stops + 1 # 0
    BY <2>1
  <2> QED BY <2>2, Zenon DEF Dead
<1> QED BY <1>1, <1>2, StateSteps, Zenon DEF TockDies, Boot

\* What the kernel knows and what it told go together in every step.
LEMMA KernelShows ==
    ASSUME PENDING \notin Codes, FeedOK, Shows, KernelStep, stops' = 0
    PROVE  Shows' /\ StepShows
<1>1. TypeOK /\ Next /\ ~BootDies /\ Observe
  BY Zenon DEF FeedOK, KernelStep
<1>2. ~Dead /\ stops = 0
  BY StopsStay, Zenon
<1>4. up /\ \A n \in DOMAIN states : Tells(shown, n, states[n])
  BY <1>2, Zenon DEF Shows
<1>5. ASSUME NEW ts \in Stamps, NEW n \in StateNames, NEW code \in Codes,
             NEW m \in Messages, SubmitState(ts, n, code, m)
      PROVE  /\ \A x \in DOMAIN states' : Tells(shown', x, states'[x])
             /\ StepShows
  <2> DEFINE tr == Transition(Before_(n), code)
             T  == IF tr THEN {n} ELSE {}
  <2>1. /\ Sends({n}, states', T)
        /\ DOMAIN states' = DOMAIN states \cup {n}
        /\ states'[n].status = code /\ states'[n].stale = FALSE
        /\ \A x \in DOMAIN states \ {n} : states'[x] = states[x]
    BY <1>5, SubmitSends, ZenonT(40)
  <2>2. ASSUME ~tr
        PROVE  /\ n \in DOMAIN shown /\ shown[n].code = statstr(code)
               /\ shown[n].stale = FALSE
    <3>1. Before_(n).stale = FALSE /\ Before_(n).status = code
      <4>1. Before_(n) \in StateRec
        <5>1. NewState(Freshness[n], now) \in StateRec
          BY <1>1, NewRecords, ZenonT(40) DEF TypeOK
        <5> QED BY <1>1, <5>1, FindTyped, ZenonT(40) DEF Before_, TypeOK
      <4>2. Before_(n).stale \in BOOLEAN
        BY <4>1 DEF StateRec
      <4> QED BY <2>2, <4>2 DEF Transition
    <3>2. n \in DOMAIN states /\ Before_(n) = states[n]
      <4>1. NewState(Freshness[n], now).status = PENDING
        BY DEF NewState
      <4> QED BY <3>1, <4>1 DEF Before_, Find
    <3>3. Tells(shown, n, states[n]) /\ code # PENDING
      BY <1>4, <3>2, Zenon
    <3> QED BY <3>1, <3>2, <3>3 DEF Tells
  <2>3. \A x \in {n} \ T : /\ x \in DOMAIN shown
                           /\ shown[x].code = statstr(states'[x].status)
                           /\ shown[x].stale = states'[x].stale
    BY <2>1, <2>2, ZenonT(40)
  <2>4. \A x \in DOMAIN states' \ {n} : x \in DOMAIN states /\ states'[x] = states[x]
    BY <2>1, Zenon
  <2> HIDE DEF tr, T
  <2> QED BY <1>1, <1>4, <2>1, <2>3, <2>4, ShowsAfter, ZenonT(40)
<1>6. ASSUME Tock
      PROVE  /\ \A x \in DOMAIN states' : Tells(shown', x, states'[x])
             /\ StepShows
  <2>1. out' = tock_out /\ states' = tock_states
    BY <1>6, Zenon DEF Tock
  <2>2. /\ Sends(Expired, states', Turned)
        /\ \A n \in Expired : /\ n \in DOMAIN states
                              /\ states'[n].status = StaleStatus[n]
                              /\ states'[n].stale = TRUE
    BY <1>1, <2>1, TockSends, Zenon
  <2>3. \A n \in DOMAIN states' \ Expired :
            n \in DOMAIN states /\ states'[n] = states[n]
    BY <2>1, Zenon DEF tock_states
  <2>4. ASSUME NEW n \in Expired \ Turned
        PROVE  /\ n \in DOMAIN shown
               /\ shown[n].code = statstr(states'[n].status)
               /\ shown[n].stale = states'[n].stale
    <3>1. states[n].stale /\ states[n].status = StaleStatus[n]
      BY ZenonT(40) DEF Turned
    <3>2. Tells(shown, n, states[n]) /\ states[n].stale \in BOOLEAN
      <4>1. states[n] \in StateRec
        BY <1>1, <2>2, Zenon DEF TypeOK, IsTable
      <4> QED BY <1>4, <2>2, <4>1 DEF StateRec
    <3> QED BY <2>2, <3>1, <3>2, ZenonT(40) DEF Tells
  <2> QED BY <1>1, <1>4, <2>2, <2>3, <2>4, ShowsAfter, ZenonT(40)
<1>7. ASSUME NoStates,
             \A n \in DOMAIN states' :
                /\ n \in DOMAIN states /\ states'[n].status = states[n].status
                /\ states'[n].stale = states[n].stale
      PROVE  /\ \A x \in DOMAIN states' : Tells(shown', x, states'[x])
             /\ StepShows
  <2>1. Sends({}, states', {})
    BY <1>7, Zenon DEF NoStates, Sends
  <2> QED BY <1>1, <1>4, <1>7, <2>1, ShowsAfter, ZenonT(40)
<1>8. ASSUME NEW q \in Patterns, NEW ig \in BOOLEAN, Forget(q, ig), NoStates
      PROVE  /\ \A x \in DOMAIN states' : Tells(shown', x, states'[x])
             /\ StepShows
  <2>1. ASSUME NEW n \in DOMAIN states'
        PROVE  /\ n \in DOMAIN states
               /\ \/ states'[n] = states[n]
                  \/ states'[n] = [states[n] EXCEPT !.ignore = TRUE]
    BY <1>8, Zenon DEF Forget, Forgotten, Drop
  <2>2. \A n \in DOMAIN states : states[n] \in StateRec
    BY <1>1, Zenon DEF TypeOK, IsTable
  <2> QED BY <1>7, <1>8, <2>1, <2>2, IgnoredSame, ZenonT(40)
<1>9. /\ \A x \in DOMAIN states' : Tells(shown', x, states'[x])
      /\ StepShows /\ up'
  <2>1. ASSUME UNCHANGED states, NoStates
        PROVE  /\ \A x \in DOMAIN states' : Tells(shown', x, states'[x])
               /\ StepShows
    BY <1>7, <2>1, Zenon
  <2> QED BY <1>1, <1>2, <1>4, <1>5, <1>6, <1>8, <2>1, StateSteps, ZenonT(40)
             DEF TockDies, Boot
<1> QED BY <1>9, Zenon DEF Shows

\* The kernel tells of a state whatever it knows of it.
LEMMA ShowsKept ==
    ASSUME PENDING \notin Codes, FeedOK, Shows, [FeedNext]_fvars
    PROVE  Shows'
<1>1. CASE KernelStep
  BY <1>1, KernelShows, Zenon DEF Shows
<1>2. CASE ~KernelStep
  <2>1. UNCHANGED <<shown, vars>>
    BY <1>2, Zenon DEF FeedNext, Receive, CacheStep, LogStep, fvars, ghosts
  <2>2. UNCHANGED <<states, stops, up>>
    BY <2>1, Zenon DEF vars, db
  <2> QED BY <2>1, <2>2 DEF Shows
<1> QED BY <1>1, <1>2

\* The last line for a state says what its last STATE said, or a TRANSITION
\* that does is on its way.
LogInv ==
    who = "log" =>
    /\ ~logfd => missed
    /\ stops = 0 /\ ~missed =>
        \A n \in DOMAIN shown \cap Logged :
            \/ \E p : /\ LastOf(feed, "TRANSITION", n, p)
                      /\ p.stale = shown[n].stale /\ p.code = shown[n].code
            \/ /\ NoneOf(feed, "TRANSITION", n) /\ n \in DOMAIN logged
               /\ logged[n] = [stale |-> shown[n].stale, code |-> shown[n].code]

\* A STATE that changes what was told of a state comes with a TRANSITION.
LEMMA LogKernel ==
    ASSUME PENDING \notin Codes, FeedOK, Shows, LogInv, KernelStep
    PROVE  LogInv'
<1>1. PICK b \in Broadcast : feed' = feed \o b
  BY Zenon DEF KernelStep
<1>2. UNCHANGED <<who, logfd, missed, logged>>
  BY Zenon DEF KernelStep, subs, logvars
<1>3. /\ DOMAIN shown' = DOMAIN shown \cup SentNames
      /\ \A n \in SentNames : shown'[n] = PDU(n)
      /\ \A n \in DOMAIN shown \ SentNames : shown'[n] = shown[n]
  BY ShownAfter, Zenon DEF KernelStep
<1>4. StatesSent
  BY StateFeed, Zenon
<1>5. ASSUME stops' = 0, ~missed, who = "log", NEW n \in DOMAIN shown' \cap Logged
      PROVE  \/ \E p : /\ LastOf(feed', "TRANSITION", n, p)
                       /\ p.stale = shown'[n].stale /\ p.code = shown'[n].code
             \/ /\ NoneOf(feed', "TRANSITION", n) /\ n \in DOMAIN logged
                /\ logged[n] = [stale |-> shown'[n].stale,
                                code |-> shown'[n].code]
  <2> DEFINE a == Announced(PDU(n))
  <2>1. n \in SentNames =>
            /\ a.type = "TRANSITION" /\ a.name = n
            /\ a.stale = shown'[n].stale /\ a.code = shown'[n].code
    BY <1>3, <1>4, AnnouncedFields
  <2>2. \A q \in out' : Is(q, "TRANSITION", n) => n \in SentNames /\ q = a
    BY <1>4 DEF StatesSent, Is
  <2> HIDE DEF a
  <2>3. CASE n \in SentNames /\ a \in out'
    <3>1. a.type # "BEACON" /\ Is(a, "TRANSITION", n)
      BY <2>1, <2>3 DEF Is
    <3>2. LastOf(feed', "TRANSITION", n, a)
      BY <1>1, <2>2, <2>3, <3>1, FeedGrows, Zenon DEF FeedOK
    <3> QED BY <2>1, <2>3, <3>2, Zenon
  <2>4. CASE ~(n \in SentNames /\ a \in out')
    <3>1. /\ n \in DOMAIN shown
          /\ shown'[n].stale = shown[n].stale /\ shown'[n].code = shown[n].code
      <4>1. CASE n \in SentNames
        BY <1>3, <1>5, <2>4, <4>1, KernelShows DEF StepShows, a
      <4>2. CASE n \notin SentNames
        BY <1>3, <4>2, Zenon
      <4> QED BY <4>1, <4>2
    <3>2. \A q \in out' : ~Is(q, "TRANSITION", n)
      BY <2>2, <2>4, Zenon
    <3>3. /\ NoneOf(feed, "TRANSITION", n) => NoneOf(feed', "TRANSITION", n)
          /\ \A p : LastOf(feed, "TRANSITION", n, p) =>
                        LastOf(feed', "TRANSITION", n, p)
      BY <1>1, <3>2, FeedGrows, Zenon DEF FeedOK
    <3>4. stops = 0
      BY <1>5, StopsStay, Zenon
    <3>5. \/ \E p : /\ LastOf(feed, "TRANSITION", n, p)
                    /\ p.stale = shown[n].stale /\ p.code = shown[n].code
          \/ /\ NoneOf(feed, "TRANSITION", n) /\ n \in DOMAIN logged
             /\ logged[n] = [stale |-> shown[n].stale, code |-> shown[n].code]
      BY <1>5, <3>1, <3>4, Zenon DEF LogInv
    <3> QED BY <3>1, <3>3, <3>5, Zenon
  <2> QED BY <2>3, <2>4
<1> QED BY <1>2, <1>5, Zenon DEF LogInv

\* A line is written, unless it is missed.
LEMMA LogTakes ==
    ASSUME FeedOK, LogInv, Receive, who = "log"
    PROVE  LogInv'
<1> DEFINE p == Head(feed)
<1>1. /\ feed # <<>> /\ feed' = Tail(feed) /\ UNCHANGED <<who, shown, stops>>
      /\ LogReceive(p)
  BY Zenon DEF Receive, ghosts, vars
<1>2. \A n :
        /\ NoneOf(feed, "TRANSITION", n) =>
            ~Is(p, "TRANSITION", n) /\ NoneOf(feed', "TRANSITION", n)
        /\ \A q : LastOf(feed, "TRANSITION", n, q) =>
            \/ LastOf(feed', "TRANSITION", n, q)
            \/ p = q /\ Is(p, "TRANSITION", n) /\ NoneOf(feed', "TRANSITION", n)
  BY <1>1, FeedShrinks, Zenon DEF FeedOK
<1> HIDE DEF p
<1>3. \A n : Is(p, "TRANSITION", n) <=> p.type = "TRANSITION" /\ p.name = n
  BY DEF Is
<1>4. ~logfd' => missed'
  BY <1>1, Zenon DEF LogReceive, logvars, Reopen, ReopenFails, ReopenAgain,
     LogLine, LogInv
<1>5. ~missed' => /\ ~missed
                  /\ p.type = "TRANSITION" => logged' = Line(p)
                  /\ p.type # "TRANSITION" => logged' = logged
  BY <1>1, Zenon DEF LogReceive, logvars, Reopen, ReopenFails, ReopenAgain,
     LogLine, LogInv
<1>6. ASSUME stops = 0, ~missed', NEW n \in DOMAIN shown \cap Logged
      PROVE  \/ \E q : /\ LastOf(feed', "TRANSITION", n, q)
                       /\ q.stale = shown[n].stale /\ q.code = shown[n].code
             \/ /\ NoneOf(feed', "TRANSITION", n) /\ n \in DOMAIN logged'
                /\ logged'[n] = [stale |-> shown[n].stale, code |-> shown[n].code]
  <2>1. \/ \E q : /\ LastOf(feed, "TRANSITION", n, q)
                  /\ q.stale = shown[n].stale /\ q.code = shown[n].code
        \/ /\ NoneOf(feed, "TRANSITION", n) /\ n \in DOMAIN logged
           /\ logged[n] = [stale |-> shown[n].stale, code |-> shown[n].code]
    BY <1>5, <1>6, Zenon DEF LogInv
  <2>2. ~Is(p, "TRANSITION", n) /\ n \in DOMAIN logged =>
            n \in DOMAIN logged' /\ logged'[n] = logged[n]
    BY <1>3, <1>5, <1>6, Zenon DEF Line, With
  <2>3. Is(p, "TRANSITION", n) =>
            /\ n \in DOMAIN logged'
            /\ logged'[n] = [stale |-> p.stale, code |-> p.code]
    BY <1>3, <1>5, <1>6, Zenon DEF Line, With
  <2>4. CASE \E q : /\ LastOf(feed, "TRANSITION", n, q)
                    /\ q.stale = shown[n].stale /\ q.code = shown[n].code
    <3> PICK q : /\ LastOf(feed, "TRANSITION", n, q)
                 /\ q.stale = shown[n].stale /\ q.code = shown[n].code
      BY <2>4
    <3>1. CASE LastOf(feed', "TRANSITION", n, q)
      BY <3>1, Zenon
    <3>2. CASE p = q /\ Is(p, "TRANSITION", n) /\ NoneOf(feed', "TRANSITION", n)
      BY <2>3, <3>2
    <3> QED BY <1>2, <3>1, <3>2, Zenon
  <2> QED BY <1>2, <2>1, <2>2, <2>4, Zenon
<1> QED BY <1>1, <1>4, <1>6, Zenon DEF LogInv

\* Every change of the status or of the freshness of a state is announced, and
\* no order of the PDUs, of the SIGHUPs and of the failures to open the log
\* again makes the log say something else than the last STATE, as long as the
\* aggregator was not started again.  (The code of PENDING, which means that
\* nothing was submitted, is not submitted.)
THEOREM LogInvariant ==
    ASSUME PENDING \notin Codes
    PROVE  FeedSpec => [](stops = 0 => LogCurrent)
<1>1. FeedInit => Shows /\ LogInv
  <2> SUFFICES ASSUME FeedInit PROVE Shows /\ LogInv
    OBVIOUS
  <2>1. ASSUME NEW n \in DOMAIN states PROVE Tells(shown, n, states[n])
    <3>1. states[n] = NewState(Freshness[n], now)
      BY Zenon DEF FeedInit, Init, configure_states
    <3>2. n \notin DOMAIN shown
      BY DEF FeedInit, Nothing
    <3> QED BY <3>1, <3>2 DEF Tells, NewState
  <2>2. LogInv
    BY Zenon DEF FeedInit, SubsInit, LogInv, Nothing
  <2> QED BY <2>1, <2>2, Zenon DEF FeedInit, Init, Shows
<1>2. FeedOK /\ Shows /\ LogInv /\ [FeedNext]_fvars => Shows' /\ LogInv'
  <2> SUFFICES ASSUME FeedOK, Shows, LogInv, [FeedNext]_fvars
               PROVE  Shows' /\ LogInv'
    OBVIOUS
  <2>1. CASE Receive
    <3>1. who' = who
      BY <2>1, Zenon DEF Receive
    <3>2. CASE who # "log"
      BY <3>1, <3>2, ShowsKept, Zenon DEF LogInv
    <3> QED BY <2>1, <3>2, LogTakes, ShowsKept, Zenon
  <2>2. CASE CacheStep \/ LogStep \/ UNCHANGED fvars
    <3>1. UNCHANGED <<who, feed, shown, stops, logfd, missed, logged>>
      BY <2>2, Zenon DEF CacheStep, LogStep, fvars, vars, ghosts, subs, logvars,
         sighup_handler
    <3> QED BY <3>1, ShowsKept, Zenon DEF LogInv
  <2> QED BY <2>1, <2>2, LogKernel, ShowsKept, Zenon DEF FeedNext
<1>3. FeedOK /\ Shows /\ LogInv => (stops = 0 => LogCurrent)
  <2>1. Arrived => \A n, p : ~LastOf(feed, "TRANSITION", n, p)
    BY DEF Arrived, LastOf
  <2> QED BY <2>1, Zenon DEF LogInv, LogCurrent
<1> QED BY <1>1, <1>2, <1>3, FeedCorrect, PTL DEF FeedSpec

----------------------------------------------------------------------------
(* bolo2sqlite.                                                            *)

\* Every STATE about n in q has the code c.
AllCode(q, n, c) == \A j \in 1..Len(q) : Is(q[j], "STATE", n) => q[j].code = c

\* The last run of STATEs about n in q that have the same code has the code c
\* and begins with the timestamp t; before it is a STATE with another code or,
\* if fresh, no STATE at all.
Begins(q, n, c, t, fresh) ==
    \E i \in 1..Len(q) :
        /\ Is(q[i], "STATE", n) /\ q[i].ts = t
        /\ \A j \in i..Len(q) : Is(q[j], "STATE", n) => q[j].code = c
        /\ \/ fresh /\ \A j \in 1..(i - 1) : ~Is(q[j], "STATE", n)
           \/ \E k \in 1..(i - 1) :
                /\ Is(q[k], "STATE", n) /\ q[k].code # c
                /\ \A j \in (k + 1)..(i - 1) : ~Is(q[j], "STATE", n)

\* The first PDU is taken.
LEMMA BeginsTail ==
    ASSUME NEW S, NEW q \in Seq(S), q # <<>>, NEW n, NEW c, NEW t,
           NEW fresh \in BOOLEAN, Begins(q, n, c, t, fresh)
    PROVE  \/ /\ Is(Head(q), "STATE", n) /\ Head(q).ts = t /\ Head(q).code = c
              /\ fresh /\ AllCode(Tail(q), n, c)
           \/ /\ Is(Head(q), "STATE", n) /\ Head(q).code # c
              /\ Begins(Tail(q), n, c, t, TRUE)
           \/ ~Is(Head(q), "STATE", n) /\ Begins(Tail(q), n, c, t, fresh)
           \/ Begins(Tail(q), n, c, t, FALSE)
<1>1. /\ Len(q) \in Nat \ {0} /\ Len(Tail(q)) = Len(q) - 1 /\ Head(q) = q[1]
      /\ \A i \in 1..Len(Tail(q)) : Tail(q)[i] = q[i + 1]
  OBVIOUS
<1> PICK i \in 1..Len(q) :
        /\ Is(q[i], "STATE", n) /\ q[i].ts = t
        /\ \A j \in i..Len(q) : Is(q[j], "STATE", n) => q[j].code = c
        /\ \/ fresh /\ \A j \in 1..(i - 1) : ~Is(q[j], "STATE", n)
           \/ \E k \in 1..(i - 1) :
                /\ Is(q[k], "STATE", n) /\ q[k].code # c
                /\ \A j \in (k + 1)..(i - 1) : ~Is(q[j], "STATE", n)
  BY Zenon DEF Begins
<1>2. CASE i = 1
  <2>1. fresh /\ Head(q).code = c
    BY <1>1, <1>2
  <2>2. ASSUME NEW j \in 1..Len(Tail(q)), Is(Tail(q)[j], "STATE", n)
        PROVE  Tail(q)[j].code = c
    <3>1. j + 1 \in i..Len(q) /\ Tail(q)[j] = q[j + 1]
      BY <1>1, <1>2
    <3> QED BY <2>2, <3>1
  <2> QED BY <1>1, <1>2, <2>1, <2>2, ZenonT(40) DEF AllCode
<1>3. CASE i # 1
  <2> DEFINE h == i - 1
  <2>1. /\ h \in 1..Len(Tail(q)) /\ Tail(q)[h] = q[i]
        /\ 1 \in 1..(i - 1)
    BY <1>1, <1>3
  <2>2. \A j \in h..Len(Tail(q)) :
            /\ j + 1 \in i..Len(q) /\ Tail(q)[j] = q[j + 1]
    BY <1>1, <1>3
  <2>3. \A j \in h..Len(Tail(q)) :
            Is(Tail(q)[j], "STATE", n) => Tail(q)[j].code = c
    BY <2>2, Zenon
  <2>4. \A j \in 1..(h - 1) : j + 1 \in 2..(i - 1) /\ Tail(q)[j] = q[j + 1]
    BY <1>1
  <2>5. CASE fresh /\ \A j \in 1..(i - 1) : ~Is(q[j], "STATE", n)
    <3>1. ~Is(Head(q), "STATE", n)
      BY <1>1, <2>1, <2>5, ZenonT(40)
    <3>2. \A j \in 1..(h - 1) : ~Is(Tail(q)[j], "STATE", n)
      BY <2>4, <2>5
    <3>3. Begins(Tail(q), n, c, t, fresh)
      BY <2>1, <2>3, <2>5, <3>2, ZenonT(40) DEF Begins
    <3> QED BY <3>1, <3>3, Zenon
  <2>6. CASE \E k \in 1..(i - 1) :
                /\ Is(q[k], "STATE", n) /\ q[k].code # c
                /\ \A j \in (k + 1)..(i - 1) : ~Is(q[j], "STATE", n)
    <3> PICK k \in 1..(i - 1) :
                /\ Is(q[k], "STATE", n) /\ q[k].code # c
                /\ \A j \in (k + 1)..(i - 1) : ~Is(q[j], "STATE", n)
      BY <2>6
    <3>1. CASE k = 1
      <4>1. \A j \in 1..(h - 1) : ~Is(Tail(q)[j], "STATE", n)
        BY <2>4, <3>1
      <4>2. Begins(Tail(q), n, c, t, TRUE)
        BY <2>1, <2>3, <4>1, Zenon DEF Begins
      <4> QED BY <1>1, <3>1, <4>2, ZenonT(40)
    <3>2. CASE k # 1
      <4>1. k - 1 \in 1..(h - 1) /\ Tail(q)[k - 1] = q[k]
        BY <1>1, <3>2
      <4>2. ASSUME NEW j \in ((k - 1) + 1)..(h - 1)
            PROVE  ~Is(Tail(q)[j], "STATE", n)
        <5>1. j + 1 \in (k + 1)..(i - 1) /\ Tail(q)[j] = q[j + 1]
          BY <1>1, <3>2
        <5> QED BY <5>1, Zenon
      <4>3. Begins(Tail(q), n, c, t, FALSE)
        BY <2>1, <2>3, <4>1, <4>2, ZenonT(40) DEF Begins
      <4> QED BY <4>3, Zenon
    <3> QED BY <3>1, <3>2, ZenonT(40)
  <2> QED BY <2>5, <2>6, ZenonT(40)
<1> QED BY <1>2, <1>3, ZenonT(40)

\* PDUs are appended that go on with the run.
LEMMA BeginsLonger ==
    ASSUME NEW S, NEW q \in Seq(S), NEW b \in Seq(S), NEW n, NEW c, NEW t,
           NEW fresh, AllCode(b, n, c)
    PROVE  /\ Begins(q, n, c, t, fresh) => Begins(q \o b, n, c, t, fresh)
           /\ AllCode(q, n, c) => AllCode(q \o b, n, c)
<1>1. /\ Len(q \o b) = Len(q) + Len(b) /\ Len(q) \in Nat /\ Len(b) \in Nat
      /\ \A i \in 1..Len(q) : (q \o b)[i] = q[i]
      /\ \A i \in 1..Len(b) : (q \o b)[Len(q) + i] = b[i]
      /\ \A i \in 1..Len(q \o b) :
                    i \in 1..Len(q) \/ \E j \in 1..Len(b) : i = Len(q) + j
  BY Joined
<1>2. ASSUME NEW i \in 1..Len(q),
             \A j \in i..Len(q) : Is(q[j], "STATE", n) => q[j].code = c
      PROVE  \A j \in i..Len(q \o b) :
                Is((q \o b)[j], "STATE", n) => (q \o b)[j].code = c
  <2> TAKE j \in i..Len(q \o b)
  <2>1. j \in 1..Len(q \o b)
    BY <1>1
  <2>2. CASE j \in 1..Len(q)
    <3>1. j \in i..Len(q) /\ (q \o b)[j] = q[j]
      BY <1>1, <2>2
    <3> QED BY <1>2, <3>1
  <2>3. CASE \E h \in 1..Len(b) : j = Len(q) + h
    BY <1>1, <2>3 DEF AllCode
  <2> QED BY <1>1, <2>1, <2>2, <2>3, ZenonT(40)
<1>3. ASSUME Begins(q, n, c, t, fresh) PROVE Begins(q \o b, n, c, t, fresh)
  <2> PICK i \in 1..Len(q) :
        /\ Is(q[i], "STATE", n) /\ q[i].ts = t
        /\ \A j \in i..Len(q) : Is(q[j], "STATE", n) => q[j].code = c
        /\ \/ fresh /\ \A j \in 1..(i - 1) : ~Is(q[j], "STATE", n)
           \/ \E k \in 1..(i - 1) :
                /\ Is(q[k], "STATE", n) /\ q[k].code # c
                /\ \A j \in (k + 1)..(i - 1) : ~Is(q[j], "STATE", n)
    BY <1>3, Zenon DEF Begins
  <2>1. i \in 1..Len(q \o b) /\ (q \o b)[i] = q[i]
    BY <1>1
  <2>2. \A j \in 1..(i - 1) : (q \o b)[j] = q[j]
    BY <1>1
  <2>3. \A k \in 1..(i - 1) : \A j \in (k + 1)..(i - 1) : j \in 1..(i - 1)
    BY <1>1
  <2> QED BY <1>2, <2>1, <2>2, <2>3, ZenonT(40) DEF Begins
<1>4. ASSUME AllCode(q, n, c) PROVE AllCode(q \o b, n, c)
  BY <1>1, <1>4 DEF AllCode
<1> QED BY <1>3, <1>4, ZenonT(40)

\* PDUs are appended of which p begins a run.
LEMMA BeginsAnew ==
    ASSUME NEW S, NEW q \in Seq(S), NEW b \in Seq(S), NEW n, NEW fresh,
           NEW m \in 1..Len(b), Is(b[m], "STATE", n),
           \A j \in 1..Len(b) : Is(b[j], "STATE", n) => j = m,
           \/ fresh /\ NoneOf(q, "STATE", n)
           \/ \E r : LastOf(q, "STATE", n, r) /\ r.code # b[m].code
    PROVE  Begins(q \o b, n, b[m].code, b[m].ts, fresh)
<1>1. /\ Len(q \o b) = Len(q) + Len(b) /\ Len(q) \in Nat /\ Len(b) \in Nat
      /\ \A i \in 1..Len(q) : (q \o b)[i] = q[i]
      /\ \A i \in 1..Len(b) : (q \o b)[Len(q) + i] = b[i]
      /\ \A i \in 1..Len(q \o b) :
                    i \in 1..Len(q) \/ \E j \in 1..Len(b) : i = Len(q) + j
  BY Joined
<1> DEFINE i == Len(q) + m
<1>2. i \in 1..Len(q \o b) /\ (q \o b)[i] = b[m]
  BY <1>1
<1>3. ASSUME NEW j \in 1..Len(q \o b), j \notin 1..Len(q), Is((q \o b)[j], "STATE", n)
      PROVE  j = i
  BY <1>1, <1>3, ZenonT(40)
<1>4. \A j \in i..Len(q \o b) :
            Is((q \o b)[j], "STATE", n) => (q \o b)[j].code = b[m].code
  <2>1. \A j \in i..Len(q \o b) : j \in 1..Len(q \o b) /\ j \notin 1..Len(q)
    BY <1>1
  <2> QED BY <1>2, <1>3, <2>1, Zenon
<1>5. \A j \in 1..(i - 1) : j \notin 1..Len(q) => ~Is((q \o b)[j], "STATE", n)
  <2>1. \A j \in 1..(i - 1) : j \in 1..Len(q \o b) /\ j # i
    BY <1>1
  <2> QED BY <1>3, <2>1, ZenonT(40)
<1>6. CASE fresh /\ NoneOf(q, "STATE", n)
  <2>1. \A j \in 1..(i - 1) : ~Is((q \o b)[j], "STATE", n)
    BY <1>1, <1>5, <1>6, Zenon DEF NoneOf
  <2> HIDE DEF i
  <2> QED BY <1>2, <1>4, <1>6, <2>1, ZenonT(40) DEF Begins
<1>7. CASE \E r : LastOf(q, "STATE", n, r) /\ r.code # b[m].code
  <2> PICK r : LastOf(q, "STATE", n, r) /\ r.code # b[m].code
    BY <1>7
  <2> PICK k \in 1..Len(q) : /\ q[k] = r /\ Is(r, "STATE", n)
                             /\ \A j \in (k + 1)..Len(q) : ~Is(q[j], "STATE", n)
    BY ZenonT(40) DEF LastOf
  <2>1. k \in 1..(i - 1) /\ (q \o b)[k] = r
    BY <1>1
  <2>2. ASSUME NEW j \in (k + 1)..(i - 1) PROVE ~Is((q \o b)[j], "STATE", n)
    <3>1. j \in 1..(i - 1) /\ (j \in 1..Len(q) => j \in (k + 1)..Len(q))
      BY <1>1
    <3> QED BY <1>1, <1>5, <3>1, ZenonT(40)
  <2> HIDE DEF i
  <2> QED BY <1>2, <1>4, <2>1, <2>2, ZenonT(40) DEF Begins
<1> QED BY <1>6, <1>7

\* What the row of n lacks for the code c.
RowFresh(tbl, n, c) == n \notin DOMAIN tbl \/ tbl[n].status # c

\* The row of n has the code c since t.
RowHas(tbl, n, c, t) ==
    n \in DOMAIN tbl /\ tbl[n].status = c /\ tbl[n].first_seen = t

\* Every row is as it should be, or becomes so with what is on its way.
RowsInv ==
    who = "sqlite" =>
    /\ DOMAIN since = DOMAIN shown
    /\ DOMAIN rows \subseteq DOMAIN shown
    /\ \A n \in DOMAIN shown :
        \/ Begins(feed, n, shown[n].code, since[n],
                  RowFresh(rows, n, shown[n].code))
        \/ /\ RowHas(rows, n, shown[n].code, since[n])
           /\ AllCode(feed, n, shown[n].code)

\* A handler sends at most one STATE for a name: it goes on with the run of
\* STATEs with the same code, or begins a new one.
LEMMA RowsKernel ==
    ASSUME FeedOK, RowsInv, KernelStep, who = "sqlite"
    PROVE  RowsInv'
<1>1. PICK b \in Broadcast : feed' = feed \o b
  BY Zenon DEF KernelStep
<1>2. UNCHANGED <<who, rows>>
  BY Zenon DEF KernelStep, subs, sqlitevars
<1>3. /\ DOMAIN shown' = DOMAIN shown \cup SentNames
      /\ \A n \in SentNames : shown'[n] = PDU(n)
      /\ \A n \in DOMAIN shown \ SentNames : shown'[n] = shown[n]
  BY ShownAfter, Zenon DEF KernelStep
<1>4. /\ DOMAIN since' = DOMAIN since \cup SentNames
      /\ \A n \in SentNames : since'[n] = SinceAfter(PDU(n))
      /\ \A n \in DOMAIN since \ SentNames : since'[n] = since[n]
  BY Zenon DEF KernelStep, Observe
<1>5. StatesSent
  BY StateFeed, Zenon
<1> DEFINE S == Range(feed) \cup out'
<1>6. /\ b \in Seq(out') /\ \A i \in 1..Len(b) : b[i] \in out'
      /\ \A p \in out' : p.type # "BEACON" => \E i \in 1..Len(b) : b[i] = p
      /\ \A i, j \in 1..Len(b) : b[i] = b[j] => i = j
  BY BroadcastIs, ZenonT(40)
<1>7. feed \in Seq(S) /\ b \in Seq(S)
  BY <1>6 DEF FeedOK
<1> HIDE DEF S
<1>8. ASSUME NEW n \in DOMAIN shown', n \notin SentNames
      PROVE  \/ Begins(feed', n, shown'[n].code, since'[n],
                       RowFresh(rows, n, shown'[n].code))
             \/ /\ RowHas(rows, n, shown'[n].code, since'[n])
                /\ AllCode(feed', n, shown'[n].code)
  <2>1. /\ n \in DOMAIN shown /\ shown'[n] = shown[n] /\ since'[n] = since[n]
    BY <1>3, <1>4, <1>8, ZenonT(40) DEF RowsInv
  <2>2. \A j \in 1..Len(b) : ~Is(b[j], "STATE", n)
    BY <1>5, <1>6, <1>8 DEF StatesSent, Is
  <2>3. AllCode(b, n, shown[n].code)
    BY <2>2, Zenon DEF AllCode
  <2> DEFINE c == shown[n].code
             t == since[n]
             fresh == RowFresh(rows, n, c)
  <2>4. /\ Begins(feed, n, c, t, fresh) => Begins(feed', n, c, t, fresh)
        /\ AllCode(feed, n, c) => AllCode(feed', n, c)
    BY <1>1, <1>7, <2>3, BeginsLonger, ZenonT(40)
  <2> QED BY <2>1, <2>4, ZenonT(40) DEF RowsInv
<1>9. ASSUME NEW n \in SentNames
      PROVE  \/ Begins(feed', n, shown'[n].code, since'[n],
                       RowFresh(rows, n, shown'[n].code))
             \/ /\ RowHas(rows, n, shown'[n].code, since'[n])
                /\ AllCode(feed', n, shown'[n].code)
  <2> DEFINE p == PDU(n)
             c == p.code
  <2>1. /\ p \in out' /\ Is(p, "STATE", n) /\ p.type # "BEACON" /\ p.name = n
        /\ \A q \in out' : Is(q, "STATE", n) => q = p
    BY <1>5, <1>9 DEF StatesSent, Is
  <2>2. PICK m \in 1..Len(b) : b[m] = p
    BY <1>6, <2>1, Zenon
  <2>3. \A j \in 1..Len(b) : Is(b[j], "STATE", n) => j = m
    BY <1>6, <2>1, <2>2, ZenonT(40)
  <2>4. shown'[n] = p
    BY <1>3, <1>9, ZenonT(40)
  <2>5. since'[n] = IF n \in DOMAIN shown /\ shown[n].code = c
                    THEN since[n] ELSE p.ts
    BY <1>4, <1>9, <2>1 DEF SinceAfter
  <2> HIDE DEF p
  <2>6. CASE n \in DOMAIN shown /\ shown[n].code = c
    <3>1. AllCode(b, n, c)
      BY <2>2, <2>3, Zenon DEF AllCode
    <3>2. since'[n] = since[n]
      BY <2>5, <2>6, Zenon
    <3> DEFINE t == since[n]
               fresh == RowFresh(rows, n, c)
    <3>3. /\ Begins(feed, n, c, t, fresh) => Begins(feed', n, c, t, fresh)
          /\ AllCode(feed, n, c) => AllCode(feed', n, c)
      BY <1>1, <1>7, <3>1, BeginsLonger, ZenonT(40)
    <3>4. \/ Begins(feed, n, c, t, fresh)
          \/ RowHas(rows, n, c, t) /\ AllCode(feed, n, c)
      BY <2>6 DEF RowsInv
    <3> QED BY <2>4, <3>2, <3>3, <3>4, ZenonT(40)
  <2>7. CASE ~(n \in DOMAIN shown /\ shown[n].code = c)
    <3>1. since'[n] = p.ts
      BY <2>5, <2>7, ZenonT(40)
    <3>2. \/ RowFresh(rows, n, c) /\ NoneOf(feed, "STATE", n)
          \/ \E r : LastOf(feed, "STATE", n, r) /\ r.code # c
      <4>1. CASE n \notin DOMAIN shown
        <5>1. RowFresh(rows, n, c)
          BY <4>1, ZenonT(40) DEF RowsInv, RowFresh
        <5>2. NoneOf(feed, "STATE", n)
          BY <4>1 DEF FeedOK, Proper, NoneOf, Is
        <5> QED BY <5>1, <5>2
      <4>2. CASE n \in DOMAIN shown /\ LastOf(feed, "STATE", n, shown[n])
        BY <2>7, <4>2, Zenon
      <4>3. CASE n \in DOMAIN shown /\ NoneOf(feed, "STATE", n)
        <5>1. ~Begins(feed, n, shown[n].code, since[n],
                      RowFresh(rows, n, shown[n].code))
          BY <4>3, Zenon DEF Begins, NoneOf
        <5>2. RowHas(rows, n, shown[n].code, since[n])
          BY <4>3, <5>1, ZenonT(40) DEF RowsInv
        <5> QED BY <2>7, <4>3, <5>2, Zenon DEF RowHas, RowFresh
      <4> QED BY <4>1, <4>2, <4>3, ZenonT(40) DEF FeedOK
    <3>3. Is(b[m], "STATE", n) /\ b[m].code = c /\ b[m].ts = p.ts
      BY <2>1, <2>2
    <3> DEFINE fresh == RowFresh(rows, n, c)
    <3>4. Begins(feed \o b, n, b[m].code, b[m].ts, fresh)
      <4> HIDE DEF fresh, c
      <4>1. \/ fresh /\ NoneOf(feed, "STATE", n)
            \/ \E r : LastOf(feed, "STATE", n, r) /\ r.code # b[m].code
        BY <3>2, <3>3, ZenonT(40) DEF fresh
      <4> QED BY <1>7, <2>3, <3>3, <4>1, BeginsAnew, ZenonT(40)
    <3> QED BY <1>1, <2>4, <3>1, <3>3, <3>4
  <2> QED BY <2>6, <2>7, ZenonT(40)
<1> QED BY <1>2, <1>3, <1>4, <1>8, <1>9, ZenonT(40) DEF RowsInv

\* A row is changed by a STATE with another code only: what the CHECK refuses
\* would have changed neither the code nor the time since when it has it.
LEMMA RowAfter ==
    ASSUME NEW p, p.ts \in Nat, rows' = s_insert_state(p)
    PROVE  /\ DOMAIN rows' = DOMAIN rows \cup {p.name}
           /\ rows'[p.name].status = p.code
           /\ RowFresh(rows, p.name, p.code) => rows'[p.name].first_seen = p.ts
           /\ ~RowFresh(rows, p.name, p.code) =>
                rows'[p.name].first_seen = rows[p.name].first_seen
           /\ \A n \in DOMAIN rows \ {p.name} : rows'[n] = rows[n]
<1> DEFINE first == IF p.name \in DOMAIN rows THEN FirstSeen(rows[p.name], p)
                                              ELSE p.ts
           row == [status |-> p.code, first_seen |-> first, last_seen |-> p.ts]
<1>1. row.status = p.code /\ row.first_seen = first
  BY ZenonT(40)
<1>2. rows' = IF first <= p.ts THEN With(rows, p.name, row) ELSE rows
  BY Zenon DEF s_insert_state
<1>3. CASE RowFresh(rows, p.name, p.code)
  <2>1. first = p.ts
    BY <1>3, Zenon DEF RowFresh, FirstSeen
  <2>2. p.ts <= p.ts
    OBVIOUS
  <2> HIDE DEF row, first
  <2>3. rows' = With(rows, p.name, row)
    BY <1>2, <2>1, <2>2, Zenon
  <2>4. /\ DOMAIN rows' = DOMAIN rows \cup {p.name} /\ rows'[p.name] = row
        /\ \A n \in DOMAIN rows \ {p.name} : rows'[n] = rows[n]
    BY <2>3, Zenon DEF With
  <2> QED BY <1>1, <1>3, <2>1, <2>4, ZenonT(40)
<1>4. CASE ~RowFresh(rows, p.name, p.code)
  <2>1. /\ p.name \in DOMAIN rows /\ rows[p.name].status = p.code
        /\ first = rows[p.name].first_seen
    BY <1>4, Zenon DEF RowFresh, FirstSeen
  <2> HIDE DEF row, first
  <2>2. CASE rows' = rows
    BY <1>4, <2>1, <2>2, Zenon
  <2>3. CASE rows' = With(rows, p.name, row)
    <3>1. /\ DOMAIN rows' = DOMAIN rows \cup {p.name} /\ rows'[p.name] = row
          /\ \A n \in DOMAIN rows \ {p.name} : rows'[n] = rows[n]
      BY <2>3, Zenon DEF With
    <3> QED BY <1>1, <1>4, <2>1, <3>1, ZenonT(40)
  <2> QED BY <1>2, <2>2, <2>3, Zenon
<1> QED BY <1>3, <1>4

\* The row follows the STATE that is taken from the feed.
LEMMA RowsTakes ==
    ASSUME FeedOK, RowsInv, Receive, who = "sqlite"
    PROVE  RowsInv'
<1> DEFINE p == Head(feed)
<1>1. /\ feed # <<>> /\ feed' = Tail(feed) /\ UNCHANGED <<who, shown, since>>
      /\ SqliteReceive(p)
  BY Zenon DEF Receive, ghosts
<1>2. Proper(p, DOMAIN shown)
  BY <1>1, FeedShrinks, ZenonT(40) DEF FeedOK
<1>3. \A n : Is(p, "STATE", n) <=> p.type = "STATE" /\ p.name = n
  BY DEF Is
<1>4. feed \in Seq(Range(feed))
  BY Zenon DEF FeedOK
<1>5. \A n, c : AllCode(feed, n, c) =>
            (Is(p, "STATE", n) => p.code = c) /\ AllCode(feed', n, c)
  <2> SUFFICES ASSUME NEW n, NEW c, AllCode(feed, n, c)
               PROVE  (Is(p, "STATE", n) => p.code = c) /\ AllCode(feed', n, c)
    BY Zenon
  <2>1. /\ 1 \in 1..Len(feed) /\ p = feed[1]
        /\ \A i \in 1..Len(feed') : \E j \in 1..Len(feed) : feed'[i] = feed[j]
    BY <1>1, <1>4, FeedShrinks, ZenonT(40)
  <2> QED BY <2>1 DEF AllCode
<1> HIDE DEF p
<1>6. /\ p.type = "STATE" =>
            /\ p.name \in DOMAIN shown
            /\ DOMAIN rows' = DOMAIN rows \cup {p.name}
            /\ rows'[p.name].status = p.code
            /\ RowFresh(rows, p.name, p.code) => rows'[p.name].first_seen = p.ts
            /\ ~RowFresh(rows, p.name, p.code) =>
                 rows'[p.name].first_seen = rows[p.name].first_seen
            /\ \A n \in DOMAIN rows \ {p.name} : rows'[n] = rows[n]
      /\ p.type # "STATE" => rows' = rows
  <2>1. CASE p.type = "STATE"
    <3>1. p.ts \in Nat /\ p.name \in DOMAIN shown /\ rows' = s_insert_state(p)
      BY <1>1, <1>2, <2>1, ZenonT(40) DEF SqliteReceive, Proper
    <3> QED BY <2>1, <3>1, RowAfter, Zenon
  <2>2. CASE p.type # "STATE"
    BY <1>1, <2>2, Zenon DEF SqliteReceive
  <2> QED BY <2>1, <2>2
<1>7. DOMAIN rows' \subseteq DOMAIN shown
  BY <1>6, Zenon DEF RowsInv
<1>8. ASSUME NEW n \in DOMAIN shown
      PROVE  \/ Begins(feed', n, shown[n].code, since[n],
                       RowFresh(rows', n, shown[n].code))
             \/ /\ RowHas(rows', n, shown[n].code, since[n])
                /\ AllCode(feed', n, shown[n].code)
  <2> DEFINE c == shown[n].code
             t == since[n]
  <2>1. ASSUME ~Is(p, "STATE", n)
        PROVE  /\ RowFresh(rows', n, c) <=> RowFresh(rows, n, c)
               /\ RowHas(rows', n, c, t) <=> RowHas(rows, n, c, t)
    <3>1. /\ n \in DOMAIN rows' <=> n \in DOMAIN rows
          /\ n \in DOMAIN rows => rows'[n] = rows[n]
      BY <1>3, <1>6, <2>1, ZenonT(40)
    <3> QED BY <3>1, Zenon DEF RowFresh, RowHas
  <2>2. ASSUME Is(p, "STATE", n)
        PROVE  /\ p.name = n /\ n \in DOMAIN rows' /\ rows'[n].status = p.code
               /\ RowFresh(rows, n, p.code) => rows'[n].first_seen = p.ts
               /\ ~RowFresh(rows, n, p.code) =>
                    rows'[n].first_seen = rows[n].first_seen
    <3>1. p.type = "STATE" /\ p.name = n
      BY <1>3, <2>2, Zenon
    <3> QED BY <1>6, <3>1
  <2> HIDE DEF c, t
  <2>3. CASE Begins(feed, n, c, t, RowFresh(rows, n, c))
    <3> DEFINE fresh == RowFresh(rows, n, c)
    <3>1. fresh \in BOOLEAN
      BY DEF RowFresh
    <3>2. \/ /\ Is(p, "STATE", n) /\ p.ts = t /\ p.code = c
             /\ fresh /\ AllCode(feed', n, c)
          \/ /\ Is(p, "STATE", n) /\ p.code # c
             /\ Begins(feed', n, c, t, TRUE)
          \/ ~Is(p, "STATE", n) /\ Begins(feed', n, c, t, fresh)
          \/ Begins(feed', n, c, t, FALSE)
      BY <1>1, <1>4, <2>3, <3>1, BeginsTail, ZenonT(40) DEF p
    <3>3. CASE /\ Is(p, "STATE", n) /\ p.ts = t /\ p.code = c
               /\ fresh /\ AllCode(feed', n, c)
      <4>1. RowHas(rows', n, c, t)
        BY <2>2, <3>3 DEF RowHas
      <4> QED BY <3>3, <4>1, ZenonT(40) DEF c, t
    <3>4. CASE /\ Is(p, "STATE", n) /\ p.code # c
               /\ Begins(feed', n, c, t, TRUE)
      <4>1. RowFresh(rows', n, c)
        BY <2>2, <3>4, Zenon DEF RowFresh
      <4>2. Begins(feed', n, c, t, RowFresh(rows', n, c))
        BY <3>4, <4>1, Zenon DEF Begins
      <4> QED BY <4>2, Zenon DEF c, t
    <3>5. CASE ~Is(p, "STATE", n) /\ Begins(feed', n, c, t, fresh)
      <4>1. Begins(feed', n, c, t, RowFresh(rows', n, c))
        BY <2>1, <3>5, Zenon DEF Begins
      <4> QED BY <4>1, Zenon DEF c, t
    <3>6. CASE Begins(feed', n, c, t, FALSE)
      <4>1. Begins(feed', n, c, t, RowFresh(rows', n, c))
        BY <3>6, Zenon DEF Begins
      <4> QED BY <4>1, Zenon DEF c, t
    <3> QED BY <3>2, <3>3, <3>4, <3>5, <3>6, ZenonT(40)
  <2>4. CASE RowHas(rows, n, c, t) /\ AllCode(feed, n, c)
    <3>1. AllCode(feed', n, c) /\ (Is(p, "STATE", n) => p.code = c)
      BY <1>5, <2>4, ZenonT(40)
    <3>2. RowHas(rows', n, c, t)
      <4>1. CASE Is(p, "STATE", n)
        <5>1. p.code = c /\ ~RowFresh(rows, n, c)
          BY <2>4, <3>1, <4>1, ZenonT(40) DEF RowHas, RowFresh
        <5> QED BY <2>2, <2>4, <4>1, <5>1 DEF RowHas
      <4>2. CASE ~Is(p, "STATE", n)
        BY <2>1, <2>4, <4>2, Zenon
      <4> QED BY <4>1, <4>2
    <3> QED BY <3>1, <3>2, Zenon DEF c, t
  <2> QED BY <2>3, <2>4, Zenon DEF RowsInv, c, t
<1> QED BY <1>1, <1>7, <1>8, Zenon DEF RowsInv

\* Once bolo2sqlite has caught up, every row has the code of the last STATE
\* and the time of the first of the STATEs in a row that had it, whatever
\* arrives late and is refused by the CHECK.
THEOREM RowsInvariant == FeedSpec => []RowsCurrent
<1>1. FeedInit => RowsInv
  BY Zenon DEF FeedInit, SubsInit, RowsInv, Nothing
<1>2. FeedOK /\ RowsInv /\ [FeedNext]_fvars => RowsInv'
  <2> SUFFICES ASSUME FeedOK, RowsInv, [FeedNext]_fvars PROVE RowsInv'
    OBVIOUS
  <2>1. CASE who # "sqlite"
    <3>1. who' = who
      BY Zenon DEF FeedNext, KernelStep, Receive, CacheStep, LogStep, fvars
    <3> QED BY <2>1, <3>1, Zenon DEF RowsInv
  <2>2. CASE CacheStep \/ LogStep \/ UNCHANGED fvars
    <3>1. UNCHANGED <<who, feed, shown, since, rows>>
      BY <2>2, Zenon DEF CacheStep, LogStep, fvars, ghosts, subs, sqlitevars
    <3> QED BY <3>1, Zenon DEF RowsInv
  <2> QED BY <2>1, <2>2, RowsKernel, RowsTakes, ZenonT(40) DEF FeedNext
<1>3. FeedOK /\ RowsInv => RowsCurrent
  <2>1. Arrived => \A n, c, t, fresh : ~Begins(feed, n, c, t, fresh)
    <3>1. Arrived => 1..Len(feed) = {}
      BY DEF Arrived
    <3> QED BY <3>1, Zenon DEF Begins
  <2> QED BY <2>1, Zenon DEF RowsInv, RowsCurrent, RowHas
<1> QED BY <1>1, <1>2, <1>3, FeedCorrect, PTL DEF FeedSpec

----------------------------------------------------------------------------
(* bolo2meta.                                                              *)

Finite == INSTANCE FiniteSetTheorems

\* A key and a value are two frames.
LEMMA SizeOdd ==
    ASSUME NEW S, IsFiniteSet(S), S # {}
    PROVE  (1 + 2 * Cardinality(S)) % 2 = 1 /\ 1 + 2 * Cardinality(S) >= 3
<1>1. Cardinality(S) \in Nat /\ Cardinality(S) # 0
  BY Finite!FS_CardinalityType, Finite!FS_EmptySet, ZenonT(40)
     DEF IsFiniteSet, Finite!IsFiniteSet, Cardinality, Finite!Cardinality
<1> QED BY <1>1

\* What the broadcast_* functions make has the frames that bolo2meta expects,
\* if there is a pair in every SET.KEYS.
LEMMA Formed ==
    ASSUME NEW p, p.type = "SET.KEYS" => \E S : /\ IsFiniteSet(S) /\ S # {}
                                               /\ DOMAIN p.pairs = S
    PROVE  WellFormed(p)
<1>1. CASE p.type = "SET.KEYS"
  <2>1. pdu_size(p) = 1 + 2 * Cardinality(DOMAIN p.pairs)
    BY <1>1 DEF pdu_size
  <2>2. pdu_size(p) % 2 = 1 /\ pdu_size(p) >= 3
    BY <1>1, <2>1, SizeOdd
  <2> QED BY <1>1, <2>2 DEF WellFormed
<1>2. CASE p.type # "SET.KEYS"
  BY <1>2 DEF WellFormed, pdu_size
<1> QED BY <1>1, <1>2

\* All that is on its way does, and nothing else was counted.
MetaInv == /\ \A i \in 1..Len(feed) : WellFormed(feed[i])
           /\ NoBogons

\* bolo2meta never counts a PDU of the aggregator as a bogon: whatever it
\* broadcasts has the number of frames that bolo2meta expects of its type, and
\* a SET.KEYS is never sent without a pair.
THEOREM NoBogonsInvariant ==
    ASSUME IsFiniteSet(Keys)
    PROVE  FeedSpec => []NoBogons
<1>1. FeedInit => MetaInv
  <2> SUFFICES ASSUME FeedInit PROVE MetaInv
    OBVIOUS
  <2>1. Len(feed) = 0 /\ counted = {}
    BY DEF FeedInit, SubsInit
  <2> QED BY <2>1 DEF MetaInv, NoBogons
<1>2. FeedOK /\ MetaInv /\ [FeedNext]_fvars => MetaInv'
  <2> SUFFICES ASSUME FeedOK, MetaInv, [FeedNext]_fvars PROVE MetaInv'
    OBVIOUS
  <2>1. CASE KernelStep
    <3>1. ASSUME NEW p \in out' PROVE WellFormed(p)
      <4>1. ASSUME p.type = "SET.KEYS"
            PROVE  \E S : /\ IsFiniteSet(S) /\ S # {} /\ DOMAIN p.pairs = S
        <5>1. p \in broadcast_setkeys(keys)
          BY <2>1, <4>1, KeysSent, ZenonT(40) DEF KernelStep, FeedOK
        <5>2. /\ LiveKeys(keys) # {}
              /\ p = [type |-> "SET.KEYS",
                      pairs |-> [k \in LiveKeys(keys) |-> keys[k]]]
          BY <5>1, ZenonT(40) DEF broadcast_setkeys
        <5>3. DOMAIN p.pairs = LiveKeys(keys)
          BY <5>2
        <5>4. LiveKeys(keys) \in SUBSET Keys
          BY Zenon DEF FeedOK, TypeOK, IsTable, LiveKeys
        <5>5. IsFiniteSet(LiveKeys(keys))
          BY <5>4, Finite!FS_Subset, ZenonT(40)
             DEF IsFiniteSet, Finite!IsFiniteSet
        <5> QED BY <5>2, <5>3, <5>5, ZenonT(40)
      <4> QED BY <4>1, Formed, ZenonT(40)
    <3>2. \A i \in 1..Len(feed') : \/ \E j \in 1..Len(feed) : feed'[i] = feed[j]
                                   \/ feed'[i] \in out'
      BY <2>1, StateFeed, ZenonT(40)
    <3>3. counted' = counted
      BY <2>1, ZenonT(40) DEF KernelStep, subs
    <3> QED BY <3>1, <3>2, <3>3, ZenonT(40) DEF MetaInv, NoBogons
  <2>2. CASE Receive
    <3>1. feed # <<>> /\ feed' = Tail(feed)
      BY <2>2, Zenon DEF Receive
    <3>2. /\ \A i \in 1..Len(feed') : \E j \in 1..Len(feed) : feed'[i] = feed[j]
          /\ 1 \in 1..Len(feed) /\ Head(feed) = feed[1]
      BY <3>1, FeedShrinks, ZenonT(40) DEF FeedOK
    <3>3. WellFormed(Head(feed))
      BY <3>2, ZenonT(40) DEF MetaInv
    <3>4. \/ counted' = counted
          \/ counted' = counted \cup {[bogon |-> ~WellFormed(Head(feed)),
                                       type |-> Head(feed).type]}
      BY <2>2, ZenonT(40) DEF Receive, MetaReceive
    <3>5. [bogon |-> ~WellFormed(Head(feed)), type |-> Head(feed).type].bogon = FALSE
      BY <3>3, ZenonT(40)
    <3>6. NoBogons'
      BY <3>4, <3>5, ZenonT(40) DEF NoBogons, MetaInv
    <3> QED BY <3>2, <3>6, ZenonT(40) DEF MetaInv
  <2>3. CASE CacheStep \/ LogStep \/ UNCHANGED fvars
    <3>1. UNCHANGED <<feed, counted>>
      BY <2>3, ZenonT(40) DEF CacheStep, LogStep, fvars, subs
    <3> QED BY <3>1, ZenonT(40) DEF MetaInv, NoBogons
  <2> QED BY <2>1, <2>2, <2>3, ZenonT(40) DEF FeedNext
<1>3. MetaInv => NoBogons
  BY Zenon DEF MetaInv
<1> QED BY <1>1, <1>2, <1>3, FeedCorrect, PTL DEF FeedSpec

=============================================================================
