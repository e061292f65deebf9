----------------------------- MODULE FeedProofs -----------------------------
(***************************************************************************)
(* What bolo cache and bolo2redis know is what the aggregator last         *)
(* broadcast.  The argument is the same for each: of every state, or of    *)
(* the keys, the last PDU that matters is on its way or has been handled.  *)
(* It holds for every order in which the hashes are walked, as a handler   *)
(* sends no two PDUs of the same type about the same name.                 *)
(***************************************************************************)
EXTENDS Feed, KernelProofs

----------------------------------------------------------------------------
(* Queues of PDUs.                                                         *)

\* p is a PDU of type t about n.  (A SET.KEYS has no name.)
Is(p, t, n) == p.type = t /\ (t # "SET.KEYS" => p.name = n)

\* The last PDU of type t about n in q is p; and there is none.
LastOf(q, t, n, p) ==
    \E i \in 1..Len(q) : /\ q[i] = p /\ Is(p, t, n)
                         /\ \A j \in (i + 1)..Len(q) : ~Is(q[j], t, n)

NoneOf(q, t, n) == \A i \in 1..Len(q) : ~Is(q[i], t, n)

\* A sequence is one of its own elements.
LEMMA OwnElements ==
    ASSUME NEW S, NEW q \in Seq(S)
    PROVE  q \in Seq(Range(q))
<1>1. q = [i \in 1..Len(q) |-> q[i]] /\ Len(q) \in Nat
  OBVIOUS
<1>2. \A i \in 1..Len(q) : q[i] \in Range(q)
  BY DEF Range
<1> QED BY <1>1, <1>2

\* The elements of a concatenation.
LEMMA Joined ==
    ASSUME NEW S, NEW q \in Seq(S), NEW b \in Seq(S)
    PROVE  /\ q \o b \in Seq(S) /\ Len(q \o b) = Len(q) + Len(b)
           /\ Len(q) \in Nat /\ Len(b) \in Nat
           /\ \A i \in 1..Len(q) : (q \o b)[i] = q[i]
           /\ \A i \in 1..Len(b) : (q \o b)[Len(q) + i] = b[i]
           /\ \A i \in 1..Len(q \o b) :
                    i \in 1..Len(q) \/ \E j \in 1..Len(b) : i = Len(q) + j
<1>1. Len(q) \in Nat /\ Len(b) \in Nat
  OBVIOUS
<1>2. q \o b \in Seq(S) /\ Len(q \o b) = Len(q) + Len(b)
  OBVIOUS
<1>3. \A i \in 1..Len(q) : (q \o b)[i] = q[i]
  OBVIOUS
<1>4. \A i \in 1..Len(b) : (q \o b)[Len(q) + i] = b[i]
  OBVIOUS
<1>5. ASSUME NEW i \in 1..Len(q \o b)
      PROVE  i \in 1..Len(q) \/ \E j \in 1..Len(b) : i = Len(q) + j
  <2>1. CASE i <= Len(q)
    BY <1>1, <1>2, <2>1
  <2>2. CASE ~(i <= Len(q))
    <3>1. i - Len(q) \in 1..Len(b) /\ i = Len(q) + (i - Len(q))
      BY <1>1, <1>2, <2>2
    <3> QED BY <3>1, Zenon
  <2> QED BY <2>1, <2>2
<1> QED BY <1>1, <1>2, <1>3, <1>4, <1>5, Zenon

\* What is appended comes last.
LEMMA Appended ==
    ASSUME NEW S, NEW q \in Seq(S), NEW b \in Seq(S), NEW t, NEW n, NEW p
    PROVE  /\ LastOf(b, t, n, p) => LastOf(q \o b, t, n, p)
           /\ NoneOf(b, t, n) /\ LastOf(q, t, n, p) => LastOf(q \o b, t, n, p)
           /\ NoneOf(b, t, n) /\ NoneOf(q, t, n) => NoneOf(q \o b, t, n)
<1>1. /\ Len(q \o b) = Len(q) + Len(b) /\ Len(q) \in Nat /\ Len(b) \in Nat
      /\ \A i \in 1..Len(q) : (q \o b)[i] = q[i]
      /\ \A i \in 1..Len(b) : (q \o b)[Len(q) + i] = b[i]
      /\ \A i \in 1..Len(q \o b) :
                    i \in 1..Len(q) \/ \E j \in 1..Len(b) : i = Len(q) + j
  BY Joined
<1>2. ASSUME LastOf(b, t, n, p) PROVE LastOf(q \o b, t, n, p)
  <2> PICK i \in 1..Len(b) : /\ b[i] = p /\ Is(p, t, n)
                             /\ \A j \in (i + 1)..Len(b) : ~Is(b[j], t, n)
    BY <1>2 DEF LastOf
  <2>1. Len(q) + i \in 1..Len(q \o b) /\ (q \o b)[Len(q) + i] = p
    BY <1>1
  <2>2. ASSUME NEW k \in (Len(q) + i + 1)..Len(q \o b)
        PROVE  ~Is((q \o b)[k], t, n)
    <3>1. k - Len(q) \in (i + 1)..Len(b) /\ k - Len(q) \in 1..Len(b)
          /\ k = Len(q) + (k - Len(q))
      BY <1>1
    <3> QED BY <1>1, <3>1
  <2> QED BY <2>1, <2>2, Zenon DEF LastOf
<1>3. ASSUME NoneOf(b, t, n), LastOf(q, t, n, p) PROVE LastOf(q \o b, t, n, p)
  <2> PICK i \in 1..Len(q) : /\ q[i] = p /\ Is(p, t, n)
                             /\ \A j \in (i + 1)..Len(q) : ~Is(q[j], t, n)
    BY <1>3 DEF LastOf
  <2>1. i \in 1..Len(q \o b) /\ (q \o b)[i] = p
    BY <1>1
  <2>2. ASSUME NEW k \in (i + 1)..Len(q \o b)
        PROVE  ~Is((q \o b)[k], t, n)
    <3>1. k \in 1..Len(q \o b)
      BY <1>1
    <3>2. CASE k \in 1..Len(q)
      BY <1>1, <3>2
    <3>3. CASE \E j \in 1..Len(b) : k = Len(q) + j
      BY <1>1, <1>3, <3>3 DEF NoneOf
    <3> QED BY <1>1, <3>1, <3>2, <3>3
  <2> QED BY <2>1, <2>2 DEF LastOf
<1>4. ASSUME NoneOf(b, t, n), NoneOf(q, t, n) PROVE NoneOf(q \o b, t, n)
  BY <1>1, <1>4 DEF NoneOf
<1> QED BY <1>2, <1>3, <1>4, Zenon

\* The first is taken: it was the last one of its type about n, or that is
\* still to come.
LEMMA Taken ==
    ASSUME NEW S, NEW q \in Seq(S), q # <<>>, NEW t, NEW n, NEW p
    PROVE  /\ LastOf(q, t, n, p) =>
                    \/ LastOf(Tail(q), t, n, p)
                    \/ Head(q) = p /\ Is(p, t, n) /\ NoneOf(Tail(q), t, n)
           /\ NoneOf(q, t, n) => ~Is(Head(q), t, n) /\ NoneOf(Tail(q), t, n)
<1>1. /\ Len(q) \in Nat \ {0} /\ Len(Tail(q)) = Len(q) - 1 /\ Head(q) = q[1]
      /\ \A i \in 1..Len(Tail(q)) : Tail(q)[i] = q[i + 1]
  OBVIOUS
<1>2. ASSUME LastOf(q, t, n, p)
      PROVE  \/ LastOf(Tail(q), t, n, p)
             \/ Head(q) = p /\ Is(p, t, n) /\ NoneOf(Tail(q), t, n)
  <2> PICK i \in 1..Len(q) : /\ q[i] = p /\ Is(p, t, n)
                             /\ \A j \in (i + 1)..Len(q) : ~Is(q[j], t, n)
    BY <1>2 DEF LastOf
  <2>1. \A k \in i..Len(Tail(q)) : ~Is(Tail(q)[k], t, n)
    BY <1>1
  <2>2. CASE i = 1
    BY <1>1, <2>1, <2>2 DEF NoneOf
  <2>3. CASE i # 1
    <3>1. i - 1 \in 1..Len(Tail(q)) /\ Tail(q)[i - 1] = p
      BY <1>1, <2>3
    <3>2. \A k \in ((i - 1) + 1)..Len(Tail(q)) : ~Is(Tail(q)[k], t, n)
      BY <1>1, <2>1
    <3> QED BY <3>1, <3>2 DEF LastOf
  <2> QED BY <2>2, <2>3
<1>3. ASSUME NoneOf(q, t, n)
      PROVE  ~Is(Head(q), t, n) /\ NoneOf(Tail(q), t, n)
  <2>1. ~Is(Head(q), t, n)
    BY <1>1, <1>3 DEF NoneOf
  <2>2. \A i \in 1..Len(Tail(q)) : ~Is(Tail(q)[i], t, n)
    BY <1>1, <1>3 DEF NoneOf
  <2> QED BY <2>1, <2>2, Zenon DEF NoneOf
<1> QED BY <1>2, <1>3, Zenon

----------------------------------------------------------------------------
(* The order of the PDUs that a step of the kernel sends.                  *)

\* Every element has its place in a sequence of Orders(S).
LEMMA OrdersAre ==
    ASSUME NEW S, NEW s \in Orders(S)
    PROVE  /\ s \in Seq(S)
           /\ \A x \in S : \E i \in 1..Len(s) : s[i] = x
           /\ \A i, j \in 1..Len(s) : s[i] = s[j] => i = j
<1>1. PICK m \in 0..Cardinality(S) : s \in Bijection(1..m, S)
  BY Zenon DEF Orders
<1>2. /\ s \in [1..m -> S] /\ \A x \in S : \E i \in 1..m : s[i] = x
      /\ \A i, j \in DOMAIN s : s[i] = s[j] => i = j
  BY <1>1, Zenon DEF Bijection, Injection, Surjection, IsInjective
<1>3. m \in Nat
  OBVIOUS
<1>4. s \in Seq(S) /\ DOMAIN s = 1..m /\ Len(s) = m
  BY <1>2, <1>3
<1> QED BY <1>2, <1>4, Zenon

\* So every PDU that is not a beacon has one in what is broadcast.
LEMMA BroadcastIs ==
    ASSUME NEW b \in Broadcast
    PROVE  /\ b \in Seq(out')
           /\ \A i \in 1..Len(b) : b[i] \in out' /\ b[i].type # "BEACON"
           /\ \A p \in out' : p.type # "BEACON" => \E i \in 1..Len(b) : b[i] = p
           /\ \A i, j \in 1..Len(b) : b[i] = b[j] => i = j
<1> DEFINE pdus == {p \in out' : p.type # "BEACON"}
<1>1. b \in Orders(pdus)
  BY DEF Broadcast
<1>2. /\ b \in Seq(pdus)
      /\ \A x \in pdus : \E i \in 1..Len(b) : b[i] = x
      /\ \A i, j \in 1..Len(b) : b[i] = b[j] => i = j
  BY <1>1, OrdersAre, Zenon
<1>3. \A i \in 1..Len(b) : b[i] \in pdus
  BY <1>2
<1>4. b \in Seq(out')
  BY <1>2
<1> QED BY <1>2, <1>3, <1>4, Zenon

\* A PDU that is the only one of its type about n comes last among them.
LEMMA SentLast ==
    ASSUME NEW b \in Broadcast, NEW t, NEW n, NEW p \in out',
           p.type # "BEACON", Is(p, t, n), \A q \in out' : Is(q, t, n) => q = p
    PROVE  LastOf(b, t, n, p)
<1>1. /\ b \in Seq(out') /\ \A i \in 1..Len(b) : b[i] \in out'
      /\ \A i, j \in 1..Len(b) : b[i] = b[j] => i = j
  BY BroadcastIs, Zenon
<1>2. PICK i \in 1..Len(b) : b[i] = p
  BY BroadcastIs, Zenon
<1>3. ASSUME NEW j \in (i + 1)..Len(b) PROVE ~Is(b[j], t, n)
  <2>1. j \in 1..Len(b) /\ j # i
    BY <1>1
  <2> QED BY <1>1, <1>2, <2>1, Zenon
<1> QED BY <1>2, <1>3, Zenon DEF LastOf

\* And if there is none in the handler's PDUs, there is none.
LEMMA SentNone ==
    ASSUME NEW b \in Broadcast, NEW t, NEW n, \A q \in out' : ~Is(q, t, n)
    PROVE  NoneOf(b, t, n)
BY BroadcastIs, Zenon DEF NoneOf

----------------------------------------------------------------------------
(* The PDUs that a step of the kernel sends.                               *)

\* The TRANSITION that goes with a STATE.
Announced(p) == [p EXCEPT !.type = "TRANSITION"]

\* A handler sends the records recs of the states S, and announces those of T.
Sends(S, recs, T) ==
    /\ T \subseteq S /\ S \subseteq StateNames
    /\ \A n \in S : /\ StatePDU("STATE", n, recs[n]) \in out'
                    /\ recs[n].last_seen \in Nat
    /\ \A n \in T : StatePDU("TRANSITION", n, recs[n]) \in out'
    /\ \A p \in out' :
        /\ p.type = "STATE" => \E n \in S : p = StatePDU("STATE", n, recs[n])
        /\ p.type = "TRANSITION" =>
                \E n \in T : p = StatePDU("TRANSITION", n, recs[n])

\* What has the type of a metric is about one.
MetricsSent == \A p \in out' : p.type \in MetricTypes => p.name \in Metrics

\* It sends neither states nor keys.
NoStates ==
    /\ MetricsSent
    /\ \A p \in out' : p.type \notin {"STATE", "TRANSITION", "SET.KEYS"}

\* What a PDU has of the record.
LEMMA PDUFields ==
    ASSUME NEW n, NEW s
    PROVE  /\ StatePDU("STATE", n, s).type = "STATE"
           /\ StatePDU("STATE", n, s).name = n
           /\ StatePDU("STATE", n, s).ts = s.last_seen
           /\ StatePDU("STATE", n, s).stale = s.stale
           /\ StatePDU("STATE", n, s).code = statstr(s.status)
           /\ StatePDU("TRANSITION", n, s).type = "TRANSITION"
           /\ StatePDU("TRANSITION", n, s).name = n
           /\ StatePDU("TRANSITION", n, s).ts = s.last_seen
           /\ StatePDU("TRANSITION", n, s).stale = s.stale
           /\ StatePDU("TRANSITION", n, s).code = statstr(s.status)
           /\ StatePDU("TRANSITION", n, s) = Announced(StatePDU("STATE", n, s))
BY DEF StatePDU, Announced

\* The PDUs of states, as PDU(n) finds them.
LEMMA SentPDUs ==
    ASSUME NEW S, NEW recs, NEW T, Sends(S, recs, T)
    PROVE  /\ SentNames = S
           /\ \A n \in S : PDU(n) = StatePDU("STATE", n, recs[n])
           /\ \A n \in T : Announced(PDU(n)) \in out'
<1>1. \A p \in StatesOut : \E n \in S : p = StatePDU("STATE", n, recs[n])
  BY Zenon DEF Sends, StatesOut
<1>2. \A n \in S : StatePDU("STATE", n, recs[n]) \in StatesOut
  BY PDUFields DEF Sends, StatesOut
<1>3. SentNames = S
  <2>1. \A n \in S : \E p \in StatesOut : p.name = n
    BY <1>2, PDUFields, Zenon
  <2>2. \A p \in StatesOut : p.name \in S
    BY <1>1, PDUFields
  <2> QED BY <2>1, <2>2, Zenon DEF SentNames
<1>4. ASSUME NEW n \in S PROVE PDU(n) = StatePDU("STATE", n, recs[n])
  <2>1. /\ StatePDU("STATE", n, recs[n]) \in StatesOut
        /\ StatePDU("STATE", n, recs[n]).name = n
    BY <1>2, PDUFields, Zenon
  <2>2. PDU(n) \in StatesOut /\ PDU(n).name = n
    BY <2>1, Zenon DEF PDU
  <2>3. PICK m \in S : PDU(n) = StatePDU("STATE", m, recs[m])
    BY <1>1, <2>2, Zenon
  <2>4. m = n
    BY <2>2, <2>3, PDUFields
  <2> QED BY <2>3, <2>4, Zenon
<1>5. \A n \in T : Announced(PDU(n)) \in out'
  BY <1>4, PDUFields DEF Sends
<1> QED BY <1>3, <1>4, <1>5, Zenon

\* What the subscribers rely on.
StatesSent ==
    /\ \A n \in SentNames : /\ PDU(n) \in out' /\ Is(PDU(n), "STATE", n)
                            /\ n \in StateNames /\ PDU(n).ts \in Nat
                            /\ \E s : PDU(n) = StatePDU("STATE", n, s)
    /\ \A p \in out' : p.type = "STATE" => p.name \in SentNames /\ p = PDU(p.name)
    /\ \A p \in out' : p.type = "TRANSITION" =>
            p.name \in SentNames /\ p = Announced(PDU(p.name))

\* It follows from what a handler sends.
LEMMA SendsStates ==
    ASSUME NEW S, NEW recs, NEW T, Sends(S, recs, T)
    PROVE  StatesSent
<1>1. /\ SentNames = S
      /\ \A n \in S : PDU(n) = StatePDU("STATE", n, recs[n])
  BY SentPDUs, Zenon
<1>2. ASSUME NEW n \in SentNames
      PROVE  /\ PDU(n) \in out' /\ Is(PDU(n), "STATE", n)
             /\ n \in StateNames /\ PDU(n).ts \in Nat
             /\ \E s : PDU(n) = StatePDU("STATE", n, s)
  <2>1. /\ PDU(n) \in out' /\ Is(PDU(n), "STATE", n)
        /\ n \in StateNames /\ PDU(n).ts \in Nat
    BY <1>1, PDUFields DEF Sends, Is
  <2> QED BY <1>1, <2>1, Zenon
<1>3. ASSUME NEW p \in out', p.type = "STATE"
      PROVE  p.name \in SentNames /\ p = PDU(p.name)
  BY <1>1, <1>3, PDUFields DEF Sends
<1>4. ASSUME NEW p \in out', p.type = "TRANSITION"
      PROVE  p.name \in SentNames /\ p = Announced(PDU(p.name))
  BY <1>1, <1>4, PDUFields DEF Sends
<1> QED BY <1>2, <1>3, <1>4, Zenon DEF StatesSent

\* A TRANSITION says what its STATE says.
LEMMA AnnouncedFields ==
    ASSUME StatesSent, NEW n \in SentNames
    PROVE  /\ Announced(PDU(n)).type = "TRANSITION"
           /\ Announced(PDU(n)).name = n
           /\ Announced(PDU(n)).ts = PDU(n).ts
           /\ Announced(PDU(n)).stale = PDU(n).stale
           /\ Announced(PDU(n)).code = PDU(n).code
<1>1. PICK s : PDU(n) = StatePDU("STATE", n, s)
  BY Zenon DEF StatesSent
<1> QED BY <1>1, PDUFields

\* The STATE handler sends one state.
Before_(n) == Find(states, n, NewState(Freshness[n], now))

\* It is announced if the status changes, or a stale state is fresh again.
LEMMA SubmitSends ==
    ASSUME NEW ts \in Stamps, NEW n \in StateNames, NEW code \in Codes,
           NEW m \in Messages, SubmitState(ts, n, code, m)
    PROVE  /\ Sends({n}, states', IF Transition(Before_(n), code) THEN {n} ELSE {})
           /\ DOMAIN states' = DOMAIN states \cup {n}
           /\ states'[n].status = code /\ states'[n].stale = FALSE
           /\ \A x \in DOMAIN states \ {n} : states'[x] = states[x]
<1> DEFINE new == [status |-> code, summary |-> m, last_seen |-> ts,
                   expiry |-> ts + Freshness[n], stale |-> FALSE,
                   ignore |-> FALSE]
           tr  == Transition(Before_(n), code)
<1>1. /\ states' = Put(states, n, new)
      /\ out' = broadcast_state(n, new, tr)
  BY Zenon DEF SubmitState, Before_
<1>2. new.status = code /\ new.stale = FALSE /\ new.last_seen \in Nat
  BY InputAssumption
<1> HIDE DEF new, tr
<1>3. /\ DOMAIN states' = DOMAIN states \cup {n} /\ states'[n] = new
      /\ \A x \in DOMAIN states \ {n} : states'[x] = states[x]
  BY <1>1, Zenon DEF Put
<1>4. Sends({n}, states', IF tr THEN {n} ELSE {})
  <2>1. /\ StatePDU("STATE", n, new) \in out'
        /\ tr => StatePDU("TRANSITION", n, new) \in out'
        /\ \A p \in out' : \/ p = StatePDU("STATE", n, new)
                           \/ tr /\ p = StatePDU("TRANSITION", n, new)
    BY <1>1, Zenon DEF broadcast_state
  <2>2. /\ StatePDU("STATE", n, new).type = "STATE"
        /\ StatePDU("TRANSITION", n, new).type = "TRANSITION"
    BY PDUFields
  <2>3. \A x \in {n} : x = n /\ states'[x] = new
    BY <1>3, Zenon
  <2>4. \A p \in out' :
            /\ p.type = "STATE" =>
                    \E x \in {n} : p = StatePDU("STATE", x, states'[x])
            /\ p.type = "TRANSITION" =>
                    tr /\ \E x \in {n} : p = StatePDU("TRANSITION", x, states'[x])
    BY <1>3, <2>1, <2>2, ZenonT(40)
  <2> QED BY <1>2, <2>1, <2>3, <2>4, Zenon DEF Sends
<1> QED BY <1>2, <1>3, <1>4, Zenon DEF tr

\* The other PDUs.
LEMMA OtherTypes ==
    /\ \A n, c : /\ broadcast_counter(n, c).type = "COUNTER"
                 /\ broadcast_counter(n, c).name = n
    /\ \A n, s : /\ broadcast_sample(n, s).type = "SAMPLE"
                 /\ broadcast_sample(n, s).name = n
    /\ \A n, r : /\ broadcast_rate(n, r).type = "RATE"
                 /\ broadcast_rate(n, r).name = n
    /\ \A ev : broadcast_event(ev).type = "EVENT"
    /\ \A ks : \A p \in broadcast_setkeys(ks) : p.type = "SET.KEYS"
    /\ beacon_sweep.type = "BEACON"
BY DEF broadcast_counter, broadcast_sample, broadcast_rate, broadcast_event,
       broadcast_setkeys, beacon_sweep

\* Those of a TOCK, by their types.
LEMMA TockOut ==
    ASSUME NEW p \in tock_out
    PROVE  \/ \E n \in Flush(counters) : p = broadcast_counter(n, counters[n])
           \/ \E n \in Flush(samples) : p = broadcast_sample(n, samples[n])
           \/ \E n \in Flush(rates) : p = broadcast_rate(n, rates[n])
           \/ p = beacon_sweep
           \/ \E n \in Expired :
                \/ p = StatePDU("STATE", n, MarkStale(n))
                \/ /\ ~states[n].stale \/ states[n].status # StaleStatus[n]
                   /\ p = StatePDU("TRANSITION", n, MarkStale(n))
           \/ SaveDue /\ p \in broadcast_setkeys(keys)
<1>1. \/ \E n \in Flush(counters) : p = broadcast_counter(n, counters[n])
      \/ \E n \in Flush(samples) : p = broadcast_sample(n, samples[n])
      \/ \E n \in Flush(rates) : p = broadcast_rate(n, rates[n])
      \/ p = beacon_sweep
      \/ \E n \in Expired : p \in broadcast_state(n, MarkStale(n),
                ~states[n].stale \/ states[n].status # StaleStatus[n])
      \/ SaveDue /\ p \in broadcast_setkeys(keys)
  BY ZenonT(40) DEF tock_out
<1>2. ASSUME NEW n \in Expired,
             p \in broadcast_state(n, MarkStale(n),
                    ~states[n].stale \/ states[n].status # StaleStatus[n])
      PROVE  \/ p = StatePDU("STATE", n, MarkStale(n))
             \/ /\ ~states[n].stale \/ states[n].status # StaleStatus[n]
                /\ p = StatePDU("TRANSITION", n, MarkStale(n))
  BY <1>2, Zenon DEF broadcast_state
<1> QED BY <1>1, <1>2, Zenon

\* check_freshness() sends what it finds expired, and announces what was
\* fresh or had another status.
Turned == {n \in Expired : ~states[n].stale \/ states[n].status # StaleStatus[n]}

\* The record of a state that was found expired.
LEMMA Marked ==
    ASSUME NEW n, states[n] \in StateRec
    PROVE  /\ MarkStale(n).status = StaleStatus[n] /\ MarkStale(n).stale = TRUE
           /\ MarkStale(n).last_seen \in Nat
<1> PICK s \in StateRec : s = states[n]
  OBVIOUS
<1>1. /\ s \in [status : 0..255, summary : Summary, last_seen : Nat,
                expiry : Nat, stale : BOOLEAN, ignore : BOOLEAN]
      /\ MarkStale(n) = [s EXCEPT !.stale = TRUE, !.expiry = now + Freshness[n],
                             !.status = StaleStatus[n], !.summary = "stale"]
  BY Zenon DEF MarkStale, StateRec
<1> QED BY <1>1

\* Every tick sends those that are found expired.
LEMMA TockSends ==
    ASSUME TypeOK, out' = tock_out
    PROVE  /\ Sends(Expired, tock_states, Turned)
           /\ \A n \in Expired : /\ n \in DOMAIN states
                                 /\ tock_states[n].status = StaleStatus[n]
                                 /\ tock_states[n].stale = TRUE
<1>1. ASSUME NEW n \in Expired
      PROVE  /\ n \in DOMAIN states /\ n \in StateNames
             /\ states[n] \in StateRec
             /\ tock_states[n] = MarkStale(n)
  BY ZenonT(40) DEF Expired, TypeOK, IsTable, tock_states
<1>2. ASSUME NEW n \in Expired
      PROVE  /\ tock_states[n].status = StaleStatus[n]
             /\ tock_states[n].stale = TRUE
             /\ tock_states[n].last_seen \in Nat
  BY <1>1, Marked, Zenon
<1>3. ASSUME NEW n \in Expired
      PROVE  /\ StatePDU("STATE", n, tock_states[n]) \in out'
             /\ n \in Turned => StatePDU("TRANSITION", n, tock_states[n]) \in out'
  <2>1. broadcast_state(n, MarkStale(n),
            ~states[n].stale \/ states[n].status # StaleStatus[n]) \subseteq out'
    BY DEF tock_out
  <2> QED BY <1>1, <2>1, Zenon DEF broadcast_state, Turned
<1>4. ASSUME NEW p \in out', p.type \in {"STATE", "TRANSITION"}
      PROVE  \E n \in Expired :
                \/ p = StatePDU("STATE", n, tock_states[n])
                \/ n \in Turned /\ p = StatePDU("TRANSITION", n, tock_states[n])
  <2>1. PICK n \in Expired :
                \/ p = StatePDU("STATE", n, MarkStale(n))
                \/ /\ ~states[n].stale \/ states[n].status # StaleStatus[n]
                   /\ p = StatePDU("TRANSITION", n, MarkStale(n))
    BY <1>4, TockOut, OtherTypes
  <2> QED BY <1>1, <2>1, ZenonT(40) DEF Turned
<1>5. \A p \in out' :
        /\ p.type = "STATE" =>
            \E n \in Expired : p = StatePDU("STATE", n, tock_states[n])
        /\ p.type = "TRANSITION" =>
            \E n \in Turned : p = StatePDU("TRANSITION", n, tock_states[n])
  BY <1>4, PDUFields
<1>6. Turned \subseteq Expired /\ Expired \subseteq StateNames
  BY <1>1, Zenon DEF Turned
<1> QED BY <1>1, <1>2, <1>3, <1>5, <1>6, Zenon DEF Sends

\* The handlers that change states or send them, and what the others do.
LEMMA StateSteps ==
    ASSUME TypeOK, Next, ~BootDies
    PROVE  \/ \E ts \in Stamps, n \in StateNames, code \in Codes, m \in Messages :
                    SubmitState(ts, n, code, m) /\ UNCHANGED <<stops, up>>
           \/ Tock /\ UNCHANGED <<stops, up>>
           \/ TockDies
           \/ /\ \E p \in Patterns, ig \in BOOLEAN : Forget(p, ig)
              /\ NoStates /\ UNCHANGED <<stops, up>>
           \/ Dead /\ NoStates
           \/ Boot /\ NoStates
           \/ NoStates /\ UNCHANGED <<states, stops, up>>
<1>1. CASE Listener
  <2>1. ASSUME NEW ts \in Stamps, NEW n \in CounterNames, NEW i \in Increments,
               SubmitCounter(ts, n, i)
        PROVE  NoStates /\ UNCHANGED <<states, stops, up>>
    <3>1. \A p \in out' : p = broadcast_counter(n, Find(counters, n, NewCounter))
      BY <2>1, Zenon DEF SubmitCounter
    <3> QED BY <2>1, <3>1, OtherTypes DEF SubmitCounter, NoStates,
                                          MetricsSent, Metrics
  <2>2. ASSUME NEW ts \in Stamps, NEW n \in SampleNames, NEW b \in SampleBatches,
               SubmitSample(ts, n, b)
        PROVE  NoStates /\ UNCHANGED <<states, stops, up>>
    <3>1. \A p \in out' : p = broadcast_sample(n, Find(samples, n, NewSample))
      BY <2>2, Zenon DEF SubmitSample
    <3> QED BY <2>2, <3>1, OtherTypes DEF SubmitSample, NoStates, MetricsSent,
                                          Metrics
  <2>3. ASSUME NEW ts \in Stamps, NEW n \in RateNames, NEW v \in RateValues,
               SubmitRate(ts, n, v)
        PROVE  NoStates /\ UNCHANGED <<states, stops, up>>
    <3>1. \A p \in out' : p = broadcast_rate(n, Find(rates, n, NewRate))
      BY <2>3, Zenon DEF SubmitRate
    <3> QED BY <2>3, <3>1, OtherTypes DEF SubmitRate, NoStates, MetricsSent,
                                          Metrics
  <2>4. ASSUME NEW ts \in Stamps, NEW x \in Extras, SubmitEvent(ts, x)
        PROVE  NoStates /\ UNCHANGED <<states, stops, up>>
    <3>1. \A p \in out' : p = broadcast_event([ts |-> ts, extra |-> x])
      BY <2>4, Zenon DEF SubmitEvent
    <3> QED BY <2>4, <3>1, OtherTypes DEF SubmitEvent, NoStates, MetricsSent,
               MetricTypes
  <2>5. ASSUME (\E kv : SetKeys(kv)) \/ Dropped
        PROVE  NoStates /\ UNCHANGED <<states, stops, up>>
    BY <2>5, Zenon DEF SetKeys, Dropped, NoStates, MetricsSent, db
  <2>6. ASSUME NEW ts \in Stamps, NEW n \in StateNames, NEW code \in Codes,
               NEW m \in Messages, SubmitState(ts, n, code, m)
        PROVE  UNCHANGED <<stops, up>>
    BY <2>6, Zenon DEF SubmitState
  <2> QED BY <1>1, <2>1, <2>2, <2>3, <2>4, <2>5, <2>6, ZenonT(40) DEF Listener
<1>2. CASE Management
  BY <1>2, ZenonT(40) DEF Management, SaveState, Forget, DelKeys, NoStates,
     MetricsSent, db
<1>3. CASE Tock
  BY <1>3, Zenon DEF Tock
<1>4. CASE Process
  BY <1>4, ZenonT(40) DEF Process, Stop, SaveStateDies, Boot, NoStates,
     MetricsSent
<1>5. CASE Advance
  BY <1>5, Zenon DEF Advance, NoStates, MetricsSent, db
<1> QED BY <1>1, <1>2, <1>3, <1>4, <1>5, Zenon DEF Next

\* Metrics have the names of metrics.
LEMMA MetricSends ==
    ASSUME TypeOK, Next, ~BootDies
    PROVE  MetricsSent
<1>1. ASSUME NEW ts \in Stamps, NEW n \in StateNames, NEW code \in Codes,
             NEW m \in Messages, SubmitState(ts, n, code, m)
      PROVE  MetricsSent
  <2>1. PICK s, tr : out' = broadcast_state(n, s, tr)
    BY <1>1, Zenon DEF SubmitState
  <2>2. \A p \in out' : p \in {StatePDU("STATE", n, s), StatePDU("TRANSITION", n, s)}
    BY <2>1, Zenon DEF broadcast_state
  <2> QED BY <2>2, PDUFields DEF MetricsSent, MetricTypes
<1>2. ASSUME out' = tock_out PROVE MetricsSent
  <2>1. ASSUME NEW p \in out', p.type \in MetricTypes
        PROVE  p.name \in Flush(counters) \cup Flush(samples) \cup Flush(rates)
    <3>1. p.type \notin {"BEACON", "STATE", "TRANSITION", "SET.KEYS"}
      BY <2>1 DEF MetricTypes
    <3> QED BY <1>2, <3>1, TockOut, OtherTypes, PDUFields
  <2>2. Flush(counters) \cup Flush(samples) \cup Flush(rates) \subseteq Metrics
    BY Zenon DEF Flush, Closed, TypeOK, IsTable, Metrics
  <2> QED BY <2>1, <2>2, ZenonT(40) DEF MetricsSent
<1> QED BY <1>1, <1>2, StateSteps, ZenonT(40) DEF Tock, TockDies, NoStates

\* So what the subscribers rely on holds of every step of the kernel.
LEMMA KernelSends ==
    ASSUME TypeOK, Next, ~BootDies
    PROVE  StatesSent /\ MetricsSent
<1>1. ASSUME NoStates PROVE StatesSent
  <2>1. Sends({}, states, {})
    BY <1>1, Zenon DEF NoStates, Sends
  <2> QED BY <2>1, SendsStates, Zenon
<1>2. ASSUME NEW ts \in Stamps, NEW n \in StateNames, NEW code \in Codes,
             NEW m \in Messages, SubmitState(ts, n, code, m)
      PROVE  StatesSent
  BY <1>2, SubmitSends, SendsStates, Zenon
<1>3. ASSUME out' = tock_out PROVE StatesSent
  BY <1>3, TockSends, SendsStates, Zenon
<1> QED BY <1>1, <1>2, <1>3, StateSteps, MetricSends, Zenon DEF Tock, TockDies

----------------------------------------------------------------------------
(* The feed.                                                               *)

\* A PDU that the subscriber may yet receive, if the states in N were sent.
Proper(p, N) ==
    /\ p.type \in {"STATE", "TRANSITION"} => p.name \in N /\ p.ts \in Nat
    /\ p.type \in MetricTypes => p.name \in Metrics

\* What the kernel has told of each state: the last STATE, which is the last
\* one in the feed unless that has none.
FeedOK ==
    /\ TypeOK
    /\ feed \in Seq(Range(feed))
    /\ \A i \in 1..Len(feed) : Proper(feed[i], DOMAIN shown)
    /\ DOMAIN shown \subseteq StateNames
    /\ \A n \in DOMAIN shown :
        /\ Is(shown[n], "STATE", n) /\ shown[n].ts \in Nat
        /\ NoneOf(feed, "STATE", n) \/ LastOf(feed, "STATE", n, shown[n])

\* What a step of the kernel does to the queue.
LEMMA FeedGrows ==
    ASSUME feed \in Seq(Range(feed)), NEW b \in Broadcast, feed' = feed \o b
    PROVE  /\ feed' \in Seq(Range(feed'))
           /\ \A i \in 1..Len(feed') : \/ \E j \in 1..Len(feed) : feed'[i] = feed[j]
                                       \/ feed'[i] \in out'
           /\ \A t, n : (\A q \in out' : ~Is(q, t, n)) =>
                /\ NoneOf(feed, t, n) => NoneOf(feed', t, n)
                /\ \A p : LastOf(feed, t, n, p) => LastOf(feed', t, n, p)
           /\ \A t, n : \A p \in out' :
                /\ p.type # "BEACON" /\ Is(p, t, n)
                /\ \A q \in out' : Is(q, t, n) => q = p
                => LastOf(feed', t, n, p)
<1> DEFINE S == Range(feed) \cup out'
<1>1. /\ b \in Seq(out') /\ \A i \in 1..Len(b) : b[i] \in out'
  BY BroadcastIs, Zenon
<1>2. feed \in Seq(S) /\ b \in Seq(S)
  BY <1>1
<1> HIDE DEF S
<1>3. /\ feed' \in Seq(S)
      /\ \A i \in 1..Len(feed) : feed'[i] = feed[i]
      /\ \A i \in 1..Len(b) : feed'[Len(feed) + i] = b[i]
      /\ \A i \in 1..Len(feed') :
                    i \in 1..Len(feed) \/ \E j \in 1..Len(b) : i = Len(feed) + j
  BY <1>2, Joined
<1>4. feed' \in Seq(Range(feed'))
  BY <1>3, OwnElements, Zenon
<1>5. \A i \in 1..Len(feed') : \/ \E j \in 1..Len(feed) : feed'[i] = feed[j]
                               \/ feed'[i] \in out'
  BY <1>1, <1>3, Zenon
<1>6. ASSUME NEW t, NEW n, \A q \in out' : ~Is(q, t, n)
      PROVE  /\ NoneOf(feed, t, n) => NoneOf(feed', t, n)
             /\ \A p : LastOf(feed, t, n, p) => LastOf(feed', t, n, p)
  <2>1. NoneOf(b, t, n)
    BY <1>6, SentNone, Zenon
  <2> QED BY <1>2, <2>1, Appended
<1>7. ASSUME NEW t, NEW n, NEW p \in out', p.type # "BEACON", Is(p, t, n),
             \A q \in out' : Is(q, t, n) => q = p
      PROVE  LastOf(feed', t, n, p)
  <2>1. LastOf(b, t, n, p)
    BY <1>7, SentLast, Zenon
  <2> QED BY <1>2, <2>1, Appended
<1> QED BY <1>4, <1>5, <1>6, <1>7, Zenon

\* And what the subscriber does to it.
LEMMA FeedShrinks ==
    ASSUME feed \in Seq(Range(feed)), feed # <<>>, feed' = Tail(feed)
    PROVE  /\ feed' \in Seq(Range(feed'))
           /\ \A i \in 1..Len(feed') : \E j \in 1..Len(feed) : feed'[i] = feed[j]
           /\ 1 \in 1..Len(feed) /\ Head(feed) = feed[1]
           /\ \A t, n :
                /\ NoneOf(feed, t, n) =>
                        ~Is(Head(feed), t, n) /\ NoneOf(feed', t, n)
                /\ \A p : LastOf(feed, t, n, p) =>
                        \/ LastOf(feed', t, n, p)
                        \/ Head(feed) = p /\ Is(p, t, n) /\ NoneOf(feed', t, n)
<1>1. /\ feed' \in Seq(Range(feed)) /\ 1 \in 1..Len(feed)
      /\ Head(feed) = feed[1]
  OBVIOUS
<1>2. \A i \in 1..Len(feed') : i + 1 \in 1..Len(feed) /\ feed'[i] = feed[i + 1]
  OBVIOUS
<1>3. feed' \in Seq(Range(feed'))
  BY <1>1, OwnElements, Zenon
<1>4. ASSUME NEW t, NEW n, NEW p
      PROVE  /\ NoneOf(feed, t, n) =>
                    ~Is(Head(feed), t, n) /\ NoneOf(feed', t, n)
             /\ LastOf(feed, t, n, p) =>
                    \/ LastOf(feed', t, n, p)
                    \/ Head(feed) = p /\ Is(p, t, n) /\ NoneOf(feed', t, n)
  BY Taken
<1> QED BY <1>1, <1>2, <1>3, <1>4, Zenon

\* What the ghosts remember.
LEMMA ShownAfter ==
    ASSUME Observe
    PROVE  /\ DOMAIN shown' = DOMAIN shown \cup SentNames
           /\ \A n \in SentNames : shown'[n] = PDU(n)
           /\ \A n \in DOMAIN shown \ SentNames : shown'[n] = shown[n]
BY Zenon DEF Observe

\* After a step of the kernel the last STATE of a state that it sent is at the
\* end; for the others nothing has changed.
LEMMA StateFeed ==
    ASSUME FeedOK, KernelStep
    PROVE  /\ feed' \in Seq(Range(feed')) /\ TypeOK' /\ StatesSent /\ MetricsSent
           /\ \A i \in 1..Len(feed') : \/ \E j \in 1..Len(feed) : feed'[i] = feed[j]
                                       \/ feed'[i] \in out'
           /\ \A n \in SentNames : LastOf(feed', "STATE", n, PDU(n))
           /\ \A n : n \notin SentNames =>
                /\ NoneOf(feed, "STATE", n) => NoneOf(feed', "STATE", n)
                /\ \A p : LastOf(feed, "STATE", n, p) =>
                            LastOf(feed', "STATE", n, p)
<1>1. PICK b \in Broadcast : feed' = feed \o b
  BY Zenon DEF KernelStep
<1>2. StatesSent /\ MetricsSent /\ TypeOK'
  BY KernelSends, NextType, Zenon DEF FeedOK, KernelStep
<1>3. /\ feed' \in Seq(Range(feed'))
      /\ \A i \in 1..Len(feed') : \/ \E j \in 1..Len(feed) : feed'[i] = feed[j]
                                  \/ feed'[i] \in out'
  BY <1>1, FeedGrows, Zenon DEF FeedOK
<1>4. ASSUME NEW n \in SentNames
      PROVE  LastOf(feed', "STATE", n, PDU(n))
  <2>1. /\ PDU(n) \in out' /\ Is(PDU(n), "STATE", n) /\ PDU(n).type # "BEACON"
    BY <1>2, Zenon DEF StatesSent, Is
  <2>2. \A q \in out' : Is(q, "STATE", n) => q = PDU(n)
    BY <1>2 DEF StatesSent, Is
  <2> QED BY <1>1, <2>1, <2>2, FeedGrows, Zenon DEF FeedOK
<1>5. ASSUME NEW n, n \notin SentNames
      PROVE  /\ NoneOf(feed, "STATE", n) => NoneOf(feed', "STATE", n)
             /\ \A p : LastOf(feed, "STATE", n, p) =>
                            LastOf(feed', "STATE", n, p)
  <2>1. \A q \in out' : ~Is(q, "STATE", n)
    BY <1>2, <1>5 DEF StatesSent, Is
  <2> QED BY <1>1, <2>1, FeedGrows, Zenon DEF FeedOK
<1> QED BY <1>2, <1>3, <1>4, <1>5, Zenon

\* Every handler of the kernel keeps the feed in order.
LEMMA FeedKernel ==
    ASSUME FeedOK, KernelStep
    PROVE  FeedOK'
<1>1. /\ feed' \in Seq(Range(feed')) /\ TypeOK' /\ StatesSent /\ MetricsSent
      /\ \A i \in 1..Len(feed') : \/ \E j \in 1..Len(feed) : feed'[i] = feed[j]
                                  \/ feed'[i] \in out'
  BY StateFeed, Zenon
<1>2. /\ DOMAIN shown' = DOMAIN shown \cup SentNames
      /\ \A n \in SentNames : shown'[n] = PDU(n)
      /\ \A n \in DOMAIN shown \ SentNames : shown'[n] = shown[n]
  BY ShownAfter, Zenon DEF KernelStep
<1>3. DOMAIN shown' \subseteq StateNames
  BY <1>1, <1>2, ZenonT(40) DEF StatesSent, FeedOK
<1>4. ASSUME NEW p \in out' PROVE Proper(p, DOMAIN shown')
  <2>1. p.name \in SentNames => Announced(PDU(p.name)).ts = PDU(p.name).ts
    BY <1>1, AnnouncedFields, Zenon
  <2> QED BY <1>1, <1>2, <2>1 DEF Proper, StatesSent, MetricsSent
<1>5. ASSUME NEW i \in 1..Len(feed') PROVE Proper(feed'[i], DOMAIN shown')
  <2>1. CASE feed'[i] \in out'
    BY <1>4, <2>1, Zenon
  <2>2. CASE \E j \in 1..Len(feed) : feed'[i] = feed[j]
    <3>1. Proper(feed'[i], DOMAIN shown)
      BY <2>2, Zenon DEF FeedOK
    <3> QED BY <1>2, <3>1, Zenon DEF Proper
  <2> QED BY <1>1, <2>1, <2>2, Zenon
<1>6. ASSUME NEW n \in DOMAIN shown'
      PROVE  /\ Is(shown'[n], "STATE", n) /\ shown'[n].ts \in Nat
             /\ NoneOf(feed', "STATE", n) \/ LastOf(feed', "STATE", n, shown'[n])
  <2>1. CASE n \in SentNames
    BY <1>1, <1>2, <2>1, StateFeed, Zenon DEF StatesSent
  <2>2. CASE n \notin SentNames
    BY <1>2, <2>2, StateFeed, Zenon DEF FeedOK
  <2> QED BY <2>1, <2>2
<1> QED BY <1>1, <1>3, <1>5, <1>6, Zenon DEF FeedOK

\* The subscriber takes a PDU.
LEMMA FeedReceive ==
    ASSUME FeedOK, Receive
    PROVE  FeedOK'
<1>1. /\ feed # <<>> /\ feed' = Tail(feed) /\ shown' = shown
      /\ UNCHANGED vars
  BY Zenon DEF Receive, ghosts
<1>2. /\ feed' \in Seq(Range(feed'))
      /\ \A i \in 1..Len(feed') : \E j \in 1..Len(feed) : feed'[i] = feed[j]
      /\ \A t, n :
            /\ NoneOf(feed, t, n) => NoneOf(feed', t, n)
            /\ \A p : LastOf(feed, t, n, p) =>
                        LastOf(feed', t, n, p) \/ NoneOf(feed', t, n)
  BY <1>1, FeedShrinks, Zenon DEF FeedOK
<1>3. TypeOK'
  BY <1>1, StutterType, Zenon DEF FeedOK
<1>4. \A i \in 1..Len(feed') : Proper(feed'[i], DOMAIN shown')
  BY <1>1, <1>2, ZenonT(40) DEF FeedOK
<1> QED BY <1>1, <1>2, <1>3, <1>4, Zenon DEF FeedOK

\* The feed stays as it is.
LEMMA FeedStays ==
    ASSUME FeedOK, CacheStep \/ LogStep \/ UNCHANGED fvars
    PROVE  FeedOK'
<1>1. feed' = feed /\ shown' = shown /\ UNCHANGED vars
  BY Zenon DEF CacheStep, LogStep, fvars, ghosts
<1>2. TypeOK'
  BY <1>1, StutterType, Zenon DEF FeedOK
<1> QED BY <1>1, <1>2 DEF FeedOK

\* Every PDU that a subscriber may yet receive is about a state or a metric
\* that there is, and the last STATE that was broadcast for a state is the
\* last one that it will receive.
THEOREM FeedCorrect == FeedSpec => []FeedOK
<1>1. FeedInit => FeedOK
  <2> SUFFICES ASSUME FeedInit PROVE FeedOK
    OBVIOUS
  <2>1. TypeOK /\ feed = <<>> /\ shown = Nothing
    BY InitType, Zenon DEF FeedInit
  <2>2. Len(feed) = 0 /\ feed \in Seq(Range(feed)) /\ DOMAIN shown = {}
    BY <2>1 DEF Nothing
  <2> QED BY <2>1, <2>2 DEF FeedOK
<1>2. FeedOK /\ [FeedNext]_fvars => FeedOK'
  BY FeedKernel, FeedReceive, FeedStays, Zenon DEF FeedNext
<1> QED BY <1>1, <1>2, PTL DEF FeedSpec

----------------------------------------------------------------------------
(* bolo cache and its client.                                              *)

\* A STATE that is not on its way is in the cache, and the client has it if it
\* asked; what else the client has is on its way as well.
CacheInv ==
    who = "cache" =>
    /\ \A n \in DOMAIN shown :
        \/ LastOf(feed, "STATE", n, shown[n])
        \/ n \in DOMAIN cached /\ cached[n] = shown[n]
    /\ \A n \in DOMAIN cached : cached[n].type = "STATE" => n \in DOMAIN shown
    /\ \A n \in DOMAIN client :
        /\ n \in DOMAIN shown
        /\ LastOf(feed, "STATE", n, shown[n]) \/ client[n] = shown[n]
    /\ joined = "no" => DOMAIN client = {}
    /\ joined = "asked" =>
        \A n \in DOMAIN shown :
            LastOf(feed, "STATE", n, shown[n]) \/ n \in DOMAIN client

\* What the kernel sends is on its way.
LEMMA CacheKernel ==
    ASSUME FeedOK, CacheInv, KernelStep
    PROVE  CacheInv'
<1>1. /\ \A n \in SentNames : LastOf(feed', "STATE", n, PDU(n))
      /\ \A n : n \notin SentNames => \A p : LastOf(feed, "STATE", n, p) =>
                                             LastOf(feed', "STATE", n, p)
  BY StateFeed, Zenon
<1>2. /\ DOMAIN shown' = DOMAIN shown \cup SentNames
      /\ \A n \in SentNames : shown'[n] = PDU(n)
      /\ \A n \in DOMAIN shown \ SentNames : shown'[n] = shown[n]
  BY ShownAfter, Zenon DEF KernelStep
<1>3. UNCHANGED <<who, cached, client, joined>>
  BY Zenon DEF KernelStep, subs, cachevars
<1>4. ASSUME NEW n \in DOMAIN shown'
      PROVE  \/ LastOf(feed', "STATE", n, shown'[n])
             \/ /\ n \in DOMAIN shown /\ shown'[n] = shown[n]
                /\ ~LastOf(feed, "STATE", n, shown[n])
  BY <1>1, <1>2, Zenon
<1> QED BY <1>2, <1>3, <1>4, ZenonT(40) DEF CacheInv

\* What is taken from the feed was the last STATE of its name or is not.
LEMMA CacheTakes ==
    ASSUME FeedOK, CacheInv, Receive, who = "cache",
           StateNames \cap Metrics = {}
    PROVE  CacheInv'
<1> DEFINE p == Head(feed)
<1>1. /\ feed # <<>> /\ feed' = Tail(feed) /\ UNCHANGED <<who, shown>>
      /\ CacheReceive(p)
  BY Zenon DEF Receive, ghosts
<1>2. /\ Proper(p, DOMAIN shown)
      /\ \A n : \A q : LastOf(feed, "STATE", n, q) =>
            \/ LastOf(feed', "STATE", n, q)
            \/ p = q /\ Is(p, "STATE", n)
  BY <1>1, FeedShrinks, Zenon DEF FeedOK
<1> HIDE DEF p
<1>3. ASSUME NEW n \in DOMAIN shown
      PROVE  /\ p.type \in MetricTypes => p.name # n
             /\ \/ LastOf(feed', "STATE", n, shown[n])
                \/ /\ LastOf(feed, "STATE", n, shown[n])
                   /\ p = shown[n] /\ p.type = "STATE" /\ p.name = n
                \/ /\ ~LastOf(feed, "STATE", n, shown[n])
                   /\ NoneOf(feed, "STATE", n) /\ ~Is(p, "STATE", n)
  <2>1. p.type \in MetricTypes => p.name # n
    BY <1>2, Zenon DEF Proper, FeedOK
  <2>2. NoneOf(feed, "STATE", n) => ~Is(p, "STATE", n)
    BY <1>1, FeedShrinks, Zenon DEF FeedOK, p
  <2>3. Is(p, "STATE", n) => p.type = "STATE" /\ p.name = n
    BY DEF Is
  <2> QED BY <1>2, <2>1, <2>2, <2>3, Zenon DEF FeedOK
<1>4. joined' = joined
  BY <1>1, Zenon DEF CacheReceive
<1>5. /\ p.type \in MetricTypes \cup {"STATE"} =>
            /\ DOMAIN cached' = DOMAIN cached \cup {p.name} /\ cached'[p.name] = p
            /\ \A n \in DOMAIN cached \ {p.name} : cached'[n] = cached[n]
      /\ p.type = "STATE" /\ joined # "no" =>
            /\ DOMAIN client' = DOMAIN client \cup {p.name} /\ client'[p.name] = p
            /\ \A n \in DOMAIN client \ {p.name} : client'[n] = client[n]
      /\ p.type # "STATE" \/ joined = "no" => client' = client
      /\ p.type \notin MetricTypes \cup {"STATE"} => cached' = cached
  BY <1>1, Zenon DEF CacheReceive, Relay, Store, With
<1>6. CASE p.type = "STATE"
  <2>1. p.name \in DOMAIN shown /\ \A n : Is(p, "STATE", n) <=> p.name = n
    BY <1>2, <1>6, ZenonT(40) DEF Proper, Is
  <2>2. /\ DOMAIN cached' = DOMAIN cached \cup {p.name} /\ cached'[p.name] = p
        /\ \A n \in DOMAIN cached \ {p.name} : cached'[n] = cached[n]
    BY <1>5, <1>6
  <2>3. ASSUME NEW n \in DOMAIN shown
        PROVE  \/ LastOf(feed', "STATE", n, shown[n])
               \/ n \in DOMAIN cached' /\ cached'[n] = shown[n]
    BY <1>3, <2>1, <2>2, Zenon DEF CacheInv
  <2>4. \A n \in DOMAIN cached' : cached'[n].type = "STATE" => n \in DOMAIN shown
    BY <2>1, <2>2, Zenon DEF CacheInv
  <2>5. ASSUME NEW n \in DOMAIN client'
        PROVE  /\ n \in DOMAIN shown
               /\ LastOf(feed', "STATE", n, shown[n]) \/ client'[n] = shown[n]
    <3>1. /\ DOMAIN client' = DOMAIN client \cup {p.name} /\ client'[p.name] = p
          /\ \A m \in DOMAIN client \ {p.name} : client'[m] = client[m]
      BY <1>5, <1>6, Zenon DEF CacheInv
    <3>2. n \in DOMAIN shown
      BY <2>1, <2>2, <3>1, Zenon DEF CacheInv
    <3>3. CASE n = p.name
      BY <1>3, <2>1, <2>2, <3>1, <3>2, <3>3, ZenonT(40)
    <3>4. CASE n # p.name
      BY <1>3, <2>1, <2>2, <3>1, <3>2, <3>4, ZenonT(40) DEF CacheInv
    <3> QED BY <3>2, <3>3, <3>4, Zenon
  <2>6. ASSUME joined = "asked", NEW n \in DOMAIN shown
        PROVE  LastOf(feed', "STATE", n, shown[n]) \/ n \in DOMAIN client'
    <3>1. DOMAIN client' = DOMAIN client \cup {p.name}
      BY <1>5, <1>6, <2>6
    <3> QED BY <1>3, <2>1, <2>6, <3>1, ZenonT(40) DEF CacheInv
  <2>7. joined = "no" => DOMAIN client' = {}
    BY <1>5, Zenon DEF CacheInv
  <2> QED BY <1>1, <1>4, <2>3, <2>4, <2>5, <2>6, <2>7, ZenonT(40) DEF CacheInv
<1>7. CASE p.type # "STATE"
  <2>1. /\ client' = client
        /\ \/ cached' = cached
           \/ /\ p.type \in MetricTypes
              /\ DOMAIN cached' = DOMAIN cached \cup {p.name}
              /\ cached'[p.name] = p
              /\ \A n \in DOMAIN cached \ {p.name} : cached'[n] = cached[n]
    BY <1>5, <1>7, Zenon
  <2>2. ASSUME NEW n \in DOMAIN shown
        PROVE  /\ n \in DOMAIN cached =>
                    n \in DOMAIN cached' /\ cached'[n] = cached[n]
               /\ LastOf(feed, "STATE", n, shown[n]) =>
                    LastOf(feed', "STATE", n, shown[n])
    BY <1>3, <1>7, <2>1, Zenon
  <2>3. \A n \in DOMAIN cached' : cached'[n].type = "STATE" => n \in DOMAIN shown
    BY <1>7, <2>1, Zenon DEF CacheInv
  <2> QED BY <1>1, <1>4, <2>1, <2>2, <2>3, ZenonT(40) DEF CacheInv
<1> QED BY <1>6, <1>7

\* The client subscribes, and asks for a REPEAT.
LEMMA CacheAnswers ==
    ASSUME FeedOK, CacheInv, CacheStep
    PROVE  CacheInv'
<1>1. UNCHANGED <<who, feed, shown>>
  BY ZenonT(40) DEF CacheStep, ghosts
<1>2. CASE Join
  BY <1>1, <1>2 DEF Join, CacheInv
<1>3. CASE Repeat
  <2> DEFINE old == {n \in DOMAIN cached : cached[n].type = "STATE"}
  <2>1. /\ joined = "yes" /\ joined' = "asked" /\ cached' = cached
        /\ DOMAIN client' = DOMAIN client \cup old
        /\ \A n \in old : client'[n] = cached[n]
        /\ \A n \in DOMAIN client \ old : client'[n] = client[n]
    BY <1>3, Zenon DEF Repeat
  <2>2. ASSUME NEW n \in DOMAIN shown
        PROVE  \/ LastOf(feed, "STATE", n, shown[n])
               \/ n \in old /\ cached[n] = shown[n]
    BY Zenon DEF CacheInv, CacheStep, FeedOK, Is
  <2>3. \A n \in old : n \in DOMAIN shown
    BY Zenon DEF CacheInv, CacheStep
  <2> HIDE DEF old
  <2>4. ASSUME NEW n \in DOMAIN client'
        PROVE  /\ n \in DOMAIN shown
               /\ LastOf(feed, "STATE", n, shown[n]) \/ client'[n] = shown[n]
    BY <2>1, <2>2, <2>3, Zenon DEF CacheInv, CacheStep
  <2> QED BY <1>1, <2>1, <2>2, <2>4 DEF CacheInv, CacheStep
<1> QED BY <1>2, <1>3, Zenon DEF CacheStep

\* Whatever the order of the PDUs of a handler, once the cache has caught up
\* with the aggregator a client that sent a REPEAT has the last STATE of every
\* state, and no client has one that is out of date: provided that no metric
\* has the name of a state, as the cache keeps one PDU for a name.
THEOREM ClientInvariant ==
    ASSUME StateNames \cap Metrics = {}
    PROVE  FeedSpec => []ClientCurrent
<1>1. FeedInit => CacheInv
  BY DEF FeedInit, SubsInit, CacheInv, Nothing
<1>2. FeedOK /\ CacheInv /\ [FeedNext]_fvars => CacheInv'
  <2> SUFFICES ASSUME FeedOK, CacheInv, [FeedNext]_fvars PROVE CacheInv'
    OBVIOUS
  <2>1. CASE Receive
    <3>1. who' = who
      BY <2>1, Zenon DEF Receive
    <3>2. CASE who # "cache"
      BY <3>1, <3>2, ZenonT(40) DEF CacheInv
    <3> QED BY <2>1, <3>2, CacheTakes, Zenon
  <2>2. CASE LogStep \/ UNCHANGED fvars
    <3>1. UNCHANGED <<who, feed, shown, cached, client, joined>>
      BY <2>2, Zenon DEF LogStep, fvars, ghosts, subs, cachevars
    <3> QED BY <3>1 DEF CacheInv
  <2> QED BY <2>1, <2>2, CacheKernel, CacheAnswers, Zenon DEF FeedNext
<1>3. FeedOK /\ CacheInv => ClientCurrent
  <2> SUFFICES ASSUME FeedOK, CacheInv, who = "cache", Arrived
               PROVE  /\ \A n \in DOMAIN client : client[n] = shown[n]
                      /\ joined = "asked" => DOMAIN client = DOMAIN shown
    BY Zenon DEF ClientCurrent
  <2>1. \A n, p : ~LastOf(feed, "STATE", n, p)
    BY DEF Arrived, LastOf
  <2> QED BY <2>1, Zenon DEF CacheInv
<1> QED BY <1>1, <1>2, <1>3, FeedCorrect, PTL DEF FeedSpec

----------------------------------------------------------------------------
(* bolo2redis.                                                             *)

\* The keys are sent by a save, all of them; the process may die in it.
LEMMA KeysSent ==
    ASSUME TypeOK, Next, ~BootDies, NEW p \in out', p.type = "SET.KEYS"
    PROVE  p \in broadcast_setkeys(keys) /\ keys' \in {keys, NoRecords}
<1>1. ASSUME NEW ts \in Stamps, NEW n \in StateNames, NEW code \in Codes,
             NEW m \in Messages, SubmitState(ts, n, code, m)
      PROVE  FALSE
  <2>1. PICK s, tr : out' = broadcast_state(n, s, tr)
    BY <1>1, Zenon DEF SubmitState
  <2>2. p \in {StatePDU("STATE", n, s), StatePDU("TRANSITION", n, s)}
    BY <2>1, Zenon DEF broadcast_state
  <2> QED BY <2>2, PDUFields
<1>2. ASSUME out' = tock_out PROVE p \in broadcast_setkeys(keys)
  <2>1. /\ \A n : /\ broadcast_counter(n, counters[n]).type # "SET.KEYS"
                 /\ broadcast_sample(n, samples[n]).type # "SET.KEYS"
                 /\ broadcast_rate(n, rates[n]).type # "SET.KEYS"
        /\ beacon_sweep.type # "SET.KEYS"
    BY OtherTypes
  <2>2. \A n : /\ StatePDU("STATE", n, MarkStale(n)).type # "SET.KEYS"
              /\ StatePDU("TRANSITION", n, MarkStale(n)).type # "SET.KEYS"
    BY PDUFields
  <2> QED BY <1>2, <2>1, <2>2, TockOut, ZenonT(40)
<1>3. ~NoStates
  BY Zenon DEF NoStates
<1> QED BY <1>1, <1>2, <1>3, StateSteps, Zenon
        DEF Tock, TockDies, Dead, NoStates

\* So redis has the pairs of every key, or a SET.KEYS is on its way that does.
RedisInv ==
    who = "redis" /\ ~dirty /\ ~crashed /\ ~missed =>
        \A k \in LiveKeys(keys) :
            \/ \E p : /\ LastOf(feed, "SET.KEYS", "", p)
                      /\ k \in DOMAIN p.pairs /\ p.pairs[k] = keys[k]
            \/ /\ NoneOf(feed, "SET.KEYS", "")
               /\ k \in DOMAIN redis /\ redis[k] = keys[k]

\* What the kernel sends is on its way, if it sends the keys.
LEMMA RedisKernel ==
    ASSUME FeedOK, RedisInv, KernelStep
    PROVE  RedisInv'
<1>1. PICK b \in Broadcast : feed' = feed \o b
  BY Zenon DEF KernelStep
<1>2. UNCHANGED <<who, crashed, missed, redis>>
  BY Zenon DEF KernelStep, subs, logvars
<1>3. CASE \E p \in out' : p.type = "SET.KEYS"
  <2> PICK p \in out' : p.type = "SET.KEYS"
    BY <1>3
  <2>1. /\ keys' \in {keys, NoRecords}
        /\ \A q \in out' : q.type = "SET.KEYS" => q \in broadcast_setkeys(keys)
    BY KeysSent, Zenon DEF KernelStep, FeedOK
  <2>2. /\ p = [type |-> "SET.KEYS", pairs |-> [k \in LiveKeys(keys) |-> keys[k]]]
        /\ \A q \in out' : q.type = "SET.KEYS" => q = p
    BY <2>1, Zenon DEF broadcast_setkeys
  <2>3. p.pairs = [k \in LiveKeys(keys) |-> keys[k]]
    BY <2>2
  <2>4. \A q \in out' : Is(q, "SET.KEYS", "") => q = p
    BY <2>2, Zenon DEF Is
  <2>5. p.type # "BEACON" /\ Is(p, "SET.KEYS", "")
    BY DEF Is
  <2>6. LastOf(feed', "SET.KEYS", "", p)
    BY <1>1, <2>4, <2>5, FeedGrows, Zenon DEF FeedOK
  <2>7. \A k \in LiveKeys(keys') : k \in LiveKeys(keys) /\ keys'[k] = keys[k]
    BY <2>1, Zenon DEF LiveKeys, NoRecords
  <2>8. \A k \in LiveKeys(keys') : k \in DOMAIN p.pairs /\ p.pairs[k] = keys'[k]
    BY <2>3, <2>7
  <2> QED BY <2>6, <2>8, Zenon DEF RedisInv
<1>4. CASE \A p \in out' : p.type # "SET.KEYS"
  <2>1. \A q \in out' : ~Is(q, "SET.KEYS", "")
    BY <1>4, Zenon DEF Is
  <2>2. /\ NoneOf(feed, "SET.KEYS", "") => NoneOf(feed', "SET.KEYS", "")
        /\ \A p : LastOf(feed, "SET.KEYS", "", p) => LastOf(feed', "SET.KEYS", "", p)
    BY <1>1, <2>1, FeedGrows, Zenon DEF FeedOK
  <2>3. ~dirty' => ~dirty /\ keys' = keys
    BY <1>4, Zenon DEF KernelStep, Observe
  <2> QED BY <1>2, <2>2, <2>3, Zenon DEF RedisInv
<1> QED BY <1>3, <1>4, Zenon

\* A SET.KEYS is taken from the feed: all the pairs are set, or it is missed.
LEMMA RedisTakes ==
    ASSUME FeedOK, RedisInv, Receive, who = "redis"
    PROVE  RedisInv'
<1> DEFINE p == Head(feed)
<1>1. /\ feed # <<>> /\ feed' = Tail(feed) /\ RedisReceive(p)
      /\ UNCHANGED <<who, dirty, keys>>
  BY Zenon DEF Receive, ghosts, vars
<1>2. /\ NoneOf(feed, "SET.KEYS", "") =>
            ~Is(p, "SET.KEYS", "") /\ NoneOf(feed', "SET.KEYS", "")
      /\ \A q : LastOf(feed, "SET.KEYS", "", q) =>
            \/ LastOf(feed', "SET.KEYS", "", q)
            \/ p = q /\ Is(p, "SET.KEYS", "") /\ NoneOf(feed', "SET.KEYS", "")
  BY <1>1, FeedShrinks, Zenon DEF FeedOK
<1> HIDE DEF p
<1>3. Is(p, "SET.KEYS", "") <=> p.type = "SET.KEYS"
  BY DEF Is
<1>4. CASE p.type # "SET.KEYS"
  <2>1. UNCHANGED <<redis, crashed, missed>>
    BY <1>1, <1>4, Zenon DEF RedisReceive
  <2> QED BY <1>1, <1>2, <1>3, <1>4, <2>1, Zenon DEF RedisInv
<1>5. CASE p.type = "SET.KEYS" /\ ~crashed' /\ ~missed'
  <2>1. RedisSet(p) /\ ~crashed /\ ~missed
    BY <1>1, <1>5, Zenon DEF RedisReceive, RedisSet, RedisBreaks
  <2>2. redis' = SetAll(p, DOMAIN p.pairs)
    BY <1>5, <2>1, Zenon DEF RedisSet
  <2>3. \A k \in DOMAIN p.pairs : k \in DOMAIN redis' /\ redis'[k] = p.pairs[k]
    BY <2>2, Zenon DEF SetAll
  <2>4. ASSUME ~dirty, NEW k \in LiveKeys(keys)
        PROVE  \/ \E q : /\ LastOf(feed', "SET.KEYS", "", q)
                         /\ k \in DOMAIN q.pairs /\ q.pairs[k] = keys[k]
               \/ /\ NoneOf(feed', "SET.KEYS", "")
                  /\ k \in DOMAIN redis' /\ redis'[k] = keys[k]
    <3>1. PICK q : /\ LastOf(feed, "SET.KEYS", "", q)
                   /\ k \in DOMAIN q.pairs /\ q.pairs[k] = keys[k]
      BY <1>2, <1>3, <1>5, <2>1, <2>4, Zenon DEF RedisInv
    <3>2. CASE LastOf(feed', "SET.KEYS", "", q)
      BY <3>1, <3>2, Zenon
    <3>3. CASE p = q /\ NoneOf(feed', "SET.KEYS", "")
      <4>1. k \in DOMAIN p.pairs /\ p.pairs[k] = keys[k]
        BY <3>1, <3>3, Zenon
      <4> QED BY <2>3, <3>3, <4>1, Zenon
    <3> QED BY <1>2, <3>1, <3>2, <3>3, Zenon
  <2> QED BY <1>1, <2>4, Zenon DEF RedisInv
<1> QED BY <1>4, <1>5, Zenon DEF RedisInv

\* Once it has caught up redis has the value of every key, unless a key was
\* changed after the last SET.KEYS, bolo2redis died, or a SET was refused:
\* save_keys' broadcast has them all, and no later PDU undoes it.
THEOREM RedisInvariant == FeedSpec => []RedisCurrent
<1>1. FeedInit => RedisInv
  BY Zenon DEF FeedInit, Init, RedisInv, NoRecords, LiveKeys
<1>2. FeedOK /\ RedisInv /\ [FeedNext]_fvars => RedisInv'
  <2> SUFFICES ASSUME FeedOK, RedisInv, [FeedNext]_fvars PROVE RedisInv'
    OBVIOUS
  <2>1. CASE Receive
    <3>1. who' = who
      BY <2>1, Zenon DEF Receive
    <3>2. CASE who # "redis"
      BY <3>1, <3>2, Zenon DEF RedisInv
    <3> QED BY <2>1, <3>2, RedisTakes, Zenon
  <2>2. CASE LogStep \/ CacheStep
    BY <2>2, Zenon DEF LogStep, CacheStep, RedisInv
  <2>3. CASE UNCHANGED fvars
    <3>1. UNCHANGED <<who, feed, dirty, keys, redis, crashed, missed>>
      BY <2>3, Zenon DEF fvars, vars, ghosts, subs, logvars
    <3> QED BY <3>1, Zenon DEF RedisInv
  <2> QED BY <2>1, <2>2, <2>3, RedisKernel, Zenon DEF FeedNext
<1>3. FeedOK /\ RedisInv => RedisCurrent
  <2>1. Arrived => \A p : ~LastOf(feed, "SET.KEYS", "", p)
    BY DEF Arrived, LastOf
  <2> QED BY <2>1, Zenon DEF RedisInv, RedisCurrent
<1> QED BY <1>1, <1>2, <1>3, FeedCorrect, PTL DEF FeedSpec

=============================================================================
