-------------------------- MODULE SubscriberProofs --------------------------
(***************************************************************************)
(* Proofs about the subscribers bolo2pg (module Postgres) and bolo2rrd     *)
(* (module Rrd).                                                           *)
(*                                                                         *)
(* reconcile() keeps the history table sound, for any number of states,    *)
(* inserters, staged records and rollbacks: HistorySound as a theorem about*)
(* bolo2pg alone, whatever PDUs it receives as long as their timestamps are*)
(* numbers.  HistorySound is not inductive: a rollback puts back the tables*)
(* that the transaction began with, and the records that are merged come   *)
(* through three bags.  The invariant below speaks of these as well.       *)
(*                                                                         *)
(* bolo2rrd with one creator thread never replaces a file, for any number of*)
(* metrics, updaters, restarts and files that are removed.                 *)
(***************************************************************************)
EXTENDS Postgres, Rrd, TLAPS

----------------------------------------------------------------------------
(* bolo2pg.                                                                *)

Stamped(p) == p.type \in {"STATE", "TRANSITION"} => p.ts \in Nat

PgNext(PDUs) == (\E p \in PDUs : PgReceive(p)) \/ PgThreads

----------------------------------------------------------------------------

\* HistorySound, of any set of rows.
Forward(h) == /\ h.started_at <= h.tentative_ended_at
              /\ h.ended_at = NULL_TS \/ h.started_at <= h.ended_at

Apart(g, h) == /\ g.started_at # h.started_at
               /\ g.started_at < h.started_at =>
                    /\ g.tentative_ended_at <= h.started_at
                    /\ g.ended_at = NULL_TS \/ g.ended_at <= h.started_at

Sound(H) ==
    /\ \A h \in H : Forward(h)
    /\ \A g, h \in H : g.name = h.name /\ g # h => Apart(g, h)

IsRow(h) ==
    /\ h = [name |-> h.name, status |-> h.status, started_at |-> h.started_at,
            tentative_ended_at |-> h.tentative_ended_at,
            ended_at |-> h.ended_at]
    /\ h.started_at \in Nat /\ h.tentative_ended_at \in Nat
    /\ h.ended_at \in Nat \cup {NULL_TS}

Good(H) == Sound(H) /\ \A h \in H : IsRow(h)

\* The STATE records of bag b have timestamps.
Timed(b) == \A r \in BagToSet(b) : r.kind = "STATE" => r.ts \in Nat

\* And there are only such in it.
States(b) == \A r \in BagToSet(b) : r.ts \in Nat

HistoryInv ==
    /\ Good(history) /\ Good(saved.history)
    /\ Timed(inserts) /\ States(staging) /\ States(batch) /\ States(taken)

----------------------------------------------------------------------------

\* The elements of a union and of a difference of bags, and of one record.
LEMMA BagElements ==
    ASSUME NEW b, NEW c, NEW S
    PROVE  /\ BagToSet(b (+) c) = BagToSet(b) \cup BagToSet(c)
           /\ BagToSet(b (-) c) \subseteq BagToSet(b)
           /\ BagToSet(SetToBag(S)) = S
           /\ BagToSet(EmptyBag) = {}
BY DEF BagToSet, SetToBag, EmptyBag, (+), (-)

----------------------------------------------------------------------------
(* The three cases of reconcile().                                         *)

\* A row that is apart from the others of its state can be added to them.
LEMMA AddRow ==
    ASSUME NEW H, Good(H), NEW r, IsRow(r), Forward(r),
           \A h \in H : h.name = r.name => Apart(h, r) /\ Apart(r, h)
    PROVE  Good(H \cup {r})
BY DEF Good, Sound

\* And one can be taken away.
LEMMA DropRow ==
    ASSUME NEW H, Good(H), NEW r
    PROVE  Good(H \ {r})
BY DEF Good, Sound

\* A row that st opens.
LEMMA OpenRowGood ==
    ASSUME NEW st, st.ts \in Nat
    PROVE  LET r == OpenRow(st) IN
           /\ IsRow(r) /\ Forward(r) /\ r.name = st.name
           /\ r.started_at = st.ts /\ r.tentative_ended_at = st.ts
           /\ r.ended_at = NULL_TS
BY DEF OpenRow, IsRow, Forward

\* (A): a row before all others of the state.
LEMMA OpenFirst ==
    ASSUME NEW st, st.ts \in Nat, Good(history), Before(st) = {}
    PROVE  Good(history \cup {OpenRow(st)})
<1>1. \A h \in history : IsRow(h) /\ (h.name = st.name => st.ts < h.started_at)
  BY DEF Before, Good, IsRow
<1>2. \A h \in history : h.name = st.name =>
            Apart(h, OpenRow(st)) /\ Apart(OpenRow(st), h)
  BY <1>1, OpenRowGood DEF IsRow, Apart
<1> QED BY <1>2, OpenRowGood, AddRow, ZenonT(40)

\* What the last row to start before st has to do with the others.
LEMMA Neighbours ==
    ASSUME NEW st, st.ts \in Nat, Good(history), NEW h \in history, IsPrev(h, st)
    PROVE  /\ h.name = st.name /\ h.started_at <= st.ts /\ IsRow(h)
           /\ \A g \in history \ {h} :
                /\ IsRow(g)
                /\ g.name = st.name =>
                    \/ st.ts < g.started_at
                    \/ /\ g.started_at < h.started_at
                       /\ g.tentative_ended_at <= h.started_at
                       /\ g.ended_at = NULL_TS \/ g.ended_at <= h.started_at
<1>1. h.name = st.name /\ h.started_at <= st.ts
  BY DEF IsPrev, Before
<1>2. \A g \in history : IsRow(g)
  BY DEF Good
<1>3. ASSUME NEW g \in history \ {h}, g.name = st.name, ~(st.ts < g.started_at)
      PROVE  g.started_at < h.started_at
  <2>1. g.started_at <= st.ts
    BY <1>2, <1>3 DEF IsRow
  <2>2. g.started_at <= h.started_at
    BY <1>3, <2>1 DEF IsPrev, Before
  <2>3. g.started_at # h.started_at
    BY <1>1, <1>3 DEF Good, Sound, Apart
  <2> QED BY <1>2, <2>2, <2>3 DEF IsRow
<1>4. ASSUME NEW g \in history \ {h}, g.name = st.name,
             g.started_at < h.started_at
      PROVE  /\ g.tentative_ended_at <= h.started_at
             /\ g.ended_at = NULL_TS \/ g.ended_at <= h.started_at
  BY <1>1, <1>4 DEF Good, Sound, Apart
<1> QED BY <1>1, <1>2, <1>3, <1>4

\* (B): the last row before st lasts until st.
LEMMA Continue ==
    ASSUME NEW st, st.ts \in Nat, Good(history), NEW h \in history,
           IsPrev(h, st), Extends(h, st)
    PROVE  Good((history \ {h}) \cup {Continued(h, st)})
<1> DEFINE r == Continued(h, st)
<1>1. IsRow(h) /\ h.name = st.name /\ h.started_at <= st.ts
      /\ h.ended_at = NULL_TS
  BY Neighbours DEF Extends
<1>2. /\ IsRow(r) /\ r.name = st.name /\ r.started_at = h.started_at
      /\ r.tentative_ended_at = st.ts /\ r.ended_at = NULL_TS
  BY <1>1 DEF Continued, IsRow
<1>3. Forward(r)
  BY <1>1, <1>2, ZenonT(40) DEF Forward
<1>4. ASSUME NEW g \in history \ {h}, g.name = r.name
      PROVE  Apart(g, r) /\ Apart(r, g)
  <2>1. /\ IsRow(g)
        /\ \/ st.ts < g.started_at
           \/ /\ g.started_at < h.started_at
              /\ g.tentative_ended_at <= h.started_at
              /\ g.ended_at = NULL_TS \/ g.ended_at <= h.started_at
    BY <1>2, <1>4, Neighbours, Zenon
  <2> QED BY <1>1, <1>2, <2>1 DEF Apart, IsRow
<1> QED BY <1>2, <1>3, <1>4, AddRow, DropRow, ZenonT(40)

\* (C): it ends at st, where another one starts.
LEMMA Change ==
    ASSUME NEW st, st.ts \in Nat, Good(history), NEW h \in history,
           IsPrev(h, st), Extends(h, st)
    PROVE  Good((history \ {h}) \cup {Closed_at(h, st), OpenRow(st)})
<1> DEFINE r == Closed_at(h, st)
           s == OpenRow(st)
<1>1. IsRow(h) /\ h.name = st.name /\ h.started_at < st.ts
  <2>1. h.started_at <= h.tentative_ended_at /\ h.tentative_ended_at < st.ts
    BY DEF Good, Sound, Forward, Extends
  <2>2. IsRow(h) /\ h.name = st.name
    BY Neighbours
  <2> QED BY <2>1, <2>2 DEF IsRow
<1>2. /\ IsRow(r) /\ r.name = st.name /\ r.started_at = h.started_at
      /\ r.tentative_ended_at = st.ts /\ r.ended_at = st.ts
  <2>1. r = [name |-> h.name, status |-> h.status,
             started_at |-> h.started_at, tentative_ended_at |-> st.ts,
             ended_at |-> st.ts]
    <3>1. h = [name |-> h.name, status |-> h.status,
               started_at |-> h.started_at,
               tentative_ended_at |-> h.tentative_ended_at,
               ended_at |-> h.ended_at]
      BY <1>1 DEF IsRow
    <3>2. DOMAIN h = {"name", "status", "started_at", "tentative_ended_at",
                      "ended_at"}
      BY <3>1
    <3>3. r = [[h EXCEPT !.tentative_ended_at = st.ts] EXCEPT !.ended_at = st.ts]
      BY <3>2 DEF Closed_at
    <3> QED BY <3>2, <3>3, ZenonT(40)
  <2> HIDE DEF r
  <2> QED BY <1>1, <2>1 DEF IsRow
<1>3. Forward(r)
  BY <1>1, <1>2 DEF Forward, IsRow
<1>4. ASSUME NEW g \in history \ {h}, g.name = st.name
      PROVE  Apart(g, r) /\ Apart(r, g) /\ Apart(g, s) /\ Apart(s, g)
  <2>1. /\ IsRow(g)
        /\ \/ st.ts < g.started_at
           \/ /\ g.started_at < h.started_at
              /\ g.tentative_ended_at <= h.started_at
              /\ g.ended_at = NULL_TS \/ g.ended_at <= h.started_at
    BY <1>4, Neighbours
  <2>2. Apart(g, r) /\ Apart(r, g)
    BY <1>1, <1>2, <2>1 DEF Apart, IsRow
  <2>3. Apart(g, s) /\ Apart(s, g)
    BY <1>1, <2>1, OpenRowGood DEF Apart, IsRow
  <2> QED BY <2>2, <2>3, ZenonT(40)
<1>5. Apart(r, s) /\ Apart(s, r)
  BY <1>1, <1>2, OpenRowGood DEF Apart, IsRow
<1>6. Good((history \ {h}) \cup {r})
  BY <1>2, <1>3, <1>4, AddRow, DropRow, ZenonT(40)
<1>7. \A g \in (history \ {h}) \cup {r} :
            g.name = s.name => Apart(g, s) /\ Apart(s, g)
  BY <1>4, <1>5, OpenRowGood
<1>8. Good(((history \ {h}) \cup {r}) \cup {s})
  BY <1>6, <1>7, OpenRowGood, AddRow, ZenonT(40)
<1>9. ((history \ {h}) \cup {r}) \cup {s} = (history \ {h}) \cup {r, s}
  OBVIOUS
<1> QED BY <1>8, <1>9, ZenonT(40)

\* One record of the transaction.
LEMMA MergeRowKeeps ==
    ASSUME HistoryInv, MergeRow
    PROVE  HistoryInv'
<1> PICK st \in BagToSet(batch) :
        /\ batch' = batch (-) SetToBag({st})
        /\ staging' = staging (-) SetToBag({st})
        /\ taken' = IF batch' = EmptyBag THEN EmptyBag
                                         ELSE taken (+) SetToBag({st})
        /\ saved' = IF batch' = EmptyBag THEN NoTables ELSE saved
        /\ HistoryAfter(st) /\ UNCHANGED inserts
  BY DEF MergeRow
<1>1. st.ts \in Nat
  BY DEF HistoryInv, States
<1>2. Good(history')
  <2>1. Good(history)
    BY DEF HistoryInv
  <2>2. CASE Before(st) = {} /\ history' = history \cup {OpenRow(st)}
    BY <1>1, <2>1, <2>2, OpenFirst, ZenonT(40)
  <2>3. ASSUME NEW h \in history, IsPrev(h, st),
               \/ /\ Extends(h, st) /\ h.status = st.status
                  /\ history' = (history \ {h}) \cup {Continued(h, st)}
               \/ /\ Extends(h, st) /\ h.status # st.status
                  /\ history' = (history \ {h})
                                \cup {Closed_at(h, st), OpenRow(st)}
               \/ ~Extends(h, st) /\ history' = history
        PROVE  Good(history')
    BY <1>1, <2>1, <2>3, Continue, Change
  <2> QED BY <2>2, <2>3 DEF HistoryAfter
<1>3. Good(saved'.history)
  BY DEF HistoryInv, NoTables, Good, Sound
<1>4. Timed(inserts')
  BY DEF HistoryInv, Timed
<1>5. States(staging') /\ States(batch') /\ States(taken')
  <2>1. BagToSet(SetToBag({st})) = {st} /\ BagToSet(EmptyBag) = {}
    BY BagElements
  <2>2. BagToSet(staging') \subseteq BagToSet(staging)
    BY BagElements
  <2>3. BagToSet(batch') \subseteq BagToSet(batch)
    BY BagElements, Zenon
  <2>4. BagToSet(taken') \subseteq BagToSet(taken) \cup {st}
    BY <2>1, BagElements
  <2> QED BY <1>1, <2>2, <2>3, <2>4, ZenonT(40) DEF HistoryInv, States
<1> QED BY <1>2, <1>3, <1>4, <1>5, ZenonT(40) DEF HistoryInv

\* The steps that undo the transaction, or keep out of the tables.
LEMMA UndoneKeeps ==
    ASSUME HistoryInv, RollBack \/ PgStop
    PROVE  HistoryInv'
<1>1. Good(history') /\ Good(saved'.history)
  BY DEF HistoryInv, RollBack, PgStop, NoTables, Good, Sound
<1>2. Timed(inserts')
  <2>1. inserts' = inserts \/ inserts' = EmptyBag
    BY DEF RollBack, PgStop
  <2> QED BY <2>1, BagElements DEF HistoryInv, Timed
<1>3. States(staging') /\ States(batch') /\ States(taken')
  <2>1. /\ staging' = staging (+) taken
        /\ batch' = EmptyBag /\ taken' = EmptyBag
    BY DEF RollBack, PgStop
  <2>2. BagToSet(staging') = BagToSet(staging) \cup BagToSet(taken)
    BY <2>1, BagElements
  <2>3. BagToSet(batch') = {} /\ BagToSet(taken') = {}
    BY <2>1, BagElements
  <2> QED BY <2>2, <2>3 DEF HistoryInv, States
<1> QED BY <1>1, <1>2, <1>3, ZenonT(40) DEF HistoryInv

\* What the dispatcher requests and the inserters insert has a timestamp.
LEMMA InsertKeeps ==
    ASSUME HistoryInv,
           \/ \E p : Stamped(p) /\ PgReceive(p)
           \/ Insert \/ InsertFails
    PROVE  HistoryInv'
<1>1. UNCHANGED <<history, saved, batch, taken>>
  BY Zenon DEF PgReceive, Insert, InsertFails
<1>2. Timed(inserts')
  <2>1. CASE \E p : Stamped(p) /\ PgReceive(p)
    <3> PICK p : Stamped(p) /\ PgReceive(p)
      BY <2>1
    <3>1. \A r \in Requests(p) : r.kind = "STATE" => r.ts \in Nat
      BY DEF Requests, StateRow, EventRow, Stamped
    <3>2. inserts' = inserts (+) SetToBag(Requests(p))
      BY DEF PgReceive
    <3>3. BagToSet(inserts') = BagToSet(inserts) \cup Requests(p)
      BY <3>2, BagElements
    <3> QED BY <3>1, <3>3, Zenon DEF HistoryInv, Timed
  <2>2. CASE Insert \/ InsertFails
    <3>1. \E r : inserts' = inserts (-) SetToBag({r})
      BY <2>2 DEF Insert, InsertFails
    <3>2. BagToSet(inserts') \subseteq BagToSet(inserts)
      BY <3>1, BagElements, ZenonT(40)
    <3> QED BY <3>2 DEF HistoryInv, Timed
  <2> QED BY <2>1, <2>2, Zenon
<1>3. States(staging')
  <2>1. CASE Insert
    <3> PICK r \in BagToSet(inserts) :
            IF r.kind = "STATE" THEN staging' = staging (+) SetToBag({r})
                                ELSE UNCHANGED staging
      BY <2>1 DEF Insert
    <3>1. CASE r.kind = "STATE"
      <4>1. BagToSet(staging') = BagToSet(staging) \cup {r}
        BY <3>1, BagElements
      <4> QED BY <3>1, <4>1 DEF HistoryInv, Timed, States
    <3>2. CASE r.kind # "STATE"
      BY <3>2 DEF HistoryInv, States
    <3> QED BY <3>1, <3>2
  <2>2. CASE UNCHANGED staging
    BY <2>2 DEF HistoryInv, States
  <2> QED BY <2>1, <2>2, ZenonT(40) DEF PgReceive, InsertFails
<1> QED BY <1>1, <1>2, <1>3, Zenon DEF HistoryInv, States

\* A transaction begins with staged records.
LEMMA ReconcileKeeps ==
    ASSUME HistoryInv, Reconcile \/ PgBoot \/ UNCHANGED pg
    PROVE  HistoryInv'
<1>1. CASE Reconcile
  <2>1. BagToSet(batch') \subseteq BagToSet(staging)
    BY <1>1, Zenon DEF Reconcile, Oldest
  <2>2. saved'.history = history /\ UNCHANGED <<history, inserts, staging, taken>>
    BY <1>1 DEF Reconcile
  <2> QED BY <2>1, <2>2, Zenon DEF HistoryInv, States, Timed
<1>2. CASE PgBoot \/ UNCHANGED pg
  <2>1. UNCHANGED <<history, saved, inserts, staging, batch, taken>>
    BY <1>2 DEF PgBoot, pg
  <2> QED BY <2>1, Zenon DEF HistoryInv, States, Timed
<1> QED BY <1>1, <1>2

----------------------------------------------------------------------------

\* However late and out of order the inserters write what any PDUs make the
\* dispatcher request, and whatever transactions are rolled back, reconcile()
\* keeps the history of each state a sequence of periods.
THEOREM HistoryAlwaysSound ==
    ASSUME NEW CONSTANT PDUs, \A p \in PDUs : Stamped(p)
    PROVE  PgInit /\ [][PgNext(PDUs)]_pg => []HistorySound
<1>1. PgInit => HistoryInv
  <2> SUFFICES ASSUME PgInit PROVE HistoryInv
    OBVIOUS
  <2>1. history = {} /\ saved.history = {}
    BY DEF PgInit, NoTables
  <2>2. /\ BagToSet(inserts) = {} /\ BagToSet(staging) = {}
        /\ BagToSet(batch) = {} /\ BagToSet(taken) = {}
    BY BagElements DEF PgInit
  <2> QED BY <2>1, <2>2 DEF HistoryInv, Good, Sound, Timed, States
<1>2. HistoryInv /\ [PgNext(PDUs)]_pg => HistoryInv'
  BY MergeRowKeeps, UndoneKeeps, InsertKeeps, ReconcileKeeps
     DEF PgNext, PgThreads
<1>3. HistoryInv => HistorySound
  BY DEF HistoryInv, Good, Sound, Forward, Apart, HistorySound
<1> QED BY <1>1, <1>2, <1>3, PTL

----------------------------------------------------------------------------
(* bolo2rrd.                                                               *)

Req == [path : Files, type : {"COUNTER", "SAMPLE", "RATE"}, ts : Nat]

\* Whatever passes between the map, its file and the threads names one of
\* the files.
Typed ==
    /\ sent \in Nat
    /\ \A n \in DOMAIN map : map[n].path \in Files
    /\ \A l \in mapfile : l.path \in Files
    /\ DOMAIN disk = Files /\ disk = [f \in Files |-> disk[f]]
    /\ queue \in [Threads -> Seq(Req)]
    /\ doing \in [Threads -> {Idle} \cup Req]

\* The file that the creator c has looked for is still missing: nobody else
\* creates files, and an update needs one that exists.
Alone(c) == ~recreated /\ (doing[c] # Idle => ~Exists(doing[c].path))

CreatorInv(c) == Typed /\ Alone(c)

----------------------------------------------------------------------------

\* Every metric has its file.
LEMMA FileOf ==
    ASSUME NEW n \in Names PROVE Sha1[n] \in Files
BY RrdAssumption DEF Files, Range

\* Writing the map, and failing to, in all ways.
LEMMA WriteTyped ==
    ASSUME Typed, rrdmap_write \/ UNCHANGED <<mapfile, full>>
    PROVE  \A l \in mapfile' : l.path \in Files
<1>1. \A l \in Range(map) : l.path \in Files
  BY DEF Typed, Range
<1>2. mapfile' \subseteq Range(map) \/ mapfile' = mapfile
  BY DEF rrdmap_write
<1> QED BY <1>1, <1>2 DEF Typed

\* A request reaches one of the pools.
LEMMA DispatchKeeps ==
    ASSUME NEW c \in Creators, CreatorInv(c),
           NEW n \in Names, NEW t \in Types[n], Dispatch(n, t)
    PROVE  CreatorInv(c)'
<1> DEFINE file == IF n \in DOMAIN map THEN map[n] ELSE rrd_filename(n, t)
           type == IF file.type = "UNDEFINED" THEN "freed" ELSE file.type
<1>1. file.path \in Files
  BY FileOf DEF CreatorInv, Typed, rrd_filename, rrdfile_parse
<1>2. /\ map' = [x \in DOMAIN map \cup {n} |->
                    IF x = n THEN [file EXCEPT !.type = type] ELSE map[x]]
      /\ \E w \in Threads : queue' = [queue EXCEPT
                                ![w] = Append(@, Request(file.path, t))]
      /\ sent' = sent + 1
      /\ UNCHANGED <<mapfile, disk, doing, recreated>>
  BY DEF Dispatch, Push, Threads
<1>3. Request(file.path, t) \in Req
  BY <1>1, RrdAssumption DEF CreatorInv, Typed, Request, Req
<1> HIDE DEF file, type
<1>4. queue' \in [Threads -> Seq(Req)]
  BY <1>2, <1>3 DEF CreatorInv, Typed
<1>5. [file EXCEPT !.type = type].path = file.path
  OBVIOUS
<1>6. \A x \in DOMAIN map' : map'[x].path \in Files
  BY <1>1, <1>2, <1>5 DEF CreatorInv, Typed
<1>7. Typed'
  <2>1. sent' \in Nat /\ UNCHANGED <<mapfile, disk, doing>>
    BY <1>2 DEF CreatorInv, Typed
  <2> QED BY <1>4, <1>6, <2>1 DEF CreatorInv, Typed
<1>8. Alone(c)'
  BY <1>2, Zenon DEF CreatorInv, Alone, Exists
<1> QED BY <1>7, <1>8, ZenonT(40) DEF CreatorInv

\* The creator takes a request up only if the file is missing.
LEMMA CreateKeeps ==
    ASSUME NEW c, Creators = {c}, CreatorInv(c), Create(c)
    PROVE  CreatorInv(c)'
<1> c \in Threads
  BY ZenonT(40) DEF Threads
<1>1. UNCHANGED <<sent, map, mapfile>>
  BY DEF Create, CreatorStat, Misdirect, Look, CreatorCreate, CreatorFails
<1>2. CASE CreatorStat(c)
  <2>1. queue' = [queue EXCEPT ![c] = Tail(@)] /\ queue[c] # <<>>
        /\ UNCHANGED <<disk, recreated>>
    BY <1>2, ZenonT(40) DEF CreatorStat, Take, Misdirect, Look, Pop
  <2>2. queue[c] \in Seq(Req)
    BY DEF CreatorInv, Typed
  <2>3. Head(queue[c]) \in Req /\ Tail(queue[c]) \in Seq(Req)
    BY <2>1, <2>2
  <2>4. \/ UNCHANGED doing
        \/ /\ doing' = [doing EXCEPT ![c] = Head(queue[c])]
           /\ ~Exists(Head(queue[c]).path)
    BY <1>2, Zenon DEF CreatorStat, Misdirect, Look
  <2>5. Typed'
    BY <1>1, <2>1, <2>3, <2>4, ZenonT(40) DEF CreatorInv, Typed
  <2>6. Alone(c)'
    BY <2>1, <2>4 DEF CreatorInv, Typed, Alone, Exists
  <2> QED BY <2>5, <2>6, ZenonT(40) DEF CreatorInv
<1>3. CASE CreatorCreate(c) \/ CreatorFails(c)
  <2>1. doing' = [doing EXCEPT ![c] = Idle] /\ UNCHANGED queue
        /\ doing[c] # Idle
    BY <1>3, ZenonT(40) DEF CreatorCreate, CreatorFails, Done
  <2>2. DOMAIN disk' = Files /\ disk' = [f \in Files |-> disk'[f]]
    BY <1>3 DEF CreatorCreate, CreatorFails, CreatorInv, Typed
  <2>3. ~recreated'
    BY <1>3, <2>1, ZenonT(40) DEF CreatorCreate, CreatorFails, CreatorInv, Alone
  <2>4. Typed'
    BY <1>1, <2>1, <2>2 DEF CreatorInv, Typed
  <2>5. Alone(c)'
    BY <2>1, <2>3 DEF CreatorInv, Typed, Alone
  <2> QED BY <2>4, <2>5 DEF CreatorInv
<1> QED BY <1>2, <1>3, ZenonT(40) DEF Create

\* An updater only changes files that exist.
LEMMA UpdateKeeps ==
    ASSUME NEW c \in Creators, CreatorInv(c), NEW w \in Updaters, Update(w)
    PROVE  CreatorInv(c)'
<1> c \in Threads /\ w \in Threads /\ w # c
  BY RrdAssumption, ZenonT(40) DEF Threads
<1>1. UNCHANGED <<sent, map, mapfile, recreated>>
  BY DEF Update, UpdaterStat, Misdirect, Look, UpdaterUpdate, UpdaterFails
<1>2. CASE UpdaterStat(w)
  <2>1. queue' = [queue EXCEPT ![w] = Tail(@)] /\ queue[w] # <<>>
        /\ UNCHANGED disk
    BY <1>2, Zenon DEF UpdaterStat, Take, Misdirect, Look, Pop
  <2>2. queue[w] \in Seq(Req)
    BY DEF CreatorInv, Typed
  <2>3. Head(queue[w]) \in Req /\ Tail(queue[w]) \in Seq(Req)
    BY <2>1, <2>2
  <2>4. \/ UNCHANGED doing
        \/ doing' = [doing EXCEPT ![w] = Head(queue[w])]
    BY <1>2, Zenon DEF UpdaterStat, Misdirect, Look
  <2>5. Typed'
    BY <1>1, <2>1, <2>3, <2>4, ZenonT(40) DEF CreatorInv, Typed
  <2>6. Alone(c)'
    BY <1>1, <2>1, <2>4 DEF CreatorInv, Typed, Alone, Exists
  <2> QED BY <2>5, <2>6, Zenon DEF CreatorInv
<1>3. CASE UpdaterUpdate(w) \/ UpdaterFails(w)
  <2>1. doing' = [doing EXCEPT ![w] = Idle] /\ UNCHANGED queue
    BY <1>3, ZenonT(40) DEF UpdaterUpdate, UpdaterFails, Done
  <2>2. /\ DOMAIN disk' = Files /\ disk' = [f \in Files |-> disk'[f]]
        /\ \A f \in Files : disk[f] = Absent => disk'[f] = Absent
    <3>1. CASE UpdaterFails(w)
      BY <3>1, Zenon DEF UpdaterFails, CreatorInv, Typed
    <3>2. CASE UpdaterUpdate(w)
      <4>1. disk[doing[w].path] # Absent
        BY <3>2 DEF UpdaterUpdate, Accepts, Exists
      <4> DEFINE g == doing[w].path
      <4>2. \E y : disk' = [disk EXCEPT ![g] = y]
        BY <3>2, Zenon DEF UpdaterUpdate
      <4> HIDE DEF g
      <4> QED BY <4>1, <4>2, ZenonT(40) DEF CreatorInv, Typed, g
    <3> QED BY <1>3, <3>1, <3>2, ZenonT(40)
  <2>3. Typed'
    BY <1>1, <2>1, <2>2 DEF CreatorInv, Typed
  <2>4. doing[c] # Idle => doing[c].path \in Files
    BY DEF CreatorInv, Typed, Req
  <2>5. Alone(c)'
    BY <1>1, <2>1, <2>2, <2>4, ZenonT(40) DEF CreatorInv, Typed, Alone, Exists
  <2> QED BY <2>3, <2>5, Zenon DEF CreatorInv
<1> QED BY <1>2, <1>3 DEF Update

\* What happens to the process, and to the files from outside.
LEMMA OutsideKeeps ==
    ASSUME NEW c \in Creators, CreatorInv(c),
           \/ Tock \/ Stop \/ Boot
           \/ \E f \in Files : Remove(f)
           \/ UNCHANGED vars
    PROVE  CreatorInv(c)'
<1> c \in Threads
  BY DEF Threads
<1>1. CASE Tock
  <2>1. \A l \in mapfile' : l.path \in Files
    BY <1>1, WriteTyped DEF Tock, CreatorInv
  <2>2. UNCHANGED <<sent, map, disk, queue, doing, recreated>>
    BY <1>1 DEF Tock
  <2> QED BY <2>1, <2>2 DEF CreatorInv, Typed, Alone, Exists
<1>2. CASE Stop
  <2>1. \A l \in mapfile' : l.path \in Files
    BY <1>2, WriteTyped, ZenonT(40) DEF Stop, CreatorInv
  <2>2. /\ map' = <<>> /\ queue' = [w \in Threads |-> <<>>]
        /\ doing' = [w \in Threads |-> Idle]
        /\ UNCHANGED <<sent, disk, recreated>>
    BY <1>2 DEF Stop
  <2>3. <<>> \in Seq(Req) /\ DOMAIN map' = {}
    BY <2>2
  <2>4. Typed'
    BY <2>1, <2>2, <2>3, ZenonT(40) DEF CreatorInv, Typed
  <2>5. Alone(c)'
    BY <2>2, ZenonT(40) DEF CreatorInv, Alone
  <2> QED BY <2>4, <2>5, Zenon DEF CreatorInv
<1>3. CASE Boot
  <2>1. \A n \in DOMAIN rrdmap_read : rrdmap_read[n].path \in Files
    BY DEF CreatorInv, Typed, rrdmap_read, rrdfile_parse
  <2>2. /\ map' = rrdmap_read \/ UNCHANGED map
        /\ UNCHANGED <<sent, mapfile, disk, queue, doing, recreated>>
    BY <1>3, Zenon DEF Boot
  <2> QED BY <2>1, <2>2, ZenonT(40) DEF CreatorInv, Typed, Alone, Exists
<1>4. ASSUME NEW f \in Files, Remove(f) PROVE CreatorInv(c)'
  <2>1. /\ disk' = [disk EXCEPT ![f] = Absent]
        /\ UNCHANGED <<sent, map, mapfile, queue, doing, recreated>>
    BY <1>4 DEF Remove
  <2>2. doing[c] # Idle => doing[c].path \in Files
    BY ZenonT(40) DEF CreatorInv, Typed, Req
  <2> QED BY <2>1, <2>2, ZenonT(40) DEF CreatorInv, Typed, Alone, Exists
<1>5. CASE UNCHANGED vars
  BY <1>5 DEF vars, CreatorInv, Typed, Alone, Exists
<1> QED BY <1>1, <1>2, <1>3, <1>4, <1>5

----------------------------------------------------------------------------

\* With one creator (--creators 1) a file that exists is never created again,
\* although stat() and rrd_create_r() are two steps and files come and go
\* between them.
THEOREM OneCreatorCreatesOnce ==
    ASSUME NEW CONSTANT c, Creators = {c}
    PROVE  Spec => []CreatedOnce
<1>1. Init => CreatorInv(c)
  <2> SUFFICES ASSUME Init PROVE CreatorInv(c)
    OBVIOUS
  <2>1. <<>> \in Seq(Req) /\ DOMAIN <<>> = {}
    OBVIOUS
  <2> QED BY <2>1 DEF Init, CreatorInv, Typed, Alone, Threads
<1>2. CreatorInv(c) /\ [Next]_vars => CreatorInv(c)'
  <2> SUFFICES ASSUME CreatorInv(c), [Next]_vars PROVE CreatorInv(c)'
    OBVIOUS
  <2> c \in Creators /\ \A w \in Creators : w = c
    OBVIOUS
  <2> QED BY DispatchKeeps, CreateKeeps, UpdateKeeps, OutsideKeeps, ZenonT(40)
          DEF Next
<1>3. CreatorInv(c) => CreatedOnce
  BY DEF CreatorInv, Alone, CreatedOnce
<1> QED BY <1>1, <1>2, <1>3, PTL DEF Spec

----------------------------------------------------------------------------
(* The map of bolo2rrd.                                                    *)

Listed == {l.name : l \in mapfile}

\* Every record in the map is about its name; and until a full disk cuts it
\* short the file lists only what a running process has in its map.
MapInv ==
    /\ \A n \in DOMAIN map : \E t, f : map[n] = rrdfile_parse(n, t, f)
    /\ ~full /\ up => Listed \subseteq DOMAIN map

\* The name of such a record.
LEMMA ParsedName ==
    ASSUME NEW n, NEW t, NEW f
    PROVE  rrdfile_parse(n, t, f).name = n
BY DEF rrdfile_parse

\* The file is written with all that is in the map, or is left as it was.
LEMMA MapWritten ==
    ASSUME MapInv, up, rrdmap_write \/ UNCHANGED <<mapfile, full>>, ~full'
    PROVE  Listed \subseteq Listed' /\ Listed' \subseteq DOMAIN map
<1>1. ~full /\ Listed \subseteq DOMAIN map
  <2>1. full' = full
    BY DEF rrdmap_write
  <2> QED BY <2>1, Zenon DEF MapInv
<1>2. CASE mapfile' = mapfile
  BY <1>1, <1>2, ZenonT(40) DEF Listed
<1>3. CASE mapfile' = Range(map)
  <2>1. ASSUME NEW n \in DOMAIN map PROVE map[n].name = n /\ map[n] \in mapfile'
    <3>1. PICK t, f : map[n] = rrdfile_parse(n, t, f)
      BY Zenon DEF MapInv
    <3>2. map[n].name = n
      BY <3>1, ParsedName
    <3> QED BY <1>3, <3>2, Zenon DEF Range
  <2>2. \A l \in mapfile' : \E n \in DOMAIN map : l = map[n]
    BY <1>3, Zenon DEF Range
  <2>3. Listed' = DOMAIN map
    <3>1. \A n \in DOMAIN map : n \in Listed'
      BY <2>1, Zenon DEF Listed
    <3>2. \A n \in Listed' : n \in DOMAIN map
      BY <2>1, <2>2 DEF Listed
    <3> QED BY <3>1, <3>2, ZenonT(40)
  <2> QED BY <1>1, <2>3, ZenonT(40)
<1> QED BY <1>2, <1>3, ZenonT(40) DEF rrdmap_write

\* Nothing else writes it, and what is dispatched stays in the map.
LEMMA MapSteps ==
    ASSUME MapInv, [Next]_vars
    PROVE  MapInv' /\ (full' \/ Listed \subseteq Listed')
<1>1. ASSUME NEW n \in Names, NEW t \in Types[n], Dispatch(n, t)
      PROVE  MapInv' /\ (full' \/ Listed \subseteq Listed')
  <2> DEFINE file == IF n \in DOMAIN map THEN map[n] ELSE rrd_filename(n, t)
             type == IF file.type = "UNDEFINED" THEN "freed" ELSE file.type
  <2>1. /\ map' = [x \in DOMAIN map \cup {n} |->
                        IF x = n THEN [file EXCEPT !.type = type] ELSE map[x]]
        /\ UNCHANGED <<up, mapfile, full>>
    BY <1>1, Zenon DEF Dispatch
  <2>2. \E u, f : file = rrdfile_parse(n, u, f)
    BY Zenon DEF MapInv, rrd_filename
  <2> HIDE DEF type, file
  <2>3. \E u, f : [file EXCEPT !.type = type] = rrdfile_parse(n, u, f)
    <3>1. PICK u, f : file = rrdfile_parse(n, u, f)
      BY <2>2, Zenon
    <3>2. [rrdfile_parse(n, u, f) EXCEPT !.type = type] = rrdfile_parse(n, type, f)
      BY DEF rrdfile_parse
    <3> QED BY <3>1, <3>2, ZenonT(40)
  <2>4. \A x \in DOMAIN map' : \E u, f : map'[x] = rrdfile_parse(x, u, f)
    BY <2>1, <2>3, Zenon DEF MapInv
  <2> QED BY <2>1, <2>4, ZenonT(40) DEF MapInv, Listed
<1>2. ASSUME Tock PROVE MapInv' /\ (full' \/ Listed \subseteq Listed')
  <2>1. up /\ rrdmap_write /\ UNCHANGED <<up, map>>
    BY <1>2, ZenonT(40) DEF Tock
  <2>2. ~full' => Listed \subseteq Listed' /\ Listed' \subseteq DOMAIN map
    BY <2>1, MapWritten, ZenonT(40)
  <2> QED BY <2>1, <2>2, ZenonT(40) DEF MapInv
<1>3. ASSUME Stop PROVE MapInv' /\ (full' \/ Listed \subseteq Listed')
  <2>1. /\ up /\ (rrdmap_write \/ UNCHANGED <<mapfile, full>>)
        /\ up' = FALSE /\ map' = <<>>
    BY <1>3, Zenon DEF Stop
  <2>2. ~full' => Listed \subseteq Listed'
    BY <2>1, MapWritten, ZenonT(40)
  <2>3. DOMAIN map' = {}
    BY <2>1
  <2> QED BY <2>1, <2>2, <2>3, ZenonT(40) DEF MapInv
<1>4. ASSUME Boot PROVE MapInv' /\ (full' \/ Listed \subseteq Listed')
  <2>1. /\ ~up /\ UNCHANGED <<mapfile, full>>
        /\ \/ map' = rrdmap_read
           \/ UNCHANGED <<up, map>>
    BY <1>4, Zenon DEF Boot
  <2>2. CASE map' = rrdmap_read
    <3>1. DOMAIN map' = Listed
      BY <2>2, Zenon DEF rrdmap_read, Listed
    <3>2. \A n \in DOMAIN map' : \E t, f : map'[n] = rrdfile_parse(n, t, f)
      BY <2>2, Zenon DEF rrdmap_read
    <3> QED BY <2>1, <3>1, <3>2, ZenonT(40) DEF MapInv, Listed
  <2>3. CASE UNCHANGED <<up, map>>
    BY <2>1, <2>3, ZenonT(40) DEF MapInv, Listed
  <2> QED BY <2>1, <2>2, <2>3, ZenonT(40)
<1>5. ASSUME UNCHANGED <<up, map, mapfile, full>>
      PROVE  MapInv' /\ (full' \/ Listed \subseteq Listed')
  BY <1>5, Zenon DEF MapInv, Listed
<1>6. ASSUME NEW w, Create(w) \/ Update(w) PROVE UNCHANGED <<up, map, mapfile, full>>
  BY <1>6, ZenonT(40) DEF Create, Update, CreatorStat, CreatorCreate,
                          CreatorFails,
     UpdaterStat, UpdaterUpdate, UpdaterFails, Misdirect, Look
<1>7. ASSUME NEW f, Remove(f) PROVE UNCHANGED <<up, map, mapfile, full>>
  BY <1>7, Zenon DEF Remove
<1>8. ASSUME UNCHANGED vars PROVE UNCHANGED <<up, map, mapfile, full>>
  BY <1>8, Zenon DEF vars
<1> QED BY <1>1, <1>2, <1>3, <1>4, <1>5, <1>6, <1>7, <1>8, ZenonT(40) DEF Next

\* The file that the map is kept in never forgets a metric, until a full disk
\* cuts it short: rrdmap_write() replaces it by one with all that the process
\* has, which has all that the file had when it was started.
THEOREM MapNeverShrinks == Spec => MapGrows
<1>1. Init => MapInv
  <2> SUFFICES ASSUME Init PROVE MapInv
    OBVIOUS
  <2>1. DOMAIN map = {} /\ Listed = {}
    BY DEF Init, Listed
  <2> QED BY <2>1, Zenon DEF MapInv
<1>2. MapInv /\ [Next]_vars => MapInv'
  BY MapSteps
<1>3. MapInv /\ [Next]_vars =>
        [full' \/ {l.name : l \in mapfile} \subseteq {l.name : l \in mapfile'}]_vars
  BY MapSteps, Zenon DEF Listed
<1> QED BY <1>1, <1>2, <1>3, PTL DEF Spec, MapGrows

=============================================================================
