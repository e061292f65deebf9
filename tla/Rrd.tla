-------------------------------- MODULE Rrd --------------------------------
(***************************************************************************)
(* bolo2rrd (src/bolo2rrd/main.c): a dispatcher turns every metric that    *)
(* the aggregator broadcasts into a request to create an RRD file or to    *)
(* update it, and two pools of threads carry the requests out.  A PUSH     *)
(* socket hands each request to one of the threads, which queues it.       *)
(* Nothing but the disk is shared between the threads: each one looks      *)
(* whether the file exists, and acts on what it saw in a later step.       *)
(*                                                                         *)
(* The n-th metric that arrives has the timestamp n.  The cache daemon     *)
(* (rrdcached) is not modelled: files are read and written directly.       *)
(***************************************************************************)
EXTENDS Naturals, Sequences, FiniteSets, Functions, Folds

CONSTANTS
    Names,           \* of metrics
    Sha1,            \* where the file of each is kept
    Types,           \* of the PDUs that carry each
    Creators, Updaters,   \* the threads of both pools
    Idle,            \* stands for no request
    MaxPdus,         \* bound: metrics that arrive
    MaxKills,        \* bound: times the process is started again
    MaxRemoved       \* bound: files that someone removes

ASSUME RrdAssumption ==
    /\ IsInjective(Sha1) /\ DOMAIN Sha1 = Names
    /\ \A n \in Names : Types[n] \subseteq {"COUNTER", "SAMPLE", "RATE"}
    /\ Creators \cap Updaters = {} /\ Creators # {} /\ Updaters # {}
    /\ MaxPdus \in Nat /\ MaxKills \in Nat /\ MaxRemoved \in Nat

Threads == Creators \cup Updaters
Files   == Range(Sha1)
Absent  == [type |-> "none", last |-> 0, vals |-> {}]

VARIABLES
    up,              \* the process runs
    map, mapfile,    \* rrdmap_t, and the file it is kept in
    disk,            \* the RRD files
    queue, doing,    \* requests of each thread: waiting, and looked at
    sent, count,     \* requests sent, and what the monitor was told
    kills, removed,  \* how often each happened
    recreated, dropped, full    \* history: rrd_create_r() replaced a file;
                     \* requests that ended with the process; a short write

vars == <<up, map, mapfile, disk, queue, doing, sent, count, kills, removed,
          recreated, dropped, full>>

SumOver(S, f(_)) == MapThenFoldSet(LAMBDA x, y : x + y, 0, f,
                                   LAMBDA T : CHOOSE x \in T : TRUE, S)

Metrics == {"create.ops", "create.errors", "create.misdirects",
            "update.ops", "update.errors", "update.misdirects"}

Add(m) == count' = [count EXCEPT ![m] = @ + 1]

Exists(f) == disk[f] # Absent

----------------------------------------------------------------------------
(* The map of names to files.                                              *)

rrdfile_parse(n, t, sha1) == [name |-> n, type |-> t, path |-> sha1]

rrd_filename(n, t) == rrdfile_parse(n, t, Sha1[n])

Bad_rrdmap_read == <<>>

\* A line is the path, the name and the type.  A name that is the same word
\* as its type comes back as UNDEFINED.
rrdmap_read ==
    [n \in {l.name : l \in mapfile} |->
        LET l == CHOOSE x \in mapfile : x.name = n
        IN  rrdfile_parse(n, IF n = l.type THEN "UNDEFINED" ELSE l.type,
                          l.path)]

\* The lines are written to a temporary file, which then replaces the old
\* one.  Nobody looks whether fprintf() succeeded.
rrdmap_write ==
    \/ mapfile' = Range(map) /\ UNCHANGED full
    \/ UNCHANGED <<mapfile, full>>              \* fopen or rename fails
    \/ mapfile' \in SUBSET Range(map) /\ full' = TRUE  \* the disk is full

----------------------------------------------------------------------------
(* The dispatcher.                                                         *)

Request(f, t) == [path |-> f, type |-> t, ts |-> sent + 1]

\* A request goes to any thread of the pool.
Push(pool, req) == \E w \in pool : queue' = [queue EXCEPT ![w] = Append(@, req)]

\* A COUNTER, SAMPLE or RATE; every other PDU is ignored.  An UNDEFINED type
\* becomes that of the PDU, whose memory is then freed.
Dispatch(n, t) ==
    /\ up /\ sent < MaxPdus
    /\ LET file == IF n \in DOMAIN map THEN map[n] ELSE rrd_filename(n, t)
           type == IF file.type = "UNDEFINED" THEN "freed" ELSE file.type
       IN  /\ map' = [x \in DOMAIN map \cup {n} |->
                        IF x = n THEN [file EXCEPT !.type = type] ELSE map[x]]
           /\ IF Exists(file.path)
              THEN Push(Updaters, Request(file.path, t))
              ELSE Push(Creators, Request(file.path, t))
    /\ sent' = sent + 1
    /\ UNCHANGED <<up, mapfile, disk, doing, count, kills, removed,
                   recreated, dropped, full>>

Tock ==
    /\ up /\ rrdmap_write
    /\ UNCHANGED <<up, map, disk, queue, doing, sent, count, kills, removed,
                   recreated, dropped>>

----------------------------------------------------------------------------
(* The creators and the updaters.  stat() and what follows it are two      *)
(* steps; the request stays in doing[w] in between.                        *)

Take(w) == up /\ doing[w] = Idle /\ queue[w] # <<>>
Pop(w)  == queue' = [queue EXCEPT ![w] = Tail(@)]
Done(w) == doing' = [doing EXCEPT ![w] = Idle]

Look(w) ==
    /\ Pop(w) /\ doing' = [doing EXCEPT ![w] = Head(queue[w])]
    /\ UNCHANGED <<up, map, mapfile, disk, sent, count, kills, removed,
                   recreated, dropped, full>>

Misdirect(w, metric) ==
    /\ Pop(w) /\ Add(metric)
    /\ UNCHANGED <<up, map, mapfile, disk, doing, sent, kills, removed,
                   recreated, dropped, full>>

Bad_CreatorStat(w) == Take(w) /\ Look(w)

CreatorStat(w) ==
    /\ Take(w)
    /\ IF Exists(Head(queue[w]).path) THEN Misdirect(w, "create.misdirects")
                                      ELSE Look(w)

\* rrd_create_r() replaces a file that has appeared since stat().
CreatorCreate(w) ==
    /\ up /\ doing[w] # Idle /\ Done(w) /\ Add("create.ops")
    /\ LET f == doing[w].path
       IN  /\ disk' = [disk EXCEPT ![f] = [type |-> doing[w].type,
                                           last |-> 0, vals |-> {}]]
           /\ recreated' = (recreated \/ Exists(f))
    /\ UNCHANGED <<up, map, mapfile, queue, sent, kills, removed, dropped,
                   full>>

CreatorFails(w) ==
    /\ up /\ doing[w] # Idle /\ Done(w) /\ Add("create.errors")
    /\ UNCHANGED <<up, map, mapfile, disk, queue, sent, kills, removed,
                   recreated, dropped, full>>

Bad_UpdaterStat(w) ==
    /\ Take(w)
    /\ IF ~Exists(Head(queue[w]).path)
       THEN /\ Pop(w) /\ UNCHANGED count
            /\ UNCHANGED <<up, map, mapfile, disk, doing, sent, kills,
                           removed, recreated,
                   dropped, full>>
       ELSE Look(w)

UpdaterStat(w) ==
    /\ Take(w)
    /\ IF ~Exists(Head(queue[w]).path)
       THEN \/ Misdirect(w, "update.misdirects")
            \/ Misdirect(w, "update.errors")    \* errno is not ENOENT
       ELSE Look(w)

\* The values of an update are those of the data sources of its type.
Sources(t) == IF t = "SAMPLE" THEN 6 ELSE 1

\* rrd_update_r() refuses a wrong number of values, and a timestamp that is
\* not later than the last one.
Accepts(f, req) == /\ Exists(f) /\ Sources(disk[f].type) = Sources(req.type)
                   /\ disk[f].last < req.ts

UpdaterUpdate(w) ==
    /\ up /\ doing[w] # Idle /\ Done(w)
    /\ Accepts(doing[w].path, doing[w]) /\ Add("update.ops")
    /\ disk' = [disk EXCEPT ![doing[w].path].last = doing[w].ts,
                            ![doing[w].path].vals = @ \cup {doing[w].ts}]
    /\ UNCHANGED <<up, map, mapfile, queue, sent, kills, removed,
                   recreated, dropped, full>>

UpdaterFails(w) ==
    /\ up /\ doing[w] # Idle /\ Done(w) /\ Add("update.errors")
    /\ UNCHANGED <<up, map, mapfile, disk, queue, sent, kills, removed,
                   recreated, dropped, full>>

----------------------------------------------------------------------------
(* The process, and the rest of the world.                                 *)

\* Someone removes a file.
Remove(f) ==
    /\ Exists(f) /\ removed < MaxRemoved
    /\ disk' = [disk EXCEPT ![f] = Absent] /\ removed' = removed + 1
    /\ UNCHANGED <<up, map, mapfile, queue, doing, sent, count, kills,
                   recreated,
                   dropped, full>>

Pending == SumOver(Threads, LAMBDA w : Len(queue[w]))
           + Cardinality({w \in Threads : doing[w] # Idle})

\* TERMINATE reaches the dispatcher and the map is flushed, or the context is
\* destroyed first, or the process dies: then it is not.
Stop ==
    /\ up /\ (rrdmap_write \/ UNCHANGED <<mapfile, full>>)
    /\ up' = FALSE /\ map' = <<>>
    /\ queue' = [w \in Threads |-> <<>>]
    /\ doing' = [w \in Threads |-> Idle]
    /\ dropped' = dropped + Pending
    /\ UNCHANGED <<disk, sent, count, kills, removed, recreated>>

\* dispatcher_thread(), creator_thread() and updater_thread(); if one of them
\* fails, the process ends.
Boot ==
    /\ ~up /\ kills < MaxKills /\ kills' = kills + 1
    /\ \/ up' = TRUE /\ map' = rrdmap_read
       \/ UNCHANGED <<up, map>>
    /\ UNCHANGED <<mapfile, disk, queue, doing, sent, count, removed,
                   recreated, dropped, full>>

Init ==
    /\ up = TRUE /\ map = <<>> /\ mapfile = {}
    /\ disk = [f \in Files |-> Absent]
    /\ queue = [w \in Threads |-> <<>>]
    /\ doing = [w \in Threads |-> Idle]
    /\ sent = 0 /\ count = [m \in Metrics |-> 0]
    /\ kills = 0 /\ removed = 0
    /\ recreated = FALSE /\ dropped = 0 /\ full = FALSE

Create(w) == CreatorStat(w) \/ CreatorCreate(w) \/ CreatorFails(w)
Update(w) == UpdaterStat(w) \/ UpdaterUpdate(w) \/ UpdaterFails(w)

Next ==
    \/ \E n \in Names : \E t \in Types[n] : Dispatch(n, t)
    \/ \E w \in Creators : Create(w)
    \/ \E w \in Updaters : Update(w)
    \/ Tock \/ Stop \/ Boot
    \/ \E f \in Files : Remove(f)

Spec == Init /\ [][Next]_vars

----------------------------------------------------------------------------
(* Properties.                                                             *)

\* Every metric that was dispatched waits for a thread, is in the hands of
\* one, ended with the process, or was counted as exactly one operation,
\* error or misdirect: none is dropped silently or counted twice.
Accounted ==
    sent = Pending + dropped + SumOver(Metrics, LAMBDA m : count[m])

\* A file that exists is never created again, so that the values stored in it
\* stay: "All subsequent duplicate create requests will be considered
\* 'misdirected'".
CreatedOnce == ~recreated

\* The map on disk forgets no metric, through restarts, failing writes and a
\* process that dies at any time, until a full disk cuts it short.
MapGrows ==
    [][full' \/ {l.name : l \in mapfile} \subseteq {l.name : l \in mapfile'}]_vars

=============================================================================
