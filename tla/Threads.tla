------------------------------ MODULE Threads ------------------------------
(***************************************************************************)
(* The threads of the daemons: how the aggregator (src/core.c) and the     *)
(* subscribers that use src/bolo_subscriber.c start their threads, what    *)
(* these tell the monitor thread, and how a signal ends the process.       *)
(*                                                                         *)
(* The main thread blocks all signals, makes the threads one by one, each  *)
(* with its sockets, and becomes the supervisor: it waits for a signal,    *)
(* publishes TERMINATE and destroys the 0MQ context, which makes all calls *)
(* of the other threads fail and waits until they have closed all sockets. *)
(*                                                                         *)
(* The monitor adds up what the others count and hands it to the           *)
(* aggregator at each TOCK; of samples it submits the median.              *)
(***************************************************************************)
EXTENDS Integers, Sequences, FiniteSets

CONSTANTS
    Programs,    \* the daemons looked at
    MaxSamples,  \* MAX_SAMPLES: the values that a metric has room for
    Values,      \* of SAMPLE messages
    HWM,         \* the messages that fit in the pipe to the monitor
    MaxTold      \* bound: the messages that the threads of each program send to
                 \* the monitor

ASSUME ThreadsAssumption ==
    /\ Programs \subseteq {"bolo", "bolo2pg", "bolo2rrd", "bolo2influxdb",
                           "bolo2meta", "bolo2console", "bolo cache"}
    /\ MaxSamples \in Nat \ {0} /\ Values \subseteq Nat
    /\ HWM \in Nat \ {0} /\ MaxTold \in [Programs -> Nat]

----------------------------------------------------------------------------
(* The sockets that the constructor of each thread opens.                  *)

core_kernel_thread     == {"control", "tock", "listener", "broadcast",
                           "beacon", "management"}
core_scheduler_thread  == {"control", "tick"}
monitor_thread         == {"control", "tock", "input", "submission"}
scheduler_thread       == {"control", "tick"}
reconciler_thread      == {"control", "monitor", "tock"}
inserter_thread        == {"control", "monitor", "queue"}
creator_thread         == {"control", "monitor", "queue"}
updater_thread         == {"control", "monitor", "queue"}
artist_thread          == {"control", "tock", "subscriber"}
pg_dispatcher_thread   == {"control", "monitor", "subscriber", "inserts"}
rrd_dispatcher_thread  == {"control", "monitor", "tock", "subscriber",
                           "updates", "creates"}
influx_dispatcher_thread == {"control", "monitor", "tock", "subscriber"}
meta_dispatcher_thread == {"control", "monitor", "subscriber"}
cache_dispatcher_thread == {"control", "subscriber", "listen", "broadcast"}

Opens(p, t) ==
    CASE t = "kernel"     -> core_kernel_thread
      [] t = "scheduler"  -> IF p = "bolo" THEN core_scheduler_thread
                                           ELSE scheduler_thread
      [] t = "monitor"    -> monitor_thread
      [] t = "reconciler" -> reconciler_thread
      [] t = "inserter"   -> inserter_thread
      [] t = "creator"    -> creator_thread
      [] t = "updater"    -> updater_thread
      [] t = "artist"     -> artist_thread
      [] t = "dispatcher" -> CASE p = "bolo2pg"       -> pg_dispatcher_thread
                               [] p = "bolo2rrd"      -> rrd_dispatcher_thread
                               [] p = "bolo2influxdb" -> influx_dispatcher_thread
                               [] p = "bolo2meta"     -> meta_dispatcher_thread
                               [] p = "bolo cache"    -> cache_dispatcher_thread

(* The sockets that each thread closes once its reactor or loop is done.   *)

kernel_closes     == {"control", "tock", "listener", "broadcast",
                      "management", "beacon"}
core_scheduler_closes == {"control", "tick"}
monitor_closes    == {"control", "tock", "input", "submission"}
scheduler_closes  == {"control", "tick"}
reconciler_closes == {"control", "tock", "monitor"}
inserter_closes   == {"queue", "control", "monitor"}
creator_closes    == {"control", "monitor", "queue"}
updater_closes    == {"control", "monitor", "queue"}
artist_closes     == {"control", "tock", "subscriber"}
pg_dispatcher_closes == {"control", "monitor", "subscriber", "inserts"}

Bad_rrd_dispatcher_closes == {"subscriber", "updates", "creates", "monitor",
                              "control"}

rrd_dispatcher_closes == {"subscriber", "updates", "creates", "monitor",
                          "tock", "control"}
influx_dispatcher_closes == {"subscriber", "monitor", "tock", "control"}
meta_dispatcher_closes   == {"subscriber", "monitor", "control"}
cache_dispatcher_closes  == {"broadcast", "listen", "subscriber", "control"}

Closes(p, t) ==
    CASE t = "kernel"     -> kernel_closes
      [] t = "scheduler"  -> IF p = "bolo" THEN core_scheduler_closes
                                           ELSE scheduler_closes
      [] t = "monitor"    -> monitor_closes
      [] t = "reconciler" -> reconciler_closes
      [] t = "inserter"   -> inserter_closes
      [] t = "creator"    -> creator_closes
      [] t = "updater"    -> updater_closes
      [] t = "artist"     -> artist_closes
      [] t = "dispatcher" -> CASE p = "bolo2pg"       -> pg_dispatcher_closes
                               [] p = "bolo2rrd"      -> rrd_dispatcher_closes
                               [] p = "bolo2influxdb" -> influx_dispatcher_closes
                               [] p = "bolo2meta"     -> meta_dispatcher_closes
                               [] p = "bolo cache"    -> cache_dispatcher_closes

(* The threads of each program, in the order in which main() makes them.   *)

aggregator_main    == <<"kernel", "scheduler">>
bolo2pg_main       == <<"monitor", "scheduler", "reconciler", "dispatcher",
                        "inserter">>
bolo2rrd_main      == <<"monitor", "scheduler", "dispatcher", "creator",
                        "updater">>
bolo2influxdb_main == <<"monitor", "scheduler", "dispatcher">>
bolo2meta_main     == <<"monitor", "scheduler", "dispatcher">>
bolo2console_main  == <<"scheduler", "artist">>
cache_main         == <<"dispatcher">>

Constructors(p) == CASE p = "bolo"          -> aggregator_main
                     [] p = "bolo2pg"       -> bolo2pg_main
                     [] p = "bolo2rrd"      -> bolo2rrd_main
                     [] p = "bolo2influxdb" -> bolo2influxdb_main
                     [] p = "bolo2meta"     -> bolo2meta_main
                     [] p = "bolo2console"  -> bolo2console_main
                     [] p = "bolo cache"    -> cache_main

ThreadNames == {"monitor", "scheduler", "kernel", "dispatcher", "inserter",
                "reconciler", "creator", "updater", "artist"}

----------------------------------------------------------------------------

VARIABLES
    prog,        \* the program
    main,        \* where its main thread is
    made,        \* how many threads it has made
    thread,      \* where each thread is
    open,        \* the open sockets, as pairs of thread and socket
    signal,      \* a SIGTERM or SIGINT is pending
    told,        \* the threads that TERMINATE has reached
    eterm,       \* the context is being destroyed
    unmade,      \* the monitor thread was not created
    input,       \* the messages in the pipe to the monitor
    sending,     \* how many messages the threads have sent
    tocks,       \* TOCKs that the monitor has not handled
    unsent,      \* submissions are still queued in the monitor's PUSH socket
    count, samples, nsamples,   \* its metrics "c" and "s"
    counted,     \* ghost: what COUNT messages in or out of the pipe add up to
    submitted,   \* ghost: what the submitted counters add up to
    values,      \* ghost: the samples received since the last TOCK
    median       \* twice the median last submitted

life == <<prog, main, made, thread, open, signal, told, eterm, unmade>>
metrics == <<count, samples, nsamples, counted, submitted, values, median,
             unsent>>
tvars == <<life, input, sending, tocks, metrics>>

Empty == [i \in 1..MaxSamples |-> 0]

ThreadsInit ==
    /\ prog \in Programs
    /\ main = "starting" /\ made = 0
    /\ thread = [t \in ThreadNames |-> "none"]
    /\ open = {} /\ signal = FALSE /\ told = {} /\ eterm = FALSE
    /\ unmade = FALSE
    /\ input = <<>> /\ sending = 0 /\ tocks = 0
    /\ count = 0 /\ samples = Empty /\ nsamples = 0
    /\ counted = 0 /\ submitted = 0 /\ values = <<>> /\ median = 0
    /\ unsent = FALSE

----------------------------------------------------------------------------
(* The main thread.  Signals are blocked from the start: one that arrives  *)
(* early stays pending until the supervisor waits for it.                  *)

Signal == /\ ~signal /\ signal' = TRUE
          /\ UNCHANGED <<prog, main, made, thread, open, told, eterm, unmade,
                         input, sending, tocks, metrics>>

NextThread == Constructors(prog)[made + 1]

\* The calls of the constructor of the next thread succeed.  That of the
\* monitor does not look at what pthread_create() returns.
Make ==
    /\ main = "starting" /\ made < Len(Constructors(prog))
    /\ LET t == NextThread IN
       /\ open' = open \cup ({t} \X Opens(prog, t))
       /\ \/ thread' = [thread EXCEPT ![t] = "running"] /\ UNCHANGED unmade
          \/ t = "monitor" /\ unmade' = TRUE /\ UNCHANGED thread
    /\ made' = made + 1
    /\ UNCHANGED <<prog, main, signal, told, eterm, input, sending, tocks,
                   metrics>>

\* One of them, or a call of the supervisor for its socket, fails: main() ends
\* the process, and all threads with it.
MakeFails ==
    /\ main = "starting" /\ main' = "failed"
    /\ UNCHANGED <<prog, made, thread, open, signal, told, eterm, unmade,
                   input, sending, tocks, metrics>>

Supervise ==
    /\ main = "starting" /\ made = Len(Constructors(prog))
    /\ main' = "waiting" /\ open' = open \cup {<<"main", "command">>}
    /\ UNCHANGED <<prog, made, thread, signal, told, eterm, unmade, input,
                   sending, tocks, metrics>>

\* The TERMINATE reaches the threads whose subscription the PUB socket has
\* taken note of; it may not know of those that have only just started.
Caught ==
    /\ main = "waiting" /\ signal
    /\ told' \in SUBSET {t \in ThreadNames : thread[t] # "none"}
    /\ main' = "closing" /\ open' = open \ {<<"main", "command">>}
    /\ UNCHANGED <<prog, made, thread, signal, eterm, unmade, input, sending,
                   tocks, metrics>>

\* zmq_ctx_destroy() makes every blocked call fail with ETERM,
Destroy ==
    /\ main = "closing" /\ main' = "destroying" /\ eterm' = TRUE
    /\ UNCHANGED <<prog, made, thread, open, signal, told, unmade, input,
                   sending, tocks, metrics>>

\* and returns when the last socket is closed and nothing is queued in one:
\* no socket has a ZMQ_LINGER.
Ended ==
    /\ main = "destroying" /\ open = {} /\ ~unsent
    /\ main' = "ended"
    /\ UNCHANGED <<prog, made, thread, open, signal, told, eterm, unmade,
                   input, sending, tocks, metrics>>

----------------------------------------------------------------------------
(* The other threads.                                                      *)

Alive == main # "failed"

Reporters(p) == CASE p = "bolo2pg"  -> {"reconciler", "dispatcher", "inserter"}
                  [] p = "bolo2rrd" -> {"dispatcher", "creator", "updater"}
                  [] p \in {"bolo2influxdb", "bolo2meta"} -> {"dispatcher"}
                  [] OTHER          -> {}

Counts == [type : {"COUNT"}, value : {1}]
Samples == [type : {"SAMPLE"}, value : Values]

Messages(p) == CASE p = "bolo2influxdb" -> Samples
                 [] p = "bolo2meta"     -> Counts
                 [] OTHER               -> Counts \cup Samples

\* A thread hands a message to the monitor; it waits while the pipe is full
\* or the monitor has closed its end.  (Once the context is being destroyed
\* the call just fails.)
Tell(t, msg) ==
    /\ Alive /\ ~eterm /\ thread[t] = "running" /\ t \in Reporters(prog)
    /\ sending < MaxTold[prog]
    /\ IF Len(input) < HWM /\ <<"monitor", "input">> \in open
       THEN /\ input' = Append(input, msg) /\ sending' = sending + 1
            /\ counted' = IF msg.type = "COUNT" THEN counted + msg.value
                                                ELSE counted
            /\ UNCHANGED thread
       ELSE /\ thread' = [thread EXCEPT ![t] = "blocked"]
            /\ UNCHANGED <<input, sending, counted>>
    /\ UNCHANGED <<prog, main, made, open, signal, told, eterm, unmade, tocks,
                   count, samples, nsamples, submitted, values, median,
                   unsent>>

\* A waiting thread goes on: there is room, or its call fails with ETERM.
Unblock(t) ==
    /\ Alive /\ thread[t] = "blocked"
    /\ \/ Len(input) < HWM /\ <<"monitor", "input">> \in open
       \/ eterm
    /\ thread' = [thread EXCEPT ![t] = "running"]
    /\ UNCHANGED <<prog, main, made, open, signal, told, eterm, unmade, input,
                   sending, tocks, metrics>>

\* The reactor (or the scheduler's loop) ends, and the sockets are closed.
Halt(t) ==
    /\ Alive /\ thread[t] = "running" /\ (t \in told \/ eterm)
    /\ thread' = [thread EXCEPT ![t] = "gone"]
    /\ open' = open \ ({t} \X Closes(prog, t))
    /\ input' = IF t = "monitor" THEN <<>> ELSE input
    /\ UNCHANGED <<prog, main, made, signal, told, eterm, unmade, sending,
                   tocks, metrics>>

SchedulerTick ==
    /\ Alive /\ thread["scheduler"] = "running" /\ ~eterm
    /\ thread["monitor"] = "running" /\ tocks = 0
    /\ tocks' = 1
    /\ UNCHANGED <<life, input, sending, metrics>>

----------------------------------------------------------------------------
(* The monitor: _monitor_reactor.                                          *)

\* When there is no room left, `rand() / RAND_MAX' is 0 but for one value of
\* rand(), and the first slot is taken again; for that value the sample is
\* dropped.
SlotsFor(n) == IF n < MaxSamples THEN {n + 1} ELSE {1, n + 2}

Stored(v, i) == IF i <= MaxSamples THEN [samples EXCEPT ![i] = v] ELSE samples

\* The metrics "c" and "s" stand for all of their type: no thread uses one
\* name for both, so _metric() always finds a metric of the right type.
Take ==
    /\ Alive /\ thread["monitor"] = "running" /\ input # <<>>
    /\ LET msg == Head(input) IN
       IF msg.type = "COUNT"
       THEN /\ count' = count + msg.value
            /\ UNCHANGED <<samples, nsamples, values>>
       ELSE /\ \E i \in SlotsFor(nsamples) : samples' = Stored(msg.value, i)
            /\ nsamples' = nsamples + 1 /\ values' = Append(values, msg.value)
            /\ UNCHANGED count
    /\ input' = Tail(input)
    /\ UNCHANGED <<life, sending, tocks, counted, submitted, median, unsent>>

\* Twice the median of the first n elements of s, 0 if there are none.
Sorted(s, n) ==
    CHOOSE q \in [1..n -> {s[i] : i \in 1..n}] :
        /\ \A i \in 1..(n - 1) : q[i] <= q[i + 1]
        /\ \A v \in {s[i] : i \in 1..n} :
            Cardinality({i \in 1..n : q[i] = v}) =
            Cardinality({i \in 1..n : s[i] = v})

\* C's samples[mid] is the one after the first mid.
median2(s, n) ==
    IF n = 0 THEN 0
    ELSE LET q == Sorted(s, n)  mid == n \div 2 IN
         IF n % 2 = 0 THEN q[mid] + q[mid + 1] ELSE 2 * q[mid + 1]

Bad_reset == UNCHANGED count /\ nsamples' = 0 /\ samples' = Empty

Bad_reset_samples == count' = 0 /\ UNCHANGED <<nsamples, samples>>

reset == count' = 0 /\ nsamples' = 0 /\ samples' = Empty

Tock ==
    /\ Alive /\ thread["monitor"] = "running" /\ tocks = 1
    /\ tocks' = 0
    /\ submitted' = submitted + count /\ unsent' = TRUE
    /\ median' = median2(samples, IF nsamples < MaxSamples THEN nsamples
                                                           ELSE MaxSamples)
    /\ reset /\ values' = <<>>
    /\ UNCHANGED <<life, input, sending, counted>>

\* The aggregator takes what was submitted.
Deliver ==
    /\ Alive /\ unsent /\ unsent' = FALSE
    /\ UNCHANGED <<life, input, sending, tocks, count, samples, nsamples,
                   counted, submitted, values, median>>

----------------------------------------------------------------------------

ThreadsNext ==
    \/ Signal \/ Make \/ MakeFails \/ Supervise \/ Caught \/ Destroy \/ Ended
    \/ \E t \in ThreadNames :
        \/ \E msg \in Messages(prog) : Tell(t, msg)
        \/ Unblock(t) \/ Halt(t)
    \/ SchedulerTick \/ Take \/ Tock \/ Deliver

\* The main thread goes on when it can, and so do the threads that have to
\* stop; nothing makes a thread report, or the monitor and scheduler work.  The
\* aggregator is there for what is submitted to it.
ThreadsFairness ==
    /\ WF_tvars(Make \/ Supervise \/ Caught \/ Destroy \/ Ended)
    /\ WF_tvars(\E t \in ThreadNames : Unblock(t))
    /\ WF_tvars(\E t \in ThreadNames : Halt(t))
    /\ WF_tvars(Deliver)

ThreadsSpec == ThreadsInit /\ [][ThreadsNext]_tvars /\ ThreadsFairness

----------------------------------------------------------------------------

InPipe == {i \in 1..Len(input) : input[i].type = "COUNT"}

\* While the monitor runs, what the threads count is never lost and never
\* submitted twice, in whatever order messages and TOCKs are handled: it has
\* been submitted, is held, or is still in the pipe.
CountsKept ==
    thread["monitor"] = "running" =>
        counted = submitted + count + Cardinality(InPipe)

Within(S) == Cardinality({i \in DOMAIN values : values[i] \in S})

\* What is submitted for a sample is the median of the values received since
\* the last TOCK: at most half of them are less, and at most half are more.
\* With more values than there is room for it is still between the least and
\* the greatest of them.
MedianSubmitted ==
    [][Tock /\ values # <<>> =>
        LET below == Within({v \in Values : 2 * v < median'})
            above == Within({v \in Values : 2 * v > median'})
            all   == Len(values)
        IN  IF all <= MaxSamples THEN 2 * below <= all /\ 2 * above <= all
                                 ELSE below < all /\ above < all]_tvars

\* A SIGTERM or SIGINT ends the process, whenever it comes: while threads are
\* still being made, while the TERMINATE misses some of them, while others
\* wait for a monitor that is gone.  (A monitor thread that could not be
\* created leaves its sockets open, and the process hangs.)
SignalEnds == signal ~> (main \in {"ended", "failed"} \/ unmade)

=============================================================================
