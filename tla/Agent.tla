------------------------------- MODULE Agent -------------------------------
(***************************************************************************)
(* The agent, dbolo (src/dbolo/main.c): one thread that starts commands on *)
(* their schedule, collects their output from pipes, cuts it into lines    *)
(* and forwards each line as a PDU.  The commands run beside it: they      *)
(* write when they like, block on a full pipe, end at any time, and may    *)
(* leave a background process behind that goes on writing.  The beacon     *)
(* functions of the same loop are the subject of module Beacon.            *)
(*                                                                         *)
(* The loop reads the time once per round, in whole seconds.  due[c] is    *)
(* next_run minus that time, where -1 stands for any time in the past, and *)
(* lag is how long ago the round read it.                                  *)
(***************************************************************************)
EXTENDS Integers, Sequences, FiniteSets

CONSTANTS
    File,            \* the lines of the commands file
    Minute, Hour, Milli,    \* 60, 3600 and 1000
    IntMax,          \* INT_MAX
    Splay,           \* the offsets that the first run may have
    Outputs,         \* what a run of each command may write
    Cap, PipeCap,    \* 8191, and the size of a pipe
    MaxFaults,       \* bound: how often pipe() and fork() fail
    MaxLag           \* bound: the seconds one round may take

----------------------------------------------------------------------------
(* s_parse.  A line is "blank", a "comment", "unterminated" (the last line *)
(* of a file that does not end in a newline, or the first 8191 bytes of a  *)
(* longer one), "other", or a "command": @, number, unit, perhaps a space, *)
(* and the rest.  An interval is an int.                                   *)

int(n) == ((n + IntMax + 1) % (2 * (IntMax + 1))) - (IntMax + 1)

Units == [h |-> Hour, m |-> Minute, s |-> 1]

Seconds(l) == int(l.x * Units[l.unit])

Usable(l) ==
    /\ l.kind = "command" /\ l.x # 0
    /\ l.unit \in DOMAIN Units /\ Seconds(l) >= 0 /\ l.space

s_parse(file) == SelectSeq(file, Usable)

Table    == s_parse(File)
N        == Len(Table)
Cmds     == 1 .. N
NL       == "nl"

Asked(c) == Seconds(Table[c])

\* Both next_run and now are whole seconds, so that next_run < now can be
\* decided with the interval rounded down.
Interval(c) == int(Asked(c) * Milli) \div Milli

ASSUME AgentAssumption ==
    /\ N \in Nat \ {0} /\ \A c \in Cmds : Asked(c) \in Nat
    /\ Milli \in Nat \ {0} /\ IntMax \in Nat
    /\ Splay \subseteq Nat
    /\ Cap \in Nat \ {0} /\ PipeCap \in Nat \ {0}
    /\ MaxFaults \in Nat /\ MaxLag \in Nat \ {0}

VARIABLES
    alive,           \* the agent is running
    pc, turn,        \* where the loop is, and the command it is at
    evs,             \* the commands epoll_wait() returned an event for
    due, running, buf,      \* command_t: next_run, pid > 0, buffer[0 .. nread]
    child,           \* the process: "none", "alive" or "zombie"
    todo,            \* what it, or what it left behind, has still to write
    pipe, edge,      \* the pipe, and whether epoll has an edge for it
    lag, fds,        \* the age of now; how many read ends are open
    faults, leaked,  \* calls of pipe() and fork(), and of fork(), that failed
    lines, written,  \* history: lines cut and bytes written in this run,
    since            \* and the time since it was started, up to MaxSince

vars == <<alive, pc, turn, evs, due, running, buf, child, todo, pipe, edge,
          lag, fds, faults, leaked, lines, written, since>>

MaxSince(c) == Asked(c) + 1

----------------------------------------------------------------------------
(* s_sink: read until nothing is left, cutting off every complete line.    *)
(* When the buffer is full read() is asked for 0 bytes, and the loop ends. *)

SinkByte(acc, b) ==
    CASE Len(acc.buf) = Cap -> [acc EXCEPT !.pipe = Append(@, b)]
      [] Len(acc.buf) < Cap /\ b = NL ->
            [acc EXCEPT !.lines = Append(@, acc.buf), !.buf = <<>>]
      [] Len(acc.buf) < Cap /\ b # NL -> [acc EXCEPT !.buf = Append(@, b)]

s_sink(c) ==
    LET after[i \in 0 .. Len(pipe[c])] ==
            IF i = 0 THEN [buf |-> buf[c], pipe |-> <<>>, lines |-> lines[c]]
                     ELSE SinkByte(after[i - 1], pipe[c][i])
    IN  after[Len(pipe[c])]

\* An EVENT without details makes bolo_parse_event_pdu() free a literal, and
\* the process aborts.  "e" stands for such a line; one starting with "b" is
\* none that bolo_stream_pdu() knows, and is dropped, like an empty one.
Fatal(line) == line # <<>> /\ Head(line) = "e"

Kills(c) == \E i \in 1 .. Len(s_sink(c).lines) :
                i > Len(lines[c]) /\ Fatal(s_sink(c).lines[i])

----------------------------------------------------------------------------
(* The commands.                                                           *)

Min2(a, b) == IF a < b THEN a ELSE b

Write(c) ==
    /\ todo[c] # <<>> /\ child[c] # "none"
    /\ \E k \in 1 .. Min2(Len(todo[c]), PipeCap - Len(pipe[c])) :
        /\ pipe' = [pipe EXCEPT ![c] = @ \o SubSeq(todo[c], 1, k)]
        /\ written' = [written EXCEPT ![c] = @ \o SubSeq(todo[c], 1, k)]
        /\ todo' = [todo EXCEPT ![c] = SubSeq(@, k + 1, Len(@))]
    /\ edge' = [edge EXCEPT ![c] = running[c]]
    /\ UNCHANGED <<alive, pc, turn, evs, due, running, buf, child, lag, fds,
                   faults, leaked, lines, since>>

Exit(c) ==
    /\ child[c] = "alive" /\ todo[c] = <<>>
    /\ child' = [child EXCEPT ![c] = "zombie"]
    /\ UNCHANGED <<alive, pc, turn, evs, due, running, buf, todo, pipe, edge,
                   lag, fds, faults, leaked, lines, written, since>>

\* The shell ends and leaves a background process behind.
Abandon(c) ==
    /\ child[c] = "alive" /\ todo[c] # <<>>
    /\ child' = [child EXCEPT ![c] = "zombie"]
    /\ UNCHANGED <<alive, pc, turn, evs, due, running, buf, todo, pipe, edge,
                   lag, fds, faults, leaked, lines, written, since>>

----------------------------------------------------------------------------
(* The loop of main().                                                     *)

Bad_Handled == {c \in evs : \A d \in evs : d <= c}

\* The events of the round.
Handled == evs

\* The round reads the time, and calls s_sink for what has an event.
Events ==
    /\ alive /\ pc = "events"
    /\ buf' = [c \in Cmds |-> IF c \in Handled THEN s_sink(c).buf ELSE buf[c]]
    /\ pipe' = [c \in Cmds |-> IF c \in Handled THEN s_sink(c).pipe ELSE pipe[c]]
    /\ lines' = [c \in Cmds |-> IF c \in Handled THEN s_sink(c).lines
                                                 ELSE lines[c]]
    /\ alive' = ~\E c \in Handled : Kills(c)
    /\ evs' = {} /\ pc' = "commands" /\ turn' = 1
    /\ due' = [c \in Cmds |-> IF due[c] < lag THEN -1 ELSE due[c] - lag]
    /\ since' = [c \in Cmds |-> Min2(since[c] + lag, MaxSince(c))]
    /\ lag' = 0
    /\ UNCHANGED <<running, child, todo, edge, fds, faults, leaked, written>>

Pass == IF turn < N THEN pc' = pc /\ turn' = turn + 1
                    ELSE pc' = "wait" /\ turn' = turn

Bad_Drained(c) == [buf |-> buf[c], pipe |-> pipe[c], lines |-> lines[c]]

\* The last look at the pipe, after the shell has ended.
Drained(c) == s_sink(c)

Bad_close(n) == n

\* close() of one read end.
close(n) == n - 1

\* waitpid() returns the child: drain the pipe and close it.
Reap(c) ==
    /\ running[c] /\ child[c] = "zombie"
    /\ buf' = [buf EXCEPT ![c] = Drained(c).buf]
    /\ lines' = [lines EXCEPT ![c] = Drained(c).lines]
    /\ alive' = ~Kills(c)
    /\ running' = [running EXCEPT ![c] = FALSE]
    /\ child' = [child EXCEPT ![c] = "none"]
    /\ pipe' = [pipe EXCEPT ![c] = Drained(c).pipe]
    /\ edge' = [edge EXCEPT ![c] = FALSE]
    /\ todo' = [todo EXCEPT ![c] = <<>>]
    /\ fds' = close(fds)
    /\ UNCHANGED <<due, faults, leaked, written, since>>

Bad_Due(c) == due[c] = 0

\* next_run < now
Due(c) == due[c] < 0

Bad_next_run(c) == due[c] + Interval(c)

\* next_run = now + interval
next_run(c) == IF Interval(c) < 0 THEN -1 ELSE Interval(c)

Bad_Emptied(c) == buf[c]

\* nread = 0
Emptied(c) == <<>>

Start(c) ==
    /\ ~running[c] /\ Due(c)
    /\ running' = [running EXCEPT ![c] = TRUE]
    /\ child' = [child EXCEPT ![c] = "alive"]
    /\ todo' \in {[todo EXCEPT ![c] = o] : o \in Outputs[c]}
    /\ pipe' = [pipe EXCEPT ![c] = <<>>]
    /\ buf' = [buf EXCEPT ![c] = Emptied(c)]
    /\ due' = [due EXCEPT ![c] = next_run(c)]
    /\ fds' = fds + 1
    /\ lines' = [lines EXCEPT ![c] = <<>>]
    /\ written' = [written EXCEPT ![c] = <<>>]
    /\ since' = [since EXCEPT ![c] = 0]
    /\ UNCHANGED <<alive, edge, faults, leaked>>

\* fork() fails: the run is skipped, and its read end is forgotten.
ForkFails(c) ==
    /\ ~running[c] /\ Due(c) /\ faults < MaxFaults
    /\ faults' = faults + 1 /\ leaked' = leaked + 1 /\ fds' = fds + 1
    /\ buf' = [buf EXCEPT ![c] = Emptied(c)]
    /\ pipe' = [pipe EXCEPT ![c] = <<>>]
    /\ lines' = [lines EXCEPT ![c] = <<>>]
    /\ written' = [written EXCEPT ![c] = <<>>]
    /\ due' = [due EXCEPT ![c] = next_run(c)]
    /\ UNCHANGED <<alive, running, child, todo, edge, since>>

\* pipe() fails: the next round tries again.
PipeFails(c) ==
    /\ ~running[c] /\ Due(c) /\ faults < MaxFaults
    /\ faults' = faults + 1
    /\ UNCHANGED <<alive, due, running, buf, child, todo, pipe, edge, fds,
                   leaked, lines, written, since>>

\* Still running, or not due yet.
Skip(c) ==
    /\ IF running[c] THEN child[c] # "zombie" ELSE ~Due(c)
    /\ UNCHANGED <<alive, due, running, buf, child, todo, pipe, edge, fds,
                   faults, leaked, lines, written, since>>

Commands ==
    /\ alive /\ pc = "commands"
    /\ Pass /\ UNCHANGED <<evs, lag>>
    /\ \/ Reap(turn) \/ Start(turn)
       \/ ForkFails(turn) \/ PipeFails(turn) \/ Skip(turn)

\* epoll_wait() returns what became readable since it was last reported, or
\* nothing after AGENT_TICK_MS.
Wait ==
    /\ alive /\ pc = "wait"
    /\ evs' = {c \in Cmds : edge[c]}
    /\ edge' = [c \in Cmds |-> FALSE]
    /\ pc' = "events"
    /\ UNCHANGED <<alive, turn, due, running, buf, child, todo, pipe, lag,
                   fds, faults, leaked, lines, written, since>>

Tick ==
    /\ lag < MaxLag
    /\ lag' = lag + 1
    /\ UNCHANGED <<alive, pc, turn, evs, due, running, buf, child, todo, pipe,
                   edge, fds, faults, leaked, lines, written, since>>

\* s_parse() has read the file.
Init ==
    /\ alive = TRUE /\ pc = "events" /\ turn = 1 /\ evs = {}
    /\ due \in [Cmds -> Splay]
    /\ running = [c \in Cmds |-> FALSE] /\ buf = [c \in Cmds |-> <<>>]
    /\ child = [c \in Cmds |-> "none"] /\ todo = [c \in Cmds |-> <<>>]
    /\ pipe = [c \in Cmds |-> <<>>] /\ edge = [c \in Cmds |-> FALSE]
    /\ lag = 0 /\ fds = 0 /\ faults = 0 /\ leaked = 0
    /\ lines = [c \in Cmds |-> <<>>] /\ written = [c \in Cmds |-> <<>>]
    /\ since = [c \in Cmds |-> MaxSince(c)]

Loop == Events \/ Commands \/ Wait

Next == Loop \/ Tick \/ \E c \in Cmds : Write(c) \/ Exit(c) \/ Abandon(c)

\* The loop goes on, time passes, and every command goes on writing and ends
\* once it has: dbolo has no timeout for one that does not.
Fairness == /\ WF_vars(Loop) /\ WF_vars(Tick)
            /\ \A c \in Cmds : WF_vars(Write(c)) /\ WF_vars(Exit(c))

Spec == Init /\ [][Next]_vars /\ Fairness

----------------------------------------------------------------------------
(* Properties.                                                             *)

\* No byte of a run is lost, repeated or moved to another run: what the run
\* has written is the lines s_sink cut, what waits in the buffer of the
\* command, and what is still in the pipe, in this order, through any number
\* of runs, partial reads and failures of fork().
BytesKept ==
    \A c \in Cmds :
        LET text[i \in 0 .. Len(lines[c])] ==
                IF i = 0 THEN <<>>
                         ELSE text[i - 1] \o Append(lines[c][i], NL)
        IN  written[c] = text[Len(lines[c])] \o buf[c] \o pipe[c]

\* Once a command has been reaped, everything it wrote has been read, unless
\* it wrote a line that the buffer cannot hold.
ReapDrains ==
    \A c \in Cmds : ~running[c] => pipe[c] = <<>> \/ Len(buf[c]) = Cap

\* Between two starts of a command lies more than the interval of its line in
\* the file, however late the runs are, unless the interval in milliseconds
\* does not fit an int: then the command is due all the time.
SpacedRuns ==
    [][\A c \in Cmds :
          since'[c] = 0 /\ since[c] # 0 /\ Asked(c) * Milli <= IntMax
          => since[c] > Asked(c)]_vars

\* The agent holds one read end for every command that runs, plus one for
\* every fork() that failed: nothing else leaks.
FdsAccounted ==
    fds = Cardinality({c \in Cmds : running[c]}) + leaked

\* What a command writes is read, although epoll reports every edge once:
\* only a line longer than the buffer, or the end of dbolo, prevents it.
OutputRead ==
    \A c \in Cmds :
        (pipe[c] # <<>>) ~> (pipe[c] = <<>> \/ Len(buf[c]) = Cap \/ ~alive)

\* Every command is run again and again.  What stops it for good is the end
\* of dbolo, or a line that fills the buffer and then the pipe, so that the
\* command blocks in its write for ever.
RunsAgain ==
    \A c \in Cmds :
        \/ []<>(running[c]) /\ []<>(~running[c])
        \/ <>[](~alive \/ (Len(buf[c]) = Cap /\ Len(pipe[c]) = PipeCap))

=============================================================================
