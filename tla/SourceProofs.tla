---------------------------- MODULE SourceProofs ----------------------------
(***************************************************************************)
(* Proofs about where metrics come from: the agent (module Agent), for any *)
(* commands and intervals, any widths, and however late the rounds are;    *)
(* the source that a rate observes (module RateSource), for words of every *)
(* width; and the counts that the monitor thread of a subscriber submits   *)
(* (module Threads), for any number of messages.                           *)
(***************************************************************************)
EXTENDS Agent, RateSource, Threads, TLAPS, FiniteSetTheorems

----------------------------------------------------------------------------
(* The agent.                                                              *)

\* The interval in milliseconds fits an int.
Fits(c) == Asked(c) * Milli <= IntMax

Busy == {c \in Cmds : running[c]}

Typed ==
    /\ turn \in Cmds /\ running \in [Cmds -> BOOLEAN]
    /\ lag \in Nat /\ leaked \in Nat
    /\ since \in [Cmds -> Nat] /\ due \in [Cmds -> Int]

\* What is left of an interval and what has passed of it add up, until
\* it has passed.
Paced ==
    \A c \in Cmds : Fits(c) =>
        /\ since[c] <= MaxSince(c)
        /\ due[c] < 0 => since[c] = MaxSince(c)
        /\ since[c] < MaxSince(c) => due[c] + since[c] = Asked(c)

AgentInv == Typed /\ Paced /\ FdsAccounted

----------------------------------------------------------------------------
(* Arithmetic.                                                             *)

\* An interval that fits is neither wrapped nor cut.
LEMMA IntervalAsked ==
    ASSUME NEW c \in Cmds, Fits(c)
    PROVE  Interval(c) = Asked(c) /\ Asked(c) \in Nat
<1>1. Asked(c) \in Nat /\ Milli \in Nat \ {0} /\ IntMax \in Nat
  BY AgentAssumption
<1> DEFINE x == Asked(c) * Milli
           w == 2 * (IntMax + 1)
<1>2. x \in Nat /\ x <= IntMax
  BY <1>1 DEF Fits
<1>3. x \div Milli = Asked(c)
  BY <1>1
<1> HIDE DEF x
<1>4. w \in Nat \ {0} /\ x + IntMax + 1 \in 0 .. w - 1
  BY <1>1, <1>2
<1>5. (x + IntMax + 1) % w = x + IntMax + 1
  <2> DEFINE y == x + IntMax + 1
  <2>1. y \in 0 .. w - 1
    BY <1>4
  <2> HIDE DEF y, w
  <2>2. y % w = y
    BY <1>4, <2>1
  <2> QED BY <2>2 DEF y
<1>6. int(x) = x
  BY <1>1, <1>2, <1>5 DEF int
<1> QED BY <1>1, <1>3, <1>6, ZenonT(40) DEF Interval, x

\* Without any assumption the interval is still an integer.
LEMMA IntervalTyped ==
    ASSUME NEW c \in Cmds
    PROVE  next_run(c) \in Int /\ Asked(c) \in Nat
<1>1. Asked(c) \in Nat /\ Milli \in Nat \ {0} /\ IntMax \in Nat
  BY AgentAssumption
<1>2. int(Asked(c) * Milli) \in Int
  BY <1>1 DEF int
<1>3. Interval(c) \in Int
  BY <1>1, <1>2 DEF Interval
<1> QED BY <1>1, <1>3 DEF next_run

----------------------------------------------------------------------------
(* The steps.                                                              *)

\* The commands that run, as a finite set.
LEMMA BusyFinite ==
    IsFiniteSet(Busy) /\ Cardinality(Busy) \in Nat
<1>1. N \in Nat
  BY AgentAssumption
<1>2. IsFiniteSet(1 .. N)
  BY <1>1, FS_Interval
<1>3. IsFiniteSet(Busy)
  BY <1>2, FS_Subset, Zenon DEF Busy, Cmds
<1> QED BY <1>3, FS_CardinalityType, Zenon

\* A round that reads the time late moves both sides of the sum.
LEMMA EventsKeep ==
    ASSUME AgentInv, Events
    PROVE  AgentInv'
<1>1. /\ turn' = 1 /\ lag' = 0 /\ UNCHANGED <<running, fds, leaked>>
      /\ due' = [c \in Cmds |-> IF due[c] < lag THEN -1 ELSE due[c] - lag]
      /\ since' = [c \in Cmds |-> Min2(since[c] + lag, MaxSince(c))]
  BY DEF Events
<1>2. \A c \in Cmds : Asked(c) \in Nat /\ MaxSince(c) = Asked(c) + 1
  BY AgentAssumption, Zenon DEF MaxSince
<1>3. Typed'
  <2>1. 1 \in Cmds
    BY AgentAssumption DEF Cmds
  <2>2. since' \in [Cmds -> Nat]
    BY <1>1, <1>2 DEF AgentInv, Typed, Min2
  <2>3. due' \in [Cmds -> Int]
    BY <1>1 DEF AgentInv, Typed
  <2> QED BY <1>1, <2>1, <2>2, <2>3, ZenonT(40) DEF AgentInv, Typed
<1>4. Paced'
  <2> SUFFICES ASSUME NEW c \in Cmds, Fits(c)
               PROVE  /\ since'[c] <= MaxSince(c)
                      /\ due'[c] < 0 => since'[c] = MaxSince(c)
                      /\ since'[c] < MaxSince(c) => due'[c] + since'[c] = Asked(c)
    BY DEF Paced, Fits, MaxSince, Asked
  <2>1. /\ since[c] <= MaxSince(c)
        /\ due[c] < 0 => since[c] = MaxSince(c)
        /\ since[c] < MaxSince(c) => due[c] + since[c] = Asked(c)
    BY DEF AgentInv, Paced
  <2>2. since[c] \in Nat /\ due[c] \in Int /\ lag \in Nat /\ Asked(c) \in Nat
        /\ MaxSince(c) = Asked(c) + 1
    BY <1>2, ZenonT(40) DEF AgentInv, Typed
  <2>3. /\ due'[c] = IF due[c] < lag THEN -1 ELSE due[c] - lag
        /\ since'[c] = IF since[c] + lag < MaxSince(c) THEN since[c] + lag
                                                       ELSE MaxSince(c)
    BY <1>1 DEF Min2
  <2> QED BY <2>1, <2>2, <2>3
<1>5. FdsAccounted'
  BY <1>1 DEF AgentInv, FdsAccounted
<1> QED BY <1>3, <1>4, <1>5, ZenonT(40) DEF AgentInv

\* The next command's turn.
LEMMA PassTyped ==
    ASSUME turn \in Cmds, Pass
    PROVE  turn' \in Cmds
BY AgentAssumption DEF Pass, Cmds

\* A command that ended gives its read end back.
LEMMA ReapKeeps ==
    ASSUME AgentInv, Reap(turn), Pass, UNCHANGED lag
    PROVE  AgentInv'
<1> DEFINE c == turn
<1>1. c \in Cmds /\ running[c] /\ running \in [Cmds -> BOOLEAN]
  BY DEF AgentInv, Typed, Reap
<1>2. /\ running' = [running EXCEPT ![c] = FALSE] /\ fds' = fds - 1
      /\ UNCHANGED <<due, leaked, since>>
  BY DEF Reap, close
<1>3. Typed'
  BY <1>1, <1>2, PassTyped, ZenonT(40) DEF AgentInv, Typed
<1>4. Paced'
  BY <1>2 DEF AgentInv, Paced
<1>5. FdsAccounted'
  <2>1. Busy' = Busy \ {c} /\ c \in Busy
    BY <1>1, <1>2 DEF Busy
  <2>2. Cardinality(Busy') = Cardinality(Busy) - 1
    BY <2>1, BusyFinite, FS_RemoveElement, ZenonT(40)
  <2>3. fds = Cardinality(Busy) + leaked /\ leaked \in Nat
    BY DEF AgentInv, FdsAccounted, Busy, Typed
  <2>4. fds' = Cardinality(Busy') + leaked'
    BY <1>2, <2>2, <2>3, BusyFinite
  <2> QED BY <2>4 DEF FdsAccounted, Busy
<1> QED BY <1>3, <1>4, <1>5, ZenonT(40) DEF AgentInv

\* A command that is started has its whole interval before it.
LEMMA StartKeeps ==
    ASSUME AgentInv, Start(turn), Pass, UNCHANGED lag
    PROVE  AgentInv'
<1> DEFINE c == turn
<1>1. c \in Cmds /\ ~running[c] /\ running \in [Cmds -> BOOLEAN]
      /\ due \in [Cmds -> Int] /\ since \in [Cmds -> Nat]
  BY Zenon DEF AgentInv, Typed, Start
<1>2. /\ running' = [running EXCEPT ![c] = TRUE] /\ fds' = fds + 1
      /\ due' = [due EXCEPT ![c] = next_run(c)]
      /\ since' = [since EXCEPT ![c] = 0] /\ UNCHANGED leaked
  BY DEF Start
<1>3. Typed'
  BY <1>1, <1>2, PassTyped, IntervalTyped, ZenonT(40) DEF AgentInv, Typed
<1>4. Paced'
  <2> SUFFICES ASSUME NEW d \in Cmds, Fits(d)
               PROVE  /\ since'[d] <= MaxSince(d)
                      /\ due'[d] < 0 => since'[d] = MaxSince(d)
                      /\ since'[d] < MaxSince(d) => due'[d] + since'[d] = Asked(d)
    BY DEF Paced, Fits, MaxSince, Asked
  <2>1. CASE d # c
    BY <1>1, <1>2, <2>1, ZenonT(40) DEF AgentInv, Paced
  <2>2. CASE d = c
    <3>1. next_run(c) = Asked(c) /\ Asked(c) \in Nat
      BY <1>1, <2>2, IntervalAsked DEF next_run
    <3>2. since'[d] = 0 /\ due'[d] = Asked(d)
      BY <1>1, <1>2, <2>2, <3>1, ZenonT(40)
    <3> QED BY <2>2, <3>1, <3>2 DEF MaxSince
  <2> QED BY <2>1, <2>2
<1>5. FdsAccounted'
  <2>1. Busy' = Busy \cup {c} /\ c \notin Busy
    BY <1>1, <1>2 DEF Busy
  <2>2. Cardinality(Busy') = Cardinality(Busy) + 1
    BY <2>1, BusyFinite, FS_AddElement
  <2>3. fds = Cardinality(Busy) + leaked /\ leaked \in Nat
    BY DEF AgentInv, FdsAccounted, Busy, Typed
  <2>4. fds' = Cardinality(Busy') + leaked'
    BY <1>2, <2>2, <2>3, BusyFinite
  <2> QED BY <2>4 DEF FdsAccounted, Busy
<1> QED BY <1>3, <1>4, <1>5 DEF AgentInv

\* A fork() that fails costs a read end, and the command its turn.
LEMMA ForkFailsKeeps ==
    ASSUME AgentInv, ForkFails(turn), Pass, UNCHANGED lag
    PROVE  AgentInv'
<1> DEFINE c == turn
<1>1. c \in Cmds /\ due[c] < 0
      /\ due \in [Cmds -> Int] /\ since \in [Cmds -> Nat]
  BY ZenonT(40) DEF AgentInv, Typed, ForkFails, Due
<1>2. /\ fds' = fds + 1 /\ leaked' = leaked + 1
      /\ due' = [due EXCEPT ![c] = next_run(c)]
      /\ UNCHANGED <<running, since>>
  BY DEF ForkFails
<1>3. Typed'
  BY <1>1, <1>2, PassTyped, IntervalTyped DEF AgentInv, Typed
<1>4. Paced'
  <2> SUFFICES ASSUME NEW d \in Cmds, Fits(d)
               PROVE  /\ since[d] <= MaxSince(d)
                      /\ due'[d] < 0 => since[d] = MaxSince(d)
                      /\ since[d] < MaxSince(d) => due'[d] + since[d] = Asked(d)
    BY <1>2 DEF Paced, Fits, MaxSince, Asked
  <2>1. CASE d # c
    BY <1>1, <1>2, <2>1, ZenonT(40) DEF AgentInv, Paced
  <2>2. CASE d = c
    <3>1. since[d] = MaxSince(d) /\ MaxSince(d) \in Nat
      BY <1>1, <2>2, IntervalTyped, ZenonT(40) DEF AgentInv, Paced, MaxSince
    <3> QED BY <3>1
  <2> QED BY <2>1, <2>2, ZenonT(40)
<1>5. FdsAccounted'
  <2>1. fds = Cardinality(Busy) + leaked /\ leaked \in Nat
    BY DEF AgentInv, FdsAccounted, Busy, Typed
  <2>2. fds' = Cardinality(Busy) + leaked'
    BY <1>2, <2>1, BusyFinite
  <2>3. Busy' = Busy
    BY <1>2, ZenonT(40) DEF Busy
  <2> QED BY <2>2, <2>3, Zenon DEF FdsAccounted, Busy
<1> QED BY <1>3, <1>4, <1>5 DEF AgentInv

\* What does not touch the schedule.
LEMMA OtherKeeps ==
    ASSUME AgentInv,
           UNCHANGED <<due, running, since, fds, leaked>>,
           turn' \in Cmds, lag' \in Nat
    PROVE  AgentInv'
BY DEF AgentInv, Typed, Paced, FdsAccounted

\* Every step.
LEMMA AgentStep ==
    ASSUME AgentInv, [Next]_vars
    PROVE  AgentInv'
<1> turn \in Cmds /\ lag \in Nat
  BY DEF AgentInv, Typed
<1>1. CASE Events
  BY <1>1, EventsKeep, ZenonT(40)
<1>2. CASE Commands
  <2>1. Pass /\ UNCHANGED lag /\ turn' \in Cmds
    BY <1>2, PassTyped, ZenonT(40) DEF Commands
  <2>2. CASE PipeFails(turn) \/ Skip(turn)
    BY <2>1, <2>2, OtherKeeps, ZenonT(40) DEF PipeFails, Skip
  <2> QED BY <1>2, <2>1, <2>2, ReapKeeps, StartKeeps, ForkFailsKeeps
          DEF Commands
<1>3. CASE Wait
  BY <1>3, OtherKeeps, ZenonT(40) DEF Wait
<1>4. CASE Tick
  BY <1>4, OtherKeeps DEF Tick
<1>5. ASSUME NEW c \in Cmds, Write(c) \/ Exit(c) \/ Abandon(c)
      PROVE  AgentInv'
  BY <1>5, OtherKeeps, ZenonT(40) DEF Write, Exit, Abandon
<1>6. CASE UNCHANGED vars
  BY <1>6, OtherKeeps, Zenon DEF vars
<1> QED BY <1>1, <1>2, <1>3, <1>4, <1>5, <1>6 DEF Next, Loop

\* The agent starts with nothing running and every interval passed.
LEMMA AgentStarts ==
    ASSUME Init
    PROVE  AgentInv
<1>1. \A c \in Cmds : Asked(c) \in Nat /\ MaxSince(c) = Asked(c) + 1
  BY AgentAssumption DEF MaxSince
<1>2. /\ turn = 1 /\ running = [c \in Cmds |-> FALSE] /\ lag = 0 /\ leaked = 0
      /\ fds = 0 /\ since = [c \in Cmds |-> MaxSince(c)] /\ due \in [Cmds -> Splay]
  BY DEF Init
<1>3. Splay \subseteq Nat /\ 1 \in Cmds
  BY AgentAssumption DEF Cmds
<1>4. Typed
  <2>1. since \in [Cmds -> Nat]
    BY <1>1, <1>2
  <2>2. due \in [Cmds -> Int]
    <3>1. Splay \subseteq Int
      BY <1>3
    <3>2. due \in [Cmds -> Splay]
      BY <1>2
    <3> QED BY ONLY <3>1, <3>2, Zenon
  <2>3. running \in [Cmds -> BOOLEAN]
    BY <1>2
  <2> QED BY <1>2, <1>3, <2>1, <2>2, <2>3, ZenonT(40) DEF Typed
<1>5. Paced
  BY <1>1, <1>2, <1>3 DEF Paced
<1>6. FdsAccounted
  <2>1. {c \in Cmds : running[c]} = {}
    BY <1>2
  <2> QED BY <1>2, <2>1, FS_EmptySet DEF FdsAccounted
<1> QED BY <1>4, <1>5, <1>6, ZenonT(40) DEF AgentInv

----------------------------------------------------------------------------

\* Read ends are neither closed twice nor left open, but for those of the
\* fork() calls that failed.
THEOREM NoOtherLeak == Spec => []FdsAccounted
<1>1. AgentInv => FdsAccounted
  BY DEF AgentInv
<1> QED BY <1>1, AgentStarts, AgentStep, PTL DEF Spec

\* Two runs of a command are always more than its interval apart.
THEOREM AlwaysSpaced == Spec => SpacedRuns
<1> DEFINE A == \A c \in Cmds :
                   since'[c] = 0 /\ since[c] # 0 /\ Asked(c) * Milli <= IntMax
                   => since[c] > Asked(c)
<1>1. AgentInv /\ [Next]_vars => [A]_vars
  <2> SUFFICES ASSUME AgentInv, Next, NEW c \in Cmds, Fits(c),
                      since'[c] = 0, since[c] # 0
               PROVE  since[c] > Asked(c)
    BY DEF Fits
  <2>1. since \in [Cmds -> Nat] /\ lag \in Nat /\ turn \in Cmds
        /\ Asked(c) \in Nat /\ MaxSince(c) = Asked(c) + 1
    BY AgentAssumption DEF AgentInv, Typed, MaxSince
  <2>2. CASE Events
    <3>1. since'[c] = Min2(since[c] + lag, MaxSince(c))
      BY <2>2, Zenon DEF Events
    <3> QED BY <2>1, <3>1 DEF Min2
  <2>3. CASE Commands /\ Start(turn)
    <3>1. c = turn
      BY <2>1, <2>3, ZenonT(40) DEF Start
    <3>2. due[c] < 0
      BY <2>3, <3>1 DEF Start, Due
    <3>3. since[c] = MaxSince(c)
      BY <3>2 DEF AgentInv, Paced
    <3> QED BY <2>1, <3>3
  <2>4. CASE UNCHANGED since
    BY <2>4
  <2> QED BY <2>2, <2>3, <2>4, ZenonT(40)
          DEF Next, Loop, Commands, Reap, ForkFails, PipeFails, Skip, Wait,
              Tick, Write, Exit, Abandon
<1> QED BY <1>1, AgentStarts, AgentStep, PTL DEF Spec, SpacedRuns

----------------------------------------------------------------------------
(* Rates.                                                                  *)

M == U32MAX + 1      \* what the source counts modulo

source == <<r, total, base, time>>

----------------------------------------------------------------------------
(* Remainders.                                                             *)

\* The quotient and the remainder.
LEMMA Division ==
    ASSUME NEW x \in Nat, NEW m \in Nat \ {0}
    PROVE  \E q \in Nat : x = m * q + (x % m) /\ x % m \in 0 .. m - 1
<1>1. x % m \in 0 .. m - 1
  OBVIOUS
<1>2. x \div m \in Nat /\ x = m * (x \div m) + (x % m)
  OBVIOUS
<1> QED BY <1>1, <1>2, ZenonT(40)

\* What a word shows of a count that grows by less than its size.
LEMMA Rolls ==
    ASSUME NEW m \in Nat \ {0}, NEW x \in Nat, NEW y \in Nat,
           x <= y, y - x < m
    PROVE  /\ x % m \in 0 .. m - 1 /\ y % m \in 0 .. m - 1
           /\ \/ y % m = (x % m) + (y - x)
              \/ y % m = (x % m) + (y - x) - m
<1> PICK p \in Nat : x = m * p + (x % m) /\ x % m \in 0 .. m - 1
  BY Division, ZenonT(40)
<1> PICK q \in Nat : y = m * q + (y % m) /\ y % m \in 0 .. m - 1
  BY Division, ZenonT(40)
<1> DEFINE a == x % m
           b == y % m
<1>1. a \in 0 .. m - 1 /\ b \in 0 .. m - 1 /\ x = m * p + a /\ y = m * q + b
  OBVIOUS
<1> HIDE DEF a, b
<1> DEFINE d == q - p
<1>2. d \in Int /\ m * d = m * q - m * p
  OBVIOUS
<1>3. m * d = (y - x) + a - b
  BY <1>1, <1>2
<1>4. m * d < 2 * m /\ m * d > -m
  BY <1>1, <1>3
<1>5. d = 0 \/ d = 1
  <2>1. ASSUME d >= 2 PROVE FALSE
    <3>1. m * d >= m * 2
      BY <1>2, <2>1
    <3> QED BY <1>4, <3>1
  <2>2. ASSUME d <= -1 PROVE FALSE
    <3>1. m * d <= -m
      BY <1>2, <2>2
    <3> QED BY <1>4, <3>1
  <2> QED BY <1>2, <2>1, <2>2
<1>6. b = a + (y - x) \/ b = a + (y - x) - m
  BY <1>1, <1>3, <1>5
<1> QED BY <1>1, <1>6 DEF a, b

----------------------------------------------------------------------------
(* The rate and its source.                                                *)

\* The two ends of the window are what the word showed at its first and its
\* last report.
SourceInv ==
    /\ total \in Nat /\ base \in Nat /\ base <= total /\ time \in Nat
    /\ r \in [first_seen : Nat, last_seen : Nat, first : Nat, last : Nat,
              ignore : BOOLEAN]
    /\ r.last_seen # 0 => r.first = base % M /\ r.last = total % M

\* The case distinction of rate_calc(): a source that has not counted almost
\* a full word cannot have started below U16MAX if its word rolled over.
LEMMA WithinOne ==
    ASSUME SourceInv
    PROVE  RateWithinOne
<1> SUFFICES ASSUME r.last_seen # 0, Counted <= U32MAX + 1 - U16MAX
             PROVE  Counted - rate_diff(r) \in {0, 1}
  BY DEF RateWithinOne
<1> DEFINE a == base % M
           b == total % M
<1>1. /\ U32MAX \in Nat /\ U16MAX \in Nat /\ U64 \in Nat
      /\ 0 < U16MAX /\ U16MAX < U32MAX /\ U32MAX < U64
  BY SourceAssumption, WordAssumption
<1>2. M \in Nat \ {0} /\ M = U32MAX + 1
  BY <1>1 DEF M
<1>3. /\ total \in Nat /\ base \in Nat /\ base <= total
      /\ r.first = a /\ r.last = b
  BY DEF SourceInv
<1>4. Counted = total - base /\ Counted \in Nat /\ Counted < M
  BY <1>1, <1>2, <1>3 DEF Counted
<1>5. /\ a \in 0 .. U32MAX /\ b \in 0 .. U32MAX
      /\ b = a + Counted \/ b = a + Counted - M
  <2>1. total - base < M
    BY <1>4
  <2>2. /\ base % M \in 0 .. M - 1 /\ total % M \in 0 .. M - 1
        /\ \/ total % M = (base % M) + (total - base)
           \/ total % M = (base % M) + (total - base) - M
    BY <1>2, <1>3, <2>1, Rolls, ZenonT(40)
  <2>3. 0 .. M - 1 = 0 .. U32MAX
    BY <1>1, <1>2
  <2> QED BY <1>4, <2>2, <2>3, ZenonT(40)
<1> HIDE DEF a, b
<1>6. CASE b = a + Counted
  <2>1. rate_diff(r) = Counted % U64
    BY <1>3, <1>4, <1>5, <1>6 DEF rate_diff
  <2>2. Counted \in 0 .. U64 - 1
    BY <1>1, <1>2, <1>4
  <2>3. Counted % U64 = Counted
    BY <1>1, <2>2
  <2> QED BY <1>4, <2>1, <2>3
<1>7. CASE b = a + Counted - M
  <2>0. /\ a \in Int /\ a <= U32MAX /\ b \in Int /\ b >= 0 /\ M \in Int
        /\ b = a + Counted - M
    BY <1>1, <1>2, <1>5, <1>7
  <2>1. b < a /\ a >= U16MAX
    BY <1>1, <1>2, <1>4, <2>0
  <2>2. rate_diff(r) = (Counted - 1) % U64
    <3>1. U32MAX - a + b = Counted - 1
      BY <1>1, <1>2, <1>4, <2>0
    <3> QED BY <1>1, <1>3, <1>5, <2>1, <3>1 DEF rate_diff
  <2>3. Counted - 1 \in 0 .. U64 - 1
    BY <1>1, <1>2, <1>4, <2>0
  <2>4. (Counted - 1) % U64 = Counted - 1
    BY <1>1, <2>3
  <2> QED BY <1>4, <2>2, <2>4
<1> QED BY <1>5, <1>6, <1>7

\* Reports and the end of a window keep it.
LEMMA SourceStep ==
    ASSUME SourceInv, [SourceNext]_source
    PROVE  SourceInv'
<1>1. ASSUME NEW d \in Steps, Report(d)
      PROVE  SourceInv'
  <2> DEFINE v == (total + d) % (U32MAX + 1)
  <2>1. d \in Nat /\ total + d \in Nat /\ base <= total + d /\ U32MAX \in Nat
    BY SourceAssumption, WordAssumption DEF SourceInv
  <2>2. v \in Nat /\ v = (total + d) % M
    BY <2>1 DEF M
  <2>3. /\ total' = total + d /\ time' = time + 1
        /\ base' = IF r.last_seen = 0 THEN total + d ELSE base
        /\ r' = [rate_data(r, v) EXCEPT
                    !.last_seen  = time + 1,
                    !.first_seen = IF @ = 0 THEN time + 1 ELSE @]
    BY <1>1 DEF Report
  <2> HIDE DEF v
  <2>4. /\ r' \in [first_seen : Nat, last_seen : Nat, first : Nat, last : Nat,
                   ignore : BOOLEAN]
        /\ r'.last = v /\ r'.first = IF r.last_seen = 0 THEN v ELSE r.first
    <3> DEFINE q == rate_data(r, v)
    <3>1. /\ q \in [first_seen : Nat, last_seen : Nat, first : Nat, last : Nat,
                    ignore : BOOLEAN]
          /\ q.last = v /\ q.first = IF r.last_seen = 0 THEN v ELSE r.first
      BY <2>2, ZenonT(40) DEF SourceInv, rate_data
    <3>2. r' = [q EXCEPT !.last_seen  = time + 1,
                         !.first_seen = IF q.first_seen = 0 THEN time + 1
                                                            ELSE q.first_seen]
      BY <2>3, ZenonT(40)
    <3>3. time + 1 \in Nat
      BY DEF SourceInv
    <3> HIDE DEF q
    <3> QED BY <3>1, <3>2, <3>3, ZenonT(40)
  <2>5. r'.first = base' % M /\ r'.last = total' % M
    BY <2>2, <2>3, <2>4 DEF SourceInv
  <2>6. time' \in Nat /\ base' <= total' /\ base' \in Nat
    BY <2>1, <2>3 DEF SourceInv
  <2> QED BY <2>1, <2>3, <2>4, <2>5, <2>6, ZenonT(40) DEF SourceInv
<1>2. CASE Close
  BY <1>2, ZenonT(40) DEF Close, rate_reset, SourceInv
<1>3. CASE UNCHANGED source
  BY <1>3, ZenonT(40) DEF source, SourceInv
<1> QED BY <1>1, <1>2, <1>3, ZenonT(40) DEF SourceNext

\* For every width of the words, and for a source that counts any amounts
\* between its reports, through any number of windows.
THEOREM RateAlwaysWithinOne ==
    SourceInit /\ [][SourceNext]_source => []RateWithinOne
<1>1. SourceInit => SourceInv
  BY SourceAssumption, WordAssumption DEF SourceInit, SourceInv, NewRate
<1>2. SourceInv /\ [SourceNext]_source => SourceInv'
  BY SourceStep
<1>3. SourceInv => RateWithinOne
  BY WithinOne
<1> QED BY <1>1, <1>2, <1>3, PTL

----------------------------------------------------------------------------
(* The counts of the monitor.                                              *)

AllMessages == Counts \cup Samples

\* The COUNT messages in the pipe.
CountsIn(s) == {i \in 1..Len(s) : s[i].type = "COUNT"}

MonitorTyped ==
    /\ prog \in Programs /\ made \in Nat
    /\ DOMAIN thread = ThreadNames
    /\ input \in Seq(AllMessages)
    /\ count \in Nat /\ submitted \in Nat /\ counted \in Nat

\* There is nothing to count before the first thread is made; the monitor is
\* not made later than that, and does not wait for itself.
MonitorFirst ==
    /\ made = 0 => /\ \A t \in ThreadNames : thread[t] = "none"
                   /\ input = <<>> /\ counted = 0 /\ submitted = 0 /\ count = 0
    /\ thread["monitor"] # "blocked"

MonitorInv == MonitorTyped /\ MonitorFirst /\ CountsKept

\* The pipe is finite.
LEMMA PipeFinite ==
    ASSUME NEW s \in Seq(AllMessages)
    PROVE  IsFiniteSet(CountsIn(s)) /\ Cardinality(CountsIn(s)) \in Nat
<1>1. Len(s) \in Nat
  OBVIOUS
<1>2. IsFiniteSet(1 .. Len(s))
  BY <1>1, FS_Interval
<1>3. IsFiniteSet(CountsIn(s))
  BY <1>2, FS_Subset, Zenon DEF CountsIn
<1> QED BY <1>3, FS_CardinalityType, Zenon

\* A message is a COUNT of 1 or a SAMPLE.
LEMMA MessageKinds ==
    ASSUME NEW m \in AllMessages
    PROVE  (m.type = "COUNT" /\ m.value = 1) \/ m.type = "SAMPLE"
BY DEF AllMessages, Counts, Samples

\* What one more message adds to the pipe.
LEMMA PipeAppended ==
    ASSUME NEW s \in Seq(AllMessages), NEW m \in AllMessages
    PROVE  /\ Append(s, m) \in Seq(AllMessages)
           /\ Cardinality(CountsIn(Append(s, m))) =
                Cardinality(CountsIn(s)) + (IF m.type = "COUNT" THEN 1 ELSE 0)
<1> DEFINE n == Len(s) + 1
<1>1. /\ Append(s, m) \in Seq(AllMessages) /\ Len(Append(s, m)) = n
      /\ \A i \in 1..Len(s) : Append(s, m)[i] = s[i]
      /\ Append(s, m)[n] = m /\ Len(s) \in Nat
  OBVIOUS
<1>2. CountsIn(Append(s, m)) =
        CountsIn(s) \cup (IF m.type = "COUNT" THEN {n} ELSE {})
  BY <1>1 DEF CountsIn
<1>3. n \notin CountsIn(s)
  BY <1>1 DEF CountsIn
<1>4. Cardinality(CountsIn(s) \cup {n}) = Cardinality(CountsIn(s)) + 1
  BY <1>3, PipeFinite, FS_AddElement, Zenon
<1> HIDE DEF n
<1>5. CASE m.type = "COUNT"
  BY <1>1, <1>2, <1>4, <1>5
<1>6. CASE m.type # "COUNT"
  <2>1. CountsIn(Append(s, m)) = CountsIn(s)
    BY <1>2, <1>6
  <2> QED BY <1>1, <2>1, <1>6, PipeFinite
<1> QED BY <1>5, <1>6, Zenon

\* What the first message takes with it.
LEMMA PipeTaken ==
    ASSUME NEW s \in Seq(AllMessages), s # <<>>
    PROVE  /\ Tail(s) \in Seq(AllMessages) /\ Head(s) \in AllMessages
           /\ Cardinality(CountsIn(s)) = Cardinality(CountsIn(Tail(s)))
                + (IF Head(s).type = "COUNT" THEN 1 ELSE 0)
<1> DEFINE T == CountsIn(Tail(s))
           R == CountsIn(s) \ {1}
           f == [i \in T |-> i + 1]
<1>1. /\ Tail(s) \in Seq(AllMessages) /\ Head(s) \in AllMessages
      /\ Len(s) \in Nat /\ Len(s) > 0 /\ Len(Tail(s)) = Len(s) - 1
      /\ \A i \in 1..Len(Tail(s)) : Tail(s)[i] = s[i + 1]
      /\ Head(s) = s[1]
  OBVIOUS
<1>2. f \in Bijection(T, R)
  <2>1. \A i \in T : i \in 1..Len(Tail(s)) /\ i + 1 \in R
    BY <1>1 DEF CountsIn
  <2>2. \A i, j \in T : f[i] = f[j] => i = j
    BY <2>1
  <2>3. \A j \in R : j - 1 \in T /\ f[j - 1] = j
    BY <1>1 DEF CountsIn
  <2>4. f \in [T -> R]
    BY <2>1
  <2> HIDE DEF f, T, R
  <2>5. DOMAIN f = T
    BY <2>4, Zenon
  <2>6. IsInjective(f)
    BY <2>2, <2>5, Zenon DEF IsInjective
  <2>7. f \in Surjection(T, R)
    BY <2>3, <2>4, Zenon DEF Surjection
  <2> QED BY <2>4, <2>6, <2>7, Zenon DEF Bijection, Injection
<1>3. Cardinality(R) = Cardinality(T)
  <2>1. ExistsBijection(T, R)
    BY <1>2, Zenon DEF ExistsBijection
  <2> HIDE DEF R
  <2> QED BY <1>1, <2>1, PipeFinite, FS_Bijection, Zenon
<1>4. 1 \in CountsIn(s) <=> Head(s).type = "COUNT"
  BY <1>1 DEF CountsIn
<1>5. CASE Head(s).type = "COUNT"
  <2>1. Cardinality(R) = Cardinality(CountsIn(s)) - 1
    BY <1>4, <1>5, PipeFinite, FS_RemoveElement, Zenon
  <2> HIDE DEF R, T
  <2> QED BY <1>1, <1>3, <1>5, <2>1, PipeFinite DEF T
<1>6. CASE Head(s).type # "COUNT"
  <2>1. R = CountsIn(s)
    BY <1>4, <1>6, Zenon
  <2> HIDE DEF R
  <2> QED BY <1>1, <1>3, <1>6, <2>1, PipeFinite
<1> QED BY <1>5, <1>6, Zenon

\* The monitor is the first of the threads, or none of them.
LEMMA FirstThread ==
    ASSUME MonitorTyped, made < Len(Constructors(prog))
    PROVE  NextThread \in ThreadNames /\ (NextThread = "monitor" => made = 0)
<1>1. prog \in {"bolo", "bolo2pg", "bolo2rrd", "bolo2influxdb", "bolo2meta",
                "bolo2console", "bolo cache"} /\ made \in Nat
  BY ThreadsAssumption, Zenon DEF MonitorTyped
<1>2. CASE prog = "bolo"
  BY <1>1, <1>2 DEF Constructors, aggregator_main, NextThread, ThreadNames
<1>3. CASE prog = "bolo2pg"
  BY <1>1, <1>3 DEF Constructors, bolo2pg_main, NextThread, ThreadNames
<1>4. CASE prog = "bolo2rrd"
  BY <1>1, <1>4 DEF Constructors, bolo2rrd_main, NextThread, ThreadNames
<1>5. CASE prog = "bolo2influxdb"
  BY <1>1, <1>5 DEF Constructors, bolo2influxdb_main, NextThread, ThreadNames
<1>6. CASE prog = "bolo2meta"
  BY <1>1, <1>6 DEF Constructors, bolo2meta_main, NextThread, ThreadNames
<1>7. CASE prog = "bolo2console"
  BY <1>1, <1>7 DEF Constructors, bolo2console_main, NextThread, ThreadNames
<1>8. CASE prog = "bolo cache"
  <2>1. Constructors(prog) = <<"dispatcher">>
    BY <1>8, Zenon DEF Constructors, cache_main
  <2>2. made \in Nat
    BY <1>1, Zenon
  <2>3. NextThread = "dispatcher"
    BY <2>1, <2>2 DEF NextThread
  <2> QED BY <2>3 DEF ThreadNames
<1> QED BY <1>1, <1>2, <1>3, <1>4, <1>5, <1>6, <1>7, <1>8, ZenonT(40)

\* The monitor tells itself nothing.
LEMMA MonitorReportsNothing == "monitor" \notin Reporters(prog)
BY DEF Reporters

\* What is told is a message.
LEMMA ToldMessages == Messages(prog) \subseteq AllMessages
BY Zenon DEF Messages, AllMessages

\* Only a thread that runs or waits takes part.
LEMMA SomeMade ==
    ASSUME MonitorInv, NEW t \in ThreadNames, thread[t] # "none"
    PROVE  made # 0
BY Zenon DEF MonitorInv, MonitorFirst

\* The pipe of the invariant.
LEMMA PipeCounts == InPipe = CountsIn(input) /\ InPipe' = CountsIn(input')
BY Zenon DEF InPipe, CountsIn

\* A thread is made.
LEMMA MakeCounts ==
    ASSUME MonitorInv, Make
    PROVE  MonitorInv'
<1> DEFINE t == NextThread
<1>1. t \in ThreadNames /\ (t = "monitor" => made = 0)
  BY FirstThread, Zenon DEF MonitorInv, Make
<1>2. /\ UNCHANGED <<prog, input, count, submitted, counted>> /\ made' = made + 1
      /\ \/ thread' = [thread EXCEPT ![t] = "running"]
         \/ thread' = thread
  BY DEF Make, metrics
<1> HIDE DEF t
<1>3. MonitorTyped'
  BY <1>2 DEF MonitorInv, MonitorTyped
<1>4. made' # 0
  BY <1>2 DEF MonitorInv, MonitorTyped
<1>5. thread'["monitor"] # "blocked"
  <2>1. DOMAIN thread = ThreadNames /\ thread["monitor"] # "blocked"
    BY Zenon DEF MonitorInv, MonitorTyped, MonitorFirst
  <2>2. "monitor" \in ThreadNames
    BY DEF ThreadNames
  <2> QED BY <1>1, <1>2, <2>1, <2>2, Zenon
<1>6. CountsKept'
  <2>1. CASE t = "monitor"
    <3>1. /\ input = <<>> /\ counted = 0 /\ submitted = 0 /\ count = 0
      BY <1>1, <2>1, Zenon DEF MonitorInv, MonitorFirst
    <3>2. CountsIn(input) = {}
      BY <3>1 DEF CountsIn
    <3>3. Cardinality(InPipe') = 0
      BY <1>2, <3>2, PipeCounts, FS_EmptySet, Zenon
    <3> QED BY <1>2, <3>1, <3>3 DEF CountsKept
  <2>2. CASE t # "monitor"
    <3>1. thread'["monitor"] = thread["monitor"]
      BY <1>1, <1>2, <2>2 DEF MonitorInv, MonitorTyped, ThreadNames
    <3>2. InPipe' = InPipe
      BY <1>2, PipeCounts, Zenon
    <3> QED BY <1>2, <3>1, <3>2, Zenon DEF MonitorInv, CountsKept
  <2> QED BY <2>1, <2>2, Zenon
<1> QED BY <1>3, <1>4, <1>5, <1>6, Zenon DEF MonitorInv, MonitorFirst

\* A thread tells the monitor something, or waits.
LEMMA TellCounts ==
    ASSUME MonitorInv, NEW t \in ThreadNames, NEW msg \in Messages(prog),
           Tell(t, msg)
    PROVE  MonitorInv'
<1>1. /\ UNCHANGED <<prog, made, count, submitted>> /\ thread[t] = "running"
      /\ t # "monitor"
  BY MonitorReportsNothing, Zenon DEF Tell
<1>2. made # 0 /\ made' # 0
  <2>1. made # 0
    BY <1>1, SomeMade
  <2> QED BY <1>1, <2>1, Zenon
<1>3. CASE /\ input' = Append(input, msg) /\ thread' = thread
           /\ counted' = IF msg.type = "COUNT" THEN counted + msg.value
                                               ELSE counted
  <2>1. msg \in AllMessages /\ input \in Seq(AllMessages)
    BY ToldMessages, Zenon DEF MonitorInv, MonitorTyped
  <2>2. /\ input' \in Seq(AllMessages)
        /\ Cardinality(InPipe') = Cardinality(InPipe)
                + (IF msg.type = "COUNT" THEN 1 ELSE 0)
    BY <1>3, <2>1, PipeAppended, PipeCounts, Zenon
  <2>3. counted' = counted + (IF msg.type = "COUNT" THEN 1 ELSE 0)
        /\ counted' \in Nat
    BY <1>3, <2>1, MessageKinds DEF MonitorInv, MonitorTyped
  <2>4. Cardinality(InPipe) \in Nat
    BY <2>1, PipeFinite, PipeCounts, Zenon
  <2>5. CountsKept'
    BY <1>1, <1>3, <2>2, <2>3, <2>4 DEF MonitorInv, CountsKept, MonitorTyped
  <2> QED BY <1>1, <1>2, <1>3, <2>2, <2>3, <2>5, Zenon
          DEF MonitorInv, MonitorTyped, MonitorFirst
<1>4. CASE /\ thread' = [thread EXCEPT ![t] = "blocked"]
           /\ UNCHANGED <<input, counted>>
  <2>1. DOMAIN thread' = ThreadNames /\ thread'["monitor"] = thread["monitor"]
    BY <1>1, <1>4 DEF MonitorInv, MonitorTyped, ThreadNames
  <2>2. InPipe' = InPipe
    BY <1>4, PipeCounts, Zenon
  <2> QED BY <1>1, <1>2, <1>4, <2>1, <2>2, Zenon
          DEF MonitorInv, MonitorTyped, MonitorFirst, CountsKept
<1> QED BY <1>3, <1>4, Zenon DEF Tell

\* A thread goes on, or ends.
LEMMA EndCounts ==
    ASSUME MonitorInv, NEW t \in ThreadNames, Unblock(t) \/ Halt(t)
    PROVE  MonitorInv'
<1>1. /\ UNCHANGED <<prog, made, count, submitted, counted>>
      /\ thread[t] # "none"
      /\ \/ /\ thread[t] = "blocked" /\ input' = input
            /\ thread' = [thread EXCEPT ![t] = "running"]
         \/ /\ thread' = [thread EXCEPT ![t] = "gone"]
            /\ input' = IF t = "monitor" THEN <<>> ELSE input
  BY DEF Unblock, Halt, metrics
<1>2. made # 0 /\ made' # 0
  <2>1. made # 0
    BY <1>1, SomeMade
  <2> QED BY <1>1, <2>1, Zenon
<1>3. MonitorTyped'
  <2>1. DOMAIN thread' = ThreadNames
    BY <1>1, Zenon DEF MonitorInv, MonitorTyped
  <2>2. <<>> \in Seq(AllMessages)
    OBVIOUS
  <2>3. input' \in Seq(AllMessages)
    BY <1>1, <2>2, Zenon DEF MonitorInv, MonitorTyped
  <2> QED BY <1>1, <2>1, <2>3, Zenon DEF MonitorInv, MonitorTyped
<1>4. CASE t = "monitor"
  <2>1. thread'["monitor"] = "gone"
    BY <1>1, <1>4 DEF MonitorInv, MonitorTyped, MonitorFirst
  <2> QED BY <1>2, <1>3, <2>1 DEF MonitorInv, MonitorFirst, CountsKept
<1>5. CASE t # "monitor"
  <2>1. thread'["monitor"] = thread["monitor"] /\ input' = input
    BY <1>1, <1>5 DEF MonitorInv, MonitorTyped, ThreadNames
  <2>2. InPipe' = InPipe
    BY <2>1, PipeCounts, Zenon
  <2> QED BY <1>1, <1>2, <1>3, <2>1, <2>2, Zenon
          DEF MonitorInv, MonitorFirst, CountsKept
<1> QED BY <1>4, <1>5, Zenon

\* The monitor takes a message.
LEMMA TakeCounts ==
    ASSUME MonitorInv, Take
    PROVE  MonitorInv'
<1>1. /\ UNCHANGED <<prog, made, thread, submitted, counted>> /\ input # <<>>
      /\ thread["monitor"] = "running" /\ input' = Tail(input)
      /\ count' = IF Head(input).type = "COUNT" THEN count + Head(input).value
                                                ELSE count
  BY DEF Take, life
<1>2. made # 0 /\ made' # 0
  <2>1. "monitor" \in ThreadNames
    BY DEF ThreadNames
  <2>2. made # 0
    BY <1>1, <2>1, SomeMade
  <2> QED BY <1>1, <2>2, Zenon
<1>3. input \in Seq(AllMessages)
  BY Zenon DEF MonitorInv, MonitorTyped
<1>4. /\ input' \in Seq(AllMessages) /\ Head(input) \in AllMessages
      /\ Cardinality(InPipe) = Cardinality(InPipe')
            + (IF Head(input).type = "COUNT" THEN 1 ELSE 0)
  BY <1>1, <1>3, PipeTaken, PipeCounts, Zenon
<1>5. Cardinality(InPipe') \in Nat
  BY <1>4, PipeFinite, PipeCounts, Zenon
<1>6. count' = count + (IF Head(input).type = "COUNT" THEN 1 ELSE 0)
      /\ count' \in Nat
  BY <1>1, <1>4, MessageKinds DEF MonitorInv, MonitorTyped
<1>7. CountsKept'
  <2>1. /\ counted = submitted + count + Cardinality(InPipe)
        /\ submitted \in Nat /\ count \in Nat
    BY <1>1, Zenon DEF MonitorInv, CountsKept, MonitorTyped
  <2>2. counted = submitted + count' + Cardinality(InPipe')
    BY <1>4, <1>5, <1>6, <2>1
  <2> QED BY <1>1, <2>2, Zenon DEF CountsKept
<1> QED BY <1>1, <1>2, <1>4, <1>6, <1>7, Zenon
        DEF MonitorInv, MonitorTyped, MonitorFirst

\* The monitor submits what it has.
LEMMA TockCounts ==
    ASSUME MonitorInv, Tock
    PROVE  MonitorInv'
<1>1. /\ UNCHANGED <<prog, made, thread, input, counted>>
      /\ thread["monitor"] = "running"
      /\ submitted' = submitted + count /\ count' = 0
  BY DEF Tock, life, reset
<1>2. made # 0 /\ made' # 0
  <2>1. "monitor" \in ThreadNames
    BY DEF ThreadNames
  <2>2. made # 0
    BY <1>1, <2>1, SomeMade
  <2> QED BY <1>1, <2>2, Zenon
<1>3. InPipe' = InPipe /\ Cardinality(InPipe) \in Nat
  <2>1. input \in Seq(AllMessages)
    BY Zenon DEF MonitorInv, MonitorTyped
  <2> QED BY <1>1, <2>1, PipeCounts, PipeFinite, Zenon
<1>4. CountsKept'
  BY <1>1, <1>3 DEF MonitorInv, CountsKept, MonitorTyped
<1>5. MonitorTyped'
  BY <1>1 DEF MonitorInv, MonitorTyped
<1> QED BY <1>1, <1>2, <1>4, <1>5, Zenon DEF MonitorInv, MonitorFirst

\* The other steps leave the counts alone.
LEMMA OthersCount ==
    ASSUME MonitorInv,
           UNCHANGED <<prog, made, thread, input, count, submitted, counted>>
    PROVE  MonitorInv'
<1>1. InPipe' = InPipe
  BY PipeCounts, Zenon
<1> QED BY <1>1, Zenon DEF MonitorInv, MonitorTyped, MonitorFirst, CountsKept

\* While the monitor runs, what the threads of a subscriber count is never
\* lost and never submitted twice, whatever the order in which
\* _monitor_reactor() handles messages and TOCKs, for every program, however
\* many messages there are and however many fit in the pipe.
THEOREM CountsInvariant == ThreadsSpec => []CountsKept
<1>1. ThreadsInit => MonitorInv
  <2> SUFFICES ASSUME ThreadsInit PROVE MonitorInv
    OBVIOUS
  <2>1. /\ prog \in Programs /\ made = 0
        /\ thread = [t \in ThreadNames |-> "none"] /\ input = <<>>
        /\ count = 0 /\ submitted = 0 /\ counted = 0
    BY Zenon DEF ThreadsInit
  <2>2. "monitor" \in ThreadNames
    BY DEF ThreadNames
  <2>3. MonitorTyped
    BY <2>1 DEF MonitorTyped
  <2>4. MonitorFirst
    BY <2>1, <2>2 DEF MonitorFirst
  <2>5. CountsKept
    BY <2>1, <2>2 DEF CountsKept
  <2> QED BY <2>3, <2>4, <2>5, ZenonT(40) DEF MonitorInv
<1>2. MonitorInv /\ [ThreadsNext]_tvars => MonitorInv'
  <2> SUFFICES ASSUME MonitorInv, [ThreadsNext]_tvars PROVE MonitorInv'
    OBVIOUS
  <2>1. ASSUME Signal \/ MakeFails \/ Supervise \/ Caught \/ Destroy \/ Ended
        PROVE  MonitorInv'
    <3>1. UNCHANGED <<prog, made, thread, input, count, submitted, counted>>
      BY <2>1, Zenon DEF Signal, MakeFails, Supervise, Caught, Destroy, Ended,
         metrics
    <3> QED BY <3>1, OthersCount, Zenon
  <2>2. ASSUME SchedulerTick \/ Deliver \/ UNCHANGED tvars PROVE MonitorInv'
    <3>1. UNCHANGED <<prog, made, thread, input, count, submitted, counted>>
      BY <2>2, Zenon DEF SchedulerTick, Deliver, tvars, life, metrics
    <3> QED BY <3>1, OthersCount, Zenon
  <2>3. ASSUME NEW t \in ThreadNames, NEW msg \in Messages(prog), Tell(t, msg)
        PROVE  MonitorInv'
    BY <2>3, TellCounts, Zenon
  <2>4. ASSUME NEW t \in ThreadNames, Unblock(t) \/ Halt(t) PROVE MonitorInv'
    BY <2>4, EndCounts, Zenon
  <2> QED BY <2>1, <2>2, <2>3, <2>4, MakeCounts, TakeCounts, TockCounts,
             ZenonT(40)
          DEF ThreadsNext
<1>3. MonitorInv => CountsKept
  BY Zenon DEF MonitorInv
<1> QED BY <1>1, <1>2, <1>3, PTL DEF ThreadsSpec

=============================================================================
