------------------------------ MODULE Windows ------------------------------
(***************************************************************************)
(* What a windowed total promises: an abstract specification, without      *)
(* clocks, timers, hash tables or save files, that the counters of the     *)
(* kernel are shown to implement (module CounterWindows).                  *)
(*                                                                         *)
(* Each name has at most one window open, with a total.  An amount that is *)
(* submitted for the open window is added to it; one for another window    *)
(* first publishes the open one.  Published or not, a window leaves with   *)
(* its whole total, and what comes after starts from nothing.              *)
(***************************************************************************)
EXTENDS Integers

CONSTANTS Names,
          Starts,        \* the windows amounts are for, by their start
          Amounts,       \* what can be submitted
          Modulus        \* totals are kept modulo this

VARIABLES open,          \* the open window of each name, with its total
          published,     \* the windows that the last step published
          running

\* An amount without a window waits for the next one to be opened.
NoWindow == -1

Total  == 0 .. (Modulus - 1)
Held   == [start : Int, total : Total]
None   == [start |-> NoWindow, total |-> 0]

Publication(n) == <<n, open[n].start, open[n].total>>

Opened == {n \in Names : open[n].start # NoWindow}

Init == open = [n \in Names |-> None] /\ published = {} /\ running = TRUE

\* An amount joins the open total; if it has no window itself, the total may
\* lose its own.
Join(n, w, d) ==
    /\ running /\ (open[n].start \in {NoWindow, w} \/ w = NoWindow)
    /\ open' = [open EXCEPT ![n] = [start |-> w,
                                    total |-> (open[n].total + d) % Modulus]]
    /\ published' = {} /\ UNCHANGED running

\* An amount for another window publishes the open one.
Turn(n, w, d) ==
    /\ running /\ open[n].start \notin {NoWindow, w}
    /\ open' = [open EXCEPT ![n] = [start |-> w, total |-> d % Modulus]]
    /\ published' = {Publication(n)} /\ UNCHANGED running

Cleared(S) == [n \in Names |-> IF n \in S THEN None ELSE open[n]]

\* Open windows are published, and closed by that.
Publish(S) ==
    /\ published' = {Publication(n) : n \in S}
    /\ open' = Cleared(S) /\ UNCHANGED running

\* Names are forgotten, with what was submitted for them.
Discard(S) ==
    /\ running /\ open' = Cleared(S)
    /\ published' = {} /\ UNCHANGED running

\* All that is open is lost, unless the last step published it.
Stop(S) ==
    /\ running /\ running' = FALSE
    /\ published' = {Publication(n) : n \in S} /\ open' = Cleared(Names)

\* What a start begins with is not this specification's concern.
Start ==
    /\ ~running /\ running' = TRUE
    /\ open' \in [Names -> Held] /\ published' = {}

Next ==
    \/ \E S \in SUBSET Opened : Publish(S) \/ Stop(S)
    \/ \E n \in Names, w \in Starts \cup {NoWindow}, d \in Amounts :
            Join(n, w, d) \/ Turn(n, w, d)
    \/ \E S \in SUBSET Names : Discard(S)
    \/ Start

Spec == Init /\ [][Next]_<<open, published, running>>

=============================================================================
