--------------------------- MODULE CounterWindows ---------------------------
(***************************************************************************)
(* The counters of the kernel implement the totals of module Windows: the  *)
(* refinement mapping.                                                     *)
(***************************************************************************)
EXTENDS Kernel

\* A datapoint with last_seen = 0 has no window.
OpenWindow(n) ==
    IF n \in DOMAIN counters
    THEN [start |-> IF counters[n].last_seen = 0 THEN -1
                    ELSE winstart(n, counters[n].last_seen),
          total |-> counters[n].value]
    ELSE [start |-> -1, total |-> 0]

CounterPDUs == {p \in out : p.type = "COUNTER"}

CounterStarts == {winstart(n, ts) : n \in CounterNames, ts \in Stamps}

W == INSTANCE Windows WITH
        Names <- CounterNames, Modulus <- U64,
        Starts <- CounterStarts,
        Amounts <- {int32(i) : i \in Increments},
        open <- [n \in CounterNames |-> OpenWindow(n)],
        published <- {<<p.name, p.ts, p.value>> : p \in CounterPDUs},
        running <- up

\* Whatever order submissions, TOCKs, FORGETs and restarts come in, the
\* COUNTER handler, the flush of the TOCK handler and the save file treat each
\* counter as a windowed total: amounts go to the window of their timestamp,
\* and a window is broadcast as a whole and then gone.
CountersAreWindows == W!Spec

=============================================================================
