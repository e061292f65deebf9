--------------------------- MODULE KernelPromises ---------------------------
(***************************************************************************)
(* Promises of the observed kernel that are not proved: liveness, which    *)
(* TLC checks, and at the end readings of the documentation that the code  *)
(* does not keep.                                                          *)
(***************************************************************************)
EXTENDS KernelHistory

----------------------------------------------------------------------------
(* Liveness.  The scheduler thread sends a TOCK every second, and time     *)
(* goes on.                                                                *)

LiveSpec == HSpec /\ WF_hvars(HTock) /\ WF_hvars(HAdvance)

Tables == <<counters, samples, rates>>

\* Window w of metric n is open, and its values are not broadcast yet.
Open(n, w) ==
    \E i \in 1..3 : /\ n \in DOMAIN Tables[i] /\ ~Tables[i][n].ignore
                    /\ Tables[i][n].last_seen # 0
                    /\ winstart(n, Tables[i][n].last_seen) = w

\* Every window of every metric is closed in the end, and its value
\* broadcast, also if nothing is submitted for the metric any more.
WindowCloses == \A n \in Metrics, w \in Starts : Open(n, w) ~> ~Open(n, w)

\* State n is fresh, by a report stamped ts.
Calm(n, ts) == /\ n \in DOMAIN states /\ ~states[n].ignore
               /\ ~states[n].stale /\ states[n].last_seen = ts

\* A state that is not reported any more is called stale in the end.
SilenceNoticed ==
    \A n \in StateNames, ts \in Stamps :
        Calm(n, ts) ~> ~Calm(n, ts)

----------------------------------------------------------------------------
(* What the code does not keep.                                            *)

\* max.events bounds the buffer.
EventsBounded == KeepNumber /\ MaxEvents > 0 => Len(GetEvents(0)) <= MaxEvents

\* A key that SEARCH.KEYS finds is a key of the config hash: GET.KEYS has a
\* value for it.
FoundKeysHaveValues == SearchKeys(Keys) \subseteq DOMAIN GetKeys(Keys)

\* "everything it knows about [...] events": all saved events are restored.
SavedEventsSurvive ==
    [][Restart /\ durable.stands => events' = durable.snap.events]_hvars

\* A state that a complete save knew a report of is not pending again after
\* a daemon crash.
ReportSurvivesCrash ==
    [][Restart /\ durable.snap # NoFile =>
        \A n \in Covered(durable.snap.states) :
            durable.snap.states[n].status # PENDING
                => n \in DOMAIN states' /\ states'[n].status # PENDING]_hvars

\* An init system starts the aggregator again when it is down.
RestartSpec == LiveSpec /\ WF_hvars(HBoot)

\* A crashed aggregator can be started again.
RestartsAgain == ~up ~> up

\* CheckedFresh at all times: freshness is the time bolo waits for a new
\* result.
AlwaysCheckedFresh ==
    [][Tock /\ FreshDue =>
        \A n \in DOMAIN states' : FreshAt(n, states'[n], now)]_vars

=============================================================================
