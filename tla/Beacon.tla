------------------------------- MODULE Beacon -------------------------------
(***************************************************************************)
(* The beacons of the agent, dbolo (src/dbolo/main.c): the aggregator      *)
(* sends a BEACON now and then, and an agent that misses too many of them  *)
(* opens its sockets again, a limited number of times before it sleeps.    *)
(*                                                                         *)
(* Time is relative: left is expires minus the present time, and -MaxLate  *)
(* stands for everything that is longer ago.                               *)
(***************************************************************************)
EXTENDS Integers, Sequences, SequencesExt

CONSTANTS
    Reconnects,      \* OPTIONS.reconnects
    Timeout,         \* OPTIONS.timeout
    Sweep,           \* the interval that the aggregator puts in a BEACON
    Lifetime,        \* AGENT_SOCKET_LIFETIME_MS
    Backoff,         \* the 15 minutes of sleep()
    Grain,           \* how far a float is from the time it stands for
    Far,             \* stands for a time decades ahead
    MaxLate,         \* bound: how far expires may be in the past
    MaxInbox         \* bound: messages that wait

ASSUME BeaconAssumption ==
    /\ Reconnects \in Nat \ {0} /\ Timeout \in Nat \ {0} /\ Sweep \in Nat \ {0}
    /\ Lifetime \in Nat /\ Backoff \in Nat /\ Grain \in Nat
    /\ Far \in Nat /\ Far > Timeout + Sweep + Grain
    /\ MaxLate \in Nat \ {0} /\ MaxInbox \in Nat \ {0}

VARIABLES
    pc, event,       \* where the loop is, and whether epoll_wait() had bfd
    left, interval, reconnects,      \* of bsocket_t: expires, hb->interval
    zocket,          \* its socket: "null", "idle" (nothing comes from it),
                     \* "live" or "dead" (connected, but its peer is gone)
    inbox, edge,     \* what waits in it; whether epoll has an edge for bfd
    push, pleft      \* of socket_t: zocket # NULL, expires

beacon == <<pc, event, left, interval, reconnects, zocket, inbox, edge, push,
            pleft>>

Late(t) == IF t < -MaxLate THEN -MaxLate ELSE t

----------------------------------------------------------------------------
(* The network.                                                            *)

\* beacon_sweep() of the aggregator; "other" stands for any other PDU that
\* comes from the endpoint.
Arrive ==
    /\ zocket = "live" /\ Len(inbox) < MaxInbox
    /\ \E m \in {"BEACON", "other"} : inbox' = Append(inbox, m)
    /\ edge' = TRUE
    /\ UNCHANGED <<pc, event, left, interval, reconnects, zocket, push, pleft>>

\* The peer goes away and TCP does not notice.
Die ==
    /\ zocket = "live" /\ zocket' = "dead"
    /\ UNCHANGED <<pc, event, left, interval, reconnects, inbox, edge, push,
                   pleft>>

TickBeacon ==
    /\ left' = IF left = Far THEN Far ELSE Late(left - 1)
    /\ pleft' = IF pleft > 0 THEN pleft - 1 ELSE 0
    /\ UNCHANGED <<pc, event, interval, reconnects, zocket, inbox, edge, push>>

----------------------------------------------------------------------------
(* beacon_timer.                                                           *)

\* s_reconnect() of the socket that PDUs are sent on, when its time is up;
\* made: whether zmq_socket() succeeds.
s_reconnect(made) ==
    IF pleft > 0 THEN UNCHANGED <<push, pleft>>
                 ELSE push' = made /\ pleft' = Lifetime

\* beacon_close() and beacon_connect(), up to three times.  zmq_socket() may
\* fail, or one of the calls that follow it.
Reopen(last) ==
    \E made \in BOOLEAN :
        /\ s_reconnect(made)
        /\ zocket' = last /\ inbox' = <<>> /\ edge' = FALSE
        /\ event' \in {event, FALSE}      \* the new bfd may be the old number

\* hb_miss() may lengthen the interval.
Missed == interval' \in {interval, Timeout}

Expired == pc = "timer" /\ left < 0 /\ pc' = "events"

\* Too few misses yet.
Miss ==
    /\ Expired /\ Missed /\ left' = left + interval
    /\ UNCHANGED <<event, reconnects, zocket, inbox, edge, push, pleft>>

Reconnect(last) ==
    /\ Expired /\ Missed /\ reconnects < Reconnects
    /\ left' = left + interval
    /\ reconnects' = reconnects + 2
    /\ Reopen(last)

Bad_Rested == reconnects

\* reconnects = 0, after the sleep.
Rested == 0

Sleep ==
    /\ Expired /\ Missed /\ reconnects >= Reconnects
    /\ left' = Late(left + interval - Backoff)
    /\ pleft' = IF pleft > Backoff THEN pleft - Backoff ELSE 0
    /\ reconnects' = Rested
    /\ UNCHANGED <<event, zocket, inbox, edge, push>>

NotExpired ==
    /\ pc = "timer" /\ left >= 0 /\ pc' = "events"
    /\ UNCHANGED <<event, left, interval, reconnects, zocket, inbox, edge,
                   push, pleft>>

----------------------------------------------------------------------------
(* beacon_ping.  ts / now is a division of integers: the latency is 2 for  *)
(* a BEACON sent before this millisecond, and expires twice the time; for  *)
(* one sent in it, or by a clock that is ahead, it is 1.                   *)

Expiries == {Far} \cup {Late(Sweep + d) : d \in -Grain .. Grain}

\* What waits is read, if there was an event.
Ping ==
    /\ pc = "events" /\ pc' = "wait" /\ event' = FALSE
    /\ IF event
       THEN LET n == Len(SelectSeq(inbox, LAMBDA m : m = "BEACON"))
            IN  /\ inbox' = <<>>
                /\ IF n = 0 THEN UNCHANGED <<left, interval>>
                            ELSE interval' = Sweep /\ left' \in Expiries
                /\ reconnects' = IF reconnects > n THEN reconnects - n ELSE 0
       ELSE UNCHANGED <<inbox, left, interval, reconnects>>
    /\ UNCHANGED <<zocket, edge, push, pleft>>

\* epoll_wait()
WaitBeacon ==
    /\ pc = "wait" /\ pc' = "timer"
    /\ event' = edge /\ edge' = FALSE
    /\ UNCHANGED <<left, interval, reconnects, zocket, inbox, push, pleft>>

----------------------------------------------------------------------------

\* s_socket(), s_reconnect(), beacon_socket() and beacon_connect().
BeaconInit ==
    /\ pc = "timer" /\ event = FALSE
    /\ left = 0 /\ interval = Timeout \div 5 /\ reconnects = 0
    /\ zocket \in {"null", "idle", "live"} /\ inbox = <<>> /\ edge = FALSE
    /\ push \in BOOLEAN /\ pleft = Lifetime

Reopened == \E last \in {"null", "idle", "live"} : Reconnect(last)

BeaconLoop ==
    \/ Miss \/ Reopened \/ Sleep \/ NotExpired
    \/ Ping \/ WaitBeacon

BeaconNext == BeaconLoop \/ Arrive \/ Die \/ TickBeacon

\* The loop goes on and time passes.  A library that is told of one miss
\* after the other asks for new sockets in the end, and a connection that is
\* tried again and again is made.
BeaconFairness == /\ WF_beacon(BeaconLoop) /\ WF_beacon(TickBeacon)
                  /\ SF_beacon(Reconnect("live")) /\ SF_beacon(Reopened \/ Sleep)

----------------------------------------------------------------------------
(* Properties.                                                             *)

\* A connection that is dead, or was never made, is replaced, however many
\* attempts fail in between, unless the last BEACON was one whose latency
\* came out as 2: then its silence is not noticed for decades.
DeadReplaced == (zocket # "live") ~> (zocket = "live" \/ left = Far)

=============================================================================
