----------------------------- MODULE MCKernel -----------------------------
(***************************************************************************)
(* Instances of KernelHistory for TLC.  The constants that are functions   *)
(* or ranges get their values here, the others in the .cfg files.          *)
(***************************************************************************)
EXTENDS KernelPromises, CounterWindows

MCFreshness   == [n \in StateNames |-> 2]
MCStaleStatus == [n \in StateNames |-> 1]
MCWindow      == [n \in Metrics |-> 2]
MCTrimmed     == [v \in KeyValues |-> IF v = " v1" THEN "v1" ELSE v]
MCBatches     == {[n |-> 1, min |-> 1, max |-> 1, sum |-> 1],
                  [n |-> 2, min |-> 1, max |-> 2, sum |-> 3]}
MCOne         == {[n |-> 1, min |-> 1, max |-> 1, sum |-> 1]}
MCPatterns    == {Names}
MCNoPatterns  == {}
MCStamps      == {0} \cup (Epoch - 1) .. (MaxTime - 2)
MCFew         == {0, Epoch - 1, Epoch, Epoch + 2}

----------------------------------------------------------------------------
(* State constraints.  The handlers of different metrics, of states and of *)
(* events share nothing but the timers, the clock and FORGET, so one       *)
(* instance looks at them one after the other.                             *)

Touched == {n \in Metrics : latest[n] # 0 \/ n \in zeroed}

\* One metric at a time; and events only while nothing else has happened.
OneAtATime ==
    /\ Cardinality(Touched) <= 1
    /\ log # <<>> => /\ now = Epoch /\ Touched = {} /\ view = NoRecords
                     /\ states = configure_states
                     /\ counters = configure_counters
                     /\ samples = configure_samples /\ rates = configure_rates

\* What the process, the save file and the last complete save hold.
Contents ==
    {[states |-> states, counters |-> counters, samples |-> samples,
      rates |-> rates, events |-> events]}
    \cup (IF savefile \in {NoFile, EmptyFile} THEN {} ELSE {savefile})
    \cup (IF durable.snap = NoFile THEN {} ELSE {durable.snap})

Used(tbl) == \E n \in DOMAIN tbl : tbl[n].last_seen # 0

UsedKeys == \/ DOMAIN keys # {} \/ DOMAIN keysfile # {}
            \/ durable.snap # NoFile /\ DOMAIN durable.snap.keys # {}

\* What is looked at together: kinds of which one hides the records of the
\* other when it cannot be read.  Keys are looked at within one second, and
\* those that cannot be read back with one value.
Together == {{"state", "counter"}, {"state", "event"}, {"event", "rate"},
             {"sample"}, {"keys"}}

GroupsApart ==
    LET all == Contents
        use == {kind \in UNION Together :
                  CASE kind = "state"   -> \E c \in all : Used(c.states)
                    [] kind = "counter" -> \E c \in all : Used(c.counters)
                    [] kind = "sample"  -> \E c \in all : Used(c.samples)
                    [] kind = "rate"    -> \E c \in all : Used(c.rates)
                    [] kind = "event"   -> \E c \in all : c.events # <<>>
                    [] kind = "keys"    -> UsedKeys}
    IN  /\ \A k \in DOMAIN keys \ PlainKeys : keys[k] \in {NULL, "v1"}
        /\ UsedKeys => now = Epoch
        /\ \E group \in Together : use \subseteq group

=============================================================================
