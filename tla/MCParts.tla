------------------------------ MODULE MCParts ------------------------------
(***************************************************************************)
(* Five small parts that share no state with the others, in one instance:  *)
(* part says which of them runs in a behaviour, and the variables of the   *)
(* other four keep their initial values.                                   *)
(***************************************************************************)
EXTENDS Stats, RateSource, Beacon, MCConfig, Names

VARIABLE part

stats  == <<s, vals>>
source == <<r, total, base, time>>

MCValues == {-2, 0, 1, 3}

\* The fields of a name, and the names of up to three fields.
MCFields ==
    {[is |-> "pair", key |-> k, value |-> v] : k \in {1, 2, 3}, v \in {"1", "*"}}
    \cup {[is |-> "pair", key |-> 1, value |-> ""], [is |-> "*"], [is |-> "bad"]}

MCTexts ==
    {t \in SeqOf(MCFields, 3) : \A i, j \in DOMAIN t :
        i # j /\ t[i].is = t[j].is
            => t[i].is = "pair" /\ t[i].key # t[j].key}

\* A file of more than six tokens begins with a type.
LongFiles == Len(file) >= 6 => file[1].kind = "type"

SourceIdle == r = NewRate /\ total = 0 /\ base = 0 /\ time = 1
BeaconIdle == BeaconInit /\ zocket = "live" /\ push = TRUE

Init ==
    /\ StatsInit /\ ConfigInit /\ NamesInit
    /\ \/ part \in {"stats", "config", "names"} /\ SourceIdle /\ BeaconIdle
       \/ part = "source" /\ SourceInit /\ BeaconIdle
       \/ part = "beacon" /\ SourceIdle /\ BeaconInit

Next ==
    /\ UNCHANGED part
    /\ \/ part = "beacon" /\ BeaconNext /\ UNCHANGED <<stats, source, config, names>>
       \/ part = "stats" /\ StatsNext /\ UNCHANGED <<source, beacon, config, names>>
       \/ part = "source" /\ SourceNext /\ UNCHANGED <<stats, beacon, config, names>>
       \/ part = "config" /\ ConfigNext /\ UNCHANGED <<stats, source, beacon, names>>
       \/ part = "names" /\ NamesNext /\ UNCHANGED <<stats, source, beacon, config>>

Spec == Init /\ [][Next]_<<part, stats, source, beacon, config, names>>
             /\ (part = "beacon" => BeaconFairness)

=============================================================================
