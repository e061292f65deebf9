----------------------------- MODULE MCThreads -----------------------------
(***************************************************************************)
(* An instance of Threads for TLC.                                         *)
(***************************************************************************)
EXTENDS Threads

MCTold == [p \in Programs |-> CASE p = "bolo2influxdb" -> 3
                                [] p = "bolo2meta" -> 2
                                [] OTHER         -> 1]

=============================================================================
