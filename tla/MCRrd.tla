------------------------------- MODULE MCRrd -------------------------------
(***************************************************************************)
(* Two metrics.  One of them is both a counter and a sample set; the other *)
(* is named like the type of its PDUs.                                     *)
(***************************************************************************)
EXTENDS Rrd

MCNames == {"cpu", "RATE"}
MCSha1  == [n \in MCNames |-> IF n = "cpu" THEN "03/ac" ELSE "5e/11"]
MCTypes == [n \in MCNames |-> IF n = "cpu" THEN {"COUNTER", "SAMPLE"}
                                           ELSE {"RATE"}]

=============================================================================
