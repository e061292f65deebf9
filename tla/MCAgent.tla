------------------------------ MODULE MCAgent ------------------------------
(***************************************************************************)
(* Two commands among the lines of the file that are skipped.  The first   *)
(* writes a line and the beginning of another, a line too long for the     *)
(* buffer and the pipe together, or the line that ends dbolo; the second   *)
(* writes an empty line, and its interval overflows.                       *)
(***************************************************************************)
EXTENDS Agent

Command(x, unit, space) ==
    [kind |-> "command", x |-> x, unit |-> unit, space |-> space]

MCFile ==
    << [kind |-> "blank"], Command(1, "s", TRUE), Command(0, "s", TRUE),
       Command(2, "h", TRUE), Command(1, "m", FALSE), Command(1, "d", TRUE),
       Command(1, "m", TRUE), [kind |-> "unterminated"] >>

MCOutputs ==
    << { <<"a", NL, "b">>, <<"a", "a", "a", NL>>, <<"e", NL>> },
       { <<NL>> } >>

=============================================================================
