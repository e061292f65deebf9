------------------------------- MODULE Names -------------------------------
(***************************************************************************)
(* Qualified names (src/bolo_name.c) as "bolo name" uses them: parsed,     *)
(* matched, edited and written out again (src/bolo/cmd_name.c).            *)
(*                                                                         *)
(* The text of a name is a sequence of fields between commas: "*", a field *)
(* that is neither "*" nor key=value, or a record of a key and a value.    *)
(* Keys are numbers in strcmp()'s order.                                   *)
(***************************************************************************)
EXTENDS Integers, Sequences, SequencesExt

CONSTANTS
    Texts,           \* the names that are given, no key twice in one
    Keys, NameValues,
    MaxEdits         \* bound: arguments of one command

STAR == "*"
BAD  == "bad"
NULL == "NULL"

VARIABLES
    cmd,             \* the subcommand, once it is known
    name,            \* bolo_name_t: parts, wildcard
    out,             \* what was printed
    edits, want      \* history: arguments taken; the name as a map

names == <<cmd, name, out, edits, want>>

----------------------------------------------------------------------------

\* qsort() by key; it keeps the order of equal ones.
Sorted(parts) == SortSeq(parts, LAMBDA p, q : p.key < q.key)

\* strncmp(a, "*", b - a) is zero for an empty value, too.
Wild(v) == v \in {STAR, ""}

\* bolo_name_parse() returns NULL otherwise.
Valid(text) == \A i \in DOMAIN text : text[i].is # BAD

bolo_name_parse(text) ==
    LET pairs == SelectSeq(text, LAMBDA f : f.is = "pair")
    IN  [wildcard |-> \E i \in DOMAIN text : text[i].is = STAR,
         parts |-> Sorted([i \in DOMAIN pairs |->
                             [key |-> pairs[i].key, value |-> pairs[i].value,
                              wildcard |-> Wild(pairs[i].value)]])]

\* The parts in their order and the "*" last; the length of a NULL value is
\* undefined, and the program ends there.
bolo_name_string(n) ==
    IF \E i \in DOMAIN n.parts : n.parts[i].value = NULL THEN "crash"
    ELSE "printed"

Bad_Consumed(aEnd, bEnd, wild) == wild \/ (aEnd /\ bEnd)

\* All components of both, or those of b and it has a "*" for the rest.
Consumed(aEnd, bEnd, wild) == bEnd /\ (aEnd \/ wild)

\* The loop of bolo_name_match(), from component i of a and j of b; TRUE is
\* its 0.
bolo_name_match(a, b) ==
    LET na == Len(a.parts)
        nb == Len(b.parts)
        go[i \in 1 .. na + 1, j \in 1 .. nb + 1] ==
            CASE i <= na /\ j <= nb /\ a.parts[i].key = b.parts[j].key ->
                   /\ b.parts[j].wildcard \/ a.parts[i].value = b.parts[j].value
                   /\ go[i + 1, j + 1]
              [] i <= na /\ j <= nb /\ a.parts[i].key # b.parts[j].key
                    /\ b.wildcard -> go[i + 1, j]
              [] OTHER -> Consumed(i = na + 1, j = nb + 1, b.wildcard)
    IN  (nb = 0 /\ b.wildcard) \/ go[1, 1]

Bad_bolo_name_set(n, k, v) ==
    LET i == SelectInSeq(n.parts, LAMBDA p : p.key = k)
        value == IF v = STAR THEN NULL ELSE v
    IN  IF i # 0 THEN [n EXCEPT !.parts[i].value = value]
        ELSE [n EXCEPT !.parts = Append(@, [key |-> k, value |-> value,
                                            wildcard |-> v = STAR])]

\* A value of NULL or "*" is stored as NULL.  The wildcard of a part that is
\* there already stays as it was.
bolo_name_set(n, k, v) ==
    LET i == SelectInSeq(n.parts, LAMBDA p : p.key = k)
        wild  == v \in {STAR, NULL}
        value == IF wild THEN NULL ELSE v
    IN  IF i # 0 THEN [n EXCEPT !.parts[i].value = value]
        ELSE [n EXCEPT !.parts = Sorted(Append(@, [key |-> k, value |-> value,
                                                   wildcard |-> wild]))]

bolo_name_unset(n, k) ==
    LET i == SelectInSeq(n.parts, LAMBDA p : p.key = k)
    IN  IF i = 0 THEN n ELSE [n EXCEPT !.parts = RemoveAt(@, i)]

bolo_name_concat(a, b) ==
    FoldLeft(LAMBDA n, p : bolo_name_set(n, p.key, p.value), a, b.parts)

----------------------------------------------------------------------------
(* cmd_name.                                                               *)

\* History: the map that a text stands for.
Pairs(text) == {i \in DOMAIN text : text[i].is = "pair"}
Map(text) == [k \in {text[i].key : i \in Pairs(text)} |->
                 text[CHOOSE i \in Pairs(text) : text[i].key = k].value]
HasStar(text) == \E i \in DOMAIN text : text[i].is = STAR

\* match parses both of its names before it looks at the first one; the
\* others give up at a name that is not valid.
NameParse(text) ==
    /\ cmd = "none"
    /\ IF ~Valid(text)
       THEN cmd' = "done" /\ out' = "invalid" /\ UNCHANGED <<name, want>>
       ELSE /\ cmd' = "any" /\ name' = bolo_name_parse(text) /\ UNCHANGED out
            /\ want' = [map |-> Map(text), star |-> HasStar(text), text |-> <<>>]
    /\ UNCHANGED edits

NameMatch(text) ==
    /\ cmd = "any" /\ cmd' = "match"
    /\ out' = IF ~Valid(text) THEN "invalid"
              ELSE IF bolo_name_match(name, bolo_name_parse(text)) THEN "yes"
              ELSE "no"
    /\ want' = [want EXCEPT !.text = text] /\ UNCHANGED <<name, edits>>

Edit(c) ==
    /\ cmd \in {"any", c} /\ out = "none" /\ edits < MaxEdits
    /\ cmd' = c /\ edits' = edits + 1 /\ UNCHANGED out

NameSet(k, v) ==
    /\ Edit("set") /\ name' = bolo_name_set(name, k, v)
    /\ want' = [want EXCEPT !.map = (k :> v) @@ @]

NameUnset(k) ==
    /\ Edit("unset") /\ name' = bolo_name_unset(name, k)
    /\ want' = [want EXCEPT !.map = [x \in DOMAIN @ \ {k} |-> @[x]]]

\* A name that is not valid is skipped.
NameConcat(text) ==
    /\ Edit("concat")
    /\ IF ~Valid(text) THEN UNCHANGED <<name, want>>
       ELSE /\ name' = bolo_name_concat(name, bolo_name_parse(text))
            /\ want' = [want EXCEPT !.map = Map(text) @@ @]

\* fix, and the end of the others
NameString ==
    /\ cmd \in {"any", "set", "unset", "concat"} /\ out = "none"
    /\ out' = bolo_name_string(name) /\ cmd' = "done"
    /\ UNCHANGED <<name, edits, want>>

NamesInit ==
    /\ cmd = "none" /\ name = bolo_name_parse(<<>>) /\ out = "none" /\ edits = 0
    /\ want = [map |-> <<>>, star |-> FALSE, text |-> <<>>]

NamesNext ==
    \/ \E text \in Texts : NameParse(text) \/ NameMatch(text) \/ NameConcat(text)
    \/ \E k \in Keys : NameUnset(k) \/ \E v \in NameValues : NameSet(k, v)
    \/ NameString

----------------------------------------------------------------------------
(* Properties.                                                             *)

\* However it was edited, a name is the map that its text and the edits make,
\* with its parts in the order of their keys, each once; a value that was set
\* to "*" is NULL.
NameIsMap ==
    /\ \A i, j \in DOMAIN name.parts :
          i < j => name.parts[i].key < name.parts[j].key
    /\ {name.parts[i].key : i \in DOMAIN name.parts} = DOMAIN want.map
    /\ \A i \in DOMAIN name.parts :
          LET v == want.map[name.parts[i].key]
          IN  \/ name.parts[i].value = v
              \/ v = STAR /\ name.parts[i].value = NULL
    /\ name.wildcard = want.star

\* What "bolo name match" answers: the second name matches the first one if
\* the first one has all of its keys, with the same values where the second
\* does not leave them open, and no others unless it has a "*".
MatchMeans ==
    cmd = "match" /\ out # "invalid" =>
        LET b == Map(want.text)
        IN  out = "yes" <=>
                /\ \A k \in DOMAIN b : /\ k \in DOMAIN want.map
                                       /\ b[k] \in {STAR, "", want.map[k]}
                /\ HasStar(want.text) \/ DOMAIN want.map = DOMAIN b

=============================================================================
