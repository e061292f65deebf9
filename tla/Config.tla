------------------------------- MODULE Config -------------------------------
(***************************************************************************)
(* configure() and its lexer (src/config.c), reading a file of any tokens, *)
(* one call of lex() per step.                                             *)
(*                                                                         *)
(* A token has a kind and a text.  Kinds that the parser treats alike are  *)
(* one kind: "server" stands for the nine directives that take a string,   *)
(* "setting" for sweep, save.size, save.interval and nsca.port, "metric"   *)
(* for counter, sample and rate.  The text of a NUMBER or TIME is its      *)
(* digits (a TIME in seconds).  Reading can also end: at the end of the    *)
(* file ("eof"), at something that is no token ("error"), or at such a     *)
(* thing in a last line without a newline ("error at eof").                *)
(***************************************************************************)
EXTENDS Integers, Sequences, SequencesExt

CONSTANTS
    Tokens,          \* what the file is made of
    Width,           \* of the lexer's buffer for values
    Freshness,       \* 300
    MaxTokens,       \* bound: tokens of a file
    MaxBefore        \* bound: tokens before a grace.period, which takes any

NUL == -1
Ends == {"eof", "error", "error at eof"}
Keywords == {"server", "dumpfiles", "grace.period", "max.events", "setting",
             "log", "use", "window", "type", "freshness", "state", "metric"}
Named == {"TYPENAME", "WINDOWNAME"}

VARIABLES
    cpc,             \* what configure() expects next
    value,           \* parser_t: value[], where NUL ends a string
    hash,            \* the types and the windows, as the objects they name
    objs,            \* each object's freshness or length
    default,         \* default_type and default_win
    ref,             \* the type or window in hand; 0 is NULL
    points,          \* the names and patterns that were declared
    stored,          \* the numbers taken, with the digits that stood there
    rc, file         \* the result; history: the tokens read

config == <<cpc, value, hash, objs, default, ref, points, stored, rc, file>>

----------------------------------------------------------------------------
(* lex.                                                                    *)

\* What is written to value[]: its first byte is always reset; the digits of
\* a NUMBER are copied without a terminator.
Chars(tok) ==
    CASE tok.kind = "NUMBER" -> tok.text
      [] tok.kind = "TIME"   -> Append(tok.text, NUL)
      [] tok.kind \in Keywords \cup {"{", "}"} -> <<NUL>>
      [] OTHER -> <<-2, NUL>>    \* a byte that is no digit

Copied(buf, tok) ==
    Chars(tok) \o SubSeq(buf, Len(Chars(tok)) + 1, Width)

Decimal(digits) == FoldLeft(LAMBDA n, d : 10 * n + d, 0, digits)

\* atoi(p.value), after this token
atoi(tok) ==
    LET buf == Copied(value, tok)
        n   == CHOOSE k \in 0 .. Width :
                  /\ \A i \in 1 .. k : buf[i] \in 0 .. 9
                  /\ k < Width => buf[k + 1] \notin 0 .. 9
    IN  Decimal(SubSeq(buf, 1, n))

----------------------------------------------------------------------------
(* configure.                                                              *)

Bail == rc' = "failed" /\ cpc' = "done"

Goto(next) == cpc' = next /\ UNCHANGED rc

\* A number is taken over.
Store(tok) ==
    stored' = IF tok.kind \in {"NUMBER", "TIME"}
              THEN Append(stored, [got |-> atoi(tok), wrote |-> Decimal(tok.text)])
              ELSE stored

\* calloc(): objects are numbered as they are made.
New(n) == objs' = Append(objs, n)

SetObj(n) == objs' = [objs EXCEPT ![Len(objs)] = n]

Get(k, name) == IF name \in DOMAIN hash[k] THEN hash[k][name] ELSE 0

HashSet(k, name) ==
    hash' = [hash EXCEPT ![k] = [x \in DOMAIN hash[k] \cup {name} |->
                IF x = name THEN Len(objs) + 1 ELSE hash[k][x]]]

\* The switch on the first token of a directive.
First == [server |-> "string", dumpfiles |-> "top", log |-> "log",
          setting |-> "number", use |-> "use", window |-> "window",
          type |-> "type", state |-> "state", metric |-> "metric"]
         @@ ("grace.period" :> "grace") @@ ("max.events" :> "max")

Top(tok) ==
    /\ cpc = "top"
    /\ IF tok.kind \in DOMAIN First THEN Goto(First[tok.kind]) ELSE Bail
    /\ UNCHANGED <<hash, objs, default, ref, points, stored>>

\* SERVER_STRING; log takes two.
String(tok) ==
    /\ cpc \in {"string", "log"}
    /\ IF tok.kind # "STRING" THEN Bail
       ELSE Goto(IF cpc = "log" THEN "string" ELSE "top")
    /\ UNCHANGED <<hash, objs, default, ref, points, stored>>

\* grace.period takes any token for a number.
Number(tok) ==
    /\ cpc \in {"grace", "max", "number"}
    /\ \/ /\ \/ cpc = "grace" \/ tok.kind = "NUMBER"
             \/ cpc = "max" /\ tok.kind = "TIME"
          /\ Goto("top") /\ Store(tok)
       \/ /\ cpc # "grace" /\ tok.kind # "NUMBER"
          /\ cpc = "max" => tok.kind # "TIME"
          /\ Bail /\ UNCHANGED stored
    /\ UNCHANGED <<hash, objs, default, ref, points>>

Use(tok) ==
    /\ cpc = "use"
    /\ IF tok.kind \in Named
       THEN Goto("top") /\ default' = [default EXCEPT ![tok.kind] = tok.text]
       ELSE Bail /\ UNCHANGED default
    /\ UNCHANGED <<hash, objs, ref, points, stored>>

\* A window or type is in the hash before the rest of it has been read.
Define(tok) ==
    /\ \/ cpc = "window" /\ tok.kind = "WINDOWNAME" /\ New(0) /\ Goto("wtime")
       \/ cpc = "type" /\ tok.kind = "TYPENAME" /\ New(Freshness) /\ Goto("{")
    /\ HashSet(tok.kind, tok.text)
    /\ UNCHANGED <<default, ref, points, stored>>

Undefined(tok) ==
    /\ \/ cpc = "window" /\ tok.kind # "WINDOWNAME"
       \/ cpc = "type" /\ tok.kind # "TYPENAME"
       \/ cpc = "{" /\ tok.kind # "{"
    /\ Bail /\ UNCHANGED <<hash, objs, default, ref, points, stored>>

\* The number after a window's name or after freshness.
Length(tok) ==
    /\ cpc \in {"wtime", "fresh"}
    /\ IF tok.kind # "NUMBER" THEN Bail /\ UNCHANGED <<objs, stored>>
       ELSE /\ SetObj(atoi(tok)) /\ Store(tok)
            /\ Goto(IF cpc = "wtime" THEN "top" ELSE "body")
    /\ UNCHANGED <<hash, default, ref, points>>

Statuses == {"warning", "critical", "unknown"}

\* type TYPENAME { freshness NUMBER, or a status with its message }
Body(tok) ==
    /\ \/ cpc = "{" /\ tok.kind = "{" /\ Goto("body")
       \/ /\ cpc = "body"
          /\ CASE tok.kind = "}" -> Goto("top")
               [] tok.kind = "freshness" -> Goto("fresh")
               [] tok.kind = "STRING" /\ tok.text \in Statuses -> Goto("summary")
               [] OTHER -> Bail
       \/ /\ cpc = "summary"
          /\ IF tok.kind = "STRING" THEN Goto("body") ELSE Bail
    /\ UNCHANGED <<hash, objs, default, ref, points, stored>>

----------------------------------------------------------------------------
(* state, counter, sample and rate.                                        *)

Bad_Missing(k) == FALSE

\* Neither a name that is defined nor a default that is.
Missing(k) == k = 0

\* The name or pattern.  pcre_compile() may fail.
Declared(tok, r) ==
    \/ /\ tok.kind \in {"STRING", "MATCH"} /\ ~Missing(r)
       /\ points' = Append(points, [ref |-> r, at |-> Len(file) + 1])
       /\ Goto("top")
    \/ /\ tok.kind \notin {"STRING", "MATCH"} \/ Missing(r) \/ tok.kind = "MATCH"
       /\ Bail /\ UNCHANGED points

\* The kind of name that says what a point belongs to.
By == [state |-> "TYPENAME", metric |-> "WINDOWNAME"]

\* An explicit type or window, or a window of its own.
Point(tok) ==
    /\ cpc \in DOMAIN By
    /\ LET k == By[cpc]
       IN  \/ /\ tok.kind = k /\ ref' = Get(k, tok.text)
              /\ Goto("name") /\ UNCHANGED <<objs, points, stored>>
           \/ /\ cpc = "metric" /\ tok.kind = "NUMBER"
              /\ New(atoi(tok)) /\ ref' = Len(objs) + 1 /\ Store(tok)
              /\ Goto("name") /\ UNCHANGED points
           \/ /\ tok.kind # k /\ ~(cpc = "metric" /\ tok.kind = "NUMBER")
              /\ Declared(tok, Get(k, default[k]))
              /\ UNCHANGED <<objs, ref, stored>>
    /\ UNCHANGED <<hash, default>>

Name(tok) ==
    /\ cpc = "name" /\ Declared(tok, ref)
    /\ UNCHANGED <<hash, objs, default, ref, stored>>

Bad_Ended(how) == IF cpc = "top" THEN "ok" ELSE "failed"

\* lex() returns 0: only a feof() between two directives is good.
Ended(how) == IF cpc = "top" /\ how # "error" THEN "ok" ELSE "failed"

End(how) ==
    /\ cpc # "done" /\ cpc' = "done" /\ rc' = Ended(how)
    /\ file' = Append(file, [kind |-> how, text |-> how])
    /\ UNCHANGED <<value, hash, objs, default, ref, points, stored>>

Read(tok) ==
    /\ cpc # "done" /\ Len(file) < MaxTokens
    /\ tok.kind = "grace.period" => Len(file) <= MaxBefore
    /\ file' = Append(file, tok) /\ value' = Copied(value, tok)
    /\ \/ Top(tok) \/ String(tok) \/ Number(tok) \/ Use(tok)
       \/ Define(tok) \/ Undefined(tok) \/ Length(tok) \/ Body(tok)
       \/ Point(tok) \/ Name(tok)

ConfigInit ==
    /\ cpc = "top" /\ value = [i \in 1 .. Width |-> NUL]
    /\ hash = [k \in Named |-> <<>>] /\ objs = <<>>
    /\ default = [k \in Named |-> "none"] /\ ref = 0
    /\ points = <<>> /\ stored = <<>> /\ rc = "none" /\ file = <<>>

ConfigNext == (\E tok \in Tokens : Read(tok)) \/ (\E how \in Ends : End(how))

ConfigSpec == ConfigInit /\ [][ConfigNext]_config

----------------------------------------------------------------------------
(* Properties.                                                             *)

(* The language of the file, as the directives that it is made of.  A      *)
(* shape is a sequence of sets of tokens.                                  *)

Kind(k) == {t \in Tokens : t.kind = k}

Item == {<<Kind("freshness"), Kind("NUMBER")>>,
         <<{t \in Kind("STRING") : t.text \in Statuses}, Kind("STRING")>>}

Target == Kind("STRING") \cup Kind("MATCH")

Shapes ==
    {<<Kind("server"), Kind("STRING")>>, <<Kind("dumpfiles")>>,
     <<Kind("log"), Kind("STRING"), Kind("STRING")>>,
     <<Kind("grace.period"), Tokens>>, <<Kind("setting"), Kind("NUMBER")>>,
     <<Kind("max.events"), Kind("NUMBER") \cup Kind("TIME")>>,
     <<Kind("use"), Kind("TYPENAME") \cup Kind("WINDOWNAME")>>,
     <<Kind("window"), Kind("WINDOWNAME"), Kind("NUMBER")>>,
     <<Kind("state"), Kind("TYPENAME"), Target>>, <<Kind("state"), Target>>,
     <<Kind("metric"), Kind("WINDOWNAME") \cup Kind("NUMBER"), Target>>,
     <<Kind("metric"), Target>>}
    \cup {<<Kind("type"), Kind("TYPENAME"), Kind("{")>> \o b \o <<Kind("}")>> :
             b \in {<<>>} \cup Item \cup {x \o y : x, y \in Item}}

Begins(d, s) == Len(d) <= Len(s) /\ \A i \in DOMAIN d : d[i] \in s[i]

\* The text of the token that follows some kw and is of kind k, if any.
After(pre, kw, k) ==
    {pre[i + 1].text : i \in {j \in 1 .. Len(pre) - 1 :
                                pre[j].kind = kw /\ pre[j + 1].kind = k}}

Latest(pre, kw, k) ==
    pre[1 + CHOOSE i \in 1 .. Len(pre) - 1 :
            /\ pre[i].kind = kw /\ pre[i + 1].kind = k
            /\ \A j \in i + 1 .. Len(pre) - 1 :
                  ~(pre[j].kind = kw /\ pre[j + 1].kind = k)].text

\* A state needs a type and a metric a window: defined before it, and named
\* by it or by the last use.
Resolved(pre, d) ==
    d[1].kind \in DOMAIN By =>
        LET k  == By[d[1].kind]
            kw == IF k = "TYPENAME" THEN "type" ELSE "window"
        IN  \/ d[2].kind = "NUMBER"
            \/ d[2].kind = k /\ d[2].text \in After(pre, kw, k)
            \/ /\ d[2].kind # k /\ After(pre, "use", k) # {}
               /\ Latest(pre, "use", k) \in After(pre, kw, k)

Directive(pre, d) ==
    /\ \E s \in Shapes : Len(d) = Len(s) /\ Begins(d, s)
    /\ Resolved(pre, d)

\* The places where a directive may begin.
Boundaries(f) ==
    LET good[i \in 0 .. Len(f)] ==
            \/ i = 0
            \/ \E j \in 0 .. i - 1 :
                  good[j] /\ Directive(SubSeq(f, 1, j), SubSeq(f, j + 1, i))
    IN  {i \in 0 .. Len(f) : good[i]}

\* f is the beginning of a good file, as far as its last directive goes.
Viable(f) ==
    \/ Len(f) \in Boundaries(f)
    \/ \E j \in Boundaries(f), s \in Shapes :
          LET d == SubSeq(f, j + 1, Len(f)) IN Len(d) < Len(s) /\ Begins(d, s)

\* configure() accepts the files that are sequences of complete directives
\* whose types and windows are defined before they are used, and no others,
\* but for garbage at the end of a last line without a newline; it gives up
\* at the first token that no directive can have at its place, or at a
\* pattern that does not compile.
LanguageRead ==
    rc # "none" =>
        LET end == Last(file).kind
            f   == IF end \in Ends THEN Front(file) ELSE file
            whole == Len(f) \in Boundaries(f)
        IN  /\ rc = "ok" => end # "error" /\ whole
            /\ rc = "failed" => CASE end \in {"error", "MATCH"} -> TRUE
                                  [] end \in Ends -> ~whole
                                  [] OTHER -> ~Viable(f)

\* Every number that configure() takes over is the one in the file: "The
\* amount of time in seconds between which bolo save it's state to disk" is
\* the one that save.interval gives, whatever stands before it.
NumbersAsWritten == \A i \in DOMAIN stored : stored[i].got = stored[i].wrote

=============================================================================
