------------------------------ MODULE MCConfig ------------------------------
(* The tokens of small configuration files. *)
EXTENDS Config

Token(k, t) == [kind |-> k, text |-> t]

\* One of each kind: every directive, and every way to refer to another one.
MCFewTokens ==
    {Token(k, k) : k \in (Keywords \ {"server", "dumpfiles"}) \cup {"{", "}"}}
    \cup {Token("STRING", "warning"), Token("NUMBER", <<4>>),
          Token("TIME", <<6, 0>>), Token("MATCH", "m"),
          Token("TYPENAME", ":t"), Token("WINDOWNAME", "@w")}

MCTokens ==
    MCFewTokens
    \cup {Token("server", "server"), Token("dumpfiles", "dumpfiles"),
          Token("STRING", "s"), Token("NUMBER", <<1, 5>>),
          Token("TYPENAME", ":u")}

=============================================================================
