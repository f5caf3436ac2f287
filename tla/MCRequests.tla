------------------------------ MODULE MCRequests ------------------------------
(* Two literals, one of which may come encoded, and two names, in patterns *)
(* of up to three segments that share prefixes.                            *)
EXTENDS Requests

MCWord   == {"a", "b", "%61", "%62"}
MCDecode == [w \in MCWord |-> CASE w = "%61" -> "a" [] w = "%62" -> "b" [] OTHER -> w]

Lit(w)   == [text |-> w, name |-> ""]
Param(n) == [text |-> ":", name |-> n]

MCPatterns ==
    {<<>>, <<Lit("a")>>, <<Param("x")>>,
     <<Lit("a"), Lit("b")>>, <<Lit("a"), Param("x")>>,
     <<Param("x"), Lit("b")>>, <<Param("y"), Param("x")>>,
     <<Lit("a"), Param("x"), Lit("b")>>, <<Param("x"), Param("y"), Lit("a")>>}

MCTargets ==
    {<<>>, <<"a">>, <<"%61">>, <<"a", "b">>, <<"a", "%62">>, <<"b", "b">>,
     <<"a", "a", "b">>, <<"a", "%62", "a">>}
=============================================================================
