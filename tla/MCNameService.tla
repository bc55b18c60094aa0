---------------------------- MODULE MCNameService ----------------------------
(* Values for the model checking of NameService and its RequestParser. *)
EXTENDS NameService

v4 == [family |-> "inet", number |-> 1]
v6 == [family |-> "inet6", number |-> 2]
other == [family |-> "inet", number |-> 3]

\* a host whose addresses are told in turn, a host of IPv6 only, and no others
MCAnswers(host) ==
    CASE host = <<"both">> -> {<<v4, v6, other>>, <<other, v6, v4>>}
      [] host = <<"six">> -> {<<v6>>}
      [] OTHER -> {<<>>}

MCWords == {"resolve", "resolve_inet", "resolve_inet6", "lookup", "both", "six"}

MCWrites ==
    {<<"resolve", " ", "both", "\n">>, <<"resolve_inet", "\t", " ", "both">>,
     <<"resolve_inet6", " ", "both", ",">>, <<"resolve", " ", "six">>,
     <<"resolve_inet", " ", "six">>, <<"lookup", " ", "six">>, <<"resolve", "\n">>,
     <<"resolve", " ", " ">>, <<"resolve", " ", ",", "six">>, <<"resolve", " ">>,
     <<"resolve", " ", "both", "\n", "six">>, <<",", "resolve", " ", "six">>}

\* every text of up to five pieces
Pieces == {"lookup", " ", "\t", "!", ",", "\n"}
MCTexts == UNION {[1 .. n -> Pieces] : n \in 0 .. 5}

MCLength == [inet |-> 1, inet6 |-> 2]
=============================================================================
