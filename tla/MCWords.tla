------------------------------ MODULE MCWords ------------------------------
(***************************************************************************)
(* The words of the instances: which of them are the same but for their    *)
(* capitals, in which order they come, and which of them exprtk keeps for  *)
(* itself.                                                                 *)
(***************************************************************************)
EXTENDS Naturals, Sequences

\* In the order of std::string; any other word is in small letters already.
Capitalised == <<"DEFAULT", "Default", "FALSE", "False", "If", "RATE", "Rate", "TRUE", "True">>
Small       == <<"default", "default", "false", "false", "if", "rate", "rate", "true", "true">>

MCLower(w) ==
    IF \E i \in DOMAIN Capitalised : Capitalised[i] = w
    THEN Small[CHOOSE i \in DOMAIN Capitalised : Capitalised[i] = w] ELSE w

Ordered == Capitalised \o <<"default", "false", "if", "rate", "true">>

\* Only words that differ in nothing but their capitals are compared.
MCLess(v, w) == \E i, j \in DOMAIN Ordered : i < j /\ Ordered[i] = v /\ Ordered[j] = w

MCReservedSymbols == {"default", "false", "if", "true"}
MCParserWords     == {"if"}
=============================================================================
