----------------------------- MODULE ExprChars -----------------------------
(***************************************************************************)
(* Characters and names as exprtk sees them (src/lib/exprtk.hpp:95-240).   *)
(* A character is a string of one character, and a name, a text or the     *)
(* value of a token a sequence of them.                                    *)
(***************************************************************************)
EXTENDS Naturals, Sequences

(* Characters; a few control characters go by their names. *)

Whitespace == {" ", "\n", "\r", "\t", "\f", "BS", "VT"}

OperatorChars ==
    {"+", "-", "*", "/", "^", "<", ">", "=", ",", "!", "(", ")", "[", "]", "{", "}",
     "%", ":", "?", "&", "|", ";"}

Letters == {"a", "b", "c", "d", "e", "f", "g", "h", "i", "j", "k", "l", "m",
            "n", "o", "p", "q", "r", "s", "t", "u", "v", "w", "x", "y", "z",
            "A", "B", "C", "D", "E", "F", "G", "H", "I", "J", "K", "L", "M",
            "N", "O", "P", "Q", "R", "S", "T", "U", "V", "W", "X", "Y", "Z"}

Digits == {"0", "1", "2", "3", "4", "5", "6", "7", "8", "9"}

HexDigits == Digits \cup {"a", "b", "c", "d", "e", "f", "A", "B", "C", "D", "E", "F"}

Signs == {"+", "-"}
Es    == {"e", "E"}

NameChars == Letters \cup Digits \cup {"_"}

Lowers == <<"a", "b", "c", "d", "e", "f", "g", "h", "i", "j", "k", "l", "m",
            "n", "o", "p", "q", "r", "s", "t", "u", "v", "w", "x", "y", "z">>
Uppers == <<"A", "B", "C", "D", "E", "F", "G", "H", "I", "J", "K", "L", "M",
            "N", "O", "P", "Q", "R", "S", "T", "U", "V", "W", "X", "Y", "Z">>

\* The characters of names in the order of their codes.
Codes == <<".", "0", "1", "2", "3", "4", "5", "6", "7", "8", "9">> \o Uppers \o <<"_">> \o Lowers

Code == [c \in {Codes[i] : i \in DOMAIN Codes} |-> CHOOSE i \in DOMAIN Codes : Codes[i] = c]

\* ilesscompare and imatch do not tell capitals from small letters.
tolower == [c \in {Uppers[k] : k \in DOMAIN Uppers} |-> Lowers[CHOOSE k \in DOMAIN Uppers : Uppers[k] = c]]

Lower(name) == [i \in DOMAIN name |-> IF name[i] \in DOMAIN tolower THEN tolower[name[i]] ELSE name[i]]

\* The order of std::less<std::string>, by which the variables come.
Less(a, b) ==
    \E k \in DOMAIN b :
        /\ \A l \in 1..k - 1 : l \in DOMAIN a /\ a[l] = b[l]
        /\ k \in DOMAIN a => Code[a[k]] < Code[b[k]]

\* What a name may look like; a dot is within it.
IsName(name) ==
    /\ name # <<>> /\ name[1] \in Letters
    /\ \A i \in 2..Len(name) : name[i] \in NameChars \/ (i < Len(name) /\ name[i] = ".")
=============================================================================
