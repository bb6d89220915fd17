----------------------------- MODULE MCEvaluate -----------------------------
(* Expressions that are evaluated.  For the lexer: every text up to a length over each of
   some alphabets, one for numbers, one for comments, one for strings, one for operators
   and one that mixes them.  For the parser: every sequence of operands and operators up
   to a length over each of some alphabets, one for arithmetic, two for brackets, two for
   "?:", two for comparisons and logic and one for sequences of expressions; operands
   joined by every two operators, and nests of brackets, signs and "?:" of every depth up
   to beyond the limit.  For the symbol table: every few names that differ in capitals or
   are the beginning of one another, with dots and digits in the places where they may and
   may not be, and reserved words. *)
EXTENDS EvaluateExpression, SequencesExt

UpTo(chars, k) == UNION {[1..l -> chars] : l \in 0..k}

a == <<"a">>
e == <<"e">>
x == <<"x">>
y == <<"y">>

LexerTexts == UNION
    {UpTo({"1", ".", "e", "+"}, 5), UpTo({"/", "*", "#", "\n"}, 5), UpTo({"'", "\\", "a"}, 5),
     UpTo({"<", "=", ">", "!", "-"}, 4), UpTo({"a", ".", "1", "_", ";", "&", "@", "'", "ctl"}, 3),
     {<<"$", "f", "1", "0", "(", "a", ",", "a", ",", "1", ")">>,
      <<"$", "g", "1", "0", "(", "a", ",", "a", ",", "1", ")">>,
      <<"$", "f", "1", "0", "(", ")">>, <<"~", "a">>,
      <<"'", "\\", "0", "x", "4", "1", "'">>, <<"'", "\\", "0", "x", "4", "'">>,
      <<"'", "\\", "0", "'", "+", "'", "a", "'">>,
      <<"1", "e", "3", "0", "8">>, <<"1", "e", "+", "3", "0", "9">>}}

-----------------------------------------------------------------------------
(* A sequence of operands and operators is written with blanks where two of them would
   otherwise be one. *)

Chars(t) ==
    CASE t = "and" -> <<"a", "n", "d">> [] t = "or" -> <<"o", "r">>
      [] t = "True" -> <<"T", "r", "u", "e">> [] t = "zz" -> <<"z", "z">> [] t = "1e+" -> <<"1", "e", "+">>
      [] OTHER -> <<t>>

IsWord(t) == Chars(t)[1] \in NameChars

Blank(s, t) ==
    IF (IsWord(s) /\ IsWord(t)) \/ {s, t} \subseteq {"<", "=", ">", "!", "/", "*"} THEN <<" ">> ELSE <<>>

Written(ts) ==
    FlattenSeq([i \in DOMAIN ts |->
        Chars(ts[i]) \o IF i < Len(ts) THEN Blank(ts[i], ts[i + 1]) ELSE <<>>])

Joined2 ==
    {<<"2", b, "x", c, "3">> : b, c \in {"+", "-", "*", "/", "^", "<", "and", "or", "?", ":"}}

Conditions ==
    {<<"2", b, "x", c, "3", "?", "y", ":", "2">> : b, c \in {"+", "*", "^", "<", "and", "or"}}
        \cup {<<"x", "?", "2", b, "3", ":", "-", "y", c, "2">> : b, c \in {"+", "^", "<", "or"}}

\* What is repeated k times, with something in the middle.
Nested(opening, middle, closing, k) ==
    FlattenSeq([i \in 1..k |-> opening]) \o middle \o FlattenSeq([i \in 1..k |-> closing])

Nests ==
    {Nested(p[1], <<"x">>, p[2], k) :
        p \in {<<<<"(">>, <<")">>>>, <<<<"[">>, <<"]">>>>, <<<<"2", "^">>, <<>>>>}, k \in 1..8}
    \cup {Nested(p[1], <<"x">>, p[2], k) :
        p \in {<<<<"-", "(">>, <<")">>>>, <<<<"2", "?">>, <<":", "y">>>>, <<<<"2", "?", "y", ":">>, <<>>>>},
        k \in {1, 2, 3, 8}}
    \cup {Nested(<<"2", "<", "3", "?">>, <<"x">>, <<":", "y">>, 2)}

Expressions == UNION
    {UpTo({"2", "x", "+", "-", "*", "^"}, 4), UpTo({"(", ")", "[", "]", "x"}, 4), UpTo({"2", "x", "(", ")"}, 4),
     UpTo({"x", "?", ":", "-"}, 5), UpTo({"x", "<", "=", ">", "!"}, 4), UpTo({"x", "<", "and", "|"}, 4),
     UpTo({"x", "2", "True", ";"}, 4), UpTo({"x", ";", "(", ")"}, 4),
     {<<"(", "x", ";", ")", "2">>, <<"2", "+", "1e+">>, <<"zz", "+", "2">>, <<"[", "x", ";", "]">>},
     Joined2, Conditions, Nests}

-----------------------------------------------------------------------------
MCNames ==
    {a, <<"A">>, <<"a", "b">>, <<"a", "B">>, <<"A", "b">>, <<"a", "1">>, <<"1", "a">>,
     <<"_", "a">>, <<"a", "_">>, <<"a", ".">>, <<"a", ".", "b">>, <<"a", ".", ".", "b">>,
     <<"i", "f">>, <<"I", "F">>, <<"o", "r">>, <<"O", "r">>}

NameTexts == MCNames \cup {<<>>, <<"A", "B">>, <<"a", ".", "1">>, <<"O", "R">>}

Few(names, k) == UNION {kSubset(l, names) : l \in 0..k}

Input(text_, variables_) == [text |-> text_, variables |-> variables_]

AllInputs == UNION
    {{Input(t, {a, e}) : t \in LexerTexts},
     {Input(Written(t), {x, y}) : t \in Expressions},
     {Input(t, v) : t \in NameTexts, v \in Few(MCNames, 2)},
     {Input(t, v) : t \in {a, <<"A", "B">>}, v \in Few(MCNames, 3)}}

AllTexts == {i.text : i \in AllInputs}

\* (A constant that is given the name of a definition has it evaluated on every use, so
\* these are names of names.)
MCInputs == AllInputs
MCTexts  == AllTexts
=============================================================================
