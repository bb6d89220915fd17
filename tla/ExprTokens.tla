----------------------------- MODULE ExprTokens -----------------------------
(***************************************************************************)
(* The passes exprtk makes over the tokens of an expression between the    *)
(* lexer and the parser (src/lib/exprtk.hpp:3124-4350, 24671-24757), as    *)
(* operators on sequences of tokens.                                       *)
(*                                                                         *)
(* A token is its type, its value and, for a symbol, the value in small    *)
(* letters as a word.  The type of an operator is its text, "=" for "=="   *)
(* and "!=" for "<>"; ";" is the end-of-file token.  Strings and special   *)
(* functions are left out.                                                 *)
(***************************************************************************)
EXTENDS ExprChars, SequencesExt

\* A name as one string.
Spelling(name) == FoldLeft(LAMBDA a, b : a \o b, "", name)

reserved_words ==
    {"assert", "break", "case", "continue", "const", "default", "false", "for", "if", "else",
     "ilike", "in", "like", "and", "nand", "nor", "not", "null", "or", "repeat", "return",
     "shl", "shr", "swap", "switch", "true", "until", "var", "while", "xnor", "xor", "&", "|"}

base_function_list ==
    {"abs", "acos", "acosh", "asin", "asinh", "atan", "atanh", "atan2", "avg", "ceil", "clamp", "cos",
     "cosh", "cot", "csc", "equal", "erf", "erfc", "exp", "expm1", "floor", "frac", "hypot", "iclamp",
     "like", "log", "log10", "log2", "logn", "log1p", "mand", "max", "min", "mod", "mor", "mul", "ncdf",
     "pow", "root", "round", "roundn", "sec", "sgn", "sin", "sinc", "sinh", "sqrt", "sum", "swap", "tan",
     "tanh", "trunc", "not_equal", "inrange", "deg2grad", "deg2rad", "rad2deg", "grad2deg"}

reserved_symbols == reserved_words \cup base_function_list

\* The words that parse_symbol takes for a call or a statement.
StatementWords ==
    (base_function_list \ {"like"})
        \cup {"~", "[*]", "not", "if", "while", "repeat", "for", "switch", "null", "break", "continue",
               "var", "const", "swap", "return", "assert"}

LeftBrackets  == {"(", "[", "{"}
RightBrackets == {")", "]", "}"}

Token(type, value) ==
    [type |-> type, value |-> value, word |-> IF type = "symbol" THEN Spelling(Lower(value)) ELSE ""]

Operator(type) == Token(type, <<>>)

-----------------------------------------------------------------------------
(* commutative_inserter: a product that is not written out *)

IsIgnored(t) == t.type = "symbol" /\ t.word \in reserved_words

ImpliesProduct(t0, t1) ==
    /\ ~IsIgnored(t0) /\ ~IsIgnored(t1)
    /\ <<t0.type, t1.type>> \in
          ({"number"} \X ({"symbol"} \cup LeftBrackets))
              \cup (({"symbol"} \cup RightBrackets) \X {"number", "symbol"})

Inserted(s) ==
    FlattenSeq([i \in DOMAIN s |->
        IF i < Len(s) /\ ImpliesProduct(s[i], s[i + 1]) THEN <<s[i], Operator("*")>> ELSE <<s[i]>>])

-----------------------------------------------------------------------------
(* operator_joiner: two tokens that are one operator *)

\* The type of what two tokens are joined to; "op=" stands for the five assignments
\* with an operation.
Joined ==
    [p \in {<<":", "=">>, <<"+", "=">>, <<"-", "=">>, <<"*", "=">>, <<"/", "=">>, <<"%", "=">>,
            <<">", "=">>, <<"<", "=">>, <<"=", "=">>, <<"!", "=">>, <<"<", ">">>, <<"<=", ">">>,
            <<"+", "-">>, <<"-", "+">>, <<"-", "-">>} |->
        CASE p \in {<<"+", "-">>, <<"-", "+">>} -> "-"
          [] p = <<"-", "-">> -> "+"
          [] p = <<"=", "=">> -> "="
          [] p \in {<<"<", ">">>, <<"!", "=">>} -> "!="
          [] p = <<"<=", ">">> -> "<=>"
          [] p = <<":", "=">> -> ":="
          [] p = <<">", "=">> -> ">="
          [] p = <<"<", "=">> -> "<="
          [] OTHER -> "op="]

IsJoined(s, i)  == <<s[i].type, s[i + 1].type>> \in DOMAIN Joined
IsJoined3(s, i) == s[i].type = "[" /\ s[i + 1].type = "*" /\ s[i + 2].type = "]"

\* The last token is copied whatever has been joined: if it was joined itself, it is
\* there twice.
process_stride_2(s) ==
    LET from[i \in 1..Len(s) + 1] ==
            IF i >= Len(s) THEN <<>>
            ELSE IF IsJoined(s, i)
                 THEN <<Operator(Joined[<<s[i].type, s[i + 1].type>>])>> \o from[i + 2]
                 ELSE <<s[i]>> \o from[i + 1]
    IN IF Len(s) < 2 THEN s ELSE Append(from[1], Last(s))

\* Likewise for the last two.
process_stride_3(s) ==
    LET from[i \in 1..Len(s) + 1] ==
            IF i >= Len(s) - 1 THEN <<>>
            ELSE IF IsJoined3(s, i)
                 THEN <<Token("symbol", <<"[", "*", "]">>)>> \o from[i + 3]
                 ELSE <<s[i]>> \o from[i + 1]
    IN IF Len(s) < 3 THEN s ELSE from[1] \o SubSeq(s, Len(s) - 1, Len(s))

-----------------------------------------------------------------------------
(* symbol_replacer *)

Replaced(s) ==
    [i \in DOMAIN s |->
        IF s[i].type # "symbol" THEN s[i]
        ELSE CASE s[i].word = "true" -> Token("number", <<"1">>)
               [] s[i].word = "false" -> Token("number", <<"0">>)
               [] OTHER -> s[i]]

-----------------------------------------------------------------------------
(* The scanners, which change nothing *)

Digit == [c \in Digits |-> CHOOSE d \in 0..9 : <<"0", "1", "2", "3", "4", "5", "6", "7", "8", "9">>[d + 1] = c]

Decimal(digits) == FoldLeft(LAMBDA a, c : 10 * a + Digit[c], 0, digits)

\* (fault) No digits are the exponent 0.
string_to_real_none(value) ==
    \A i \in DOMAIN value : value[i] \in Es =>
        LET digits == SubSeq(value, i + IF value[i + 1] \in Signs THEN 2 ELSE 1, Len(value)) IN
        (\A k \in DOMAIN digits : digits[k] \in Digits) /\ Decimal(digits) <= 308

\* Of what the lexer takes for a number, the exponent may be none: it must be of digits,
\* of which there is at least one, and not be beyond that of a double.
string_to_real(value) ==
    \A i \in DOMAIN value : value[i] \in Es =>
        LET digits == SubSeq(value, i + IF value[i + 1] \in Signs THEN 2 ELSE 1, Len(value)) IN
        /\ digits # <<>> /\ \A k \in DOMAIN digits : digits[k] \in Digits
        /\ Decimal(digits) <= 308

numeric_checker(s) == \A i \in DOMAIN s : s[i].type = "number" => string_to_real(s[i].value)

Closing == [b \in LeftBrackets |-> CASE b = "(" -> ")" [] b = "[" -> "]" [] b = "{" -> "}"]

\* Before s[i + 1] the set holds the stack of the closing brackets that are still to come,
\* top first; it is empty when one of them came out of turn.
bracket_checker(s) ==
    LET open[i \in 0..Len(s)] ==
            IF i = 0 THEN {<<>>}
            ELSE CASE s[i].type \in LeftBrackets -> {<<Closing[s[i].type]>> \o st : st \in open[i - 1]}
                   [] s[i].type \in RightBrackets ->
                          {Tail(st) : st \in {x \in open[i - 1] \ {<<>>} : Head(x) = s[i].type}}
                   [] OTHER -> open[i - 1]
    IN open[Len(s)] = {<<>>}

BinaryTokens == {":=", ">>", "<<", "<=", "!=", ">=", "<", ">", "=", ",", "/", "*", "%", "^", ":"}

\* (fault) No sign behind an operator, either.
invalid_comb_signs ==
    ((BinaryTokens \cup {"+", "-", "?"}) \X (BinaryTokens \cup {"+", "-"})) \cup {<<"number", "number">>}

\* A sign may stand behind another operator, but no operator behind a sign.
invalid_comb ==
    ((BinaryTokens \cup {"+", "-", "?"}) \X BinaryTokens) \cup {<<"number", "number">>}

\* The types before and behind which a bracket is looked at; the last case of the code,
\* a right bracket before a left one, is never reached: the first has answered.
invalid_bracket_check(base, t) ==
    \/ base \in RightBrackets /\ t = ":=" /\ base # "]"
    \/ /\ base \in LeftBrackets
       /\ t \notin LeftBrackets \cup RightBrackets \cup {"number", "symbol", "+", "-", ":", "?"}
    \/ /\ base \notin LeftBrackets \cup RightBrackets /\ t \in RightBrackets
       /\ base \notin {"number", "symbol", ";", ":", "?"}

sequence_validator(s) ==
    \A i \in 1..Len(s) - 1 :
        /\ ~invalid_bracket_check(s[i].type, s[i + 1].type)
        /\ <<s[i].type, s[i + 1].type>> \notin invalid_comb

invalid_comb3 ==
    {<<a, a, a>> : a \in {"number", ",", "+", "-", "/", "*", "%", "^"}}
        \cup {<<"+", "-", "+">>, <<"-", "+", "-">>, <<"/", "*", "/">>, <<"*", "/", "*">>,
              <<"%", "^", "%">>, <<"^", "%", "^">>}

sequence_validator_3tokens(s) ==
    \A i \in 1..Len(s) - 2 : <<s[i].type, s[i + 1].type, s[i + 2].type>> \notin invalid_comb3

=============================================================================
