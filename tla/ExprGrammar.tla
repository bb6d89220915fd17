---------------------------- MODULE ExprGrammar ----------------------------
(***************************************************************************)
(* What an expression means, read off its tokens as they are written, and  *)
(* what the parser promises about it.                                      *)
(*                                                                         *)
(* The grammar knows nothing of the passes over the tokens: a product may  *)
(* be left unwritten, an operator may be written as two tokens, and "true" *)
(* and "false" are numbers.  An expression has the set of its meanings,    *)
(* which is empty if it is none.                                           *)
(***************************************************************************)
EXTENDS ExprParser, FiniteSets

VARIABLE variables      \* the names of the variables of the flowgraph

IsTruth(t)  == t.type = "symbol" /\ t.word \in {"true", "false"}
IsDigits(t) == t.type = "number" \/ IsTruth(t)

\* The variables that a name is for, whatever its capitals, and the first of them in
\* their order, which it means.
Meant(name) == {m \in variables : Lower(m) = Lower(name) /\ valid_symbol(m)}
FirstOf(names) == CHOOSE m \in names : \A k \in names : ~Less(k, m)

IsVariable(t) == t.type = "symbol" /\ valid_symbol(t.value) /\ Meant(t.value) # {}

IsOperandStart(t) == t.type \in {"number"} \cup LeftBrackets \/ IsTruth(t) \/ IsVariable(t)
IsOperandEnd(t)   == t.type \in {"number"} \cup RightBrackets \/ IsTruth(t) \/ IsVariable(t)

\* Two operands side by side are a product, unless both are numbers; "true" and "false"
\* are no factors of it, but begin or end an expression of their own.
Adjacent(t0, t1)  == IsOperandEnd(t0) /\ IsOperandStart(t1) /\ ~(IsDigits(t0) /\ IsDigits(t1))
IsFactor(t0, t1)  == Adjacent(t0, t1) /\ ~IsTruth(t0) /\ ~IsTruth(t1)
IsBoundary(t0, t1) == Adjacent(t0, t1) /\ ~IsFactor(t0, t1)

\* How the operators that are no names are written.
WrittenAs ==
    {<<<<op>>, op>> : op \in Comparisons \cup {"+", "-", "*", "/", "%", "^"}}
        \cup {<<<<"=", "=">>, "=">>, <<<<"<", "=">>, "<=">>, <<<<">", "=">>, ">=">>,
              <<<<"!", "=">>, "!=">>, <<<<"<", ">">>, "!=">>}

\* The binary operators written at s[i], each with the number of its tokens.
Written(s, i) ==
    {<<w[2], Len(w[1])>> : w \in {v \in WrittenAs :
        i + Len(v[1]) <= Len(s) /\ \A k \in 1..Len(v[1]) : s[i + k - 1].type = v[1][k]}}
    \cup (IF s[i].type = "symbol" THEN {<<s[i].word, 1>>} ELSE {})

\* The binary operators by how tightly they bind; each level but that of "^" is grouped
\* to the left.
Tightness == <<OrOperators, AndOperators, Comparisons, {"+", "-"}, {"*", "/", "%"}>>
Product == 5
Signed  == 6
Power   == 7
Atom    == 8

\* The meanings of s[i..j] as a chain of operators no looser than each level, given those
\* of every shorter part, M[i, j][level], and the operators written at each place.
MeaningsOf(s, written, M, i, j) ==
    LET Part(level, a, b) == IF a > b THEN {} ELSE M[a, b][level]
        atoms ==
            CASE i = j /\ s[i].type = "number" -> {Leaf(s[i].value)}
              [] i = j /\ IsTruth(s[i]) -> {Leaf(IF s[i].word = "true" THEN <<"1">> ELSE <<"0">>)}
              [] i = j /\ IsVariable(s[i]) -> {Leaf(FirstOf(Meant(s[i].value)))}
              [] i < j /\ s[i].type \in LeftBrackets /\ s[j].type = Closing[s[i].type] ->
                     Part(0, i + 1, IF s[j].type = ")" /\ s[j - 1].type = ";" THEN j - 2 ELSE j - 1)
              [] OTHER -> {}
        powers ==
            UNION {{Node("^", x, y) : x \in Part(Atom, i, k - 1), y \in Part(Signed, k + 1, j)}
                      : k \in {l \in i + 1..j - 1 : s[l].type = "^"}}
        signed ==
            CASE s[i].type = "-" -> {Neg(x) : x \in Part(Signed, i + 1, j)}
              [] s[i].type = "+" -> Part(Signed, i + 1, j)
              [] OTHER -> {}
        Binary(level) ==
            UNION {UNION {{Node(w[1], x, y) : x \in Part(level, i, k - 1), y \in Part(level + 1, k + w[2], j)}
                             : w \in {v \in written[k] : v[1] \in Tightness[level]}}
                      : k \in i + 1..j - 1}
        products ==
            UNION {{Node("*", x, y) : x \in Part(Product, i, k), y \in Part(Power, k + 1, j)}
                      : k \in {l \in i..j - 1 : IsFactor(s[l], s[l + 1])}}
        Places(type) == {k \in i + 1..j - 1 : s[k].type = type}
        ternaries ==
            UNION {UNION {{Ternary(c, x, y) : c \in Part(1, i, k - 1), x \in Part(0, k + 1, l - 1),
                                             y \in Part(0, l + 1, j)}
                             : l \in Places(":")}
                      : k \in Places("?")}
        own == [level \in 0..Atom |->
                   CASE level = Atom -> atoms
                     [] level = Power -> powers
                     [] level = Signed -> signed
                     [] level = Product -> Binary(Product) \cup products
                     [] level \in 1..Product - 1 -> Binary(level)
                     [] level = 0 -> ternaries]
    IN  [level \in 0..Atom |-> UNION {own[l] : l \in level..Atom}]

\* The meanings of all parts, from the shorter ones to the longer ones.
MeaningsIn(s) ==
    LET written == [k \in DOMAIN s |-> Written(s, k)]
        Longest[n \in 0..Len(s)] ==
            LET shorter == Longest[n - 1] IN
            [p \in {q \in (DOMAIN s) \X (DOMAIN s) : q[2] - q[1] \in 0..n - 1} |->
                IF p[2] - p[1] < n - 1 THEN shorter[p] ELSE MeaningsOf(s, written, shorter, p[1], p[2])]
    IN Longest[Len(s)]

\* The meanings of a sequence of expressions, that of the last one: each ends with a ";"
\* or stands beside the next one as IsBoundary says.
Meanings(s) ==
    LET M == MeaningsIn(s)
        Part(i, j) == IF i > j THEN {} ELSE M[i, j][0]
        From[i \in 1..Len(s) + 1] ==
            Part(i, Len(s))
                \cup (IF Last(s).type = ";" THEN Part(i, Len(s) - 1) ELSE {})
                \cup UNION {From[k + 1] : k \in {l \in i + 1..Len(s) - 1 :
                                                    s[l].type = ";" /\ Part(i, l - 1) # {}}}
                \cup UNION {From[k + 1] : k \in {l \in i..Len(s) - 1 :
                                                    IsBoundary(s[l], s[l + 1]) /\ Part(i, l) # {}}}
    IN From[1]

-----------------------------------------------------------------------------
(* The grammar of the list as the parser has read it: an operator is one token, products
   are put in, and where one was put in between brackets the opening one is there before
   the "*" and behind.  In M are meanings of parts of the tokens s, each as
   <<i, j, level, meaning>> for s[i..j]; a rule holds if M has what follows by it. *)

OperandRule(M, s) ==
    \A i \in DOMAIN s :
        /\ s[i].type = "number" => <<i, i, Atom, Leaf(s[i].value)>> \in M
        /\ s[i].type = "symbol" => \A name \in Found(s[i].value) : <<i, i, Atom, Leaf(name)>> \in M

BracketRule(M, s) ==
    \A i, j \in DOMAIN s : \A x :
        /\ s[i].type \in LeftBrackets /\ s[j].type = Closing[s[i].type]
        /\ \/ <<i + 1, j - 1, 0, x>> \in M
           \/ s[j].type = ")" /\ j - 1 \in DOMAIN s /\ s[j - 1].type = ";" /\ <<i + 1, j - 2, 0, x>> \in M
        => <<i, j, Atom, x>> \in M

PowerRule(M, s) ==
    \A i, j, k \in DOMAIN s : \A x, y :
        s[k].type = "^" /\ <<i, k - 1, Atom, x>> \in M /\ <<k + 1, j, Signed, y>> \in M
            => <<i, j, Power, Node("^", x, y)>> \in M

SignRule(M, s) ==
    \A i, j \in DOMAIN s : \A x :
        <<i + 1, j, Signed, x>> \in M =>
            /\ s[i].type = "-" => <<i, j, Signed, Neg(x)>> \in M
            /\ s[i].type = "+" => <<i, j, Signed, x>> \in M

BinaryRule(M, s) ==
    \A i, j, k \in DOMAIN s : \A level \in 1..Product : \A x, y :
        /\ OperatorOf(s[k]) \in Tightness[level]
        /\ <<i, k - 1, level, x>> \in M /\ <<k + 1, j, level + 1, y>> \in M
        => <<i, j, level, Node(OperatorOf(s[k]), x, y)>> \in M

\* A product put in between s[k], which is skipped, and its copy.
PutIn(s, k) ==
    /\ {k, k + 1, k + 2} \subseteq DOMAIN s
    /\ s[k].type \in LeftBrackets /\ s[k + 1].type = "*" /\ s[k + 2].type = s[k].type

ProductRule(M, s) ==
    \A i, j, k \in DOMAIN s : \A x, y :
        PutIn(s, k) /\ <<i, k - 1, Product, x>> \in M /\ <<k + 2, j, Signed, y>> \in M
            => <<i, j, Product, Node("*", x, y)>> \in M

TernaryRule(M, s) ==
    \A i, j, k, l \in DOMAIN s : \A c, x, y :
        /\ s[k].type = "?" /\ s[l].type = ":"
        /\ <<i, k - 1, 1, c>> \in M /\ <<k + 1, l - 1, 0, x>> \in M /\ <<l + 1, j, 0, y>> \in M
        => <<i, j, 0, Ternary(c, x, y)>> \in M

\* What binds tightly may stand where less is asked for.
LevelRule(M, s) ==
    \A i, j \in DOMAIN s : \A level \in 1..Atom : \A x :
        <<i, j, level, x>> \in M => <<i, j, level - 1, x>> \in M

IsGrammar(M, s) ==
    /\ OperandRule(M, s) /\ BracketRule(M, s) /\ PowerRule(M, s) /\ SignRule(M, s)
    /\ BinaryRule(M, s) /\ ProductRule(M, s) /\ TernaryRule(M, s) /\ LevelRule(M, s)

-----------------------------------------------------------------------------
(* Properties *)

\* The values of what is compiled are what the grammar gives for the tokens, whatever
\* relation it is satisfied by: they are cut into parts, one for each value, and none is
\* left out.  However the functions of the parser call each other, an operator binds as
\* tightly and is grouped as the grammar says (exprtk.hpp:25154-25463, 31254-31453).
ValuesAreDerived ==
    outcome = "compiled" =>
        \A M : IsGrammar(M, token_list_) =>
            \E cut \in [0..Len(arg_list) -> 0..Len(token_list_)] :
                /\ cut[0] = 0 /\ cut[Len(arg_list)] = Len(token_list_)
                /\ \A i \in 1..Len(arg_list) :
                      /\ cut[i - 1] < cut[i]
                      /\ \/ <<cut[i - 1] + 1, cut[i], 0, arg_list[i]>> \in M
                         \/ token_list_[cut[i]].type = ";" /\ <<cut[i - 1] + 1, cut[i] - 1, 0, arg_list[i]>> \in M

\* What is compiled is the one meaning of the expression as it is written: the passes
\* over the tokens, the precedence climbing and the products put in on the way neither
\* change it nor choose between two.
MeansWhatIsWritten ==
    outcome = "compiled" => Meanings(expression_string) = {Last(arg_list)}

SignsInARow(s) ==
    \E i \in 1..Len(s) - 2 : \A k \in i..i + 2 : s[k].type \in {"+", "-"}

\* An expression with a meaning is refused for three reasons only: a number that cannot
\* be converted, three signs in a row, or more tokens than the parser may have to nest.
RefusedForAReason ==
    outcome = "error" =>
        \/ expression_string = <<>>
        \/ ~numeric_checker(expression_string)
        \/ SignsInARow(expression_string)
        \/ 2 * Len(expression_string) + 2 > max_stack_depth
        \/ Meanings(expression_string) = {}
=============================================================================
