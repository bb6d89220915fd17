------------------------- MODULE EvaluateExpression -------------------------
(***************************************************************************)
(* detail::evaluate_expression (src/lib/exprtk_impl.cc:14-27): the         *)
(* variables of the flowgraph become constants of a symbol table, one by   *)
(* one in the order of their std::map; exprtk's lexer reads the            *)
(* expression, and its parser the tokens.  The results of add_constant and *)
(* of compile are not looked at, and an expression that was not compiled   *)
(* has the value NaN.                                                      *)
(*                                                                         *)
(* A name is a sequence of characters, and the value of a variable is      *)
(* known by its name.                                                      *)
(***************************************************************************)
EXTENDS ExprLexer, FiniteSets

CONSTANTS
    Inputs,             \* texts with the names of the variables: [text, variables]
    max_stack_depth     \* of the parser's settings

ASSUME DepthAssumption == max_stack_depth \in Nat

ASSUME InputsAssumption ==
    /\ Texts = {i.text : i \in Inputs}
    /\ \A i \in Inputs : IsFiniteSet(i.variables)

VARIABLES
    variables,      \* the names of the variables
    to_add,         \* those that add_constant has still to be called for
    symbol_table,   \* the names that the symbol table took
    expression_string, tokens, token_itr_, stack, ret, arg_list, outcome    \* the parser's

parser_ == <<expression_string, tokens, token_itr_, stack, ret, arg_list, outcome>>
evaluateVars == <<vars, variables, to_add, symbol_table, parser_>>

Parser == INSTANCE ExprGrammar WITH token_list_ <- tokens

-----------------------------------------------------------------------------
(* The symbol table *)

valid_symbol(name) == Parser!valid_symbol(name)

symbol_exists(name) ==
    (\E m \in symbol_table : Lower(m) = Lower(name)) \/ Parser!is_reserved_symbol(name)

EvaluateInit ==
    /\ \E i \in Inputs : text = i.text /\ variables = i.variables
    /\ process_begin
    /\ to_add = variables
    /\ symbol_table = {}
    /\ Parser!Init

\* (fault) A name that has been added takes the place of the one that is there.
add_constant_last ==
    \E name \in to_add :
        /\ \A m \in to_add : ~Less(m, name)
        /\ to_add' = to_add \ {name}
        /\ symbol_table' = IF valid_symbol(name)
                           THEN {m \in symbol_table : Lower(m) # Lower(name)} \cup {name}
                           ELSE symbol_table
        /\ UNCHANGED <<vars, variables, parser_>>

\* The first of the variables that are left.
add_constant ==
    \E name \in to_add :
        /\ \A m \in to_add : ~Less(m, name)
        /\ to_add' = to_add \ {name}
        /\ symbol_table' = IF valid_symbol(name) /\ ~symbol_exists(name)
                           THEN symbol_table \cup {name} ELSE symbol_table
        /\ UNCHANGED <<vars, variables, parser_>>

-----------------------------------------------------------------------------
(* compile *)

Compiling == to_add = {}
table_    == <<variables, to_add, symbol_table>>

lex == Compiling /\ text # <<>> /\ Next /\ UNCHANGED <<table_, parser_>>

compile_fails ==
    /\ Compiling
    /\ text = <<>> \/ result = "false"
    /\ Parser!GiveUp("error")
    /\ UNCHANGED <<vars, table_>>

Spelled ==
    [w \in Operators2 \cup Operators3 |->
        CASE w = <<"<", "=", ">">> -> "<=>"
          [] w = <<"<", "=">> -> "<="  [] w = <<">", "=">> -> ">="
          [] w = <<"=", "=">> -> "="   [] w \in {<<"!", "=">>, <<"<", ">">>} -> "!="
          [] w = <<":", "=">> -> ":="  [] w = <<"<", "<">> -> "<<"  [] w = <<">", ">">> -> ">>"
          [] OTHER -> "op="]

\* A token of the lexer as the parser knows it.
TokenOf(t) ==
    LET value == SubSeq(text, t.from, t.to - 1) IN
    CASE t.type = "eof" -> Parser!Operator(";")
      [] t.type = "operator" -> Parser!Operator(IF Len(value) = 1 THEN value[1] ELSE Spelled[value])
      [] OTHER -> Parser!Token(t.type, value)

Lexed == [i \in DOMAIN token_list_ |-> TokenOf(token_list_[i])]

\* Strings, special functions, calls and statements are beyond this model.
IsModelled(t) ==
    t.type # "string" /\ (t.type = "symbol" => t.value[1] # "$" /\ t.word \notin Parser!StatementWords)

compile_lexed ==
    /\ result = "true"
    /\ IF \A i \in DOMAIN Lexed : IsModelled(Lexed[i]) THEN Parser!Start(Lexed) ELSE Parser!GiveUp("other")
    /\ UNCHANGED <<vars, table_>>

parse == Parser!Next /\ UNCHANGED <<vars, table_>>

EvaluateNext == add_constant \/ lex \/ compile_fails \/ compile_lexed \/ parse

EvaluateSpec == EvaluateInit /\ [][EvaluateNext]_evaluateVars /\ WF_evaluateVars(EvaluateNext)

-----------------------------------------------------------------------------
(* Properties *)

\* What is compiled is the one meaning of the expression as it is written, where a name
\* means the first of the variables whose names differ from it in capitals only: no other
\* variable, whatever its name is and however often the table refuses, can come in
\* between, and the passes over the tokens, the precedence climbing and the products put
\* in on the way neither change the meaning nor choose between two.
MeansWhatIsWritten == Parser!MeansWhatIsWritten

\* An expression that the lexer reads and that has a meaning is refused for three reasons
\* only: a number that cannot be converted, three signs in a row, or more tokens than the
\* parser may have to nest.
RefusedForAReason == Parser!RefusedForAReason

IsDecimal(v) ==
    /\ \E i \in DOMAIN v : v[i] \in Digits
    /\ \A i, j \in DOMAIN v : v[i] \in Digits \cup {"."} /\ (v[i] = "." /\ v[j] = "." => i = j)

IsExponent(v) ==
    /\ v[1] \in Es
    /\ \E first \in 2..3 :
          /\ first = 3 => v[2] \in Signs
          /\ first <= Len(v) /\ \A i \in first..Len(v) : v[i] \in Digits

\* What compiles has numbers of the formats that the comment on scan_number lists
\* (exprtk.hpp:2848-2865), the dot of which may be left out, and no symbol that ends in a
\* dot, which the one on scan_symbol does not allow (exprtk.hpp:2825-2828): the lexer lets
\* "1e+", "1e2e3" and "abc.<eof>" through, and what comes behind it has to refuse them.
OperandsAsListed ==
    outcome = "compiled" => \A i \in DOMAIN expression_string :
        LET t == expression_string[i]
            l == Len(t.value)
        IN  /\ t.type = "number" => \E k \in 1..l :
                  IsDecimal(SubSeq(t.value, 1, k)) /\ (k = l \/ IsExponent(SubSeq(t.value, k + 1, l)))
            /\ t.type = "symbol" => t.value[l] # "."

\* However the functions of the parser call each other, the values of what is compiled are
\* those that the grammar, with its levels and its grouping, gives for the tokens read.
ValuesAreDerived == Parser!ValuesAreDerived

\* Of the variables that differ only in capitals and that the table would take, it has
\* the first of the map, however the others come in between.
FirstOfAKind ==
    \A k \in symbol_table : \A m \in variables :
        valid_symbol(m) /\ Lower(m) = Lower(k) => ~Less(m, k)

\* The counter of the parser bounds its recursion, although the frames of ?: do not raise
\* it (stack_limit_handler, exprtk.hpp:22850-22889): each of them stands on one that does.
RecursionBounded == Len(stack) <= 2 * max_stack_depth

\* What is to be read, twice; a "*" counts half: one that is put in is the next token
\* then, in the place of the one it was put in for.
Unread == 2 * (Len(tokens) + 2 - token_itr_) + (IF Parser!token_is("*") THEN 0 ELSE 1)

\* How many steps there are at most until the next token is read or the parser is done:
\* a value goes down through the frames, or a function that was entered to its token.
Pending ==
    CASE stack = <<>> -> (IF ret = Parser!NoNode THEN 3 ELSE 4)
      [] stack # <<>> /\ Parser!Top.at = "begin" -> (IF Parser!Top.fn = "expression" THEN 2 ELSE 1)
      [] OTHER -> 2 * Len(stack) + (IF Parser!Top.at \in {"loop", "end"} THEN 5 ELSE 6)

StepsLeft == (4 * max_stack_depth + 7) * Unread + Pending

\* The parser does not go round in circles, although parse_corpus begins an expression
\* where the last one has ended, ";" or not, and although the list of tokens grows while
\* it is read: every step leaves fewer to come (exprtk.hpp:24989-25075, 26419-26535).
ParserAdvances ==
    [][Parser!Parsing => outcome' # "parsing" \/ StepsLeft' \in 0..StepsLeft - 1]_parser_

\* What is before the parser: turns of the lexer's loops, and passes over the tokens.
TurnsLeft == IF result = "running" THEN n + 2 - s_itr_ ELSE 0

PassesLeft ==
    CASE outcome = "none"     -> 6  [] outcome = "lexed"    -> 5  [] outcome = "inserted" -> 4
      [] outcome = "joined"   -> 3  [] outcome = "replaced" -> 2  [] outcome = "parsing"  -> 1
      [] OTHER -> 0

\* Every step of evaluate_expression brings its value nearer: a name less to add, or else
\* a turn less of the lexer, or else a pass less, or else a step less of the parser, none
\* of which can go on for ever (exprtk_impl.cc:14-27).
EvaluationAdvances ==
    [][\/ to_add' \subseteq to_add /\ to_add' # to_add
       \/ to_add' = to_add /\ TurnsLeft' \in Nat /\ TurnsLeft' < TurnsLeft
       \/ UNCHANGED <<to_add, TurnsLeft>> /\ PassesLeft' < PassesLeft
       \/ /\ UNCHANGED <<to_add, TurnsLeft, outcome>> /\ outcome = "parsing"
          /\ StepsLeft' \in 0..StepsLeft - 1]_evaluateVars

\* Where a function stands while it waits for another one.
AwaitedCalls ==
    {<<"expression", "branch", "branch">>, <<"expression", "right", "expression">>,
     <<"expression", "ternary", "ternary">>, <<"branch", "bracket", "expression">>,
     <<"branch", "sign", "expression">>, <<"branch", "ternary", "ternary">>,
     <<"ternary", "consequent", "expression">>, <<"ternary", "alternative", "expression">>}

\* Where a function stands that goes on with the current token.
ReadyPoints ==
    {<<"expression", "begin">>, <<"expression", "loop">>, <<"branch", "begin">>, <<"branch", "end">>,
     <<"ternary", "begin">>}

\* However the functions call each other, each frame waits for the one above it, and a
\* value is returned to one that waits: the parser can go on until it is done.
ReturnsAreAwaited ==
    Parser!Parsing =>
        /\ \A i \in 2..Len(stack) : <<stack[i].fn, stack[i].at, stack[i - 1].fn>> \in AwaitedCalls
        /\ stack # <<>> /\ ret # Parser!NoNode =>
              \E fn \in {"expression", "branch", "ternary"} : <<Parser!Top.fn, Parser!Top.at, fn>> \in AwaitedCalls
        /\ stack # <<>> /\ ret = Parser!NoNode => <<Parser!Top.fn, Parser!Top.at>> \in ReadyPoints

\* The expression gets a value, if only NaN.
Evaluated == <>(outcome \in {"compiled", "error", "other"})
=============================================================================
