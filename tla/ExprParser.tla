----------------------------- MODULE ExprParser -----------------------------
(***************************************************************************)
(* exprtk's recursive-descent parser, as evaluate_expression uses it       *)
(* (src/lib/exprtk.hpp:24519-24620, 24989-25075, 25154-25463, 26419-26535, *)
(* 31254-31453): numbers, constants, operators, brackets, "?:" and ";".    *)
(* Calls, control structures and assignments to variables are left out.    *)
(*                                                                         *)
(* The C++ call stack is the variable stack, top first; a step is what a   *)
(* function does up to its next call or its return, and ret holds the node *)
(* that was returned to the top frame.  evaluate_expression, whose module  *)
(* has the tokens and the symbol table from before, gives the              *)
(* parser constants only, so every node is folded into a literal as soon   *)
(* as it is made: a node stands for the value it is folded into.           *)
(***************************************************************************)
EXTENDS ExprTokens

CONSTANT
    max_stack_depth \* of the parser's settings

VARIABLES
    symbol_table,       \* the names of the constants, which the parser only reads
    expression_string,  \* the tokens the lexer found
    token_list_,        \* what the passes and the parser have made of them
    token_itr_,         \* the place of the next token
    stack,              \* the frames of the parser, top first
    ret,                \* the value returned to the top frame, or NoNode
    arg_list,           \* of parse_corpus: the values so far
    outcome             \* how far the expression is, "compiled" or "error" in the end

lexer_  == <<token_list_, token_itr_>>
parser_ == <<expression_string, lexer_, stack, ret, arg_list, outcome>>

-----------------------------------------------------------------------------
(* Values.  A value is a term in which "-" is written as the laws allow that hold
   exactly for floating-point numbers: -(-x) is x, x - y is x + (-y), a product or
   quotient has its sign in front, and fmod has that of its first argument. *)

NoNode  == <<>>
Leaf(v) == <<"leaf", v>>
Neg(x)  == IF x[1] = "neg" THEN x[2] ELSE <<"neg", x>>
Sign(x, y)  == IF x[1] = "neg" THEN Neg(y) ELSE y
Unsigned(x) == IF x[1] = "neg" THEN x[2] ELSE x

Node(op, x, y) ==
    CASE op = "-" -> <<"+", x, Neg(y)>>
      [] op \in {"*", "/"} -> Sign(x, Sign(y, <<op, Unsigned(x), Unsigned(y)>>))
      [] op = "%" -> Sign(x, <<op, Unsigned(x), Unsigned(y)>>)
      [] OTHER -> <<op, x, y>>

Ternary(c, x, y) == <<"?", c, x, y>>

\* The levels of the binary operators: an operator is taken if its left level is not
\* below the precedence of the loop, and its operand is parsed at the right one.
OrOperators  == {"or", "nor", "xor", "xnor", "|"}
AndOperators == {"and", "nand", "&"}
Comparisons  == {"<", "<=", "=", "!=", ">=", ">"}

\* Operators that exprtk has, but not for literals.
Unfit == {":=", "op=", "<=>", "in", "like", "ilike", "not"}

Levels(left, right) == [left |-> left, right |-> right]

precedence_level(op) ==
    CASE op \in OrOperators -> Levels(1, 2)
      [] op \in AndOperators -> Levels(3, 4)
      [] op \in {"in", "like", "ilike"} -> Levels(4, 4)
      [] op \in Comparisons -> Levels(5, 6)
      [] op \in {"+", "-"} -> Levels(7, 8)
      [] op \in {"/", "*", "%"} -> Levels(10, 11)
      [] op = "^" -> Levels(12, 12)
      [] OTHER -> Levels(0, 0)

\* What a token is to the loop of parse_expression: a binary operator or "none".
OperatorOf(t) ==
    LET name == IF t.type = "symbol" THEN t.word ELSE t.type
        known == IF t.type = "symbol"
                 THEN OrOperators \cup AndOperators \cup {"in", "like", "ilike", "not"}
                 ELSE Comparisons \cup {"+", "-", "/", "*", "%", "^", ":=", "op=", "<=>"}
    IN  IF name \in known THEN name ELSE "none"

-----------------------------------------------------------------------------
(* The tokens.  token_itr_ is one further than in the code when the end-of-file
   token behind the last one is the current token. *)

TokenAt(s, i) == IF i \in DOMAIN s THEN s[i] ELSE Operator(";")

current_token == TokenAt(token_list_, token_itr_ - 1)
finished      == token_itr_ > Len(token_list_)
token_is(type) == current_token.type = type

After(s, itr) == IF itr <= Len(s) + 1 THEN itr + 1 ELSE itr

next_token == token_itr_' = After(token_list_, token_itr_) /\ UNCHANGED token_list_

\* insert_front: a copy of the next token with another type goes before it; there is
\* none to copy behind the end.
insert_front(s, itr, type) ==
    IF itr \in DOMAIN s THEN InsertAt(s, itr, Token(type, s[itr].value)) ELSE s

-----------------------------------------------------------------------------
(* Frames *)

Frame(fn, precedence, left) ==
    [fn |-> fn, precedence |-> precedence, at |-> "begin", left |-> left,
     right |-> NoNode, op |-> "none", depth |-> 0]

parse_expression(precedence) == Frame("expression", precedence, NoNode)
parse_branch(precedence)     == Frame("branch", precedence, NoNode)
parse_ternary_conditional_statement(condition) == Frame("ternary", 0, condition)

Parsing  == outcome = "parsing"
Top      == Head(stack)
In(fn, at) == Parsing /\ stack # <<>> /\ Top.fn = fn /\ Top.at = at
Begins(fn)       == In(fn, "begin") /\ ret = NoNode
Resumes(fn, at)  == In(fn, at) /\ ret # NoNode

\* An error returns a null node through all frames.
Fail ==
    /\ outcome' = "error" /\ stack' = <<>> /\ ret' = NoNode
    /\ UNCHANGED <<expression_string, arg_list>>

\* The frames below and with the top one that stack_limit_handler counts.
stack_depth == IF stack = <<>> THEN 0 ELSE Top.depth

\* The frame of a function that is entered.
stack_limit_handler(callee) ==
    [callee EXCEPT !.depth = IF callee.fn = "ternary" THEN stack_depth ELSE stack_depth + 1]

\* The top frame, which becomes frame, calls callee.
Call(frame, callee) ==
    IF callee.fn # "ternary" /\ stack_depth + 1 > max_stack_depth THEN Fail
    ELSE /\ stack' = <<stack_limit_handler(callee), frame>> \o Tail(stack) /\ ret' = NoNode
         /\ UNCHANGED <<expression_string, arg_list, outcome>>

Stay(frame) ==
    /\ stack' = <<frame>> \o Tail(stack) /\ ret' = NoNode
    /\ UNCHANGED <<expression_string, arg_list, outcome>>

Return(value) ==
    /\ stack' = Tail(stack) /\ ret' = value
    /\ UNCHANGED <<expression_string, arg_list, outcome>>

-----------------------------------------------------------------------------
Init ==
    /\ expression_string = <<>> /\ token_list_ = <<>>
    /\ token_itr_ = 1
    /\ stack = <<>> /\ ret = NoNode /\ arg_list = <<>>
    /\ outcome = "none"

\* The lexer has succeeded.
Start(tokens) ==
    /\ outcome = "none"
    /\ expression_string' = tokens /\ token_list_' = tokens
    /\ outcome' = "lexed"
    /\ UNCHANGED <<token_itr_, stack, ret, arg_list>>

\* compile gives up before the parser.
GiveUp(reason) ==
    /\ outcome = "none"
    /\ outcome' = reason
    /\ UNCHANGED <<expression_string, lexer_, stack, ret, arg_list>>

\* A pass over all tokens.
Pass(from, to, tokens) ==
    /\ outcome = from
    /\ token_list_' = tokens /\ outcome' = to
    /\ UNCHANGED <<expression_string, token_itr_, stack, ret, arg_list>>

compile_empty ==
    /\ outcome = "lexed" /\ expression_string = <<>>
    /\ outcome' = "error"
    /\ UNCHANGED <<expression_string, lexer_, stack, ret, arg_list>>

run_inserters == expression_string # <<>> /\ Pass("lexed", "inserted", Inserted(token_list_))

run_joiners == Pass("inserted", "joined", process_stride_3(process_stride_2(token_list_)))

run_modifiers == Pass("joined", "replaced", Replaced(token_list_))

run_scanners ==
    /\ outcome = "replaced"
    /\ IF /\ numeric_checker(token_list_) /\ bracket_checker(token_list_)
          /\ sequence_validator(token_list_) /\ sequence_validator_3tokens(token_list_)
       THEN outcome' = "parsing" /\ token_itr_' = 2 /\ UNCHANGED token_list_
       ELSE outcome' = "error" /\ UNCHANGED lexer_
    /\ UNCHANGED <<expression_string, stack, ret, arg_list>>

\* An expression begins wherever the last one has ended: a ";" is not asked for.
parse_corpus_begin ==
    /\ Parsing /\ stack = <<>> /\ ret = NoNode
    /\ IF stack_depth + 1 > max_stack_depth THEN Fail
       ELSE /\ stack' = <<stack_limit_handler(parse_expression(0))>>
            /\ UNCHANGED <<expression_string, ret, arg_list, outcome>>
    /\ UNCHANGED lexer_

\* (fault) Every expression but the last ends with a ";".
parse_corpus_end_separated ==
    /\ Parsing /\ stack = <<>> /\ ret # NoNode /\ token_is(";")
    /\ arg_list' = Append(arg_list, ret)
    /\ ret' = NoNode
    /\ IF finished THEN outcome' = "compiled" /\ UNCHANGED lexer_
       ELSE outcome' = outcome /\ next_token
    /\ UNCHANGED <<expression_string, stack>>

\* The value of compile is that of the last expression.
parse_corpus_end ==
    /\ Parsing /\ stack = <<>> /\ ret # NoNode
    /\ arg_list' = Append(arg_list, ret)
    /\ ret' = NoNode
    /\ IF token_is(";") /\ finished THEN outcome' = "compiled" /\ UNCHANGED lexer_
       ELSE outcome' = outcome /\ IF token_is(";") THEN next_token ELSE UNCHANGED lexer_
    /\ UNCHANGED <<expression_string, stack>>

expression_begin ==
    /\ Begins("expression")
    /\ Call([Top EXCEPT !.at = "branch"], parse_branch(Top.precedence))
    /\ UNCHANGED lexer_

expression_branch ==
    /\ Resumes("expression", "branch")
    /\ IF token_is(";") THEN Return(ret) ELSE Stay([Top EXCEPT !.at = "loop", !.left = ret])
    /\ UNCHANGED lexer_

operator == OperatorOf(current_token)

TakesOperator ==
    operator # "none" /\ precedence_level(operator).left >= Top.precedence

expression_operator ==
    /\ In("expression", "loop") /\ TakesOperator
    /\ Call([Top EXCEPT !.at = "right", !.op = operator],
            parse_expression(precedence_level(operator).right))
    /\ next_token

expression_end ==
    /\ In("expression", "loop") /\ ~TakesOperator
    /\ Return(Top.left)
    /\ UNCHANGED lexer_

\* (fault) "?" ends the operand it stands behind.
expression_combine_any ==
    LET new_expression == Node(Top.op, Top.left, ret) IN
    /\ Resumes("expression", "right")
    /\ IF Top.op \in Unfit THEN Fail
       ELSE IF token_is("?")
       THEN Call([Top EXCEPT !.at = "ternary"], parse_ternary_conditional_statement(new_expression))
       ELSE Stay([Top EXCEPT !.at = "loop", !.left = new_expression])
    /\ UNCHANGED lexer_

expression_combine ==
    LET new_expression == Node(Top.op, Top.left, ret) IN
    /\ Resumes("expression", "right")
    /\ IF Top.op \in Unfit THEN Fail
       ELSE IF token_is("?") /\ Top.precedence = 0
       THEN Call([Top EXCEPT !.at = "ternary"], parse_ternary_conditional_statement(new_expression))
       ELSE Stay([Top EXCEPT !.at = "loop", !.left = new_expression])
    /\ UNCHANGED lexer_

expression_ternary ==
    /\ Resumes("expression", "ternary")
    /\ Stay([Top EXCEPT !.at = "loop", !.left = ret])
    /\ UNCHANGED lexer_

-----------------------------------------------------------------------------
BranchEnds(value) == Stay([Top EXCEPT !.at = "end", !.left = value])

branch_number ==
    /\ Begins("branch") /\ token_is("number")
    /\ BranchEnds(Leaf(current_token.value))
    /\ next_token

\* is_reserved_symbol of the symbol table tells capitals from small letters.
is_reserved_symbol(name) == Spelling(name) \in reserved_symbols

valid_symbol(name) == IsName(name) /\ ~is_reserved_symbol(name)

\* get_variable_context: the constants that a name stands for.
Found(name) == {m \in symbol_table : Lower(m) = Lower(name) /\ valid_symbol(name)}

IsConstant(t) == t.type = "symbol" /\ Found(t.value) # {}

\* A constant, and post_variable_process: before a bracket a "*" is put in.
branch_symbol ==
    LET times == IF TokenAt(token_list_, token_itr_).type \in LeftBrackets
                 THEN insert_front(token_list_, token_itr_, "*") ELSE token_list_
    IN
    /\ Begins("branch") /\ token_is("symbol")
    /\ \E name \in Found(current_token.value) : BranchEnds(Leaf(name))
    /\ token_list_' = times /\ token_itr_' = After(times, token_itr_)

branch_bracket ==
    /\ Begins("branch") /\ current_token.type \in LeftBrackets
    /\ Call([Top EXCEPT !.at = "bracket", !.op = Closing[current_token.type]], parse_expression(0))
    /\ next_token

\* Before ")" a ";" is skipped.
BeforeClosing ==
    IF Top.op = ")" /\ token_is(";") THEN After(token_list_, token_itr_) ELSE token_itr_

\* The closing bracket and post_bracket_process: a bracket that follows is put in again
\* behind a "*", which is the current token then.
branch_bracket_end ==
    LET closing == BeforeClosing
        behind  == After(token_list_, closing)
        next    == TokenAt(token_list_, behind - 1).type
        times   == insert_front(insert_front(token_list_, behind, next), behind, "*")
    IN
    /\ Resumes("branch", "bracket")
    /\ IF TokenAt(token_list_, closing - 1).type # Top.op THEN Fail /\ UNCHANGED lexer_
       ELSE /\ BranchEnds(ret)
            /\ IF next \in LeftBrackets
               THEN token_list_' = times /\ token_itr_' = After(times, behind)
               ELSE token_itr_' = behind /\ UNCHANGED token_list_

\* "-" leaves "^" to its operand, "+" leaves nothing to it.
branch_sign ==
    /\ Begins("branch") /\ current_token.type \in {"+", "-"}
    /\ Call([Top EXCEPT !.at = "sign", !.op = current_token.type],
            parse_expression(IF token_is("-") THEN 11 ELSE 13))
    /\ next_token

branch_signed ==
    /\ Resumes("branch", "sign")
    /\ BranchEnds(IF Top.op = "-" THEN Neg(ret) ELSE ret)
    /\ UNCHANGED lexer_

\* An operand is missing, or its name is not known.
branch_error ==
    /\ Begins("branch")
    /\ current_token.type \notin LeftBrackets \cup {"number", "+", "-"} /\ ~IsConstant(current_token)
    /\ Fail
    /\ UNCHANGED lexer_

branch_end ==
    /\ In("branch", "end")
    /\ IF Top.precedence = 0 /\ token_is("?")
       THEN Call([Top EXCEPT !.at = "ternary"], parse_ternary_conditional_statement(Top.left))
       ELSE Return(Top.left)
    /\ UNCHANGED lexer_

branch_ternary ==
    /\ Resumes("branch", "ternary")
    /\ Return(ret)
    /\ UNCHANGED lexer_

-----------------------------------------------------------------------------
ternary_begin ==
    /\ Begins("ternary")
    /\ Call([Top EXCEPT !.at = "consequent"], parse_expression(0))
    /\ next_token

ternary_consequent ==
    /\ Resumes("ternary", "consequent")
    /\ IF token_is(":")
       THEN /\ Call([Top EXCEPT !.at = "alternative", !.right = ret], parse_expression(0))
            /\ next_token
       ELSE Fail /\ UNCHANGED lexer_

ternary_alternative ==
    /\ Resumes("ternary", "alternative")
    /\ Return(Ternary(Top.left, Top.right, ret))
    /\ UNCHANGED lexer_

Next ==
    \/ compile_empty \/ run_inserters \/ run_joiners \/ run_modifiers \/ run_scanners
    \/ parse_corpus_begin \/ parse_corpus_end
    \/ expression_begin \/ expression_branch \/ expression_operator \/ expression_end
    \/ expression_combine \/ expression_ternary
    \/ branch_number \/ branch_symbol \/ branch_bracket \/ branch_bracket_end
    \/ branch_sign \/ branch_signed \/ branch_error \/ branch_end \/ branch_ternary
    \/ ternary_begin \/ ternary_consequent \/ ternary_alternative
=============================================================================
