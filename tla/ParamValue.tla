----------------------------- MODULE ParamValue -----------------------------
(***************************************************************************)
(* How the text of a block parameter becomes a value: detail::convert_to,  *)
(* the reading members of struct BlockInfo (src/lib/flowgraph_impl.h) and  *)
(* detail::evaluate_expression (src/lib/exprtk_impl.cc).                   *)
(*                                                                         *)
(* A text is one of the shapes the code tells apart, never a character     *)
(* sequence.  Numbers are counted in halves, so that 3 stands for "1.5":   *)
(* that is enough to tell an integer text from a decimal one.              *)
(*                                                                         *)
(* A conversion is the SET of its possible outcomes.  The empty set is a   *)
(* C++ exception; several outcomes are what the build may produce when the *)
(* code reads an uninitialised variable or casts a number that the target  *)
(* type cannot hold.                                                       *)
(***************************************************************************)
EXTENDS Integers, Sequences, FiniteSets, FiniteSetsExt

CONSTANTS
    MaxInt,          \* largest int of the instance; its width follows from it
    Lower(_),        \* a name in small letters
    Less(_, _),      \* the order of std::map, by which the variables come
    ReservedSymbols, \* names that exprtk's symbol table refuses, in this spelling
    ParserWords      \* words its parser takes for a call or a statement, in any capitals

ASSUME MaxIntAssumption == MaxInt \in Nat

-----------------------------------------------------------------------------
(* Texts and values *)

Number(h) == [kind |-> "number", half |-> h]      \* "7", "-2", "1.5"
Word(w)   == [kind |-> "word", word |-> w]        \* "float", "samp_rate", "True"
Twice(w)  == [kind |-> "twice", word |-> w]       \* "samp_rate * 2"
Window(w) == [kind |-> "window", word |-> w]      \* "firdes.WIN_HANN"
Quoted(t) == [kind |-> "quoted", text |-> t]      \* t between '' or ""
List(s)   == [kind |-> "list", items |-> s]       \* "(a, b)" or "[a, b]"
Empty     == [kind |-> "empty"]                   \* the text of length zero
Blank     == [kind |-> "blank"]                   \* spaces only
Quotes    == [kind |-> "quotes"]                  \* '' or "", two characters

Plain == [kind : {"number"}, half : Int]
            \cup [kind : {"word", "twice", "window"}, word : STRING]
            \cup {Empty, Blank, Quotes}

Text == Plain \cup [kind : {"quoted"}, text : Plain \ {Empty}]
              \cup [kind : {"list"}, items : Seq(Plain)]

NaN      == [kind |-> "nan"]
Truth(b) == [kind |-> "bool", truth |-> b]

Least(T)    == IF T = "int" THEN -MaxInt - 1 ELSE 0
Greatest(T) == CASE T = "int"      -> MaxInt
                 [] T = "unsigned" -> 2 * MaxInt + 1
                 [] T = "size_t"   -> (2 * MaxInt + 2) * (2 * MaxInt + 2) - 1

Integral == {"int", "unsigned", "size_t"}
Real     == {"float", "double"}

\* Every value a variable of type T may hold; the reals an uninitialised
\* double is taken from are bounded by MaxInt.
AnyValue(T) == IF T \in Integral
          THEN {Number(2 * i) : i \in Least(T)..Greatest(T)}
          ELSE {Number(h) : h \in -MaxInt..MaxInt} \cup {NaN}

-----------------------------------------------------------------------------
(* detail::convert_to *)

\* What operator>> stores for the digits of integer i: out of range it stores
\* the nearest limit (and fails, which the eof test does not see); a negative
\* number wraps around in an unsigned type.
Stored(T, i) ==
    LET modulus == Greatest(T) + 1 IN
    IF T = "int"
    THEN IF i > Greatest(T) THEN Greatest(T) ELSE IF i < Least(T) THEN Least(T) ELSE i
    ELSE IF i > Greatest(T) \/ i < -Greatest(T) THEN Greatest(T) ELSE i % modulus

\* The numeric template: it throws when characters are left over, and returns
\* the uninitialised retval when there was none to read.
convert_number(T, t) ==
    IF t \in {Empty, Blank} THEN AnyValue(T)
    ELSE IF t.kind # "number" THEN {}
    ELSE IF T \in Real THEN {t}
    ELSE IF t.half % 2 = 1 THEN {}
    ELSE {Number(2 * Stored(T, t.half \div 2))}

convert_bool(t) ==
    IF t \in {Word("False"), Word("false"), Word("FALSE"), Number(0)} THEN {Truth(FALSE)}
    ELSE IF t \in {Word("True"), Word("true"), Word("TRUE"), Number(2)} THEN {Truth(TRUE)}
    ELSE {}

convert_to(T, t) ==
    CASE T = "string" -> {t}
      [] T = "bool"   -> convert_bool(t)
      [] OTHER        -> convert_number(T, t)

-----------------------------------------------------------------------------
(* BlockInfo *)

\* The type of a block; it is empty in a BlockInfo nothing was read into.
Key == STRING \cup {""}

IsBlockInfo(b) ==
    /\ b \in [key : Key, id : Text, params : {b.params}]
    /\ DOMAIN b.params \subseteq STRING
    /\ b.params \in [DOMAIN b.params -> Text]

Unquote(t) == IF t.kind = "quoted" THEN t.text ELSE t

param_value(T, info, param_name) ==
    IF param_name \in DOMAIN info.params
    THEN convert_to(T, Unquote(info.params[param_name]))
    ELSE {}

is_param_set(info, param_name) ==
    /\ param_name \in DOMAIN info.params
    /\ info.params[param_name] \notin {Empty, Blank}

\* The variables an expression may name (an id is a text).  A later variable replaces an earlier
\* one of its name, and one value that does not convert to T throws for all.
variable_map(T, variables) ==
    LET setting  == {i \in DOMAIN variables : is_param_set(variables[i], "value")}
        value(i) == param_value(T, variables[i], "value")
        names    == {variables[i].id : i \in setting}
        last(n)  == Max({i \in setting : variables[i].id = n})
    IN  IF \E i \in setting : value(i) = {} THEN {}
        ELSE {m \in [names -> UNION {value(i) : i \in setting}] :
                 \A n \in names : m[n] \in value(last(n))}

-----------------------------------------------------------------------------
(* detail::evaluate_expression: an expression that does not compile has the
   value NaN, the result of compile is not looked at. *)

\* (fault) Of the names that differ only in capitals the last stays.
symbol_table_last(map) ==
    LET names == {m \in DOMAIN map : m.kind = "word" /\ m.word \notin ReservedSymbols} IN
    {m \in names : \A k \in names : Lower(k.word) = Lower(m.word) => ~Less(m.word, k.word)}

\* The table takes a variable unless its name is reserved or differs only in capitals
\* from one that came before it; the answer of add_constant is not looked at.
symbol_table(map) ==
    LET names == {m \in DOMAIN map : m.kind = "word" /\ m.word \notin ReservedSymbols} IN
    {m \in names : \A k \in names : Lower(k.word) = Lower(m.word) => ~Less(k.word, m.word)}

\* A name is looked up in any capitals, unless it is a word of exprtk's.
symbol_value(w, map) ==
    LET found == {m \in symbol_table(map) : Lower(m.word) = Lower(w)} IN
    CASE Lower(w) = "true"  -> Number(2)
      [] Lower(w) = "false" -> Number(0)
      [] OTHER -> IF w \notin ReservedSymbols /\ Lower(w) \notin ParserWords /\ found # {}
                  THEN map[CHOOSE m \in found : TRUE] ELSE NaN

evaluate_plain(t, map) ==
    CASE t.kind = "number" -> t
      [] t.kind = "word"   -> symbol_value(t.word, map)
      [] t.kind = "twice"  -> LET v == symbol_value(t.word, map)
                              IN IF v = NaN THEN NaN ELSE Number(2 * v.half)
      [] OTHER             -> NaN

evaluate_expression(t, map) ==
    IF t.kind = "list"
    THEN IF Len(t.items) = 1 THEN evaluate_plain(t.items[1], map) ELSE NaN
    ELSE evaluate_plain(t, map)

\* (fault) The least number of a type counts as out of its range.
static_cast_least(T, v) ==
    LET whole == IF v.half >= 0 THEN v.half \div 2 ELSE -((-v.half) \div 2) IN
    IF T \in Real THEN {v}
    ELSE IF v = NaN THEN AnyValue(T)
    ELSE IF whole \in Least(T) + 1..Greatest(T) THEN {Number(2 * whole)} ELSE AnyValue(T)

\* static_cast<T>(double): a number the integer type cannot hold, and NaN, are
\* undefined behaviour.
static_cast(T, v) ==
    LET whole == IF v.half >= 0 THEN v.half \div 2 ELSE -((-v.half) \div 2) IN
    IF T \in Real THEN {v}
    ELSE IF v = NaN THEN AnyValue(T)
    ELSE IF whole \in Least(T)..Greatest(T) THEN {Number(2 * whole)} ELSE AnyValue(T)

\* (fault) The variables are read as reals, whatever the parameter is.
eval_param_value_real(T, info, param_name, variables) ==
    UNION {static_cast(T, evaluate_expression(t, map)) :
              t \in param_value("string", info, param_name),
              map \in variable_map("double", variables)}

eval_param_value(T, info, param_name, variables) ==
    UNION {static_cast(T, evaluate_expression(t, map)) :
              t \in param_value("string", info, param_name),
              map \in variable_map(T, variables)}

\* The parts of a vector text: brackets are taken off a text longer than two
\* characters, so "()" stays one part.
Parts(t) == IF t.kind = "list" /\ t.items # <<>> THEN t.items ELSE <<t>>

eval_param_vector(T, info, param_name, variables) ==
    UNION {LET parts   == Parts(t)
               cast(k) == static_cast(T, evaluate_expression(parts[k], map))
               all     == UNION {cast(k) : k \in DOMAIN parts}
           IN  {List(s) : s \in {r \in [DOMAIN parts -> all] :
                                    \A k \in DOMAIN parts : r[k] \in cast(k)}} :
              t \in param_value("string", info, param_name),
              map \in variable_map("double", variables)}

\* enum_map of eval_param_enum; operator[] gives an unknown name the value 0,
\* which is WIN_HAMMING.
win_type ==
    [WIN_NONE |-> -1, WIN_HAMMING |-> 0, WIN_HANN |-> 1, WIN_BLACKMAN |-> 2,
     WIN_RECTANGULAR |-> 3, WIN_KAISER |-> 4, WIN_BLACKMAN_hARRIS |-> 5,
     WIN_BLACKMAN_HARRIS |-> 5, WIN_BARTLETT |-> 6, WIN_FLATTOP |-> 7]

eval_param_enum(info, param_name) ==
    {Number(2 * (IF t.word \in DOMAIN win_type THEN win_type[t.word] ELSE 0)) :
        t \in {s \in param_value("string", info, param_name) : s.kind = "window"}}
=============================================================================
