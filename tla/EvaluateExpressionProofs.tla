---------------------- MODULE EvaluateExpressionProofs ----------------------
(***************************************************************************)
(* FirstOfAKind for all names and any number of variables, whatever the    *)
(* text is: of each kind the table has the first name, because the loop    *)
(* takes the least one that is left.  That stays so because the table has  *)
(* one of every kind that has come by (KindsKnown) and lets no later one   *)
(* in.  Then what the lexer is within evaluate_expression, how deep the    *)
(* parser recurses (RecursionBounded), and that it is done after as many   *)
(* steps as are left (ParserAdvances): the passes before it make sequences *)
(* of sequences, and a step of it either reads a token or hands a value to *)
(* a function that waits for it (ReturnsAreAwaited).  Last, that the       *)
(* values of what is compiled are the ones the grammar derives for the     *)
(* tokens read (ValuesAreDerived): each function on the stack knows where  *)
(* the part it reads begins and what it means so far (TracedInv).          *)
(***************************************************************************)
EXTENDS EvaluateExpression, ExprLexerProofs, SequenceTheorems, TLAPS

SameKind(k, m) == Lower(k) = Lower(m)

KindsKnown ==
    \A k \in variables \ to_add : valid_symbol(k) => \E m \in symbol_table : SameKind(m, k)

TableInv == FirstOfAKind /\ KindsKnown

LEMMA InitTable == EvaluateInit => TableInv
BY DEF EvaluateInit, TableInv, FirstOfAKind, KindsKnown

\* A call of add_constant: what is added is not there in another spelling, so no name
\* of its kind has come by, and those still to come are not less.
LEMMA AddTable == TableInv /\ add_constant => TableInv'
<1> SUFFICES ASSUME TableInv, add_constant PROVE TableInv'
  OBVIOUS
<1>1. PICK name \in to_add :
          /\ \A m \in to_add : ~Less(m, name)
          /\ to_add' = to_add \ {name}
          /\ symbol_table' = IF valid_symbol(name) /\ ~symbol_exists(name)
                             THEN symbol_table \cup {name} ELSE symbol_table
          /\ variables' = variables
  BY DEF add_constant
<1>2. FirstOfAKind'
  <2> SUFFICES ASSUME NEW m \in symbol_table', NEW k \in variables, valid_symbol(k), SameKind(k, m)
               PROVE  ~Less(k, m)
    BY <1>1 DEF FirstOfAKind, valid_symbol, Parser!valid_symbol, Parser!is_reserved_symbol, SameKind, Lower, Less
  <2>1. CASE m \in symbol_table
    BY <2>1 DEF TableInv, FirstOfAKind, SameKind
  <2>2. CASE m \notin symbol_table
    <3>1. m = name /\ ~symbol_exists(name)
      BY <1>1, <2>2
    <3>2. CASE k \in to_add
      BY <1>1, <3>1, <3>2
    <3>3. CASE k \notin to_add
      <4>1. PICK l \in symbol_table : SameKind(l, k)
        BY <3>3 DEF TableInv, KindsKnown
      <4>2. Lower(l) = Lower(name)
        BY <3>1, <4>1 DEF SameKind
      <4> QED
        BY <3>1, <4>2 DEF symbol_exists
    <3> QED
      BY <3>2, <3>3
  <2> QED
    BY <2>1, <2>2
<1>3. KindsKnown'
  <2> SUFFICES ASSUME NEW k \in variables \ to_add', valid_symbol(k)
               PROVE  \E m \in symbol_table' : SameKind(m, k)
    BY <1>1 DEF KindsKnown, valid_symbol, Parser!valid_symbol, Parser!is_reserved_symbol, SameKind, Lower
  <2>1. CASE k \in to_add
    <3>1. k = name
      BY <1>1, <2>1
    <3>2. CASE symbol_exists(name)
      <4>1. PICK m \in symbol_table : Lower(m) = Lower(name)
        BY <3>1, <3>2 DEF symbol_exists, valid_symbol, Parser!valid_symbol
      <4> QED
        BY <1>1, <3>1, <4>1 DEF SameKind
    <3>3. CASE ~symbol_exists(name)
      BY <1>1, <3>1, <3>3 DEF SameKind
    <3> QED
      BY <3>2, <3>3
  <2>2. CASE k \notin to_add
    BY <1>1, <2>2 DEF TableInv, KindsKnown
  <2> QED
    BY <2>1, <2>2
<1> QED
  BY <1>2, <1>3 DEF TableInv

\* The lexer and the parser do not touch the table.
LEMMA StepTable == TableInv /\ [EvaluateNext]_evaluateVars => TableInv'
<1> SUFFICES ASSUME TableInv, [EvaluateNext]_evaluateVars PROVE TableInv'
  OBVIOUS
<1>1. CASE add_constant
  BY <1>1, AddTable
<1>2. CASE lex \/ compile_fails \/ compile_lexed \/ parse \/ UNCHANGED evaluateVars
  <2>1. UNCHANGED table_
    BY <1>2 DEF lex, compile_fails, compile_lexed, parse, table_, evaluateVars
  <2> QED
    BY <2>1 DEF TableInv, FirstOfAKind, KindsKnown, SameKind, table_,
                valid_symbol, Parser!valid_symbol, Parser!is_reserved_symbol, Lower, Less
<1> QED
  BY <1>1, <1>2 DEF EvaluateNext

\* Whatever the variables are called, a name that is read in evaluate_expression has the
\* value of the first variable of its kind in the map.
THEOREM FirstIsRead == EvaluateSpec => []FirstOfAKind
<1>1. TableInv => FirstOfAKind
  BY DEF TableInv
<1> QED
  BY <1>1, InitTable, StepTable, PTL DEF EvaluateSpec

\* Within evaluate_expression the lexer takes its own steps only: it is begun on one of
\* the texts, and neither the symbol table nor the parser moves it.
THEOREM LexesAsLexer == EvaluateSpec => Spec
<1>1. EvaluateInit => Init
  BY InputsAssumption DEF EvaluateInit, Init
<1>2. [EvaluateNext]_evaluateVars => [Next]_vars
  BY DEF EvaluateNext, add_constant, lex, compile_fails, compile_lexed, parse, evaluateVars
<1> QED
  BY <1>1, <1>2, PTL DEF EvaluateSpec, Spec

\* So nothing of an expression is lost on its way to the parser, however long it is.
THEOREM ExpressionKept == EvaluateSpec => []NothingLost
BY LexesAsLexer, LexerLosesNothing, PTL

-----------------------------------------------------------------------------
(* Functions that are defined by recursion, as the passes over the tokens are *)

\* Each value is that of the base or is made of the value at a place of lower rank.
IsRecursion(D, B, next, rank) ==
    /\ \A i \in D : rank[i] \in Nat
    /\ \A i \in D \ B : next[i] \in D /\ rank[next[i]] < rank[i]

LEMMA LeastRank ==
    ASSUME NEW D, NEW rank, \A i \in D : rank[i] \in Nat, NEW S, S \subseteq D, S # {}
    PROVE  \E i \in S : \A j \in S : ~(rank[j] < rank[i])
<1> DEFINE R == {rank[i] : i \in S}
<1>1. R \subseteq Nat /\ R # {}
  OBVIOUS
<1>2. PICK m \in R : \A t \in R : ~(<<t, m>> \in OpToRel(<, Nat))
  <2> HIDE DEF R
  <2> QED BY <1>1, NatLessThanWellFounded, WFMin
<1>3. PICK i \in S : m = rank[i]
  OBVIOUS
<1>4. \A j \in S : rank[j] \in R /\ rank[j] \in Nat /\ rank[i] \in Nat
  OBVIOUS
<1> HIDE DEF R
<1>5. \A j \in S : ~(rank[j] < rank[i])
  BY <1>2, <1>3, <1>4 DEF OpToRel
<1> QED BY <1>5

LEMMA RecursionTyped ==
    ASSUME NEW D, NEW B, NEW next, NEW rank, IsRecursion(D, B, next, rank), NEW V, NEW f,
           \A i \in D \cap B : f[i] \in V,
           \A i \in D \ B : f[next[i]] \in V => f[i] \in V
    PROVE  \A i \in D : f[i] \in V
<1> DEFINE S == {i \in D : f[i] \notin V}
<1> SUFFICES ASSUME S # {} PROVE FALSE
  OBVIOUS
<1>1. PICK i \in S : \A j \in S : ~(rank[j] < rank[i])
  BY LeastRank DEF IsRecursion
<1>2. i \in D \ B
  OBVIOUS
<1>3. next[i] \in D /\ next[i] \notin S
  BY <1>1, <1>2 DEF IsRecursion
<1> QED BY <1>2, <1>3

\* The functions that are right on all places below a rank.
RightBelow(f, r, D, B, next, rank, base, step) ==
    \A i \in D : rank[i] < r => f[i] = IF i \in B THEN base[i] ELSE step[<<i, f[next[i]]>>]

Recursive(f, D, B, next, base, step) ==
    \A i \in D : f[i] = IF i \in B THEN base[i] ELSE step[<<i, f[next[i]]>>]

HasRecursive(D, B, next, base, step) == \E f : Recursive(f, D, B, next, base, step)

LEMMA RecursionExists ==
    ASSUME NEW D, NEW B, NEW next, NEW rank, IsRecursion(D, B, next, rank), NEW base, NEW step,
           NEW N \in Nat, \A i \in D : rank[i] < N
    PROVE  HasRecursive(D, B, next, base, step)
<1> DEFINE Good(r) == \E f : RightBelow(f, r, D, B, next, rank, base, step)
           Bad == {r \in 0..N : ~Good(r)}
<1>1. Good(0)
  BY DEF RightBelow, IsRecursion
<1>2. ASSUME NEW r \in 0..N - 1, Good(r) PROVE Good(r + 1)
  <2>1. PICK g : RightBelow(g, r, D, B, next, rank, base, step)
    BY <1>2
  <2> DEFINE f == [i \in D |-> IF rank[i] < r THEN g[i] ELSE IF i \in B THEN base[i] ELSE step[<<i, g[next[i]]>>]]
  <2>2. \A i \in D : rank[i] < r + 1 => f[i] = IF i \in B THEN base[i] ELSE step[<<i, f[next[i]]>>]
    <3> SUFFICES ASSUME NEW i \in D, rank[i] < r + 1
                 PROVE  f[i] = IF i \in B THEN base[i] ELSE step[<<i, f[next[i]]>>]
      OBVIOUS
    <3>0. rank[i] \in Nat
      BY DEF IsRecursion
    <3>1. CASE i \in B
      <4>1. rank[i] < r => g[i] = base[i]
        BY <2>1, <3>1 DEF RightBelow
      <4> QED BY <3>1, <4>1
    <3>2. CASE i \notin B
      <4>1. next[i] \in D /\ rank[next[i]] \in Nat /\ rank[next[i]] < rank[i]
        BY <3>2 DEF IsRecursion
      <4>2. rank[next[i]] < r
        BY <3>0, <4>1
      <4>3. f[next[i]] = g[next[i]]
        BY <4>1, <4>2
      <4>4. rank[i] < r => g[i] = step[<<i, g[next[i]]>>]
        BY <2>1, <3>2 DEF RightBelow
      <4>5. f[i] = IF rank[i] < r THEN g[i] ELSE step[<<i, g[next[i]]>>]
        BY <3>2
      <4> HIDE DEF f
      <4> QED BY <3>2, <4>3, <4>4, <4>5
    <3> QED BY <3>1, <3>2
  <2> HIDE DEF f
  <2>3. RightBelow(f, r + 1, D, B, next, rank, base, step)
    BY <2>2 DEF RightBelow
  <2> QED BY <2>3
<1> HIDE DEF Good
<1>3. Bad = {}
  <2> SUFFICES ASSUME Bad # {} PROVE FALSE
    OBVIOUS
  <2>1. Bad \subseteq Nat
    OBVIOUS
  <2>2. PICK j \in Bad : \A l \in Bad : ~(<<l, j>> \in OpToRel(<, Nat))
    BY <2>1, NatLessThanWellFounded, WFMin
  <2>3. j \in 0..N /\ ~Good(j)
    OBVIOUS
  <2>4. j # 0
    BY <1>1, <2>3
  <2>5. j - 1 \in 0..N - 1 /\ j - 1 < j /\ j - 1 \in Nat /\ j \in Nat /\ (j - 1) + 1 = j
    BY <2>3, <2>4
  <2>6. j - 1 \notin Bad
    BY <2>2, <2>5 DEF OpToRel
  <2>7. Good(j - 1)
    BY <2>5, <2>6
  <2> QED BY <1>2, <2>3, <2>5, <2>7
<1>4. Good(N)
  BY <1>3
<1>5. PICK g : RightBelow(g, N, D, B, next, rank, base, step)
  BY <1>4 DEF Good
<1>6. \A i \in D : g[i] = IF i \in B THEN base[i] ELSE step[<<i, g[next[i]]>>]
  BY <1>5 DEF RightBelow
<1> QED BY <1>6 DEF HasRecursive, Recursive

RecursiveInto(f, D, B, next, base, step, V) ==
    f \in [D -> V] /\ Recursive(f, D, B, next, base, step) /\ \A i \in D \ B : f[next[i]] \in V

HasRecursiveInto(D, B, next, base, step, V) == \E f : RecursiveInto(f, D, B, next, base, step, V)

LEMMA RecursionInto ==
    ASSUME NEW D, NEW B, NEW next, NEW rank, IsRecursion(D, B, next, rank), NEW base, NEW step,
           NEW N \in Nat, \A i \in D : rank[i] < N,
           NEW V, \A i \in D \cap B : base[i] \in V, \A i \in D \ B : \A v \in V : step[<<i, v>>] \in V
    PROVE  HasRecursiveInto(D, B, next, base, step, V)
<1>1. PICK g : \A i \in D : g[i] = IF i \in B THEN base[i] ELSE step[<<i, g[next[i]]>>]
  <2>1. HasRecursive(D, B, next, base, step)
    BY RecursionExists
  <2> QED BY <2>1 DEF HasRecursive, Recursive
<1> DEFINE f == [i \in D |-> g[i]]
<1>0. \A i \in D \ B : next[i] \in D
  BY DEF IsRecursion
<1>2. \A i \in D : f[i] = IF i \in B THEN base[i] ELSE step[<<i, f[next[i]]>>]
  BY <1>0, <1>1
<1>4. f = [i \in D |-> f[i]]
  OBVIOUS
<1> HIDE DEF f
<1>3. \A i \in D : f[i] \in V
  <2>1. \A i \in D \cap B : f[i] \in V
    BY <1>2
  <2>2. \A i \in D \ B : f[next[i]] \in V => f[i] \in V
    BY <1>2
  <2> QED BY <2>1, <2>2, RecursionTyped
<1> QED BY <1>0, <1>2, <1>3, <1>4 DEF HasRecursiveInto, RecursiveInto, Recursive

-----------------------------------------------------------------------------
(* The passes over the tokens make sequences of sequences. *)

IsSequence(s) == \E S : s \in Seq(S)

Stride2From(s, f) ==
    [i \in 1..Len(s) + 1 |->
        IF i >= Len(s) THEN <<>>
        ELSE IF Parser!IsJoined(s, i)
             THEN <<Parser!Operator(Parser!Joined[<<s[i].type, s[i + 1].type>>])>> \o f[i + 2]
             ELSE <<s[i]>> \o f[i + 1]]

LEMMA Stride2Keeps ==
    ASSUME NEW s, IsSequence(s)
    PROVE  IsSequence(Parser!process_stride_2(s))
<1> DEFINE N == Len(s)
           D == 1..N + 1
           B == {i \in D : i >= N}
           next == [i \in D |-> IF Parser!IsJoined(s, i) THEN i + 2 ELSE i + 1]
           rank == [i \in D |-> N + 1 - i]
           base == [i \in D |-> <<>>]
           Item(i) == IF Parser!IsJoined(s, i) THEN Parser!Operator(Parser!Joined[<<s[i].type, s[i + 1].type>>]) ELSE s[i]
           S == {Item(i) : i \in D} \cup {Parser!Last(s)}
           V == Seq(S)
           step == [p \in D \X V |-> <<Item(p[1])>> \o p[2]]
           from == CHOOSE f : f = Stride2From(s, f)
<1>0. N \in Nat
  BY DEF IsSequence
<1>1. Parser!process_stride_2(s) = IF N < 2 THEN s ELSE Append(from[1], Parser!Last(s))
  BY DEF Parser!process_stride_2, Stride2From
<1>2. IsRecursion(D, B, next, rank)
  BY <1>0 DEF IsRecursion
<1>3. N + 2 \in Nat /\ \A i \in D : rank[i] < N + 2
  BY <1>0
<1>4. \A i \in D : /\ i \in B <=> i >= Len(s)
                   /\ base[i] = <<>>
                   /\ next[i] = IF Parser!IsJoined(s, i) THEN i + 2 ELSE i + 1
  OBVIOUS
<1>5. \A i \in D : Item(i) \in S
  OBVIOUS
<1>6. \A i \in D, v \in V : step[<<i, v>>] = <<Item(i)>> \o v
  OBVIOUS
<1>7. <<>> \in V /\ \A a \in S, v \in V : <<a>> \o v \in V
  <2> HIDE DEF S
  <2> QED OBVIOUS
<1>9. Parser!Last(s) \in S /\ (~(N < 2) => 1 \in D)
  BY <1>0
<1> DEFINE Made(f, i) == IF i >= Len(s) THEN <<>>
                          ELSE IF Parser!IsJoined(s, i)
                               THEN <<Parser!Operator(Parser!Joined[<<s[i].type, s[i + 1].type>>])>> \o f[i + 2]
                               ELSE <<s[i]>> \o f[i + 1]
<1>10. \A f : Stride2From(s, f) = [i \in D |-> Made(f, i)]
  BY DEF Stride2From
<1>11. ASSUME NEW f, NEW i \in D
       PROVE  Made(f, i) = IF i \in B THEN <<>> ELSE <<Item(i)>> \o f[next[i]]
  <2> HIDE DEF B, next
  <2> QED BY <1>4
<1> HIDE DEF D, B, next, rank, base, Item, S, V, step, Made
<1>12. PICK g : RecursiveInto(g, D, B, next, base, step, V)
  <2>1. \A i \in D \cap B : base[i] \in V
    BY <1>4, <1>7
  <2>2. \A i \in D \ B : \A v \in V : step[<<i, v>>] \in V
    BY <1>5, <1>6, <1>7
  <2>3. HasRecursiveInto(D, B, next, base, step, V)
    BY <1>2, <1>3, <2>1, <2>2, RecursionInto
  <2> QED BY <2>3 DEF HasRecursiveInto
<1>13. ASSUME NEW i \in D PROVE g[i] = Made(g, i)
  <2>1. g[i] = IF i \in B THEN base[i] ELSE step[<<i, g[next[i]]>>]
    BY <1>12 DEF RecursiveInto, Recursive
  <2>2. i \notin B => g[next[i]] \in V
    BY <1>12 DEF RecursiveInto
  <2>3. g[i] = IF i \in B THEN <<>> ELSE <<Item(i)>> \o g[next[i]]
    BY <1>4, <1>6, <2>1, <2>2
  <2> QED BY <1>11, <2>3
<1>14. g = Stride2From(s, g)
  <2>1. g = [i \in D |-> g[i]]
    BY <1>12 DEF RecursiveInto
  <2> QED BY <1>10, <1>13, <2>1
<1>15. from = Stride2From(s, from)
  BY <1>14
<1> HIDE DEF from
<1>16. \A i \in D : from[i] = Made(from, i)
  BY <1>10, <1>15
<1>17. \A i \in D : from[i] \in V
  <2>1. \A i \in D \cap B : from[i] \in V
    BY <1>7, <1>11, <1>16
  <2>2. \A i \in D \ B : from[next[i]] \in V => from[i] \in V
    BY <1>5, <1>7, <1>11, <1>16
  <2> QED BY <1>2, <2>1, <2>2, RecursionTyped
<1>18. CASE N < 2
  BY <1>1, <1>18
<1>19. CASE ~(N < 2)
  <2>1. Append(from[1], Parser!Last(s)) \in Seq(S)
    BY <1>9, <1>17, <1>19 DEF V
  <2> QED BY <1>1, <1>19, <2>1 DEF IsSequence
<1> QED BY <1>18, <1>19

Stride3From(s, f) ==
    [i \in 1..Len(s) + 1 |->
        IF i >= Len(s) - 1 THEN <<>>
        ELSE IF Parser!IsJoined3(s, i)
             THEN <<Parser!Token("symbol", <<"[", "*", "]">>)>> \o f[i + 3]
             ELSE <<s[i]>> \o f[i + 1]]

LEMMA Stride3Keeps ==
    ASSUME NEW s, IsSequence(s)
    PROVE  IsSequence(Parser!process_stride_3(s))
<1> DEFINE N == Len(s)
           D == 1..N + 1
           B == {i \in D : i >= N - 1}
           next == [i \in D |-> IF Parser!IsJoined3(s, i) THEN i + 3 ELSE i + 1]
           rank == [i \in D |-> N + 1 - i]
           base == [i \in D |-> <<>>]
           Item(i) == IF Parser!IsJoined3(s, i) THEN Parser!Token("symbol", <<"[", "*", "]">>) ELSE s[i]
           S == {Item(i) : i \in D} \cup {s[i] : i \in 1..N}
           V == Seq(S)
           step == [p \in D \X V |-> <<Item(p[1])>> \o p[2]]
           from == CHOOSE f : f = Stride3From(s, f)
<1>0. N \in Nat
  BY DEF IsSequence
<1>1. Parser!process_stride_3(s) = IF N < 3 THEN s ELSE from[1] \o SubSeq(s, N - 1, N)
  BY DEF Parser!process_stride_3, Stride3From
<1>2. IsRecursion(D, B, next, rank)
  BY <1>0 DEF IsRecursion
<1>3. N + 2 \in Nat /\ \A i \in D : rank[i] < N + 2
  BY <1>0
<1>4. \A i \in D : /\ i \in B <=> i >= Len(s) - 1
                   /\ base[i] = <<>>
                   /\ next[i] = IF Parser!IsJoined3(s, i) THEN i + 3 ELSE i + 1
  OBVIOUS
<1>5. \A i \in D : Item(i) \in S
  OBVIOUS
<1>6. \A i \in D, v \in V : step[<<i, v>>] = <<Item(i)>> \o v
  OBVIOUS
<1>7. <<>> \in V /\ \A a \in S, v \in V : <<a>> \o v \in V
  <2> HIDE DEF S
  <2> QED OBVIOUS
<1>9. ~(N < 3) => SubSeq(s, N - 1, N) \in Seq(S) /\ 1 \in D
  <2>1. s \in Seq(S)
    <3>1. \A i \in 1..N : s[i] \in S
      OBVIOUS
    <3> HIDE DEF S
    <3> QED BY <3>1 DEF IsSequence
  <2> HIDE DEF S
  <2> QED BY <1>0, <2>1
<1> DEFINE Made(f, i) == IF i >= Len(s) - 1 THEN <<>>
                          ELSE IF Parser!IsJoined3(s, i)
                               THEN <<Parser!Token("symbol", <<"[", "*", "]">>)>> \o f[i + 3]
                               ELSE <<s[i]>> \o f[i + 1]
<1>10. \A f : Stride3From(s, f) = [i \in D |-> Made(f, i)]
  BY DEF Stride3From
<1>11. ASSUME NEW f, NEW i \in D
       PROVE  Made(f, i) = IF i \in B THEN <<>> ELSE <<Item(i)>> \o f[next[i]]
  <2> HIDE DEF B, next
  <2> QED BY <1>4
<1> HIDE DEF D, B, next, rank, base, Item, S, V, step, Made
<1>12. PICK g : RecursiveInto(g, D, B, next, base, step, V)
  <2>1. \A i \in D \cap B : base[i] \in V
    BY <1>4, <1>7
  <2>2. \A i \in D \ B : \A v \in V : step[<<i, v>>] \in V
    BY <1>5, <1>6, <1>7
  <2>3. HasRecursiveInto(D, B, next, base, step, V)
    BY <1>2, <1>3, <2>1, <2>2, RecursionInto
  <2> QED BY <2>3 DEF HasRecursiveInto
<1>13. ASSUME NEW i \in D PROVE g[i] = Made(g, i)
  <2>1. g[i] = IF i \in B THEN base[i] ELSE step[<<i, g[next[i]]>>]
    BY <1>12 DEF RecursiveInto, Recursive
  <2>2. i \notin B => g[next[i]] \in V
    BY <1>12 DEF RecursiveInto
  <2>3. g[i] = IF i \in B THEN <<>> ELSE <<Item(i)>> \o g[next[i]]
    BY <1>4, <1>6, <2>1, <2>2
  <2> QED BY <1>11, <2>3
<1>14. g = Stride3From(s, g)
  <2>1. g = [i \in D |-> g[i]]
    BY <1>12 DEF RecursiveInto
  <2> QED BY <1>10, <1>13, <2>1
<1>15. from = Stride3From(s, from)
  BY <1>14
<1> HIDE DEF from
<1>16. \A i \in D : from[i] = Made(from, i)
  BY <1>10, <1>15
<1>17. \A i \in D : from[i] \in V
  <2>1. \A i \in D \cap B : from[i] \in V
    BY <1>7, <1>11, <1>16
  <2>2. \A i \in D \ B : from[next[i]] \in V => from[i] \in V
    BY <1>5, <1>7, <1>11, <1>16
  <2> QED BY <1>2, <2>1, <2>2, RecursionTyped
<1>18. CASE N < 3
  BY <1>1, <1>18
<1>19. CASE ~(N < 3)
  <2>1. from[1] \o SubSeq(s, N - 1, N) \in Seq(S)
    BY <1>9, <1>17, <1>19 DEF V
  <2> QED BY <1>1, <1>19, <2>1 DEF IsSequence
<1> QED BY <1>18, <1>19

FlattenFrom(seqs, f) == [i \in 1..Len(seqs) |-> IF i = 1 THEN seqs[i] ELSE f[i - 1] \o seqs[i]]

\* What Parser!FlattenSeq puts together are sequences of S.
LEMMA Flattens ==
    ASSUME NEW S, NEW seqs \in Seq(Seq(S))
    PROVE  Parser!FlattenSeq(seqs) \in Seq(S)
<1> DEFINE N == Len(seqs)
           D == 1..N
           B == {i \in D : i = 1}
           next == [i \in D |-> i - 1]
           rank == [i \in D |-> i]
           base == [i \in D |-> seqs[i]]
           V == Seq(S)
           step == [p \in D \X V |-> p[2] \o seqs[p[1]]]
           flatten == CHOOSE f : f = FlattenFrom(seqs, f)
<1>0. N \in Nat
  OBVIOUS
<1>1. Parser!FlattenSeq(seqs) = IF N = 0 THEN seqs ELSE flatten[N]
  BY DEF Parser!FlattenSeq, FlattenFrom
<1>2. IsRecursion(D, B, next, rank)
  BY <1>0 DEF IsRecursion
<1>3. N + 1 \in Nat /\ \A i \in D : rank[i] < N + 1
  BY <1>0
<1>4. \A i \in D : (i \in B <=> i = 1) /\ base[i] = seqs[i] /\ next[i] = i - 1
  OBVIOUS
<1>5. \A i \in D : seqs[i] \in V
  OBVIOUS
<1>6. \A i \in D, v \in V : step[<<i, v>>] = v \o seqs[i]
  OBVIOUS
<1>7. <<>> \in V /\ \A v, w \in V : v \o w \in V
  OBVIOUS
<1>9. N # 0 => N \in D
  BY <1>0
<1> DEFINE Made(f, i) == IF i = 1 THEN seqs[i] ELSE f[i - 1] \o seqs[i]
<1>10. \A f : FlattenFrom(seqs, f) = [i \in D |-> Made(f, i)]
  BY DEF FlattenFrom
<1>11. ASSUME NEW f, NEW i \in D
       PROVE  Made(f, i) = IF i \in B THEN seqs[i] ELSE f[next[i]] \o seqs[i]
  <2> HIDE DEF B, next
  <2> QED BY <1>4
<1> HIDE DEF D, B, next, rank, base, V, step, Made
<1>12. PICK g : RecursiveInto(g, D, B, next, base, step, V)
  <2>1. \A i \in D \cap B : base[i] \in V
    BY <1>4, <1>5
  <2>2. \A i \in D \ B : \A v \in V : step[<<i, v>>] \in V
    BY <1>5, <1>6, <1>7
  <2>3. HasRecursiveInto(D, B, next, base, step, V)
    BY <1>2, <1>3, <2>1, <2>2, RecursionInto
  <2> QED BY <2>3 DEF HasRecursiveInto
<1>13. ASSUME NEW i \in D PROVE g[i] = Made(g, i)
  <2>1. g[i] = IF i \in B THEN base[i] ELSE step[<<i, g[next[i]]>>]
    BY <1>12 DEF RecursiveInto, Recursive
  <2>2. i \notin B => g[next[i]] \in V
    BY <1>12 DEF RecursiveInto
  <2>3. g[i] = IF i \in B THEN seqs[i] ELSE g[next[i]] \o seqs[i]
    BY <1>4, <1>6, <2>1, <2>2
  <2> QED BY <1>11, <2>3
<1>14. g = FlattenFrom(seqs, g)
  <2>1. g = [i \in D |-> g[i]]
    BY <1>12 DEF RecursiveInto
  <2> QED BY <1>10, <1>13, <2>1
<1>15. flatten = FlattenFrom(seqs, flatten)
  BY <1>14
<1> HIDE DEF flatten
<1>16. \A i \in D : flatten[i] = Made(flatten, i)
  BY <1>10, <1>15
<1>17. \A i \in D : flatten[i] \in V
  <2>1. \A i \in D \cap B : flatten[i] \in V
    BY <1>5, <1>11, <1>16
  <2>2. ASSUME NEW i \in D \ B, flatten[next[i]] \in V PROVE flatten[i] \in V
    <3>1. flatten[i] = flatten[next[i]] \o seqs[i]
      BY <1>11, <1>16
    <3> QED BY <1>5, <1>7, <2>2, <3>1
  <2> QED BY <1>2, <2>1, <2>2, RecursionTyped
<1>18. CASE N = 0
  <2>1. seqs = <<>>
    BY <1>18
  <2> QED BY <1>1, <1>7, <1>18, <2>1 DEF V
<1>19. CASE N # 0
  BY <1>1, <1>9, <1>17, <1>19 DEF V
<1> QED BY <1>18, <1>19

LEMMA InsertedKeeps ==
    ASSUME NEW s, IsSequence(s)
    PROVE  IsSequence(Parser!Inserted(s))
<1> DEFINE Pieces == [i \in DOMAIN s |->
              IF i < Len(s) /\ Parser!ImpliesProduct(s[i], s[i + 1]) THEN <<s[i], Parser!Operator("*")>> ELSE <<s[i]>>]
           S == {s[i] : i \in DOMAIN s} \cup {Parser!Operator("*")}
<1>1. \A i \in DOMAIN s : Pieces[i] \in Seq(S)
  <2> SUFFICES ASSUME NEW i \in DOMAIN s PROVE Pieces[i] \in Seq(S)
    OBVIOUS
  <2>1. s[i] \in S /\ Parser!Operator("*") \in S
    OBVIOUS
  <2> HIDE DEF S
  <2> QED BY <2>1
<1>2. Len(s) \in Nat /\ DOMAIN s = 1..Len(s)
  BY DEF IsSequence
<1> HIDE DEF S
<1>3. Pieces \in Seq(Seq(S))
  <2>1. Pieces \in [1..Len(s) -> Seq(S)]
    BY <1>1, <1>2
  <2> QED BY <1>2, <2>1
<1>4. Parser!Inserted(s) = Parser!FlattenSeq(Pieces)
  BY DEF Parser!Inserted
<1> HIDE DEF Pieces
<1> QED BY <1>3, <1>4, Flattens DEF IsSequence

LEMMA ReplacedKeeps ==
    ASSUME NEW s, IsSequence(s)
    PROVE  IsSequence(Parser!Replaced(s)) /\ Len(Parser!Replaced(s)) = Len(s)
<1>1. Len(s) \in Nat /\ DOMAIN s = 1..Len(s)
  BY DEF IsSequence
<1> DEFINE S == {Parser!Replaced(s)[i] : i \in 1..Len(s)}
<1>2. DOMAIN Parser!Replaced(s) = 1..Len(s) /\ Parser!Replaced(s) = [i \in 1..Len(s) |-> Parser!Replaced(s)[i]]
  BY <1>1 DEF Parser!Replaced
<1>3. \A i \in 1..Len(s) : Parser!Replaced(s)[i] \in S
  OBVIOUS
<1> HIDE DEF S
<1>4. Parser!Replaced(s) \in [1..Len(s) -> S]
  BY <1>2, <1>3
<1>5. Parser!Replaced(s) \in Seq(S)
  BY <1>1, <1>4
<1> QED BY <1>1, <1>2, <1>5 DEF IsSequence

-----------------------------------------------------------------------------
(* The recursion of the parser *)

IsFrame(f) == DOMAIN f = {"fn", "precedence", "at", "left", "right", "op", "depth"}

\* The counter in the frames, and what it says of the frames below.  A frame of ?: stands
\* on one that is counted.
Height(s, i) == Len(s) - i + 1

Counted(s) ==
    \A i \in 1..Len(s) :
        /\ IsFrame(s[i])
        /\ s[i].depth \in 1..max_stack_depth
        /\ Height(s, i) <= 2 * s[i].depth - (IF s[i].fn = "ternary" THEN 0 ELSE 1)

StackInv == IsSequence(stack) /\ Counted(stack)

\* A frame goes on.
Same(f, g) == IsFrame(g) /\ g.fn = f.fn /\ g.depth = f.depth

LEMMA FrameForms ==
    \A fn, precedence, left :
        LET f == Parser!Frame(fn, precedence, left) IN IsFrame(f) /\ f.fn = fn
BY DEF IsFrame, Parser!Frame

LEMMA FrameChanged ==
    ASSUME NEW f, IsFrame(f), NEW at, NEW value
    PROVE  /\ Same(f, [f EXCEPT !.at = at])
           /\ Same(f, [f EXCEPT !.at = at, !.left = value])
           /\ Same(f, [f EXCEPT !.at = at, !.right = value])
           /\ Same(f, [f EXCEPT !.at = at, !.op = value])
<1>1. Same(f, [f EXCEPT !.at = at])
  BY DEF Same, IsFrame
<1>2. Same(f, [f EXCEPT !.at = at, !.left = value])
  BY DEF Same, IsFrame
<1>3. Same(f, [f EXCEPT !.at = at, !.right = value])
  BY DEF Same, IsFrame
<1>4. Same(f, [f EXCEPT !.at = at, !.op = value])
  BY DEF Same, IsFrame
<1> QED BY <1>1, <1>2, <1>3, <1>4

LEMMA Pushed ==
    ASSUME NEW s, IsSequence(s), s # <<>>, NEW a, NEW b
    PROVE  /\ IsSequence(<<a, b>> \o Tail(s)) /\ Len(<<a, b>> \o Tail(s)) = Len(s) + 1
           /\ (<<a, b>> \o Tail(s))[1] = a /\ (<<a, b>> \o Tail(s))[2] = b
           /\ \A i \in 3..Len(s) + 1 : (<<a, b>> \o Tail(s))[i] = s[i - 1]
<1>1. PICK S : s \in Seq(S)
  BY DEF IsSequence
<1>2. <<a, b>> \o Tail(s) \in Seq(S \cup {a, b})
  BY <1>1
<1> QED BY <1>1, <1>2 DEF IsSequence

LEMMA Changed ==
    ASSUME NEW s, IsSequence(s), s # <<>>, NEW a
    PROVE  /\ IsSequence(<<a>> \o Tail(s)) /\ Len(<<a>> \o Tail(s)) = Len(s)
           /\ (<<a>> \o Tail(s))[1] = a
           /\ \A i \in 2..Len(s) : (<<a>> \o Tail(s))[i] = s[i]
<1>1. PICK S : s \in Seq(S)
  BY DEF IsSequence
<1>2. <<a>> \o Tail(s) \in Seq(S \cup {a})
  BY <1>1
<1> QED BY <1>1, <1>2 DEF IsSequence

LEMMA Dropped ==
    ASSUME NEW s, IsSequence(s), s # <<>>
    PROVE  /\ IsSequence(Tail(s)) /\ Len(Tail(s)) = Len(s) - 1
           /\ \A i \in 1..Len(s) - 1 : Tail(s)[i] = s[i + 1]
BY DEF IsSequence

\* What a step of the parser does to its stack.
Calls(f, callee) ==
    /\ Same(stack[1], f)
    /\ IsFrame(callee)
    /\ IF callee.fn = "ternary" THEN stack[1].fn # "ternary" /\ callee.depth = stack[1].depth
       ELSE callee.depth = stack[1].depth + 1 /\ callee.depth <= max_stack_depth
    /\ stack' = <<callee, f>> \o Tail(stack)

Begun == \E f : IsFrame(f) /\ f.depth = 1 /\ 1 <= max_stack_depth /\ f.fn = "expression" /\ stack' = <<f>>

StackStep ==
    \/ stack' = stack
    \/ stack' = <<>>
    \/ Begun
    \/ stack # <<>> /\ stack' = Tail(stack)
    \/ stack # <<>> /\ \E f : Same(stack[1], f) /\ stack' = <<f>> \o Tail(stack)
    \/ stack # <<>> /\ \E f, callee : Calls(f, callee)

LEMMA TopFrame ==
    ASSUME StackInv, stack # <<>>
    PROVE  Parser!Top = stack[1] /\ IsFrame(stack[1]) /\ Parser!stack_depth = stack[1].depth
           /\ stack[1].depth \in Nat
<1>1. Parser!Top = stack[1] /\ 1 \in 1..Len(stack)
  BY DEF Parser!Top, StackInv, IsSequence
<1> QED BY <1>1, DepthAssumption DEF StackInv, Counted, Parser!stack_depth

LEMMA Called ==
    ASSUME StackInv, stack # <<>>, NEW f, Same(stack[1], f), NEW fn, NEW precedence, NEW left,
           fn = "ternary" => stack[1].fn # "ternary",
           Parser!Call(f, Parser!Frame(fn, precedence, left))
    PROVE  StackStep
<1> DEFINE callee == Parser!Frame(fn, precedence, left)
           entered == Parser!stack_limit_handler(callee)
<1>1. IsFrame(callee) /\ callee.fn = fn
  BY FrameForms
<1> HIDE DEF callee
<1>2. IsFrame(entered) /\ entered.fn = fn
      /\ entered.depth = IF fn = "ternary" THEN stack[1].depth ELSE stack[1].depth + 1
  BY <1>1, TopFrame DEF IsFrame, Parser!stack_limit_handler
<1> HIDE DEF entered
<1>3. CASE fn # "ternary" /\ Parser!stack_depth + 1 > max_stack_depth
  BY <1>1, <1>3 DEF Parser!Call, Parser!Fail, StackStep, callee
<1>4. CASE ~(fn # "ternary" /\ Parser!stack_depth + 1 > max_stack_depth)
  <2>1. stack' = <<entered, f>> \o Tail(stack)
    BY <1>1, <1>4 DEF Parser!Call, callee, entered
  <2>2. fn # "ternary" => stack[1].depth + 1 <= max_stack_depth
    BY <1>4, TopFrame, DepthAssumption
  <2>3. Calls(f, entered)
    BY <1>2, <2>1, <2>2 DEF Calls
  <2> QED BY <2>3 DEF StackStep
<1> QED BY <1>3, <1>4

\* Every step keeps the frames counted.
LEMMA StackStepInv ==
    ASSUME StackInv, StackStep
    PROVE  StackInv'
<1>0. Len(stack) \in Nat
  BY DEF StackInv, IsSequence
<1>1. CASE stack' = stack
  BY <1>1 DEF StackInv, IsSequence, Counted, Height, IsFrame
<1>2. CASE stack' = <<>>
  <2>1. <<>> \in Seq({}) /\ Len(<<>>) = 0
    OBVIOUS
  <2> QED BY <1>2, <2>1 DEF StackInv, IsSequence, Counted
<1>3. CASE Begun
  <2>1. PICK f : IsFrame(f) /\ f.depth = 1 /\ 1 <= max_stack_depth /\ f.fn = "expression" /\ stack' = <<f>>
    BY <1>3 DEF Begun
  <2>2. stack' \in Seq({f}) /\ Len(stack') = 1 /\ stack'[1] = f
    BY <2>1
  <2>3. IsSequence(stack')
    BY <2>2 DEF IsSequence
  <2>4. 1 \in 1..max_stack_depth /\ Height(stack', 1) = 1
    BY <2>1, <2>2, DepthAssumption DEF Height
  <2>5. \A i \in 1..Len(stack') : i = 1
    BY <2>2
  <2>6. Counted(stack')
    <3>1. 1 <= 2 * f.depth - (IF f.fn = "ternary" THEN 0 ELSE 1)
      BY <2>1
    <3> QED BY <2>1, <2>2, <2>4, <2>5, <3>1 DEF Counted
  <2> QED BY <2>3, <2>6 DEF StackInv, IsSequence, Counted, Height, IsFrame
<1>4. CASE stack # <<>> /\ stack' = Tail(stack)
  <2>1. /\ IsSequence(stack') /\ Len(stack') = Len(stack) - 1
        /\ \A i \in 1..Len(stack') : i + 1 \in 1..Len(stack) /\ stack'[i] = stack[i + 1]
    BY <1>0, <1>4, Dropped DEF StackInv
  <2>2. \A i \in 1..Len(stack') : Height(stack', i) = Height(stack, i + 1)
    BY <1>0, <2>1 DEF Height
  <2>3. Counted(stack')
    BY <2>1, <2>2 DEF StackInv, Counted
  <2> QED BY <2>1, <2>3 DEF StackInv, IsSequence, Counted, Height, IsFrame
<1>5. CASE stack # <<>> /\ \E f : Same(stack[1], f) /\ stack' = <<f>> \o Tail(stack)
  <2>1. PICK f : Same(stack[1], f) /\ stack' = <<f>> \o Tail(stack)
    BY <1>5
  <2>2. /\ IsSequence(stack') /\ Len(stack') = Len(stack) /\ stack'[1] = f
        /\ \A i \in 2..Len(stack') : stack'[i] = stack[i]
    BY <1>5, <2>1, Changed DEF StackInv
  <2>3. \A i \in 1..Len(stack') : Height(stack', i) = Height(stack, i)
    BY <2>2 DEF Height
  <2>4. \A i \in 1..Len(stack') : IsFrame(stack'[i]) /\ stack'[i].fn = stack[i].fn /\ stack'[i].depth = stack[i].depth
    BY <1>0, <2>1, <2>2 DEF StackInv, Counted, Same
  <2>5. Counted(stack')
    BY <2>2, <2>3, <2>4 DEF StackInv, Counted
  <2> QED BY <2>2, <2>5 DEF StackInv, IsSequence, Counted, Height, IsFrame
<1>6. CASE stack # <<>> /\ \E f, callee : Calls(f, callee)
  <2>1. PICK f, callee : Calls(f, callee)
    BY <1>6
  <2>2. /\ IsSequence(stack') /\ Len(stack') = Len(stack) + 1 /\ stack'[1] = callee /\ stack'[2] = f
        /\ \A i \in 3..Len(stack') : stack'[i] = stack[i - 1]
    BY <1>6, <2>1, Pushed DEF StackInv, Calls
  <2>3. 1 \in 1..Len(stack) /\ Height(stack, 1) = Len(stack)
    BY <1>0, <1>6 DEF StackInv, IsSequence, Height
  <2>4. \A i \in 2..Len(stack') : i - 1 \in 1..Len(stack) /\ Height(stack', i) = Height(stack, i - 1)
    BY <1>0, <2>2 DEF Height
  <2>5. \A i \in 2..Len(stack') : /\ IsFrame(stack'[i]) /\ stack'[i].fn = stack[i - 1].fn
                                  /\ stack'[i].depth = stack[i - 1].depth
    BY <1>0, <2>1, <2>2, <2>4 DEF StackInv, Counted, Calls, Same
  <2>6. /\ IsFrame(callee) /\ callee.depth \in 1..max_stack_depth
        /\ Height(stack', 1) <= 2 * callee.depth - (IF callee.fn = "ternary" THEN 0 ELSE 1)
    <3>1. /\ stack[1].depth \in 1..max_stack_depth
          /\ Len(stack) <= 2 * stack[1].depth - (IF stack[1].fn = "ternary" THEN 0 ELSE 1)
      BY <2>3 DEF StackInv, Counted
    <3>2. Height(stack', 1) = Len(stack) + 1
      BY <1>0, <2>2 DEF Height
    <3>3. CASE callee.fn = "ternary"
      <4>1. callee.depth = stack[1].depth /\ stack[1].fn # "ternary"
        BY <2>1, <3>3 DEF Calls
      <4> QED BY <1>0, <2>1, <3>1, <3>2, <3>3, <4>1, DepthAssumption DEF Calls
    <3>4. CASE callee.fn # "ternary"
      <4>1. callee.depth = stack[1].depth + 1 /\ callee.depth <= max_stack_depth
        BY <2>1, <3>4 DEF Calls
      <4>2. Len(stack) <= 2 * stack[1].depth
        BY <1>0, <3>1, DepthAssumption
      <4> QED BY <1>0, <2>1, <3>1, <3>2, <3>4, <4>1, <4>2, DepthAssumption DEF Calls
    <3> QED BY <3>3, <3>4
  <2>7. Counted(stack')
    <3> SUFFICES ASSUME NEW i \in 1..Len(stack')
                 PROVE  /\ IsFrame(stack'[i])
                        /\ stack'[i].depth \in 1..max_stack_depth
                        /\ Height(stack', i) <= 2 * stack'[i].depth - (IF stack'[i].fn = "ternary" THEN 0 ELSE 1)
      BY DEF Counted
    <3>1. CASE i = 1
      BY <2>2, <2>6, <3>1
    <3>2. CASE i # 1
      <4>1. i \in 2..Len(stack')
        BY <1>0, <2>2, <3>2
      <4> QED BY <2>4, <2>5, <4>1 DEF StackInv, Counted
    <3> QED BY <3>1, <3>2
  <2> QED BY <2>2, <2>7 DEF StackInv, IsSequence, Counted, Height, IsFrame
<1> QED BY <1>1, <1>2, <1>3, <1>4, <1>5, <1>6 DEF StackStep

LEMMA StepsOnStack ==
    ASSUME StackInv, Parser!Next
    PROVE  StackStep
<1> USE DEF Parser!parse_expression, Parser!parse_branch, Parser!parse_ternary_conditional_statement
<1>1. CASE \/ Parser!compile_empty \/ Parser!run_inserters \/ Parser!run_joiners \/ Parser!run_modifiers
           \/ Parser!run_scanners \/ Parser!parse_corpus_end
  BY <1>1 DEF Parser!compile_empty, Parser!run_inserters, Parser!run_joiners, Parser!run_modifiers,
              Parser!run_scanners, Parser!parse_corpus_end, Parser!Pass, StackStep
<1>2. CASE Parser!parse_corpus_begin
  <2> DEFINE f == Parser!stack_limit_handler(Parser!Frame("expression", 0, Parser!NoNode))
  <2>1. stack = <<>> /\ Parser!stack_depth = 0
    BY <1>2 DEF Parser!parse_corpus_begin, Parser!stack_depth
  <2>2. IsFrame(f) /\ f.fn = "expression" /\ f.depth = 1
    BY <2>1, FrameForms DEF Parser!stack_limit_handler, IsFrame
  <2>3. CASE 1 > max_stack_depth
    BY <1>2, <2>1, <2>3 DEF Parser!parse_corpus_begin, Parser!Fail, StackStep
  <2>4. CASE ~(1 > max_stack_depth)
    <3>1. stack' = <<f>>
      BY <1>2, <2>1, <2>4 DEF Parser!parse_corpus_begin
    <3>2. 1 <= max_stack_depth
      BY <2>4, DepthAssumption
    <3> HIDE DEF f
    <3> QED BY <2>2, <3>1, <3>2 DEF Begun, StackStep
  <2> QED BY <2>3, <2>4
<1>3. ASSUME stack # <<>> PROVE StackStep
  <2> USE <1>3
  <2>0. Parser!Top = stack[1] /\ IsFrame(stack[1])
    BY TopFrame
  <2>1. ASSUME NEW value, Parser!Return(value) PROVE StackStep
    BY <2>1 DEF Parser!Return, StackStep
  <2>2. ASSUME Parser!Fail PROVE StackStep
    BY <2>2 DEF Parser!Fail, StackStep
  <2>3. ASSUME NEW f, Same(stack[1], f), Parser!Stay(f) PROVE StackStep
    BY <2>3 DEF Parser!Stay, StackStep
  <2>4. ASSUME NEW at, NEW value, Parser!Stay([stack[1] EXCEPT !.at = at, !.left = value]) PROVE StackStep
    BY <2>0, <2>3, <2>4, FrameChanged
  <2>op. ASSUME NEW at, NEW op, NEW precedence,
                Parser!Call([stack[1] EXCEPT !.at = at, !.op = op],
                            Parser!Frame("expression", precedence, Parser!NoNode))
         PROVE  StackStep
    BY <1>3, <2>0, <2>op, Called, FrameChanged
  <2>5. CASE Parser!expression_begin
    BY <1>3, <2>0, <2>5, Called, FrameChanged DEF Parser!expression_begin
  <2>6. CASE Parser!expression_branch
    BY <2>0, <2>1, <2>4, <2>6 DEF Parser!expression_branch
  <2>7. CASE Parser!expression_operator
    BY <1>3, <2>0, <2>7, Called, FrameChanged DEF Parser!expression_operator
  <2>8. CASE Parser!expression_end
    BY <2>1, <2>8 DEF Parser!expression_end
  <2>9. CASE Parser!expression_combine
    <3>1. stack[1].fn = "expression"
      BY <2>0, <2>9 DEF Parser!expression_combine, Parser!Resumes, Parser!In
    <3>2. ASSUME NEW new_expression,
                 Parser!Call([stack[1] EXCEPT !.at = "ternary"], Parser!Frame("ternary", 0, new_expression))
          PROVE  StackStep
      BY <1>3, <2>0, <3>1, <3>2, Called, FrameChanged
    <3> QED BY <2>0, <2>2, <2>4, <2>9, <3>2 DEF Parser!expression_combine
  <2>10. CASE Parser!expression_ternary
    BY <2>0, <2>4, <2>10 DEF Parser!expression_ternary
  <2>11. CASE Parser!branch_number \/ Parser!branch_symbol
    BY <2>0, <2>4, <2>11 DEF Parser!branch_number, Parser!branch_symbol, Parser!BranchEnds
  <2>12. CASE Parser!branch_bracket
    BY <2>0, <2>12, <2>op DEF Parser!branch_bracket
  <2>13. CASE Parser!branch_bracket_end
    BY <2>0, <2>2, <2>4, <2>13 DEF Parser!branch_bracket_end, Parser!BranchEnds
  <2>14. CASE Parser!branch_sign
    BY <2>0, <2>14, <2>op DEF Parser!branch_sign
  <2>15. CASE Parser!branch_signed
    BY <2>0, <2>4, <2>15 DEF Parser!branch_signed, Parser!BranchEnds
  <2>16. CASE Parser!branch_error
    BY <2>2, <2>16 DEF Parser!branch_error
  <2>17. CASE Parser!branch_end
    <3>1. stack[1].fn = "branch"
      BY <2>0, <2>17 DEF Parser!branch_end, Parser!In
    <3>2. ASSUME Parser!Call([stack[1] EXCEPT !.at = "ternary"], Parser!Frame("ternary", 0, stack[1].left))
          PROVE  StackStep
      BY <1>3, <2>0, <3>1, <3>2, Called, FrameChanged
    <3> QED BY <2>0, <2>1, <2>17, <3>2 DEF Parser!branch_end
  <2>18. CASE Parser!branch_ternary
    BY <2>1, <2>18 DEF Parser!branch_ternary
  <2>19. CASE Parser!ternary_begin
    BY <1>3, <2>0, <2>19, Called, FrameChanged DEF Parser!ternary_begin
  <2>20. CASE Parser!ternary_consequent
    <3>1. ASSUME Parser!Call([stack[1] EXCEPT !.at = "alternative", !.right = ret],
                             Parser!Frame("expression", 0, Parser!NoNode))
          PROVE  StackStep
      BY <1>3, <2>0, <3>1, Called, FrameChanged
    <3> QED BY <2>0, <2>2, <2>20, <3>1 DEF Parser!ternary_consequent
  <2>21. CASE Parser!ternary_alternative
    BY <2>1, <2>21 DEF Parser!ternary_alternative
  <2> QED BY Parser!Next, <1>1, <1>2, <2>5, <2>6, <2>7, <2>8, <2>9, <2>10, <2>11, <2>12, <2>13, <2>14, <2>15,
             <2>16, <2>17, <2>18, <2>19, <2>20, <2>21 DEF Parser!Next
<1>4. CASE stack = <<>>
  <2>1. \/ Parser!compile_empty \/ Parser!run_inserters \/ Parser!run_joiners \/ Parser!run_modifiers
        \/ Parser!run_scanners \/ Parser!parse_corpus_end \/ Parser!parse_corpus_begin
    BY <1>4, Parser!Next
       DEF Parser!Next, Parser!expression_begin, Parser!expression_branch, Parser!expression_operator, Parser!expression_end,
           Parser!expression_combine, Parser!expression_ternary, Parser!branch_number, Parser!branch_symbol,
           Parser!branch_bracket, Parser!branch_bracket_end, Parser!branch_sign, Parser!branch_signed,
           Parser!branch_error, Parser!branch_end, Parser!branch_ternary, Parser!ternary_begin,
           Parser!ternary_consequent, Parser!ternary_alternative, Parser!Begins, Parser!Resumes, Parser!In
  <2> QED BY <1>1, <1>2, <2>1
<1> QED BY <1>3, <1>4

LEMMA StackBounded ==
    ASSUME NEW s, IsSequence(s), Counted(s)
    PROVE  Len(s) \in Nat /\ Len(s) <= 2 * max_stack_depth /\ (s # <<>> => Len(s) >= 1)
<1>1. Len(s) \in Nat /\ (s # <<>> => Len(s) >= 1)
  BY DEF IsSequence
<1>2. CASE Len(s) = 0
  BY <1>1, <1>2, DepthAssumption
<1>3. CASE Len(s) # 0
  <2>1. 1 \in 1..Len(s) /\ Height(s, 1) = Len(s)
    BY <1>1, <1>3 DEF Height
  <2>2. s[1].depth \in 1..max_stack_depth /\ Len(s) <= 2 * s[1].depth
    BY <1>1, <2>1, DepthAssumption DEF Counted
  <2> QED BY <1>1, <2>2, DepthAssumption
<1> QED BY <1>2, <1>3

\* However an expression nests, the recursion of the parser stays within twice the limit.
THEOREM RecursionIsBounded == EvaluateSpec => []RecursionBounded
<1>1. EvaluateInit => StackInv
  <2>1. <<>> \in Seq({}) /\ Len(<<>>) = 0
    OBVIOUS
  <2> QED BY <2>1 DEF EvaluateInit, Parser!Init, StackInv, IsSequence, Counted
<1>2. StackInv /\ [EvaluateNext]_evaluateVars => StackInv'
  <2> SUFFICES ASSUME StackInv, [EvaluateNext]_evaluateVars PROVE StackInv'
    OBVIOUS
  <2>1. CASE parse
    BY <2>1, StepsOnStack, StackStepInv DEF parse
  <2>2. CASE add_constant \/ lex \/ compile_fails \/ compile_lexed \/ UNCHANGED evaluateVars
    <3>1. stack' = stack
      BY <2>2 DEF add_constant, lex, compile_fails, compile_lexed, evaluateVars, parser_,
                  Parser!Start, Parser!GiveUp
    <3> QED BY <3>1, StackStepInv DEF StackStep
  <2> QED BY <2>1, <2>2 DEF EvaluateNext
<1>3. StackInv => RecursionBounded
  BY StackBounded DEF RecursionBounded, StackInv
<1> QED BY <1>1, <1>2, <1>3, PTL DEF EvaluateSpec

-----------------------------------------------------------------------------
(* What the parser has still to read *)

InPlace(s, itr) == IsSequence(s) /\ itr \in 2..Len(s) + 2

Rest(s, itr) == 2 * (Len(s) + 2 - itr) + (IF Parser!TokenAt(s, itr - 1).type = "*" THEN 0 ELSE 1)

LEMMA UnreadRest == Unread = Rest(tokens, token_itr_) /\ Unread' = Rest(tokens', token_itr_')
BY DEF Unread, Rest, Parser!token_is, Parser!current_token

LEMMA RestNat ==
    ASSUME NEW s, NEW itr, InPlace(s, itr)
    PROVE  Rest(s, itr) \in Nat /\ Rest(s, itr) <= 2 * (Len(s) + 2 - itr) + 1
BY DEF Rest, InPlace, IsSequence

LEMMA RestLeast ==
    ASSUME NEW s, NEW itr, InPlace(s, itr)
    PROVE  Rest(s, itr) >= 2 * (Len(s) + 2 - itr)
BY DEF Rest, InPlace, IsSequence

LEMMA SequenceDomain ==
    ASSUME NEW s, IsSequence(s)
    PROVE  Len(s) \in Nat /\ DOMAIN s = 1..Len(s)
BY DEF IsSequence

\* The token at a place is none that stands for the end.
IsReal(s, i) == Parser!TokenAt(s, i).type # ";"

LEMMA RealToken ==
    ASSUME NEW s, NEW i, IsReal(s, i)
    PROVE  i \in DOMAIN s
BY DEF IsReal, Parser!TokenAt, Parser!Operator, Parser!Token

LEMMA GoesOn ==
    ASSUME NEW s, NEW itr, InPlace(s, itr), IsReal(s, itr - 1)
    PROVE  /\ Parser!After(s, itr) = itr + 1 /\ itr \in 2..Len(s) + 1
           /\ InPlace(s, itr + 1) /\ Rest(s, itr + 1) < Rest(s, itr)
<1>1. Len(s) \in Nat /\ itr - 1 \in 1..Len(s)
  BY RealToken, SequenceDomain DEF InPlace
<1>2. itr \in 2..Len(s) + 1 /\ InPlace(s, itr + 1)
  BY <1>1 DEF InPlace
<1>3. Rest(s, itr + 1) <= 2 * (Len(s) + 2 - (itr + 1)) + 1 /\ Rest(s, itr + 1) \in Nat
  BY <1>2, RestNat
<1>4. Rest(s, itr) >= 2 * (Len(s) + 2 - itr) /\ Rest(s, itr) \in Nat
  BY RestNat, RestLeast
<1> QED BY <1>1, <1>2, <1>3, <1>4 DEF Parser!After

LEMMA Inserts ==
    ASSUME NEW s, IsSequence(s), NEW i \in 1..Len(s), NEW e
    PROVE  LET t == Parser!InsertAt(s, i, e) IN IsSequence(t) /\ Len(t) = Len(s) + 1 /\ t[i] = e
<1>1. PICK S : s \in Seq(S)
  BY DEF IsSequence
<1>2. Len(s) \in Nat
  BY <1>1
<1> DEFINE u == SubSeq(s, 1, i - 1)
           v == SubSeq(s, i, Len(s))
<1>3. u \in Seq(S \cup {e}) /\ Len(u) = i - 1
  BY <1>1, <1>2
<1>4. v \in Seq(S \cup {e}) /\ Len(v) = Len(s) - i + 1
  BY <1>1, <1>2
<1>5. Parser!InsertAt(s, i, e) = u \o <<e>> \o v
  BY DEF Parser!InsertAt
<1> HIDE DEF u, v
<1>6. <<e>> \in Seq(S \cup {e}) /\ u \o <<e>> \in Seq(S \cup {e}) /\ Len(u \o <<e>>) = i /\ (u \o <<e>>)[i] = e
  BY <1>2, <1>3
<1>7. /\ u \o <<e>> \o v \in Seq(S \cup {e}) /\ Len(u \o <<e>> \o v) = Len(s) + 1
      /\ (u \o <<e>> \o v)[i] = e
  BY <1>2, <1>4, <1>6
<1> QED BY <1>5, <1>7 DEF IsSequence

\* A "*" in the place of the next token: the tokens to read are no more, and the first of
\* them counts half.
LEMMA Product ==
    ASSUME NEW s, IsSequence(s), NEW i \in 1..Len(s)
    PROVE  LET t == Parser!insert_front(s, i, "*") IN
           /\ IsSequence(t) /\ Len(t) = Len(s) + 1 /\ Parser!After(t, i) = i + 1
           /\ Rest(t, i + 1) = 2 * (Len(s) + 2 - i)
<1> DEFINE e == Parser!Token("*", s[i].value)
           t == Parser!insert_front(s, i, "*")
<1>1. Len(s) \in Nat /\ DOMAIN s = 1..Len(s)
  BY DEF IsSequence
<1>2. t = Parser!InsertAt(s, i, e)
  BY <1>1 DEF Parser!insert_front
<1>3. e.type = "*"
  BY DEF Parser!Token
<1> HIDE DEF e, t
<1>4. IsSequence(t) /\ Len(t) = Len(s) + 1 /\ t[i] = e
  BY <1>2, Inserts
<1>5. DOMAIN t = 1..Len(t)
  BY <1>4 DEF IsSequence
<1>6. Parser!TokenAt(t, (i + 1) - 1) = e
  <2>1. (i + 1) - 1 = i /\ i \in DOMAIN t
    BY <1>1, <1>4, <1>5
  <2> QED BY <1>4, <2>1 DEF Parser!TokenAt
<1> QED BY <1>1, <1>3, <1>4, <1>6 DEF Parser!After, Rest, t

\* A symbol is read, and a product that it begins.
StartsBracket(s, i) == Parser!TokenAt(s, i).type \in Parser!LeftBrackets

LEMMA SymbolRead ==
    ASSUME NEW s, NEW itr, InPlace(s, itr), IsReal(s, itr - 1), Parser!TokenAt(s, itr - 1).type # "*",
           NEW times, times = IF StartsBracket(s, itr) THEN Parser!insert_front(s, itr, "*") ELSE s
    PROVE  LET next == Parser!After(times, itr) IN
           InPlace(times, next) /\ Rest(times, next) < Rest(s, itr)
<1>0. Rest(s, itr) = 2 * (Len(s) + 2 - itr) + 1
  BY DEF Rest
<1>1. Len(s) \in Nat /\ DOMAIN s = 1..Len(s) /\ itr \in 2..Len(s) + 2
  BY SequenceDomain DEF InPlace
<1>2. CASE StartsBracket(s, itr)
  <2>1. itr \in 1..Len(s)
    <3>1. IsReal(s, itr)
      BY <1>2 DEF StartsBracket, IsReal, Parser!LeftBrackets
    <3> QED BY <1>1, <3>1, RealToken
  <2>2. /\ IsSequence(times) /\ Len(times) = Len(s) + 1 /\ Parser!After(times, itr) = itr + 1
        /\ Rest(times, itr + 1) = 2 * (Len(s) + 2 - itr)
    BY <1>2, <2>1, Product DEF InPlace
  <2>4. itr + 1 \in 2..Len(times) + 2
    BY <1>1, <2>1, <2>2
  <2> QED BY <1>0, <1>1, <2>1, <2>2, <2>4 DEF InPlace
<1>3. CASE ~StartsBracket(s, itr)
  BY <1>3, GoesOn
<1> QED BY <1>2, <1>3

\* Before ")" a ";" is skipped.
LEMMA Skips ==
    ASSUME NEW s, NEW itr, InPlace(s, itr), NEW closing, closing \in {itr, Parser!After(s, itr)}
    PROVE  InPlace(s, closing) /\ Rest(s, closing) <= Rest(s, itr)
<1>1. Len(s) \in Nat /\ itr \in 2..Len(s) + 2
  BY SequenceDomain DEF InPlace
<1>2. CASE closing = itr
  BY <1>2, RestNat
<1>3. CASE closing = itr + 1 /\ itr <= Len(s) + 1
  <2>1. InPlace(s, closing)
    BY <1>1, <1>3 DEF InPlace
  <2>2. Rest(s, closing) \in Nat /\ Rest(s, closing) <= 2 * (Len(s) + 2 - (itr + 1)) + 1
    BY <1>3, <2>1, RestNat
  <2>3. Rest(s, itr) \in Nat /\ Rest(s, itr) >= 2 * (Len(s) + 2 - itr)
    BY RestNat, RestLeast
  <2> QED BY <1>1, <2>1, <2>2, <2>3
<1> QED BY <1>1, <1>2, <1>3 DEF Parser!After

\* A closing bracket is read, and a product with a bracket behind it, of which a copy is
\* put in.
LEMMA BracketRead ==
    ASSUME NEW s, NEW closing, InPlace(s, closing), Parser!TokenAt(s, closing - 1).type \in Parser!RightBrackets,
           NEW behind, behind = Parser!After(s, closing),
           NEW type, type = Parser!TokenAt(s, behind - 1).type,
           NEW times, times = Parser!insert_front(Parser!insert_front(s, behind, type), behind, "*")
    PROVE  /\ InPlace(s, behind) /\ Rest(s, behind) < Rest(s, closing)
           /\ StartsBracket(s, behind - 1) =>
                 LET next == Parser!After(times, behind) IN
                 InPlace(times, next) /\ Rest(times, next) < Rest(s, closing)
<1>0. IsReal(s, closing - 1) /\ Rest(s, closing) = 2 * (Len(s) + 2 - closing) + 1
  BY DEF IsReal, Rest, Parser!RightBrackets
<1>1. Len(s) \in Nat /\ DOMAIN s = 1..Len(s)
  BY SequenceDomain DEF InPlace
<1>2. behind = closing + 1 /\ closing \in 2..Len(s) + 1 /\ InPlace(s, behind) /\ Rest(s, behind) < Rest(s, closing)
  BY <1>0, GoesOn
<1>3. ASSUME StartsBracket(s, behind - 1), behind \in 1..Len(s)
      PROVE  LET next == Parser!After(times, behind) IN
             InPlace(times, next) /\ Rest(times, next) < Rest(s, closing)
  <2> DEFINE s1 == Parser!insert_front(s, behind, type)
  <2>1. s1 = Parser!InsertAt(s, behind, Parser!Token(type, s[behind].value))
    BY <1>1, <1>3 DEF Parser!insert_front
  <2>2. IsSequence(s1) /\ Len(s1) = Len(s) + 1
    BY <1>3, <2>1, Inserts DEF InPlace
  <2> HIDE DEF s1
  <2>3. behind \in 1..Len(s1)
    BY <1>1, <1>3, <2>2
  <2>4. times = Parser!insert_front(s1, behind, "*")
    BY DEF s1
  <2>5. /\ IsSequence(times) /\ Len(times) = Len(s1) + 1 /\ Parser!After(times, behind) = behind + 1
        /\ Rest(times, behind + 1) = 2 * (Len(s1) + 2 - behind)
    BY <2>2, <2>3, <2>4, Product
  <2>6. Rest(times, behind + 1) < Rest(s, closing)
    BY <1>0, <1>1, <1>2, <2>2, <2>5
  <2>7. behind + 1 \in 2..Len(times) + 2
    BY <1>1, <1>2, <2>2, <2>5
  <2> QED BY <2>5, <2>6, <2>7 DEF InPlace
<1>4. ASSUME StartsBracket(s, behind - 1), behind \notin 1..Len(s)
      PROVE  LET next == Parser!After(times, behind) IN
             InPlace(times, next) /\ Rest(times, next) < Rest(s, closing)
  <2>1. times = s
    BY <1>1, <1>4 DEF Parser!insert_front
  <2>2. IsReal(s, behind - 1)
    BY <1>4 DEF StartsBracket, IsReal, Parser!LeftBrackets
  <2>3. /\ Parser!After(s, behind) = behind + 1
        /\ InPlace(s, behind + 1) /\ Rest(s, behind + 1) < Rest(s, behind)
    BY <1>2, <2>2, GoesOn
  <2>4. Rest(s, behind + 1) \in Nat /\ Rest(s, behind) \in Nat /\ Rest(s, closing) \in Nat
    BY <1>2, <2>3, RestNat
  <2> QED BY <1>2, <2>1, <2>3, <2>4
<1> QED BY <1>2, <1>3, <1>4

-----------------------------------------------------------------------------
(* The parser goes on *)

\* A value that is returned is a node, and a sign in front of it is one sign.
IsNode(x) == x # <<>> /\ (x[1] = "neg" => x[2] # <<>> /\ x[2][1] # "neg")

LEMMA NodesAreMade ==
    /\ \A v : IsNode(Parser!Leaf(v))
    /\ \A x : IsNode(x) => IsNode(Parser!Neg(x))
    /\ \A c, x, y : IsNode(Parser!Ternary(c, x, y))
<1>1. \A v : IsNode(Parser!Leaf(v))
  BY DEF IsNode, Parser!Leaf
<1>2. \A x : IsNode(x) => IsNode(Parser!Neg(x))
  BY DEF IsNode, Parser!Neg
<1>3. \A c, x, y : IsNode(Parser!Ternary(c, x, y))
  BY DEF IsNode, Parser!Ternary
<1> QED BY <1>1, <1>2, <1>3

LEMMA OperationIsNode ==
    ASSUME NEW op, op # "neg", NEW x, NEW y
    PROVE  IsNode(Parser!Node(op, x, y))
<1>1. \A a, b, c : IsNode(<<a, b, c>>) \/ a = "neg"
  BY DEF IsNode
<1>2. \A z, w : IsNode(w) => IsNode(Parser!Sign(z, w))
  BY NodesAreMade DEF Parser!Sign
<1>3. IsNode(<<"+", x, Parser!Neg(y)>>) /\ \A a, b : IsNode(<<op, a, b>>)
  BY <1>1
<1> QED BY <1>2, <1>3 DEF Parser!Node

Waits == UNCHANGED <<tokens, token_itr_>>
Reads == InPlace(tokens', token_itr_') /\ Rest(tokens', token_itr_') < Rest(tokens, token_itr_)

\* What a frame keeps for the place where it stands.
Sound(f) ==
    /\ f.at \in {"loop", "end"} => IsNode(f.left)
    /\ f.at = "right" => f.op # "neg"
    /\ f.at = "bracket" => f.op \in Parser!RightBrackets

\* The steps of the parser, by what they do to the stack and whether a token is read.
Begins ==
    /\ stack = <<>> /\ ret = Parser!NoNode /\ ret' = Parser!NoNode /\ Waits
    /\ \E f : f.fn = "expression" /\ f.at = "begin" /\ stack' = <<f>>

Accepts ==
    stack = <<>> /\ ret # Parser!NoNode /\ stack' = <<>> /\ ret' = Parser!NoNode /\ (Waits \/ Reads)

Returns ==
    stack # <<>> /\ stack[1].at # "begin" /\ stack' = Tail(stack) /\ IsNode(ret') /\ Waits

Stays ==
    /\ stack # <<>> /\ ret' = Parser!NoNode
    /\ \E f : /\ f.fn = stack[1].fn /\ f.at \in {"loop", "end"} /\ Sound(f)
             /\ <<f.fn, f.at>> \in ReadyPoints /\ stack' = <<f>> \o Tail(stack)
    /\ Reads \/ (Waits /\ stack[1].at \notin {"begin", "loop", "end"})

CallsOn(f, callee) ==
    /\ stack # <<>> /\ ret' = Parser!NoNode
    /\ f.fn = stack[1].fn /\ Sound(f)
    /\ callee.at = "begin" /\ <<f.fn, f.at, callee.fn>> \in AwaitedCalls
    /\ stack' = <<callee, f>> \o Tail(stack)
    /\ callee.fn = "ternary" => Parser!token_is("?") /\ Waits
    /\ Reads \/ (Waits /\ (stack[1].at # "begin" \/ (stack[1].fn = "expression" /\ callee.fn # "expression")))

ParserStep == Begins \/ Accepts \/ Returns \/ Stays \/ \E f, callee : CallsOn(f, callee)

\* What the parser can rely on while it parses.
Awaiting ==
    /\ InPlace(tokens, token_itr_)
    /\ \A i \in 1..Len(stack) : Sound(stack[i])
    /\ \A i \in 2..Len(stack) : <<stack[i].fn, stack[i].at, stack[i - 1].fn>> \in AwaitedCalls
    /\ ret # Parser!NoNode => IsNode(ret)
    /\ stack # <<>> /\ ret # Parser!NoNode =>
          \E fn \in {"expression", "branch", "ternary"} : <<stack[1].fn, stack[1].at, fn>> \in AwaitedCalls
    /\ stack # <<>> /\ ret = Parser!NoNode => <<stack[1].fn, stack[1].at>> \in ReadyPoints
    /\ stack # <<>> /\ stack[1].fn = "ternary" /\ stack[1].at = "begin" => Parser!token_is("?")

\* A function is entered, unless the limit is reached.
Enters(f, fn) ==
    /\ ret' = Parser!NoNode
    /\ \E callee : callee.fn = fn /\ callee.at = "begin" /\ stack' = <<callee, f>> \o Tail(stack)

LEMMA CallEnters ==
    ASSUME NEW f, NEW fn, NEW precedence, NEW left,
           Parser!Call(f, Parser!Frame(fn, precedence, left)), outcome' = "parsing"
    PROVE  Enters(f, fn)
<1> DEFINE callee == Parser!Frame(fn, precedence, left)
           entered == Parser!stack_limit_handler(callee)
<1>1. IsFrame(callee) /\ callee.fn = fn /\ callee.at = "begin"
  BY DEF IsFrame, Parser!Frame
<1>2. entered.fn = fn /\ entered.at = "begin"
  <2> HIDE DEF callee
  <2> QED BY <1>1 DEF IsFrame, Parser!stack_limit_handler
<1>3. ~(callee.fn # "ternary" /\ Parser!stack_depth + 1 > max_stack_depth)
  BY DEF Parser!Call, Parser!Fail
<1>4. stack' = <<entered, f>> \o Tail(stack) /\ ret' = Parser!NoNode
  BY <1>3 DEF Parser!Call
<1> HIDE DEF entered
<1> QED BY <1>2, <1>4 DEF Enters

LEMMA NextIsRead ==
    ASSUME InPlace(tokens, token_itr_), IsReal(tokens, token_itr_ - 1), Parser!next_token
    PROVE  Reads
BY GoesOn DEF Parser!next_token, Reads

\* A function that goes on by a call of another one, without and with a token read.
LEMMA WaitsForCall ==
    ASSUME stack # <<>>, NEW f, f.fn = stack[1].fn, Sound(f), NEW fn, Enters(f, fn),
           <<f.fn, f.at, fn>> \in AwaitedCalls,
           Reads \/ (Waits /\ (stack[1].at # "begin" \/ (stack[1].fn = "expression" /\ fn # "expression"))),
           fn = "ternary" => Parser!token_is("?") /\ Waits
    PROVE  ParserStep
<1>1. PICK callee : callee.fn = fn /\ callee.at = "begin" /\ stack' = <<callee, f>> \o Tail(stack)
  BY DEF Enters
<1>2. CallsOn(f, callee)
  BY <1>1 DEF CallsOn, Enters
<1> QED BY <1>2 DEF ParserStep

LEMMA StepsForward ==
    ASSUME StackInv, Awaiting, Parser!Parsing, Parser!Next, outcome' = "parsing"
    PROVE  ParserStep
<1> USE DEF Parser!parse_expression, Parser!parse_branch, Parser!parse_ternary_conditional_statement
<1>0. outcome = "parsing" /\ InPlace(tokens, token_itr_)
  BY DEF Parser!Parsing, Awaiting
<1>1. ~ (\/ Parser!compile_empty \/ Parser!run_inserters \/ Parser!run_joiners \/ Parser!run_modifiers
         \/ Parser!run_scanners)
  BY <1>0 DEF Parser!compile_empty, Parser!run_inserters, Parser!run_joiners, Parser!run_modifiers,
              Parser!run_scanners, Parser!Pass
<1>2. ASSUME stack = <<>> PROVE ParserStep
  <2>1. Parser!parse_corpus_begin \/ Parser!parse_corpus_end
    BY <1>1, <1>2, Parser!Next
       DEF Parser!Next, Parser!expression_begin, Parser!expression_branch, Parser!expression_operator, Parser!expression_end,
           Parser!expression_combine, Parser!expression_ternary, Parser!branch_number, Parser!branch_symbol,
           Parser!branch_bracket, Parser!branch_bracket_end, Parser!branch_sign, Parser!branch_signed,
           Parser!branch_error, Parser!branch_end, Parser!branch_ternary, Parser!ternary_begin,
           Parser!ternary_consequent, Parser!ternary_alternative, Parser!Begins, Parser!Resumes, Parser!In
  <2>2. CASE Parser!parse_corpus_begin
    <3> DEFINE f == Parser!stack_limit_handler(Parser!Frame("expression", 0, Parser!NoNode))
    <3>1. f.fn = "expression" /\ f.at = "begin"
      BY DEF Parser!stack_limit_handler, Parser!Frame
    <3>2. stack' = <<f>> /\ ret = Parser!NoNode /\ ret' = Parser!NoNode /\ Waits
      BY <2>2 DEF Parser!parse_corpus_begin, Parser!Fail, Parser!lexer_, Waits
    <3> HIDE DEF f
    <3> QED BY <1>2, <3>1, <3>2 DEF Begins, ParserStep
  <2>3. CASE Parser!parse_corpus_end
    <3>1. ret # Parser!NoNode /\ ret' = Parser!NoNode /\ stack' = <<>>
      BY <1>2, <2>3 DEF Parser!parse_corpus_end
    <3>2. Waits \/ Reads
      <4>1. Waits \/ (token_itr_ <= Len(tokens) /\ Parser!next_token)
        <5>1. Waits \/ (Parser!next_token /\ ~Parser!finished)
          BY <2>3 DEF Parser!parse_corpus_end, Parser!lexer_, Waits
        <5>2. Len(tokens) \in Nat /\ token_itr_ \in Nat
          BY <1>0, SequenceDomain DEF InPlace
        <5> QED BY <5>1, <5>2 DEF Parser!finished
      <4>2. ASSUME token_itr_ <= Len(tokens), Parser!next_token PROVE Reads
        <5>1. Len(tokens) \in Nat /\ token_itr_ \in 2..Len(tokens) + 2
          BY <1>0, SequenceDomain DEF InPlace
        <5>2. tokens' = tokens /\ token_itr_' = token_itr_ + 1
          BY <4>2, <5>1 DEF Parser!next_token, Parser!After
        <5>3. InPlace(tokens, token_itr_ + 1)
          BY <1>0, <4>2, <5>1 DEF InPlace
        <5>4. /\ Rest(tokens, token_itr_ + 1) \in Nat
              /\ Rest(tokens, token_itr_ + 1) <= 2 * (Len(tokens) + 2 - (token_itr_ + 1)) + 1
          BY <5>3, RestNat
        <5>5. Rest(tokens, token_itr_) \in Nat /\ Rest(tokens, token_itr_) >= 2 * (Len(tokens) + 2 - token_itr_)
          BY <1>0, RestNat, RestLeast
        <5>6. Rest(tokens, token_itr_ + 1) < Rest(tokens, token_itr_)
          BY <5>1, <5>4, <5>5
        <5> QED BY <5>2, <5>3, <5>6 DEF Reads
      <4> QED BY <4>1, <4>2
    <3> QED BY <1>2, <3>1, <3>2 DEF Accepts, ParserStep
  <2> QED BY <2>1, <2>2, <2>3
<1>3. ASSUME stack # <<>> PROVE ParserStep
  <2> USE <1>3
  <2>0. Parser!Top = stack[1] /\ IsFrame(stack[1]) /\ Sound(stack[1])
    <3>1. 1 \in 1..Len(stack)
      BY DEF StackInv, IsSequence
    <3> QED BY <3>1, TopFrame DEF Awaiting
  <2>r. ASSUME NEW value, Parser!Return(value), IsNode(value), stack[1].at # "begin", Waits PROVE ParserStep
    BY <2>r DEF Parser!Return, Returns, ParserStep
  <2>s. ASSUME NEW at, at \in {"loop", "end"}, <<stack[1].fn, at>> \in ReadyPoints, NEW value, IsNode(value),
               Parser!Stay([stack[1] EXCEPT !.at = at, !.left = value]),
               Reads \/ (Waits /\ stack[1].at \notin {"begin", "loop", "end"})
        PROVE  ParserStep
    <3> DEFINE f == [stack[1] EXCEPT !.at = at, !.left = value]
    <3>1. f.fn = stack[1].fn /\ f.at = at /\ f.left = value
      BY <2>0 DEF IsFrame
    <3>2. stack' = <<f>> \o Tail(stack) /\ ret' = Parser!NoNode
      BY <2>s DEF Parser!Stay
    <3> HIDE DEF f
    <3>3. Sound(f)
      BY <2>s, <3>1 DEF Sound
    <3> QED BY <2>s, <3>1, <3>2, <3>3 DEF Stays, ParserStep
  <2>p. /\ stack[1].fn = "expression" => <<stack[1].fn, "loop">> \in ReadyPoints
        /\ stack[1].fn = "branch" => <<stack[1].fn, "end">> \in ReadyPoints
    BY DEF ReadyPoints
  <2>op. ASSUME NEW at, at \in {"right", "bracket", "sign"}, NEW op, NEW precedence,
                at = "right" => op # "neg", at = "bracket" => op \in Parser!RightBrackets,
                <<stack[1].fn, at, "expression">> \in AwaitedCalls, Reads,
                Parser!Call([stack[1] EXCEPT !.at = at, !.op = op],
                            Parser!Frame("expression", precedence, Parser!NoNode))
         PROVE  ParserStep
    <3> DEFINE f == [stack[1] EXCEPT !.at = at, !.op = op]
    <3>1. f.fn = stack[1].fn /\ f.at = at /\ f.op = op
      BY <2>0 DEF IsFrame
    <3>2. Enters(f, "expression")
      BY <2>op, CallEnters
    <3> HIDE DEF f
    <3>3. Sound(f)
      BY <2>op, <3>1 DEF Sound
    <3> QED BY <2>op, <3>1, <3>2, <3>3, WaitsForCall
  <2>t. ASSUME NEW value, Parser!Call([stack[1] EXCEPT !.at = "ternary"], Parser!Frame("ternary", 0, value)),
               stack[1].at # "begin", stack[1].fn \in {"expression", "branch"}, Parser!token_is("?"), Waits
        PROVE  ParserStep
    <3> DEFINE f == [stack[1] EXCEPT !.at = "ternary"]
    <3>1. f.fn = stack[1].fn /\ f.at = "ternary"
      BY <2>0 DEF IsFrame
    <3>2. Enters(f, "ternary")
      BY <2>t, CallEnters
    <3> HIDE DEF f
    <3>3. Sound(f) /\ <<f.fn, f.at, "ternary">> \in AwaitedCalls
      BY <2>t, <3>1 DEF Sound, AwaitedCalls
    <3> QED BY <2>t, <3>1, <3>2, <3>3, WaitsForCall
  <2>n. ASSUME Parser!current_token.type # ";", Parser!next_token PROVE Reads
    BY <1>0, <2>n, NextIsRead DEF IsReal, Parser!current_token
  <2>f. ~Parser!Fail
    BY DEF Parser!Fail
  <2>5. CASE Parser!expression_begin
    <3> DEFINE f == [stack[1] EXCEPT !.at = "branch"]
    <3>0. stack[1].fn = "expression" /\ Waits
      BY <2>0, <2>5 DEF Parser!expression_begin, Parser!Begins, Parser!In, Parser!lexer_, Waits
    <3>1. f.fn = stack[1].fn /\ f.at = "branch"
      BY <2>0 DEF IsFrame
    <3>2. Enters(f, "branch")
      BY <2>0, <2>5, CallEnters DEF Parser!expression_begin
    <3> HIDE DEF f
    <3>3. Sound(f) /\ <<f.fn, f.at, "branch">> \in AwaitedCalls
      BY <3>0, <3>1 DEF Sound, AwaitedCalls
    <3> QED BY <3>0, <3>1, <3>2, <3>3, WaitsForCall
  <2>6. CASE Parser!expression_branch
    <3>1. stack[1].fn = "expression" /\ stack[1].at = "branch" /\ Waits /\ IsNode(ret)
      BY <2>0, <2>6 DEF Parser!expression_branch, Parser!Resumes, Parser!In, Parser!lexer_, Waits, Awaiting
    <3> QED BY <2>0, <2>6, <2>p, <2>r, <2>s, <3>1 DEF Parser!expression_branch
  <2>7. CASE Parser!expression_operator
    <3>1. stack[1].fn = "expression" /\ Parser!operator # "none"
      BY <2>0, <2>7 DEF Parser!expression_operator, Parser!In, Parser!TakesOperator
    <3>2. Parser!operator # "neg" /\ Parser!current_token.type # ";"
      BY <3>1 DEF Parser!operator, Parser!OperatorOf, Parser!OrOperators, Parser!AndOperators, Parser!Comparisons
    <3>3. Reads
      BY <2>7, <2>n, <3>2 DEF Parser!expression_operator
    <3>4. <<stack[1].fn, "right", "expression">> \in AwaitedCalls
      BY <3>1 DEF AwaitedCalls
    <3> QED BY <2>0, <2>7, <2>op, <3>2, <3>3, <3>4 DEF Parser!expression_operator
  <2>8. CASE Parser!expression_end
    <3>1. stack[1].at = "loop" /\ Waits
      BY <2>0, <2>8 DEF Parser!expression_end, Parser!In, Parser!lexer_, Waits
    <3> QED BY <2>0, <2>8, <2>r, <3>1 DEF Parser!expression_end, Sound
  <2>9. CASE Parser!expression_combine
    <3>1. stack[1].fn = "expression" /\ stack[1].at = "right" /\ Waits
      BY <2>0, <2>9 DEF Parser!expression_combine, Parser!Resumes, Parser!In, Parser!lexer_, Waits
    <3>2. IsNode(Parser!Node(stack[1].op, stack[1].left, ret))
      BY <2>0, <3>1, OperationIsNode DEF Sound
    <3> QED BY <2>0, <2>9, <2>f, <2>p, <2>s, <2>t, <3>1, <3>2 DEF Parser!expression_combine
  <2>10. CASE Parser!expression_ternary
    <3>1. stack[1].fn = "expression" /\ stack[1].at = "ternary" /\ Waits /\ IsNode(ret)
      BY <2>0, <2>10 DEF Parser!expression_ternary, Parser!Resumes, Parser!In, Parser!lexer_, Waits, Awaiting
    <3> QED BY <2>0, <2>10, <2>p, <2>s, <3>1 DEF Parser!expression_ternary
  <2>11. CASE Parser!branch_number
    <3>1. stack[1].fn = "branch" /\ Reads
      BY <2>0, <2>11, <2>n DEF Parser!branch_number, Parser!token_is, Parser!Begins, Parser!In
    <3> QED BY <2>0, <2>11, <2>p, <2>s, <3>1, NodesAreMade DEF Parser!branch_number, Parser!BranchEnds
  <2>sy. CASE Parser!branch_symbol
    <3>0. stack[1].fn = "branch"
      BY <2>0, <2>sy DEF Parser!branch_symbol, Parser!Begins, Parser!In
    <3>1. PICK name : Parser!BranchEnds(Parser!Leaf(name))
      BY <2>sy DEF Parser!branch_symbol
    <3>2. Reads
      <4>1. Parser!TokenAt(tokens, token_itr_ - 1).type = "symbol"
        BY <2>sy DEF Parser!branch_symbol, Parser!token_is, Parser!current_token
      <4>2. IsReal(tokens, token_itr_ - 1) /\ Parser!TokenAt(tokens, token_itr_ - 1).type # "*"
        BY <4>1 DEF IsReal
      <4>3. /\ tokens' = IF StartsBracket(tokens, token_itr_) THEN Parser!insert_front(tokens, token_itr_, "*") ELSE tokens
            /\ token_itr_' = Parser!After(tokens', token_itr_)
        BY <2>sy DEF Parser!branch_symbol, StartsBracket
      <4> QED BY <1>0, <4>2, <4>3, SymbolRead DEF Reads
    <3> QED BY <2>0, <2>p, <2>s, <3>0, <3>1, <3>2, NodesAreMade DEF Parser!BranchEnds
  <2>12. CASE Parser!branch_bracket
    <3>1. stack[1].fn = "branch" /\ Parser!current_token.type \in Parser!LeftBrackets
      BY <2>0, <2>12 DEF Parser!branch_bracket, Parser!Begins, Parser!In
    <3>2. Parser!Closing[Parser!current_token.type] \in Parser!RightBrackets /\ Parser!current_token.type # ";"
      BY <3>1 DEF Parser!Closing, Parser!LeftBrackets, Parser!RightBrackets
    <3>3. Reads
      BY <2>12, <2>n, <3>2 DEF Parser!branch_bracket
    <3>4. <<stack[1].fn, "bracket", "expression">> \in AwaitedCalls
      BY <3>1 DEF AwaitedCalls
    <3> QED BY <2>0, <2>12, <2>op, <3>2, <3>3, <3>4 DEF Parser!branch_bracket
  <2>13. CASE Parser!branch_bracket_end
    <3> DEFINE closing == Parser!BeforeClosing
               behind  == Parser!After(tokens, closing)
               next    == Parser!TokenAt(tokens, behind - 1).type
               times   == Parser!insert_front(Parser!insert_front(tokens, behind, next), behind, "*")
    <3>1. stack[1].fn = "branch" /\ stack[1].at = "bracket" /\ IsNode(ret)
      BY <2>0, <2>13 DEF Parser!branch_bracket_end, Parser!Resumes, Parser!In, Awaiting
    <3>2. /\ Parser!TokenAt(tokens, closing - 1).type = stack[1].op
          /\ Parser!BranchEnds(ret)
          /\ IF StartsBracket(tokens, behind - 1)
             THEN tokens' = times /\ token_itr_' = Parser!After(times, behind)
             ELSE token_itr_' = behind /\ tokens' = tokens
      BY <2>0, <2>13, <2>f DEF Parser!branch_bracket_end, StartsBracket
    <3>3. Parser!TokenAt(tokens, closing - 1).type \in Parser!RightBrackets
      BY <2>0, <3>1, <3>2 DEF Sound
    <3>4. closing \in {token_itr_, Parser!After(tokens, token_itr_)}
      BY DEF Parser!BeforeClosing
    <3> HIDE DEF closing
    <3>5. InPlace(tokens, closing) /\ Rest(tokens, closing) <= Rest(tokens, token_itr_)
      BY <1>0, <3>4, Skips
    <3>6. /\ InPlace(tokens, behind) /\ Rest(tokens, behind) < Rest(tokens, closing)
          /\ StartsBracket(tokens, behind - 1) =>
                InPlace(times, Parser!After(times, behind)) /\ Rest(times, Parser!After(times, behind)) < Rest(tokens, closing)
      BY <3>3, <3>5, BracketRead
    <3> HIDE DEF behind, next, times
    <3>7. InPlace(tokens', token_itr_') /\ Rest(tokens', token_itr_') < Rest(tokens, closing)
      BY <3>2, <3>6
    <3>8. Rest(tokens', token_itr_') \in Nat /\ Rest(tokens, closing) \in Nat /\ Rest(tokens, token_itr_) \in Nat
      BY <1>0, <3>5, <3>7, RestNat
    <3>9. Reads
      BY <3>5, <3>7, <3>8 DEF Reads
    <3> QED BY <2>0, <2>p, <2>s, <3>1, <3>2, <3>9 DEF Parser!BranchEnds
  <2>14. CASE Parser!branch_sign
    <3>1. stack[1].fn = "branch" /\ Parser!current_token.type # ";"
      BY <2>0, <2>14 DEF Parser!branch_sign, Parser!Begins, Parser!In
    <3>2. Reads
      BY <2>14, <2>n, <3>1 DEF Parser!branch_sign
    <3>3. <<stack[1].fn, "sign", "expression">> \in AwaitedCalls
      BY <3>1 DEF AwaitedCalls
    <3> QED BY <2>0, <2>14, <2>op, <3>2, <3>3 DEF Parser!branch_sign
  <2>15. CASE Parser!branch_signed
    <3>1. stack[1].fn = "branch" /\ stack[1].at = "sign" /\ Waits /\ IsNode(ret) /\ IsNode(Parser!Neg(ret))
      BY <2>0, <2>15, NodesAreMade
         DEF Parser!branch_signed, Parser!Resumes, Parser!In, Parser!lexer_, Waits, Awaiting
    <3> QED BY <2>0, <2>15, <2>p, <2>s, <3>1 DEF Parser!branch_signed, Parser!BranchEnds
  <2>16. CASE Parser!branch_error
    BY <2>f, <2>16 DEF Parser!branch_error
  <2>17. CASE Parser!branch_end
    <3>1. stack[1].fn = "branch" /\ stack[1].at = "end" /\ Waits /\ IsNode(stack[1].left)
      BY <2>0, <2>17 DEF Parser!branch_end, Parser!In, Parser!lexer_, Waits, Sound
    <3> QED BY <2>0, <2>r, <2>t, <2>17, <3>1 DEF Parser!branch_end
  <2>18. CASE Parser!branch_ternary
    <3>1. stack[1].at = "ternary" /\ Waits /\ IsNode(ret)
      BY <2>0, <2>18 DEF Parser!branch_ternary, Parser!Resumes, Parser!In, Parser!lexer_, Waits, Awaiting
    <3> QED BY <2>r, <2>18, <3>1 DEF Parser!branch_ternary
  <2>19. CASE Parser!ternary_begin
    <3> DEFINE f == [stack[1] EXCEPT !.at = "consequent"]
    <3>0. stack[1].fn = "ternary" /\ stack[1].at = "begin"
      BY <2>0, <2>19 DEF Parser!ternary_begin, Parser!Begins, Parser!In
    <3>1. f.fn = stack[1].fn /\ f.at = "consequent"
      BY <2>0 DEF IsFrame
    <3>2. Enters(f, "expression")
      BY <2>0, <2>19, CallEnters DEF Parser!ternary_begin
    <3> HIDE DEF f
    <3>3. Sound(f) /\ <<f.fn, f.at, "expression">> \in AwaitedCalls
      BY <3>0, <3>1 DEF Sound, AwaitedCalls
    <3>4. Reads
      BY <2>19, <2>n, <3>0 DEF Parser!ternary_begin, Awaiting, Parser!token_is
    <3> QED BY <3>1, <3>2, <3>3, <3>4, WaitsForCall
  <2>20. CASE Parser!ternary_consequent
    <3> DEFINE f == [stack[1] EXCEPT !.at = "alternative", !.right = ret]
    <3>0. /\ stack[1].fn = "ternary" /\ Parser!token_is(":") /\ Parser!next_token
          /\ Parser!Call(f, Parser!Frame("expression", 0, Parser!NoNode))
      BY <2>0, <2>f, <2>20 DEF Parser!ternary_consequent, Parser!Resumes, Parser!In
    <3>1. f.fn = stack[1].fn /\ f.at = "alternative"
      BY <2>0 DEF IsFrame
    <3>2. Enters(f, "expression")
      BY <3>0, CallEnters
    <3> HIDE DEF f
    <3>3. Sound(f) /\ <<f.fn, f.at, "expression">> \in AwaitedCalls
      BY <3>0, <3>1 DEF Sound, AwaitedCalls
    <3>4. Reads
      BY <2>n, <3>0 DEF Parser!token_is
    <3> QED BY <3>1, <3>2, <3>3, <3>4, WaitsForCall
  <2>21. CASE Parser!ternary_alternative
    <3>1. stack[1].at = "alternative" /\ Waits
      BY <2>0, <2>21 DEF Parser!ternary_alternative, Parser!Resumes, Parser!In, Parser!lexer_, Waits
    <3> QED BY <2>r, <2>21, <3>1, NodesAreMade DEF Parser!ternary_alternative
  <2>22. ~Parser!parse_corpus_begin /\ ~Parser!parse_corpus_end
    BY DEF Parser!parse_corpus_begin, Parser!parse_corpus_end
  <2> QED BY Parser!Next, <1>1, <2>5, <2>6, <2>7, <2>8, <2>9, <2>10, <2>11, <2>sy, <2>12, <2>13, <2>14, <2>15,
             <2>16, <2>17, <2>18, <2>19, <2>20, <2>21, <2>22 DEF Parser!Next
<1> QED BY <1>2, <1>3

\* After each step the frames still wait for one another.
LEMMA StepAwaits ==
    ASSUME StackInv, Awaiting, ParserStep
    PROVE  Awaiting'
<1> DEFINE Triple(s, i) == <<s[i].fn, s[i].at, s[i - 1].fn>>
<1>0. IsSequence(stack) /\ Len(stack) \in Nat
  BY DEF StackInv, IsSequence
<1>1. ASSUME Waits \/ Reads PROVE InPlace(tokens', token_itr_')
  BY <1>1 DEF Waits, Reads, Awaiting
<1>2. CASE Begins
  <2>1. PICK f : f.fn = "expression" /\ f.at = "begin" /\ stack' = <<f>>
    BY <1>2 DEF Begins
  <2>2. Len(stack') = 1 /\ stack'[1] = f /\ <<f.fn, f.at>> \in ReadyPoints
    BY <2>1 DEF ReadyPoints
  <2>3. Sound(f)
    BY <2>1 DEF Sound
  <2>4. \A i \in 1..Len(stack') : Sound(stack'[i])
    BY <2>2, <2>3
  <2>5. InPlace(tokens', token_itr_') /\ ret' = Parser!NoNode
    BY <1>1, <1>2 DEF Begins
  <2> QED BY <2>1, <2>2, <2>4, <2>5 DEF Awaiting, Parser!NoNode, Sound, IsNode
<1>3. CASE Accepts
  <2>1. Len(stack') = 0 /\ stack' = <<>> /\ ret' = Parser!NoNode /\ InPlace(tokens', token_itr_')
    BY <1>1, <1>3 DEF Accepts
  <2> QED BY <2>1 DEF Awaiting, Parser!NoNode
<1>4. CASE Returns
  <2>1. /\ stack # <<>> /\ IsSequence(stack') /\ Len(stack') = Len(stack) - 1
        /\ \A i \in 1..Len(stack') : i + 1 \in 2..Len(stack) /\ stack'[i] = stack[i + 1]
    BY <1>0, <1>4, Dropped DEF Returns
  <2>2. InPlace(tokens', token_itr_') /\ IsNode(ret') /\ ret' # Parser!NoNode
    BY <1>1, <1>4 DEF Returns, IsNode, Parser!NoNode
  <2>3. \A i \in 1..Len(stack') : Sound(stack'[i])
    BY <1>0, <2>1 DEF Awaiting
  <2>4. \A i \in 2..Len(stack') : Triple(stack', i) \in AwaitedCalls
    <3> SUFFICES ASSUME NEW i \in 2..Len(stack') PROVE Triple(stack', i) \in AwaitedCalls
      OBVIOUS
    <3>1. i + 1 \in 2..Len(stack) /\ stack'[i] = stack[i + 1] /\ stack'[i - 1] = stack[i] /\ (i + 1) - 1 = i
      BY <1>0, <2>1
    <3> QED BY <3>1 DEF Awaiting
  <2>5. ASSUME stack' # <<>>
        PROVE  /\ \E fn \in {"expression", "branch", "ternary"} : <<stack'[1].fn, stack'[1].at, fn>> \in AwaitedCalls
               /\ stack'[1].at # "begin"
    <3>1. 1 \in 1..Len(stack')
      BY <2>1, <2>5 DEF IsSequence
    <3>2. 2 \in 2..Len(stack) /\ stack'[1] = stack[2] /\ 2 - 1 = 1
      BY <1>0, <2>1, <3>1
    <3>3. <<stack'[1].fn, stack'[1].at, stack[1].fn>> \in AwaitedCalls
      BY <3>2 DEF Awaiting
    <3> QED BY <3>3 DEF AwaitedCalls
  <2>6. UNCHANGED <<tokens, token_itr_>>
    BY <1>4 DEF Returns, Waits
  <2> QED BY <2>2, <2>3, <2>4, <2>5 DEF Awaiting, Sound, IsNode
<1>5. CASE Stays
  <2>1. PICK f : /\ f.fn = stack[1].fn /\ f.at \in {"loop", "end"} /\ Sound(f)
                 /\ <<f.fn, f.at>> \in ReadyPoints /\ stack' = <<f>> \o Tail(stack)
    BY <1>5 DEF Stays
  <2>2. /\ IsSequence(stack') /\ Len(stack') = Len(stack) /\ stack'[1] = f
        /\ \A i \in 2..Len(stack) : stack'[i] = stack[i]
    BY <1>0, <1>5, <2>1, Changed DEF Stays
  <2>3. InPlace(tokens', token_itr_') /\ ret' = Parser!NoNode
    BY <1>1, <1>5 DEF Stays
  <2>4. \A i \in 1..Len(stack') : Sound(stack'[i])
    BY <1>0, <2>1, <2>2 DEF Awaiting
  <2>5. \A i \in 2..Len(stack') : Triple(stack', i) \in AwaitedCalls
    <3> SUFFICES ASSUME NEW i \in 2..Len(stack') PROVE Triple(stack', i) \in AwaitedCalls
      OBVIOUS
    <3>1. stack'[i] = stack[i] /\ stack'[i - 1].fn = stack[i - 1].fn
      BY <1>0, <2>1, <2>2
    <3> QED BY <2>2, <3>1 DEF Awaiting
  <2> QED BY <2>1, <2>2, <2>3, <2>4, <2>5 DEF Awaiting, Parser!NoNode, Sound, IsNode
<1>6. CASE \E f, callee : CallsOn(f, callee)
  <2>1. PICK f, callee : CallsOn(f, callee)
    BY <1>6
  <2>2. /\ IsSequence(stack') /\ Len(stack') = Len(stack) + 1 /\ stack'[1] = callee /\ stack'[2] = f
        /\ \A i \in 3..Len(stack) + 1 : stack'[i] = stack[i - 1]
    BY <1>0, <2>1, Pushed DEF CallsOn
  <2>3. InPlace(tokens', token_itr_') /\ ret' = Parser!NoNode
    BY <1>1, <2>1 DEF CallsOn
  <2>4. Sound(callee) /\ Sound(f) /\ f.fn = stack[1].fn /\ <<f.fn, f.at, callee.fn>> \in AwaitedCalls
    BY <2>1 DEF CallsOn, Sound
  <2>5. \A i \in 1..Len(stack') : Sound(stack'[i])
    <3> SUFFICES ASSUME NEW i \in 1..Len(stack') PROVE Sound(stack'[i])
      OBVIOUS
    <3>1. CASE i \in {1, 2}
      BY <2>2, <2>4, <3>1
    <3>2. CASE i \in 3..Len(stack')
      <4>1. stack'[i] = stack[i - 1] /\ i - 1 \in 1..Len(stack)
        BY <1>0, <2>2, <3>2
      <4> QED BY <4>1 DEF Awaiting
    <3> QED BY <1>0, <2>2, <3>1, <3>2
  <2>6. \A i \in 2..Len(stack') : Triple(stack', i) \in AwaitedCalls
    <3> SUFFICES ASSUME NEW i \in 2..Len(stack') PROVE Triple(stack', i) \in AwaitedCalls
      OBVIOUS
    <3>1. CASE i = 2
      BY <2>2, <2>4, <3>1
    <3>2. CASE i \in 3..Len(stack')
      <4>1. stack'[i] = stack[i - 1] /\ i - 1 \in 2..Len(stack)
        BY <1>0, <2>2, <3>2
      <4>2. stack'[i - 1].fn = stack[(i - 1) - 1].fn
        <5>1. CASE i = 3
          BY <2>2, <2>4, <5>1
        <5>2. CASE i # 3
          BY <1>0, <2>2, <3>2, <5>2
        <5> QED BY <5>1, <5>2
      <4> QED BY <4>1, <4>2 DEF Awaiting
    <3> QED BY <1>0, <2>2, <3>1, <3>2
  <2>7. callee.fn = "ternary" => Parser!TokenAt(tokens', token_itr_' - 1).type = "?"
    BY <2>1 DEF CallsOn, Waits, Parser!token_is, Parser!current_token
  <2>8. callee.at = "begin" /\ <<callee.fn, callee.at>> \in ReadyPoints
    <3>1. callee.fn \in {"expression", "branch", "ternary"}
      BY <2>4 DEF AwaitedCalls
    <3> QED BY <2>1, <3>1 DEF CallsOn, ReadyPoints
  <2> QED BY <2>2, <2>3, <2>5, <2>6, <2>7, <2>8 DEF Awaiting, Parser!NoNode, Sound, IsNode, Parser!token_is, Parser!current_token
<1> QED BY <1>2, <1>3, <1>4, <1>5, <1>6, ParserStep DEF ParserStep

\* A token that is read outweighs whatever the stack has become.
LEMMA Outweighs ==
    ASSUME NEW a \in Nat, NEW b \in Nat, a < b, NEW C \in Nat, NEW p \in Nat, NEW q \in Nat, p < C
    PROVE  C * a + p \in Nat /\ C * b + q \in Nat /\ C * a + p < C * b + q
<1>1. C * a \in Nat /\ C * b \in Nat /\ b - a \in Nat /\ b - a >= 1
  OBVIOUS
<1>2. C * b = C * a + C * (b - a)
  OBVIOUS
<1>3. C * (b - a) >= C
  BY <1>1
<1> QED BY <1>1, <1>2, <1>3

LEMMA StepCounts ==
    ASSUME StackInv, StackInv', Awaiting, Awaiting', ParserStep
    PROVE  StepsLeft' \in 0..StepsLeft - 1
<1> DEFINE C == 4 * max_stack_depth + 7
<1>0. C \in Nat /\ Len(stack) \in Nat /\ (stack # <<>> => Len(stack) >= 1)
  BY DepthAssumption DEF StackInv, IsSequence
<1>1. Unread \in Nat /\ Unread' \in Nat
  BY UnreadRest, RestNat DEF Awaiting
<1>2. Pending \in Nat /\ Pending < C /\ Pending' \in Nat /\ Pending' < C
  <2>1. Len(stack) <= 2 * max_stack_depth
    BY StackBounded DEF StackInv
  <2>2. Len(stack') \in Nat /\ Len(stack') <= 2 * max_stack_depth /\ (stack' # <<>> => Len(stack') >= 1)
    <3>1. IsSequence(stack') /\ Counted(stack')
      BY DEF StackInv, IsSequence, Counted, Height, IsFrame
    <3> QED BY <3>1, StackBounded
  <2>3. Pending \in Nat /\ Pending < C
    BY <1>0, <2>1, DepthAssumption DEF Pending
  <2>4. Pending' \in Nat /\ Pending' < C
    BY <2>2, DepthAssumption DEF Pending
  <2> QED BY <2>3, <2>4
<1>3. StepsLeft = C * Unread + Pending /\ StepsLeft' = C * Unread' + Pending'
  BY DEF StepsLeft
<1>4. ASSUME Reads PROVE Unread' < Unread
  BY <1>4, UnreadRest DEF Reads
<1>5. ASSUME Waits PROVE Unread' = Unread
  BY <1>5, UnreadRest DEF Waits
<1>6. \/ Reads
      \/ Waits /\ Pending' < Pending
  <2>0. /\ Len(stack') \in Nat
        /\ stack = <<>> => Pending = IF ret = Parser!NoNode THEN 3 ELSE 4
        /\ stack' = <<>> => Pending' = IF ret' = Parser!NoNode THEN 3 ELSE 4
        /\ stack # <<>> /\ stack[1].at = "begin" => Pending = IF stack[1].fn = "expression" THEN 2 ELSE 1
        /\ stack' # <<>> /\ stack'[1].at = "begin" => Pending' = IF stack'[1].fn = "expression" THEN 2 ELSE 1
        /\ stack # <<>> /\ stack[1].at \in {"loop", "end"} => Pending = 2 * Len(stack) + 5
        /\ stack' # <<>> /\ stack'[1].at \in {"loop", "end"} => Pending' = 2 * Len(stack') + 5
        /\ stack # <<>> /\ stack[1].at \notin {"begin", "loop", "end"} => Pending = 2 * Len(stack) + 6
        /\ stack' # <<>> /\ stack'[1].at \notin {"begin", "loop", "end"} => Pending' = 2 * Len(stack') + 6
    BY DEF Pending, Parser!Top, StackInv, IsSequence
  <2>1. CASE Begins
    <3>1. /\ stack = <<>> /\ ret = Parser!NoNode /\ Waits
          /\ stack' # <<>> /\ stack'[1].fn = "expression" /\ stack'[1].at = "begin"
      BY <2>1 DEF Begins
    <3> QED BY <2>0, <3>1
  <2>2. CASE Accepts
    BY <2>0, <2>2 DEF Accepts
  <2>3. CASE Returns
    <3>1. stack # <<>> /\ Len(stack') = Len(stack) - 1 /\ Waits /\ stack[1].at # "begin"
      BY <2>3, Dropped DEF Returns, StackInv
    <3>2. Pending >= 2 * Len(stack) + 5
      BY <1>0, <2>0, <3>1
    <3>3. Pending' <= 4 \/ Pending' <= 2 * Len(stack') + 6
      BY <2>0
    <3> QED BY <1>0, <1>2, <3>1, <3>2, <3>3
  <2>4. CASE Stays
    <3>1. /\ stack # <<>> /\ Len(stack') = Len(stack) /\ stack' # <<>> /\ stack'[1].at \in {"loop", "end"}
          /\ Reads \/ (Waits /\ stack[1].at \notin {"begin", "loop", "end"})
      <4>1. PICK f : f.fn = stack[1].fn /\ f.at \in {"loop", "end"} /\ Sound(f) /\ stack' = <<f>> \o Tail(stack)
        BY <2>4 DEF Stays
      <4>2. Len(stack') = Len(stack) /\ stack'[1] = f /\ IsSequence(stack')
        BY <2>4, <4>1, Changed DEF Stays, StackInv
      <4>3. stack' # <<>>
        BY <1>0, <2>4, <4>2 DEF Stays
      <4> QED BY <2>4, <4>1, <4>2, <4>3 DEF Stays
    <3> QED BY <1>0, <2>0, <3>1
  <2>5. CASE \E f, callee : CallsOn(f, callee)
    <3>1. PICK f, callee : CallsOn(f, callee)
      BY <2>5
    <3>2. Len(stack') = Len(stack) + 1 /\ stack'[1] = callee
      BY <3>1, Pushed DEF CallsOn, StackInv
    <3>3. stack' # <<>> /\ stack'[1].at = "begin"
      BY <1>0, <3>1, <3>2 DEF CallsOn
    <3>4. CASE Waits /\ stack[1].at # "begin"
      <4>1. Pending >= 7
        BY <1>0, <2>0, <3>1, <3>4 DEF CallsOn
      <4> QED BY <1>2, <2>0, <3>3, <3>4, <4>1
    <3>5. CASE Waits /\ stack[1].at = "begin" /\ stack[1].fn = "expression" /\ callee.fn # "expression"
      BY <2>0, <3>1, <3>2, <3>3, <3>5 DEF CallsOn
    <3> QED BY <3>1, <3>4, <3>5 DEF CallsOn
  <2> QED BY <2>1, <2>2, <2>3, <2>4, <2>5, ParserStep DEF ParserStep
<1> HIDE DEF C
<1>7. StepsLeft' \in Nat /\ StepsLeft \in Nat /\ StepsLeft' < StepsLeft
  <2>1. CASE Reads
    BY <1>0, <1>1, <1>2, <1>3, <1>4, <2>1, Outweighs
  <2>2. CASE Waits /\ Pending' < Pending
    <3>1. C * Unread \in Nat
      BY <1>0, <1>1
    <3> QED BY <1>2, <1>3, <1>5, <2>2, <3>1
  <2> QED BY <1>6, <2>1, <2>2
<1> QED BY <1>7

\* Before the parser there are the passes, from one sequence of tokens to another.
Before == {"none", "lexed", "inserted", "joined", "replaced"}

ProgressInv ==
    /\ StackInv
    /\ outcome \in Before => IsSequence(tokens) /\ stack = <<>> /\ ret = Parser!NoNode
    /\ Parser!Parsing => Awaiting

LEMMA LexedIsSequence == IsSequence(token_list_) => IsSequence(Lexed)
<1> SUFFICES ASSUME IsSequence(token_list_) PROVE IsSequence(Lexed)
  OBVIOUS
<1>1. Len(token_list_) \in Nat /\ DOMAIN token_list_ = 1..Len(token_list_)
  BY SequenceDomain
<1> DEFINE S == {TokenOf(token_list_[i]) : i \in DOMAIN token_list_}
<1>2. Lexed \in [1..Len(token_list_) -> S]
  BY <1>1 DEF Lexed
<1> HIDE DEF S
<1>3. Lexed \in Seq(S)
  BY <1>1, <1>2
<1> QED BY <1>3 DEF IsSequence

LEMMA InitProgress == EvaluateInit => ProgressInv
<1> SUFFICES ASSUME EvaluateInit PROVE ProgressInv
  OBVIOUS
<1>1. stack = <<>> /\ ret = Parser!NoNode /\ tokens = <<>> /\ outcome = "none"
  BY DEF EvaluateInit, Parser!Init
<1>2. IsSequence(<<>>) /\ Len(<<>>) = 0
  <2>1. <<>> \in Seq({}) /\ Len(<<>>) = 0
    OBVIOUS
  <2> QED BY <2>1 DEF IsSequence
<1> QED BY <1>1, <1>2 DEF ProgressInv, StackInv, Counted, Parser!Parsing

\* While it parses, every step of the parser is one that is left over.
LEMMA ParsingAdvances ==
    ASSUME ProgressInv, Parser!Parsing, Parser!Next, outcome' = "parsing"
    PROVE  Awaiting' /\ StepsLeft' \in 0..StepsLeft - 1
<1>1. StackInv /\ StackInv'
  BY StepsOnStack, StackStepInv DEF ProgressInv
<1>2. Awaiting /\ ParserStep
  BY <1>1, StepsForward DEF ProgressInv
<1>3. Awaiting'
  BY <1>1, <1>2, StepAwaits
<1> QED BY <1>1, <1>2, <1>3, StepCounts

LEMMA PassesProgress ==
    ASSUME ProgressInv, ~Parser!Parsing, Parser!Next
    PROVE  ProgressInv'
<1>0. StackInv'
  BY StepsOnStack, StackStepInv DEF ProgressInv
<1>1. \/ Parser!compile_empty \/ Parser!run_inserters \/ Parser!run_joiners \/ Parser!run_modifiers
      \/ Parser!run_scanners
  BY Parser!Next, ~Parser!Parsing
     DEF Parser!Next, Parser!expression_begin, Parser!expression_branch, Parser!expression_operator, Parser!expression_end,
         Parser!expression_combine, Parser!expression_ternary, Parser!branch_number, Parser!branch_symbol,
         Parser!branch_bracket, Parser!branch_bracket_end, Parser!branch_sign, Parser!branch_signed,
         Parser!branch_error, Parser!branch_end, Parser!branch_ternary, Parser!ternary_begin,
         Parser!ternary_consequent, Parser!ternary_alternative, Parser!Begins, Parser!Resumes, Parser!In,
         Parser!parse_corpus_begin, Parser!parse_corpus_end
<1>2. stack = <<>> /\ ret = Parser!NoNode /\ IsSequence(tokens) /\ stack' = <<>> /\ ret' = Parser!NoNode
  <2>1. outcome \in Before /\ stack' = stack /\ ret' = ret
    BY <1>1 DEF Parser!compile_empty, Parser!run_inserters, Parser!run_joiners, Parser!run_modifiers,
                Parser!run_scanners, Parser!Pass, Before
  <2> QED BY <2>1 DEF ProgressInv
<1>3. CASE Parser!compile_empty
  <2>1. outcome' = "error"
    BY <1>3 DEF Parser!compile_empty
  <2> QED BY <1>0, <2>1 DEF ProgressInv, Before, Parser!Parsing
<1>4. CASE Parser!run_inserters \/ Parser!run_joiners \/ Parser!run_modifiers
  <2>1. outcome' # "parsing"
    BY <1>4 DEF Parser!run_inserters, Parser!run_joiners, Parser!run_modifiers, Parser!Pass
  <2>2. tokens' \in {Parser!Inserted(tokens), Parser!process_stride_3(Parser!process_stride_2(tokens)),
                     Parser!Replaced(tokens)}
    BY <1>4 DEF Parser!run_inserters, Parser!run_joiners, Parser!run_modifiers, Parser!Pass
  <2>3. IsSequence(Parser!process_stride_3(Parser!process_stride_2(tokens)))
    <3>1. IsSequence(Parser!process_stride_2(tokens))
      BY <1>2, Stride2Keeps
    <3> QED BY <3>1, Stride3Keeps
  <2>4. IsSequence(tokens')
    BY <1>2, <2>2, <2>3, InsertedKeeps, ReplacedKeeps
  <2> QED BY <1>0, <1>2, <2>1, <2>4 DEF ProgressInv, IsSequence, Parser!Parsing
<1>5. CASE Parser!run_scanners
  <2>1. outcome' = "error" \/ (outcome' = "parsing" /\ token_itr_' = 2 /\ tokens' = tokens)
    BY <1>5 DEF Parser!run_scanners
  <2>2. CASE outcome' = "error"
    BY <1>0, <2>2 DEF ProgressInv, Before, Parser!Parsing
  <2>3. CASE outcome' = "parsing" /\ token_itr_' = 2 /\ tokens' = tokens
    <3>1. Len(tokens) \in Nat
      BY <1>2, SequenceDomain
    <3>2. InPlace(tokens', token_itr_')
      BY <1>2, <2>3, <3>1 DEF InPlace
    <3>3. Len(stack') = 0
      BY <1>2
    <3>4. Awaiting'
      BY <1>2, <3>2, <3>3 DEF Awaiting, Parser!NoNode
    <3> QED BY <1>0, <2>3, <3>4 DEF ProgressInv, Before, Parser!Parsing
  <2> QED BY <2>1, <2>2, <2>3
<1> QED BY <1>1, <1>3, <1>4, <1>5

LEMMA KeptProgress ==
    ASSUME ProgressInv, UNCHANGED parser_
    PROVE  ProgressInv'
<1>1. UNCHANGED <<tokens, token_itr_, stack, ret, outcome>>
  BY DEF parser_
<1>2. StackInv'
  BY <1>1, StackStepInv DEF StackStep, ProgressInv
<1>3. InPlace(tokens, token_itr_) => InPlace(tokens', token_itr_')
  BY <1>1
<1>4. Awaiting => Awaiting'
  BY <1>1, <1>3 DEF Awaiting, Sound, IsNode, Parser!NoNode, Parser!token_is, Parser!current_token
<1> QED BY <1>1, <1>2, <1>4 DEF ProgressInv, IsSequence, Before, Parser!Parsing, Parser!NoNode

LEMMA StepProgress ==
    ProgressInv /\ IsSequence(token_list_) /\ [EvaluateNext]_evaluateVars => ProgressInv'
<1> SUFFICES ASSUME ProgressInv, IsSequence(token_list_), [EvaluateNext]_evaluateVars PROVE ProgressInv'
  OBVIOUS
<1>1. CASE parse
  <2>1. CASE Parser!Parsing
    <3>1. StackInv'
      BY <1>1, StepsOnStack, StackStepInv DEF ProgressInv, parse
    <3>2. outcome' \notin Before
      <4>1. outcome' \in {"parsing", "error", "compiled"}
        BY <1>1, <2>1
           DEF parse, Parser!Parsing, Parser!Next, Parser!compile_empty, Parser!run_inserters, Parser!run_joiners,
               Parser!run_modifiers, Parser!run_scanners, Parser!Pass,
               Parser!expression_begin, Parser!expression_branch, Parser!expression_operator, Parser!expression_end,
               Parser!expression_combine, Parser!expression_ternary, Parser!branch_number, Parser!branch_symbol,
               Parser!branch_bracket, Parser!branch_bracket_end, Parser!branch_sign, Parser!branch_signed,
               Parser!branch_error, Parser!branch_end, Parser!branch_ternary, Parser!ternary_begin,
               Parser!ternary_consequent, Parser!ternary_alternative, Parser!parse_corpus_begin, Parser!parse_corpus_end,
               Parser!Call, Parser!Stay, Parser!Return, Parser!Fail, Parser!BranchEnds
      <4> QED BY <4>1 DEF Before
    <3>3. outcome' = "parsing" => Awaiting'
      BY <1>1, <2>1, ParsingAdvances DEF parse
    <3> QED BY <3>1, <3>2, <3>3 DEF ProgressInv, Parser!Parsing
  <2>2. CASE ~Parser!Parsing
    BY <1>1, <2>2, PassesProgress DEF parse
  <2> QED BY <2>1, <2>2
<1>2. CASE compile_lexed \/ compile_fails
  <2>1. stack' = stack /\ ret' = ret /\ outcome = "none" /\ outcome' # "parsing"
    BY <1>2 DEF compile_lexed, compile_fails, Parser!Start, Parser!GiveUp
  <2>2. outcome' \in Before => tokens' = Lexed
    BY <1>2 DEF compile_lexed, compile_fails, Parser!Start, Parser!GiveUp, Before
  <2>3. StackInv'
    BY <2>1, StackStepInv DEF StackStep, ProgressInv
  <2>4. IsSequence(Lexed)
    BY LexedIsSequence
  <2>5. outcome' \in Before => IsSequence(tokens')
    BY <2>2, <2>4
  <2> QED BY <2>1, <2>3, <2>5 DEF ProgressInv, Before, Parser!Parsing, IsSequence
<1>3. CASE add_constant \/ lex \/ UNCHANGED evaluateVars
  <2>1. UNCHANGED parser_
    BY <1>3 DEF add_constant, lex, evaluateVars
  <2> QED BY <2>1, KeptProgress
<1> QED BY <1>1, <1>2, <1>3 DEF EvaluateNext

\* The tokens of the lexer are a sequence, and with them all that follows is in order.
LEMMA ProgressKept == EvaluateSpec => []ProgressInv
<1>1. TypeOK => IsSequence(token_list_)
  BY DEF TypeOK, IsSequence
<1>2. EvaluateSpec => []IsSequence(token_list_)
  BY <1>1, LexesAsLexer, LexerTyping, PTL
<1> QED BY <1>2, InitProgress, StepProgress, PTL DEF EvaluateSpec

\* However long the expression is and however deep it nests, the parser never goes round
\* in circles: each of its steps is one of those that were left.
THEOREM ParserAlwaysAdvances == EvaluateSpec => ParserAdvances
<1>1. ProgressInv /\ [EvaluateNext]_evaluateVars =>
          [Parser!Parsing => outcome' # "parsing" \/ StepsLeft' \in 0..StepsLeft - 1]_parser_
  <2> SUFFICES ASSUME ProgressInv, [EvaluateNext]_evaluateVars, Parser!Parsing, outcome' = "parsing",
                      ~UNCHANGED parser_
               PROVE  StepsLeft' \in 0..StepsLeft - 1
    OBVIOUS
  <2>1. ~compile_lexed /\ ~compile_fails
    BY DEF compile_lexed, compile_fails, Parser!Start, Parser!GiveUp, Parser!Parsing
  <2>2. ~add_constant /\ ~lex /\ ~UNCHANGED evaluateVars
    BY DEF add_constant, lex, evaluateVars
  <2>3. Parser!Next
    BY <2>1, <2>2 DEF EvaluateNext, parse
  <2> QED BY <2>3, ParsingAdvances
<1> QED BY <1>1, ProgressKept, PTL DEF EvaluateSpec, ParserAdvances

\* However the functions of the parser call each other, a value finds the function that
\* waits for it.
THEOREM ReturnsAlwaysAwaited == EvaluateSpec => []ReturnsAreAwaited
<1>1. ProgressInv => ReturnsAreAwaited
  <2> SUFFICES ASSUME ProgressInv, Parser!Parsing PROVE ReturnsAreAwaited
    BY DEF ReturnsAreAwaited
  <2>1. stack # <<>> => Parser!Top = stack[1]
    BY TopFrame DEF ProgressInv
  <2> QED BY <2>1 DEF ProgressInv, Awaiting, ReturnsAreAwaited
<1> QED BY <1>1, ProgressKept, PTL

-----------------------------------------------------------------------------
(* All of evaluate_expression comes to an end *)

LEMMA FurtherIsLess ==
    ASSUME NEW last \in Nat, NEW i \in Int, NEW j \in Int, i < j, j <= last + 1
    PROVE  last + 2 - j \in Nat /\ last + 2 - j < last + 2 - i
OBVIOUS

\* A turn of the lexer's loops is one of those that were left.
LEMMA TurnIsOneLess ==
    ASSUME IInv, Next
    PROVE  TurnsLeft' \in Nat /\ TurnsLeft' < TurnsLeft
<1>1. TypeOK /\ TypeOK' /\ Moves /\ LoopStep
  BY NextMoves DEF IInv
<1>2. n \in Nat /\ s_itr_ \in 1..n + 1
  BY <1>1, LengthIsNat DEF TypeOK
<1>3. TurnsLeft = n + 2 - s_itr_
  BY <1>1 DEF TurnsLeft, LoopStep
<1>4. CASE result' = "running"
  <2>1. n' = n /\ s_itr_' > s_itr_
    BY <1>1, <1>4 DEF LoopStep, Moves, n
  <2>2. s_itr_' \in 1..n + 1
    BY <1>1, <2>1 DEF TypeOK
  <2>3. TurnsLeft' = n + 2 - s_itr_'
    BY <1>4, <2>1 DEF TurnsLeft
  <2>4. n + 2 - s_itr_' \in Nat /\ n + 2 - s_itr_' < n + 2 - s_itr_
    <3>1. n \in Nat /\ s_itr_ \in Int /\ s_itr_' \in Int /\ s_itr_ < s_itr_' /\ s_itr_' <= n + 1
      BY <1>2, <2>1, <2>2
    <3> QED BY <3>1, FurtherIsLess
  <2> QED BY <1>3, <2>3, <2>4
<1>5. CASE result' # "running"
  <2>1. TurnsLeft' = 0
    BY <1>5 DEF TurnsLeft
  <2> QED BY <1>2, <1>3, <2>1
<1> QED BY <1>4, <1>5

\* A pass over the tokens, and the end of the parser, leave one less of what is to do.
LEMMA PassIsOneLess ==
    /\ compile_lexed \/ compile_fails => PassesLeft' < PassesLeft
    /\ Parser!Next => PassesLeft' < PassesLeft \/ (outcome = "parsing" /\ outcome' = "parsing")
<1>1. compile_lexed \/ compile_fails => outcome = "none" /\ outcome' \in {"lexed", "error", "other"}
  BY DEF compile_lexed, compile_fails, Parser!Start, Parser!GiveUp
<1>2. Parser!Next =>
         \/ outcome = "lexed" /\ outcome' \in {"inserted", "error"}
         \/ outcome = "inserted" /\ outcome' = "joined"
         \/ outcome = "joined" /\ outcome' = "replaced"
         \/ outcome = "replaced" /\ outcome' \in {"parsing", "error"}
         \/ outcome = "parsing" /\ outcome' \in {"parsing", "compiled", "error"}
  BY DEF Parser!Parsing, Parser!Next, Parser!compile_empty, Parser!run_inserters, Parser!run_joiners,
         Parser!run_modifiers, Parser!run_scanners, Parser!Pass, Parser!Begins, Parser!Resumes, Parser!In,
         Parser!expression_begin, Parser!expression_branch, Parser!expression_operator, Parser!expression_end,
         Parser!expression_combine, Parser!expression_ternary, Parser!branch_number, Parser!branch_symbol,
         Parser!branch_bracket, Parser!branch_bracket_end, Parser!branch_sign, Parser!branch_signed,
         Parser!branch_error, Parser!branch_end, Parser!branch_ternary, Parser!ternary_begin,
         Parser!ternary_consequent, Parser!ternary_alternative, Parser!parse_corpus_begin, Parser!parse_corpus_end,
         Parser!Call, Parser!Stay, Parser!Return, Parser!Fail, Parser!BranchEnds
<1> QED BY <1>1, <1>2 DEF PassesLeft

\* Whatever the variables and the expression are, evaluate_expression takes as many steps
\* as there are names, turns, passes and steps left, and no more (exprtk_impl.cc:14-27).
THEOREM EvaluationAlwaysAdvances == EvaluateSpec => EvaluationAdvances
<1>1. IInv /\ ProgressInv /\ [EvaluateNext]_evaluateVars =>
         [\/ to_add' \subseteq to_add /\ to_add' # to_add
          \/ to_add' = to_add /\ TurnsLeft' \in Nat /\ TurnsLeft' < TurnsLeft
          \/ UNCHANGED <<to_add, TurnsLeft>> /\ PassesLeft' < PassesLeft
          \/ /\ UNCHANGED <<to_add, TurnsLeft, outcome>> /\ outcome = "parsing"
             /\ StepsLeft' \in 0..StepsLeft - 1]_evaluateVars
  <2> SUFFICES ASSUME IInv, ProgressInv, EvaluateNext
               PROVE  \/ to_add' \subseteq to_add /\ to_add' # to_add
                      \/ to_add' = to_add /\ TurnsLeft' \in Nat /\ TurnsLeft' < TurnsLeft
                      \/ UNCHANGED <<to_add, TurnsLeft>> /\ PassesLeft' < PassesLeft
                      \/ /\ UNCHANGED <<to_add, TurnsLeft, outcome>> /\ outcome = "parsing"
                         /\ StepsLeft' \in 0..StepsLeft - 1
    OBVIOUS
  <2>1. CASE add_constant
    BY <2>1 DEF add_constant
  <2>2. CASE lex
    BY <2>2, TurnIsOneLess DEF lex, table_
  <2>3. CASE compile_lexed \/ compile_fails
    <3>1. UNCHANGED <<to_add, TurnsLeft>>
      BY <2>3 DEF compile_lexed, compile_fails, vars, table_, TurnsLeft, n
    <3> QED BY <2>3, <3>1, PassIsOneLess
  <2>4. CASE parse
    <3>1. UNCHANGED <<to_add, TurnsLeft>> /\ Parser!Next
      BY <2>4 DEF parse, vars, table_, TurnsLeft, n
    <3>2. CASE outcome = "parsing" /\ outcome' = "parsing"
      <4>1. StepsLeft' \in 0..StepsLeft - 1
        BY <3>1, <3>2, ParsingAdvances DEF Parser!Parsing
      <4> QED BY <3>1, <3>2, <4>1
    <3> QED BY <3>1, <3>2, PassIsOneLess
  <2> QED BY <2>1, <2>2, <2>3, <2>4 DEF EvaluateNext
<1>2. EvaluateSpec => []IInv
  BY LexesAsLexer, LexerInvariant, PTL
<1> QED BY <1>1, <1>2, ProgressKept, PTL DEF EvaluateSpec, EvaluationAdvances

-----------------------------------------------------------------------------
(* What the values of the parser mean *)

LEMMA NoLeast ==
    ASSUME NEW S, S \subseteq Nat, S # {}
    PROVE  \E m \in S : \A t \in S : m <= t
<1>1. PICK m \in S : \A t \in S : ~(<<t, m>> \in OpToRel(<, Nat))
  BY NatLessThanWellFounded, WFMin
<1>2. \A t \in S : ~(t < m)
  BY <1>1 DEF OpToRel
<1>3. \A t \in S : m <= t
  BY <1>2
<1> QED BY <1>3

\* The levels of the parser, and 12 for an operand of "^".  A sign "+" in front makes no
\* difference to it.
Ranks == {0, 1, 3, 5, 7, 10, 11, 12}

LevelOf == [r \in Ranks |->
    CASE r = 0 -> 0 [] r = 1 -> 1 [] r = 3 -> 2 [] r = 5 -> 3 [] r = 7 -> 4 [] r = 10 -> 5
      [] r = 11 -> 6 [] r = 12 -> 8]

Ranked(M, s, i, j, x, r) ==
    /\ r \in Ranks
    /\ \E w \in i..j :
          /\ w = i \/ r = 12
          /\ \A k \in i..w - 1 : s[k].type = "+"
          /\ <<w, j, LevelOf[r], x>> \in M

\* Each level has what is tighter.
LEMMA Looser ==
    ASSUME NEW M, NEW s, Parser!IsGrammar(M, s), NEW i \in DOMAIN s, NEW j \in DOMAIN s,
           NEW l \in 0..8, NEW m \in 0..l, NEW x, <<i, j, l, x>> \in M
    PROVE  <<i, j, m, x>> \in M
<1>1. \A a \in 1..8 : <<i, j, a, x>> \in M => <<i, j, a - 1, x>> \in M
  BY DEF Parser!IsGrammar, Parser!LevelRule, Parser!Atom
<1>2. /\ <<i, j, 8, x>> \in M => <<i, j, 7, x>> \in M
      /\ <<i, j, 7, x>> \in M => <<i, j, 6, x>> \in M
      /\ <<i, j, 6, x>> \in M => <<i, j, 5, x>> \in M
      /\ <<i, j, 5, x>> \in M => <<i, j, 4, x>> \in M
      /\ <<i, j, 4, x>> \in M => <<i, j, 3, x>> \in M
      /\ <<i, j, 3, x>> \in M => <<i, j, 2, x>> \in M
      /\ <<i, j, 2, x>> \in M => <<i, j, 1, x>> \in M
      /\ <<i, j, 1, x>> \in M => <<i, j, 0, x>> \in M
  <2>1. \A a \in 1..8 : \A b : b = a - 1 /\ <<i, j, a, x>> \in M => <<i, j, b, x>> \in M
    BY <1>1
  <2> QED BY <2>1
<1>3. l \in {0, 1, 2, 3, 4, 5, 6, 7, 8} /\ m \in {0, 1, 2, 3, 4, 5, 6, 7, 8} /\ m <= l
  OBVIOUS
<1> QED BY <1>2, <1>3

\* Signs "+" in front.
LEMMA PlusesKeep ==
    ASSUME NEW M, NEW s, Parser!IsGrammar(M, s), NEW i \in Nat, NEW j \in Nat, NEW w \in i..j,
           i..j \subseteq DOMAIN s, \A k \in i..w - 1 : s[k].type = "+",
           NEW x, <<w, j, 6, x>> \in M
    PROVE  <<i, j, 6, x>> \in M
<1> DEFINE Off == {d \in 0..w - i : <<w - d, j, 6, x>> \notin M}
<1>1. Off = {}
  <2> SUFFICES ASSUME Off # {} PROVE FALSE
    OBVIOUS
  <2>1. Off \subseteq Nat
    OBVIOUS
  <2>2. PICK d \in Off : \A t \in Off : d <= t
    <3> HIDE DEF Off
    <3> QED BY <2>1, NoLeast
  <2>3. d \in 0..w - i /\ <<w - d, j, 6, x>> \notin M
    BY <2>2
  <2>4. d # 0
    <3>1. w - 0 = w
      OBVIOUS
    <3> QED BY <2>3, <3>1
  <2>5. d - 1 \in 0..w - i /\ d - 1 \notin Off
    <3> HIDE DEF Off
    <3> QED BY <2>2, <2>3, <2>4
  <2>6. <<w - (d - 1), j, 6, x>> \in M
    BY <2>5
  <2>7. w - d \in i..w - 1 /\ w - (d - 1) = (w - d) + 1 /\ w - d \in DOMAIN s /\ j \in DOMAIN s
    BY <2>3, <2>4
  <2>8. s[w - d].type = "+" /\ <<(w - d) + 1, j, 6, x>> \in M
    BY <2>6, <2>7
  <2>9. <<w - d, j, 6, x>> \in M
    BY <2>7, <2>8 DEF Parser!IsGrammar, Parser!SignRule, Parser!Signed
  <2> QED BY <2>3, <2>9
<1>2. w - i \in 0..w - i /\ w - (w - i) = i
  OBVIOUS
<1> QED BY <1>1, <1>2

\* What a value is, it is at each level that binds no tighter.
LEMMA RankedAt ==
    ASSUME NEW M, NEW s, Parser!IsGrammar(M, s), NEW i \in Nat, NEW j \in Nat, i..j \subseteq DOMAIN s,
           NEW x, NEW r, Ranked(M, s, i, j, x, r), NEW l \in 0..6, l <= LevelOf[r]
    PROVE  i <= j /\ <<i, j, l, x>> \in M
<1>1. PICK w \in i..j : /\ w = i \/ r = 12
                        /\ \A k \in i..w - 1 : s[k].type = "+"
                        /\ <<w, j, LevelOf[r], x>> \in M
  BY DEF Ranked
<1>2. r \in Ranks /\ LevelOf[r] \in 0..8 /\ (r = 12 => LevelOf[r] = 8)
  BY DEF Ranked, LevelOf, Ranks
<1>3. i <= j /\ i \in DOMAIN s /\ j \in DOMAIN s /\ w \in DOMAIN s
  BY <1>1
<1>4. CASE w = i
  BY <1>1, <1>2, <1>3, <1>4, Looser
<1>5. CASE r = 12
  <2>1. <<w, j, 6, x>> \in M
    BY <1>1, <1>2, <1>3, <1>5, Looser
  <2>2. <<i, j, 6, x>> \in M
    BY <1>1, <2>1, PlusesKeep
  <2> QED BY <1>3, <2>2, Looser
<1> QED BY <1>1, <1>3, <1>4, <1>5

LEMMA RankedAsSigned ==
    ASSUME NEW M, NEW s, Parser!IsGrammar(M, s), NEW i \in Nat, NEW j \in Nat, i..j \subseteq DOMAIN s,
           NEW x, NEW r, Ranked(M, s, i, j, x, r), r >= 11
    PROVE  <<i, j, 6, x>> \in M
<1>1. 6 <= LevelOf[r]
  BY DEF Ranked, LevelOf, Ranks
<1>2. \A l \in 0..6 : l <= LevelOf[r] => <<i, j, l, x>> \in M
  BY RankedAt
<1> HIDE DEF LevelOf
<1> QED BY <1>1, <1>2

LEMMA RankedAsAny ==
    ASSUME NEW M, NEW s, Parser!IsGrammar(M, s), NEW i \in Nat, NEW j \in Nat, i..j \subseteq DOMAIN s,
           NEW x, NEW r, Ranked(M, s, i, j, x, r)
    PROVE  <<i, j, 0, x>> \in M
<1>1. 0 <= LevelOf[r]
  BY DEF Ranked, LevelOf, Ranks
<1>2. \A l \in 0..6 : l <= LevelOf[r] => <<i, j, l, x>> \in M
  BY RankedAt
<1> QED BY <1>1, <1>2

BinaryOperators ==
    Parser!OrOperators \cup Parser!AndOperators \cup Parser!Comparisons \cup {"+", "-", "*", "/", "%", "^"}

OperatorLeft(op)  == Parser!precedence_level(op).left
OperatorRight(op) == Parser!precedence_level(op).right

\* The levels of the operators, as the parser compares them and in the grammar.
LEMMA OperatorLevels ==
    ASSUME NEW op \in BinaryOperators, op # "^"
    PROVE  \E l \in 1..5 :
              /\ op \in Parser!Tightness[l]
              /\ OperatorLeft(op) \in Ranks /\ LevelOf[OperatorLeft(op)] = l
              /\ \A r \in Ranks : OperatorLeft(op) <= r => l <= LevelOf[r]
              /\ \A r \in Ranks : r >= OperatorRight(op) \/ r >= 11 => l + 1 <= LevelOf[r]
<1> USE DEF OperatorLeft, OperatorRight, Parser!precedence_level, Parser!Levels, Ranks, LevelOf, Parser!Tightness
<1>1. CASE op \in Parser!OrOperators
  <2>1. op \notin Parser!AndOperators /\ op \notin Parser!Comparisons /\ op \notin {"+", "-", "*", "/", "%", "in", "like", "ilike"}
    BY <1>1 DEF Parser!OrOperators, Parser!AndOperators, Parser!Comparisons
  <2>2. OperatorLeft(op) = 1 /\ OperatorRight(op) = 2
    BY <1>1, <2>1
  <2>3. op \in Parser!Tightness[1]
    BY <1>1
  <2> HIDE DEF OperatorLeft, OperatorRight, Parser!Tightness
  <2> QED BY <2>2, <2>3
<1>2. CASE op \in Parser!AndOperators
  <2>1. op \notin Parser!OrOperators /\ op \notin Parser!Comparisons /\ op \notin {"+", "-", "*", "/", "%", "in", "like", "ilike"}
    BY <1>2 DEF Parser!OrOperators, Parser!AndOperators, Parser!Comparisons
  <2>2. OperatorLeft(op) = 3 /\ OperatorRight(op) = 4
    BY <1>2, <2>1
  <2>3. op \in Parser!Tightness[2]
    BY <1>2
  <2> HIDE DEF OperatorLeft, OperatorRight, Parser!Tightness
  <2> QED BY <2>2, <2>3
<1>3. CASE op \in Parser!Comparisons
  <2>1. op \notin Parser!OrOperators /\ op \notin Parser!AndOperators /\ op \notin {"+", "-", "*", "/", "%", "in", "like", "ilike"}
    BY <1>3 DEF Parser!OrOperators, Parser!AndOperators, Parser!Comparisons
  <2>2. OperatorLeft(op) = 5 /\ OperatorRight(op) = 6
    BY <1>3, <2>1
  <2>3. op \in Parser!Tightness[3]
    BY <1>3
  <2> HIDE DEF OperatorLeft, OperatorRight, Parser!Tightness
  <2> QED BY <2>2, <2>3
<1>4. CASE op \in {"+", "-"}
  <2>1. op \notin Parser!OrOperators /\ op \notin Parser!AndOperators /\ op \notin Parser!Comparisons
    BY <1>4 DEF Parser!OrOperators, Parser!AndOperators, Parser!Comparisons
  <2>2. OperatorLeft(op) = 7 /\ OperatorRight(op) = 8
    BY <1>4, <2>1
  <2>3. op \in Parser!Tightness[4]
    BY <1>4
  <2> HIDE DEF OperatorLeft, OperatorRight, Parser!Tightness
  <2> QED BY <2>2, <2>3
<1>5. CASE op \in {"*", "/", "%"}
  <2>1. op \notin Parser!OrOperators /\ op \notin Parser!AndOperators /\ op \notin Parser!Comparisons
    BY <1>5 DEF Parser!OrOperators, Parser!AndOperators, Parser!Comparisons
  <2>2. OperatorLeft(op) = 10 /\ OperatorRight(op) = 11
    BY <1>5, <2>1
  <2>3. op \in Parser!Tightness[5]
    BY <1>5
  <2> HIDE DEF OperatorLeft, OperatorRight, Parser!Tightness
  <2> QED BY <2>2, <2>3
<1> QED BY <1>1, <1>2, <1>3, <1>4, <1>5 DEF BinaryOperators

LEMMA PowerLevels == OperatorLeft("^") = 12 /\ OperatorRight("^") = 12
BY DEF OperatorLeft, OperatorRight, Parser!precedence_level, Parser!Levels, Parser!OrOperators,
       Parser!AndOperators, Parser!Comparisons

\* An operator, or a product put in, is between what ends at e and what begins at c.
Between(s, e, op, c) ==
    \/ c = e + 2 /\ Parser!OperatorOf(s[e + 1]) = op
    \/ c = e + 3 /\ op = "*" /\ Parser!PutIn(s, e + 1)

LEMMA CombinedIsRanked ==
    ASSUME NEW M, NEW s, Parser!IsGrammar(M, s), NEW i \in Nat, NEW e \in Nat, NEW c \in Nat, NEW j \in Nat,
           i..j \subseteq DOMAIN s,
           NEW op \in BinaryOperators, Between(s, e, op, c),
           NEW x, NEW r, Ranked(M, s, i, e, x, r), OperatorLeft(op) <= r,
           NEW y, NEW q, Ranked(M, s, c, j, y, q), q >= OperatorRight(op) \/ q >= 11
    PROVE  Ranked(M, s, i, j, Parser!Node(op, x, y), IF op = "^" THEN 11 ELSE OperatorLeft(op))
<1>1. i <= e /\ c <= j /\ r \in Ranks /\ q \in Ranks
  BY DEF Ranked
<1>2. c \in {e + 2, e + 3} /\ i..e \subseteq DOMAIN s /\ c..j \subseteq DOMAIN s
      /\ i \in DOMAIN s /\ j \in DOMAIN s /\ e + 1 \in DOMAIN s /\ i <= j
  BY <1>1 DEF Between
<1>3. CASE op # "^"
  <2>1. PICK l \in 1..5 :
              /\ op \in Parser!Tightness[l]
              /\ OperatorLeft(op) \in Ranks /\ LevelOf[OperatorLeft(op)] = l
              /\ \A p \in Ranks : OperatorLeft(op) <= p => l <= LevelOf[p]
              /\ \A p \in Ranks : p >= OperatorRight(op) \/ p >= 11 => l + 1 <= LevelOf[p]
    BY <1>3, OperatorLevels
  <2>a. l \in 0..6 /\ l <= LevelOf[r] /\ l + 1 \in 0..6 /\ l + 1 <= LevelOf[q]
    BY <1>1, <2>1
  <2>2. <<i, e, l, x>> \in M
    BY <1>2, <2>a, RankedAt
  <2>3. <<c, j, l + 1, y>> \in M
    BY <1>2, <2>a, RankedAt
  <2>4. <<i, j, l, Parser!Node(op, x, y)>> \in M
    <3>1. CASE c = e + 2 /\ Parser!OperatorOf(s[e + 1]) = op
      <4> DEFINE k == e + 1
      <4>1. k \in DOMAIN s /\ k - 1 = e /\ k + 1 = c /\ Parser!OperatorOf(s[k]) = op
        BY <1>2, <3>1
      <4> HIDE DEF k
      <4>2. <<i, k - 1, l, x>> \in M /\ <<k + 1, j, l + 1, y>> \in M /\ Parser!OperatorOf(s[k]) \in Parser!Tightness[l]
        BY <2>1, <2>2, <2>3, <4>1
      <4>3. <<i, j, l, Parser!Node(Parser!OperatorOf(s[k]), x, y)>> \in M
        BY <1>2, <4>1, <4>2 DEF Parser!IsGrammar, Parser!BinaryRule, Parser!Product
      <4> QED BY <4>1, <4>3
    <3>2. CASE c = e + 3 /\ op = "*" /\ Parser!PutIn(s, e + 1)
      <4> DEFINE k == e + 1
      <4>1. k \in DOMAIN s /\ k - 1 = e /\ k + 2 = c /\ Parser!PutIn(s, k)
        BY <1>2, <3>2
      <4>2. l = 5
        BY <2>1, <3>2 DEF Parser!Tightness, Parser!OrOperators, Parser!AndOperators, Parser!Comparisons
      <4> HIDE DEF k
      <4>3. <<i, k - 1, 5, x>> \in M /\ <<k + 2, j, 6, y>> \in M
        BY <2>2, <2>3, <4>1, <4>2
      <4>4. <<i, j, 5, Parser!Node("*", x, y)>> \in M
        BY <1>2, <4>1, <4>3 DEF Parser!IsGrammar, Parser!ProductRule, Parser!Product, Parser!Signed, Parser!PutIn
      <4> QED BY <3>2, <4>2, <4>4
    <3> QED BY <3>1, <3>2 DEF Between
  <2>5. i \in i..j /\ \A k \in i..i - 1 : s[k].type = "+"
    BY <1>2
  <2> QED BY <1>3, <2>1, <2>4, <2>5 DEF Ranked
<1>4. CASE op = "^"
  <2>1. r = 12 /\ q >= 11
    BY <1>1, <1>4, PowerLevels DEF Ranks
  <2>2. <<c, j, 6, y>> \in M
    BY <1>2, <2>1, RankedAsSigned
  <2>3. PICK w \in i..e : (\A k \in i..w - 1 : s[k].type = "+") /\ <<w, e, 8, x>> \in M
    BY <2>1 DEF Ranked, LevelOf, Ranks
  <2> DEFINE k == e + 1
  <2>4. k \in DOMAIN s /\ k - 1 = e /\ k + 1 = c /\ Parser!OperatorOf(s[k]) = "^"
    BY <1>2, <1>4 DEF Between
  <2> HIDE DEF k
  <2>5. s[k].type = "^"
    BY <2>4 DEF Parser!OperatorOf, Parser!OrOperators, Parser!AndOperators
  <2>6. w \in DOMAIN s /\ <<w, k - 1, 8, x>> \in M /\ <<k + 1, j, 6, y>> \in M
    BY <1>2, <2>2, <2>3, <2>4
  <2>7. <<w, j, 7, Parser!Node("^", x, y)>> \in M
    BY <1>2, <2>4, <2>5, <2>6 DEF Parser!IsGrammar, Parser!PowerRule, Parser!Atom, Parser!Signed, Parser!Power
  <2>8. <<w, j, 6, Parser!Node("^", x, y)>> \in M
    BY <1>2, <2>6, <2>7, Looser
  <2>9. w \in i..j
    BY <1>1, <1>2
  <2>10. <<i, j, 6, Parser!Node("^", x, y)>> \in M
    BY <2>3, <2>8, <2>9, PlusesKeep
  <2>11. i \in i..j /\ \A m \in i..i - 1 : s[m].type = "+"
    BY <1>2
  <2> QED BY <1>4, <2>10, <2>11 DEF Ranked, LevelOf, Ranks
<1> QED BY <1>3, <1>4

\* The other rules.
LEMMA OperandIsRanked ==
    ASSUME NEW M, NEW s, NEW i \in Nat, NEW x, <<i, i, 8, x>> \in M
    PROVE  Ranked(M, s, i, i, x, 12)
BY DEF Ranked, Ranks, LevelOf

\* A ";" before ")", which is skipped.
Skipped(s, j) == s[j].type = ")" /\ j - 1 \in DOMAIN s /\ s[j - 1].type = ";"

LEMMA BracketsGive ==
    ASSUME NEW M, NEW s, Parser!IsGrammar(M, s), NEW i \in DOMAIN s, NEW j \in DOMAIN s,
           s[i].type \in Parser!LeftBrackets, s[j].type = Parser!Closing[s[i].type], NEW x,
           <<i + 1, j - 1, 0, x>> \in M \/ (Skipped(s, j) /\ <<i + 1, j - 2, 0, x>> \in M)
    PROVE  <<i, j, 8, x>> \in M
BY Zenon DEF Parser!IsGrammar, Parser!BracketRule, Parser!Atom, Skipped

LEMMA BracketsAreRanked ==
    ASSUME NEW M, NEW s, Parser!IsGrammar(M, s), NEW i \in Nat, NEW j \in Nat, i..j \subseteq DOMAIN s,
           NEW e \in Nat, NEW x, NEW r, Ranked(M, s, i + 1, e, x, r),
           s[i].type \in Parser!LeftBrackets, s[j].type = Parser!Closing[s[i].type],
           j = e + 1 \/ (j = e + 2 /\ Skipped(s, j))
    PROVE  Ranked(M, s, i, j, x, 12)
<1>1. i + 1 <= e /\ r \in Ranks /\ i \in DOMAIN s /\ j \in DOMAIN s /\ (i + 1)..e \subseteq DOMAIN s
  BY DEF Ranked
<1>2. <<i + 1, e, 0, x>> \in M
  BY <1>1, RankedAsAny
<1>3. e = j - 1 \/ (e = j - 2 /\ Skipped(s, j))
  OBVIOUS
<1>4. <<i, j, 8, x>> \in M
  BY <1>1, <1>2, <1>3, BracketsGive
<1>5. i \in i..j /\ \A k \in i..i - 1 : s[k].type = "+"
  BY <1>1
<1> QED BY <1>4, <1>5 DEF Ranked, Ranks, LevelOf

LEMMA MinusIsRanked ==
    ASSUME NEW M, NEW s, Parser!IsGrammar(M, s), NEW i \in Nat, NEW j \in Nat, i..j \subseteq DOMAIN s,
           NEW x, NEW r, Ranked(M, s, i + 1, j, x, r), r >= 11, s[i].type = "-"
    PROVE  Ranked(M, s, i, j, Parser!Neg(x), 11)
<1>1. i + 1 <= j /\ r \in Ranks /\ i \in DOMAIN s /\ j \in DOMAIN s /\ (i + 1)..j \subseteq DOMAIN s
  BY DEF Ranked
<1>2. <<i + 1, j, 6, x>> \in M
  BY <1>1, RankedAsSigned
<1>3. <<i, j, 6, Parser!Neg(x)>> \in M
  BY <1>1, <1>2 DEF Parser!IsGrammar, Parser!SignRule, Parser!Signed
<1>4. i \in i..j /\ \A k \in i..i - 1 : s[k].type = "+"
  BY <1>1
<1> QED BY <1>3, <1>4 DEF Ranked, Ranks, LevelOf

LEMMA PlusIsRanked ==
    ASSUME NEW M, NEW s, Parser!IsGrammar(M, s), NEW i \in Nat, NEW j \in Nat, i..j \subseteq DOMAIN s,
           NEW x, NEW r, Ranked(M, s, i + 1, j, x, r), r >= 11, s[i].type = "+"
    PROVE  Ranked(M, s, i, j, x, r)
<1>1. i + 1 <= j /\ r \in Ranks /\ i \in DOMAIN s /\ j \in DOMAIN s /\ (i + 1)..j \subseteq DOMAIN s
  BY DEF Ranked
<1>2. CASE r = 11
  <2>1. <<i + 1, j, 6, x>> \in M
    BY <1>1, RankedAsSigned
  <2>2. <<i, j, 6, x>> \in M
    BY <1>1, <2>1 DEF Parser!IsGrammar, Parser!SignRule, Parser!Signed
  <2>3. i \in i..j /\ \A k \in i..i - 1 : s[k].type = "+"
    BY <1>1
  <2> QED BY <1>2, <2>2, <2>3 DEF Ranked, Ranks, LevelOf
<1>3. CASE r = 12
  <2>1. PICK w \in (i + 1)..j : (\A k \in (i + 1)..w - 1 : s[k].type = "+") /\ <<w, j, LevelOf[r], x>> \in M
    BY DEF Ranked
  <2>2. w \in i..j /\ \A k \in i..w - 1 : s[k].type = "+"
    BY <2>1
  <2> QED BY <1>1, <1>3, <2>1, <2>2 DEF Ranked
<1> QED BY <1>1, <1>2, <1>3 DEF Ranks

LEMMA TernaryIsRanked ==
    ASSUME NEW M, NEW s, Parser!IsGrammar(M, s), NEW i \in Nat, NEW j \in Nat, i..j \subseteq DOMAIN s,
           NEW k \in Nat, NEW l \in Nat, i < k, k < l,
           s[k].type = "?", s[l].type = ":",
           NEW c, <<i, k - 1, 1, c>> \in M, NEW x, <<k + 1, l - 1, 0, x>> \in M,
           NEW y, NEW r, Ranked(M, s, l + 1, j, y, r)
    PROVE  Ranked(M, s, i, j, Parser!Ternary(c, x, y), 0)
<1>1. l + 1 <= j /\ r \in Ranks
  BY DEF Ranked
<1>2. i \in DOMAIN s /\ j \in DOMAIN s /\ k \in DOMAIN s /\ l \in DOMAIN s /\ (l + 1)..j \subseteq DOMAIN s
  BY <1>1
<1>3. <<l + 1, j, 0, y>> \in M
  BY <1>1, <1>2, RankedAsAny
<1>4. <<i, j, 0, Parser!Ternary(c, x, y)>> \in M
  BY <1>2, <1>3 DEF Parser!IsGrammar, Parser!TernaryRule
<1>5. i \in i..j /\ \A m \in i..i - 1 : s[m].type = "+"
  BY <1>1
<1> QED BY <1>4, <1>5 DEF Ranked, Ranks, LevelOf

\* The tokens s[1..w], and what the grammar gives for them.
ReadPart(s, w) == [k \in 1..w |-> s[k]]

LEMMA GrammarOfLess ==
    ASSUME NEW M, NEW s, NEW t, NEW w \in Nat, NEW o \in Nat, w <= o, \A k \in 1..w : s[k] = t[k],
           Parser!IsGrammar(M, ReadPart(t, o))
    PROVE  Parser!IsGrammar(M, ReadPart(s, w))
<1> DEFINE g == ReadPart(t, o)
           h == ReadPart(s, w)
<1>1. DOMAIN h \subseteq DOMAIN g /\ \A k \in DOMAIN h : h[k] = g[k]
  BY DEF ReadPart
<1>2. Parser!IsGrammar(M, g)
  OBVIOUS
<1> HIDE DEF g, h
<1>3. Parser!IsGrammar(M, h)
  <2>1. Parser!OperandRule(M, h)
    BY <1>1, <1>2 DEF Parser!IsGrammar, Parser!OperandRule
  <2>2. Parser!BracketRule(M, h)
    BY <1>1, <1>2, Zenon DEF Parser!IsGrammar, Parser!BracketRule
  <2>3. Parser!PowerRule(M, h)
    BY <1>1, <1>2 DEF Parser!IsGrammar, Parser!PowerRule
  <2>4. Parser!SignRule(M, h)
    BY <1>1, <1>2 DEF Parser!IsGrammar, Parser!SignRule
  <2>5. Parser!BinaryRule(M, h)
    BY <1>1, <1>2 DEF Parser!IsGrammar, Parser!BinaryRule
  <2>6. Parser!ProductRule(M, h)
    BY <1>1, <1>2 DEF Parser!IsGrammar, Parser!ProductRule, Parser!PutIn
  <2>7. Parser!TernaryRule(M, h)
    BY <1>1, <1>2 DEF Parser!IsGrammar, Parser!TernaryRule
  <2>8. Parser!LevelRule(M, h)
    BY <1>1, <1>2 DEF Parser!IsGrammar, Parser!LevelRule
  <2> QED BY <2>1, <2>2, <2>3, <2>4, <2>5, <2>6, <2>7, <2>8 DEF Parser!IsGrammar
<1> QED BY <1>3 DEF h

-----------------------------------------------------------------------------
(* Where the parts of the tokens begin that the functions of the parser read *)

\* What has been read ends before the current token, or before the bracket that a product
\* was put in behind.
Upto(s, itr, e) == e = itr - 2 \/ (e = itr - 3 /\ Parser!PutIn(s, itr - 2))

NextOperator(s, itr) == Parser!OperatorOf(Parser!TokenAt(s, itr - 1))

NextBelow(s, itr, q) == NextOperator(s, itr) = "none" \/ ~(OperatorLeft(NextOperator(s, itr)) >= q)

\* The value x of what was read from b on binds as tightly as q asks for, and as the
\* operator that follows.
Held(M, s, itr, q, b, x) ==
    \E e \in Nat, r \in Ranks :
        /\ Upto(s, itr, e) /\ Ranked(M, s, b, e, x, r)
        /\ r >= q \/ r >= 11
        /\ NextBelow(s, itr, r + 1)

\* What a function returns: parse_expression has taken every operator it may.
Given(M, s, itr, fn, q, b, x) ==
    Held(M, s, itr, q, b, x) /\ (fn = "expression" => NextBelow(s, itr, q))

\* The frame f, whose part begins at b, waits for what fn makes of the part from c on.
WaitsAt(M, s, f, b, fn, q, c) ==
    \/ f.fn = "expression" /\ f.at = "branch" /\ fn = "branch" /\ q = f.precedence /\ c = b
    \/ /\ f.fn = "expression" /\ f.at = "right" /\ fn = "expression" /\ f.op \in BinaryOperators \cup Parser!Unfit
       /\ f.op \in BinaryOperators =>
             /\ q = OperatorRight(f.op) /\ f.precedence <= OperatorLeft(f.op)
             /\ \E e \in Nat, r \in Ranks :
                   /\ Ranked(M, s, b, e, f.left, r) /\ OperatorLeft(f.op) <= r
                   /\ Between(s, e, f.op, c)
    \/ f.fn \in {"expression", "branch"} /\ f.at = "ternary" /\ f.precedence = 0 /\ fn = "ternary" /\ q = 0 /\ c = b
    \/ /\ f.fn = "branch" /\ f.at = "bracket" /\ fn = "expression" /\ q = 0 /\ c = b + 1
       /\ s[b].type \in Parser!LeftBrackets /\ f.op = Parser!Closing[s[b].type]
    \/ /\ f.fn = "branch" /\ f.at = "sign" /\ fn = "expression" /\ c = b + 1
       /\ f.op \in {"+", "-"} /\ s[b].type = f.op /\ q = IF f.op = "-" THEN 11 ELSE 13
    \/ /\ f.fn = "ternary" /\ f.at = "consequent" /\ fn = "expression" /\ q = 0
       /\ \E k \in Nat : b < k /\ c = k + 1 /\ s[k].type = "?" /\ <<b, k - 1, 1, f.left>> \in M
    \/ /\ f.fn = "ternary" /\ f.at = "alternative" /\ fn = "expression" /\ q = 0
       /\ \E k \in Nat, l \in Nat :
             /\ b < k /\ k < l /\ c = l + 1 /\ s[k].type = "?" /\ s[l].type = ":"
             /\ <<b, k - 1, 1, f.left>> \in M /\ <<k + 1, l - 1, 0, f.right>> \in M

\* The frame f goes on at the current token.
Ready(M, s, itr, f, b) ==
    \/ f.fn \in {"expression", "branch"} /\ f.at = "begin" /\ b = itr - 1
    \/ /\ f.fn = "ternary" /\ f.at = "begin" /\ Parser!TokenAt(s, itr - 1).type = "?"
       /\ b <= itr - 2 /\ <<b, itr - 2, 1, f.left>> \in M
    \/ f.fn = "expression" /\ f.at = "loop" /\ Held(M, s, itr, f.precedence, b, f.left)
    \/ f.fn = "branch" /\ f.at = "end" /\ Held(M, s, itr, 11, b, f.left)

\* The k-th frame, or parse_corpus below all of them, which has read s[1..m].
Awaits(M, s, m, stk, starts, k, fn, q, c) ==
    IF k > Len(stk) THEN fn = "expression" /\ q = 0 /\ c = m + 1
    ELSE WaitsAt(M, s, stk[k], starts[k], fn, q, c)

Linked(M, s, itr, m, stk, starts) ==
    \A k \in 1..Len(stk) :
        /\ starts[k] \in 1..itr - 1
        /\ Awaits(M, s, m, stk, starts, k + 1, stk[k].fn, stk[k].precedence, starts[k])

Standing(M, s, itr, m, stk, starts, x) ==
    /\ Linked(M, s, itr, m, stk, starts)
    /\ x # Parser!NoNode =>
          \E fn, q, c : Awaits(M, s, m, stk, starts, 1, fn, q, c) /\ c \in Nat /\ Given(M, s, itr, fn, q, c, x)
    /\ x = Parser!NoNode /\ stk # <<>> => Ready(M, s, itr, stk[1], starts[1])
    /\ x = Parser!NoNode /\ stk = <<>> => m = itr - 2

Agree(s, t, w) == 1..w - 1 \subseteq DOMAIN s /\ \A k \in 1..w : k \in DOMAIN s => k \in DOMAIN t /\ t[k] = s[k]

LEMMA RankedMoves ==
    ASSUME NEW M, NEW s, NEW t, NEW w \in Nat, Agree(s, t, w), NEW b \in Nat, 1 <= b, NEW e \in Nat, e < w,
           NEW x, NEW r, Ranked(M, s, b, e, x, r)
    PROVE  Ranked(M, t, b, e, x, r)
BY DEF Ranked, Agree

LEMMA BetweenMoves ==
    ASSUME NEW s, NEW t, NEW w \in Nat, Agree(s, t, w), NEW e \in Nat, NEW op, NEW c \in Nat, c <= w,
           Between(s, e, op, c)
    PROVE  Between(t, e, op, c)
<1>1. CASE c = e + 2 /\ Parser!OperatorOf(s[e + 1]) = op
  <2>1. e + 1 \in 1..w - 1
    BY <1>1
  <2>2. t[e + 1] = s[e + 1]
    BY <2>1 DEF Agree
  <2> QED BY <1>1, <2>2 DEF Between
<1>2. CASE c = e + 3 /\ op = "*" /\ Parser!PutIn(s, e + 1)
  <2> DEFINE k == e + 1
  <2>1. k \in 1..w /\ k + 1 \in 1..w /\ k + 2 \in 1..w
    BY <1>2
  <2>2. Parser!PutIn(s, k)
    BY <1>2
  <2> HIDE DEF k
  <2>3. Parser!PutIn(t, k)
    BY <2>1, <2>2 DEF Parser!PutIn, Agree
  <2> QED BY <1>2, <2>3 DEF Between, k
<1> QED BY <1>1, <1>2 DEF Between

LEMMA WaitsMoves ==
    ASSUME NEW M, NEW s, NEW t, NEW w \in Nat, Agree(s, t, w), NEW f, NEW b \in Nat, 1 <= b,
           NEW fn, NEW q, NEW c \in Nat, c <= w, WaitsAt(M, s, f, b, fn, q, c)
    PROVE  WaitsAt(M, t, f, b, fn, q, c)
<1>0. \A k \in 1..w - 1 : t[k] = s[k]
  BY DEF Agree
<1>1. CASE f.fn = "expression" /\ f.at = "branch" /\ fn = "branch" /\ q = f.precedence /\ c = b
  BY <1>1 DEF WaitsAt
<1>2. CASE /\ f.fn = "expression" /\ f.at = "right" /\ fn = "expression"
           /\ f.op \in BinaryOperators =>
                 /\ q = OperatorRight(f.op) /\ f.precedence <= OperatorLeft(f.op)
                 /\ \E e \in Nat, r \in Ranks :
                       /\ Ranked(M, s, b, e, f.left, r) /\ OperatorLeft(f.op) <= r
                       /\ Between(s, e, f.op, c)
  <2>1. ASSUME NEW e \in Nat, NEW r \in Ranks, Ranked(M, s, b, e, f.left, r), Between(s, e, f.op, c)
        PROVE  Ranked(M, t, b, e, f.left, r) /\ Between(t, e, f.op, c)
    <3>1. e < w
      BY <2>1 DEF Between
    <3> QED BY <2>1, <3>1, RankedMoves, BetweenMoves
  <2> QED BY <1>2, <2>1 DEF WaitsAt
<1>3. CASE f.fn \in {"expression", "branch"} /\ f.at = "ternary" /\ f.precedence = 0 /\ fn = "ternary" /\ q = 0 /\ c = b
  BY <1>3 DEF WaitsAt
<1>4. CASE /\ f.fn = "branch" /\ f.at = "bracket" /\ fn = "expression" /\ q = 0 /\ c = b + 1
           /\ s[b].type \in Parser!LeftBrackets /\ f.op = Parser!Closing[s[b].type]
  <2>1. t[b] = s[b]
    BY <1>0, <1>4
  <2> QED BY <1>4, <2>1 DEF WaitsAt
<1>5. CASE /\ f.fn = "branch" /\ f.at = "sign" /\ fn = "expression" /\ c = b + 1
           /\ f.op \in {"+", "-"} /\ s[b].type = f.op /\ q = IF f.op = "-" THEN 11 ELSE 13
  <2>1. t[b] = s[b]
    BY <1>0, <1>5
  <2> QED BY <1>5, <2>1 DEF WaitsAt
<1>6. CASE /\ f.fn = "ternary" /\ f.at = "consequent" /\ fn = "expression" /\ q = 0
           /\ \E k \in Nat : b < k /\ c = k + 1 /\ s[k].type = "?" /\ <<b, k - 1, 1, f.left>> \in M
  <2>1. PICK k \in Nat : b < k /\ c = k + 1 /\ s[k].type = "?" /\ <<b, k - 1, 1, f.left>> \in M
    BY <1>6
  <2>2. t[k] = s[k]
    BY <1>0, <2>1
  <2> QED BY <1>6, <2>1, <2>2 DEF WaitsAt
<1>7. CASE /\ f.fn = "ternary" /\ f.at = "alternative" /\ fn = "expression" /\ q = 0
           /\ \E k \in Nat, l \in Nat :
                 /\ b < k /\ k < l /\ c = l + 1 /\ s[k].type = "?" /\ s[l].type = ":"
                 /\ <<b, k - 1, 1, f.left>> \in M /\ <<k + 1, l - 1, 0, f.right>> \in M
  <2>1. PICK k \in Nat, l \in Nat :
                 /\ b < k /\ k < l /\ c = l + 1 /\ s[k].type = "?" /\ s[l].type = ":"
                 /\ <<b, k - 1, 1, f.left>> \in M /\ <<k + 1, l - 1, 0, f.right>> \in M
    BY <1>7
  <2>2. t[k] = s[k] /\ t[l] = s[l]
    BY <1>0, <2>1
  <2> QED BY <1>7, <2>1, <2>2 DEF WaitsAt
<1> QED BY <1>1, <1>2, <1>3, <1>4, <1>5, <1>6, <1>7 DEF WaitsAt

\* What the frames wait for stays so while the list only changes further on.
LEMMA LinkedMoves ==
    ASSUME NEW M, NEW s, NEW t, NEW itr \in Nat, NEW next \in Nat, itr >= 2, itr <= next, Agree(s, t, itr - 1),
           NEW m, NEW stk, IsSequence(stk), NEW starts, Linked(M, s, itr, m, stk, starts)
    PROVE  Linked(M, t, next, m, stk, starts)
<1> SUFFICES ASSUME NEW k \in 1..Len(stk)
             PROVE  /\ starts[k] \in 1..next - 1
                    /\ Awaits(M, t, m, stk, starts, k + 1, stk[k].fn, stk[k].precedence, starts[k])
  BY DEF Linked
<1>0. Len(stk) \in Nat
  BY DEF IsSequence
<1>1. /\ starts[k] \in 1..itr - 1
      /\ Awaits(M, s, m, stk, starts, k + 1, stk[k].fn, stk[k].precedence, starts[k])
  BY DEF Linked
<1>2. CASE k + 1 > Len(stk)
  BY <1>1, <1>2 DEF Awaits
<1>3. CASE ~(k + 1 > Len(stk))
  <2>1. k + 1 \in 1..Len(stk)
    BY <1>0, <1>3
  <2>2. starts[k + 1] \in 1..itr - 1
    BY <2>1 DEF Linked
  <2>3. WaitsAt(M, s, stk[k + 1], starts[k + 1], stk[k].fn, stk[k].precedence, starts[k])
    BY <1>1, <1>3 DEF Awaits
  <2>4. itr - 1 \in Nat /\ starts[k + 1] \in Nat /\ 1 <= starts[k + 1] /\ starts[k] \in Nat /\ starts[k] <= itr - 1
    BY <1>1, <2>2
  <2>5. WaitsAt(M, t, stk[k + 1], starts[k + 1], stk[k].fn, stk[k].precedence, starts[k])
    BY <2>3, <2>4, WaitsMoves
  <2> QED BY <1>1, <1>3, <2>5 DEF Awaits
<1> QED BY <1>1, <1>2, <1>3

\* The function that stands on top returns.
LEMMA LinkedReturn ==
    ASSUME NEW M, NEW s, NEW itr, NEW m, NEW stk, IsSequence(stk), stk # <<>>, NEW starts,
           Linked(M, s, itr, m, stk, starts)
    PROVE  \E rest : /\ Linked(M, s, itr, m, Tail(stk), rest)
                     /\ Awaits(M, s, m, Tail(stk), rest, 1, stk[1].fn, stk[1].precedence, starts[1])
<1> DEFINE rest == [k \in 1..Len(stk) - 1 |-> starts[k + 1]]
           t == Tail(stk)
<1>1. /\ IsSequence(t) /\ Len(stk) \in Nat \ {0} /\ Len(t) = Len(stk) - 1
      /\ \A k \in 1..Len(stk) - 1 : t[k] = stk[k + 1] /\ rest[k] = starts[k + 1]
  BY Dropped, SequenceDomain DEF IsSequence
<1> HIDE DEF t, rest
<1>2. ASSUME NEW k \in 1..Len(stk), NEW fn, NEW q, NEW c, Awaits(M, s, m, stk, starts, k + 1, fn, q, c)
      PROVE  Awaits(M, s, m, t, rest, k, fn, q, c)
  <2>1. CASE k + 1 > Len(stk)
    BY <1>1, <1>2, <2>1 DEF Awaits
  <2>2. CASE ~(k + 1 > Len(stk))
    BY <1>1, <1>2, <2>2 DEF Awaits
  <2> QED BY <2>1, <2>2
<1>3. Linked(M, s, itr, m, t, rest)
  <2> SUFFICES ASSUME NEW k \in 1..Len(t)
               PROVE  /\ rest[k] \in 1..itr - 1
                      /\ Awaits(M, s, m, t, rest, k + 1, t[k].fn, t[k].precedence, rest[k])
    BY DEF Linked
  <2>1. k + 1 \in 1..Len(stk) /\ t[k] = stk[k + 1] /\ rest[k] = starts[k + 1]
    BY <1>1
  <2>2. /\ starts[k + 1] \in 1..itr - 1
        /\ Awaits(M, s, m, stk, starts, (k + 1) + 1, stk[k + 1].fn, stk[k + 1].precedence, starts[k + 1])
    BY <2>1 DEF Linked
  <2>3. Awaits(M, s, m, t, rest, k + 1, t[k].fn, t[k].precedence, rest[k])
    BY <1>2, <2>1, <2>2
  <2> QED BY <2>1, <2>2, <2>3
<1>4. Awaits(M, s, m, t, rest, 1, stk[1].fn, stk[1].precedence, starts[1])
  <2>1. 1 \in 1..Len(stk)
    BY <1>1
  <2> QED BY <1>2, <2>1 DEF Linked
<1> QED BY <1>3, <1>4 DEF t

\* It goes on, for the same caller.
LEMMA LinkedStay ==
    ASSUME NEW M, NEW s, NEW itr, NEW m, NEW stk, IsSequence(stk), stk # <<>>, NEW starts,
           Linked(M, s, itr, m, stk, starts),
           NEW f, f.fn = stk[1].fn, f.precedence = stk[1].precedence
    PROVE  Linked(M, s, itr, m, <<f>> \o Tail(stk), starts)
<1> DEFINE t == <<f>> \o Tail(stk)
<1>1. /\ Len(stk) \in Nat \ {0} /\ Len(t) = Len(stk) /\ t[1] = f
      /\ \A k \in 2..Len(stk) : t[k] = stk[k]
  BY Changed, SequenceDomain DEF IsSequence
<1> HIDE DEF t
<1> SUFFICES ASSUME NEW k \in 1..Len(t)
             PROVE  /\ starts[k] \in 1..itr - 1
                    /\ Awaits(M, s, m, t, starts, k + 1, t[k].fn, t[k].precedence, starts[k])
  BY DEF Linked, t
<1>2. /\ starts[k] \in 1..itr - 1
      /\ Awaits(M, s, m, stk, starts, k + 1, stk[k].fn, stk[k].precedence, starts[k])
  BY <1>1 DEF Linked
<1>3. t[k].fn = stk[k].fn /\ t[k].precedence = stk[k].precedence
  BY <1>1
<1>4. k + 1 <= Len(stk) => t[k + 1] = stk[k + 1]
  BY <1>1
<1> QED BY <1>1, <1>2, <1>3, <1>4 DEF Awaits

\* It calls another function.
LEMMA LinkedCall ==
    ASSUME NEW M, NEW s, NEW itr, NEW m, NEW stk, IsSequence(stk), stk # <<>>, NEW starts,
           Linked(M, s, itr, m, stk, starts),
           NEW f, f.fn = stk[1].fn, f.precedence = stk[1].precedence,
           NEW g, NEW c \in 1..itr - 1, WaitsAt(M, s, f, starts[1], g.fn, g.precedence, c)
    PROVE  Linked(M, s, itr, m, <<g, f>> \o Tail(stk), [k \in 1..Len(stk) + 1 |-> IF k = 1 THEN c ELSE starts[k - 1]])
<1> DEFINE t == <<g, f>> \o Tail(stk)
           new == [k \in 1..Len(stk) + 1 |-> IF k = 1 THEN c ELSE starts[k - 1]]
<1>1. /\ Len(stk) \in Nat \ {0} /\ Len(t) = Len(stk) + 1 /\ t[1] = g /\ t[2] = f
      /\ \A k \in 3..Len(stk) + 1 : t[k] = stk[k - 1]
  BY Pushed, SequenceDomain DEF IsSequence
<1>2. new[1] = c /\ \A k \in 2..Len(stk) + 1 : new[k] = starts[k - 1]
  BY <1>1
<1> HIDE DEF t, new
<1> SUFFICES ASSUME NEW k \in 1..Len(t)
             PROVE  /\ new[k] \in 1..itr - 1
                    /\ Awaits(M, s, m, t, new, k + 1, t[k].fn, t[k].precedence, new[k])
  BY DEF Linked, t, new
<1>3. CASE k = 1
  <2>1. ~(k + 1 > Len(t)) /\ t[k + 1] = f /\ new[k + 1] = starts[1] /\ t[k] = g /\ new[k] = c
    BY <1>1, <1>2, <1>3
  <2> QED BY <2>1 DEF Awaits
<1>4. CASE k > 1
  <2> DEFINE h == k - 1
  <2>1. h \in 1..Len(stk) /\ h + 1 = k /\ new[k] = starts[h]
    BY <1>1, <1>2, <1>4
  <2>2. t[k].fn = stk[h].fn /\ t[k].precedence = stk[h].precedence
    BY <1>1, <1>4
  <2>3. k + 1 > Len(t) <=> h + 1 > Len(stk)
    BY <1>1
  <2>4. ~(k + 1 > Len(t)) => t[k + 1] = stk[h + 1] /\ new[k + 1] = starts[h + 1]
    BY <1>1, <1>2, <1>4
  <2> HIDE DEF h
  <2>5. /\ starts[h] \in 1..itr - 1
        /\ Awaits(M, s, m, stk, starts, h + 1, stk[h].fn, stk[h].precedence, starts[h])
    BY <2>1 DEF Linked
  <2> QED BY <2>1, <2>2, <2>3, <2>4, <2>5 DEF Awaits
<1> QED BY <1>3, <1>4

-----------------------------------------------------------------------------
(* What the functions of the parser make of what they have read *)

\* M has what the grammar gives for the tokens before the current one.
Given1(M, s, itr) == InPlace(s, itr) /\ Parser!IsGrammar(M, ReadPart(s, itr - 2))

LEMMA RankedIn ==
    ASSUME NEW M, NEW s, NEW t, NEW b \in Nat, NEW e \in Nat, \A k \in b..e - 1 : s[k] = t[k],
           NEW x, NEW r, Ranked(M, s, b, e, x, r)
    PROVE  Ranked(M, t, b, e, x, r)
BY DEF Ranked

LEMMA ReadPlaces ==
    ASSUME NEW s, NEW itr, InPlace(s, itr)
    PROVE  /\ itr \in Nat /\ itr >= 2 /\ itr - 2 \in Nat /\ Len(s) \in Nat /\ DOMAIN s = 1..Len(s)
           /\ DOMAIN ReadPart(s, itr - 2) = 1..itr - 2 /\ itr - 2 <= Len(s)
           /\ \A k \in 1..itr - 2 : ReadPart(s, itr - 2)[k] = s[k] /\ k \in DOMAIN s
BY SequenceDomain DEF InPlace, ReadPart

\* The levels of all that the parser takes for an operator.
LEMMA LevelsOfAll ==
    \A op : /\ OperatorLeft(op) \in 0..12 /\ OperatorRight(op) \in 0..12
            /\ op \in BinaryOperators \ {"^"} => OperatorRight(op) = OperatorLeft(op) + 1 /\ OperatorLeft(op) \in {1, 3, 5, 7, 10}
<1> SUFFICES ASSUME NEW op
             PROVE  /\ OperatorLeft(op) \in 0..12 /\ OperatorRight(op) \in 0..12
                    /\ op \in BinaryOperators \ {"^"} =>
                          OperatorRight(op) = OperatorLeft(op) + 1 /\ OperatorLeft(op) \in {1, 3, 5, 7, 10}
  OBVIOUS
<1>1. Parser!precedence_level(op) \in
          {Parser!Levels(1, 2), Parser!Levels(3, 4), Parser!Levels(4, 4), Parser!Levels(5, 6), Parser!Levels(7, 8),
           Parser!Levels(10, 11), Parser!Levels(12, 12), Parser!Levels(0, 0)}
  BY DEF Parser!precedence_level
<1>2. OperatorLeft(op) \in 0..12 /\ OperatorRight(op) \in 0..12
  BY <1>1 DEF OperatorLeft, OperatorRight, Parser!Levels
<1>3. ASSUME op \in BinaryOperators \ {"^"}
      PROVE  OperatorRight(op) = OperatorLeft(op) + 1 /\ OperatorLeft(op) \in {1, 3, 5, 7, 10}
  <2>1. Parser!precedence_level(op) \in
          {Parser!Levels(1, 2), Parser!Levels(3, 4), Parser!Levels(5, 6), Parser!Levels(7, 8), Parser!Levels(10, 11)}
    BY <1>3 DEF Parser!precedence_level, BinaryOperators, Parser!OrOperators, Parser!AndOperators, Parser!Comparisons
  <2> QED BY <2>1 DEF OperatorLeft, OperatorRight, Parser!Levels
<1> QED BY <1>2, <1>3

\* What is not unfit is one of the grammar's.
LEMMA OperatorsKnown ==
    \A t : LET op == Parser!OperatorOf(t) IN op = "none" \/ op \in Parser!Unfit \/ op \in BinaryOperators
BY DEF Parser!OperatorOf, Parser!Unfit, BinaryOperators

LEMMA NextBelowMore ==
    ASSUME NEW s, NEW itr, NEW p \in 0..13, NEW q \in 0..13, p <= q, NextBelow(s, itr, p)
    PROVE  NextBelow(s, itr, q)
BY LevelsOfAll DEF NextBelow

LEMMA NextBelowAll == \A s, itr : NextBelow(s, itr, 13)
BY LevelsOfAll DEF NextBelow

\* What ends the least of the levels is no operator.
LEMMA NoOperatorBelow ==
    ASSUME NEW s, NEW itr, NextBelow(s, itr, 0)
    PROVE  \A q : NextBelow(s, itr, q) /\ Parser!TokenAt(s, itr - 1).type # "*"
<1>1. NextOperator(s, itr) = "none"
  BY LevelsOfAll DEF NextBelow
<1>2. Parser!TokenAt(s, itr - 1).type # "*"
  BY <1>1 DEF NextOperator, Parser!OperatorOf
<1> QED BY <1>1, <1>2 DEF NextBelow

\* Behind what has been read no "*" follows: it ends right before the current token.
LEMMA UptoHere ==
    ASSUME NEW s, NEW itr, InPlace(s, itr), NEW e \in Nat, Upto(s, itr, e), Parser!TokenAt(s, itr - 1).type # "*"
    PROVE  e = itr - 2
<1>1. itr \in Nat
  BY ReadPlaces
<1>2. CASE Parser!PutIn(s, itr - 2)
  <2>1. itr - 2 + 1 = itr - 1
    BY <1>1
  <2>2. itr - 1 \in DOMAIN s /\ s[itr - 1].type = "*"
    BY <1>2, <2>1 DEF Parser!PutIn
  <2> QED BY <2>2 DEF Parser!TokenAt
<1> QED BY <1>2 DEF Upto

LEMMA UptoBounds ==
    ASSUME NEW s, NEW itr, InPlace(s, itr), NEW e, Upto(s, itr, e)
    PROVE  e <= itr - 2
BY ReadPlaces DEF Upto

\* An operand.
LEMMA OperandHeld ==
    ASSUME NEW M, NEW s, NEW itr, InPlace(s, itr), itr - 1 \in DOMAIN s, NEW t, NEW x,
           <<itr - 1, itr - 1, 8, x>> \in M
    PROVE  Held(M, t, itr + 1, 11, itr - 1, x)
<1> DEFINE e == itr - 1
<1>1. e \in Nat /\ e = (itr + 1) - 2 /\ 12 \in Ranks /\ 12 >= 11
  BY ReadPlaces DEF Ranks
<1>2. Ranked(M, t, e, e, x, 12)
  BY <1>1, OperandIsRanked
<1>3. NextBelow(t, itr + 1, 12 + 1)
  BY NextBelowAll
<1> HIDE DEF e
<1> QED BY <1>1, <1>2, <1>3 DEF Held, Upto, e

\* An operand with its sign.
LEMMA SignedHeld ==
    ASSUME NEW M, NEW s, NEW itr, Given1(M, s, itr), NEW f, NEW b \in Nat, 1 <= b, NEW fn, NEW q, NEW c,
           f.fn = "branch", f.at = "sign", WaitsAt(M, s, f, b, fn, q, c),
           NEW x, Given(M, s, itr, fn, q, c, x)
    PROVE  Held(M, s, itr, 11, b, IF f.op = "-" THEN Parser!Neg(x) ELSE x)
<1>1. /\ fn = "expression" /\ c = b + 1
      /\ f.op \in {"+", "-"} /\ s[b].type = f.op /\ q = IF f.op = "-" THEN 11 ELSE 13
  BY DEF WaitsAt
<1>2. InPlace(s, itr) /\ Parser!IsGrammar(M, ReadPart(s, itr - 2))
  BY DEF Given1
<1>3. PICK e \in Nat, r \in Ranks :
        /\ Upto(s, itr, e) /\ Ranked(M, s, b + 1, e, x, r)
        /\ r >= q \/ r >= 11
        /\ NextBelow(s, itr, r + 1)
  BY <1>1 DEF Given, Held
<1>4. NextBelow(s, itr, q)
  BY <1>1 DEF Given
<1> DEFINE g == ReadPart(s, itr - 2)
<1>5. e <= itr - 2 /\ b + 1 <= e
  BY <1>2, <1>3, UptoBounds DEF Ranked
<1>6. b..e \subseteq DOMAIN g /\ (\A k \in b..e : g[k] = s[k]) /\ b \in b..e /\ b + 1 \in Nat
  BY <1>2, <1>5, ReadPlaces
<1> HIDE DEF g
<1>7. Ranked(M, g, b + 1, e, x, r) /\ g[b].type = f.op
  BY <1>1, <1>3, <1>6, RankedIn
<1>8. r >= 11
  BY <1>1, <1>3 DEF Ranks
<1>9. CASE f.op = "-"
  <2>1. Ranked(M, g, b, e, Parser!Neg(x), 11)
    BY <1>2, <1>6, <1>7, <1>8, <1>9, MinusIsRanked DEF g
  <2>2. Ranked(M, s, b, e, Parser!Neg(x), 11)
    BY <1>6, <2>1, RankedIn
  <2>3. NextBelow(s, itr, 12)
    BY <1>1, <1>4, <1>9, NextBelowMore
  <2> QED BY <1>3, <1>9, <2>2, <2>3 DEF Held, Ranks
<1>10. CASE f.op = "+"
  <2>1. Ranked(M, g, b, e, x, r)
    BY <1>2, <1>6, <1>7, <1>8, <1>10, PlusIsRanked DEF g
  <2>2. Ranked(M, s, b, e, x, r)
    BY <1>6, <2>1, RankedIn
  <2> QED BY <1>3, <1>8, <1>10, <2>2 DEF Held
<1> QED BY <1>1, <1>9, <1>10

\* Two operands and their operator.
LEMMA CombinedHeld ==
    ASSUME NEW M, NEW s, NEW itr, Given1(M, s, itr), NEW f, NEW b \in Nat, 1 <= b, NEW fn, NEW q, NEW c \in Nat,
           f.fn = "expression", f.at = "right", f.op \in BinaryOperators, WaitsAt(M, s, f, b, fn, q, c),
           NEW y, Given(M, s, itr, fn, q, c, y)
    PROVE  \E e \in Nat, r \in Ranks \ {0} :
              /\ Upto(s, itr, e) /\ e <= itr - 2
              /\ Ranked(M, s, b, e, Parser!Node(f.op, f.left, y), r)
              /\ Ranked(M, ReadPart(s, itr - 2), b, e, Parser!Node(f.op, f.left, y), r)
              /\ r >= f.precedence \/ r >= 11
              /\ NextBelow(s, itr, r + 1)
<1>1. /\ fn = "expression" /\ q = OperatorRight(f.op) /\ f.precedence <= OperatorLeft(f.op)
      /\ \E e \in Nat, r \in Ranks :
            /\ Ranked(M, s, b, e, f.left, r) /\ OperatorLeft(f.op) <= r
            /\ Between(s, e, f.op, c)
  BY DEF WaitsAt
<1>2. PICK d \in Nat, p \in Ranks : /\ Ranked(M, s, b, d, f.left, p) /\ OperatorLeft(f.op) <= p
                                    /\ Between(s, d, f.op, c)
  BY <1>1
<1>3. InPlace(s, itr) /\ Parser!IsGrammar(M, ReadPart(s, itr - 2))
  BY DEF Given1
<1>4. PICK e \in Nat, r \in Ranks :
        /\ Upto(s, itr, e) /\ Ranked(M, s, c, e, y, r)
        /\ r >= q \/ r >= 11
        /\ NextBelow(s, itr, r + 1)
  BY DEF Given, Held
<1>5. NextBelow(s, itr, q)
  BY <1>1 DEF Given
<1> DEFINE g == ReadPart(s, itr - 2)
           x == f.left
           z == Parser!Node(f.op, x, y)
           l == IF f.op = "^" THEN 11 ELSE OperatorLeft(f.op)
<1>6. e <= itr - 2 /\ c <= e /\ b <= d /\ d + 2 <= c
  BY <1>2, <1>3, <1>4, UptoBounds DEF Ranked, Between
<1>7. itr \in Nat /\ b..e \subseteq DOMAIN g /\ \A k \in b..e : g[k] = s[k] /\ k \in DOMAIN s
  BY <1>3, <1>6, ReadPlaces
<1>8. Agree(s, g, itr - 2) /\ itr - 2 \in Nat /\ c <= itr - 2
  BY <1>3, <1>6, ReadPlaces DEF Agree
<1> HIDE DEF g
<1>9. Between(g, d, f.op, c)
  BY <1>2, <1>8, BetweenMoves
<1>10. Ranked(M, g, b, d, x, p) /\ Ranked(M, g, c, e, y, r)
  <2>1. \A k \in b..d - 1 : s[k] = g[k]
    BY <1>6, <1>7
  <2>2. \A k \in c..e - 1 : s[k] = g[k]
    BY <1>6, <1>7
  <2> QED BY <1>2, <1>4, <2>1, <2>2, RankedIn
<1>11. r >= OperatorRight(f.op) \/ r >= 11
  BY <1>1, <1>4
<1> HIDE DEF x
<1>12. Ranked(M, g, b, e, z, l)
  BY <1>2, <1>3, <1>7, <1>9, <1>10, <1>11, CombinedIsRanked DEF g
<1>13. l \in Ranks \ {0} /\ (l >= f.precedence \/ l >= 11) /\ NextBelow(s, itr, l + 1)
  <2>1. CASE f.op = "^"
    <3>1. NextBelow(s, itr, 12) /\ l = 11
      BY <1>1, <1>5, <2>1, PowerLevels
    <3> QED BY <3>1 DEF Ranks
  <2>2. CASE f.op # "^"
    <3>1. OperatorRight(f.op) = OperatorLeft(f.op) + 1 /\ OperatorLeft(f.op) \in {1, 3, 5, 7, 10}
      BY <2>2, LevelsOfAll
    <3>2. NextBelow(s, itr, l + 1) /\ l = OperatorLeft(f.op)
      BY <1>1, <1>5, <2>2, <3>1
    <3>3. l >= f.precedence
      BY <1>1, <3>2
    <3> QED BY <3>1, <3>2, <3>3 DEF Ranks
  <2> QED BY <2>1, <2>2
<1> HIDE DEF l, z
<1>14. Ranked(M, s, b, e, z, l)
  <2>1. \A k \in b..e - 1 : g[k] = s[k]
    BY <1>7
  <2> QED BY <1>12, <2>1, RankedIn
<1> QED BY <1>4, <1>6, <1>12, <1>13, <1>14 DEF g, z, x

\* A condition with what follows from it.
LEMMA TernaryHeld ==
    ASSUME NEW M, NEW s, NEW itr, Given1(M, s, itr), NEW f, NEW b \in Nat, 1 <= b, NEW fn, NEW q, NEW c,
           f.fn = "ternary", f.at = "alternative", WaitsAt(M, s, f, b, fn, q, c),
           NEW y, Given(M, s, itr, fn, q, c, y)
    PROVE  Held(M, s, itr, 0, b, Parser!Ternary(f.left, f.right, y))
<1>1. /\ fn = "expression" /\ q = 0
      /\ \E k \in Nat, l \in Nat :
             /\ b < k /\ k < l /\ c = l + 1 /\ s[k].type = "?" /\ s[l].type = ":"
             /\ <<b, k - 1, 1, f.left>> \in M /\ <<k + 1, l - 1, 0, f.right>> \in M
  BY DEF WaitsAt
<1>2. PICK k \in Nat, l \in Nat :
             /\ b < k /\ k < l /\ c = l + 1 /\ s[k].type = "?" /\ s[l].type = ":"
             /\ <<b, k - 1, 1, f.left>> \in M /\ <<k + 1, l - 1, 0, f.right>> \in M
  BY <1>1
<1>3. InPlace(s, itr) /\ Parser!IsGrammar(M, ReadPart(s, itr - 2))
  BY DEF Given1
<1>4. PICK e \in Nat, r \in Ranks : Upto(s, itr, e) /\ Ranked(M, s, c, e, y, r)
  BY DEF Given, Held
<1>5. NextBelow(s, itr, 1)
  BY <1>1, NoOperatorBelow DEF Given
<1> DEFINE g == ReadPart(s, itr - 2)
           z == Parser!Ternary(f.left, f.right, y)
<1>6. e <= itr - 2 /\ l + 1 <= e
  BY <1>2, <1>3, <1>4, UptoBounds DEF Ranked
<1>7. b..e \subseteq DOMAIN g /\ \A i \in b..e : g[i] = s[i]
  BY <1>3, <1>6, ReadPlaces
<1> HIDE DEF g
<1>8. Ranked(M, g, l + 1, e, y, r) /\ g[k].type = "?" /\ g[l].type = ":"
  <2>1. l + 1 \in Nat /\ k \in b..e /\ l \in b..e /\ \A i \in l + 1..e - 1 : s[i] = g[i]
    BY <1>2, <1>6, <1>7
  <2>2. Ranked(M, g, l + 1, e, y, r)
    BY <1>2, <1>4, <2>1, RankedIn
  <2> QED BY <1>2, <1>7, <2>1, <2>2
<1>9. Ranked(M, g, b, e, z, 0)
  BY <1>2, <1>3, <1>7, <1>8, TernaryIsRanked DEF g
<1> HIDE DEF z
<1>10. Ranked(M, s, b, e, z, 0)
  <2>1. \A i \in b..e - 1 : g[i] = s[i]
    BY <1>7
  <2> QED BY <1>9, <2>1, RankedIn
<1> QED BY <1>4, <1>5, <1>10 DEF Held, Ranks, z

\* A value that is the condition of "?".
LEMMA ConditionHeld ==
    ASSUME NEW M, NEW s, NEW itr, Given1(M, s, itr), NEW b \in Nat, 1 <= b, NEW e \in Nat, Upto(s, itr, e),
           NEW x, NEW r \in Ranks \ {0}, Ranked(M, s, b, e, x, r), Parser!TokenAt(s, itr - 1).type = "?"
    PROVE  b <= itr - 2 /\ <<b, itr - 2, 1, x>> \in M
<1>1. InPlace(s, itr) /\ Parser!IsGrammar(M, ReadPart(s, itr - 2)) /\ e = itr - 2
  BY UptoHere DEF Given1
<1> DEFINE g == ReadPart(s, itr - 2)
<1>2. b <= e
  BY DEF Ranked
<1>3. b..e \subseteq DOMAIN g /\ \A i \in b..e : g[i] = s[i]
  BY <1>1, <1>2, ReadPlaces
<1> HIDE DEF g
<1>4. Ranked(M, g, b, e, x, r)
  BY <1>3, RankedIn
<1>5. 1 <= LevelOf[r] /\ 1 \in 0..6
  BY DEF LevelOf, Ranks
<1> HIDE DEF LevelOf
<1>6. \A l \in 0..6 : l <= LevelOf[r] => <<b, e, l, x>> \in M
  <2>1. Parser!IsGrammar(M, g)
    BY <1>1 DEF g
  <2> QED BY <1>3, <1>4, <2>1, RankedAt
<1>7. <<b, e, 1, x>> \in M
  BY <1>5, <1>6
<1> QED BY <1>1, <1>2, <1>7

\* A value that is taken for what it is.
LEMMA AnyHeld ==
    ASSUME NEW M, NEW s, NEW itr, Given1(M, s, itr), NEW b \in Nat, 1 <= b, NEW q, NEW x, Held(M, s, itr, q, b, x),
           Parser!TokenAt(s, itr - 1).type # "*"
    PROVE  b <= itr - 2 /\ <<b, itr - 2, 0, x>> \in M
<1>1. PICK e \in Nat, r \in Ranks : Upto(s, itr, e) /\ Ranked(M, s, b, e, x, r)
  BY DEF Held
<1>2. InPlace(s, itr) /\ Parser!IsGrammar(M, ReadPart(s, itr - 2)) /\ e = itr - 2
  BY <1>1, UptoHere DEF Given1
<1> DEFINE g == ReadPart(s, itr - 2)
<1>3. b <= e
  BY <1>1 DEF Ranked
<1>4. b..e \subseteq DOMAIN g /\ \A i \in b..e : g[i] = s[i]
  BY <1>2, <1>3, ReadPlaces
<1> HIDE DEF g
<1>5. Ranked(M, g, b, e, x, r)
  BY <1>1, <1>4, RankedIn
<1>6. <<b, e, 0, x>> \in M
  BY <1>2, <1>4, <1>5, RankedAsAny DEF g
<1> QED BY <1>2, <1>3, <1>6

-----------------------------------------------------------------------------
(* What the parser puts into the list *)

NotOpenLast(s) == s # <<>> => s[Len(s)].type \notin Parser!LeftBrackets

LEMMA InsertedThere ==
    ASSUME NEW s, IsSequence(s), NEW i \in 1..Len(s), NEW type, NEW t, t = Parser!insert_front(s, i, type)
    PROVE  /\ IsSequence(t) /\ Len(t) = Len(s) + 1 /\ DOMAIN t = 1..Len(s) + 1 /\ DOMAIN s = 1..Len(s)
           /\ \A k \in 1..i - 1 : t[k] = s[k]
           /\ t[i].type = type
           /\ \A k \in i + 1..Len(s) + 1 : t[k] = s[k - 1]
           /\ NotOpenLast(s) => NotOpenLast(t)
<1> DEFINE e == Parser!Token(type, s[i].value)
           u == SubSeq(s, 1, i - 1)
           v == SubSeq(s, i, Len(s))
<1>1. PICK S : s \in Seq(S)
  BY DEF IsSequence
<1>2. Len(s) \in Nat /\ DOMAIN s = 1..Len(s)
  BY <1>1
<1>3. t = u \o <<e>> \o v /\ e.type = type
  BY <1>2 DEF Parser!insert_front, Parser!InsertAt, Parser!Token
<1>4. u \in Seq(S \cup {e}) /\ Len(u) = i - 1 /\ \A k \in 1..i - 1 : u[k] = s[k]
  BY <1>1, <1>2
<1>5. v \in Seq(S \cup {e}) /\ Len(v) = Len(s) - i + 1 /\ \A k \in 1..Len(s) - i + 1 : v[k] = s[i + k - 1]
  BY <1>1, <1>2
<1> HIDE DEF u, v, e
<1> DEFINE w == u \o <<e>>
<1>6. w \in Seq(S \cup {e}) /\ Len(w) = i /\ w[i] = e /\ \A k \in 1..i - 1 : w[k] = s[k]
  BY <1>2, <1>4
<1>7. t = w \o v
  BY <1>3
<1> HIDE DEF w
<1>8. t \in Seq(S \cup {e}) /\ Len(t) = Len(s) + 1
  <2> DEFINE T == S \cup {e}
  <2>1. w \in Seq(T) /\ v \in Seq(T)
    BY <1>5, <1>6
  <2> HIDE DEF T
  <2>2. t \in Seq(T) /\ Len(t) = Len(w) + Len(v)
    BY <1>7, <2>1
  <2>3. Len(t) = Len(s) + 1
    BY <1>2, <1>5, <1>6, <2>2
  <2> QED BY <2>2, <2>3 DEF T
<1>9. \A k \in 1..i : t[k] = w[k]
  BY <1>2, <1>5, <1>6, <1>7
<1>10. \A k \in i + 1..Len(s) + 1 : t[k] = s[k - 1]
  <2> SUFFICES ASSUME NEW k \in i + 1..Len(s) + 1 PROVE t[k] = s[k - 1]
    OBVIOUS
  <2>1. t[k] = v[k - i] /\ k - i \in 1..Len(s) - i + 1
    BY <1>2, <1>5, <1>6, <1>7
  <2>2. i + (k - i) - 1 = k - 1
    BY <1>2
  <2> QED BY <1>5, <2>1, <2>2
<1>11. NotOpenLast(s) => NotOpenLast(t)
  <2>1. Len(s) + 1 \in i + 1..Len(s) + 1 /\ (Len(s) + 1) - 1 = Len(s) /\ s # <<>>
    BY <1>1, <1>2
  <2> QED BY <1>8, <1>10, <2>1 DEF NotOpenLast
<1>12. DOMAIN t = 1..Len(s) + 1 /\ IsSequence(t)
  BY <1>8 DEF IsSequence
<1>13. i \in 1..i /\ \A k \in 1..i - 1 : k \in 1..i
  BY <1>2
<1> QED BY <1>2, <1>3, <1>6, <1>8, <1>9, <1>10, <1>11, <1>12, <1>13

\* A symbol is read, and a product that it begins.
LEMMA SymbolChanges ==
    ASSUME NEW s, NEW itr, InPlace(s, itr), itr - 1 \in DOMAIN s, NotOpenLast(s),
           NEW t, t = IF StartsBracket(s, itr) THEN Parser!insert_front(s, itr, "*") ELSE s
    PROVE  /\ Parser!After(t, itr) = itr + 1 /\ InPlace(t, itr + 1) /\ NotOpenLast(t)
           /\ Agree(s, t, itr - 1) /\ t[itr - 1] = s[itr - 1] /\ itr - 1 \in DOMAIN t
<1>0. itr \in Nat /\ itr >= 2 /\ Len(s) \in Nat /\ DOMAIN s = 1..Len(s) /\ itr - 1 <= Len(s) /\ IsSequence(s)
  BY ReadPlaces DEF InPlace
<1>1. CASE StartsBracket(s, itr)
  <2>1. itr \in 1..Len(s)
    <3>1. IsReal(s, itr)
      BY <1>1 DEF StartsBracket, IsReal, Parser!LeftBrackets
    <3> QED BY <1>0, <3>1, RealToken
  <2>2. t = Parser!insert_front(s, itr, "*")
    BY <1>1
  <2>3. /\ IsSequence(t) /\ Len(t) = Len(s) + 1 /\ DOMAIN t = 1..Len(s) + 1
        /\ \A k \in 1..itr - 1 : t[k] = s[k]
        /\ NotOpenLast(t)
    BY <1>0, <2>1, <2>2, InsertedThere
  <2>4. Parser!After(t, itr) = itr + 1 /\ InPlace(t, itr + 1)
    BY <1>0, <2>1, <2>3 DEF Parser!After, InPlace
  <2> QED BY <1>0, <2>3, <2>4 DEF Agree
<1>2. CASE ~StartsBracket(s, itr)
  <2>1. t = s
    BY <1>2
  <2>2. Parser!After(s, itr) = itr + 1 /\ InPlace(s, itr + 1)
    BY <1>0 DEF Parser!After, InPlace
  <2> QED BY <1>0, <2>1, <2>2 DEF Agree
<1> QED BY <1>1, <1>2

LEMMA NextPlace ==
    ASSUME NEW m \in Nat, NEW c \in 1..m, m # c
    PROVE  c + 1 \in 1..m
OBVIOUS

\* A closing bracket is read, and a product with a bracket behind it, of which a copy is
\* put in.
LEMMA BracketChanges ==
    ASSUME NEW s, NEW closing, InPlace(s, closing), closing - 1 \in DOMAIN s, NotOpenLast(s),
           NEW behind, behind = Parser!After(s, closing),
           NEW type, type = Parser!TokenAt(s, behind - 1).type,
           NEW times, times = Parser!insert_front(Parser!insert_front(s, behind, type), behind, "*"),
           NEW t, NEW next,
           IF StartsBracket(s, behind - 1) THEN t = times /\ next = Parser!After(times, behind) ELSE next = behind /\ t = s
    PROVE  /\ \A k \in 1..closing - 1 : k \in DOMAIN s /\ k \in DOMAIN t /\ t[k] = s[k]
           /\ InPlace(t, next) /\ NotOpenLast(t) /\ closing + 1 <= next
           /\ Upto(t, next, closing - 1)
<1>0. /\ closing \in Nat /\ closing >= 2 /\ Len(s) \in Nat /\ DOMAIN s = 1..Len(s) /\ closing - 1 <= Len(s)
      /\ IsSequence(s)
  BY ReadPlaces DEF InPlace
<1>1. behind = closing + 1 /\ InPlace(s, behind) /\ behind - 1 = closing
  BY <1>0 DEF Parser!After, InPlace
<1>2. CASE StartsBracket(s, behind - 1)
  <2>1. closing \in 1..Len(s) /\ s[closing].type \in Parser!LeftBrackets /\ type = s[closing].type
    <3>1. IsReal(s, closing)
      BY <1>1, <1>2 DEF StartsBracket, IsReal, Parser!LeftBrackets
    <3>2. closing \in DOMAIN s
      BY <3>1, RealToken
    <3> QED BY <1>0, <1>1, <1>2, <3>2 DEF StartsBracket, Parser!TokenAt
  <2>2. behind \in 1..Len(s)
    <3>1. s # <<>>
      <4>1. Len(<<>>) = 0
        OBVIOUS
      <4> QED BY <1>0, <2>1, <4>1
    <3>2. Len(s) # closing
      BY <2>1, <3>1 DEF NotOpenLast
    <3>3. closing + 1 \in 1..Len(s)
      BY <1>0, <2>1, <3>2, NextPlace
    <3> QED BY <1>1, <3>3
  <2> DEFINE u == Parser!insert_front(s, behind, type)
  <2>3. /\ IsSequence(u) /\ Len(u) = Len(s) + 1 /\ DOMAIN u = 1..Len(s) + 1
        /\ \A k \in 1..behind - 1 : u[k] = s[k]
        /\ u[behind].type = type
        /\ NotOpenLast(u)
    BY <1>0, <2>2, InsertedThere
  <2>4. t = Parser!insert_front(u, behind, "*") /\ next = Parser!After(t, behind)
    BY <1>2
  <2> HIDE DEF u
  <2>5. behind \in 1..Len(u)
    BY <1>0, <2>2, <2>3
  <2>6. /\ IsSequence(t) /\ Len(t) = Len(u) + 1 /\ DOMAIN t = 1..Len(u) + 1
        /\ \A k \in 1..behind - 1 : t[k] = u[k]
        /\ t[behind].type = "*"
        /\ \A k \in behind + 1..Len(u) + 1 : t[k] = u[k - 1]
        /\ NotOpenLast(t)
    BY <2>3, <2>4, <2>5, InsertedThere
  <2>7. next = behind + 1 /\ InPlace(t, next)
    BY <1>0, <1>1, <2>2, <2>3, <2>4, <2>6 DEF Parser!After, InPlace
  <2>8. /\ closing \in 1..behind - 1 /\ behind + 1 \in behind + 1..Len(u) + 1 /\ (behind + 1) - 1 = behind
        /\ {closing, closing + 1, closing + 2} \subseteq DOMAIN t
    BY <1>0, <1>1, <2>2, <2>3, <2>6
  <2>9. t[closing] = s[closing] /\ t[behind + 1].type = type
    BY <2>3, <2>6, <2>8
  <2>10. Parser!PutIn(t, closing)
    <3>1. closing + 1 = behind /\ closing + 2 = behind + 1
      BY <1>0, <1>1
    <3> QED BY <2>1, <2>6, <2>8, <2>9, <3>1 DEF Parser!PutIn
  <2>11. closing - 1 = next - 3 /\ next - 2 = closing /\ closing + 1 <= next
    BY <1>0, <1>1, <2>7
  <2>12. \A k \in 1..closing - 1 : k \in DOMAIN s /\ k \in DOMAIN t /\ t[k] = s[k]
    BY <1>0, <1>1, <2>3, <2>6
  <2> QED BY <2>6, <2>7, <2>10, <2>11, <2>12 DEF Upto
<1>3. CASE ~StartsBracket(s, behind - 1)
  <2>1. t = s /\ next = closing + 1 /\ InPlace(t, next)
    BY <1>1, <1>3
  <2>2. closing - 1 = next - 2
    BY <1>0, <2>1
  <2> QED BY <1>0, <2>1, <2>2 DEF Upto
<1> QED BY <1>2, <1>3

\* Where the closing bracket is looked for, behind a ";" that is skipped.
SkipsTo(s, itr, op, closing) ==
    closing = itr \/ (closing = itr + 1 /\ op = ")" /\ Parser!TokenAt(s, itr - 1).type = ";")

LEMMA BracketHeld ==
    ASSUME NEW M, NEW s, NEW itr, InPlace(s, itr), NEW f, NEW b \in Nat, 1 <= b, NEW fn, NEW q, NEW c,
           f.fn = "branch", f.at = "bracket", WaitsAt(M, s, f, b, fn, q, c),
           NEW x, Given(M, s, itr, fn, q, c, x),
           NEW closing, InPlace(s, closing), SkipsTo(s, itr, f.op, closing),
           closing - 1 \in DOMAIN s, s[closing - 1].type = f.op,
           NEW t, NEW next, Given1(M, t, next), Upto(t, next, closing - 1),
           \A k \in 1..closing - 1 : k \in DOMAIN s /\ k \in DOMAIN t /\ t[k] = s[k]
    PROVE  Held(M, t, next, 11, b, x)
<1>1. /\ fn = "expression" /\ q = 0 /\ c = b + 1
      /\ s[b].type \in Parser!LeftBrackets /\ f.op = Parser!Closing[s[b].type]
  BY DEF WaitsAt
<1>2. Parser!TokenAt(s, itr - 1).type # "*"
  BY <1>1, NoOperatorBelow DEF Given
<1>3. PICK e \in Nat, r \in Ranks : Upto(s, itr, e) /\ Ranked(M, s, b + 1, e, x, r)
  BY <1>1 DEF Given, Held
<1>4. e = itr - 2 /\ itr \in Nat /\ closing \in Nat
  BY <1>2, <1>3, UptoHere, ReadPlaces
<1> DEFINE h == ReadPart(t, next - 2)
           j == closing - 1
<1>5. InPlace(t, next) /\ Parser!IsGrammar(M, h) /\ j <= next - 2
  BY UptoBounds DEF Given1
<1>6. closing \in {itr, itr + 1}
  BY DEF SkipsTo
<1>7. j \in Nat /\ b + 1 <= e /\ e < j /\ b <= j
  <2>1. b + 1 <= e
    BY <1>3 DEF Ranked
  <2> QED BY <1>4, <1>6, <2>1
<1>8. b..j \subseteq DOMAIN h /\ (\A k \in b..j : h[k] = s[k]) /\ b \in b..j /\ j \in b..j
  <2>0. next \in Nat /\ next - 2 \in Nat
    BY <1>5, ReadPlaces
  <2>1. \A k \in b..j : k \in 1..next - 2 /\ k \in 1..closing - 1
    BY <1>4, <1>5, <1>7, <2>0
  <2> QED BY <1>5, <1>7, <2>1, ReadPlaces
<1>9. j = e + 1 \/ (j = e + 2 /\ Skipped(h, j))
  <2>1. CASE closing = itr
    BY <1>4, <2>1
  <2>2. CASE closing # itr
    <3>1. j - 1 = itr - 1 /\ j = e + 2 /\ j - 1 \in b..j /\ j - 1 \in DOMAIN s
      BY <1>4, <1>6, <1>7, <2>2
    <3>2. f.op = ")" /\ s[j - 1].type = ";"
      BY <2>2, <3>1, Zenon DEF SkipsTo, Parser!TokenAt
    <3>3. h[j - 1] = s[j - 1] /\ h[j] = s[j] /\ j - 1 \in DOMAIN h
      <4> HIDE DEF h, j
      <4> QED BY <1>8, <3>1
    <3>4. s[j].type = f.op
      OBVIOUS
    <3> HIDE DEF h, j
    <3>5. Skipped(h, j)
      BY <3>2, <3>3, <3>4, Zenon DEF Skipped
    <3> QED BY <3>1, <3>5
  <2> QED BY <2>1, <2>2
<1>10. h[b].type \in Parser!LeftBrackets /\ h[j].type = Parser!Closing[h[b].type]
  BY <1>1, <1>8
<1> HIDE DEF h, j
<1>11. Ranked(M, h, b + 1, e, x, r)
  <2>1. b + 1 \in Nat /\ \A k \in b + 1..e - 1 : s[k] = h[k]
    BY <1>4, <1>7, <1>8
  <2> QED BY <1>3, <2>1, RankedIn
<1>12. Ranked(M, h, b, j, x, 12)
  BY <1>5, <1>7, <1>8, <1>9, <1>10, <1>11, BracketsAreRanked
<1>13. Ranked(M, t, b, j, x, 12)
  <2>0. next \in Nat /\ next - 2 \in Nat /\ \A k \in 1..next - 2 : h[k] = t[k]
    BY <1>5, ReadPlaces DEF h
  <2>1. \A k \in b..j - 1 : k \in 1..next - 2
    BY <1>5, <1>7, <2>0
  <2>2. \A k \in b..j - 1 : h[k] = t[k]
    BY <2>0, <2>1
  <2> QED BY <1>7, <1>12, <2>2, RankedIn
<1>14. NextBelow(t, next, 12 + 1) /\ 12 \in Ranks /\ 12 >= 11
  BY NextBelowAll DEF Ranks
<1>15. Upto(t, next, j)
  BY DEF j
<1> QED BY <1>7, <1>13, <1>14, <1>15 DEF Held

-----------------------------------------------------------------------------
(* The values so far, and the functions that are under way *)

EndsAt(s, i) == s[i].type = ";"

PartOf(M, s, a, b, x) ==
    <<a + 1, b, 0, x>> \in M \/ (EndsAt(s, b) /\ <<a + 1, b - 1, 0, x>> \in M)

\* The values of args are what the grammar gives for the parts of s[1..m].
Parted(M, s, args, cut, m) ==
    /\ IsSequence(args) /\ m \in Nat
    /\ cut \in [0..Len(args) -> 0..m] /\ cut[0] = 0 /\ cut[Len(args)] = m
    /\ \A i \in 1..Len(args) : cut[i - 1] < cut[i] /\ PartOf(M, s, cut[i - 1], cut[i], args[i])

Stood(M, s, itr, stk, starts, args) ==
    \E cut, m : Parted(M, s, args, cut, m) /\ m <= itr - 2 /\ Linked(M, s, itr, m, stk, starts)

Traced(M, s, itr, stk, x, args) ==
    \E cut, m, starts : Parted(M, s, args, cut, m) /\ m <= itr - 2 /\ Standing(M, s, itr, m, stk, starts, x)

LEMMA PartedMoves ==
    ASSUME NEW M, NEW s, NEW t, NEW w, NEW args, NEW cut, NEW m, Parted(M, s, args, cut, m),
           w \in Nat, m <= w, \A k \in 1..w : t[k] = s[k]
    PROVE  Parted(M, t, args, cut, m)
<1>0. /\ IsSequence(args) /\ m \in Nat /\ Len(args) \in Nat
      /\ cut \in [0..Len(args) -> 0..m] /\ cut[0] = 0 /\ cut[Len(args)] = m
  BY SequenceDomain DEF Parted
<1>1. ASSUME NEW i \in 1..Len(args)
      PROVE  cut[i - 1] < cut[i] /\ PartOf(M, t, cut[i - 1], cut[i], args[i])
  <2>1. cut[i - 1] < cut[i] /\ PartOf(M, s, cut[i - 1], cut[i], args[i])
    BY DEF Parted
  <2>2. cut[i] \in 1..w
    <3>1. cut[i] \in 0..m /\ cut[i - 1] \in 0..m
      BY <1>0
    <3> QED BY <1>0, <2>1, <3>1
  <2>3. t[cut[i]] = s[cut[i]]
    BY <2>2
  <2> QED BY <2>1, <2>3 DEF PartOf, EndsAt
<1> QED BY <1>0, <1>1 DEF Parted

LEMMA StoodMoves ==
    ASSUME NEW M, NEW s, NEW itr, InPlace(s, itr), NEW t, Agree(s, t, itr - 1), NEW next \in Nat, itr <= next,
           NEW stk, IsSequence(stk), NEW starts, NEW args, Stood(M, s, itr, stk, starts, args)
    PROVE  Stood(M, t, next, stk, starts, args)
<1>1. PICK cut, m : Parted(M, s, args, cut, m) /\ m <= itr - 2 /\ Linked(M, s, itr, m, stk, starts)
  BY DEF Stood
<1>2. itr \in Nat /\ itr >= 2 /\ itr - 2 \in Nat
  BY ReadPlaces
<1>3. \A k \in 1..itr - 2 : t[k] = s[k]
  BY <1>2 DEF Agree
<1>4. Parted(M, t, args, cut, m)
  BY <1>1, <1>2, <1>3, PartedMoves
<1>5. Linked(M, t, next, m, stk, starts)
  BY <1>1, <1>2, LinkedMoves
<1>6. m <= next - 2
  BY <1>1, <1>2 DEF Parted
<1> QED BY <1>4, <1>5, <1>6 DEF Stood

LEMMA Stands ==
    ASSUME NEW M, NEW s, NEW itr, NEW stk, IsSequence(stk), stk # <<>>, NEW x, NEW args,
           Traced(M, s, itr, stk, x, args)
    PROVE  \E starts :
              /\ Stood(M, s, itr, stk, starts, args) /\ starts[1] \in 1..itr - 1
              /\ x # Parser!NoNode =>
                    \E fn, q, c : /\ WaitsAt(M, s, stk[1], starts[1], fn, q, c) /\ c \in Nat
                                  /\ Given(M, s, itr, fn, q, c, x)
              /\ x = Parser!NoNode => Ready(M, s, itr, stk[1], starts[1])
<1>1. PICK cut, m, starts :
          Parted(M, s, args, cut, m) /\ m <= itr - 2 /\ Standing(M, s, itr, m, stk, starts, x)
  BY DEF Traced
<1>2. 1 \in 1..Len(stk) /\ ~(1 > Len(stk))
  BY SequenceDomain DEF IsSequence
<1>3. Linked(M, s, itr, m, stk, starts)
  BY <1>1 DEF Standing
<1>4. starts[1] \in 1..itr - 1
  BY <1>2, <1>3 DEF Linked
<1>5. Stood(M, s, itr, stk, starts, args)
  BY <1>1, <1>3 DEF Stood
<1>6. ASSUME x # Parser!NoNode
      PROVE  \E fn, q, c : WaitsAt(M, s, stk[1], starts[1], fn, q, c) /\ c \in Nat /\ Given(M, s, itr, fn, q, c, x)
  <2>1. PICK fn, q, c : Awaits(M, s, m, stk, starts, 1, fn, q, c) /\ c \in Nat /\ Given(M, s, itr, fn, q, c, x)
    BY <1>1, <1>6 DEF Standing
  <2> QED BY <1>2, <2>1 DEF Awaits
<1>7. x = Parser!NoNode => Ready(M, s, itr, stk[1], starts[1])
  BY <1>1 DEF Standing
<1> QED BY <1>4, <1>5, <1>6, <1>7

LEMMA TracedReturn ==
    ASSUME NEW M, NEW s, NEW itr, NEW stk, IsSequence(stk), stk # <<>>, NEW starts, NEW args,
           Stood(M, s, itr, stk, starts, args), starts[1] \in Nat,
           NEW x, x # Parser!NoNode, Given(M, s, itr, stk[1].fn, stk[1].precedence, starts[1], x)
    PROVE  Traced(M, s, itr, Tail(stk), x, args)
<1>1. PICK cut, m : Parted(M, s, args, cut, m) /\ m <= itr - 2 /\ Linked(M, s, itr, m, stk, starts)
  BY DEF Stood
<1>2. PICK rest : /\ Linked(M, s, itr, m, Tail(stk), rest)
                  /\ Awaits(M, s, m, Tail(stk), rest, 1, stk[1].fn, stk[1].precedence, starts[1])
  BY <1>1, LinkedReturn
<1>3. Standing(M, s, itr, m, Tail(stk), rest, x)
  BY <1>2 DEF Standing
<1> QED BY <1>1, <1>3 DEF Traced

LEMMA TracedStay ==
    ASSUME NEW M, NEW s, NEW itr, NEW stk, IsSequence(stk), stk # <<>>, NEW starts, NEW args,
           Stood(M, s, itr, stk, starts, args),
           NEW f, f.fn = stk[1].fn, f.precedence = stk[1].precedence, Ready(M, s, itr, f, starts[1])
    PROVE  Traced(M, s, itr, <<f>> \o Tail(stk), Parser!NoNode, args)
<1>1. PICK cut, m : Parted(M, s, args, cut, m) /\ m <= itr - 2 /\ Linked(M, s, itr, m, stk, starts)
  BY DEF Stood
<1> DEFINE u == <<f>> \o Tail(stk)
<1>2. Linked(M, s, itr, m, u, starts)
  BY <1>1, LinkedStay
<1>3. u[1] = f /\ u # <<>>
  <2>1. Len(u) = Len(stk) /\ u[1] = f /\ Len(stk) >= 1 /\ Len(<<>>) = 0
    BY Changed, SequenceDomain DEF IsSequence
  <2> QED BY <2>1
<1> HIDE DEF u
<1>4. Standing(M, s, itr, m, u, starts, Parser!NoNode)
  BY <1>2, <1>3 DEF Standing
<1> QED BY <1>1, <1>4 DEF Traced, u

LEMMA TracedCall ==
    ASSUME NEW M, NEW s, NEW itr, NEW stk, IsSequence(stk), stk # <<>>, NEW starts, NEW args,
           Stood(M, s, itr, stk, starts, args),
           NEW f, f.fn = stk[1].fn, f.precedence = stk[1].precedence,
           NEW g, NEW c \in 1..itr - 1, WaitsAt(M, s, f, starts[1], g.fn, g.precedence, c), Ready(M, s, itr, g, c)
    PROVE  Traced(M, s, itr, <<g, f>> \o Tail(stk), Parser!NoNode, args)
<1>1. PICK cut, m : Parted(M, s, args, cut, m) /\ m <= itr - 2 /\ Linked(M, s, itr, m, stk, starts)
  BY DEF Stood
<1> DEFINE u == <<g, f>> \o Tail(stk)
           new == [k \in 1..Len(stk) + 1 |-> IF k = 1 THEN c ELSE starts[k - 1]]
<1>2. Linked(M, s, itr, m, u, new)
  BY <1>1, LinkedCall
<1>3. u[1] = g /\ u # <<>> /\ new[1] = c
  <2>1. Len(u) = Len(stk) + 1 /\ u[1] = g /\ Len(stk) >= 1 /\ Len(<<>>) = 0 /\ Len(stk) \in Nat
    BY Pushed, SequenceDomain DEF IsSequence
  <2> QED BY <2>1
<1> HIDE DEF u, new
<1>4. Standing(M, s, itr, m, u, new, Parser!NoNode)
  BY <1>2, <1>3 DEF Standing
<1> QED BY <1>1, <1>4 DEF Traced, u

LEMMA TracedBegins ==
    ASSUME NEW M, NEW s, NEW itr, InPlace(s, itr), NEW args, Traced(M, s, itr, <<>>, Parser!NoNode, args),
           NEW g, g.fn = "expression", g.precedence = 0, g.at = "begin"
    PROVE  Traced(M, s, itr, <<g>>, Parser!NoNode, args)
<1>0. itr \in Nat /\ itr >= 2
  BY ReadPlaces
<1>1. PICK cut, m, old :
          Parted(M, s, args, cut, m) /\ m <= itr - 2 /\ Standing(M, s, itr, m, <<>>, old, Parser!NoNode)
  BY DEF Traced
<1>2. m = itr - 2
  BY <1>1 DEF Standing
<1> DEFINE u == <<g>>
           starts == <<itr - 1>>
<1>3. Len(u) = 1 /\ u[1] = g /\ u # <<>> /\ starts[1] = itr - 1
  OBVIOUS
<1> HIDE DEF u, starts
<1>4. Linked(M, s, itr, m, u, starts)
  <2> SUFFICES ASSUME NEW k \in 1..Len(u)
               PROVE  /\ starts[k] \in 1..itr - 1
                      /\ Awaits(M, s, m, u, starts, k + 1, u[k].fn, u[k].precedence, starts[k])
    BY DEF Linked
  <2>1. k = 1 /\ k + 1 > Len(u) /\ itr - 1 \in 1..itr - 1 /\ itr - 1 = m + 1
    BY <1>0, <1>2, <1>3
  <2> QED BY <1>3, <2>1 DEF Awaits
<1>5. Ready(M, s, itr, u[1], starts[1])
  BY <1>3 DEF Ready
<1>6. Standing(M, s, itr, m, u, starts, Parser!NoNode)
  BY <1>3, <1>4, <1>5 DEF Standing
<1> QED BY <1>1, <1>6 DEF Traced, u

LEMMA PartedMore ==
    ASSUME NEW M, NEW s, NEW args, NEW cut, NEW m, Parted(M, s, args, cut, m),
           NEW w \in Nat, m < w, NEW x, PartOf(M, s, m, w, x)
    PROVE  \E more : Parted(M, s, Append(args, x), more, w)
<1>0. /\ IsSequence(args) /\ m \in Nat /\ Len(args) \in Nat
      /\ cut \in [0..Len(args) -> 0..m] /\ cut[0] = 0 /\ cut[Len(args)] = m
  BY SequenceDomain DEF Parted
<1> DEFINE N == Len(args)
           a == Append(args, x)
           more == [i \in 0..N + 1 |-> IF i <= N THEN cut[i] ELSE w]
<1>1. IsSequence(a) /\ Len(a) = N + 1 /\ a[N + 1] = x /\ \A i \in 1..N : a[i] = args[i]
  <2>1. PICK S : args \in Seq(S)
    BY <1>0 DEF IsSequence
  <2>2. a \in Seq(S \cup {x}) /\ Len(a) = N + 1 /\ a[N + 1] = x /\ \A i \in 1..N : a[i] = args[i]
    BY <2>1
  <2> QED BY <2>2 DEF IsSequence
<1>2. (\A i \in 0..N : more[i] = cut[i] /\ cut[i] \in 0..m) /\ more[N + 1] = w
  BY <1>0
<1>3. more \in [0..N + 1 -> 0..w]
  BY <1>0
<1> HIDE DEF more, a
<1>4. ASSUME NEW i \in 1..N + 1
      PROVE  more[i - 1] < more[i] /\ PartOf(M, s, more[i - 1], more[i], a[i])
  <2>1. CASE i = N + 1
    <3>1. i - 1 = N /\ N \in 0..N
      BY <1>0, <2>1
    <3>2. more[i - 1] = m
      BY <1>0, <1>2, <3>1
    <3> QED BY <1>1, <1>2, <2>1, <3>2
  <2>2. CASE i # N + 1
    <3>1. i \in 1..N /\ i \in 0..N /\ i - 1 \in 0..N
      BY <1>0, <2>2
    <3>2. cut[i - 1] < cut[i] /\ PartOf(M, s, cut[i - 1], cut[i], args[i])
      BY <3>1 DEF Parted
    <3> QED BY <1>1, <1>2, <3>1, <3>2
  <2> QED BY <2>1, <2>2
<1>5. more[0] = 0
  BY <1>0, <1>2
<1>6. Parted(M, s, a, more, w)
  BY <1>1, <1>2, <1>3, <1>4, <1>5 DEF Parted
<1> QED BY <1>6 DEF a

\* An expression ends, with a ";" or not.
LEMMA TracedEnds ==
    ASSUME NEW M, NEW s, NEW itr, Given1(M, s, itr), NEW args,
           NEW x, x # Parser!NoNode, Traced(M, s, itr, <<>>, x, args),
           NEW w, w = itr - 2 \/ (w = itr - 1 /\ EndsAt(s, w))
    PROVE  \E cut : Parted(M, s, Append(args, x), cut, w)
<1>0. itr \in Nat /\ itr >= 2 /\ InPlace(s, itr)
  BY ReadPlaces DEF Given1
<1>1. PICK cut, m, old :
          Parted(M, s, args, cut, m) /\ m <= itr - 2 /\ Standing(M, s, itr, m, <<>>, old, x)
  BY DEF Traced
<1>2. PICK fn, q, c : Awaits(M, s, m, <<>>, old, 1, fn, q, c) /\ c \in Nat /\ Given(M, s, itr, fn, q, c, x)
  BY <1>1 DEF Standing
<1>3. fn = "expression" /\ q = 0 /\ c = m + 1
  <2>1. Len(<<>>) = 0 /\ 1 > 0
    OBVIOUS
  <2>2. 1 > Len(<<>>)
    BY <2>1
  <2> QED BY <1>2, <2>2 DEF Awaits
<1>m. m \in Nat /\ m + 1 \in Nat /\ 1 <= m + 1
  <2>1. m \in Nat
    BY <1>1 DEF Parted
  <2> QED BY <2>1
<1>4. Held(M, s, itr, 0, m + 1, x) /\ Parser!TokenAt(s, itr - 1).type # "*"
  BY <1>2, <1>3, NoOperatorBelow DEF Given
<1>5. m + 1 <= itr - 2 /\ <<m + 1, itr - 2, 0, x>> \in M
  BY <1>m, <1>4, AnyHeld
<1>n. /\ itr - 2 \in Nat /\ m < itr - 2 /\ itr - 1 \in Nat /\ m < itr - 1 /\ (itr - 1) - 1 = itr - 2
  BY <1>0, <1>m, <1>5
<1>6. CASE w = itr - 2
  <2>1. PartOf(M, s, m, w, x) /\ w \in Nat /\ m < w
    BY <1>n, <1>5, <1>6 DEF PartOf
  <2> QED BY <1>1, <2>1, PartedMore
<1>7. CASE w = itr - 1 /\ EndsAt(s, w)
  <2>1. w - 1 = itr - 2 /\ w \in Nat /\ m < w
    BY <1>n, <1>7
  <2>2. PartOf(M, s, m, w, x)
    BY <1>5, <1>7, <2>1 DEF PartOf
  <2> QED BY <1>1, <2>1, <2>2, PartedMore
<1> QED BY <1>6, <1>7

LEMMA TracedAgain ==
    ASSUME NEW M, NEW s, NEW itr, itr - 2 \in Nat, NEW args, NEW cut, Parted(M, s, args, cut, itr - 2)
    PROVE  Traced(M, s, itr, <<>>, Parser!NoNode, args)
<1>1. Len(<<>>) = 0
  OBVIOUS
<1>2. Standing(M, s, itr, itr - 2, <<>>, <<>>, Parser!NoNode)
  BY <1>1 DEF Standing, Linked
<1> QED BY <1>2 DEF Traced

-----------------------------------------------------------------------------
(* The steps of the parser *)

TracedHere(M)  == Traced(M, tokens, token_itr_, stack, ret, arg_list)
TracedThere(M) == Traced(M, tokens', token_itr_', stack', ret', arg_list')

\* The frame on top, whose part of the tokens begins at starts[1].
OnTop(M, starts) ==
    /\ StackInv /\ stack # <<>> /\ starts[1] \in Nat /\ 1 <= starts[1]
    /\ Stood(M, tokens', token_itr_', stack, starts, arg_list)

LEMMA ReturnTraced ==
    ASSUME NEW M, NEW starts, OnTop(M, starts), NEW x, x # Parser!NoNode, Parser!Return(x), 
           Given(M, tokens', token_itr_', stack[1].fn, stack[1].precedence, starts[1], x)
    PROVE  TracedThere(M)
<1>1. stack' = Tail(stack) /\ ret' = x /\ arg_list' = arg_list
  BY DEF Parser!Return
<1>2. IsSequence(stack) /\ stack # <<>> /\ starts[1] \in Nat /\ Stood(M, tokens', token_itr_', stack, starts, arg_list)
  BY DEF OnTop, StackInv
<1> QED BY <1>1, <1>2, TracedReturn DEF TracedThere

LEMMA StayTraced ==
    ASSUME NEW M, NEW starts, OnTop(M, starts), NEW at, NEW value,
           Parser!Stay([stack[1] EXCEPT !.at = at, !.left = value]),
           \/ /\ stack[1].fn = "expression" /\ at = "loop"
              /\ Held(M, tokens', token_itr_', stack[1].precedence, starts[1], value)
           \/ /\ stack[1].fn = "branch" /\ at = "end"
              /\ Held(M, tokens', token_itr_', 11, starts[1], value)
    PROVE  TracedThere(M)
<1> DEFINE f == [stack[1] EXCEPT !.at = at, !.left = value]
<1>1. stack' = <<f>> \o Tail(stack) /\ ret' = Parser!NoNode /\ arg_list' = arg_list
  BY DEF Parser!Stay
<1>2. f.fn = stack[1].fn /\ f.precedence = stack[1].precedence /\ f.at = at /\ f.left = value
  <2>1. IsFrame(stack[1])
    BY TopFrame DEF OnTop
  <2> QED BY <2>1 DEF IsFrame
<1>3. IsSequence(stack) /\ stack # <<>> /\ Stood(M, tokens', token_itr_', stack, starts, arg_list)
  BY DEF OnTop, StackInv
<1> HIDE DEF f
<1>4. Ready(M, tokens', token_itr_', f, starts[1])
  BY <1>2 DEF Ready
<1> QED BY <1>1, <1>2, <1>3, <1>4, TracedStay DEF TracedThere

LEMMA CallTraced ==
    ASSUME NEW M, NEW starts, OnTop(M, starts), outcome' = "parsing",
           NEW f, f.fn = stack[1].fn, f.precedence = stack[1].precedence,
           NEW fn, NEW precedence, NEW left, Parser!Call(f, Parser!Frame(fn, precedence, left)),
           NEW c \in 1..token_itr_' - 1, WaitsAt(M, tokens', f, starts[1], fn, precedence, c),
           \/ fn \in {"expression", "branch"} /\ c = token_itr_' - 1
           \/ /\ fn = "ternary" /\ Parser!TokenAt(tokens', token_itr_' - 1).type = "?"
              /\ c <= token_itr_' - 2 /\ <<c, token_itr_' - 2, 1, left>> \in M
    PROVE  TracedThere(M)
<1> DEFINE callee == Parser!Frame(fn, precedence, left)
           g == Parser!stack_limit_handler(callee)
<1>1. callee.fn = fn /\ callee.at = "begin" /\ callee.precedence = precedence /\ callee.left = left /\ IsFrame(callee)
  BY DEF Parser!Frame, IsFrame
<1> HIDE DEF callee
<1>2. g.fn = fn /\ g.at = "begin" /\ g.precedence = precedence /\ g.left = left
  BY <1>1 DEF IsFrame, Parser!stack_limit_handler
<1>3. ~(callee.fn # "ternary" /\ Parser!stack_depth + 1 > max_stack_depth)
  BY DEF Parser!Call, Parser!Fail, callee
<1>4. stack' = <<g, f>> \o Tail(stack) /\ ret' = Parser!NoNode /\ arg_list' = arg_list
  BY <1>3 DEF Parser!Call, callee
<1>5. IsSequence(stack) /\ stack # <<>> /\ Stood(M, tokens', token_itr_', stack, starts, arg_list)
  BY DEF OnTop, StackInv
<1> HIDE DEF g
<1>6. Ready(M, tokens', token_itr_', g, c)
  BY <1>2 DEF Ready
<1>7. WaitsAt(M, tokens', f, starts[1], g.fn, g.precedence, c)
  BY <1>2
<1> QED BY <1>4, <1>5, <1>6, <1>7, TracedCall DEF TracedThere

\* What a frame knows that waits for a value, and one that goes on.
LEMMA WaitsBranch ==
    ASSUME NEW M, NEW s, NEW f, NEW b, NEW fn, NEW q, NEW c, WaitsAt(M, s, f, b, fn, q, c)
    PROVE  /\ f.at = "branch" => fn = "branch" /\ q = f.precedence /\ c = b
           /\ f.at = "ternary" => f.precedence = 0 /\ fn = "ternary" /\ q = 0 /\ c = b
           /\ f.at = "consequent" => fn = "expression" /\ q = 0 /\
                 \E k \in Nat : b < k /\ c = k + 1 /\ s[k].type = "?" /\ <<b, k - 1, 1, f.left>> \in M
BY DEF WaitsAt

LEMMA ReadyBranch ==
    ASSUME NEW M, NEW s, NEW itr, NEW f, NEW b, Ready(M, s, itr, f, b)
    PROVE  /\ f.fn \in {"expression", "branch"} /\ f.at = "begin" => b = itr - 1
           /\ f.fn = "ternary" => /\ f.at = "begin" /\ Parser!TokenAt(s, itr - 1).type = "?"
                                  /\ b <= itr - 2 /\ <<b, itr - 2, 1, f.left>> \in M
           /\ f.at = "loop" => f.fn = "expression" /\ Held(M, s, itr, f.precedence, b, f.left)
           /\ f.at = "end" => f.fn = "branch" /\ Held(M, s, itr, 11, b, f.left)
BY DEF Ready

\* The list only changes from the next token on.
Grows == Agree(tokens, tokens', token_itr_ - 1) /\ token_itr_' \in Nat /\ token_itr_ <= token_itr_'

LEMMA ReadOn ==
    ASSUME InPlace(tokens, token_itr_), IsReal(tokens, token_itr_ - 1), Parser!next_token
    PROVE  /\ tokens' = tokens /\ token_itr_' = token_itr_ + 1 /\ token_itr_ \in Nat /\ token_itr_ >= 2
           /\ token_itr_ - 1 \in DOMAIN tokens /\ Parser!current_token = tokens[token_itr_ - 1] /\ Grows
<1>1. /\ token_itr_ \in Nat /\ token_itr_ >= 2 /\ token_itr_ - 1 \in DOMAIN tokens
      /\ Len(tokens) \in Nat /\ DOMAIN tokens = 1..Len(tokens)
  BY ReadPlaces, RealToken
<1>2. tokens' = tokens /\ token_itr_' = token_itr_ + 1
  BY GoesOn DEF Parser!next_token
<1> QED BY <1>1, <1>2 DEF Grows, Agree, Parser!current_token, Parser!TokenAt

LEMMA StaysHere ==
    ASSUME InPlace(tokens, token_itr_), Waits
    PROVE  tokens' = tokens /\ token_itr_' = token_itr_ /\ token_itr_ \in Nat /\ token_itr_ >= 2 /\ Grows
<1>1. /\ token_itr_ \in Nat /\ token_itr_ >= 2 /\ token_itr_ - 2 <= Len(tokens)
      /\ Len(tokens) \in Nat /\ DOMAIN tokens = 1..Len(tokens)
  BY ReadPlaces
<1> QED BY <1>1 DEF Waits, Grows, Agree

\* What the frame on top can rely on.
Relies(M, starts) ==
    /\ OnTop(M, starts) /\ starts[1] \in 1..token_itr_ - 1
    /\ ret # Parser!NoNode =>
          \E fn, q, c : /\ WaitsAt(M, tokens, stack[1], starts[1], fn, q, c) /\ c \in Nat
                        /\ Given(M, tokens, token_itr_, fn, q, c, ret)
    /\ ret = Parser!NoNode => Ready(M, tokens, token_itr_, stack[1], starts[1])

LEMMA TopRelies ==
    ASSUME NEW M, StackInv, stack # <<>>, InPlace(tokens, token_itr_), Grows, TracedHere(M)
    PROVE  \E starts : Relies(M, starts)
<1>1. IsSequence(stack) /\ token_itr_ \in Nat /\ token_itr_' \in Nat /\ token_itr_ <= token_itr_'
      /\ Agree(tokens, tokens', token_itr_ - 1)
  BY ReadPlaces DEF StackInv, Grows
<1>2. PICK starts :
              /\ Stood(M, tokens, token_itr_, stack, starts, arg_list) /\ starts[1] \in 1..token_itr_ - 1
              /\ ret # Parser!NoNode =>
                    \E fn, q, c : /\ WaitsAt(M, tokens, stack[1], starts[1], fn, q, c) /\ c \in Nat
                                  /\ Given(M, tokens, token_itr_, fn, q, c, ret)
              /\ ret = Parser!NoNode => Ready(M, tokens, token_itr_, stack[1], starts[1])
  BY <1>1, Stands DEF TracedHere
<1>3. Stood(M, tokens', token_itr_', stack, starts, arg_list)
  BY <1>1, <1>2, StoodMoves
<1>4. OnTop(M, starts)
  BY <1>1, <1>2, <1>3 DEF OnTop
<1> QED BY <1>2, <1>4 DEF Relies

LEMMA TopAt ==
    ASSUME NEW M, NEW starts, Relies(M, starts)
    PROVE  /\ OnTop(M, starts) /\ IsFrame(stack[1]) /\ Parser!Top = stack[1] /\ stack # <<>>
           /\ starts[1] \in Nat /\ 1 <= starts[1] /\ starts[1] \in 1..token_itr_ - 1
BY TopFrame DEF Relies, OnTop

LEMMA Reliance ==
    ASSUME NEW M, NEW starts, Relies(M, starts)
    PROVE  /\ ret = Parser!NoNode /\ stack[1].fn \in {"expression", "branch"} /\ stack[1].at = "begin" =>
                 starts[1] = token_itr_ - 1
           /\ stack[1].at \in {"loop", "end"} => ret = Parser!NoNode
           /\ stack[1].at = "loop" => Held(M, tokens, token_itr_, stack[1].precedence, starts[1], stack[1].left)
           /\ stack[1].at = "end" => Held(M, tokens, token_itr_, 11, starts[1], stack[1].left)
           /\ ret # Parser!NoNode /\ stack[1].at = "branch" =>
                 Held(M, tokens, token_itr_, stack[1].precedence, starts[1], ret)
           /\ ret # Parser!NoNode /\ stack[1].at = "ternary" =>
                 stack[1].precedence = 0 /\ Held(M, tokens, token_itr_, 0, starts[1], ret)
<1>1. CASE ret = Parser!NoNode
  <2>1. Ready(M, tokens, token_itr_, stack[1], starts[1])
    BY <1>1 DEF Relies
  <2>2. stack[1].fn \in {"expression", "branch"} /\ stack[1].at = "begin" => starts[1] = token_itr_ - 1
    BY <2>1 DEF Ready
  <2>3. stack[1].at = "loop" => Held(M, tokens, token_itr_, stack[1].precedence, starts[1], stack[1].left)
    BY <2>1, ReadyBranch
  <2>4. stack[1].at = "end" => Held(M, tokens, token_itr_, 11, starts[1], stack[1].left)
    BY <2>1, ReadyBranch
  <2> QED BY <1>1, <2>2, <2>3, <2>4
<1>2. CASE ret # Parser!NoNode
  <2>1. PICK fn, q, c : /\ WaitsAt(M, tokens, stack[1], starts[1], fn, q, c) /\ c \in Nat
                        /\ Given(M, tokens, token_itr_, fn, q, c, ret)
    BY <1>2 DEF Relies
  <2>2. Held(M, tokens, token_itr_, q, c, ret)
    BY <2>1 DEF Given
  <2>3. /\ stack[1].at = "branch" => fn = "branch" /\ q = stack[1].precedence /\ c = starts[1]
        /\ stack[1].at = "ternary" => stack[1].precedence = 0 /\ fn = "ternary" /\ q = 0 /\ c = starts[1]
    BY <2>1, WaitsBranch
  <2>4. stack[1].at \notin {"loop", "end"}
    BY <2>1 DEF WaitsAt
  <2> QED BY <1>2, <2>2, <2>3, <2>4
<1> QED BY <1>1, <1>2

LEMMA ExpressionTraced ==
    ASSUME NEW M, NEW starts, Relies(M, starts), InPlace(tokens, token_itr_), outcome' = "parsing", Sound(stack[1]),
           Given1(M, tokens', token_itr_'), Waits,
           Parser!expression_begin \/ Parser!expression_branch \/ Parser!expression_end \/ Parser!expression_ternary
    PROVE  TracedThere(M)
<1>0. /\ OnTop(M, starts) /\ IsFrame(stack[1]) /\ Parser!Top = stack[1] /\ stack # <<>>
      /\ starts[1] \in Nat /\ starts[1] \in 1..token_itr_ - 1
  BY TopAt
<1>1. tokens' = tokens /\ token_itr_' = token_itr_ /\ token_itr_ \in Nat
  BY StaysHere
<1>2. CASE Parser!expression_begin
  <2> DEFINE f == [stack[1] EXCEPT !.at = "branch"]
  <2>1. /\ stack[1].fn = "expression" /\ stack[1].at = "begin" /\ ret = Parser!NoNode
        /\ Parser!Call(f, Parser!Frame("branch", stack[1].precedence, Parser!NoNode))
    BY <1>0, <1>2 DEF Parser!expression_begin, Parser!Begins, Parser!In, Parser!parse_branch
  <2>2. f.fn = stack[1].fn /\ f.precedence = stack[1].precedence /\ f.at = "branch"
    BY <1>0 DEF IsFrame
  <2> HIDE DEF f
  <2>3. starts[1] = token_itr_ - 1
    BY <2>1, Reliance
  <2>4. WaitsAt(M, tokens', f, starts[1], "branch", stack[1].precedence, starts[1])
    BY <2>1, <2>2 DEF WaitsAt
  <2> QED BY <1>0, <1>1, <2>1, <2>2, <2>3, <2>4, CallTraced
<1>3. CASE Parser!expression_branch
  <2>1. /\ stack[1].fn = "expression" /\ stack[1].at = "branch" /\ ret # Parser!NoNode
        /\ IF Parser!token_is(";") THEN Parser!Return(ret) ELSE Parser!Stay([stack[1] EXCEPT !.at = "loop", !.left = ret])
    BY <1>0, <1>3 DEF Parser!expression_branch, Parser!Resumes, Parser!In
  <2>2. Held(M, tokens, token_itr_, stack[1].precedence, starts[1], ret)
    BY <2>1, Reliance
  <2>3. CASE Parser!token_is(";")
    <3>1. NextBelow(tokens, token_itr_, stack[1].precedence)
      <4>1. NextOperator(tokens, token_itr_) = "none"
        BY <2>3 DEF Parser!token_is, Parser!current_token, NextOperator, Parser!OperatorOf, Parser!Comparisons
      <4> QED BY <4>1 DEF NextBelow
    <3>2. Given(M, tokens', token_itr_', stack[1].fn, stack[1].precedence, starts[1], ret)
      BY <1>1, <2>2, <3>1 DEF Given
    <3> QED BY <1>0, <2>1, <2>3, <3>2, ReturnTraced
  <2>4. CASE ~Parser!token_is(";")
    <3>1. Parser!Stay([stack[1] EXCEPT !.at = "loop", !.left = ret])
      BY <2>1, <2>4
    <3> QED BY <1>0, <1>1, <2>1, <2>2, <3>1, StayTraced
  <2> QED BY <2>3, <2>4
<1>4. CASE Parser!expression_end
  <2>1. /\ stack[1].fn = "expression" /\ stack[1].at = "loop" /\ ~Parser!TakesOperator
        /\ Parser!Return(stack[1].left)
    BY <1>0, <1>4 DEF Parser!expression_end, Parser!In
  <2>2. Held(M, tokens, token_itr_, stack[1].precedence, starts[1], stack[1].left)
    BY <2>1, Reliance
  <2>3. NextBelow(tokens, token_itr_, stack[1].precedence)
    BY <1>0, <2>1 DEF Parser!TakesOperator, Parser!operator, Parser!current_token, NextBelow, NextOperator, OperatorLeft
  <2>4. Given(M, tokens', token_itr_', stack[1].fn, stack[1].precedence, starts[1], stack[1].left)
    BY <1>1, <2>2, <2>3 DEF Given
  <2>5. stack[1].left # Parser!NoNode
    BY <2>1 DEF Sound, IsNode, Parser!NoNode
  <2> QED BY <1>0, <2>1, <2>4, <2>5, ReturnTraced
<1>5. CASE Parser!expression_ternary
  <2>1. /\ stack[1].fn = "expression" /\ stack[1].at = "ternary" /\ ret # Parser!NoNode
        /\ Parser!Stay([stack[1] EXCEPT !.at = "loop", !.left = ret])
    BY <1>0, <1>5 DEF Parser!expression_ternary, Parser!Resumes, Parser!In
  <2>2. Held(M, tokens, token_itr_, stack[1].precedence, starts[1], ret)
    BY <2>1, Reliance
  <2> QED BY <1>0, <1>1, <2>1, <2>2, StayTraced
<1> QED BY <1>2, <1>3, <1>4, <1>5

LEMMA OperatorTraced ==
    ASSUME NEW M, NEW starts, Relies(M, starts), InPlace(tokens, token_itr_), outcome' = "parsing",
           Parser!expression_operator
    PROVE  TracedThere(M)
<1> DEFINE op == Parser!operator
           f == [stack[1] EXCEPT !.at = "right", !.op = op]
<1>0. /\ OnTop(M, starts) /\ IsFrame(stack[1]) /\ Parser!Top = stack[1] /\ stack # <<>>
      /\ starts[1] \in Nat /\ starts[1] \in 1..token_itr_ - 1
  BY TopAt
<1>1. /\ stack[1].fn = "expression" /\ stack[1].at = "loop" /\ op # "none"
      /\ OperatorLeft(op) >= stack[1].precedence
      /\ Parser!Call(f, Parser!Frame("expression", OperatorRight(op), Parser!NoNode)) /\ Parser!next_token
  BY <1>0 DEF Parser!expression_operator, Parser!In, Parser!TakesOperator, Parser!parse_expression, OperatorLeft, OperatorRight
<1>2. IsReal(tokens, token_itr_ - 1)
  BY <1>1 DEF Parser!operator, Parser!OperatorOf, Parser!OrOperators, Parser!AndOperators, Parser!Comparisons,
              IsReal, Parser!current_token
<1>3. /\ tokens' = tokens /\ token_itr_' = token_itr_ + 1 /\ token_itr_ \in Nat /\ token_itr_ >= 2
      /\ token_itr_ - 1 \in DOMAIN tokens /\ Parser!current_token = tokens[token_itr_ - 1]
  BY <1>1, <1>2, ReadOn
<1>4. f.fn = stack[1].fn /\ f.precedence = stack[1].precedence /\ f.at = "right" /\ f.op = op /\ f.left = stack[1].left
  BY <1>0 DEF IsFrame
<1>5. Held(M, tokens, token_itr_, stack[1].precedence, starts[1], stack[1].left)
  BY <1>1, Reliance
<1>6. PICK e \in Nat, r \in Ranks :
        /\ Upto(tokens, token_itr_, e) /\ Ranked(M, tokens, starts[1], e, stack[1].left, r)
        /\ NextBelow(tokens, token_itr_, r + 1)
  BY <1>5 DEF Held
<1>7. op = NextOperator(tokens, token_itr_)
  BY DEF Parser!operator, Parser!current_token, NextOperator
<1>op. op = Parser!OperatorOf(tokens[token_itr_ - 1])
  BY <1>3 DEF Parser!operator
<1> HIDE DEF f, op
<1>8. OperatorLeft(op) <= r
  <2>1. ~(OperatorLeft(op) >= r + 1) /\ r \in Nat
    BY <1>1, <1>6, <1>7 DEF NextBelow, Ranks
  <2> QED BY <2>1, LevelsOfAll
<1>9. Between(tokens, e, op, token_itr_)
  <2>1. CASE e = token_itr_ - 2
    <3>1. token_itr_ = e + 2 /\ e + 1 = token_itr_ - 1
      BY <1>3, <2>1
    <3> QED BY <1>op, <3>1 DEF Between
  <2>2. CASE e = token_itr_ - 3 /\ Parser!PutIn(tokens, token_itr_ - 2)
    <3>1. token_itr_ = e + 3 /\ e + 1 = token_itr_ - 2 /\ (token_itr_ - 2) + 1 = token_itr_ - 1
      BY <1>3, <2>2
    <3>2. tokens[token_itr_ - 1].type = "*"
      BY <2>2, <3>1 DEF Parser!PutIn
    <3>3. op = "*"
      BY <1>op, <3>2 DEF Parser!OperatorOf
    <3> QED BY <2>2, <3>1, <3>3 DEF Between
  <2> QED BY <1>6, <2>1, <2>2 DEF Upto
<1>10. WaitsAt(M, tokens', f, starts[1], "expression", OperatorRight(op), token_itr_)
  <2>1. f.precedence <= OperatorLeft(f.op)
    BY <1>1, <1>4
  <2>2. \E d \in Nat, p \in Ranks :
            /\ Ranked(M, tokens, starts[1], d, f.left, p) /\ OperatorLeft(f.op) <= p
            /\ Between(tokens, d, f.op, token_itr_)
    BY <1>4, <1>6, <1>8, <1>9
  <2>3. f.op \in BinaryOperators \cup Parser!Unfit
    BY <1>1, <1>4, <1>op, OperatorsKnown
  <2> QED BY <1>1, <1>3, <1>4, <2>1, <2>2, <2>3 DEF WaitsAt
<1>11. token_itr_ \in 1..token_itr_' - 1 /\ token_itr_ = token_itr_' - 1
  BY <1>3
<1> QED BY <1>0, <1>1, <1>4, <1>10, <1>11, CallTraced

LEMMA CombineTraced ==
    ASSUME NEW M, NEW starts, Relies(M, starts), InPlace(tokens, token_itr_), outcome' = "parsing",
           Given1(M, tokens, token_itr_), Waits, Parser!expression_combine
    PROVE  TracedThere(M)
<1> DEFINE x == Parser!Node(stack[1].op, stack[1].left, ret)
<1>0. /\ OnTop(M, starts) /\ IsFrame(stack[1]) /\ Parser!Top = stack[1] /\ stack # <<>>
      /\ starts[1] \in Nat /\ 1 <= starts[1] /\ starts[1] \in 1..token_itr_ - 1
  BY TopAt
<1>1. tokens' = tokens /\ token_itr_' = token_itr_ /\ token_itr_ \in Nat
  BY StaysHere
<1>f. ~Parser!Fail
  BY DEF Parser!Fail
<1>2. /\ stack[1].fn = "expression" /\ stack[1].at = "right" /\ ret # Parser!NoNode /\ stack[1].op \notin Parser!Unfit
      /\ IF Parser!token_is("?") /\ stack[1].precedence = 0
         THEN Parser!Call([stack[1] EXCEPT !.at = "ternary"], Parser!Frame("ternary", 0, x))
         ELSE Parser!Stay([stack[1] EXCEPT !.at = "loop", !.left = x])
  BY <1>0, <1>f DEF Parser!expression_combine, Parser!Resumes, Parser!In, Parser!parse_ternary_conditional_statement
<1>4. PICK fn, q, c : /\ WaitsAt(M, tokens, stack[1], starts[1], fn, q, c) /\ c \in Nat
                      /\ Given(M, tokens, token_itr_, fn, q, c, ret)
  BY <1>2 DEF Relies
<1>3. stack[1].op \in BinaryOperators
  <2>1. stack[1].op \in BinaryOperators \cup Parser!Unfit
    BY <1>2, <1>4 DEF WaitsAt
  <2> QED BY <1>2, <2>1
<1>5. PICK e \in Nat, r \in Ranks \ {0} :
              /\ Upto(tokens, token_itr_, e) /\ e <= token_itr_ - 2
              /\ Ranked(M, tokens, starts[1], e, x, r)
              /\ r >= stack[1].precedence \/ r >= 11
              /\ NextBelow(tokens, token_itr_, r + 1)
  BY <1>0, <1>2, <1>3, <1>4, CombinedHeld
<1> HIDE DEF x
<1>6. CASE Parser!token_is("?") /\ stack[1].precedence = 0
  <2> DEFINE f == [stack[1] EXCEPT !.at = "ternary"]
  <2>1. f.fn = stack[1].fn /\ f.precedence = stack[1].precedence /\ f.at = "ternary"
    BY <1>0 DEF IsFrame
  <2>2. Parser!Call(f, Parser!Frame("ternary", 0, x))
    BY <1>2, <1>6
  <2> HIDE DEF f
  <2>3. Parser!TokenAt(tokens, token_itr_ - 1).type = "?"
    BY <1>6 DEF Parser!token_is, Parser!current_token
  <2>4. starts[1] <= token_itr_ - 2 /\ <<starts[1], token_itr_ - 2, 1, x>> \in M
    BY <1>0, <1>5, <2>3, ConditionHeld
  <2>5. WaitsAt(M, tokens', f, starts[1], "ternary", 0, starts[1])
    BY <1>2, <1>6, <2>1 DEF WaitsAt
  <2> QED BY <1>0, <1>1, <2>1, <2>2, <2>3, <2>4, <2>5, CallTraced
<1>7. CASE ~(Parser!token_is("?") /\ stack[1].precedence = 0)
  <2>1. Held(M, tokens, token_itr_, stack[1].precedence, starts[1], x)
    BY <1>5 DEF Held
  <2> QED BY <1>0, <1>1, <1>2, <1>7, <2>1, StayTraced
<1> QED BY <1>6, <1>7

\* An operand is read, and so is a sign or a bracket in front of one.
LEMMA OperandTraced ==
    ASSUME NEW M, NEW starts, Relies(M, starts), InPlace(tokens, token_itr_), outcome' = "parsing",
           NotOpenLast(tokens), Given1(M, tokens', token_itr_'), UNCHANGED symbol_table,
           Parser!branch_number \/ Parser!branch_symbol
    PROVE  TracedThere(M)
<1>0. /\ OnTop(M, starts) /\ IsFrame(stack[1]) /\ Parser!Top = stack[1] /\ stack # <<>>
      /\ starts[1] \in Nat /\ starts[1] \in 1..token_itr_ - 1
  BY TopAt
<1>1. stack[1].fn = "branch" /\ stack[1].at = "begin" /\ ret = Parser!NoNode
  BY <1>0 DEF Parser!branch_number, Parser!branch_symbol, Parser!Begins, Parser!In
<1>2. starts[1] = token_itr_ - 1
  BY <1>1, Reliance
<1>3. IsReal(tokens, token_itr_ - 1)
  BY DEF Parser!branch_number, Parser!branch_symbol, Parser!token_is, IsReal, Parser!current_token
<1>4. token_itr_ - 1 \in DOMAIN tokens /\ Parser!current_token = tokens[token_itr_ - 1]
  BY <1>3, RealToken DEF Parser!current_token, Parser!TokenAt
<1>5. /\ token_itr_' = token_itr_ + 1 /\ tokens'[token_itr_ - 1] = tokens[token_itr_ - 1]
      /\ token_itr_ - 1 \in DOMAIN tokens'
  <2>1. CASE Parser!branch_number
    BY <1>3, <1>4, <2>1, ReadOn DEF Parser!branch_number
  <2>2. CASE Parser!branch_symbol
    <3>1. /\ tokens' = IF StartsBracket(tokens, token_itr_) THEN Parser!insert_front(tokens, token_itr_, "*") ELSE tokens
          /\ token_itr_' = Parser!After(tokens', token_itr_)
      BY <2>2 DEF Parser!branch_symbol, StartsBracket
    <3> QED BY <1>4, <3>1, SymbolChanges
  <2> QED BY <2>1, <2>2
<1> DEFINE i == token_itr_ - 1
           g == ReadPart(tokens', token_itr_' - 2)
<1>6. Parser!IsGrammar(M, g) /\ i \in DOMAIN g /\ g[i] = tokens[i]
  <2>1. token_itr_ \in Nat /\ token_itr_ >= 2 /\ token_itr_' - 2 = i
    BY <1>5, ReadPlaces
  <2>2. InPlace(tokens', token_itr_')
    BY DEF Given1
  <2>3. i \in 1..token_itr_' - 2
    BY <2>1
  <2>4. i \in DOMAIN g /\ g[i] = tokens'[i]
    BY <2>2, <2>3, ReadPlaces
  <2> QED BY <1>5, <2>4 DEF Given1
<1> HIDE DEF g
<1>7. \E x : Parser!BranchEnds(x) /\ <<i, i, 8, x>> \in M
  <2>1. CASE Parser!branch_number
    <3>1. g[i].type = "number" /\ Parser!BranchEnds(Parser!Leaf(g[i].value))
      BY <1>4, <1>6, <2>1 DEF Parser!branch_number, Parser!token_is
    <3>2. <<i, i, 8, Parser!Leaf(g[i].value)>> \in M
      <4> HIDE DEF i
      <4> QED BY <1>6, <3>1 DEF Parser!IsGrammar, Parser!OperandRule, Parser!Atom
    <3> QED BY <3>1, <3>2
  <2>2. CASE Parser!branch_symbol
    <3>1. g[i].type = "symbol" /\ \E name \in Parser!Found(g[i].value) : Parser!BranchEnds(Parser!Leaf(name))
      BY <1>4, <1>6, <2>2 DEF Parser!branch_symbol, Parser!token_is
    <3>2. PICK name \in Parser!Found(g[i].value) : Parser!BranchEnds(Parser!Leaf(name))
      BY <3>1
    <3>3. <<i, i, 8, Parser!Leaf(name)>> \in M
      <4> HIDE DEF i
      <4> QED BY <1>6, <3>1, <3>2 DEF Parser!IsGrammar, Parser!OperandRule, Parser!Atom
    <3> QED BY <3>2, <3>3
  <2> QED BY <2>1, <2>2
<1>8. PICK x : Parser!BranchEnds(x) /\ <<i, i, 8, x>> \in M
  BY <1>7
<1>9. Held(M, tokens', token_itr_' , 11, starts[1], x)
  BY <1>2, <1>4, <1>5, <1>8, OperandHeld
<1>10. Parser!Stay([stack[1] EXCEPT !.at = "end", !.left = x])
  BY <1>0, <1>8 DEF Parser!BranchEnds
<1> QED BY <1>0, <1>1, <1>9, <1>10, StayTraced

LEMMA BracketOpens ==
    ASSUME NEW M, NEW starts, Relies(M, starts), InPlace(tokens, token_itr_), outcome' = "parsing",
           Parser!branch_bracket
    PROVE  TracedThere(M)
<1> DEFINE op == Parser!Closing[Parser!current_token.type]
           f == [stack[1] EXCEPT !.at = "bracket", !.op = op]
<1>0. /\ OnTop(M, starts) /\ IsFrame(stack[1]) /\ Parser!Top = stack[1] /\ stack # <<>>
      /\ starts[1] \in Nat /\ starts[1] \in 1..token_itr_ - 1
  BY TopAt
<1>1. /\ stack[1].fn = "branch" /\ stack[1].at = "begin" /\ ret = Parser!NoNode
      /\ Parser!current_token.type \in Parser!LeftBrackets
      /\ Parser!Call(f, Parser!Frame("expression", 0, Parser!NoNode)) /\ Parser!next_token
  BY <1>0 DEF Parser!branch_bracket, Parser!Begins, Parser!In, Parser!parse_expression
<1>2. IsReal(tokens, token_itr_ - 1)
  BY <1>1 DEF IsReal, Parser!current_token, Parser!LeftBrackets
<1>3. /\ tokens' = tokens /\ token_itr_' = token_itr_ + 1 /\ token_itr_ \in Nat /\ token_itr_ >= 2
      /\ token_itr_ - 1 \in DOMAIN tokens /\ Parser!current_token = tokens[token_itr_ - 1]
  BY <1>1, <1>2, ReadOn
<1>4. f.fn = stack[1].fn /\ f.precedence = stack[1].precedence /\ f.at = "bracket" /\ f.op = op
  BY <1>0 DEF IsFrame
<1>5. starts[1] = token_itr_ - 1
  BY <1>1, Reliance
<1>6. token_itr_ = starts[1] + 1 /\ token_itr_ \in 1..token_itr_' - 1 /\ token_itr_ = token_itr_' - 1
  BY <1>3, <1>5
<1>7. tokens'[starts[1]].type \in Parser!LeftBrackets /\ op = Parser!Closing[tokens'[starts[1]].type]
  BY <1>1, <1>3, <1>5
<1> HIDE DEF f, op
<1>8. WaitsAt(M, tokens', f, starts[1], "expression", 0, token_itr_)
  BY <1>1, <1>4, <1>6, <1>7 DEF WaitsAt
<1> QED BY <1>0, <1>1, <1>4, <1>6, <1>8, CallTraced

LEMMA SignOpens ==
    ASSUME NEW M, NEW starts, Relies(M, starts), InPlace(tokens, token_itr_), outcome' = "parsing",
           Parser!branch_sign
    PROVE  TracedThere(M)
<1> DEFINE op == Parser!current_token.type
           f == [stack[1] EXCEPT !.at = "sign", !.op = op]
           q == IF op = "-" THEN 11 ELSE 13
<1>0. /\ OnTop(M, starts) /\ IsFrame(stack[1]) /\ Parser!Top = stack[1] /\ stack # <<>>
      /\ starts[1] \in Nat /\ starts[1] \in 1..token_itr_ - 1
  BY TopAt
<1>1. /\ stack[1].fn = "branch" /\ stack[1].at = "begin" /\ ret = Parser!NoNode /\ op \in {"+", "-"}
      /\ Parser!Call(f, Parser!Frame("expression", q, Parser!NoNode)) /\ Parser!next_token
  BY <1>0 DEF Parser!branch_sign, Parser!Begins, Parser!In, Parser!parse_expression, Parser!token_is
<1>2. IsReal(tokens, token_itr_ - 1)
  BY <1>1 DEF IsReal, Parser!current_token
<1>3. /\ tokens' = tokens /\ token_itr_' = token_itr_ + 1 /\ token_itr_ \in Nat /\ token_itr_ >= 2
      /\ token_itr_ - 1 \in DOMAIN tokens /\ Parser!current_token = tokens[token_itr_ - 1]
  BY <1>1, <1>2, ReadOn
<1>4. f.fn = stack[1].fn /\ f.precedence = stack[1].precedence /\ f.at = "sign" /\ f.op = op
  BY <1>0 DEF IsFrame
<1>5. starts[1] = token_itr_ - 1
  BY <1>1, Reliance
<1>6. token_itr_ = starts[1] + 1 /\ token_itr_ \in 1..token_itr_' - 1 /\ token_itr_ = token_itr_' - 1
  BY <1>3, <1>5
<1>7. tokens'[starts[1]].type = op
  BY <1>3, <1>5
<1> HIDE DEF f, op
<1>8. WaitsAt(M, tokens', f, starts[1], "expression", q, token_itr_)
  BY <1>1, <1>4, <1>6, <1>7 DEF WaitsAt
<1> HIDE DEF q
<1> QED BY <1>0, <1>1, <1>4, <1>6, <1>8, CallTraced

\* What a closing bracket does to the list.
BracketEnded(closing) ==
    /\ InPlace(tokens, closing) /\ SkipsTo(tokens, token_itr_, stack[1].op, closing)
    /\ closing - 1 \in DOMAIN tokens /\ tokens[closing - 1].type = stack[1].op
    /\ \A k \in 1..closing - 1 : k \in DOMAIN tokens /\ k \in DOMAIN tokens' /\ tokens'[k] = tokens[k]
    /\ InPlace(tokens', token_itr_') /\ NotOpenLast(tokens')
    /\ Upto(tokens', token_itr_', closing - 1)

LEMMA BracketEnds ==
    ASSUME InPlace(tokens, token_itr_), StackInv, stack # <<>>, Sound(stack[1]), NotOpenLast(tokens),
           outcome' = "parsing", Parser!branch_bracket_end
    PROVE  /\ stack[1].fn = "branch" /\ stack[1].at = "bracket" /\ ret # Parser!NoNode
           /\ Parser!BranchEnds(ret) /\ Grows
           /\ \E closing : BracketEnded(closing)
<1> DEFINE closing == Parser!BeforeClosing
           behind  == Parser!After(tokens, closing)
           type    == Parser!TokenAt(tokens, behind - 1).type
           times   == Parser!insert_front(Parser!insert_front(tokens, behind, type), behind, "*")
<1>0. Parser!Top = stack[1] /\ ~Parser!Fail
  BY TopFrame DEF Parser!Fail
<1>1. stack[1].fn = "branch" /\ stack[1].at = "bracket" /\ ret # Parser!NoNode
  BY <1>0 DEF Parser!branch_bracket_end, Parser!Resumes, Parser!In
<1>2. /\ Parser!TokenAt(tokens, closing - 1).type = stack[1].op
      /\ Parser!BranchEnds(ret)
      /\ IF StartsBracket(tokens, behind - 1)
         THEN tokens' = times /\ token_itr_' = Parser!After(times, behind)
         ELSE token_itr_' = behind /\ tokens' = tokens
  BY <1>0 DEF Parser!branch_bracket_end, StartsBracket
<1>3. Parser!TokenAt(tokens, closing - 1).type \in Parser!RightBrackets
  BY <1>0, <1>1, <1>2 DEF Sound
<1>4. closing \in {token_itr_, Parser!After(tokens, token_itr_)}
  BY DEF Parser!BeforeClosing
<1>5. SkipsTo(tokens, token_itr_, stack[1].op, closing)
  BY <1>0, Zenon DEF SkipsTo, Parser!BeforeClosing, Parser!After, Parser!token_is, Parser!current_token
<1> HIDE DEF closing
<1>6. InPlace(tokens, closing)
  BY <1>4, Skips
<1>7. IsReal(tokens, closing - 1)
  BY <1>3 DEF IsReal, Parser!RightBrackets
<1>8. closing - 1 \in DOMAIN tokens /\ tokens[closing - 1].type = stack[1].op
  BY <1>2, <1>7, RealToken DEF Parser!TokenAt
<1> HIDE DEF behind
<1>b. behind = Parser!After(tokens, closing)
  BY DEF behind
<1> HIDE DEF type
<1>t. type = Parser!TokenAt(tokens, behind - 1).type
  BY DEF type
<1> HIDE DEF times
<1>s. times = Parser!insert_front(Parser!insert_front(tokens, behind, type), behind, "*")
  BY DEF times
<1>9. /\ \A k \in 1..closing - 1 : k \in DOMAIN tokens /\ k \in DOMAIN tokens' /\ tokens'[k] = tokens[k]
      /\ InPlace(tokens', token_itr_') /\ NotOpenLast(tokens') /\ closing + 1 <= token_itr_'
      /\ Upto(tokens', token_itr_', closing - 1)
  <2>1. IF StartsBracket(tokens, behind - 1)
        THEN tokens' = times /\ token_itr_' = Parser!After(times, behind)
        ELSE token_itr_' = behind /\ tokens' = tokens
    BY <1>2
  <2> QED BY <1>6, <1>8, <1>b, <1>t, <1>s, <2>1, BracketChanges
<1>10. Grows
  <2>1. closing \in Nat /\ token_itr_ \in Nat /\ token_itr_ <= closing /\ token_itr_' \in Nat
    <3>1. token_itr_ \in Nat /\ token_itr_' \in Nat
      BY <1>9, ReadPlaces
    <3>2. closing = token_itr_ \/ closing = token_itr_ + 1
      BY <1>5, Zenon DEF SkipsTo
    <3> QED BY <3>1, <3>2
  <2>2. \A k \in 1..token_itr_ - 1 : k \in 1..closing - 1
    BY <2>1
  <2>3. \A k \in 1..(token_itr_ - 1) - 1 : k \in 1..closing - 1
    BY <2>1
  <2>4. token_itr_ <= token_itr_'
    BY <1>9, <2>1
  <2> QED BY <1>9, <2>1, <2>2, <2>3, <2>4 DEF Grows, Agree
<1>11. BracketEnded(closing)
  BY <1>5, <1>6, <1>8, <1>9 DEF BracketEnded
<1> QED BY <1>1, <1>2, <1>10, <1>11

LEMMA BracketTraced ==
    ASSUME NEW M, NEW starts, Relies(M, starts), InPlace(tokens, token_itr_), Sound(stack[1]), NotOpenLast(tokens),
           outcome' = "parsing", Given1(M, tokens', token_itr_'), Parser!branch_bracket_end
    PROVE  TracedThere(M)
<1>0. /\ OnTop(M, starts) /\ IsFrame(stack[1]) /\ Parser!Top = stack[1] /\ stack # <<>>
      /\ starts[1] \in Nat /\ 1 <= starts[1] /\ starts[1] \in 1..token_itr_ - 1
  BY TopAt
<1>1. StackInv
  BY <1>0 DEF OnTop
<1>2. /\ stack[1].fn = "branch" /\ stack[1].at = "bracket" /\ ret # Parser!NoNode
      /\ Parser!BranchEnds(ret)
  BY <1>0, <1>1, BracketEnds
<1>3. PICK closing : BracketEnded(closing)
  BY <1>0, <1>1, BracketEnds
<1>4. PICK fn, q, c : /\ WaitsAt(M, tokens, stack[1], starts[1], fn, q, c) /\ c \in Nat
                      /\ Given(M, tokens, token_itr_, fn, q, c, ret)
  BY <1>2 DEF Relies
<1>5. Held(M, tokens', token_itr_', 11, starts[1], ret)
  BY <1>0, <1>2, <1>3, <1>4, BracketHeld DEF BracketEnded
<1>6. Parser!Stay([stack[1] EXCEPT !.at = "end", !.left = ret])
  BY <1>0, <1>2 DEF Parser!BranchEnds
<1> QED BY <1>0, <1>2, <1>5, <1>6, StayTraced

LEMMA SignedTraced ==
    ASSUME NEW M, NEW starts, Relies(M, starts), InPlace(tokens, token_itr_), Waits,
           outcome' = "parsing", Given1(M, tokens, token_itr_), Parser!branch_signed
    PROVE  TracedThere(M)
<1> DEFINE x == IF stack[1].op = "-" THEN Parser!Neg(ret) ELSE ret
<1>0. /\ OnTop(M, starts) /\ IsFrame(stack[1]) /\ Parser!Top = stack[1] /\ stack # <<>>
      /\ starts[1] \in Nat /\ 1 <= starts[1] /\ starts[1] \in 1..token_itr_ - 1
  BY TopAt
<1>1. tokens' = tokens /\ token_itr_' = token_itr_
  BY StaysHere
<1>2. /\ stack[1].fn = "branch" /\ stack[1].at = "sign" /\ ret # Parser!NoNode
      /\ Parser!Stay([stack[1] EXCEPT !.at = "end", !.left = x])
  BY <1>0 DEF Parser!branch_signed, Parser!Resumes, Parser!In, Parser!BranchEnds
<1>3. PICK fn, q, c : /\ WaitsAt(M, tokens, stack[1], starts[1], fn, q, c) /\ c \in Nat
                      /\ Given(M, tokens, token_itr_, fn, q, c, ret)
  BY <1>2 DEF Relies
<1>4. Held(M, tokens, token_itr_, 11, starts[1], x)
  BY <1>0, <1>2, <1>3, SignedHeld
<1> HIDE DEF x
<1> QED BY <1>0, <1>1, <1>2, <1>4, StayTraced

\* A branch ends, or is the condition of "?".
LEMMA BranchTraced ==
    ASSUME NEW M, NEW starts, Relies(M, starts), InPlace(tokens, token_itr_), Waits, Sound(stack[1]),
           outcome' = "parsing", Given1(M, tokens, token_itr_), Parser!branch_end \/ Parser!branch_ternary
    PROVE  TracedThere(M)
<1>0. /\ OnTop(M, starts) /\ IsFrame(stack[1]) /\ Parser!Top = stack[1] /\ stack # <<>>
      /\ starts[1] \in Nat /\ 1 <= starts[1] /\ starts[1] \in 1..token_itr_ - 1
  BY TopAt
<1>1. tokens' = tokens /\ token_itr_' = token_itr_ /\ token_itr_ \in Nat
  BY StaysHere
<1>2. CASE Parser!branch_end
  <2> DEFINE x == stack[1].left
  <2>1. /\ stack[1].fn = "branch" /\ stack[1].at = "end"
        /\ IF stack[1].precedence = 0 /\ Parser!token_is("?")
           THEN Parser!Call([stack[1] EXCEPT !.at = "ternary"], Parser!Frame("ternary", 0, x))
           ELSE Parser!Return(x)
    BY <1>0, <1>2 DEF Parser!branch_end, Parser!In, Parser!parse_ternary_conditional_statement
  <2>2. Held(M, tokens, token_itr_, 11, starts[1], x)
    BY <2>1, Reliance
  <2>3. PICK e \in Nat, r \in Ranks :
          /\ Upto(tokens, token_itr_, e) /\ Ranked(M, tokens, starts[1], e, x, r)
          /\ r >= 11
          /\ NextBelow(tokens, token_itr_, r + 1)
    BY <2>2 DEF Held
  <2>4. x # Parser!NoNode
    BY <2>1 DEF Sound, IsNode, Parser!NoNode
  <2> HIDE DEF x
  <2>5. CASE stack[1].precedence = 0 /\ Parser!token_is("?")
    <3> DEFINE f == [stack[1] EXCEPT !.at = "ternary"]
    <3>1. f.fn = stack[1].fn /\ f.precedence = stack[1].precedence /\ f.at = "ternary"
      BY <1>0 DEF IsFrame
    <3>2. Parser!Call(f, Parser!Frame("ternary", 0, x))
      BY <2>1, <2>5
    <3> HIDE DEF f
    <3>3. Parser!TokenAt(tokens, token_itr_ - 1).type = "?"
      BY <2>5 DEF Parser!token_is, Parser!current_token
    <3>r. r \in Ranks \ {0}
      BY <2>3
    <3>4. starts[1] <= token_itr_ - 2 /\ <<starts[1], token_itr_ - 2, 1, x>> \in M
      BY <1>0, <2>3, <3>3, <3>r, ConditionHeld
    <3>5. WaitsAt(M, tokens', f, starts[1], "ternary", 0, starts[1])
      BY <2>1, <2>5, <3>1 DEF WaitsAt
    <3> QED BY <1>0, <1>1, <3>1, <3>2, <3>3, <3>4, <3>5, CallTraced
  <2>6. CASE ~(stack[1].precedence = 0 /\ Parser!token_is("?"))
    <3>1. Parser!Return(x)
      BY <2>1, <2>6
    <3>2. Held(M, tokens, token_itr_, stack[1].precedence, starts[1], x)
      BY <2>3 DEF Held
    <3>3. Given(M, tokens', token_itr_', stack[1].fn, stack[1].precedence, starts[1], x)
      BY <1>1, <2>1, <3>2 DEF Given
    <3> QED BY <1>0, <2>4, <3>1, <3>3, ReturnTraced
  <2> QED BY <2>5, <2>6
<1>3. CASE Parser!branch_ternary
  <2>1. stack[1].fn = "branch" /\ stack[1].at = "ternary" /\ ret # Parser!NoNode /\ Parser!Return(ret)
    BY <1>0, <1>3 DEF Parser!branch_ternary, Parser!Resumes, Parser!In
  <2>2. stack[1].precedence = 0 /\ Held(M, tokens, token_itr_, 0, starts[1], ret)
    BY <2>1, Reliance
  <2>3. Given(M, tokens', token_itr_', stack[1].fn, stack[1].precedence, starts[1], ret)
    BY <1>1, <2>1, <2>2 DEF Given
  <2> QED BY <1>0, <2>1, <2>3, ReturnTraced
<1> QED BY <1>2, <1>3

LEMMA ConsequentOpens ==
    ASSUME NEW M, NEW starts, Relies(M, starts), InPlace(tokens, token_itr_), outcome' = "parsing",
           Parser!ternary_begin
    PROVE  TracedThere(M)
<1> DEFINE f == [stack[1] EXCEPT !.at = "consequent"]
           k == token_itr_ - 1
<1>0. /\ OnTop(M, starts) /\ IsFrame(stack[1]) /\ Parser!Top = stack[1] /\ stack # <<>>
      /\ starts[1] \in Nat /\ starts[1] \in 1..token_itr_ - 1
  BY TopAt
<1>1. /\ stack[1].fn = "ternary" /\ stack[1].at = "begin" /\ ret = Parser!NoNode
      /\ Parser!Call(f, Parser!Frame("expression", 0, Parser!NoNode)) /\ Parser!next_token
  BY <1>0 DEF Parser!ternary_begin, Parser!Begins, Parser!In, Parser!parse_expression
<1>2. /\ Parser!TokenAt(tokens, token_itr_ - 1).type = "?"
      /\ starts[1] <= token_itr_ - 2 /\ <<starts[1], token_itr_ - 2, 1, stack[1].left>> \in M
  <2>1. Ready(M, tokens, token_itr_, stack[1], starts[1])
    BY <1>1 DEF Relies
  <2> QED BY <1>1, <2>1, ReadyBranch
<1>3. IsReal(tokens, token_itr_ - 1)
  BY <1>2 DEF IsReal
<1>4. /\ tokens' = tokens /\ token_itr_' = token_itr_ + 1 /\ token_itr_ \in Nat /\ token_itr_ >= 2
      /\ token_itr_ - 1 \in DOMAIN tokens /\ Parser!current_token = tokens[token_itr_ - 1]
  BY <1>1, <1>3, ReadOn
<1>5. /\ f.fn = stack[1].fn /\ f.precedence = stack[1].precedence /\ f.at = "consequent"
      /\ f.left = stack[1].left
  BY <1>0 DEF IsFrame
<1>6. /\ k \in Nat /\ starts[1] < k /\ token_itr_ = k + 1 /\ k - 1 = token_itr_ - 2
      /\ token_itr_ \in 1..token_itr_' - 1 /\ token_itr_ = token_itr_' - 1
  BY <1>0, <1>2, <1>4
<1>7. tokens'[k].type = "?"
  BY <1>2, <1>4 DEF Parser!TokenAt
<1> HIDE DEF f, k
<1>8. WaitsAt(M, tokens', f, starts[1], "expression", 0, token_itr_)
  BY <1>1, <1>2, <1>5, <1>6, <1>7 DEF WaitsAt
<1> QED BY <1>0, <1>1, <1>5, <1>6, <1>8, CallTraced

LEMMA AlternativeOpens ==
    ASSUME NEW M, NEW starts, Relies(M, starts), InPlace(tokens, token_itr_), outcome' = "parsing",
           Given1(M, tokens, token_itr_), Parser!ternary_consequent
    PROVE  TracedThere(M)
<1> DEFINE f == [stack[1] EXCEPT !.at = "alternative", !.right = ret]
           l == token_itr_ - 1
<1>0. /\ OnTop(M, starts) /\ IsFrame(stack[1]) /\ Parser!Top = stack[1] /\ stack # <<>>
      /\ starts[1] \in Nat /\ starts[1] \in 1..token_itr_ - 1 /\ ~Parser!Fail
  BY TopAt DEF Parser!Fail
<1>1. /\ stack[1].fn = "ternary" /\ stack[1].at = "consequent" /\ ret # Parser!NoNode
      /\ Parser!TokenAt(tokens, token_itr_ - 1).type = ":"
      /\ Parser!Call(f, Parser!Frame("expression", 0, Parser!NoNode)) /\ Parser!next_token
  BY <1>0 DEF Parser!ternary_consequent, Parser!Resumes, Parser!In, Parser!parse_expression, Parser!token_is,
              Parser!current_token
<1>2. PICK fn, q, c : /\ WaitsAt(M, tokens, stack[1], starts[1], fn, q, c) /\ c \in Nat
                      /\ Given(M, tokens, token_itr_, fn, q, c, ret)
  BY <1>1 DEF Relies
<1>3. /\ fn = "expression" /\ q = 0
      /\ \E k \in Nat : /\ starts[1] < k /\ c = k + 1 /\ tokens[k].type = "?"
                        /\ <<starts[1], k - 1, 1, stack[1].left>> \in M
  BY <1>1, <1>2, WaitsBranch
<1>4. PICK k \in Nat : /\ starts[1] < k /\ c = k + 1 /\ tokens[k].type = "?"
                       /\ <<starts[1], k - 1, 1, stack[1].left>> \in M
  BY <1>3
<1>5. Held(M, tokens, token_itr_, 0, c, ret) /\ Parser!TokenAt(tokens, token_itr_ - 1).type # "*"
  BY <1>1, <1>2, <1>3 DEF Given
<1>6. c <= token_itr_ - 2 /\ <<c, token_itr_ - 2, 0, ret>> \in M
  <2>1. 1 <= c
    BY <1>0, <1>4
  <2> QED BY <1>2, <1>5, <2>1, AnyHeld
<1>7. IsReal(tokens, token_itr_ - 1)
  BY <1>1 DEF IsReal
<1>8. /\ tokens' = tokens /\ token_itr_' = token_itr_ + 1 /\ token_itr_ \in Nat /\ token_itr_ >= 2
      /\ token_itr_ - 1 \in DOMAIN tokens /\ Parser!current_token = tokens[token_itr_ - 1]
  BY <1>1, <1>7, ReadOn
<1>9. /\ f.fn = stack[1].fn /\ f.precedence = stack[1].precedence /\ f.at = "alternative"
      /\ f.left = stack[1].left /\ f.right = ret
  BY <1>0 DEF IsFrame
<1>10. /\ l \in Nat /\ k < l /\ token_itr_ = l + 1 /\ l - 1 = token_itr_ - 2 /\ k + 1 = c
       /\ token_itr_ \in 1..token_itr_' - 1 /\ token_itr_ = token_itr_' - 1
  BY <1>4, <1>6, <1>8
<1>11. tokens'[l].type = ":" /\ tokens'[k].type = "?"
  BY <1>1, <1>4, <1>8 DEF Parser!TokenAt
<1> HIDE DEF f, l
<1>12. \E i \in Nat, j \in Nat :
             /\ starts[1] < i /\ i < j /\ token_itr_ = j + 1 /\ tokens'[i].type = "?" /\ tokens'[j].type = ":"
             /\ <<starts[1], i - 1, 1, f.left>> \in M /\ <<i + 1, j - 1, 0, f.right>> \in M
  BY <1>4, <1>6, <1>9, <1>10, <1>11
<1>13. WaitsAt(M, tokens', f, starts[1], "expression", 0, token_itr_)
  BY <1>1, <1>9, <1>12 DEF WaitsAt
<1> QED BY <1>0, <1>1, <1>9, <1>10, <1>13, CallTraced

LEMMA TernaryLevel ==
    ASSUME NEW M, NEW starts, OnTop(M, starts), stack[1].fn = "ternary"
    PROVE  stack[1].precedence = 0
<1>1. IsSequence(stack) /\ stack # <<>> /\ 1 \in 1..Len(stack)
  BY SequenceDomain DEF OnTop, StackInv, IsSequence
<1>2. PICK m : Linked(M, tokens', token_itr_', m, stack, starts)
  BY DEF OnTop, Stood
<1>3. Awaits(M, tokens', m, stack, starts, 1 + 1, stack[1].fn, stack[1].precedence, starts[1])
  BY <1>1, <1>2 DEF Linked
<1>4. WaitsAt(M, tokens', stack[1 + 1], starts[1 + 1], stack[1].fn, stack[1].precedence, starts[1])
  BY <1>3 DEF Awaits
<1> QED BY <1>4 DEF WaitsAt

LEMMA TernaryTraced ==
    ASSUME NEW M, NEW starts, Relies(M, starts), InPlace(tokens, token_itr_), Waits,
           outcome' = "parsing", Given1(M, tokens, token_itr_), Parser!ternary_alternative
    PROVE  TracedThere(M)
<1> DEFINE x == Parser!Ternary(stack[1].left, stack[1].right, ret)
<1>0. /\ OnTop(M, starts) /\ IsFrame(stack[1]) /\ Parser!Top = stack[1] /\ stack # <<>>
      /\ starts[1] \in Nat /\ 1 <= starts[1] /\ starts[1] \in 1..token_itr_ - 1
  BY TopAt
<1>1. tokens' = tokens /\ token_itr_' = token_itr_
  BY StaysHere
<1>2. stack[1].fn = "ternary" /\ stack[1].at = "alternative" /\ ret # Parser!NoNode /\ Parser!Return(x)
  BY <1>0 DEF Parser!ternary_alternative, Parser!Resumes, Parser!In
<1>3. PICK fn, q, c : /\ WaitsAt(M, tokens, stack[1], starts[1], fn, q, c) /\ c \in Nat
                      /\ Given(M, tokens, token_itr_, fn, q, c, ret)
  BY <1>2 DEF Relies
<1>4. Held(M, tokens, token_itr_, 0, starts[1], x)
  BY <1>0, <1>2, <1>3, TernaryHeld
<1>5. x # Parser!NoNode
  BY DEF Parser!Ternary, Parser!NoNode
<1> HIDE DEF x
<1>p. stack[1].precedence = 0
  BY <1>0, <1>2, TernaryLevel
<1>6. Given(M, tokens', token_itr_', stack[1].fn, stack[1].precedence, starts[1], x)
  BY <1>1, <1>2, <1>4, <1>p DEF Given
<1> QED BY <1>0, <1>2, <1>5, <1>6, ReturnTraced

\* The passes over the tokens leave no bracket open: the last token is none.
OpensFrom(v, t) ==
    CASE t \in Parser!LeftBrackets -> {<<Parser!Closing[t]>> \o st : st \in v}
      [] t \in Parser!RightBrackets -> {Tail(st) : st \in {x \in v \ {<<>>} : Head(x) = t}}
      [] OTHER -> v

OpenFrom(s, f) == [i \in 0..Len(s) |-> IF i = 0 THEN {<<>>} ELSE OpensFrom(f[i - 1], s[i].type)]

LEMMA BracketsDiffer ==
    /\ \A t : ~(t \in Parser!LeftBrackets /\ t \in Parser!RightBrackets)
    /\ \A t \in Parser!LeftBrackets : Parser!Closing[t] \in Parser!RightBrackets
<1>1. \A t : ~(t \in Parser!LeftBrackets /\ t \in Parser!RightBrackets)
  BY Zenon DEF Parser!LeftBrackets, Parser!RightBrackets
<1>2. \A t \in Parser!LeftBrackets : Parser!Closing[t] \in Parser!RightBrackets
  BY DEF Parser!LeftBrackets, Parser!RightBrackets, Parser!Closing
<1> QED BY <1>1, <1>2

LEMMA OpensTyped ==
    ASSUME NEW v, v \subseteq Seq(Parser!RightBrackets), NEW t
    PROVE  /\ OpensFrom(v, t) \subseteq Seq(Parser!RightBrackets)
           /\ t \in Parser!LeftBrackets => OpensFrom(v, t) # {<<>>}
<1> DEFINE R == Parser!RightBrackets
<1>1. CASE t \in Parser!LeftBrackets
  <2>1. Parser!Closing[t] \in R /\ t \notin R
    BY <1>1, BracketsDiffer
  <2>2. OpensFrom(v, t) = {<<Parser!Closing[t]>> \o st : st \in v}
    BY <1>1, <2>1 DEF OpensFrom
  <2> DEFINE c == Parser!Closing[t]
  <2>3. \A st \in Seq(R) : <<c>> \o st \in Seq(R) /\ <<c>> \o st # <<>>
    <3> HIDE DEF R, c
    <3>1. ASSUME NEW st \in Seq(R)
          PROVE  <<c>> \o st \in Seq(R) /\ Len(<<c>> \o st) = Len(st) + 1 /\ Len(st) \in Nat
      BY <2>1 DEF c
    <3>2. Len(<<>>) = 0
      OBVIOUS
    <3>3. ASSUME NEW st \in Seq(R) PROVE <<c>> \o st # <<>>
      BY <3>1, <3>2
    <3> QED BY <3>1, <3>3
  <2> HIDE DEF R, c
  <2> QED BY <2>2, <2>3 DEF c, R
<1>2. CASE t \notin Parser!LeftBrackets /\ t \in Parser!RightBrackets
  <2>1. OpensFrom(v, t) = {Tail(st) : st \in {x \in v \ {<<>>} : Head(x) = t}}
    BY <1>2 DEF OpensFrom
  <2> HIDE DEF R
  <2>2. \A st \in Seq(R) : st # <<>> => Tail(st) \in Seq(R)
    OBVIOUS
  <2> QED BY <1>2, <2>1, <2>2 DEF R
<1>3. CASE t \notin Parser!LeftBrackets /\ t \notin Parser!RightBrackets
  BY <1>3 DEF OpensFrom
<1> QED BY <1>1, <1>2, <1>3

LEMMA CheckedBrackets ==
    ASSUME NEW s, IsSequence(s), Parser!bracket_checker(s)
    PROVE  NotOpenLast(s)
<1> DEFINE N == Len(s)
           D == 0..N
           B == {0}
           next == [i \in D |-> i - 1]
           rank == [i \in D |-> i]
           base == [i \in D |-> {<<>>}]
           V == SUBSET Seq(Parser!RightBrackets)
           step == [p \in D \X V |-> OpensFrom(p[2], s[p[1]].type)]
           open == CHOOSE f : f = OpenFrom(s, f)
<1>0. N \in Nat
  BY DEF IsSequence
<1>1. open[N] = {<<>>}
  BY DEF Parser!bracket_checker, OpenFrom, OpensFrom
<1>2. IsRecursion(D, B, next, rank)
  BY <1>0 DEF IsRecursion
<1>3. N + 1 \in Nat /\ \A i \in D : rank[i] < N + 1
  BY <1>0
<1>4. \A i \in D : base[i] = {<<>>} /\ next[i] = i - 1 /\ (i \in B <=> i = 0)
  OBVIOUS
<1>5. {<<>>} \in V
  OBVIOUS
<1>6. \A i \in D, v \in V : step[<<i, v>>] = OpensFrom(v, s[i].type)
  OBVIOUS
<1>7. \A t : \A v \in V : OpensFrom(v, t) \in V
  BY OpensTyped
<1>8. \A f : OpenFrom(s, f) = [i \in D |-> IF i = 0 THEN {<<>>} ELSE OpensFrom(f[i - 1], s[i].type)]
  BY DEF OpenFrom
<1>d. N \in D /\ (N # 0 => N \in D \ B /\ N - 1 \in D)
  BY <1>0
<1> HIDE DEF D, B, next, rank, base, V, step
<1>9. PICK g : RecursiveInto(g, D, B, next, base, step, V)
  <2>1. \A i \in D \cap B : base[i] \in V
    BY <1>4, <1>5
  <2>2. \A i \in D \ B : \A v \in V : step[<<i, v>>] \in V
    BY <1>6, <1>7
  <2>3. HasRecursiveInto(D, B, next, base, step, V)
    BY <1>2, <1>3, <2>1, <2>2, RecursionInto
  <2> QED BY <2>3 DEF HasRecursiveInto
<1>10. ASSUME NEW i \in D PROVE g[i] = IF i = 0 THEN {<<>>} ELSE OpensFrom(g[i - 1], s[i].type)
  <2>1. g[i] = IF i \in B THEN base[i] ELSE step[<<i, g[next[i]]>>]
    BY <1>9 DEF RecursiveInto, Recursive
  <2>2. i \notin B => g[next[i]] \in V
    BY <1>9 DEF RecursiveInto
  <2> QED BY <1>4, <1>6, <2>1, <2>2
<1>11. g = OpenFrom(s, g)
  <2>1. g = [i \in D |-> g[i]]
    BY <1>9 DEF RecursiveInto
  <2> QED BY <1>8, <1>10, <2>1
<1>12. open = OpenFrom(s, open)
  BY <1>11
<1> HIDE DEF open
<1>13. \A i \in D : open[i] = IF i = 0 THEN {<<>>} ELSE OpensFrom(open[i - 1], s[i].type)
  BY <1>8, <1>12
<1>14. \A i \in D : open[i] \in V
  <2>1. \A i \in D \cap B : open[i] \in V
    BY <1>4, <1>5, <1>13
  <2>2. \A i \in D \ B : open[next[i]] \in V => open[i] \in V
    BY <1>4, <1>7, <1>13
  <2> QED BY <1>2, <2>1, <2>2, RecursionTyped
<1> SUFFICES ASSUME s # <<>>, s[N].type \in Parser!LeftBrackets PROVE FALSE
  BY DEF NotOpenLast
<1>15. N # 0
  BY SequenceDomain DEF IsSequence
<1>16. open[N] = OpensFrom(open[N - 1], s[N].type) /\ open[N - 1] \in V
  BY <1>d, <1>13, <1>14, <1>15
<1>17. open[N] # {<<>>}
  <2>1. open[N - 1] \subseteq Seq(Parser!RightBrackets)
    BY <1>16 DEF V
  <2> QED BY <1>16, <2>1, OpensTyped
<1> QED BY <1>1, <1>17
-----------------------------------------------------------------------------
(* Every step of the parser keeps what its functions have been given. *)

StillStands ==
    \/ Parser!expression_begin \/ Parser!expression_branch \/ Parser!expression_end \/ Parser!expression_ternary
    \/ Parser!expression_combine \/ Parser!branch_signed \/ Parser!branch_end \/ Parser!branch_ternary
    \/ Parser!ternary_alternative

ReadsOne ==
    \/ Parser!expression_operator \/ Parser!branch_number \/ Parser!branch_bracket \/ Parser!branch_sign
    \/ Parser!ternary_begin \/ Parser!ternary_consequent

LEMMA StackedSteps ==
    ASSUME Parser!Parsing, outcome' = "parsing", Parser!Next, stack # <<>>
    PROVE  (StillStands /\ Waits) \/ ReadsOne \/ Parser!branch_symbol \/ Parser!branch_bracket_end
<1>1. ~ (\/ Parser!compile_empty \/ Parser!run_inserters \/ Parser!run_joiners \/ Parser!run_modifiers
         \/ Parser!run_scanners \/ Parser!parse_corpus_begin \/ Parser!parse_corpus_end)
  BY DEF Parser!compile_empty, Parser!run_inserters, Parser!run_joiners, Parser!run_modifiers,
         Parser!run_scanners, Parser!Pass, Parser!Parsing, Parser!parse_corpus_begin, Parser!parse_corpus_end
<1>2. ~Parser!branch_error
  BY DEF Parser!branch_error, Parser!Fail
<1>3. StillStands => Waits
  BY DEF StillStands, Waits, Parser!lexer_, Parser!expression_begin, Parser!expression_branch, Parser!expression_end,
         Parser!expression_ternary, Parser!expression_combine, Parser!branch_signed, Parser!branch_end,
         Parser!branch_ternary, Parser!ternary_alternative
<1> QED BY <1>1, <1>2, <1>3, Parser!Next DEF Parser!Next, StillStands, ReadsOne

LEMMA RealIsRead ==
    ASSUME StackInv, Awaiting, stack # <<>>, outcome' = "parsing", ReadsOne
    PROVE  IsReal(tokens, token_itr_ - 1) /\ Parser!next_token
<1>0. Parser!Top = stack[1] /\ ~Parser!Fail
  BY TopFrame DEF Parser!Fail
<1>1. Parser!next_token
  BY <1>0 DEF ReadsOne, Parser!expression_operator, Parser!branch_number, Parser!branch_bracket, Parser!branch_sign,
              Parser!ternary_begin, Parser!ternary_consequent
<1>2. CASE Parser!expression_operator
  <2>1. Parser!operator # "none"
    BY <1>2 DEF Parser!expression_operator, Parser!TakesOperator
  <2> QED BY <1>1, <2>1 DEF Parser!operator, Parser!OperatorOf, Parser!OrOperators, Parser!AndOperators,
                            Parser!Comparisons, IsReal, Parser!current_token
<1>3. CASE Parser!branch_number \/ Parser!branch_sign \/ Parser!ternary_begin \/ Parser!ternary_consequent
  <2>1. Parser!current_token.type \in {"number", "+", "-", "?", ":"}
    BY <1>0, <1>3 DEF Parser!branch_number, Parser!branch_sign, Parser!ternary_begin, Parser!ternary_consequent,
                      Parser!token_is, Awaiting, Parser!Begins, Parser!In
  <2> QED BY <1>1, <2>1 DEF IsReal, Parser!current_token
<1>4. CASE Parser!branch_bracket
  <2>1. Parser!current_token.type \in Parser!LeftBrackets
    BY <1>4 DEF Parser!branch_bracket
  <2> QED BY <1>1, <2>1 DEF IsReal, Parser!current_token, Parser!LeftBrackets
<1> QED BY <1>2, <1>3, <1>4 DEF ReadsOne

LEMMA SymbolGrows ==
    ASSUME InPlace(tokens, token_itr_), NotOpenLast(tokens), Parser!branch_symbol
    PROVE  Grows /\ NotOpenLast(tokens')
<1>1. IsReal(tokens, token_itr_ - 1)
  BY DEF Parser!branch_symbol, Parser!token_is, IsReal, Parser!current_token
<1>2. token_itr_ - 1 \in DOMAIN tokens
  BY <1>1, RealToken
<1>3. /\ tokens' = IF StartsBracket(tokens, token_itr_) THEN Parser!insert_front(tokens, token_itr_, "*") ELSE tokens
      /\ token_itr_' = Parser!After(tokens', token_itr_)
  BY DEF Parser!branch_symbol, StartsBracket
<1>4. token_itr_' = token_itr_ + 1 /\ NotOpenLast(tokens') /\ Agree(tokens, tokens', token_itr_ - 1)
  BY <1>2, <1>3, SymbolChanges
<1> QED BY <1>4, ReadPlaces DEF Grows

LEMMA StepGrows ==
    ASSUME StackInv, Awaiting, Parser!Parsing, outcome' = "parsing", Parser!Next, stack # <<>>, NotOpenLast(tokens)
    PROVE  Grows /\ NotOpenLast(tokens')
<1>0. InPlace(tokens, token_itr_) /\ Sound(stack[1])
  <2>1. 1 \in 1..Len(stack)
    BY SequenceDomain DEF StackInv, IsSequence
  <2> QED BY <2>1 DEF Awaiting
<1>1. CASE StillStands /\ Waits
  <2>1. Grows /\ tokens' = tokens
    BY <1>0, <1>1, StaysHere
  <2> QED BY <2>1
<1>2. CASE ReadsOne
  <2>1. Grows /\ tokens' = tokens
    BY <1>0, <1>2, RealIsRead, ReadOn
  <2> QED BY <2>1
<1>3. CASE Parser!branch_symbol
  BY <1>0, <1>3, SymbolGrows
<1>4. CASE Parser!branch_bracket_end
  BY <1>0, <1>4, BracketEnds DEF BracketEnded
<1> QED BY <1>1, <1>2, <1>3, <1>4, StackedSteps

\* What satisfies the grammar for more of the tokens does so for fewer.
LEMMA GivenBefore ==
    ASSUME NEW M, InPlace(tokens, token_itr_), Grows, Given1(M, tokens', token_itr_')
    PROVE  Given1(M, tokens, token_itr_)
<1>1. /\ token_itr_ \in Nat /\ token_itr_ >= 2 /\ token_itr_ - 2 \in Nat
      /\ \A k \in 1..token_itr_ - 2 : k \in DOMAIN tokens
  BY ReadPlaces
<1>2. token_itr_' \in Nat /\ token_itr_' - 2 \in Nat /\ token_itr_ - 2 <= token_itr_' - 2
  <2>1. token_itr_' \in Nat /\ token_itr_ <= token_itr_'
    BY DEF Grows
  <2>2. \A a, b \in Nat : a >= 2 /\ a <= b => b - 2 \in Nat /\ a - 2 <= b - 2
    OBVIOUS
  <2> QED BY <1>1, <2>1, <2>2
<1>3. \A k \in 1..token_itr_ - 2 : tokens[k] = tokens'[k]
  <2>1. \A k \in 1..token_itr_ - 2 : k \in 1..token_itr_ - 1
    BY <1>1
  <2> QED BY <1>1, <2>1 DEF Grows, Agree
<1>4. Parser!IsGrammar(M, ReadPart(tokens', token_itr_' - 2))
  BY DEF Given1
<1>5. Parser!IsGrammar(M, ReadPart(tokens, token_itr_ - 2))
  <2> DEFINE m == token_itr_ - 2
             o == token_itr_' - 2
  <2>1. m \in Nat /\ o \in Nat /\ m <= o /\ (\A k \in 1..m : tokens[k] = tokens'[k])
        /\ Parser!IsGrammar(M, ReadPart(tokens', o))
    BY <1>1, <1>2, <1>3, <1>4
  <2> HIDE DEF m, o
  <2>2. Parser!IsGrammar(M, ReadPart(tokens, m))
    BY <2>1, GrammarOfLess
  <2> QED BY <2>2 DEF m
<1> QED BY <1>5 DEF Given1

LEMMA StepTraced ==
    ASSUME StackInv, Awaiting, Parser!Parsing, outcome' = "parsing", Parser!Next, stack # <<>>, NotOpenLast(tokens),
           UNCHANGED symbol_table, NEW M, Given1(M, tokens', token_itr_'),
           Given1(M, tokens, token_itr_) => TracedHere(M)
    PROVE  TracedThere(M)
<1>0. InPlace(tokens, token_itr_) /\ Sound(stack[1])
  <2>1. 1 \in 1..Len(stack)
    BY SequenceDomain DEF StackInv, IsSequence
  <2> QED BY <2>1 DEF Awaiting
<1>1. Grows
  BY StepGrows
<1>2. Given1(M, tokens, token_itr_)
  BY <1>0, <1>1, GivenBefore
<1>3. PICK starts : Relies(M, starts)
  BY <1>0, <1>1, <1>2, TopRelies
<1>4. CASE StillStands /\ Waits
  BY <1>0, <1>2, <1>3, <1>4, ExpressionTraced, CombineTraced, SignedTraced, BranchTraced, TernaryTraced DEF StillStands
<1>5. CASE ReadsOne
  BY <1>0, <1>2, <1>3, <1>5, OperatorTraced, OperandTraced, BracketOpens, SignOpens, ConsequentOpens, AlternativeOpens
     DEF ReadsOne
<1>6. CASE Parser!branch_symbol
  BY <1>0, <1>3, <1>6, OperandTraced
<1>7. CASE Parser!branch_bracket_end
  BY <1>0, <1>3, <1>7, BracketTraced
<1> QED BY <1>4, <1>5, <1>6, <1>7, StackedSteps

\* parse_corpus begins an expression, or has read one.
LEMMA CorpusBegins ==
    ASSUME Awaiting, outcome' = "parsing", Parser!parse_corpus_begin, NEW M, Given1(M, tokens', token_itr_'),
           Given1(M, tokens, token_itr_) => TracedHere(M)
    PROVE  TracedThere(M)
<1> DEFINE g == Parser!stack_limit_handler(Parser!parse_expression(0))
<1>1. /\ stack = <<>> /\ ret = Parser!NoNode /\ stack' = <<g>> /\ ret' = ret /\ arg_list' = arg_list
      /\ tokens' = tokens /\ token_itr_' = token_itr_
  BY DEF Parser!parse_corpus_begin, Parser!Fail, Parser!lexer_
<1>2. g.fn = "expression" /\ g.precedence = 0 /\ g.at = "begin"
  BY DEF Parser!stack_limit_handler, Parser!parse_expression, Parser!Frame
<1> HIDE DEF g
<1>3. InPlace(tokens, token_itr_) /\ Traced(M, tokens, token_itr_, <<>>, Parser!NoNode, arg_list)
  BY <1>1 DEF Awaiting, TracedHere
<1>4. Traced(M, tokens, token_itr_, <<g>>, Parser!NoNode, arg_list)
  BY <1>2, <1>3, TracedBegins
<1> QED BY <1>1, <1>4 DEF TracedThere

EndsHere == Parser!token_is(";")

LEMMA CurrentEnds ==
    ASSUME EndsHere, token_itr_ - 1 \in DOMAIN tokens
    PROVE  EndsAt(tokens, token_itr_ - 1)
BY Zenon DEF EndsHere, EndsAt, Parser!token_is, Parser!current_token, Parser!TokenAt

LEMMA CorpusSteps ==
    ASSUME Parser!parse_corpus_end
    PROVE  /\ stack = <<>> /\ ret # Parser!NoNode /\ stack' = stack /\ ret' = Parser!NoNode
           /\ arg_list' = Append(arg_list, ret)
           /\ \/ outcome' = "compiled" /\ Waits /\ Parser!finished /\ EndsHere
              \/ Waits /\ outcome' # "compiled"
              \/ Parser!next_token /\ ~Parser!finished /\ EndsHere /\ outcome' # "compiled"
BY DEF Parser!parse_corpus_end, EndsHere, Waits, Parser!lexer_, Parser!Parsing

LEMMA CorpusEnds ==
    ASSUME Awaiting, outcome' = "parsing", Parser!parse_corpus_end, NEW M, Given1(M, tokens', token_itr_'),
           Given1(M, tokens, token_itr_) => TracedHere(M)
    PROVE  TracedThere(M)
<1>0. /\ InPlace(tokens, token_itr_) /\ token_itr_ \in Nat /\ token_itr_ >= 2
      /\ Len(tokens) \in Nat /\ DOMAIN tokens = 1..Len(tokens) /\ token_itr_ - 2 \in Nat
  BY ReadPlaces DEF Awaiting
<1>1. /\ stack = <<>> /\ ret # Parser!NoNode /\ stack' = <<>> /\ ret' = Parser!NoNode
      /\ arg_list' = Append(arg_list, ret)
      /\ Waits \/ (Parser!next_token /\ ~Parser!finished /\ EndsHere)
  BY CorpusSteps
<1>2. CASE Waits
  <2>1. tokens' = tokens /\ token_itr_' = token_itr_
    BY <1>2 DEF Waits
  <2>2. Given1(M, tokens, token_itr_) /\ Traced(M, tokens, token_itr_, <<>>, ret, arg_list)
    BY <1>1, <2>1 DEF TracedHere
  <2> DEFINE m == token_itr_ - 2
  <2>3. \E cut : Parted(M, tokens, Append(arg_list, ret), cut, m)
    BY <1>1, <2>2, TracedEnds
  <2>4. Traced(M, tokens, token_itr_, <<>>, Parser!NoNode, Append(arg_list, ret))
    BY <1>0, <2>3, TracedAgain
  <2> QED BY <1>1, <2>1, <2>4 DEF TracedThere
<1>3. CASE Parser!next_token /\ ~Parser!finished /\ EndsHere
  <2>1. token_itr_ <= Len(tokens)
    BY <1>0, <1>3 DEF Parser!finished
  <2>2. tokens' = tokens /\ token_itr_' = token_itr_ + 1
    BY <1>0, <1>3, <2>1 DEF Parser!next_token, Parser!After
  <2>3. token_itr_ - 1 \in DOMAIN tokens /\ token_itr_' - 2 = token_itr_ - 1 /\ token_itr_' - 2 \in Nat
    BY <1>0, <2>1, <2>2
  <2>4. EndsAt(tokens, token_itr_ - 1)
    BY <1>3, <2>3, CurrentEnds
  <2>5. Grows
    BY <1>0, <2>2, <2>1 DEF Grows, Agree
  <2>6. Given1(M, tokens, token_itr_) /\ Traced(M, tokens, token_itr_, <<>>, ret, arg_list)
    BY <1>0, <1>1, <2>5, GivenBefore DEF TracedHere
  <2> DEFINE m == token_itr_' - 2
  <2>m. m = token_itr_ - 1 /\ EndsAt(tokens, m)
    BY <2>3, <2>4
  <2> HIDE DEF m
  <2>7. \E cut : Parted(M, tokens, Append(arg_list, ret), cut, m)
    BY <1>1, <2>6, <2>m, TracedEnds
  <2>8. \E cut : Parted(M, tokens, Append(arg_list, ret), cut, token_itr_' - 2)
    BY <2>7 DEF m
  <2>9. Traced(M, tokens, token_itr_', <<>>, Parser!NoNode, Append(arg_list, ret))
    BY <2>3, <2>8, TracedAgain
  <2> QED BY <1>1, <2>2, <2>9 DEF TracedThere
<1> QED BY <1>1, <1>2, <1>3

\* The last of the values is there.
LEMMA CorpusCompiled ==
    ASSUME Awaiting, outcome' = "compiled", Parser!parse_corpus_end, NEW M, Parser!IsGrammar(M, tokens),
           Given1(M, tokens, token_itr_) => TracedHere(M)
    PROVE  tokens' = tokens /\ \E cut : Parted(M, tokens, arg_list', cut, Len(tokens))
<1>0. /\ InPlace(tokens, token_itr_) /\ token_itr_ \in Nat /\ token_itr_ >= 2 /\ token_itr_ <= Len(tokens) + 2
      /\ Len(tokens) \in Nat /\ DOMAIN tokens = 1..Len(tokens) /\ token_itr_ - 2 \in Nat /\ token_itr_ - 2 <= Len(tokens)
      /\ IsSequence(tokens)
  BY ReadPlaces DEF Awaiting, InPlace
<1>1. /\ stack = <<>> /\ ret # Parser!NoNode
      /\ arg_list' = Append(arg_list, ret)
      /\ tokens' = tokens /\ Parser!finished /\ EndsHere
  BY CorpusSteps DEF Waits
<1>2. Given1(M, tokens, token_itr_)
  <2> DEFINE m == token_itr_ - 2
             o == Len(tokens)
             whole == ReadPart(tokens, o)
  <2>1. whole = tokens
    <3>1. PICK S : tokens \in Seq(S)
      BY <1>0 DEF IsSequence
    <3>2. tokens = [k \in 1..Len(tokens) |-> tokens[k]]
      BY <3>1
    <3> QED BY <3>2 DEF ReadPart
  <2>2. m \in Nat /\ o \in Nat /\ m <= o /\ Parser!IsGrammar(M, ReadPart(tokens, o))
    BY <1>0, <2>1
  <2> HIDE DEF m, o, whole
  <2>3. Parser!IsGrammar(M, ReadPart(tokens, m))
    BY <2>2, GrammarOfLess
  <2> QED BY <1>0, <2>3 DEF Given1, m
<1>3. Traced(M, tokens, token_itr_, <<>>, ret, arg_list)
  BY <1>1, <1>2 DEF TracedHere
<1> DEFINE n1 == Len(tokens)
<1>4. n1 = token_itr_ - 2 \/ (n1 = token_itr_ - 1 /\ EndsAt(tokens, n1))
  <2>1. token_itr_ > Len(tokens)
    BY <1>1 DEF Parser!finished
  <2>2. CASE token_itr_ = Len(tokens) + 2
    BY <1>0, <2>2
  <2>3. CASE token_itr_ # Len(tokens) + 2
    <3>1. n1 = token_itr_ - 1 /\ token_itr_ - 1 \in DOMAIN tokens
      BY <1>0, <2>1, <2>3
    <3>2. EndsAt(tokens, token_itr_ - 1)
      BY <1>1, <3>1, CurrentEnds
    <3> QED BY <3>1, <3>2
  <2> QED BY <2>2, <2>3
<1> HIDE DEF n1
<1>5. \E cut : Parted(M, tokens, Append(arg_list, ret), cut, n1)
  BY <1>1, <1>2, <1>3, <1>4, TracedEnds
<1> QED BY <1>1, <1>5 DEF n1

-----------------------------------------------------------------------------
(* The values are derived. *)

TracedInv ==
    Parser!Parsing =>
        NotOpenLast(tokens) /\ \A M : Given1(M, tokens, token_itr_) => TracedHere(M)

\* Before the parser there are no values, and the table is complete.
CompleteInv ==
    /\ outcome \in Before => arg_list = <<>>
    /\ outcome # "none" \/ result # "running" => to_add = {}

DerivedInv == TracedInv /\ CompleteInv /\ ValuesAreDerived

\* The table is the same while the parser reads it.
LEMMA GrammarStays ==
    ASSUME UNCHANGED symbol_table, NEW M
    PROVE  /\ Parser!IsGrammar(M, tokens)' => Parser!IsGrammar(M, tokens')
           /\ Given1(M, tokens, token_itr_)' => Given1(M, tokens', token_itr_')
<1>1. Parser!IsGrammar(M, tokens)' => Parser!IsGrammar(M, tokens')
  BY DEF Parser!IsGrammar, Parser!OperandRule, Parser!Found
<1>2. Parser!IsGrammar(M, ReadPart(tokens, token_itr_ - 2))' => Parser!IsGrammar(M, ReadPart(tokens', token_itr_' - 2))
  BY DEF Parser!IsGrammar, Parser!OperandRule, Parser!Found
<1>3. Given1(M, tokens, token_itr_)' => Given1(M, tokens', token_itr_')
  BY <1>2 DEF Given1
<1> QED BY <1>1, <1>3

LEMMA TracedNext ==
    ASSUME UNCHANGED symbol_table, NotOpenLast(tokens'),
           \A M : Given1(M, tokens', token_itr_') => TracedThere(M)
    PROVE  TracedInv'
<1> SUFFICES ASSUME NEW M, Given1(M, tokens, token_itr_)' PROVE TracedHere(M)'
  BY DEF TracedInv
<1>1. Given1(M, tokens', token_itr_')
  BY GrammarStays
<1>2. TracedThere(M)
  BY <1>1
<1> QED BY <1>2 DEF TracedThere, TracedHere

LEMMA PartsDerived ==
    ASSUME UNCHANGED symbol_table, tokens' = tokens,
           \A M : Parser!IsGrammar(M, tokens) => \E cut : Parted(M, tokens, arg_list', cut, Len(tokens))
    PROVE  ValuesAreDerived'
<1> SUFFICES ASSUME NEW M, Parser!IsGrammar(M, tokens)'
             PROVE  \E cut \in [0..Len(arg_list') -> 0..Len(tokens')] :
                        /\ cut[0] = 0 /\ cut[Len(arg_list')] = Len(tokens')
                        /\ \A i \in 1..Len(arg_list') :
                              /\ cut[i - 1] < cut[i]
                              /\ \/ <<cut[i - 1] + 1, cut[i], 0, arg_list'[i]>> \in M
                                 \/ tokens'[cut[i]].type = ";" /\ <<cut[i - 1] + 1, cut[i] - 1, 0, arg_list'[i]>> \in M
  BY Zenon DEF ValuesAreDerived, Parser!ValuesAreDerived
<1>1. Parser!IsGrammar(M, tokens)
  BY GrammarStays
<1>2. PICK cut : Parted(M, tokens, arg_list', cut, Len(tokens))
  BY <1>1
<1> QED BY <1>2, Zenon DEF Parted, PartOf, EndsAt

LEMMA DerivedKept ==
    ASSUME TracedInv, ValuesAreDerived, UNCHANGED <<parser_, symbol_table>>
    PROVE  TracedInv' /\ ValuesAreDerived'
<1>1. /\ tokens' = tokens /\ token_itr_' = token_itr_ /\ stack' = stack /\ ret' = ret /\ arg_list' = arg_list
      /\ outcome' = outcome /\ symbol_table' = symbol_table
  BY DEF parser_
<1>2. TracedInv'
  <2>1. CASE outcome = "parsing"
    <3>1. NotOpenLast(tokens) /\ \A M : Given1(M, tokens, token_itr_) => TracedHere(M)
      BY <2>1 DEF TracedInv, Parser!Parsing
    <3>2. \A M : Given1(M, tokens', token_itr_') => TracedThere(M)
      BY <1>1, <3>1 DEF TracedHere, TracedThere
    <3> QED BY <1>1, <3>1, <3>2, TracedNext
  <2>2. CASE outcome # "parsing"
    BY <1>1, <2>2 DEF TracedInv, Parser!Parsing
  <2> QED BY <2>1, <2>2
<1>3. ValuesAreDerived'
  <2>1. ASSUME NEW M, Parser!IsGrammar(M, tokens)' PROVE Parser!IsGrammar(M, tokens)
    <3>1. Parser!IsGrammar(M, tokens')
      BY <1>1, <2>1, GrammarStays
    <3> QED BY <1>1, <3>1
  <2> QED BY <1>1, <2>1, Zenon DEF ValuesAreDerived, Parser!ValuesAreDerived
<1> QED BY <1>2, <1>3

LEMMA ScannedIsTraced ==
    ASSUME ProgressInv, CompleteInv, UNCHANGED symbol_table, Parser!run_scanners, outcome' = "parsing"
    PROVE  TracedInv'
<1>1. /\ outcome = "replaced" /\ token_itr_' = 2 /\ tokens' = tokens /\ Parser!bracket_checker(tokens)
      /\ stack' = stack /\ ret' = ret /\ arg_list' = arg_list
  BY DEF Parser!run_scanners
<1>2. stack = <<>> /\ ret = Parser!NoNode /\ arg_list = <<>> /\ IsSequence(tokens)
  BY <1>1 DEF ProgressInv, CompleteInv, Before
<1>3. NotOpenLast(tokens)
  BY <1>1, <1>2, CheckedBrackets
<1>4. ASSUME NEW M PROVE TracedThere(M)
  <2> DEFINE cut == [i \in 0..0 |-> 0]
  <2>1. Len(<<>>) = 0 /\ IsSequence(<<>>)
    <3>1. <<>> \in Seq({}) /\ Len(<<>>) = 0
      OBVIOUS
    <3> QED BY <3>1 DEF IsSequence
  <2>2. cut \in [0..0 -> 0..0] /\ cut[0] = 0 /\ 1..0 = {}
    OBVIOUS
  <2> HIDE DEF cut
  <2>3. Parted(M, tokens, <<>>, cut, 0)
    BY <2>1, <2>2 DEF Parted
  <2>4. 2 - 2 \in Nat /\ 2 - 2 = 0
    OBVIOUS
  <2>5. Traced(M, tokens, 2, <<>>, Parser!NoNode, <<>>)
    BY <2>3, <2>4, TracedAgain
  <2> QED BY <1>1, <1>2, <2>5 DEF TracedThere
<1> QED BY <1>1, <1>3, <1>4, TracedNext

LEMMA ParseIsDerived ==
    ASSUME ProgressInv, TracedInv, Parser!Parsing, Parser!Next, UNCHANGED symbol_table, outcome' = "parsing"
    PROVE  TracedInv'
<1>1. StackInv /\ Awaiting
  BY DEF ProgressInv
<1>2. NotOpenLast(tokens) /\ \A M : Given1(M, tokens, token_itr_) => TracedHere(M)
  BY DEF TracedInv
<1>3. CASE stack # <<>>
  <2>1. NotOpenLast(tokens')
    BY <1>1, <1>2, <1>3, StepGrows
  <2>2. ASSUME NEW M, Given1(M, tokens', token_itr_') PROVE TracedThere(M)
    BY <1>1, <1>2, <1>3, <2>2, StepTraced
  <2> QED BY <2>1, <2>2, TracedNext
<1>4. CASE stack = <<>>
  <2>1. Parser!parse_corpus_begin \/ Parser!parse_corpus_end
    BY <1>4, Parser!Next, Parser!Parsing
       DEF Parser!Next, Parser!expression_begin, Parser!expression_branch, Parser!expression_operator, Parser!expression_end,
           Parser!expression_combine, Parser!expression_ternary, Parser!branch_number, Parser!branch_symbol,
           Parser!branch_bracket, Parser!branch_bracket_end, Parser!branch_sign, Parser!branch_signed,
           Parser!branch_error, Parser!branch_end, Parser!branch_ternary, Parser!ternary_begin,
           Parser!ternary_consequent, Parser!ternary_alternative, Parser!Begins, Parser!Resumes, Parser!In,
           Parser!Parsing, Parser!compile_empty, Parser!run_inserters, Parser!run_joiners, Parser!run_modifiers,
           Parser!run_scanners, Parser!Pass
  <2>2. tokens' = tokens
    BY <2>1 DEF Parser!parse_corpus_begin, Parser!parse_corpus_end, Parser!lexer_, Parser!next_token
  <2>3. ASSUME NEW M, Given1(M, tokens', token_itr_') PROVE TracedThere(M)
    BY <1>1, <1>2, <2>1, <2>3, CorpusBegins, CorpusEnds
  <2> QED BY <1>2, <2>2, <2>3, TracedNext
<1> QED BY <1>3, <1>4

LEMMA CompiledBy ==
    ASSUME Parser!Parsing, Parser!Next, outcome' = "compiled"
    PROVE  Parser!parse_corpus_end
BY Parser!Next, Parser!Parsing
   DEF Parser!Next, Parser!expression_begin, Parser!expression_branch, Parser!expression_operator, Parser!expression_end,
       Parser!expression_combine, Parser!expression_ternary, Parser!branch_number, Parser!branch_symbol,
       Parser!branch_bracket, Parser!branch_bracket_end, Parser!branch_sign, Parser!branch_signed,
       Parser!branch_error, Parser!branch_end, Parser!branch_ternary, Parser!ternary_begin,
       Parser!ternary_consequent, Parser!ternary_alternative, Parser!Begins, Parser!Resumes, Parser!In,
       Parser!Parsing, Parser!compile_empty, Parser!run_inserters, Parser!run_joiners, Parser!run_modifiers,
       Parser!run_scanners, Parser!Pass, Parser!parse_corpus_begin, Parser!Call, Parser!Stay, Parser!Return,
       Parser!Fail, Parser!BranchEnds

LEMMA PassesAre ==
    ASSUME ~Parser!Parsing, Parser!Next
    PROVE  /\ outcome # "none" /\ outcome' # "compiled" /\ arg_list' = arg_list
           /\ outcome' = "parsing" => Parser!run_scanners
<1>1. \/ Parser!compile_empty \/ Parser!run_inserters \/ Parser!run_joiners \/ Parser!run_modifiers
      \/ Parser!run_scanners
  BY Parser!Next, ~Parser!Parsing
     DEF Parser!Next, Parser!expression_begin, Parser!expression_branch, Parser!expression_operator, Parser!expression_end,
         Parser!expression_combine, Parser!expression_ternary, Parser!branch_number, Parser!branch_symbol,
         Parser!branch_bracket, Parser!branch_bracket_end, Parser!branch_sign, Parser!branch_signed,
         Parser!branch_error, Parser!branch_end, Parser!branch_ternary, Parser!ternary_begin,
         Parser!ternary_consequent, Parser!ternary_alternative, Parser!Begins, Parser!Resumes, Parser!In,
         Parser!parse_corpus_begin, Parser!parse_corpus_end
<1> QED BY <1>1 DEF Parser!compile_empty, Parser!run_inserters, Parser!run_joiners, Parser!run_modifiers,
                    Parser!run_scanners, Parser!Pass

LEMMA ParsingEnds ==
    ASSUME Parser!Parsing, Parser!Next
    PROVE  outcome' \in {"parsing", "error", "compiled"} /\ outcome' \notin Before
<1>1. outcome' \in {"parsing", "error", "compiled"}
  BY DEF Parser!Parsing, Parser!Next, Parser!compile_empty, Parser!run_inserters, Parser!run_joiners,
         Parser!run_modifiers, Parser!run_scanners, Parser!Pass,
         Parser!expression_begin, Parser!expression_branch, Parser!expression_operator, Parser!expression_end,
         Parser!expression_combine, Parser!expression_ternary, Parser!branch_number, Parser!branch_symbol,
         Parser!branch_bracket, Parser!branch_bracket_end, Parser!branch_sign, Parser!branch_signed,
         Parser!branch_error, Parser!branch_end, Parser!branch_ternary, Parser!ternary_begin,
         Parser!ternary_consequent, Parser!ternary_alternative, Parser!parse_corpus_begin, Parser!parse_corpus_end,
         Parser!Call, Parser!Stay, Parser!Return, Parser!Fail, Parser!BranchEnds
<1> QED BY <1>1 DEF Before

LEMMA StepComplete ==
    CompleteInv /\ [EvaluateNext]_evaluateVars => CompleteInv'
<1> SUFFICES ASSUME CompleteInv, [EvaluateNext]_evaluateVars PROVE CompleteInv'
  OBVIOUS
<1>1. CASE add_constant
  <2>1. to_add # {} /\ UNCHANGED <<vars, parser_>>
    BY <1>1 DEF add_constant
  <2>2. outcome = "none" /\ result = "running"
    BY <2>1 DEF CompleteInv
  <2> QED BY <2>1, <2>2 DEF CompleteInv, Before, vars, parser_
<1>2. CASE lex
  <2>1. to_add = {} /\ to_add' = to_add /\ UNCHANGED parser_
    BY <1>2 DEF lex, Compiling, table_
  <2> QED BY <2>1 DEF CompleteInv, parser_, Before
<1>3. CASE compile_fails \/ compile_lexed
  <2>1. outcome = "none" /\ arg_list' = arg_list /\ to_add' = to_add /\ (to_add = {} \/ result = "true")
    BY <1>3 DEF compile_fails, compile_lexed, Compiling, table_, Parser!Start, Parser!GiveUp
  <2>2. arg_list' = <<>> /\ to_add' = {}
    BY <2>1 DEF CompleteInv, Before
  <2> QED BY <2>2 DEF CompleteInv
<1>4. CASE parse
  <2>1. to_add' = to_add /\ Parser!Next
    BY <1>4 DEF parse, table_
  <2>2. CASE ~Parser!Parsing
    <3>1. outcome # "none" /\ arg_list' = arg_list
      BY <2>1, <2>2, PassesAre
    <3>2. outcome \in Before
      BY <2>1, <2>2
         DEF Before, Parser!Next, Parser!expression_begin, Parser!expression_branch, Parser!expression_operator,
             Parser!expression_end, Parser!expression_combine, Parser!expression_ternary, Parser!branch_number,
             Parser!branch_symbol, Parser!branch_bracket, Parser!branch_bracket_end, Parser!branch_sign,
             Parser!branch_signed, Parser!branch_error, Parser!branch_end, Parser!branch_ternary, Parser!ternary_begin,
             Parser!ternary_consequent, Parser!ternary_alternative, Parser!Begins, Parser!Resumes, Parser!In,
             Parser!parse_corpus_begin, Parser!parse_corpus_end, Parser!compile_empty, Parser!run_inserters,
             Parser!run_joiners, Parser!run_modifiers, Parser!run_scanners, Parser!Pass
    <3> QED BY <2>1, <3>1, <3>2 DEF CompleteInv
  <2>3. CASE Parser!Parsing
    <3>1. outcome' \notin Before /\ outcome # "none"
      BY <2>1, <2>3, ParsingEnds DEF Parser!Parsing
    <3> QED BY <2>1, <3>1 DEF CompleteInv
  <2> QED BY <2>2, <2>3
<1>5. CASE UNCHANGED evaluateVars
  BY <1>5 DEF CompleteInv, Before, evaluateVars, vars, parser_
<1> QED BY <1>1, <1>2, <1>3, <1>4, <1>5 DEF EvaluateNext

LEMMA StepDerived ==
    ProgressInv /\ DerivedInv /\ [EvaluateNext]_evaluateVars => DerivedInv'
<1> SUFFICES ASSUME ProgressInv, DerivedInv, [EvaluateNext]_evaluateVars PROVE DerivedInv'
  OBVIOUS
<1>0. TracedInv /\ CompleteInv /\ ValuesAreDerived /\ CompleteInv'
  BY StepComplete DEF DerivedInv
<1>n. outcome' \notin {"parsing", "compiled"} => TracedInv' /\ ValuesAreDerived'
  BY Zenon DEF TracedInv, ValuesAreDerived, Parser!ValuesAreDerived, Parser!Parsing
<1>1. CASE parse
  <2>1. symbol_table' = symbol_table /\ Parser!Next
    BY <1>1 DEF parse, table_
  <2>2. CASE Parser!Parsing
    <3>1. outcome' \in {"parsing", "error", "compiled"}
      BY <2>1, <2>2, ParsingEnds
    <3>2. CASE outcome' = "parsing"
      <4>1. TracedInv'
        BY <1>0, <2>1, <2>2, <3>2, ParseIsDerived
      <4>2. ValuesAreDerived'
        BY <3>2, Zenon DEF ValuesAreDerived, Parser!ValuesAreDerived
      <4> QED BY <1>0, <4>1, <4>2 DEF DerivedInv
    <3>3. CASE outcome' = "compiled"
      <4>1. Awaiting /\ \A M : Given1(M, tokens, token_itr_) => TracedHere(M)
        BY <1>0, <2>2 DEF ProgressInv, TracedInv
      <4>2. Parser!parse_corpus_end
        BY <2>1, <2>2, <3>3, CompiledBy
      <4>3. tokens' = tokens
        BY <3>3, <4>2, CorpusSteps DEF Waits, Parser!next_token
      <4>4. \A M : Parser!IsGrammar(M, tokens) => \E cut : Parted(M, tokens, arg_list', cut, Len(tokens))
        BY <3>3, <4>1, <4>2, CorpusCompiled
      <4>5. ValuesAreDerived'
        BY <2>1, <4>3, <4>4, PartsDerived
      <4>6. TracedInv'
        BY <3>3 DEF TracedInv, Parser!Parsing
      <4> QED BY <1>0, <4>5, <4>6 DEF DerivedInv
    <3> QED BY <1>0, <1>n, <3>1, <3>2, <3>3 DEF DerivedInv
  <2>3. CASE ~Parser!Parsing
    <3>1. outcome' # "compiled" /\ (outcome' = "parsing" => Parser!run_scanners)
      BY <2>1, <2>3, PassesAre
    <3>2. CASE outcome' = "parsing"
      <4>1. TracedInv'
        BY <1>0, <2>1, <3>1, <3>2, ScannedIsTraced
      <4>2. ValuesAreDerived'
        BY <3>2, Zenon DEF ValuesAreDerived, Parser!ValuesAreDerived
      <4> QED BY <1>0, <4>1, <4>2 DEF DerivedInv
    <3> QED BY <1>0, <1>n, <3>1, <3>2 DEF DerivedInv
  <2> QED BY <2>2, <2>3
<1>2. CASE compile_lexed \/ compile_fails
  <2>1. outcome' \in {"lexed", "error", "other"}
    BY <1>2 DEF compile_lexed, compile_fails, Parser!Start, Parser!GiveUp
  <2> QED BY <1>0, <1>n, <2>1 DEF DerivedInv
<1>3. CASE add_constant
  <2>1. to_add # {} /\ outcome' = outcome
    BY <1>3 DEF add_constant, parser_
  <2>2. outcome = "none"
    BY <1>0, <2>1 DEF CompleteInv
  <2> QED BY <1>0, <1>n, <2>1, <2>2 DEF DerivedInv
<1>4. CASE lex \/ UNCHANGED evaluateVars
  <2>1. UNCHANGED <<parser_, symbol_table>>
    BY <1>4 DEF lex, evaluateVars, table_
  <2> QED BY <1>0, <2>1, DerivedKept DEF DerivedInv
<1> QED BY <1>1, <1>2, <1>3, <1>4 DEF EvaluateNext

\* However deep an expression nests and whatever its operators are, the parser gives what
\* the grammar gives for the tokens that it has read.
THEOREM ValuesAlwaysDerived == EvaluateSpec => []ValuesAreDerived
<1>1. EvaluateInit => DerivedInv
  <2> SUFFICES ASSUME EvaluateInit PROVE DerivedInv
    OBVIOUS
  <2>1. outcome = "none" /\ arg_list = <<>> /\ result = "running"
    BY DEF EvaluateInit, Parser!Init, process_begin
  <2>2. TracedInv /\ CompleteInv
    BY <2>1 DEF TracedInv, CompleteInv, Parser!Parsing
  <2>3. ValuesAreDerived
    BY <2>1, Zenon DEF ValuesAreDerived, Parser!ValuesAreDerived
  <2> QED BY <2>2, <2>3 DEF DerivedInv
<1>2. DerivedInv => ValuesAreDerived
  BY DEF DerivedInv
<1> QED BY <1>1, <1>2, StepDerived, ProgressKept, PTL DEF EvaluateSpec
=============================================================================
