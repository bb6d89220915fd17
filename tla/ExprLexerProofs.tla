--------------------------- MODULE ExprLexerProofs ---------------------------
(***************************************************************************)
(* The lexer for texts of every length.  All rests on where First lands:   *)
(* behind the character the loop is at and not behind the end.  What a     *)
(* turn of the loop does is then one of three things (LoopStep), and none  *)
(* of them disturbs NothingLost as long as the tokens and comments that    *)
(* are there lie in what has been seen (Within).  That each token is whole *)
(* is shown for one kind of token at a time (WholeInv).                    *)
(***************************************************************************)
EXTENDS ExprLexer, TLAPS, WellFoundedInduction

LEMMA LengthIsNat == TypeOK => n \in Nat
BY TextsAssumption DEF TypeOK, n

LEMMA FirstIsFirst ==
    ASSUME TypeOK, NEW a \in Nat, NEW stops, stops \subseteq a..n
    PROVE  First(stops) \in stops \cup {n + 1} /\ \A k \in stops : First(stops) <= k
<1> DEFINE T == stops \cup {n + 1}
<1>1. n \in Nat
  BY LengthIsNat
<1>2. T \subseteq Nat /\ T # {}
  <2>1. \A k \in stops : k \in a..n
    OBVIOUS
  <2> QED BY <1>1, <2>1
<1>3. PICK m \in T : \A t \in T : ~(<<t, m>> \in OpToRel(<, Nat))
  <2> HIDE DEF T
  <2> QED BY <1>2, NatLessThanWellFounded, WFMin
<1>4. \A t \in T : ~(t < m)
  <2> TAKE t \in T
  <2>1. t \in Nat /\ m \in Nat
    BY <1>2
  <2> QED BY <1>3, <2>1 DEF OpToRel
<1>5. \A k \in stops : m <= k
  <2> TAKE k \in stops
  <2>1. k \in T /\ k \in Nat /\ m \in Nat
    BY <1>2
  <2> QED BY <1>4, <2>1
<1> QED BY <1>3, <1>5 DEF First

\* The first stop from the next character on, where that one is none.
LEMMA FirstGoesOn ==
    ASSUME TypeOK, NEW a \in Nat, NEW stops, stops \subseteq a..n, s_itr_ <= a, s_itr_ <= n, s_itr_ \notin stops
    PROVE  First(stops) \in s_itr_ + 1..n + 1
<1>1. n \in Nat /\ s_itr_ \in 1..n + 1
  BY LengthIsNat DEF TypeOK
<1>2. First(stops) \in stops \cup {n + 1}
  BY FirstIsFirst
<1>3. CASE First(stops) = n + 1
  BY <1>1, <1>3
<1>4. CASE First(stops) \in stops
  <2>1. First(stops) \in a..n /\ First(stops) # s_itr_
    BY <1>4
  <2> QED BY <1>1, <2>1
<1> QED BY <1>2, <1>3, <1>4

LEMMA SymbolGoesOn == ASSUME At(s_itr_) \in Letters PROVE ~SymbolStops(s_itr_)
BY DEF SymbolStops, NameChars

LEMMA NumberGoesOn ==
    ASSUME s_itr_ \in Nat,
           At(s_itr_) \in Digits \/ (At(s_itr_) = "." /\ At(s_itr_ + 1) \in Digits)
    PROVE  ~NumberStops(s_itr_, s_itr_)
<1>1. ~dot_found(s_itr_, s_itr_) /\ ~e_found(s_itr_, s_itr_)
  BY DEF dot_found, e_found
<1>2. At(s_itr_) \notin Es
  BY DEF Digits, Es
<1> QED BY <1>1, <1>2 DEF NumberStops, NumberFails, IsExponentSign

\* An operator ends in the text.
LEMMA OperatorFits ==
    ASSUME TypeOK, s_itr_ <= n
    PROVE  OperatorLength(s_itr_) \in 1..3 /\ s_itr_ + OperatorLength(s_itr_) \in s_itr_ + 1..n + 1
<1>1. n \in Nat /\ s_itr_ \in 1..n + 1
  BY LengthIsNat DEF TypeOK
<1>2. CASE <<At(s_itr_), At(s_itr_ + 1), At(s_itr_ + 2)>> \in Operators3
  <2>1. At(s_itr_ + 2) = ">"
    BY <1>2 DEF Operators3
  <2>2. s_itr_ + 2 <= n
    BY <2>1 DEF At
  <2> QED BY <1>1, <1>2, <2>2 DEF OperatorLength
<1>3. CASE <<At(s_itr_), At(s_itr_ + 1)>> \in Operators2 /\ ~<1>2!1
  <2>1. At(s_itr_ + 1) # "NUL"
    BY <1>3 DEF Operators2
  <2>2. s_itr_ + 1 <= n
    BY <2>1 DEF At
  <2> QED BY <1>1, <1>3, <2>2 DEF OperatorLength
<1> QED BY <1>1, <1>2, <1>3 DEF OperatorLength

-----------------------------------------------------------------------------
(* Typing *)

LEMMA InitTyped == Init => TypeOK
<1> SUFFICES ASSUME Init PROVE TypeOK
  OBVIOUS
<1>1. n \in Nat
  BY TextsAssumption DEF Init, process_begin, n
<1>2. token_list_ \in Seq([type : TokenTypes, from : 1..n + 1, to : 1..n + 2])
  BY DEF Init, process_begin
<1>3. s_itr_ \in 1..n + 1 /\ initial_itr \in 0..s_itr_
  BY <1>1 DEF Init, process_begin
<1>4. text \in Texts /\ result = "running" /\ comments = {} /\ escaped = FALSE
  BY DEF Init, process_begin
<1> QED BY <1>2, <1>3, <1>4 DEF TypeOK

LEMMA EmitTyped ==
    ASSUME TypeOK, NEW type \in TokenTypes, NEW from \in 1..n + 1, NEW to \in 1..n + 2, NEW next \in 1..n + 1,
           Emit(type, from, to, next)
    PROVE  TypeOK'
<1> DEFINE token == [type |-> type, from |-> from, to |-> to]
           Token == [type : TokenTypes, from : 1..n + 1, to : 1..n + 2]
<1>1. n \in Nat /\ n' = n
  BY LengthIsNat DEF Emit, n
<1>2. token \in Token
  OBVIOUS
<1>3. token_list_' = Append(token_list_, token) /\ token_list_ \in Seq(Token)
  BY DEF Emit, TypeOK
<1>4. token_list_' \in Seq(Token)
  <2> HIDE DEF token, Token
  <2> QED BY <1>2, <1>3
<1>5. token_list_' \in Seq([type : TokenTypes, from : 1..n' + 1, to : 1..n' + 2])
  BY <1>1, <1>4
<1>6. result' \in {"running", "true", "false"}
  BY DEF Emit
<1>7. s_itr_' = next /\ initial_itr' = 0 /\ escaped' = FALSE
  BY DEF Emit
<1>9. s_itr_' \in 1..n' + 1 /\ initial_itr' \in 0..s_itr_'
  BY <1>1, <1>7
<1>10. escaped' \in BOOLEAN
  BY <1>7
<1>8. text' \in Texts /\ comments' \subseteq [from : 1..n', to : 1..n' + 1]
  BY <1>1 DEF Emit, TypeOK
<1> QED BY <1>5, <1>6, <1>8, <1>9, <1>10 DEF TypeOK

\* A comment that is gone over.
LEMMA CommentTyped ==
    ASSUME TypeOK, s_itr_ <= n, NEW to \in s_itr_ + 1..n + 1,
           s_itr_' = to, comments' = comments \cup {[from |-> s_itr_, to |-> to]},
           UNCHANGED <<text, token_list_, result, string_>>, initial_itr = 0
    PROVE  TypeOK'
<1>1. n \in Nat /\ n' = n /\ s_itr_ \in 1..n
  BY LengthIsNat DEF TypeOK, n
<1>2. [from |-> s_itr_, to |-> to] \in [from : 1..n, to : 1..n + 1]
  BY <1>1
<1>3. comments' \subseteq [from : 1..n', to : 1..n' + 1]
  BY <1>1, <1>2 DEF TypeOK
<1>4. s_itr_' \in 1..n' + 1 /\ initial_itr' \in 0..s_itr_' /\ escaped' \in BOOLEAN
  BY <1>1 DEF string_, TypeOK
<1> QED BY <1>1, <1>3, <1>4 DEF TypeOK

LEMMA WhitespaceLands ==
    ASSUME TypeOK, skip_whitespace
    PROVE  s_itr_' \in s_itr_ + 1..n + 1
<1> DEFINE stops == {j \in s_itr_..n : At(j) \notin Whitespace}
<1>1. s_itr_ \in Nat /\ s_itr_ <= s_itr_ /\ s_itr_ <= n /\ s_itr_ \notin stops /\ stops \subseteq s_itr_..n
  BY LengthIsNat DEF skip_whitespace, Running, TypeOK
<1>2. First(stops) \in s_itr_ + 1..n + 1
  <2> HIDE DEF stops
  <2> QED BY <1>1, FirstGoesOn
<1> QED BY <1>2 DEF skip_whitespace

LineStart == s_itr_ + IF At(s_itr_) = "#" THEN 1 ELSE 2
LineLast  == First({j \in LineStart..n : At(j) = "\n"})
LineEnd   == IF LineLast > n THEN LineLast ELSE LineLast + 1

LEMMA LineLands ==
    ASSUME TypeOK, Running, IsLineComment
    PROVE  /\ LineEnd \in s_itr_ + 1..n + 1
           /\ LineLast \in LineStart..n + 1
           /\ \A k \in LineStart..n : At(k) = "\n" => LineLast <= k
           /\ LineLast <= n => At(LineLast) = "\n"
<1> DEFINE stops == {j \in LineStart..n : At(j) = "\n"}
<1>1. n \in Nat /\ s_itr_ \in 1..n
  BY LengthIsNat DEF Running, TypeOK
<1>2. LineStart \in Nat /\ stops \subseteq LineStart..n /\ s_itr_ < LineStart
  BY <1>1 DEF LineStart
<1>3. LineStart <= n + 1
  <2>1. CASE At(s_itr_) = "#"
    BY <1>1, <2>1 DEF LineStart
  <2>2. CASE At(s_itr_) # "#"
    <3>1. At(s_itr_ + 1) = "/"
      BY <2>2 DEF IsLineComment
    <3>2. s_itr_ + 1 <= n
      BY <3>1 DEF At
    <3> QED BY <1>1, <2>2, <3>2 DEF LineStart
  <2> QED BY <2>1, <2>2
<1>4. First(stops) \in stops \cup {n + 1} /\ \A k \in stops : First(stops) <= k
  <2> HIDE DEF stops
  <2> QED BY <1>2, FirstIsFirst
<1>5. LineLast = First(stops)
  BY DEF LineLast
<1>6. LineLast \in LineStart..n + 1
  BY <1>1, <1>2, <1>3, <1>4, <1>5
<1>7. LineLast <= n => At(LineLast) = "\n"
  BY <1>1, <1>4, <1>5
<1>8. \A k \in LineStart..n : At(k) = "\n" => LineLast <= k
  BY <1>4, <1>5
<1>9. LineEnd \in s_itr_ + 1..n + 1
  BY <1>1, <1>2, <1>6 DEF LineEnd
<1> QED BY <1>6, <1>7, <1>8, <1>9

BlockLast == First({j \in s_itr_ + 2..n : EndsBlock(j)})

LEMMA BlockLands ==
    ASSUME TypeOK, Running, IsBlockComment
    PROVE  /\ s_itr_ + 1 <= n
           /\ BlockLast \in s_itr_ + 2..n + 1
           /\ \A k \in s_itr_ + 2..n : EndsBlock(k) => BlockLast <= k
           /\ BlockLast <= n => EndsBlock(BlockLast) /\ BlockLast + 2 \in s_itr_ + 4..n + 1
<1> DEFINE stops == {j \in s_itr_ + 2..n : EndsBlock(j)}
<1>1. n \in Nat /\ s_itr_ \in 1..n
  BY LengthIsNat DEF Running, TypeOK
<1>2. s_itr_ + 1 <= n
  <2>1. At(s_itr_ + 1) = "*"
    BY DEF IsBlockComment
  <2> QED BY <2>1 DEF At
<1>3. s_itr_ + 2 \in Nat /\ stops \subseteq s_itr_ + 2..n
  BY <1>1
<1>4. First(stops) \in stops \cup {n + 1} /\ \A k \in stops : First(stops) <= k
  <2> HIDE DEF stops
  <2> QED BY <1>3, FirstIsFirst
<1>5. BlockLast = First(stops)
  BY DEF BlockLast
<1>6. BlockLast \in s_itr_ + 2..n + 1
  BY <1>1, <1>2, <1>4, <1>5
<1>7. ASSUME BlockLast <= n PROVE EndsBlock(BlockLast) /\ BlockLast + 2 \in s_itr_ + 4..n + 1
  <2>1. EndsBlock(BlockLast)
    BY <1>1, <1>4, <1>5, <1>7
  <2>2. At(BlockLast + 1) = "/"
    BY <2>1 DEF EndsBlock
  <2>3. BlockLast + 1 <= n
    BY <2>2 DEF At
  <2> QED BY <1>1, <1>6, <2>1, <2>3
<1>8. \A k \in s_itr_ + 2..n : EndsBlock(k) => BlockLast <= k
  BY <1>4, <1>5
<1> QED BY <1>2, <1>6, <1>7, <1>8

-----------------------------------------------------------------------------
(* What a turn of the loop does *)

Blank ==
    /\ UNCHANGED <<token_list_, comments>>
    /\ \A p \in Seen + 1..Seen' : At(p) \in Whitespace

Comment ==
    /\ UNCHANGED token_list_
    /\ \E c : comments' = comments \cup {c} /\ CommentExtent(c) = Seen + 1..Seen'

Token ==
    /\ UNCHANGED comments
    /\ \E t : token_list_' = Append(token_list_, t) /\ Extent(t) = Seen + 1..Seen'

LoopStep ==
    /\ result = "running"
    /\ \/ result' = "false"
       \/ /\ UNCHANGED text
          /\ Seen \in Nat /\ Seen' \in Nat /\ Seen <= Seen'
          /\ Blank \/ Comment \/ Token

\* A string has its opening quote.
StringOpened == initial_itr # 1

\* What is there of tokens and comments lies in what has been seen.
Within ==
    result # "false" =>
        /\ \A i \in DOMAIN token_list_ : Extent(token_list_[i]) \subseteq 1..Seen
        /\ \A c \in comments : CommentExtent(c) \subseteq 1..Seen

Moves == s_itr_' > s_itr_ \/ result' # "running"

LEMMA RunningSeen ==
    ASSUME TypeOK, Running
    PROVE  n \in Nat /\ s_itr_ \in 1..n /\ Seen = s_itr_ - 1 /\ result = "running" /\ initial_itr = 0
BY LengthIsNat DEF TypeOK, Running, Seen

\* A token that is no string, from the next character to where the text goes on.
LEMMA EmitMoves ==
    ASSUME TypeOK, Running, NEW type \in TokenTypes \ {"string"}, NEW to \in s_itr_ + 1..n + 1,
           Emit(type, s_itr_, to, to)
    PROVE  TypeOK' /\ LoopStep /\ StringOpened' /\ Moves
<1>1. n \in Nat /\ s_itr_ \in 1..n /\ Seen = s_itr_ - 1 /\ result = "running"
  BY RunningSeen
<1>2. to \in Nat /\ to \in 1..n + 1 /\ to \in 1..n + 2 /\ s_itr_ \in 1..n + 1 /\ to > s_itr_
  BY <1>1
<1>3. TypeOK'
  BY <1>2, EmitTyped
<1>4. s_itr_' = to /\ initial_itr' = 0 /\ UNCHANGED <<text, comments>>
  BY DEF Emit
<1>5. Seen' = to - 1
  BY <1>4 DEF Seen
<1> DEFINE t == [type |-> type, from |-> s_itr_, to |-> to]
<1>6. token_list_' = Append(token_list_, t)
  BY DEF Emit
<1>7. Extent(t) = Seen + 1..Seen'
  <2>1. Extent(t) = s_itr_..to - 1
    BY DEF Extent
  <2> QED BY <1>1, <1>5, <2>1
<1>8. Token
  <2> HIDE DEF t
  <2> QED BY <1>4, <1>6, <1>7 DEF Token
<1>9. LoopStep
  BY <1>1, <1>2, <1>4, <1>5, <1>8 DEF LoopStep
<1> QED BY <1>2, <1>3, <1>4, <1>9 DEF StringOpened, Moves

LEMMA ErrorMoves ==
    ASSUME TypeOK, result = "running",
           NEW type \in {"error", "err_symbol", "err_number", "err_string", "err_sfunc"} \cap TokenTypes,
           NEW from \in 1..n + 1, NEW to \in 1..n + 2, NEW next \in 1..n + 1,
           Emit(type, from, to, next)
    PROVE  TypeOK' /\ LoopStep /\ StringOpened' /\ Moves
<1>1. TypeOK'
  BY EmitTyped
<1>2. result' = "false" /\ initial_itr' = 0
  BY DEF Emit, IsError
<1> QED BY <1>1, <1>2 DEF LoopStep, StringOpened, Moves

LEMMA CommentMoves ==
    ASSUME TypeOK, Running, NEW to \in s_itr_ + 1..n + 1,
           s_itr_' = to, comments' = comments \cup {[from |-> s_itr_, to |-> to]},
           UNCHANGED <<text, token_list_, result, string_>>
    PROVE  TypeOK' /\ LoopStep /\ StringOpened' /\ Moves
<1>1. n \in Nat /\ s_itr_ \in 1..n /\ Seen = s_itr_ - 1 /\ result = "running" /\ initial_itr = 0
  BY RunningSeen
<1>2. TypeOK'
  BY <1>1, CommentTyped
<1>3. initial_itr' = 0 /\ Seen' = to - 1
  BY <1>1 DEF Seen, string_
<1> DEFINE c == [from |-> s_itr_, to |-> to]
<1>4. CommentExtent(c) = Seen + 1..Seen'
  BY <1>1, <1>3 DEF CommentExtent
<1>5. Comment
  <2> HIDE DEF c
  <2>1. comments' = comments \cup {c}
    BY DEF c
  <2> QED BY <1>4, <2>1 DEF Comment
<1>6. LoopStep
  BY <1>1, <1>3, <1>5 DEF LoopStep
<1> QED BY <1>1, <1>2, <1>3, <1>6 DEF StringOpened, Moves

\* In a string nothing is seen until it ends.
LEMMA InStringSeen ==
    ASSUME TypeOK, StringOpened, InString
    PROVE  /\ n \in Nat /\ s_itr_ \in 1..n + 1 /\ initial_itr \in 2..s_itr_
           /\ Seen = initial_itr - 2 /\ result = "running"
<1>1. n \in Nat /\ s_itr_ \in 1..n + 1 /\ initial_itr \in 0..s_itr_
  BY LengthIsNat DEF TypeOK
<1>2. initial_itr # 0 /\ initial_itr # 1 /\ result = "running"
  BY DEF InString, StringOpened
<1> QED BY <1>1, <1>2 DEF Seen

LEMMA StringMoves ==
    ASSUME TypeOK, StringOpened,
           scan_string_open \/ scan_string_next \/ scan_string_close \/ scan_string_error
    PROVE  TypeOK' /\ LoopStep /\ StringOpened' /\ Moves
<1>1. CASE scan_string_open /\ s_itr_ = n
  <2>1. n \in Nat /\ s_itr_ \in 1..n + 1 /\ n + 1 \in 1..n + 2 /\ result = "running"
    BY <1>1, RunningSeen DEF scan_string_open
  <2>2. Emit("err_string", s_itr_, n + 1, s_itr_)
    BY <1>1 DEF scan_string_open
  <2> QED BY <2>1, <2>2, ErrorMoves DEF TokenTypes
<1>2. CASE scan_string_open /\ s_itr_ # n
  <2>1. n \in Nat /\ s_itr_ \in 1..n /\ Seen = s_itr_ - 1 /\ result = "running"
    BY <1>2, RunningSeen DEF scan_string_open
  <2>2. s_itr_' = s_itr_ + 1 /\ initial_itr' = s_itr_ + 1 /\ escaped' = FALSE
    BY <1>2 DEF scan_string_open
  <2>3. UNCHANGED <<text, token_list_, result, comments>>
    BY <1>2 DEF scan_string_open
  <2>4. n' = n /\ Seen' = s_itr_ - 1
    BY <2>1, <2>2, <2>3 DEF n, Seen
  <2>5. s_itr_' \in 1..n' + 1 /\ initial_itr' \in 0..s_itr_'
    BY <1>2, <2>1, <2>2, <2>4
  <2>6. TypeOK'
    BY <2>2, <2>3, <2>4, <2>5 DEF TypeOK
  <2>7. Blank /\ Seen \in Nat
    BY <2>1, <2>3, <2>4 DEF Blank
  <2> QED BY <2>1, <2>2, <2>3, <2>4, <2>6, <2>7 DEF LoopStep, StringOpened, Moves
<1>3. CASE scan_string_next
  <2>1. /\ n \in Nat /\ s_itr_ \in 1..n /\ initial_itr \in 2..s_itr_
        /\ Seen = initial_itr - 2 /\ result = "running"
    BY <1>3, InStringSeen DEF scan_string_next
  <2>2. UNCHANGED <<text, token_list_, result, comments, initial_itr>>
    BY <1>3 DEF scan_string_next
  <2>3. n' = n /\ Seen' = Seen
    BY <2>1, <2>2 DEF n, Seen
  <2>4. s_itr_' \in s_itr_ + 1..n + 1
    <3>1. CASE escaped /\ HexEscape(s_itr_)
      <4>1. s_itr_ + 3 <= n /\ s_itr_' = s_itr_ + 4
        BY <1>3, <3>1 DEF scan_string_next, HexEscape
      <4> QED BY <2>1, <4>1
    <3>2. CASE ~(escaped /\ HexEscape(s_itr_))
      <4>1. s_itr_' = s_itr_ + 1
        BY <1>3, <3>2 DEF scan_string_next
      <4> QED BY <2>1, <4>1
    <3> QED BY <3>1, <3>2
  <2>5. escaped' \in BOOLEAN
    BY <1>3 DEF scan_string_next
  <2>6. s_itr_' \in 1..n' + 1 /\ initial_itr' \in 0..s_itr_'
    BY <2>1, <2>2, <2>3, <2>4
  <2>7. TypeOK'
    BY <2>2, <2>3, <2>5, <2>6 DEF TypeOK
  <2>8. Blank /\ Seen \in Nat
    BY <2>1, <2>2, <2>3 DEF Blank
  <2> QED BY <2>1, <2>2, <2>3, <2>4, <2>7, <2>8 DEF LoopStep, StringOpened, Moves
<1>4. CASE scan_string_close
  <2>1. /\ n \in Nat /\ s_itr_ \in 1..n /\ initial_itr \in 2..s_itr_
        /\ Seen = initial_itr - 2 /\ result = "running"
    BY <1>4, InStringSeen DEF scan_string_close
  <2>2. Emit("string", initial_itr, s_itr_, s_itr_ + 1)
    BY <1>4 DEF scan_string_close
  <2>3. initial_itr \in 1..n + 1 /\ s_itr_ \in 1..n + 2 /\ s_itr_ + 1 \in 1..n + 1
    BY <2>1
  <2>4. "string" \in TokenTypes
    BY DEF TokenTypes
  <2>5. TypeOK'
    BY <2>2, <2>3, <2>4, EmitTyped
  <2>6. s_itr_' = s_itr_ + 1 /\ initial_itr' = 0 /\ UNCHANGED <<text, comments>>
    BY <2>2 DEF Emit
  <2>7. Seen' = s_itr_
    BY <2>1, <2>6 DEF Seen
  <2> DEFINE t == [type |-> "string", from |-> initial_itr, to |-> s_itr_]
  <2>8. Token
    <3>1. token_list_' = Append(token_list_, t)
      BY <2>2 DEF Emit
    <3>2. Extent(t) = initial_itr - 1..s_itr_
      BY DEF Extent
    <3>3. Extent(t) = Seen + 1..Seen'
      BY <2>1, <2>7, <3>2
    <3> HIDE DEF t
    <3> QED BY <2>6, <3>1, <3>3 DEF Token
  <2>9. Seen \in Nat /\ Seen' \in Nat /\ Seen <= Seen'
    BY <2>1, <2>7
  <2> QED BY <2>1, <2>5, <2>6, <2>8, <2>9 DEF LoopStep, StringOpened, Moves
<1>5. CASE scan_string_error
  <2>1. n \in Nat /\ s_itr_ \in 1..n + 1 /\ initial_itr \in 2..s_itr_ /\ result = "running"
    BY <1>5, InStringSeen DEF scan_string_error
  <2>2. initial_itr \in 1..n + 1 /\ s_itr_ \in 1..n + 2
    BY <2>1
  <2>3. Emit("err_string", initial_itr, s_itr_, s_itr_)
    BY <1>5 DEF scan_string_error
  <2> QED BY <2>1, <2>2, <2>3, ErrorMoves DEF TokenTypes
<1> QED BY <1>1, <1>2, <1>3, <1>4, <1>5

LEMMA SkipMoves ==
    ASSUME TypeOK, skip_whitespace \/ skip_comments_line \/ skip_comments_block
    PROVE  TypeOK' /\ LoopStep /\ StringOpened' /\ Moves
<1>0. Running
  BY DEF skip_whitespace, skip_comments_line, skip_comments_block
<1>1. n \in Nat /\ s_itr_ \in 1..n /\ Seen = s_itr_ - 1 /\ result = "running" /\ initial_itr = 0
  BY <1>0, RunningSeen
<1>2. CASE skip_whitespace
  <2>1. PICK to \in s_itr_ + 1..n + 1 : s_itr_' = to
    BY <1>2, WhitespaceLands
  <2>9. to \in Nat /\ s_itr_ < to /\ to <= n + 1
    BY <1>1
  <2>2. UNCHANGED <<text, token_list_, result, comments, initial_itr, escaped>>
    BY <1>2 DEF skip_whitespace, string_
  <2>3. n' = n /\ initial_itr' = 0 /\ Seen' = to - 1
    BY <1>1, <2>1, <2>2 DEF n, Seen
  <2>4. s_itr_' \in 1..n' + 1 /\ initial_itr' \in 0..s_itr_'
    BY <1>1, <2>1, <2>3, <2>9
  <2>5. TypeOK'
    BY <2>2, <2>3, <2>4 DEF TypeOK
  <2>6. \A p \in Seen + 1..Seen' : At(p) \in Whitespace
    <3> DEFINE stops == {j \in s_itr_..n : At(j) \notin Whitespace}
    <3>1. \A k \in stops : First(stops) <= k
      <4>1. stops \subseteq s_itr_..n /\ s_itr_ \in Nat
        BY <1>1
      <4> HIDE DEF stops
      <4> QED BY <4>1, FirstIsFirst
    <3>2. s_itr_' = First(stops)
      BY <1>2 DEF skip_whitespace
    <3> SUFFICES ASSUME NEW p \in Seen + 1..Seen' PROVE At(p) \in Whitespace
      OBVIOUS
    <3>3. p \in s_itr_..n /\ ~(s_itr_' <= p)
      <4>1. p \in s_itr_..to - 1
        BY <1>1, <2>3
      <4> QED BY <1>1, <2>1, <2>9, <4>1
    <3> QED BY <3>1, <3>2, <3>3
  <2>7. Blank
    BY <2>2, <2>6 DEF Blank
  <2>8. Seen \in Nat /\ Seen' \in Nat /\ Seen <= Seen' /\ s_itr_' > s_itr_
    BY <1>1, <2>1, <2>3, <2>9
  <2> QED BY <1>1, <2>2, <2>3, <2>5, <2>7, <2>8 DEF LoopStep, StringOpened, Moves
<1>3. CASE skip_comments_line
  <2>1. LineEnd \in s_itr_ + 1..n + 1
    BY <1>0, <1>3, LineLands DEF skip_comments_line
  <2>2. /\ s_itr_' = LineEnd /\ comments' = comments \cup {[from |-> s_itr_, to |-> LineEnd]}
        /\ UNCHANGED <<text, token_list_, result, string_>>
    BY <1>3 DEF skip_comments_line, LineEnd, LineLast, LineStart
  <2> QED BY <1>0, <2>1, <2>2, CommentMoves
<1>4. CASE skip_comments_block /\ BlockLast > n
  <2>1. Emit("error", s_itr_, s_itr_ + 2, n + 1)
    BY <1>4 DEF skip_comments_block, BlockLast
  <2>2. s_itr_ \in 1..n + 1 /\ s_itr_ + 2 \in 1..n + 2 /\ n + 1 \in 1..n + 1
    BY <1>1
  <2> QED BY <1>1, <2>1, <2>2, ErrorMoves DEF TokenTypes
<1>5. CASE skip_comments_block /\ ~(BlockLast > n)
  <2>1. BlockLast + 2 \in s_itr_ + 1..n + 1
    <3>1. BlockLast \in s_itr_ + 2..n + 1 /\ (BlockLast <= n => BlockLast + 2 \in s_itr_ + 4..n + 1)
      BY <1>0, <1>5, BlockLands DEF skip_comments_block
    <3> QED BY <1>1, <1>5, <3>1
  <2>2. /\ s_itr_' = BlockLast + 2
        /\ comments' = comments \cup {[from |-> s_itr_, to |-> BlockLast + 2]}
        /\ UNCHANGED <<text, token_list_, result, string_>>
    BY <1>5 DEF skip_comments_block, BlockLast
  <2> QED BY <1>0, <2>1, <2>2, CommentMoves
<1> QED BY <1>2, <1>3, <1>4, <1>5

LEMMA ScanMoves ==
    ASSUME TypeOK,
           scan_operator \/ scan_symbol \/ scan_number \/ scan_special_function \/ scan_tilde \/ scan_error
    PROVE  TypeOK' /\ LoopStep /\ StringOpened' /\ Moves
<1>0. Running
  BY DEF scan_operator, scan_symbol, scan_number, scan_special_function, scan_tilde, scan_error
<1>1. n \in Nat /\ s_itr_ \in 1..n /\ s_itr_ <= n /\ s_itr_ <= s_itr_ /\ s_itr_ \in Nat /\ result = "running"
  BY <1>0, RunningSeen
<1>2. CASE scan_operator
  <2>1. s_itr_ + OperatorLength(s_itr_) \in s_itr_ + 1..n + 1
    BY <1>1, OperatorFits
  <2>2. PICK type \in {"eof", "symbol", "operator"} :
            Emit(type, s_itr_, s_itr_ + OperatorLength(s_itr_), s_itr_ + OperatorLength(s_itr_))
    BY <1>2 DEF scan_operator
  <2> QED BY <1>0, <2>1, <2>2, EmitMoves DEF TokenTypes
<1>3. CASE scan_symbol
  <2> DEFINE stops == {j \in s_itr_..n : SymbolStops(j)}
  <2>1. s_itr_ \notin stops /\ stops \subseteq s_itr_..n
    BY <1>3, SymbolGoesOn DEF scan_symbol
  <2>2. First(stops) \in s_itr_ + 1..n + 1
    <3> HIDE DEF stops
    <3> QED BY <1>1, <2>1, FirstGoesOn
  <2>3. Emit("symbol", s_itr_, First(stops), First(stops))
    BY <1>3 DEF scan_symbol
  <2> HIDE DEF stops
  <2> QED BY <1>0, <2>2, <2>3, EmitMoves DEF TokenTypes
<1>4. CASE scan_number
  <2> DEFINE stops == {j \in s_itr_..n : NumberStops(s_itr_, j)}
  <2>1. s_itr_ \notin stops /\ stops \subseteq s_itr_..n
    BY <1>1, <1>4, NumberGoesOn DEF scan_number
  <2>2. First(stops) \in s_itr_ + 1..n + 1
    <3> HIDE DEF stops
    <3> QED BY <1>1, <2>1, FirstGoesOn
  <2>3. PICK type \in {"number", "err_number"} : Emit(type, s_itr_, First(stops), First(stops))
    BY <1>4 DEF scan_number
  <2> HIDE DEF stops
  <2> QED BY <1>0, <2>2, <2>3, EmitMoves DEF TokenTypes
<1>5. CASE scan_special_function
  <2>1. CASE Emit("symbol", s_itr_, s_itr_ + 4, s_itr_ + 4) /\ ~(n + 1 - s_itr_ < 11)
    <3>1. s_itr_ + 4 \in s_itr_ + 1..n + 1
      BY <1>1, <2>1
    <3> QED BY <1>0, <2>1, <3>1, EmitMoves DEF TokenTypes
  <2>2. ASSUME NEW d \in {4, 11}, Emit("err_sfunc", s_itr_, Smaller(s_itr_ + d, n + 1), s_itr_)
        PROVE  TypeOK' /\ LoopStep /\ StringOpened' /\ Moves
    <3>1. Smaller(s_itr_ + d, n + 1) \in 1..n + 2 /\ s_itr_ \in 1..n + 1
      BY <1>1 DEF Smaller
    <3>2. "err_sfunc" \in {"error", "err_symbol", "err_number", "err_string", "err_sfunc"} \cap TokenTypes
      BY DEF TokenTypes
    <3> QED BY <1>1, <2>2, <3>1, <3>2, ErrorMoves
  <2> QED BY <1>5, <2>1, <2>2 DEF scan_special_function
<1>6. CASE scan_tilde
  <2>1. s_itr_ + 1 \in s_itr_ + 1..n + 1 /\ Emit("symbol", s_itr_, s_itr_ + 1, s_itr_ + 1)
    BY <1>1, <1>6 DEF scan_tilde
  <2> QED BY <1>0, <2>1, EmitMoves DEF TokenTypes
<1>7. CASE scan_error
  <2>1. Emit("error", s_itr_, s_itr_ + 2, s_itr_ + 1)
    BY <1>7 DEF scan_error
  <2>2. s_itr_ \in 1..n + 1 /\ s_itr_ + 2 \in 1..n + 2 /\ s_itr_ + 1 \in 1..n + 1
    BY <1>1
  <2> QED BY <1>1, <2>1, <2>2, ErrorMoves DEF TokenTypes
<1> QED BY <1>2, <1>3, <1>4, <1>5, <1>6, <1>7

LEMMA NextMoves ==
    ASSUME TypeOK, StringOpened, Next
    PROVE  TypeOK' /\ LoopStep /\ StringOpened' /\ Moves
<1>1. CASE process_done
  <2>1. n \in Nat /\ result = "running" /\ initial_itr = 0 /\ s_itr_ \in 1..n + 1
    BY <1>1, LengthIsNat DEF process_done, TypeOK
  <2>2. result' = "true" /\ UNCHANGED <<text, s_itr_, token_list_, comments, initial_itr, escaped>>
    BY <1>1 DEF process_done, string_
  <2>3. n' = n /\ Seen' = Seen /\ Seen \in Nat
    BY <2>1, <2>2 DEF n, Seen
  <2>4. TypeOK'
    BY <2>2, <2>3 DEF TypeOK
  <2>5. Blank
    BY <2>2, <2>3 DEF Blank
  <2>6. LoopStep
    BY <2>1, <2>2, <2>3, <2>5 DEF LoopStep
  <2> QED BY <2>1, <2>2, <2>4, <2>6 DEF StringOpened, Moves
<1>2. CASE skip_whitespace \/ skip_comments_line \/ skip_comments_block
  BY <1>2, SkipMoves
<1>3. CASE scan_operator \/ scan_symbol \/ scan_number \/ scan_special_function \/ scan_tilde \/ scan_error
  BY <1>3, ScanMoves
<1>4. CASE scan_string_open \/ scan_string_next \/ scan_string_close \/ scan_string_error
  BY <1>4, StringMoves
<1> QED BY <1>1, <1>2, <1>3, <1>4 DEF Next

-----------------------------------------------------------------------------
(* What a turn of the loop keeps *)

LEMMA AppendFacts ==
    ASSUME NEW S, NEW q \in Seq(S), NEW t
    PROVE  /\ DOMAIN q = 1..Len(q) /\ Len(q) \in Nat
           /\ DOMAIN Append(q, t) = DOMAIN q \cup {Len(q) + 1}
           /\ \A i \in DOMAIN q : Append(q, t)[i] = q[i]
           /\ Append(q, t)[Len(q) + 1] = t
OBVIOUS

\* The same of the tokens.
LEMMA TokenAppended ==
    ASSUME TypeOK, NEW t
    PROVE  /\ DOMAIN token_list_ = 1..Len(token_list_) /\ Len(token_list_) \in Nat
           /\ DOMAIN Append(token_list_, t) = DOMAIN token_list_ \cup {Len(token_list_) + 1}
           /\ \A i \in DOMAIN token_list_ : Append(token_list_, t)[i] = token_list_[i]
           /\ Append(token_list_, t)[Len(token_list_) + 1] = t
<1>1. PICK S : token_list_ \in Seq(S)
  BY DEF TypeOK
<1> QED BY <1>1, AppendFacts

LEMMA LoopKeepsWithin ==
    ASSUME TypeOK, Within, LoopStep
    PROVE  Within'
<1> SUFFICES ASSUME result' # "false"
             PROVE  /\ \A i \in DOMAIN token_list_' : Extent(token_list_'[i]) \subseteq 1..Seen'
                    /\ \A c \in comments' : CommentExtent(c) \subseteq 1..Seen'
  BY DEF Within, Extent, CommentExtent
<1>1. /\ \A i \in DOMAIN token_list_ : Extent(token_list_[i]) \subseteq 1..Seen
      /\ \A c \in comments : CommentExtent(c) \subseteq 1..Seen
  BY DEF LoopStep, Within
<1>2. Seen \in Nat /\ Seen' \in Nat /\ Seen <= Seen'
  BY DEF LoopStep
<1>3. 1..Seen \subseteq 1..Seen' /\ Seen + 1..Seen' \subseteq 1..Seen'
  BY <1>2
<1>4. CASE Blank
  BY <1>1, <1>3, <1>4 DEF Blank
<1>5. CASE Comment
  BY <1>1, <1>3, <1>5 DEF Comment
<1>6. CASE Token
  <2>1. PICK t : token_list_' = Append(token_list_, t) /\ Extent(t) = Seen + 1..Seen'
    BY <1>6 DEF Token
  <2>2. \A i \in DOMAIN token_list_' : Extent(token_list_'[i]) \subseteq 1..Seen'
    <3> TAKE i \in DOMAIN token_list_'
    <3>1. (i \in DOMAIN token_list_ /\ token_list_'[i] = token_list_[i]) \/ token_list_'[i] = t
      BY <2>1, TokenAppended
    <3> QED BY <1>1, <1>3, <2>1, <3>1
  <2> QED BY <1>1, <1>3, <1>6, <2>2 DEF Token
<1> QED BY <1>4, <1>5, <1>6 DEF LoopStep

\* NothingLost, its two halves by name.
InOrder ==
    \A i, j \in DOMAIN token_list_ :
        i < j => \A p \in Extent(token_list_[i]), q \in Extent(token_list_[j]) : p < q

TokensAt(p)   == {i \in DOMAIN token_list_ : p \in Extent(token_list_[i])}
CommentsAt(p) == {c \in comments : p \in CommentExtent(c)}

InOne(p) ==
    \/ TokensAt(p) = {} /\ CommentsAt(p) = {} /\ At(p) \in Whitespace
    \/ TokensAt(p) = {} /\ \E c \in comments : CommentsAt(p) = {c}
    \/ CommentsAt(p) = {} /\ \E i \in DOMAIN token_list_ : TokensAt(p) = {i}

LEMMA NothingLostByName == NothingLost <=> (result # "false" => InOrder /\ \A p \in 1..Seen : InOne(p))
BY DEF NothingLost, InOrder, InOne, TokensAt, CommentsAt

LEMMA LoopKeepsOrder ==
    ASSUME TypeOK, Within, LoopStep, result' # "false", InOrder
    PROVE  InOrder'
<1>1. \A i \in DOMAIN token_list_ : Extent(token_list_[i]) \subseteq 1..Seen
  BY DEF LoopStep, Within
<1>2. CASE UNCHANGED token_list_
  BY <1>2 DEF InOrder, Extent
<1>3. CASE Token
  <2>1. PICK t : token_list_' = Append(token_list_, t) /\ Extent(t) = Seen + 1..Seen'
    BY <1>3 DEF Token
  <2>2. Seen \in Nat
    BY DEF LoopStep
  <2> SUFFICES ASSUME NEW i \in DOMAIN token_list_', NEW j \in DOMAIN token_list_', i < j,
                      NEW p \in Extent(token_list_'[i]), NEW q \in Extent(token_list_'[j])
               PROVE  p < q
    BY DEF InOrder, Extent
  <2> DEFINE l == Len(token_list_)
  <2>3. /\ DOMAIN token_list_ = 1..l /\ l \in Nat
        /\ DOMAIN token_list_' = DOMAIN token_list_ \cup {l + 1}
        /\ \A k \in DOMAIN token_list_ : token_list_'[k] = token_list_[k]
        /\ token_list_'[l + 1] = t
    BY <2>1, TokenAppended
  <2> HIDE DEF l
  <2>4. i \in DOMAIN token_list_
    BY <2>3
  <2>5. CASE j \in DOMAIN token_list_
    BY <2>3, <2>4, <2>5 DEF InOrder
  <2>6. CASE j = l + 1
    <3>1. p \in 1..Seen /\ q \in Seen + 1..Seen'
      BY <1>1, <2>1, <2>3, <2>4, <2>6
    <3> QED BY <2>2, <3>1
  <2> QED BY <2>3, <2>5, <2>6
<1> QED BY <1>2, <1>3 DEF LoopStep, Blank, Comment

\* A character that has been seen before is in what it was in.
LEMMA LoopKeepsOld ==
    ASSUME TypeOK, LoopStep, result' # "false", NEW p \in 1..Seen
    PROVE  TokensAt(p)' = TokensAt(p) /\ CommentsAt(p)' = CommentsAt(p) /\ At(p)' = At(p)
<1>1. Seen \in Nat /\ UNCHANGED text /\ p \notin Seen + 1..Seen'
  BY DEF LoopStep
<1>2. At(p)' = At(p)
  BY <1>1 DEF At, n
<1>3. CASE Blank
  BY <1>2, <1>3 DEF Blank, TokensAt, CommentsAt, Extent, CommentExtent
<1>4. CASE Comment
  <2>1. PICK c : comments' = comments \cup {c} /\ CommentExtent(c) = Seen + 1..Seen'
    BY <1>4 DEF Comment
  <2>2. CommentsAt(p)' = {d \in comments' : p \in CommentExtent(d)}
    BY DEF CommentsAt, CommentExtent
  <2>3. CommentsAt(p)' = CommentsAt(p)
    BY <1>1, <2>1, <2>2 DEF CommentsAt
  <2>4. TokensAt(p)' = TokensAt(p)
    BY <1>4 DEF Comment, TokensAt, Extent
  <2> QED BY <1>2, <2>3, <2>4
<1>5. CASE Token
  <2>1. PICK t : token_list_' = Append(token_list_, t) /\ Extent(t) = Seen + 1..Seen'
    BY <1>5 DEF Token
  <2>2. TokensAt(p)' = {i \in DOMAIN token_list_' : p \in Extent(token_list_'[i])}
    BY DEF TokensAt, Extent
  <2> DEFINE l == Len(token_list_)
  <2>3. /\ DOMAIN token_list_' = DOMAIN token_list_ \cup {l + 1}
        /\ \A k \in DOMAIN token_list_ : token_list_'[k] = token_list_[k]
        /\ token_list_'[l + 1] = t
    BY <2>1, TokenAppended
  <2> HIDE DEF l
  <2>4. TokensAt(p)' = TokensAt(p)
    BY <1>1, <2>1, <2>2, <2>3 DEF TokensAt
  <2>5. CommentsAt(p)' = CommentsAt(p)
    BY <1>5 DEF Token, CommentsAt, CommentExtent
  <2> QED BY <1>2, <2>4, <2>5
<1> QED BY <1>3, <1>4, <1>5 DEF LoopStep

\* A character that is new is in what the step adds, and in nothing else.
LEMMA LoopAddsNew ==
    ASSUME TypeOK, Within, LoopStep, result' # "false", NEW p \in Seen + 1..Seen'
    PROVE  InOne(p)'
<1>1. /\ \A i \in DOMAIN token_list_ : Extent(token_list_[i]) \subseteq 1..Seen
      /\ \A c \in comments : CommentExtent(c) \subseteq 1..Seen
  BY DEF LoopStep, Within
<1>2. Seen \in Nat /\ UNCHANGED text /\ p \notin 1..Seen
  BY DEF LoopStep
<1>3. TokensAt(p) = {} /\ CommentsAt(p) = {}
  BY <1>1, <1>2 DEF TokensAt, CommentsAt
<1>4. /\ TokensAt(p)' = {i \in DOMAIN token_list_' : p \in Extent(token_list_'[i])}
      /\ CommentsAt(p)' = {d \in comments' : p \in CommentExtent(d)}
  BY DEF TokensAt, CommentsAt, Extent, CommentExtent
<1>5. CASE Blank
  <2>1. At(p)' \in Whitespace
    BY <1>2, <1>5 DEF Blank, At, n
  <2>2. TokensAt(p)' = {} /\ CommentsAt(p)' = {}
    BY <1>3, <1>4, <1>5 DEF Blank, TokensAt, CommentsAt
  <2> QED BY <2>1, <2>2 DEF InOne
<1>6. CASE Comment
  <2>1. PICK c : comments' = comments \cup {c} /\ CommentExtent(c) = Seen + 1..Seen'
    BY <1>6 DEF Comment
  <2>2. CommentsAt(p)' = {c}
    BY <1>3, <1>4, <2>1 DEF CommentsAt
  <2>3. TokensAt(p)' = {}
    BY <1>3, <1>4, <1>6 DEF Comment, TokensAt
  <2>4. c \in comments'
    BY <2>1
  <2> QED BY <2>2, <2>3, <2>4 DEF InOne
<1>7. CASE Token
  <2>1. PICK t : token_list_' = Append(token_list_, t) /\ Extent(t) = Seen + 1..Seen'
    BY <1>7 DEF Token
  <2> DEFINE l == Len(token_list_)
  <2>2. /\ DOMAIN token_list_' = DOMAIN token_list_ \cup {l + 1}
        /\ \A k \in DOMAIN token_list_ : token_list_'[k] = token_list_[k]
        /\ token_list_'[l + 1] = t
    BY <2>1, TokenAppended
  <2> HIDE DEF l
  <2>3. TokensAt(p)' = {l + 1}
    BY <1>3, <1>4, <2>1, <2>2 DEF TokensAt
  <2>4. CommentsAt(p)' = {}
    BY <1>3, <1>4, <1>7 DEF Token, CommentsAt
  <2>5. l + 1 \in DOMAIN token_list_'
    BY <2>2
  <2> QED BY <2>3, <2>4, <2>5 DEF InOne
<1> QED BY <1>5, <1>6, <1>7 DEF LoopStep

LEMMA LoopKeepsAll ==
    ASSUME TypeOK, Within, NothingLost, LoopStep
    PROVE  NothingLost'
<1> SUFFICES ASSUME result' # "false" PROVE NothingLost'
  BY DEF NothingLost
<1>1. InOrder /\ \A p \in 1..Seen : InOne(p)
  BY NothingLostByName DEF LoopStep
<1>2. InOrder'
  BY <1>1, LoopKeepsOrder
<1>3. \A p \in 1..Seen' : InOne(p)'
  <2> TAKE p \in 1..Seen'
  <2>1. Seen \in Nat /\ Seen' \in Nat
    BY DEF LoopStep
  <2>2. CASE p \in 1..Seen
    <3>1. TokensAt(p)' = TokensAt(p) /\ CommentsAt(p)' = CommentsAt(p) /\ At(p)' = At(p)
      BY <2>2, LoopKeepsOld
    <3>2. comments \subseteq comments' /\ DOMAIN token_list_ \subseteq DOMAIN token_list_'
      BY AppendFacts DEF LoopStep, Blank, Comment, Token, TypeOK
    <3> QED BY <1>1, <2>2, <3>1, <3>2 DEF InOne
  <2>3. CASE p \in Seen + 1..Seen'
    BY <2>3, LoopAddsNew
  <2> QED BY <2>1, <2>2, <2>3
<1>4. InOrder' /\ (\A p \in 1..Seen : InOne(p))'
  BY <1>2, <1>3
<1>5. (InOrder /\ \A p \in 1..Seen : InOne(p))' => NothingLost'
  BY DEF NothingLost, InOrder, InOne, TokensAt, CommentsAt
<1> QED BY <1>4, <1>5

-----------------------------------------------------------------------------
(* Comments *)

LineListed(c) ==
    /\ At(c.from) = "#" \/ (At(c.from) = "/" /\ At(c.from + 1) = "/")
    /\ \A p \in c.from..c.to - 2 : At(p) # "\n"
    /\ At(c.to - 1) = "\n" \/ c.to = n + 1

BlockListed(c) ==
    /\ At(c.from) = "/" /\ At(c.from + 1) = "*" /\ c.from + 4 <= c.to
    /\ \A p \in c.from + 2..c.to - 2 : EndsBlock(p) <=> p = c.to - 2

LEMMA LineIsListed ==
    ASSUME TypeOK, Running, IsLineComment
    PROVE  LineListed([from |-> s_itr_, to |-> LineEnd])
<1>1. n \in Nat /\ s_itr_ \in 1..n
  BY RunningSeen
<1>2. At(s_itr_) = "#" \/ (At(s_itr_) = "/" /\ At(s_itr_ + 1) = "/")
  BY DEF IsLineComment
<1>3. \A p \in s_itr_..LineStart - 1 : At(p) # "\n"
  <2> TAKE p \in s_itr_..LineStart - 1
  <2>1. CASE At(s_itr_) = "#"
    <3>1. p = s_itr_
      BY <1>1, <2>1 DEF LineStart
    <3> QED BY <2>1, <3>1
  <2>2. CASE At(s_itr_) # "#"
    <3>1. p = s_itr_ \/ p = s_itr_ + 1
      BY <1>1, <2>2 DEF LineStart
    <3> QED BY <1>2, <2>2, <3>1
  <2> QED BY <2>1, <2>2
<1>4. /\ LineLast \in LineStart..n + 1 /\ LineStart \in Nat
      /\ \A k \in LineStart..n : At(k) = "\n" => LineLast <= k
      /\ LineLast <= n => At(LineLast) = "\n"
  BY <1>1, LineLands DEF LineStart
<1>5. \A p \in s_itr_..LineLast - 1 : At(p) # "\n"
  <2> SUFFICES ASSUME NEW p \in s_itr_..LineLast - 1, ~(p <= LineStart - 1) PROVE At(p) # "\n"
    BY <1>1, <1>3, <1>4
  <2>1. p \in LineStart..n /\ ~(LineLast <= p)
    BY <1>1, <1>4
  <2> QED BY <1>4, <2>1
<1>6. CASE LineLast <= n
  <2>1. LineEnd = LineLast + 1 /\ LineEnd - 1 = LineLast /\ LineEnd - 2 = LineLast - 1
    BY <1>1, <1>4, <1>6 DEF LineEnd
  <2> QED BY <1>2, <1>4, <1>5, <1>6, <2>1 DEF LineListed
<1>7. CASE ~(LineLast <= n)
  <2>1. LineLast = n + 1 /\ LineEnd = n + 1
    BY <1>1, <1>4, <1>7 DEF LineEnd
  <2>2. s_itr_..LineEnd - 2 \subseteq s_itr_..LineLast - 1
    BY <1>1, <2>1
  <2> QED BY <1>2, <1>5, <2>1, <2>2 DEF LineListed
<1> QED BY <1>6, <1>7

LEMMA BlockIsListed ==
    ASSUME TypeOK, Running, IsBlockComment, BlockLast <= n
    PROVE  BlockListed([from |-> s_itr_, to |-> BlockLast + 2])
<1>1. n \in Nat /\ s_itr_ \in 1..n
  BY RunningSeen
<1>2. /\ BlockLast \in s_itr_ + 2..n
      /\ \A k \in s_itr_ + 2..n : EndsBlock(k) => BlockLast <= k
      /\ EndsBlock(BlockLast)
  BY <1>1, BlockLands
<1>3. \A p \in s_itr_ + 2..BlockLast : EndsBlock(p) <=> p = BlockLast
  <2> TAKE p \in s_itr_ + 2..BlockLast
  <2>1. p \in s_itr_ + 2..n
    BY <1>1, <1>2
  <2> QED BY <1>1, <1>2, <2>1
<1>4. PICK to : to = BlockLast + 2
  OBVIOUS
<1>5. to - 2 = BlockLast /\ s_itr_ + 4 <= to
  BY <1>1, <1>2, <1>4
<1>6. BlockListed([from |-> s_itr_, to |-> to])
  BY <1>3, <1>5 DEF BlockListed, IsBlockComment
<1> QED BY <1>4, <1>6

LEMMA CommentsInvariant ==
    ASSUME TypeOK, CommentsAsListed, Next
    PROVE  CommentsAsListed'
<1> DEFINE Listed(c) == LineListed(c) \/ BlockListed(c)
<1>1. \A c \in comments : Listed(c)
  BY DEF CommentsAsListed, LineListed, BlockListed
<1>2. \A c \in comments' : Listed(c)
  <2>1. CASE comments' = comments
    BY <1>1, <2>1
  <2>2. CASE skip_comments_line
    <3>1. comments' = comments \cup {[from |-> s_itr_, to |-> LineEnd]} /\ Running /\ IsLineComment
      BY <2>2 DEF skip_comments_line, LineEnd, LineLast, LineStart
    <3> QED BY <1>1, <3>1, LineIsListed
  <2>3. CASE skip_comments_block /\ ~(BlockLast > n)
    <3>1. /\ comments' = comments \cup {[from |-> s_itr_, to |-> BlockLast + 2]}
          /\ Running /\ IsBlockComment
      BY <2>3 DEF skip_comments_block, BlockLast
    <3>2. BlockLast <= n
      BY <2>3, <3>1, BlockLands, LengthIsNat
    <3> QED BY <1>1, <3>1, <3>2, BlockIsListed
  <2>4. CASE ~skip_comments_line /\ ~(skip_comments_block /\ ~(BlockLast > n))
    <3>1. comments' = comments
      BY <2>4 DEF Next, Emit, skip_whitespace, skip_comments_block, BlockLast, scan_operator, scan_symbol,
                  scan_number, scan_special_function, scan_string_open, scan_string_next,
                  scan_string_close, scan_string_error, scan_tilde, scan_error, process_done
    <3> QED BY <2>1, <3>1
  <2> QED BY <2>2, <2>3, <2>4
<1>3. UNCHANGED text
  BY DEF Next, Emit, skip_whitespace, skip_comments_line, skip_comments_block, scan_operator, scan_symbol,
         scan_number, scan_special_function, scan_string_open, scan_string_next,
         scan_string_close, scan_string_error, scan_tilde, scan_error, process_done
<1>4. (\A c \in comments : Listed(c))'
  BY <1>2, <1>3 DEF LineListed, BlockListed, EndsBlock, At, n
<1> QED BY <1>4 DEF CommentsAsListed, LineListed, BlockListed

\* What the loops keep, for NothingLost.
IInv == TypeOK /\ StringOpened /\ Within /\ NothingLost

-----------------------------------------------------------------------------
(* Where a token ends *)

OperatorWhole(t) ==
    /\ t.from < t.to /\ t.to <= n + 1
    /\ At(t.from) \in OperatorChars => t.to = t.from + OperatorLength(t.from)

SymbolWhole(t) ==
    At(t.from) \in Letters =>
        /\ At(t.to) \notin NameChars
        /\ \A p \in t.from..t.to - 1 :
              At(p) \in NameChars \/ (At(p) = "." /\ (At(p + 1) \in NameChars \/ p = n))

NumberWhole(t) ==
    /\ At(t.to) \notin Digits \cup {"."}
    /\ At(t.from) \in Digits \/ (At(t.from) = "." /\ At(t.from + 1) \in Digits)
    /\ \A p, q \in t.from..t.to - 1 :
          /\ At(p) = "." /\ At(q) = "." => p = q
          /\ At(p) \in Signs /\ At(q) \in Signs => p = q
          /\ At(p) \in Signs => At(p - 1) \in Es
          /\ At(p) \in Es => At(p + 1) \in Signs \cup Digits

StringWhole(t) ==
    /\ t.from <= t.to
    /\ At(t.from - 1) = "'" /\ At(t.to) = "'"
    /\ Backslashes(t.to) % 2 = 0
    /\ \A p \in t.from..t.to - 1 : At(p) = "'" => Backslashes(p) % 2 = 1

\* What each token is by itself; no error token is any of it.
Whole(t) ==
    /\ ~IsError(t) /\ t.type # "string" => OperatorWhole(t)
    /\ t.type = "symbol" => SymbolWhole(t)
    /\ t.type = "number" => NumberWhole(t)
    /\ t.type = "string" => StringWhole(t)

WholeTokens == \A i \in DOMAIN token_list_ : Whole(token_list_[i])

\* A string that began at i and goes on at j: e says whether the backslashes before j are odd.
SoFar(i, j, e) ==
    /\ At(i - 1) = "'"
    /\ e <=> Backslashes(j) % 2 = 1
    /\ \A p \in i..j - 1 : At(p) = "'" => Backslashes(p) % 2 = 1

StringSoFar == initial_itr # 0 => SoFar(initial_itr, s_itr_, escaped)

\* LongestTokens of two tokens.
Apart(v, w) ==
    v.to = w.from /\ ~IsError(w) =>
        /\ Value(v) \o Value(w) \notin Operators2 \cup Operators3
        /\ v.type = "symbol" /\ At(v.from) \in Letters => At(w.from) \notin NameChars
        /\ v.type = "number" => At(w.from) \notin Digits \cup {"."}

\* The backslashes before a position are k.
IsRun(p, k) ==
    /\ k \in 0..p - 1
    /\ \A j \in p - k..p - 1 : At(j) = "\\"
    /\ p - k - 1 >= 1 => At(p - k - 1) # "\\"

LEMMA RunExists == ASSUME NEW p \in Nat \ {0} PROVE \E k \in 0..p - 1 : IsRun(p, k)
<1> DEFINE ends == {k \in 0..p - 1 : k = p - 1 \/ At(p - k - 1) # "\\"}
<1>1. ends \subseteq Nat /\ p - 1 \in ends
  OBVIOUS
<1>2. PICK m \in ends : \A t \in ends : ~(<<t, m>> \in OpToRel(<, Nat))
  <2> HIDE DEF ends
  <2> QED BY <1>1, NatLessThanWellFounded, WFMin
<1>3. \A t \in ends : ~(t < m)
  BY <1>1, <1>2 DEF OpToRel
<1>4. \A j \in p - m..p - 1 : At(j) = "\\"
  <2> TAKE j \in p - m..p - 1
  <2>1. p - j - 1 \in 0..p - 1 /\ p - j - 1 < m /\ p - (p - j - 1) - 1 = j /\ p - j - 1 # p - 1
    OBVIOUS
  <2>2. p - j - 1 \notin ends
    BY <1>3, <2>1
  <2> QED BY <2>1, <2>2
<1> QED BY <1>4 DEF IsRun

LEMMA RunIsOne == ASSUME NEW p \in Nat \ {0}, NEW k, NEW l, IsRun(p, k), IsRun(p, l) PROVE k = l
<1> SUFFICES ASSUME NEW a \in 0..p - 1, NEW b \in 0..p - 1, IsRun(p, a), IsRun(p, b), a < b PROVE FALSE
  <2>1. k \in 0..p - 1 /\ l \in 0..p - 1
    BY DEF IsRun
  <2> QED BY <2>1
<1>1. p - a - 1 >= 1 /\ p - a - 1 \in p - b..p - 1
  OBVIOUS
<1> QED BY <1>1 DEF IsRun

LEMMA BackslashesAre ==
    ASSUME NEW p \in Nat \ {0}
    PROVE  IsRun(p, Backslashes(p)) /\ \A k : IsRun(p, k) => Backslashes(p) = k
<1>1. PICK k \in 0..p - 1 : IsRun(p, k)
  BY RunExists
<1>2. IsRun(p, Backslashes(p))
  BY <1>1 DEF Backslashes, IsRun
<1> QED BY <1>2, RunIsOne

\* One character on: one more of them, or none.
LEMMA BackslashesNext ==
    ASSUME NEW p \in Nat \ {0}
    PROVE  /\ Backslashes(p) \in Nat
           /\ At(p) = "\\" => Backslashes(p + 1) = Backslashes(p) + 1
           /\ At(p) # "\\" => Backslashes(p + 1) = 0
<1>1. IsRun(p, Backslashes(p)) /\ p + 1 \in Nat \ {0}
  BY BackslashesAre
<1>2. PICK k \in 0..p - 1 : k = Backslashes(p) /\ IsRun(p, k)
  BY <1>1 DEF IsRun
<1>3. ASSUME At(p) = "\\" PROVE IsRun(p + 1, k + 1)
  <2>1. \A j \in p - k..p : At(j) = "\\"
    <3> TAKE j \in p - k..p
    <3>1. j \in p - k..p - 1 \/ j = p
      OBVIOUS
    <3> QED BY <1>2, <1>3, <3>1 DEF IsRun
  <2>2. p + 1 - (k + 1) = p - k /\ p + 1 - 1 = p /\ p + 1 - (k + 1) - 1 = p - k - 1 /\ k + 1 \in 0..p + 1 - 1
    OBVIOUS
  <2> QED BY <1>2, <2>1, <2>2 DEF IsRun
<1>4. ASSUME At(p) # "\\" PROVE IsRun(p + 1, 0)
  <2>1. 0 \in 0..p + 1 - 1 /\ p + 1 - 0 - 1 = p /\ p + 1 - 0..p + 1 - 1 = {}
    OBVIOUS
  <2> QED BY <1>4, <2>1 DEF IsRun
<1> QED BY <1>1, <1>2, <1>3, <1>4, BackslashesAre

LEMMA OddEven ==
    ASSUME NEW k \in Nat
    PROVE  /\ k % 2 = 0 \/ k % 2 = 1
           /\ k % 2 = 1 <=> (k + 1) % 2 = 0
           /\ k % 2 = 0 <=> (k + 1) % 2 = 1
OBVIOUS

LEMMA TextStays ==
    ASSUME UNCHANGED text, NEW p
    PROVE  At(p)' = At(p) /\ Backslashes(p)' = Backslashes(p)
<1>1. n' = n
  BY DEF n
<1>2. \A q : At(q)' = At(q)
  BY <1>1 DEF At
<1>3. Backslashes(p)' = Backslashes(p)
  BY <1>2 DEF Backslashes
<1> QED BY <1>2, <1>3

LEMMA SoFarStays ==
    ASSUME UNCHANGED text, NEW i, NEW j, NEW e
    PROVE  SoFar(i, j, e)' <=> SoFar(i, j, e)
BY TextStays DEF SoFar

LEMMA WholeStays ==
    ASSUME UNCHANGED text, NEW t
    PROVE  Whole(t)' <=> Whole(t)
<1>1. \A p : At(p)' = At(p) /\ Backslashes(p)' = Backslashes(p)
  BY TextStays
<1>2. OperatorLength(t.from)' = OperatorLength(t.from)
  BY <1>1 DEF OperatorLength
<1>3. /\ OperatorWhole(t)' <=> OperatorWhole(t)
      /\ SymbolWhole(t)' <=> SymbolWhole(t)
  BY <1>1, <1>2 DEF OperatorWhole, SymbolWhole, n
<1>4. NumberWhole(t)' <=> NumberWhole(t)
  BY <1>1 DEF NumberWhole
<1>5. StringWhole(t)' <=> StringWhole(t)
  BY <1>1 DEF StringWhole
<1> QED BY <1>3, <1>4, <1>5 DEF Whole, IsError

LEMMA StringBegins ==
    ASSUME TypeOK, Running, At(s_itr_) = "'"
    PROVE  SoFar(s_itr_ + 1, s_itr_ + 1, FALSE)
<1>1. s_itr_ \in Nat \ {0} /\ s_itr_ + 1 - 1 = s_itr_ /\ s_itr_ + 1..s_itr_ + 1 - 1 = {}
  BY RunningSeen
<1>2. Backslashes(s_itr_ + 1) = 0
  BY <1>1, BackslashesNext
<1> QED BY <1>1, <1>2, OddEven DEF SoFar

\* The next character of a string, which does not close it; the hexadecimal digits of an
\* escape are no backslashes and no quotes.
LEMMA StringGoesOn ==
    ASSUME TypeOK, StringOpened, StringSoFar, scan_string_next
    PROVE  SoFar(initial_itr, s_itr_', escaped')
<1>1. n \in Nat /\ s_itr_ \in Nat \ {0} /\ initial_itr \in 2..s_itr_ /\ escaped \in BOOLEAN
  BY InStringSeen DEF scan_string_next, TypeOK
<1>2. SoFar(initial_itr, s_itr_, escaped)
  BY DEF StringSoFar, scan_string_next, InString
<1>3. /\ escaped' = (~escaped /\ At(s_itr_) = "\\")
      /\ s_itr_' = s_itr_ + IF escaped /\ HexEscape(s_itr_) THEN 4 ELSE 1
      /\ ~IsBadHex /\ ~Closes
  BY DEF scan_string_next
<1>4. At(s_itr_) = "'" => Backslashes(s_itr_) % 2 = 1
  BY <1>2, <1>3 DEF SoFar, Closes
<1>5. CASE escaped /\ HexEscape(s_itr_)
  <2>1. At(s_itr_) = "0" /\ HexEscapeOK(s_itr_) /\ s_itr_' = s_itr_ + 4 /\ ~escaped'
    BY <1>3, <1>5 DEF IsBadHex, HexEscape
  <2>2. \A q \in s_itr_..s_itr_ + 3 : At(q) # "'" /\ At(q) # "\\"
    <3> TAKE q \in s_itr_..s_itr_ + 3
    <3>1. q \in {s_itr_, s_itr_ + 1, s_itr_ + 2, s_itr_ + 3}
      BY <1>1
    <3> QED BY <2>1, <3>1 DEF HexEscapeOK, HexDigits, Digits
  <2>3. s_itr_ + 3 \in Nat \ {0} /\ s_itr_ + 3 + 1 = s_itr_ + 4 /\ s_itr_ + 3 \in s_itr_..s_itr_ + 3
    BY <1>1
  <2>4. Backslashes(s_itr_ + 4) = 0
    BY <2>2, <2>3, BackslashesNext
  <2>5. \A q \in initial_itr..s_itr_' - 1 : q \in initial_itr..s_itr_ - 1 \/ q \in s_itr_..s_itr_ + 3
    BY <1>1, <2>1
  <2> QED BY <1>2, <2>1, <2>2, <2>4, <2>5, OddEven DEF SoFar
<1>6. CASE ~(escaped /\ HexEscape(s_itr_))
  <2>1. s_itr_' = s_itr_ + 1
    BY <1>3, <1>6
  <2>2. \A q \in initial_itr..s_itr_' - 1 : q \in initial_itr..s_itr_ - 1 \/ q = s_itr_
    BY <1>1, <2>1
  <2>3. \A q \in initial_itr..s_itr_' - 1 : At(q) = "'" => Backslashes(q) % 2 = 1
    BY <1>2, <1>4, <2>2 DEF SoFar
  <2>4. escaped' <=> Backslashes(s_itr_') % 2 = 1
    <3>1. /\ Backslashes(s_itr_) \in Nat
          /\ At(s_itr_) = "\\" => Backslashes(s_itr_') = Backslashes(s_itr_) + 1
          /\ At(s_itr_) # "\\" => Backslashes(s_itr_') = 0
      BY <1>1, <2>1, BackslashesNext
    <3>2. escaped <=> Backslashes(s_itr_) % 2 = 1
      BY <1>2 DEF SoFar
    <3>3. CASE At(s_itr_) = "\\"
      <4>1. Backslashes(s_itr_') % 2 = 1 <=> ~(Backslashes(s_itr_) % 2 = 1)
        BY <3>1, <3>3, OddEven
      <4> QED BY <1>3, <3>2, <3>3, <4>1, Zenon
    <3>4. CASE At(s_itr_) # "\\"
      <4>1. ~(Backslashes(s_itr_') % 2 = 1)
        BY <3>1, <3>4, OddEven
      <4> QED BY <1>3, <3>4, <4>1, Zenon
    <3> QED BY <3>3, <3>4
  <2> QED BY <1>2, <2>3, <2>4 DEF SoFar
<1> QED BY <1>5, <1>6

LEMMA StringIsWhole ==
    ASSUME TypeOK, StringOpened, StringSoFar, scan_string_close
    PROVE  Whole([type |-> "string", from |-> initial_itr, to |-> s_itr_])
<1>1. SoFar(initial_itr, s_itr_, escaped) /\ ~escaped /\ At(s_itr_) = "'"
  BY DEF StringSoFar, scan_string_close, InString, Closes
<1>2. Backslashes(s_itr_) \in Nat
  <2>1. s_itr_ \in Nat \ {0}
    BY InStringSeen DEF scan_string_close
  <2> QED BY <2>1, BackslashesNext
<1>3. Backslashes(s_itr_) % 2 = 0
  BY <1>1, <1>2, OddEven DEF SoFar
<1>4. initial_itr <= s_itr_
  BY InStringSeen DEF scan_string_close
<1> QED BY <1>1, <1>3, <1>4 DEF SoFar, Whole, StringWhole

LEMMA CharSorts ==
    /\ Letters \cap OperatorChars = {} /\ Digits \cap OperatorChars = {} /\ Letters \cap Digits = {}
    /\ Signs \cap (Digits \cup Es \cup {"."}) = {} /\ Digits \cap Es = {} /\ "." \notin Digits \cup Es
    /\ "NUL" \notin NameChars \cup Digits \cup {"."} /\ "." \notin NameChars /\ "." \notin OperatorChars
    /\ {"$", "~"} \cap (Letters \cup OperatorChars) = {}
BY DEF Letters, OperatorChars, Digits, Signs, Es, NameChars

\* No stop is before the first.
LEMMA NoneBefore ==
    ASSUME TypeOK, Running, NEW stops, stops \subseteq s_itr_..n
    PROVE  \A p \in s_itr_..First(stops) - 1 : p \in s_itr_..n /\ p \notin stops
<1>1. n \in Nat /\ s_itr_ \in 1..n /\ s_itr_ \in Nat
  BY RunningSeen
<1>2. First(stops) \in stops \cup {n + 1} /\ \A k \in stops : First(stops) <= k
  BY <1>1, FirstIsFirst
<1>3. \A k \in stops \cup {n + 1} : k \in Nat /\ k <= n + 1
  <2>1. \A k \in stops : k \in s_itr_..n
    OBVIOUS
  <2> QED BY <1>1, <2>1
<1>4. PICK first \in Nat : first = First(stops) /\ first <= n + 1
  BY <1>2, <1>3
<1> QED BY <1>1, <1>2, <1>4

SymbolEnd == First({j \in s_itr_..n : SymbolStops(j)})

LEMMA SymbolIsWhole ==
    ASSUME TypeOK, Running, At(s_itr_) \in Letters
    PROVE  Whole([type |-> "symbol", from |-> s_itr_, to |-> SymbolEnd])
<1> DEFINE stops == {j \in s_itr_..n : SymbolStops(j)}
<1>1. n \in Nat /\ s_itr_ \in 1..n /\ s_itr_ \in Nat /\ s_itr_ <= s_itr_ /\ s_itr_ <= n
  BY RunningSeen
<1>2. s_itr_ \notin stops /\ stops \subseteq s_itr_..n
  BY SymbolGoesOn
<1>3. First(stops) \in s_itr_ + 1..n + 1 /\ First(stops) \in stops \cup {n + 1}
  <2> HIDE DEF stops
  <2> QED BY <1>1, <1>2, FirstGoesOn, FirstIsFirst
<1>4. PICK to \in s_itr_ + 1..n + 1 : to = SymbolEnd /\ (to \in stops \/ to = n + 1)
  BY <1>3 DEF SymbolEnd
<1>5. s_itr_ < to /\ to <= n + 1
  BY <1>1
<1>6. At(to) \notin NameChars
  BY <1>1, <1>4, CharSorts DEF SymbolStops, At
<1>7. \A p \in s_itr_..to - 1 : p \in s_itr_..n /\ ~SymbolStops(p)
  <2>1. \A p \in s_itr_..First(stops) - 1 : p \in s_itr_..n /\ p \notin stops
    <3> HIDE DEF stops
    <3> QED BY <1>2, NoneBefore
  <2> QED BY <1>4, <2>1 DEF SymbolEnd
<1>8. \A p \in s_itr_..to - 1 : At(p) \in NameChars \/ (At(p) = "." /\ (At(p + 1) \in NameChars \/ p = n))
  <2> TAKE p \in s_itr_..to - 1
  <2>1. At(p) \in NameChars \/ (At(p) = "." /\ (At(p + 1) \in NameChars \/ ~(p < n)))
    BY <1>7 DEF SymbolStops
  <2>2. p \in s_itr_..n
    BY <1>7
  <2> QED BY <1>1, <2>1, <2>2
<1>9. SymbolWhole([type |-> "symbol", from |-> s_itr_, to |-> to])
  BY <1>6, <1>8 DEF SymbolWhole
<1> QED BY <1>4, <1>5, <1>9, CharSorts DEF Whole, OperatorWhole

LEMMA OperatorIsWhole ==
    ASSUME TypeOK, Running, NEW type \in {"operator", "symbol", "eof"},
           At(s_itr_) \in OperatorChars \cup {"."}
    PROVE  Whole([type |-> type, from |-> s_itr_, to |-> s_itr_ + OperatorLength(s_itr_)])
<1>1. n \in Nat /\ s_itr_ \in 1..n /\ s_itr_ <= n
  BY RunningSeen
<1>2. s_itr_ < s_itr_ + OperatorLength(s_itr_) /\ s_itr_ + OperatorLength(s_itr_) <= n + 1
  BY <1>1, OperatorFits
<1>3. At(s_itr_) \notin Letters
  BY CharSorts DEF Letters
<1> QED BY <1>2, <1>3 DEF Whole, OperatorWhole, SymbolWhole

\* $fdd and ~.
LEMMA OtherIsWhole ==
    ASSUME TypeOK, Running, At(s_itr_) \in {"$", "~"}, NEW to, s_itr_ < to, to <= n + 1
    PROVE  Whole([type |-> "symbol", from |-> s_itr_, to |-> to])
BY CharSorts DEF Whole, OperatorWhole, SymbolWhole

NumberEnd == First({j \in s_itr_..n : NumberStops(s_itr_, j)})

\* A dot, an "e" and a sign are each at one place of a number, by the flags of the loop.
LEMMA NumberIsWhole ==
    ASSUME TypeOK, Running, At(s_itr_) \in Digits \/ (At(s_itr_) = "." /\ At(s_itr_ + 1) \in Digits),
           ~(NumberEnd <= n /\ NumberFails(s_itr_, NumberEnd))
    PROVE  Whole([type |-> "number", from |-> s_itr_, to |-> NumberEnd])
<1> DEFINE stops == {j \in s_itr_..n : NumberStops(s_itr_, j)}
<1>1. n \in Nat /\ s_itr_ \in 1..n /\ s_itr_ \in Nat /\ s_itr_ <= s_itr_ /\ s_itr_ <= n
  BY RunningSeen
<1>2. s_itr_ \notin stops /\ stops \subseteq s_itr_..n
  BY <1>1, NumberGoesOn
<1>3. First(stops) \in s_itr_ + 1..n + 1 /\ First(stops) \in stops \cup {n + 1}
  <2> HIDE DEF stops
  <2> QED BY <1>1, <1>2, FirstGoesOn, FirstIsFirst
<1>4. PICK to \in s_itr_ + 1..n + 1 : to = NumberEnd /\ (to \in stops \/ to = n + 1)
  BY <1>3 DEF NumberEnd
<1>5. \A p \in s_itr_..to - 1 : ~NumberStops(s_itr_, p)
  <2>1. \A p \in s_itr_..First(stops) - 1 : p \in s_itr_..n /\ p \notin stops
    <3> HIDE DEF stops
    <3> QED BY <1>2, NoneBefore
  <2> QED BY <1>4, <2>1 DEF NumberEnd
<1>6. At(to) \notin Digits \cup {"."}
  <2>1. CASE to = n + 1
    BY <1>1, <2>1, CharSorts DEF At
  <2>2. CASE to # n + 1
    <3>1. to <= n /\ NumberStops(s_itr_, to) /\ ~NumberFails(s_itr_, to)
      BY <1>1, <1>4, <2>2
    <3> QED BY <3>1 DEF NumberStops
  <2> QED BY <2>1, <2>2
<1>7. ASSUME NEW p \in s_itr_..to - 1, NEW q \in s_itr_..to - 1, At(p) = ".", At(q) = ".", p < q PROVE FALSE
  <2>1. p \in s_itr_..q - 1
    BY <1>1, <1>7
  <2>2. dot_found(s_itr_, q)
    BY <1>7, <2>1 DEF dot_found
  <2> QED BY <1>5, <1>7, <2>2 DEF NumberStops, NumberFails
<1>8. \A p \in s_itr_..to - 1 : At(p) \in Signs => IsExponentSign(s_itr_, p) /\ ~NumberFails(s_itr_, p)
  BY <1>5, CharSorts DEF NumberStops
<1>9. ASSUME NEW p \in s_itr_..to - 1, NEW q \in s_itr_..to - 1, At(p) \in Signs, At(q) \in Signs, p < q PROVE FALSE
  <2>1. p \in s_itr_..q - 1
    BY <1>1, <1>9
  <2>2. post_e_sign_found(s_itr_, q)
    BY <1>9, <2>1 DEF post_e_sign_found
  <2> QED BY <1>8, <1>9, <2>2 DEF NumberFails
<1>10. ASSUME NEW p \in s_itr_..to - 1, At(p) \in Signs PROVE At(p - 1) \in Es
  <2>1. PICK k \in s_itr_..p - 1 : At(k) \in Es
    BY <1>8, <1>10 DEF IsExponentSign, e_found
  <2>2. k \in s_itr_..to - 1 /\ k + 1 \in s_itr_..p /\ k + 1 \in s_itr_..to - 1 /\ k < k + 1
    BY <1>1, <2>1
  <2>3. At(k + 1) \in Signs \cup Digits
    BY <1>5, <2>1, <2>2 DEF NumberStops, NumberFails
  <2>4. CASE k + 1 = p
    BY <1>1, <2>1, <2>4
  <2>5. CASE k + 1 # p
    <3>1. k + 1 \in s_itr_..p - 1 /\ k + 1 < p
      BY <1>1, <2>1, <2>5
    <3>2. At(k + 1) \notin Digits
      BY <1>8, <1>10, <2>1, <2>2, <3>1 DEF IsExponentSign, post_e_digit_found
    <3> QED BY <1>9, <1>10, <2>2, <2>3, <3>1, <3>2
  <2> QED BY <2>4, <2>5
<1>11. \A p \in s_itr_..to - 1 : At(p) \in Es => At(p + 1) \in Signs \cup Digits
  BY <1>5 DEF NumberStops, NumberFails
<1>12. NumberWhole([type |-> "number", from |-> s_itr_, to |-> to])
  <2>1. \A p, q \in s_itr_..to - 1 : p < q \/ q < p \/ p = q
    BY <1>1
  <2>2. \A p, q \in s_itr_..to - 1 : (At(p) = "." /\ At(q) = "." => p = q) /\ (At(p) \in Signs /\ At(q) \in Signs => p = q)
    BY <1>7, <1>9, <2>1
  <2> QED BY <1>6, <1>10, <1>11, <2>2 DEF NumberWhole
<1>13. s_itr_ < to /\ to <= n + 1 /\ At(s_itr_) \notin OperatorChars
  BY <1>1, CharSorts
<1> QED BY <1>4, <1>12, <1>13 DEF Whole, OperatorWhole

LEMMA ErrorIsWhole ==
    ASSUME NEW type \in {"error", "err_symbol", "err_number", "err_string", "err_sfunc"}, NEW from, NEW to
    PROVE  Whole([type |-> type, from |-> from, to |-> to])
BY DEF Whole, IsError

\* What a turn appends is whole by itself, and ends the loop if it is an error.
Appends(t) == Whole(t) /\ token_list_' = Append(token_list_, t) /\ (IsError(t) <=> result' = "false")

LEMMA EmitAppends ==
    ASSUME NEW type, NEW from, NEW to, NEW next, Emit(type, from, to, next),
           Whole([type |-> type, from |-> from, to |-> to])
    PROVE  \E t : Appends(t)
<1> DEFINE token == [type |-> type, from |-> from, to |-> to]
<1>1. token_list_' = Append(token_list_, token) /\ (IsError(token) <=> result' = "false")
  BY DEF Emit
<1> HIDE DEF token
<1> QED BY <1>1 DEF Appends, token

LEMMA ScanAppends ==
    ASSUME TypeOK,
           scan_operator \/ scan_symbol \/ scan_number \/ scan_special_function \/ scan_tilde \/ scan_error
    PROVE  \E t : Appends(t)
<1>0. Running
  BY DEF scan_operator, scan_symbol, scan_number, scan_special_function, scan_tilde, scan_error
<1>1. n \in Nat /\ s_itr_ \in 1..n
  BY <1>0, RunningSeen
<1>2. CASE scan_operator
  <2>1. PICK type \in {"eof", "symbol", "operator"} :
            Emit(type, s_itr_, s_itr_ + OperatorLength(s_itr_), s_itr_ + OperatorLength(s_itr_))
    BY <1>2 DEF scan_operator
  <2>2. At(s_itr_) \in OperatorChars \cup {"."}
    BY <1>2 DEF scan_operator
  <2> QED BY <1>0, <2>1, <2>2, OperatorIsWhole, EmitAppends
<1>3. CASE scan_symbol
  <2>1. Emit("symbol", s_itr_, SymbolEnd, SymbolEnd) /\ At(s_itr_) \in Letters
    BY <1>3 DEF scan_symbol, SymbolEnd
  <2> QED BY <1>0, <2>1, SymbolIsWhole, EmitAppends
<1>4. CASE scan_number
  <2>1. At(s_itr_) \in Digits \/ (At(s_itr_) = "." /\ At(s_itr_ + 1) \in Digits)
    BY <1>4 DEF scan_number
  <2>2. CASE NumberEnd <= n /\ NumberFails(s_itr_, NumberEnd)
    <3>1. Emit("err_number", s_itr_, NumberEnd, NumberEnd)
      BY <1>4, <2>2 DEF scan_number, NumberEnd
    <3> QED BY <3>1, ErrorIsWhole, EmitAppends
  <2>3. CASE ~(NumberEnd <= n /\ NumberFails(s_itr_, NumberEnd))
    <3>1. Emit("number", s_itr_, NumberEnd, NumberEnd)
      BY <1>4, <2>3 DEF scan_number, NumberEnd
    <3> QED BY <1>0, <2>1, <2>3, <3>1, NumberIsWhole, EmitAppends
  <2> QED BY <2>2, <2>3
<1>5. CASE scan_special_function
  <2>1. CASE Emit("symbol", s_itr_, s_itr_ + 4, s_itr_ + 4) /\ ~(n + 1 - s_itr_ < 11)
    <3>1. s_itr_ < s_itr_ + 4 /\ s_itr_ + 4 <= n + 1 /\ At(s_itr_) \in {"$", "~"}
      BY <1>1, <1>5, <2>1 DEF scan_special_function
    <3> QED BY <1>0, <2>1, <3>1, OtherIsWhole, EmitAppends
  <2>2. ASSUME NEW to, Emit("err_sfunc", s_itr_, to, s_itr_) PROVE \E t : Appends(t)
    BY <2>2, ErrorIsWhole, EmitAppends
  <2> QED BY <1>5, <2>1, <2>2 DEF scan_special_function
<1>6. CASE scan_tilde
  <2>1. s_itr_ < s_itr_ + 1 /\ s_itr_ + 1 <= n + 1 /\ At(s_itr_) \in {"$", "~"}
    BY <1>1, <1>6 DEF scan_tilde
  <2>2. Emit("symbol", s_itr_, s_itr_ + 1, s_itr_ + 1)
    BY <1>6 DEF scan_tilde
  <2> QED BY <1>0, <2>1, <2>2, OtherIsWhole, EmitAppends
<1>7. CASE scan_error
  BY <1>7, ErrorIsWhole, EmitAppends DEF scan_error
<1> QED BY <1>2, <1>3, <1>4, <1>5, <1>6, <1>7

LEMMA StepAppends ==
    ASSUME TypeOK, StringOpened, StringSoFar, Next
    PROVE  UNCHANGED text /\ ((UNCHANGED token_list_ /\ result' # "false") \/ \E t : Appends(t))
<1>1. UNCHANGED text
  BY DEF Next, Emit, skip_whitespace, skip_comments_line, skip_comments_block, scan_operator, scan_symbol,
         scan_number, scan_special_function, scan_string_open, scan_string_next,
         scan_string_close, scan_string_error, scan_tilde, scan_error, process_done
<1>2. CASE scan_operator \/ scan_symbol \/ scan_number \/ scan_special_function \/ scan_tilde \/ scan_error
  BY <1>1, <1>2, ScanAppends
<1>3. CASE scan_string_close
  <2>1. Emit("string", initial_itr, s_itr_, s_itr_ + 1)
    BY <1>3 DEF scan_string_close
  <2> QED BY <1>1, <1>3, <2>1, StringIsWhole, EmitAppends
<1>4. CASE scan_string_error
  BY <1>1, <1>4, ErrorIsWhole, EmitAppends DEF scan_string_error
<1>5. CASE scan_string_open
  BY <1>1, <1>5, ErrorIsWhole, EmitAppends DEF scan_string_open, Running
<1>6. CASE skip_comments_block
  BY <1>1, <1>6, ErrorIsWhole, EmitAppends DEF skip_comments_block, Running
<1>7. CASE skip_whitespace \/ skip_comments_line \/ scan_string_next \/ process_done
  BY <1>1, <1>7 DEF skip_whitespace, skip_comments_line, scan_string_next, process_done, Running, InString
<1> QED BY <1>2, <1>3, <1>4, <1>5, <1>6, <1>7 DEF Next

LEMMA SoFarNext ==
    ASSUME TypeOK, StringOpened, StringSoFar, Next
    PROVE  StringSoFar'
<1>1. UNCHANGED text
  BY StepAppends
<1>2. CASE initial_itr' = 0
  BY <1>2 DEF StringSoFar
<1>3. CASE scan_string_next
  <2>1. initial_itr' = initial_itr
    BY <1>3 DEF scan_string_next
  <2>2. SoFar(initial_itr', s_itr_', escaped')
    BY <1>3, <2>1, StringGoesOn
  <2>3. PICK i, j, e : i = initial_itr' /\ j = s_itr_' /\ e = escaped'
    OBVIOUS
  <2>4. SoFar(i, j, e)'
    BY <1>1, <2>2, <2>3, SoFarStays
  <2> QED BY <2>3, <2>4 DEF StringSoFar, SoFar
<1>4. CASE scan_string_open /\ initial_itr' # 0
  <2>1. initial_itr' = s_itr_ + 1 /\ s_itr_' = s_itr_ + 1 /\ escaped' = FALSE /\ Running /\ At(s_itr_) = "'"
    BY <1>4 DEF scan_string_open, Emit
  <2>2. SoFar(initial_itr', s_itr_', escaped')
    BY <2>1, StringBegins
  <2>3. PICK i, j, e : i = initial_itr' /\ j = s_itr_' /\ e = escaped'
    OBVIOUS
  <2>4. SoFar(i, j, e)'
    BY <1>1, <2>2, <2>3, SoFarStays
  <2> QED BY <2>3, <2>4 DEF StringSoFar, SoFar
<1>5. CASE ~scan_string_next /\ ~scan_string_open
  <2>1. initial_itr' = 0
    BY <1>5 DEF Next, Emit, skip_whitespace, skip_comments_line, skip_comments_block, scan_operator, scan_symbol,
         scan_number, scan_special_function, scan_string_close, scan_string_error, scan_tilde, scan_error,
         process_done, Running, string_
  <2> QED BY <1>2, <2>1
<1> QED BY <1>2, <1>3, <1>4, <1>5

LEMMA OperatorsAre ==
    /\ \A x \in Operators2 : \E c, d : c \in OperatorChars /\ x = <<c, d>>
    /\ \A x \in Operators3 : \E c, d, e : c \in OperatorChars /\ x = <<c, d, e>>
<1>1. {"<", ">", "!", "=", ":", "+", "-", "*", "/", "%"} \subseteq OperatorChars
  BY DEF OperatorChars
<1>2. \A x \in Operators2 :
          \E c \in {"<", ">", "!", "=", ":", "+", "-", "*", "/", "%"}, d \in {"=", ">", "<"} : x = <<c, d>>
  BY DEF Operators2
<1>3. \A x \in Operators3 : x = <<"<", "=", ">">>
  BY DEF Operators3
<1>4. \A x \in Operators2 : \E c, d : c \in OperatorChars /\ x = <<c, d>>
  BY <1>1, <1>2, Zenon
<1>5. \A x \in Operators3 : \E c, d, e : c \in OperatorChars /\ x = <<c, d, e>>
  BY <1>1, <1>3
<1> QED BY <1>4, <1>5

\* Two tokens one behind the other, whole by themselves.
LEMMA WholeApart ==
    ASSUME TypeOK, NEW v, NEW w,
           v.from \in Nat \ {0}, v.to \in Nat, w.from \in Nat \ {0}, w.to \in Nat, ~IsError(v), Whole(v), Whole(w),
           ~IsError(w) => \A p \in Extent(v), q \in Extent(w) : p < q
    PROVE  Apart(v, w)
<1> SUFFICES ASSUME v.to = w.from, ~IsError(w) PROVE Apart(v, w)
  BY DEF Apart
<1>1. n \in Nat /\ text \in Seq(STRING) /\ n = Len(text)
  BY TextsAssumption, LengthIsNat DEF TypeOK, n
<1>2. v.type # "string"
  <2> SUFFICES ASSUME v.type = "string" PROVE FALSE
    OBVIOUS
  <2>1. v.to \in Extent(v)
    BY DEF Extent, Whole, StringWhole
  <2>2. w.from \in Extent(w)
    BY DEF Extent, Whole, StringWhole, OperatorWhole
  <2> QED BY <2>1, <2>2
<1>3. v.from < v.to /\ v.to <= n + 1 /\ (At(v.from) \in OperatorChars => v.to = v.from + OperatorLength(v.from))
  BY <1>2 DEF Whole, OperatorWhole
<1>4. w.type # "string"
  <2> SUFFICES ASSUME w.type = "string" PROVE FALSE
    OBVIOUS
  <2>1. v.to - 1 \in Extent(v)
    BY <1>2, <1>3 DEF Extent
  <2>2. w.from - 1 \in Extent(w)
    BY DEF Extent, Whole, StringWhole
  <2>3. v.to - 1 < w.from - 1
    BY <2>1, <2>2
  <2> QED BY <2>3
<1>5. w.from < w.to /\ w.to <= n + 1
  BY <1>4 DEF Whole, OperatorWhole
<1>6. /\ Len(Value(v) \o Value(w)) = w.to - v.from
      /\ (Value(v) \o Value(w))[1] = At(v.from)
      /\ 2 <= w.to - v.from => (Value(v) \o Value(w))[2] = At(v.from + 1)
      /\ 3 <= w.to - v.from => (Value(v) \o Value(w))[3] = At(v.from + 2)
  <2>1. /\ Value(v) \in Seq(STRING) /\ Len(Value(v)) = v.to - v.from
        /\ \A k \in 1..v.to - v.from : Value(v)[k] = At(v.from + k - 1)
    BY <1>1, <1>3 DEF Value, At
  <2>2. /\ Value(w) \in Seq(STRING) /\ Len(Value(w)) = w.to - w.from
        /\ \A k \in 1..w.to - w.from : Value(w)[k] = At(w.from + k - 1)
    BY <1>1, <1>5 DEF Value, At
  <2>3. PICK x, y : x = Value(v) /\ y = Value(w)
    OBVIOUS
  <2>4. /\ Len(x \o y) = w.to - v.from
        /\ \A k \in 1..w.to - v.from : (x \o y)[k] = At(v.from + k - 1)
    <3>1. Len(x \o y) = Len(x) + Len(y)
      BY <2>1, <2>2, <2>3
    <3>2. \A k \in 1..w.to - v.from : (x \o y)[k] = IF k <= Len(x) THEN x[k] ELSE y[k - Len(x)]
      BY <1>3, <1>5, <2>1, <2>2, <2>3
    <3>3. ASSUME NEW k \in 1..w.to - v.from PROVE (x \o y)[k] = At(v.from + k - 1)
      <4>1. CASE k <= Len(x)
        BY <1>3, <1>5, <2>1, <2>3, <3>2, <4>1
      <4>2. CASE ~(k <= Len(x))
        <5>1. k - Len(x) \in 1..w.to - w.from /\ w.from + (k - Len(x)) - 1 = v.from + k - 1
          <6>1. Len(x) = v.to - v.from /\ v.to = w.from /\ k \in Nat /\ k <= w.to - v.from
            BY <1>3, <1>5, <2>1, <2>3
          <6> QED BY <4>2, <6>1
        <5> QED BY <2>2, <2>3, <3>2, <4>2, <5>1
      <4> QED BY <4>1, <4>2
    <3> QED BY <1>3, <1>5, <2>1, <2>2, <2>3, <3>1, <3>3
  <2>5. /\ v.from + 1 - 1 = v.from /\ v.from + 2 - 1 = v.from + 1 /\ v.from + 3 - 1 = v.from + 2
        /\ 1 \in 1..w.to - v.from
        /\ 2 <= w.to - v.from => 2 \in 1..w.to - v.from
        /\ 3 <= w.to - v.from => 3 \in 1..w.to - v.from
    BY <1>3, <1>5
  <2> QED BY <2>3, <2>4, <2>5
<1>7. Value(v) \o Value(w) \notin Operators2
  <2> SUFFICES ASSUME Value(v) \o Value(w) \in Operators2 PROVE FALSE
    OBVIOUS
  <2>1. PICK c, d : c \in OperatorChars /\ Value(v) \o Value(w) = <<c, d>>
    BY OperatorsAre
  <2>2. w.to - v.from = 2 /\ At(v.from) = c /\ At(v.from + 1) = d
    BY <1>3, <1>5, <1>6, <2>1
  <2>3. <<At(v.from), At(v.from + 1)>> \in Operators2 /\ At(v.from) \in OperatorChars /\ w.to = v.from + 2
    <3>1. <<c, d>> \in Operators2
      BY <2>1
    <3>2. w.to = v.from + 2
      BY <1>3, <1>5, <2>2
    <3> QED BY <2>1, <2>2, <3>1, <3>2
  <2>4. OperatorLength(v.from) \in {2, 3}
    BY <2>3 DEF OperatorLength
  <2> QED BY <1>3, <1>5, <2>3, <2>4
<1>8. Value(v) \o Value(w) \notin Operators3
  <2> SUFFICES ASSUME Value(v) \o Value(w) \in Operators3 PROVE FALSE
    OBVIOUS
  <2>1. PICK c, d, e : c \in OperatorChars /\ Value(v) \o Value(w) = <<c, d, e>>
    BY OperatorsAre
  <2>2. w.to - v.from = 3 /\ At(v.from) = c /\ At(v.from + 1) = d /\ At(v.from + 2) = e
    BY <1>3, <1>5, <1>6, <2>1
  <2>3. <<At(v.from), At(v.from + 1), At(v.from + 2)>> \in Operators3 /\ At(v.from) \in OperatorChars /\ w.to = v.from + 3
    BY <1>3, <1>5, <2>1, <2>2
  <2>4. OperatorLength(v.from) = 3
    BY <2>3 DEF OperatorLength
  <2> QED BY <1>3, <1>5, <2>3, <2>4
<1>9. /\ v.type = "symbol" /\ At(v.from) \in Letters => At(w.from) \notin NameChars
      /\ v.type = "number" => At(w.from) \notin Digits \cup {"."}
  BY DEF Whole, SymbolWhole, NumberWhole
<1> QED BY <1>7, <1>8, <1>9 DEF Apart

LEMMA ApartStays ==
    ASSUME UNCHANGED text, NEW v, NEW w
    PROVE  Apart(v, w)' <=> Apart(v, w)
<1>1. \A p : At(p)' = At(p)
  BY TextStays
<1> QED BY <1>1 DEF Apart, Value, IsError

\* While the loop goes on no token is an error.
NoneFailed == result # "false" => \A i \in DOMAIN token_list_ : ~IsError(token_list_[i])

\* What the loops of process and scan_string keep, for TokensAreWhole.
WholeInv == WholeTokens /\ NoneFailed /\ StringSoFar /\ LongestTokens

LEMMA WholeByParts ==
    /\ LongestTokens <=> \A i \in 1..Len(token_list_) - 1 : Apart(token_list_[i], token_list_[i + 1])
    /\ WholeTokens => SymbolsAreNames /\ NumbersAreOne /\ StringsEndUnescaped
<1>1. LongestTokens <=> \A i \in 1..Len(token_list_) - 1 : Apart(token_list_[i], token_list_[i + 1])
  BY DEF LongestTokens, Apart
<1>2. WholeTokens => NumbersAreOne
  BY DEF WholeTokens, Whole, NumberWhole, NumbersAreOne
<1>3. WholeTokens => StringsEndUnescaped
  BY DEF WholeTokens, Whole, StringWhole, StringsEndUnescaped
<1>4. WholeTokens => SymbolsAreNames
  BY DEF WholeTokens, Whole, SymbolWhole, SymbolsAreNames
<1> QED BY <1>1, <1>2, <1>3, <1>4

LEMMA WholeNext ==
    ASSUME IInv, WholeInv, Next
    PROVE  WholeInv'
<1>1. TypeOK /\ StringOpened /\ StringSoFar /\ result = "running" /\ TypeOK' /\ NothingLost'
  <2>1. IInv' /\ TypeOK' /\ LoopStep
    BY NextMoves, LoopKeepsWithin, LoopKeepsAll DEF IInv
  <2> QED BY <2>1 DEF IInv, WholeInv, LoopStep
<1>2. UNCHANGED text
  BY <1>1, StepAppends
<1>3. \A t : (Whole(t)' <=> Whole(t)) /\ (IsError(t)' <=> IsError(t))
  BY <1>2, WholeStays DEF IsError
<1>4. StringSoFar'
  BY <1>1, SoFarNext
<1>5. CASE UNCHANGED token_list_ /\ result' # "false"
  <2>1. WholeTokens'
    BY <1>3, <1>5 DEF WholeInv, WholeTokens
  <2>2. NoneFailed'
    BY <1>1, <1>5 DEF WholeInv, NoneFailed, IsError
  <2>3. (\A i \in 1..Len(token_list_) - 1 : Apart(token_list_[i], token_list_[i + 1]))'
    BY <1>2, <1>5, ApartStays, WholeByParts DEF WholeInv, Apart, Value, IsError, At, n
  <2>4. LongestTokens'
    BY <2>3 DEF LongestTokens, Apart
  <2> QED BY <1>4, <2>1, <2>2, <2>4 DEF WholeInv
<1>6. CASE \E t : Appends(t)
  <2>1. PICK t : Appends(t)
    BY <1>6
  <2>2. PICK l \in Nat : /\ l = Len(token_list_) /\ DOMAIN token_list_ = 1..l
                         /\ DOMAIN token_list_' = 1..l + 1
                         /\ \A i \in 1..l : token_list_'[i] = token_list_[i]
                         /\ token_list_'[l + 1] = t
    BY <1>1, <2>1, TokenAppended DEF Appends
  <2>3. WholeTokens'
    <3>1. \A i \in 1..l + 1 : Whole(token_list_'[i])
      <4> TAKE i \in 1..l + 1
      <4>1. CASE i = l + 1
        BY <2>1, <2>2, <4>1 DEF Appends
      <4>2. CASE i # l + 1
        <5>1. i \in 1..l
          BY <4>2
        <5> QED BY <2>2, <5>1 DEF WholeInv, WholeTokens
      <4> QED BY <4>1, <4>2
    <3>2. PICK tokens : tokens = token_list_'
      OBVIOUS
    <3>3. \A i \in DOMAIN tokens : Whole(tokens[i])'
      BY <1>3, <2>2, <3>1, <3>2
    <3> QED BY <3>2, <3>3 DEF WholeTokens
  <2>4. NoneFailed'
    <3>1. \A i \in 1..l : ~IsError(token_list_[i])
      BY <1>1, <2>2 DEF WholeInv, NoneFailed
    <3>2. result' # "false" => ~IsError(t)
      BY <2>1 DEF Appends
    <3>3. result' # "false" => \A i \in 1..l + 1 : ~IsError(token_list_'[i])
      BY <2>2, <3>1, <3>2
    <3> QED BY <2>2, <3>3 DEF NoneFailed, IsError
  <2>5. Len(token_list_') = l + 1
    BY <1>1, <2>1, <2>2, AppendFacts DEF Appends, TypeOK
  <2>6. \A i \in 1..l : Apart(token_list_'[i], token_list_'[i + 1])
    <3> TAKE i \in 1..l
    <3>1. CASE i # l
      <4>1. i \in 1..Len(token_list_) - 1 /\ i + 1 \in 1..l
        BY <2>2, <3>1
      <4> QED BY <2>2, <4>1, WholeByParts DEF WholeInv
    <3>2. CASE i = l
      <4> DEFINE v == token_list_[l]
      <4>1. l \in 1..l /\ v = token_list_'[l] /\ t = token_list_'[l + 1] /\ l \in DOMAIN token_list_'
            /\ l + 1 \in DOMAIN token_list_'
        BY <2>2, <3>2
      <4>2. Whole(v) /\ Whole(t) /\ ~IsError(v)
        BY <1>1, <2>1, <2>2, <4>1 DEF WholeInv, WholeTokens, NoneFailed, Appends
      <4>3. \A k \in DOMAIN token_list_' : /\ token_list_'[k].from \in Nat \ {0}
                                           /\ token_list_'[k].to \in Nat
        <5>1. n' \in Nat
          BY <1>1, <1>2, LengthIsNat DEF n
        <5> DEFINE Tokens == [type : TokenTypes, from : 1..n' + 1, to : 1..n' + 2]
        <5>2. token_list_' \in Seq(Tokens)
          BY <1>1 DEF TypeOK
        <5>3. \A k \in DOMAIN token_list_' : token_list_'[k] \in Tokens
          <6> HIDE DEF Tokens
          <6> QED BY <5>2
        <5> QED BY <5>1, <5>3
      <4>4. ~IsError(t) => \A p \in Extent(v), q \in Extent(t) : p < q
        <5> SUFFICES ASSUME ~IsError(t) PROVE \A p \in Extent(v), q \in Extent(t) : p < q
          OBVIOUS
        <5>1. result' # "false"
          BY <2>1 DEF Appends
        <5>2. InOrder'
          BY <1>1, <5>1, NothingLostByName DEF NothingLost, InOrder, Extent
        <5>3. l < l + 1
          OBVIOUS
        <5> QED BY <4>1, <5>2, <5>3 DEF InOrder, Extent
      <4> HIDE DEF v
      <4>5. Apart(v, t)
        <5>1. /\ v.from \in Nat \ {0} /\ v.to \in Nat
              /\ t.from \in Nat \ {0} /\ t.to \in Nat
          BY <4>1, <4>3
        <5> QED BY <1>1, <4>2, <4>4, <5>1, WholeApart
      <4> QED BY <3>2, <4>1, <4>5
    <3> QED BY <3>1, <3>2
  <2>7. LongestTokens'
    <3>1. PICK tokens : tokens = token_list_'
      OBVIOUS
    <3>2. \A i \in 1..l : Apart(tokens[i], tokens[i + 1])'
      BY <1>2, <2>6, <3>1, ApartStays
    <3>3. Len(tokens) - 1 = l
      BY <2>5, <3>1
    <3> QED BY <3>1, <3>2, <3>3 DEF LongestTokens, Apart
  <2> QED BY <1>4, <2>3, <2>4, <2>7 DEF WholeInv
<1> QED BY <1>1, <1>5, <1>6, StepAppends

-----------------------------------------------------------------------------
(* The theorems *)

LEMMA InitInvariant == Init => IInv /\ CommentsAsListed
<1> SUFFICES ASSUME Init PROVE IInv /\ CommentsAsListed
  OBVIOUS
<1>1. token_list_ = <<>> /\ comments = {} /\ s_itr_ = 1 /\ initial_itr = 0
  BY DEF Init, process_begin
<1>2. Seen = 0
  BY <1>1 DEF Seen
<1>3. StringOpened /\ Within /\ NothingLost /\ CommentsAsListed
  BY <1>1, <1>2 DEF StringOpened, Within, NothingLost, CommentsAsListed
<1> QED BY <1>3, InitTyped DEF IInv

LEMMA StepInvariant == IInv /\ [Next]_vars => IInv'
<1>1. IInv /\ Next => IInv'
  BY NextMoves, LoopKeepsWithin, LoopKeepsAll DEF IInv
<1>2. IInv /\ UNCHANGED vars => IInv'
  <2> SUFFICES ASSUME IInv, UNCHANGED vars PROVE IInv'
    OBVIOUS
  <2>1. UNCHANGED <<text, s_itr_, token_list_, result, comments, initial_itr, escaped>>
    BY DEF vars, string_
  <2>2. n' = n /\ Seen' = Seen
    BY <2>1 DEF n, Seen
  <2>3. TypeOK' /\ StringOpened'
    BY <2>1, <2>2 DEF IInv, TypeOK, StringOpened
  <2>4. Within' /\ NothingLost'
    BY <2>1, <2>2 DEF IInv, Within, NothingLost, Extent, CommentExtent, At
  <2> QED BY <2>3, <2>4 DEF IInv
<1> QED BY <1>1, <1>2

LEMMA LexerInvariant == Spec => []IInv
BY InitInvariant, StepInvariant, PTL DEF Spec

\* The types of what the lexer keeps, for texts of every length: no token ends behind
\* the terminating NUL by more than the error token does (exprtk.hpp:2443-2461).
THEOREM LexerTyping == Spec => []TypeOK
BY LexerInvariant, PTL DEF IInv

\* No turn of the loops of process and scan_string leaves the lexer where it was
\* (exprtk.hpp:2443-2461, 3009-3059): their ending rests on it.
THEOREM LexerAdvances == Spec => Advances
<1>1. IInv /\ [Next]_vars => [s_itr_' > s_itr_ \/ result' # "running"]_vars
  BY NextMoves DEF IInv, Moves
<1> QED BY <1>1, LexerInvariant, PTL DEF Spec, Advances

\* Of a text of any length, every character before the next one is in one token, in one
\* comment, or is whitespace (exprtk.hpp:2443-2461, 2686-2747).
THEOREM LexerLosesNothing == Spec => []NothingLost
BY LexerInvariant, PTL DEF IInv

\* What is left out as a comment is one of the styles the code lists, and ends where its
\* style says (exprtk.hpp:2603-2678).
THEOREM CommentsAreListed == Spec => []CommentsAsListed
<1>1. IInv /\ CommentsAsListed /\ [Next]_vars => CommentsAsListed'
  <2>1. IInv /\ CommentsAsListed /\ Next => CommentsAsListed'
    BY CommentsInvariant DEF IInv
  <2>2. CommentsAsListed /\ UNCHANGED vars => CommentsAsListed'
    <3> SUFFICES ASSUME CommentsAsListed, UNCHANGED vars PROVE CommentsAsListed'
      OBVIOUS
    <3>1. UNCHANGED <<text, comments>> /\ n' = n
      BY DEF vars, n
    <3> QED BY <3>1 DEF CommentsAsListed, EndsBlock, At
  <2> QED BY <2>1, <2>2
<1>2. Init => CommentsAsListed
  BY InitInvariant
<1> QED BY <1>1, <1>2, LexerInvariant, PTL DEF Spec

\* Each token of a text of any length is whole: an operator, a symbol or a number goes on
\* as far as it can; a dot of a symbol has a letter, a digit, "_" or the end of the text
\* behind it; a number has one dot and one sign at most, the sign behind an "e", and a sign
\* or a digit behind every "e", of which there may be several; and a string ends at a quote
\* with an even number of backslashes before it (exprtk.hpp:2731-3080).
THEOREM TokensWhole == Spec => []TokensAreWhole
<1>1. Init => WholeInv
  <2> SUFFICES ASSUME Init PROVE WholeInv
    OBVIOUS
  <2>1. token_list_ = <<>> /\ initial_itr = 0
    BY DEF Init, process_begin
  <2> QED BY <2>1 DEF WholeInv, WholeTokens, NoneFailed, StringSoFar, LongestTokens
<1>2. IInv /\ WholeInv /\ [Next]_vars => WholeInv'
  <2>1. IInv /\ WholeInv /\ Next => WholeInv'
    BY WholeNext
  <2>2. WholeInv /\ UNCHANGED vars => WholeInv'
    <3> SUFFICES ASSUME WholeInv, UNCHANGED vars PROVE WholeInv'
      OBVIOUS
    <3>1. UNCHANGED <<text, s_itr_, token_list_, result, initial_itr, escaped>>
      BY DEF vars, string_
    <3>2. WholeTokens' /\ NoneFailed'
      BY <3>1, WholeStays DEF WholeInv, WholeTokens, NoneFailed, IsError
    <3>3. StringSoFar'
      BY <3>1, TextStays DEF WholeInv, StringSoFar, SoFar
    <3>4. LongestTokens'
      BY <3>1, TextStays DEF WholeInv, LongestTokens, Value, IsError
    <3> QED BY <3>2, <3>3, <3>4 DEF WholeInv
  <2> QED BY <2>1, <2>2
<1>3. WholeInv => TokensAreWhole
  BY WholeByParts DEF WholeInv, TokensAreWhole
<1> QED BY <1>1, <1>2, <1>3, LexerInvariant, PTL DEF Spec
=============================================================================
