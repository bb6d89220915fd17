----------------------------- MODULE ExprLexer -----------------------------
(***************************************************************************)
(* exprtk's lexer, lexer::generator (src/lib/exprtk.hpp:2416-3112): what   *)
(* evaluate_expression does first with the text of a parameter.            *)
(*                                                                         *)
(* A text is a sequence of characters; positions count from 1, and the     *)
(* terminating NUL is at n + 1.  A step is one turn of the loop of         *)
(* process, which calls scan_token, or of the loop of scan_string; a token *)
(* is its type and the positions [from, to) its value was cut from.        *)
(* comments is history: what skip_comments went over.                      *)
(***************************************************************************)
EXTENDS ExprChars

CONSTANTS
    Texts,          \* the texts that are lexed
    Unprintable     \* characters that std::isprint refuses

ASSUME TextsAssumption == Texts \subseteq Seq(STRING)

VARIABLES
    text,           \* the text
    s_itr_,         \* the next character
    token_list_,    \* the tokens so far
    result,         \* of process: "running", "true" or "false"
    comments,       \* the comments so far, as [from, to)
    initial_itr,    \* in scan_string: where the value begins, otherwise 0
    escaped         \* in scan_string: whether a backslash has gone before

string_ == <<initial_itr, escaped>>
vars == <<text, s_itr_, token_list_, result, comments, string_>>

\* Whatever the text is.
process_begin ==
    /\ s_itr_ = 1
    /\ token_list_ = <<>>
    /\ result = "running"
    /\ comments = {}
    /\ initial_itr = 0 /\ escaped = FALSE

Init == text \in Texts /\ process_begin

n == Len(text)

-----------------------------------------------------------------------------
(* Characters of the text *)

\* The character at a position, which may be one behind the end.
At(i) == IF i <= n THEN text[i] ELSE "NUL"

\* The first of some positions, or the end if there is none.
First(stops) == CHOOSE j \in stops \cup {n + 1} : \A k \in stops : j <= k

-----------------------------------------------------------------------------
(* Where a token ends *)

\* A dot belongs to a symbol if the symbol goes on behind it, or the text ends there.
SymbolStops(j) ==
    /\ At(j) \notin NameChars
    /\ At(j) = "." => j < n /\ At(j + 1) \notin NameChars

\* Of a number that began at i and goes on to j: the flags of scan_number's loop.
dot_found(i, j) == \E k \in i..j - 1 : At(k) = "."
e_found(i, j)   == \E k \in i..j - 1 : At(k) \in Es
post_e_sign_found(i, j)  == \E k \in i..j - 1 : At(k) \in Signs
post_e_digit_found(i, j) == \E k, l \in i..j - 1 : k < l /\ At(k) \in Es /\ At(l) \in Digits

IsExponentSign(i, j) == At(j) \in Signs /\ e_found(i, j) /\ ~post_e_digit_found(i, j)

NumberFails(i, j) ==
    \/ At(j) = "." /\ dot_found(i, j)
    \/ At(j) \in Es /\ At(j + 1) \notin Signs \cup Digits
    \/ IsExponentSign(i, j) /\ post_e_sign_found(i, j)

NumberStops(i, j) ==
    \/ NumberFails(i, j)
    \/ At(j) \notin Digits \cup Es \cup {"."} /\ ~IsExponentSign(i, j)

\* Three-character operators, and two-character ones; any other operator character
\* is a token by itself.
Operators3 == {<<"<", "=", ">">>}
Operators2 ==
    {<<"<", "=">>, <<">", "=">>, <<"<", ">">>, <<"!", "=">>, <<"=", "=">>, <<":", "=">>,
     <<"<", "<">>, <<">", ">">>, <<"+", "=">>, <<"-", "=">>, <<"*", "=">>, <<"/", "=">>, <<"%", "=">>}

\* (fault) The longer operator is looked for last.
OperatorLength_two(i) ==
    CASE <<At(i), At(i + 1)>> \in Operators2 -> 2
      [] <<At(i), At(i + 1), At(i + 2)>> \in Operators3 -> 3
      [] OTHER -> 1

OperatorLength(i) ==
    IF <<At(i), At(i + 1), At(i + 2)>> \in Operators3 THEN 3
    ELSE IF <<At(i), At(i + 1)>> \in Operators2 THEN 2
    ELSE 1

\* In a string: a digit 0 behind a backslash stands for \0xHH, if there is room for it.
HexEscape(j)    == At(j) = "0" /\ j + 3 <= n
HexEscapeOK(j)  == At(j + 1) \in {"x", "X"} /\ At(j + 2) \in HexDigits /\ At(j + 3) \in HexDigits

-----------------------------------------------------------------------------
(* One turn of the loop *)

IsError(token) == token.type \in {"error", "err_symbol", "err_number", "err_string", "err_sfunc"}

Running == result = "running" /\ initial_itr = 0 /\ s_itr_ <= n
InString == result = "running" /\ initial_itr # 0

\* A token is appended and the text goes on at to; an error ends the loop.
Emit(type, from, to, next) ==
    LET token == [type |-> type, from |-> from, to |-> to] IN
    /\ token_list_' = Append(token_list_, token)
    /\ s_itr_' = next
    /\ result' = IF IsError(token) THEN "false" ELSE "running"
    /\ initial_itr' = 0 /\ escaped' = FALSE
    /\ UNCHANGED <<text, comments>>

skip_whitespace ==
    /\ Running /\ At(s_itr_) \in Whitespace
    /\ s_itr_' = First({j \in s_itr_..n : At(j) \notin Whitespace})
    /\ UNCHANGED <<text, token_list_, result, comments, string_>>

IsLineComment  == At(s_itr_) = "#" \/ (At(s_itr_) = "/" /\ At(s_itr_ + 1) = "/")
IsBlockComment == At(s_itr_) = "/" /\ At(s_itr_ + 1) = "*"

EndsBlock(j) == At(j) = "*" /\ At(j + 1) = "/"

skip_comments_line ==
    LET first == s_itr_ + IF At(s_itr_) = "#" THEN 1 ELSE 2
        last  == First({j \in first..n : At(j) = "\n"})
        to    == IF last > n THEN last ELSE last + 1
    IN
    /\ Running /\ IsLineComment
    /\ s_itr_' = to
    /\ comments' = comments \cup {[from |-> s_itr_, to |-> to]}
    /\ UNCHANGED <<text, token_list_, result, string_>>

\* (fault) The star of the opening may be the one of the closing.
skip_comments_block_overlap ==
    LET last == First({j \in s_itr_ + 1..n : EndsBlock(j)}) IN
    /\ Running /\ IsBlockComment
    /\ IF last > n THEN Emit("error", s_itr_, s_itr_ + 2, n + 1)
       ELSE /\ s_itr_' = last + 2
            /\ comments' = comments \cup {[from |-> s_itr_, to |-> last + 2]}
            /\ UNCHANGED <<text, token_list_, result, string_>>

\* A comment that is not closed is an error.
skip_comments_block ==
    LET last == First({j \in s_itr_ + 2..n : EndsBlock(j)}) IN
    /\ Running /\ IsBlockComment
    /\ IF last > n THEN Emit("error", s_itr_, s_itr_ + 2, n + 1)
       ELSE /\ s_itr_' = last + 2
            /\ comments' = comments \cup {[from |-> s_itr_, to |-> last + 2]}
            /\ UNCHANGED <<text, token_list_, result, string_>>

IsComment == IsLineComment \/ IsBlockComment

\* ";" is the end-of-file token, "&" and "|" are symbols; a dot with no digit behind
\* it is an operator no parser rule knows.
scan_operator ==
    LET to == s_itr_ + OperatorLength(s_itr_) IN
    /\ Running /\ ~IsComment
    /\ At(s_itr_) \in OperatorChars \/ (At(s_itr_) = "." /\ At(s_itr_ + 1) \notin Digits)
    /\ Emit(CASE At(s_itr_) = ";" -> "eof"
              [] At(s_itr_) \in {"&", "|"} -> "symbol"
              [] OTHER -> "operator", s_itr_, to, to)

\* (fault) The character that a symbol stops at is swallowed.
scan_symbol_eats ==
    LET to == First({j \in s_itr_..n : SymbolStops(j)}) IN
    /\ Running /\ At(s_itr_) \in Letters
    /\ Emit("symbol", s_itr_, to, IF to <= n THEN to + 1 ELSE to)

scan_symbol ==
    LET to == First({j \in s_itr_..n : SymbolStops(j)}) IN
    /\ Running /\ At(s_itr_) \in Letters
    /\ Emit("symbol", s_itr_, to, to)

scan_number ==
    LET stop == First({j \in s_itr_..n : NumberStops(s_itr_, j)}) IN
    /\ Running
    /\ At(s_itr_) \in Digits \/ (At(s_itr_) = "." /\ At(s_itr_ + 1) \in Digits)
    /\ Emit(IF stop <= n /\ NumberFails(s_itr_, stop) THEN "err_number" ELSE "number", s_itr_, stop, stop)

Smaller(i, j) == IF i < j THEN i ELSE j

\* $fdd( needs eleven characters to be a call.
scan_special_function ==
    LET short == n + 1 - s_itr_ < 11
        named == /\ At(s_itr_ + 1) \in {"f", "F"}
                 /\ At(s_itr_ + 2) \in Digits /\ At(s_itr_ + 3) \in Digits
    IN
    /\ Running /\ At(s_itr_) = "$"
    /\ IF short THEN Emit("err_sfunc", s_itr_, Smaller(s_itr_ + 11, n + 1), s_itr_)
       ELSE IF ~named THEN Emit("err_sfunc", s_itr_, Smaller(s_itr_ + 4, n + 1), s_itr_)
       ELSE Emit("symbol", s_itr_, s_itr_ + 4, s_itr_ + 4)

\* A quote that is the last character opens nothing.
scan_string_open ==
    /\ Running /\ At(s_itr_) = "'"
    /\ IF s_itr_ = n THEN Emit("err_string", s_itr_, n + 1, s_itr_)
       ELSE /\ s_itr_' = s_itr_ + 1
            /\ initial_itr' = s_itr_ + 1 /\ escaped' = FALSE
            /\ UNCHANGED <<text, token_list_, result, comments>>

IsInvalidChar == At(s_itr_) \in Unprintable \ Whitespace
IsBadHex      == escaped /\ HexEscape(s_itr_) /\ ~HexEscapeOK(s_itr_)

Closes == At(s_itr_) = "'" /\ ~escaped

scan_string_next ==
    /\ InString /\ s_itr_ <= n
    /\ ~IsInvalidChar /\ ~IsBadHex /\ ~Closes
    /\ s_itr_' = s_itr_ + IF escaped /\ HexEscape(s_itr_) THEN 4 ELSE 1
    /\ escaped' = (~escaped /\ At(s_itr_) = "\\")
    /\ UNCHANGED <<text, token_list_, result, comments, initial_itr>>

\* The value of a string is what is between its quotes, its escapes resolved.
scan_string_close ==
    /\ InString /\ s_itr_ <= n
    /\ ~IsInvalidChar /\ Closes
    /\ Emit("string", initial_itr, s_itr_, s_itr_ + 1)

scan_string_error ==
    /\ InString
    /\ s_itr_ > n \/ IsInvalidChar \/ IsBadHex
    /\ Emit("err_string", initial_itr, s_itr_, s_itr_)

scan_tilde == Running /\ At(s_itr_) = "~" /\ Emit("symbol", s_itr_, s_itr_ + 1, s_itr_ + 1)

\* The value of this error token may hold the terminating NUL.
scan_error ==
    /\ Running
    /\ At(s_itr_) \notin Whitespace \cup OperatorChars \cup Letters \cup Digits \cup {".", "#", "$", "'", "~"}
    /\ Emit("error", s_itr_, s_itr_ + 2, s_itr_ + 1)

process_done ==
    /\ result = "running" /\ initial_itr = 0 /\ s_itr_ > n
    /\ result' = "true"
    /\ UNCHANGED <<text, s_itr_, token_list_, comments, string_>>

Next ==
    \/ skip_whitespace \/ skip_comments_line \/ skip_comments_block
    \/ scan_operator \/ scan_symbol \/ scan_number \/ scan_special_function
    \/ scan_string_open \/ scan_string_next \/ scan_string_close \/ scan_string_error \/ scan_tilde \/ scan_error
    \/ process_done

Spec == Init /\ [][Next]_vars
-----------------------------------------------------------------------------
(* Properties *)

TokenTypes == {"operator", "symbol", "number", "string", "eof", "error",
               "err_number", "err_string", "err_sfunc"}

TypeOK ==
    /\ text \in Texts
    /\ s_itr_ \in 1..n + 1
    /\ token_list_ \in Seq([type : TokenTypes, from : 1..n + 1, to : 1..n + 2])
    /\ result \in {"running", "true", "false"}
    /\ comments \subseteq [from : 1..n, to : 1..n + 1]
    /\ initial_itr \in 0..s_itr_ /\ escaped \in BOOLEAN

\* The characters a token stands for; those of a string have its quotes around them.
Extent(token) == IF token.type = "string" THEN token.from - 1..token.to ELSE token.from..token.to - 1

CommentExtent(c) == c.from..c.to - 1

\* The characters that are done with: those of a string are when it is closed.
Seen == IF initial_itr = 0 THEN s_itr_ - 1 ELSE initial_itr - 2

\* As long as there is no error, every character before the next one is in one token,
\* or in one comment, or is whitespace in neither; the tokens are in the order of the
\* text (exprtk.hpp:2443-2461, 2686-2747).
NothingLost ==
    result # "false" =>
        /\ \A i, j \in DOMAIN token_list_ :
              i < j => \A p \in Extent(token_list_[i]), q \in Extent(token_list_[j]) : p < q
        /\ \A p \in 1..Seen :
              LET tokens == {i \in DOMAIN token_list_ : p \in Extent(token_list_[i])}
                  around == {c \in comments : p \in CommentExtent(c)}
              IN  \/ tokens = {} /\ around = {} /\ At(p) \in Whitespace
                  \/ tokens = {} /\ \E c \in comments : around = {c}
                  \/ around = {} /\ \E i \in DOMAIN token_list_ : tokens = {i}

Value(token) == SubSeq(text, token.from, token.to - 1)

\* A token goes on as far as it can: two tokens with nothing between them are not one
\* operator, and a symbol or a number does not go on in the next token.
LongestTokens ==
    \A i \in 1..Len(token_list_) - 1 :
        LET a == token_list_[i]
            b == token_list_[i + 1]
        IN  a.to = b.from /\ ~IsError(b) =>
                /\ Value(a) \o Value(b) \notin Operators2 \cup Operators3
                /\ a.type = "symbol" /\ At(a.from) \in Letters => At(b.from) \notin NameChars
                /\ a.type = "number" => At(b.from) \notin Digits \cup {"."}

\* A symbol is letters, digits and "_", and dots with one of them behind
\* (exprtk.hpp:2825-2829).  The comment there has "abc.<eof>" among what is not allowed,
\* but a dot at the end of the text does belong to the symbol.
SymbolsAreNames ==
    \A i \in DOMAIN token_list_ : LET t == token_list_[i] IN
        t.type = "symbol" /\ At(t.from) \in Letters => \A p \in t.from..t.to - 1 :
            At(p) \in NameChars \/ (At(p) = "." /\ (At(p + 1) \in NameChars \/ p = n))

\* A number begins with a digit, or with one behind its dot, has one dot and one sign at
\* most, and a sign or a digit behind each "e".  That is less than the formats of the
\* comment ask for (exprtk.hpp:2848-2865): "1e+", "1e2e3" and "1e2.5" are numbers to the
\* lexer.
NumbersAreOne ==
    \A i \in DOMAIN token_list_ : LET t == token_list_[i] IN
        t.type = "number" =>
            /\ At(t.from) \in Digits \/ (At(t.from) = "." /\ At(t.from + 1) \in Digits)
            /\ \A p, q \in t.from..t.to - 1 :
                  /\ At(p) = "." /\ At(q) = "." => p = q
                  /\ At(p) \in Signs /\ At(q) \in Signs => p = q
                  /\ At(p) \in Signs => At(p - 1) \in Es
                  /\ At(p) \in Es => At(p + 1) \in Signs \cup Digits

\* A string is between quotes; the one that ends it has an even number of backslashes
\* before it, so it is not escaped, and every quote inside is (exprtk.hpp:3009-3059).
Backslashes(p) == CHOOSE k \in 0..p - 1 :
    /\ \A j \in p - k..p - 1 : At(j) = "\\"
    /\ p - k - 1 >= 1 => At(p - k - 1) # "\\"

StringsEndUnescaped ==
    \A i \in DOMAIN token_list_ : LET t == token_list_[i] IN
        t.type = "string" =>
            /\ At(t.from - 1) = "'" /\ At(t.to) = "'"
            /\ Backslashes(t.to) % 2 = 0
            /\ \A p \in t.from..t.to - 1 : At(p) = "'" => Backslashes(p) % 2 = 1

\* Where a token ends, for each sort of them.
TokensAreWhole == LongestTokens /\ SymbolsAreNames /\ NumbersAreOne /\ StringsEndUnescaped

\* A comment is of one of the styles the code lists: to the end of the line, or from
\* "/*" to the next "*/" behind it (exprtk.hpp:2606-2609).
CommentsAsListed ==
    \A c \in comments :
        LET inside == c.from + 2..c.to - 2 IN
        \/ /\ At(c.from) = "#" \/ (At(c.from) = "/" /\ At(c.from + 1) = "/")
           /\ \A p \in c.from..c.to - 2 : At(p) # "\n"
           /\ At(c.to - 1) = "\n" \/ c.to = n + 1
        \/ /\ At(c.from) = "/" /\ At(c.from + 1) = "*" /\ c.from + 4 <= c.to
           /\ \A p \in inside : EndsBlock(p) <=> p = c.to - 2

\* Every turn of the loop goes on in the text or ends the loop.
Advances == [][s_itr_' > s_itr_ \/ result' # "running"]_vars

=============================================================================
