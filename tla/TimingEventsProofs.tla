------------------------- MODULE TimingEventsProofs -------------------------
(***************************************************************************)
(* Proofs about TimingEvents, for any number of callers, calls and blocks: *)
(* what the answer of a call tells, and in which order events arrive.      *)
(***************************************************************************)
EXTENDS TimingEvents, TLAPS

USE OrderAssumption, CapacityAssumption, NoneAssumption

LEMMA PostTyped ==
    ASSUME TypeOK, NEW h \in Callers, NEW c \in Calls, Post(h, c)
    PROVE  TypeOK'
BY DEF TypeOK, Post

LEMMA LoopTyped ==
    ASSUME TypeOK, NEW h \in Callers, Loop(h)
    PROVE  TypeOK'
<1>1. CASE Taken(h)
  <2>1. call[h] \in Calls /\ place[h] \in 1..NumBlocks /\ Order[place[h]] \in Blocks
    BY <1>1 DEF TypeOK, Taken, AtBlock
  <2>2. waiting[Order[place[h]]] + 1 \in 0..Capacity
    BY <1>1, <2>1 DEF TypeOK, Taken, HasRoom
  <2>3. Append(log[Order[place[h]]], call[h]) \in Seq(Calls)
    BY <2>1 DEF TypeOK
  <2>4. log' \in [Blocks -> Seq(Calls)]
    BY <1>1, <2>1, <2>3 DEF TypeOK, Taken
  <2>5. waiting' \in [Blocks -> 0..Capacity] /\ place' \in [Callers -> 1..NumBlocks + 1]
    BY <1>1, <2>1, <2>2 DEF TypeOK, Taken, Advance
  <2> QED BY <1>1, <2>4, <2>5 DEF TypeOK, Taken
<1>2. CASE Refused(h)
  <2>1. call[h] \in Calls /\ place[h] \in 1..NumBlocks /\ Order[place[h]] \in Blocks
    BY <1>2 DEF TypeOK, Refused, AtBlock
  <2>2. refused' \subseteq Calls \X Blocks
    BY <1>2, <2>1 DEF TypeOK, Refused
  <2>3. success' \in [Callers -> BOOLEAN]
    BY <1>2 DEF TypeOK, Refused
  <2>4. place' \in [Callers -> 1..NumBlocks + 1]
    BY <1>2, <2>1 DEF TypeOK, Refused, Advance
  <2>5. UNCHANGED <<call, log, waiting, answer, before>>
    BY <1>2 DEF Refused
  <2> QED BY <2>2, <2>3, <2>4, <2>5 DEF TypeOK
<1>3. CASE Answer(h)
  BY <1>3 DEF TypeOK, Answer
<1> QED BY <1>1, <1>2, <1>3 DEF Loop

LEMMA WorkOffTyped ==
    ASSUME TypeOK, NEW b \in Blocks, WorkOff(b)
    PROVE  TypeOK'
<1>1. waiting' \in [Blocks -> 0..Capacity]
  BY DEF TypeOK, WorkOff
<1>2. UNCHANGED <<call, place, success, log, refused, answer, before>>
  BY DEF WorkOff, caller
<1> QED BY <1>1, <1>2 DEF TypeOK

\* The types, and no queue holds more than it has room for.
THEOREM EventsTyping == Spec => []TypeOK
<1>1. Init => TypeOK
  BY DEF Init, TypeOK
<1>2. TypeOK /\ [Next]_vars => TypeOK'
  <2> SUFFICES ASSUME TypeOK, [Next]_vars PROVE TypeOK'
    OBVIOUS
  <2>1. CASE UNCHANGED vars
    BY <2>1 DEF TypeOK, vars, caller
  <2> QED BY <2>1, PostTyped, LoopTyped, WorkOffTyped DEF Next
<1> QED BY <1>1, <1>2, PTL DEF Spec

-----------------------------------------------------------------------------
(* The inductive invariant *)

\* A call is made by one caller at a time, and not again when it is answered.
CallsDistinct ==
    \A h \in Callers : call[h] # None =>
        /\ answer[call[h]] = "none"
        /\ \A g \in Callers : call[g] = call[h] => g = h

\* The blocks a loop has gone past have taken the event or refused it, those it has
\* not come to have done neither; success is what was met on the way.
LoopProgress ==
    \A h \in Callers, c \in Calls : call[h] = c => \A i \in 1..NumBlocks, b \in Blocks : b = Order[i] =>
        /\ i < place[h] => (Holds(b, c) <=> <<c, b>> \notin refused)
        /\ i >= place[h] => ~Holds(b, c) /\ <<c, b>> \notin refused
        /\ success[h] => <<c, b>> \notin refused

SuccessLost ==
    \A h \in Callers, c \in Calls : call[h] = c /\ ~success[h] => \E b \in Blocks : <<c, b>> \in refused

\* A call that was never made has left no trace.
CallsUnmade ==
    \A c \in Calls : answer[c] = "none" /\ (\A h \in Callers : call[h] # c) =>
        \A b \in Blocks : ~Holds(b, c) /\ <<c, b>> \notin refused

BeforeAnswered == \A p \in before : answer[p[1]] # "none"

IInv ==
    /\ TypeOK
    /\ CallsDistinct /\ LoopProgress /\ SuccessLost /\ CallsUnmade /\ BeforeAnswered
    /\ AnswerTellsAll /\ TakenOnce /\ InTurn

\* What a block holds after it has taken an event.
LEMMA HoldsAfterTaken ==
    ASSUME TypeOK, NEW h \in Callers, Taken(h)
    PROVE  /\ call[h] \in Calls /\ place[h] \in 1..NumBlocks /\ Order[place[h]] \in Blocks
           /\ \A b \in Blocks, c \in Calls :
                 Holds(b, c)' <=> Holds(b, c) \/ (b = Order[place[h]] /\ c = call[h])
<1> DEFINE d == Order[place[h]]
<1>1. call[h] \in Calls /\ place[h] \in 1..NumBlocks /\ d \in Blocks
  BY DEF TypeOK, Taken, AtBlock
<1>2. log' = [log EXCEPT ![d] = Append(@, call[h])] /\ log \in [Blocks -> Seq(Calls)]
  BY DEF TypeOK, Taken
<1> HIDE DEF d
<1>3. \A b \in Blocks : b # d => log'[b] = log[b]
  BY <1>2
<1>4. log'[d] = Append(log[d], call[h]) /\ log[d] \in Seq(Calls)
  BY <1>1, <1>2
<1>5. /\ DOMAIN log'[d] = DOMAIN log[d] \cup {Len(log[d]) + 1}
      /\ log'[d][Len(log[d]) + 1] = call[h]
      /\ \A i \in DOMAIN log[d] : log'[d][i] = log[d][i]
  BY <1>1, <1>4
<1>6. \A b \in Blocks, c \in Calls : b = d => (Holds(b, c)' <=> Holds(b, c) \/ c = call[h])
  BY <1>5 DEF Holds
<1>7. \A b \in Blocks, c \in Calls : b # d => (Holds(b, c)' <=> Holds(b, c))
  BY <1>3 DEF Holds
<1>8. \A b \in Blocks, c \in Calls : Holds(b, c)' <=> Holds(b, c) \/ (b = d /\ c = call[h])
  BY <1>6, <1>7
<1> QED BY <1>1, <1>8 DEF d

\* Nothing but Taken changes what blocks hold.
LEMMA HoldsUnchanged ==
    ASSUME UNCHANGED log
    PROVE  \A b, c : Holds(b, c)' <=> Holds(b, c)
BY DEF Holds

\* Taking an event keeps the order of arrival, and takes it once.
LEMMA TakenKeepsOrder ==
    ASSUME IInv, NEW h \in Callers, Taken(h)
    PROVE  TakenOnce' /\ InTurn'
<1> DEFINE d == Order[place[h]]
           c == call[h]
           n == Len(log[d]) + 1
<1>1. c \in Calls /\ place[h] \in 1..NumBlocks /\ d \in Blocks /\ c # None
  BY HoldsAfterTaken DEF IInv, Taken, AtBlock
<1>2. ~Holds(d, c) /\ answer[c] = "none"
  <2>1. \A i \in 1..NumBlocks, b \in Blocks : b = Order[i] /\ i >= place[h] => ~Holds(b, call[h])
    BY <1>1 DEF IInv, LoopProgress
  <2>2. answer[c] = "none"
    BY <1>1 DEF IInv, CallsDistinct
  <2> QED BY <1>1, <2>1, <2>2
<1>3. log' = [log EXCEPT ![d] = Append(@, c)] /\ log \in [Blocks -> Seq(Calls)] /\ before' = before
  BY DEF IInv, TypeOK, Taken
<1>4. \A b \in Blocks : b # d => log'[b] = log[b]
  BY <1>3
<1>5. log'[d] = Append(log[d], c) /\ log[d] \in Seq(Calls)
  BY <1>1, <1>3
<1>6. /\ DOMAIN log'[d] = DOMAIN log[d] \cup {n}
      /\ log'[d][n] = c
      /\ \A i \in DOMAIN log[d] : log'[d][i] = log[d][i] /\ i < n /\ i \in Nat
  BY <1>1, <1>5
<1>7. \A i \in DOMAIN log[d] : log[d][i] # c
  BY <1>2 DEF Holds
<1>8. \A x : <<c, x>> \notin before
  <2> SUFFICES ASSUME NEW x, <<c, x>> \in before PROVE FALSE
    OBVIOUS
  <2> QED BY <1>2 DEF IInv, BeforeAnswered
<1> HIDE DEF d, c, n
<1>9. TakenOnce'
  <2> SUFFICES ASSUME NEW b \in Blocks, NEW i \in DOMAIN log'[b], NEW j \in DOMAIN log'[b],
                      log'[b][i] = log'[b][j]
               PROVE  i = j
    BY DEF TakenOnce
  <2>1. CASE b # d
    BY <1>4, <2>1 DEF IInv, TakenOnce
  <2>2. CASE b = d
    <3>1. i \in DOMAIN log[d] /\ j \in DOMAIN log[d] => i = j
      BY <1>1, <1>6, <2>2 DEF IInv, TakenOnce
    <3> QED BY <1>6, <1>7, <2>2, <3>1
  <2> QED BY <2>1, <2>2
<1>10. InTurn'
  <2> SUFFICES ASSUME NEW b \in Blocks, NEW i \in DOMAIN log'[b], NEW j \in DOMAIN log'[b],
                      <<log'[b][i], log'[b][j]>> \in before
               PROVE  i < j
    BY <1>3 DEF InTurn
  <2>1. CASE b # d
    BY <1>4, <2>1 DEF IInv, InTurn
  <2>2. CASE b = d
    <3>1. i \in DOMAIN log[d] /\ j \in DOMAIN log[d] => i < j
      BY <1>1, <1>6, <2>2 DEF IInv, InTurn
    <3>2. i # n
      BY <1>6, <1>8, <2>2
    <3> QED BY <1>6, <2>2, <3>1, <3>2
  <2> QED BY <2>1, <2>2
<1> QED BY <1>9, <1>10

-----------------------------------------------------------------------------
(* Each action keeps the invariant *)

LEMMA InitInvariant == Init => IInv
<1> SUFFICES ASSUME Init PROVE IInv
  OBVIOUS
<1>1. TypeOK
  BY DEF Init, TypeOK
<1>2. \A b \in Blocks, c \in Calls : ~Holds(b, c)
  BY DEF Init, Holds
<1>3. CallsDistinct /\ LoopProgress /\ SuccessLost /\ BeforeAnswered
  BY DEF Init, CallsDistinct, LoopProgress, SuccessLost, BeforeAnswered
<1>4. CallsUnmade
  BY <1>2 DEF Init, CallsUnmade
<1>5. AnswerTellsAll /\ TakenOnce /\ InTurn
  BY DEF Init, AnswerTellsAll, TakenOnce, InTurn
<1> QED BY <1>1, <1>3, <1>4, <1>5 DEF IInv

\* A step that leaves the blocks and the answers alone keeps what is said of them.
LEMMA AnswersStay ==
    ASSUME IInv, UNCHANGED <<log, refused, answer>>
    PROVE  AnswerTellsAll' /\ TakenOnce'
<1>1. \A b, c : Holds(b, c)' <=> Holds(b, c)
  BY HoldsUnchanged
<1>2. AnswerTellsAll'
  BY <1>1 DEF IInv, AnswerTellsAll
<1>3. TakenOnce'
  BY DEF IInv, TakenOnce
<1> QED BY <1>2, <1>3

LEMMA PostKeeps ==
    ASSUME IInv, NEW h \in Callers, NEW c \in Calls, Post(h, c)
    PROVE  IInv'
<1>1. /\ call' = [call EXCEPT ![h] = c] /\ place' = [place EXCEPT ![h] = 1]
      /\ success' = [success EXCEPT ![h] = TRUE]
      /\ UNCHANGED <<log, waiting, refused, answer>>
      /\ call[h] = None /\ answer[c] = "none" /\ \A g \in Callers : call[g] # c
      /\ before' = before \cup {<<d, c>> : d \in {d \in Calls : answer[d] # "none"}}
  BY DEF Post
<1>2. TypeOK /\ TypeOK'
  BY PostTyped DEF IInv
<1>3. \A g \in Callers : /\ call'[g] = IF g = h THEN c ELSE call[g]
                         /\ place'[g] = IF g = h THEN 1 ELSE place[g]
                         /\ success'[g] = IF g = h THEN TRUE ELSE success[g]
  BY <1>1, <1>2 DEF TypeOK
<1>4. CallsDistinct'
  BY <1>1, <1>3 DEF IInv, CallsDistinct
<1>5. \A b \in Blocks : ~Holds(b, c) /\ <<c, b>> \notin refused
  BY <1>1 DEF IInv, CallsUnmade
<1>6. \A b, d : Holds(b, d)' <=> Holds(b, d)
  BY <1>1, HoldsUnchanged
<1>7. LoopProgress'
  <2> SUFFICES ASSUME NEW g \in Callers, NEW d \in Calls, call'[g] = d, NEW i \in 1..NumBlocks,
                      NEW b \in Blocks, b = Order[i]
               PROVE  /\ i < place'[g] => (Holds(b, d)' <=> <<d, b>> \notin refused')
                      /\ i >= place'[g] => ~Holds(b, d)' /\ <<d, b>> \notin refused'
                      /\ success'[g] => <<d, b>> \notin refused'
    BY DEF LoopProgress
  <2>1. CASE g = h
    <3>0. call'[g] = c /\ place'[g] = 1
      BY <1>3, <2>1
    <3>1. d = c /\ place'[g] = 1 /\ i >= 1
      BY <3>0
    <3>2. ~Holds(b, d)' /\ <<d, b>> \notin refused'
      BY <1>1, <1>5, <1>6, <3>1
    <3> QED BY <3>1, <3>2
  <2>2. CASE g # h
    <3>1. call[g] = d /\ place'[g] = place[g] /\ success'[g] = success[g]
      BY <1>3, <2>2
    <3> QED BY <1>1, <1>6, <3>1 DEF IInv, LoopProgress
  <2> QED BY <2>1, <2>2
<1>8. SuccessLost'
  <2> SUFFICES ASSUME NEW g \in Callers, NEW d \in Calls, call'[g] = d, ~success'[g]
               PROVE  \E b \in Blocks : <<d, b>> \in refused
    BY <1>1 DEF SuccessLost
  <2>1. call[g] = d /\ ~success[g]
    BY <1>3
  <2> QED BY <2>1 DEF IInv, SuccessLost
<1>9. CallsUnmade'
  <2> SUFFICES ASSUME NEW d \in Calls, answer[d] = "none", \A g \in Callers : call'[g] # d
               PROVE  \A b \in Blocks : ~Holds(b, d)' /\ <<d, b>> \notin refused
    BY <1>1 DEF CallsUnmade
  <2>1. \A g \in Callers : call[g] # d
    BY <1>1, <1>3
  <2> QED BY <1>6, <2>1 DEF IInv, CallsUnmade
<1>10. BeforeAnswered'
  BY <1>1 DEF IInv, BeforeAnswered
<1>11. AnswerTellsAll' /\ TakenOnce'
  BY <1>1, AnswersStay
<1>12. InTurn'
  <2> SUFFICES ASSUME NEW b \in Blocks, NEW i \in DOMAIN log[b], NEW j \in DOMAIN log[b],
                      <<log[b][i], log[b][j]>> \in before'
               PROVE  i < j
    BY <1>1 DEF InTurn
  <2>1. log[b][j] # c
    BY <1>5 DEF Holds
  <2>2. <<log[b][i], log[b][j]>> \in before
    BY <1>1, <2>1
  <2> QED BY <2>2 DEF IInv, InTurn
<1> QED BY <1>2, <1>4, <1>7, <1>8, <1>9, <1>10, <1>11, <1>12 DEF IInv

LEMMA WorkOffKeeps ==
    ASSUME IInv, NEW b \in Blocks, WorkOff(b)
    PROVE  IInv'
<1>1. UNCHANGED <<call, place, success, log, refused, answer, before>>
  BY DEF WorkOff, caller
<1>2. TypeOK'
  BY WorkOffTyped DEF IInv
<1>3. CallsDistinct' /\ SuccessLost' /\ BeforeAnswered'
  BY <1>1 DEF IInv, CallsDistinct, SuccessLost, BeforeAnswered
<1>4. LoopProgress' /\ CallsUnmade'
  <2>1. \A d, c : Holds(d, c)' <=> Holds(d, c)
    BY <1>1, HoldsUnchanged
  <2>2. LoopProgress'
    BY <1>1, <2>1 DEF IInv, LoopProgress
  <2>3. CallsUnmade'
    BY <1>1, <2>1 DEF IInv, CallsUnmade
  <2> QED BY <2>2, <2>3
<1>5. AnswerTellsAll' /\ TakenOnce'
  BY <1>1, AnswersStay
<1>6. InTurn'
  BY <1>1 DEF IInv, InTurn
<1> QED BY <1>2, <1>3, <1>4, <1>5, <1>6 DEF IInv

LEMMA AnswerKeeps ==
    ASSUME IInv, NEW h \in Callers, Answer(h)
    PROVE  IInv'
<1> DEFINE c == call[h]
<1>1. /\ c # None /\ place[h] > NumBlocks
      /\ answer' = [answer EXCEPT ![c] = IF success[h] THEN "true" ELSE "false"]
      /\ call' = [call EXCEPT ![h] = None]
      /\ UNCHANGED <<place, success, log, waiting, refused, before>>
  BY DEF Answer
<1>2. TypeOK /\ TypeOK' /\ c \in Calls
  BY <1>1, LoopTyped DEF IInv, Loop, TypeOK
<1>3. \A g \in Callers : call'[g] = IF g = h THEN None ELSE call[g]
  BY <1>1, <1>2 DEF TypeOK
<1>4. \A d \in Calls : answer'[d] = IF d = c THEN (IF success[h] THEN "true" ELSE "false") ELSE answer[d]
  BY <1>1, <1>2 DEF TypeOK
<1>5. \A b, d : Holds(b, d)' <=> Holds(b, d)
  BY <1>1, HoldsUnchanged
<1> HIDE DEF c
<1>6. \A g \in Callers : call[g] = c => g = h
  BY <1>1 DEF IInv, CallsDistinct, c
<1>7. CallsDistinct'
  <2> SUFFICES ASSUME NEW g \in Callers, call'[g] # None
               PROVE  /\ answer'[call'[g]] = "none"
                      /\ \A f \in Callers : call'[f] = call'[g] => f = g
    BY DEF CallsDistinct
  <2>1. g # h /\ call'[g] = call[g] /\ call[g] \in Calls /\ call[g] # c
    BY <1>2, <1>3, <1>6 DEF TypeOK
  <2>2. answer'[call[g]] = "none"
    BY <1>4, <2>1 DEF IInv, CallsDistinct
  <2>3. \A f \in Callers : call'[f] = call[g] => f = g
    BY <1>3, <2>1 DEF IInv, CallsDistinct
  <2> QED BY <2>1, <2>2, <2>3
<1>8. \A g \in Callers, d \in Calls : call'[g] = d => call[g] = d
  BY <1>2, <1>3
<1>9. LoopProgress'
  BY <1>1, <1>5, <1>8 DEF IInv, LoopProgress
<1>10. SuccessLost'
  BY <1>1, <1>8 DEF IInv, SuccessLost
<1>11. CallsUnmade'
  <2> SUFFICES ASSUME NEW d \in Calls, answer'[d] = "none", \A g \in Callers : call'[g] # d
               PROVE  \A b \in Blocks : ~Holds(b, d)' /\ <<d, b>> \notin refused
    BY <1>1 DEF CallsUnmade
  <2>1. d # c /\ answer[d] = "none"
    BY <1>4
  <2>2. \A g \in Callers : call[g] # d
    BY <1>3, <2>1 DEF c
  <2> QED BY <1>5, <2>1, <2>2 DEF IInv, CallsUnmade
<1>12. BeforeAnswered'
  <2> SUFFICES ASSUME NEW p \in before PROVE answer'[p[1]] # "none"
    BY <1>1 DEF BeforeAnswered
  <2>1. p[1] \in Calls /\ answer[p[1]] # "none"
    BY <1>2 DEF IInv, BeforeAnswered, TypeOK
  <2> QED BY <1>4, <2>1
<1>13. AnswerTellsAll'
  <2> SUFFICES ASSUME NEW d \in Calls, answer'[d] # "none", NEW b \in Blocks
               PROVE  /\ Holds(b, d)' <=> <<d, b>> \notin refused'
                      /\ answer'[d] = "true" => Holds(b, d)'
                      /\ answer'[d] = "false" => \E e \in Blocks : <<d, e>> \in refused'
    BY DEF AnswerTellsAll
  <2>1. CASE d = c
    <3>1. PICK i \in 1..NumBlocks : Order[i] = b
      OBVIOUS
    <3>2. i < place[h] /\ call[h] = d
      BY <1>1, <1>2, <2>1 DEF TypeOK, c
    <3>3. /\ Holds(b, d) <=> <<d, b>> \notin refused
          /\ success[h] => <<d, b>> \notin refused
      BY <3>1, <3>2 DEF IInv, LoopProgress
    <3>4. ~success[h] => \E e \in Blocks : <<d, e>> \in refused
      BY <3>2 DEF IInv, SuccessLost
    <3>5. answer'[d] = "true" => success[h]
      BY <1>4, <2>1
    <3>6. answer'[d] = "false" => ~success[h]
      BY <1>4, <2>1
    <3>7. Holds(b, d)' <=> Holds(b, d)
      BY <1>5
    <3> QED BY <1>1, <3>3, <3>4, <3>5, <3>6, <3>7
  <2>2. CASE d # c
    <3>1. answer'[d] = answer[d]
      BY <1>4, <2>2
    <3> QED BY <1>1, <1>5, <3>1 DEF IInv, AnswerTellsAll
  <2> QED BY <2>1, <2>2
<1>14. TakenOnce' /\ InTurn'
  BY <1>1 DEF IInv, TakenOnce, InTurn
<1> QED BY <1>2, <1>7, <1>9, <1>10, <1>11, <1>12, <1>13, <1>14 DEF IInv

\* What taking and refusing an event have in common: the loop of one caller has gone
\* past one block, which now holds the event or has refused it.
Passed(h, d) ==
    /\ call[h] \in Calls /\ place[h] \in 1..NumBlocks /\ d = Order[place[h]]
    /\ place' = [place EXCEPT ![h] = @ + 1]
    /\ UNCHANGED <<call, answer, before>>
    /\ \A b \in Blocks, c \in Calls : Holds(b, c)' => Holds(b, c) \/ (b = d /\ c = call[h])
    /\ \A b \in Blocks, c \in Calls : Holds(b, c) => Holds(b, c)'
    /\ \A b \in Blocks, c \in Calls : <<c, b>> \in refused' => <<c, b>> \in refused \/ (b = d /\ c = call[h])
    /\ refused \subseteq refused'
    /\ \A b \in Blocks, c \in Calls : b = d /\ c = call[h] => (Holds(b, c)' <=> <<c, b>> \notin refused')
    /\ \A g \in Callers : g # h => success'[g] = success[g]
    /\ success'[h] <=> success[h] /\ <<call[h], d>> \notin refused'

LEMMA PassedKeeps ==
    ASSUME IInv, NEW h \in Callers, NEW d \in Blocks, Passed(h, d), TypeOK'
    PROVE  /\ CallsDistinct' /\ LoopProgress' /\ SuccessLost' /\ CallsUnmade' /\ BeforeAnswered'
           /\ AnswerTellsAll'
<1>1. /\ call[h] \in Calls /\ place[h] \in 1..NumBlocks /\ d = Order[place[h]]
      /\ place' = [place EXCEPT ![h] = @ + 1]
      /\ call' = call /\ answer' = answer /\ before' = before
      /\ refused \subseteq refused'
      /\ \A g \in Callers : g # h => success'[g] = success[g]
      /\ success'[h] <=> success[h] /\ <<call[h], d>> \notin refused'
  BY DEF Passed
<1>2. \A b \in Blocks, c \in Calls : (b # d \/ c # call[h]) =>
         (Holds(b, c)' <=> Holds(b, c)) /\ (<<c, b>> \in refused' <=> <<c, b>> \in refused)
  BY DEF Passed
<1>3. \A b \in Blocks, c \in Calls : b = d /\ c = call[h] => (Holds(b, c)' <=> <<c, b>> \notin refused')
  BY DEF Passed
<1>4. TypeOK
  BY DEF IInv
<1>5. \A g \in Callers : place'[g] = IF g = h THEN place[h] + 1 ELSE place[g]
  BY <1>1, <1>4 DEF TypeOK
<1>6. \A g \in Callers : call[g] = call[h] => g = h
  BY <1>1 DEF IInv, CallsDistinct
<1>7. CallsDistinct' /\ BeforeAnswered'
  BY <1>1 DEF IInv, CallsDistinct, BeforeAnswered
<1>8. LoopProgress'
  <2> SUFFICES ASSUME NEW g \in Callers, NEW c \in Calls, call[g] = c, NEW i \in 1..NumBlocks,
                      NEW b \in Blocks, b = Order[i]
               PROVE  /\ i < place'[g] => (Holds(b, c)' <=> <<c, b>> \notin refused')
                      /\ i >= place'[g] => ~Holds(b, c)' /\ <<c, b>> \notin refused'
                      /\ success'[g] => <<c, b>> \notin refused'
    BY <1>1 DEF LoopProgress
  <2>0. /\ i < place[g] => (Holds(b, c) <=> <<c, b>> \notin refused)
        /\ i >= place[g] => ~Holds(b, c) /\ <<c, b>> \notin refused
        /\ success[g] => <<c, b>> \notin refused
    BY DEF IInv, LoopProgress
  <2>1. CASE g # h
    <3>1. c # call[h] /\ place'[g] = place[g] /\ success'[g] = success[g]
      BY <1>1, <1>5, <1>6, <2>1
    <3> QED BY <1>2, <2>0, <3>1
  <2>2. CASE g = h /\ b # d
    <3>1. i # place[h]
      BY <1>1, <2>2
    <3>2. (Holds(b, c)' <=> Holds(b, c)) /\ (<<c, b>> \in refused' <=> <<c, b>> \in refused)
      BY <1>2, <2>2
    <3>3. place'[g] = place[g] + 1 /\ place[g] \in Nat /\ i # place[g]
      BY <1>1, <1>5, <2>2, <3>1
    <3>4. (i < place'[g] <=> i < place[g]) /\ (i >= place'[g] <=> i >= place[g])
      BY <3>3
    <3>5. success'[g] => success[g]
      BY <1>1, <2>2
    <3> QED BY <2>0, <3>2, <3>4, <3>5
  <2>3. CASE g = h /\ b = d
    <3>1. i = place[h]
      BY <1>1, <2>3
    <3>2. i < place'[g] /\ ~(i >= place'[g])
      BY <1>1, <1>5, <2>3, <3>1
    <3>3. Holds(b, c)' <=> <<c, b>> \notin refused'
      BY <1>3, <2>3
    <3>4. success'[g] => <<c, b>> \notin refused'
      BY <1>1, <2>3
    <3> QED BY <3>2, <3>3, <3>4
  <2> QED BY <2>1, <2>2, <2>3
<1>9. SuccessLost'
  <2> SUFFICES ASSUME NEW g \in Callers, NEW c \in Calls, call[g] = c, ~success'[g]
               PROVE  \E b \in Blocks : <<c, b>> \in refused'
    BY <1>1 DEF SuccessLost
  <2>1. CASE ~success[g]
    BY <1>1, <2>1 DEF IInv, SuccessLost
  <2>2. CASE success[g]
    <3>1. g = h
      BY <1>1, <2>2
    <3>2. <<call[h], d>> \in refused'
      BY <1>1, <2>2, <3>1
    <3> QED BY <3>1, <3>2
  <2> QED BY <2>1, <2>2
<1>10. CallsUnmade'
  <2> SUFFICES ASSUME NEW c \in Calls, answer[c] = "none", \A g \in Callers : call[g] # c, NEW b \in Blocks
               PROVE  ~Holds(b, c)' /\ <<c, b>> \notin refused'
    BY <1>1 DEF CallsUnmade
  <2>1. c # call[h]
    OBVIOUS
  <2> QED BY <1>2, <2>1 DEF IInv, CallsUnmade
<1>11. AnswerTellsAll'
  <2> SUFFICES ASSUME NEW c \in Calls, answer[c] # "none", NEW b \in Blocks
               PROVE  /\ Holds(b, c)' <=> <<c, b>> \notin refused'
                      /\ answer[c] = "true" => Holds(b, c)'
                      /\ answer[c] = "false" => \E e \in Blocks : <<c, e>> \in refused'
    BY <1>1 DEF AnswerTellsAll
  <2>1. c # call[h]
    BY <1>1 DEF IInv, CallsDistinct
  <2>2. (Holds(b, c)' <=> Holds(b, c)) /\ (<<c, b>> \in refused' <=> <<c, b>> \in refused)
    BY <1>2, <2>1
  <2> QED BY <1>1, <2>2 DEF IInv, AnswerTellsAll
<1> QED BY <1>7, <1>8, <1>9, <1>10, <1>11

LEMMA TakenKeeps ==
    ASSUME IInv, NEW h \in Callers, Taken(h)
    PROVE  IInv'
<1> DEFINE d == Order[place[h]]
<1>1. TypeOK /\ TypeOK'
  BY LoopTyped DEF IInv, Loop
<1>2. /\ call[h] \in Calls /\ place[h] \in 1..NumBlocks /\ d \in Blocks
      /\ \A b \in Blocks, c \in Calls : Holds(b, c)' <=> Holds(b, c) \/ (b = d /\ c = call[h])
  BY <1>1, HoldsAfterTaken
<1>3. <<call[h], d>> \notin refused
  BY <1>2 DEF IInv, LoopProgress
<1>4. /\ place' = [place EXCEPT ![h] = @ + 1]
      /\ UNCHANGED <<call, success, refused, answer, before>>
  BY DEF Taken, Advance
<1>5. Passed(h, d)
  <2> HIDE DEF d
  <2>1. d = Order[place[h]]
    BY DEF d
  <2> QED BY <1>2, <1>3, <1>4, <2>1 DEF Passed
<1>6. TakenOnce' /\ InTurn'
  BY TakenKeepsOrder
<1>7. /\ CallsDistinct' /\ LoopProgress' /\ SuccessLost' /\ CallsUnmade' /\ BeforeAnswered'
      /\ AnswerTellsAll'
  BY <1>1, <1>2, <1>5, PassedKeeps
<1> QED BY <1>1, <1>6, <1>7 DEF IInv

LEMMA RefusedKeeps ==
    ASSUME IInv, NEW h \in Callers, Refused(h)
    PROVE  IInv'
<1> DEFINE d == Order[place[h]]
<1>1. TypeOK /\ TypeOK'
  BY LoopTyped DEF IInv, Loop
<1>2. call[h] \in Calls /\ place[h] \in 1..NumBlocks /\ d \in Blocks
  BY <1>1 DEF TypeOK, Refused, AtBlock
<1>3. /\ place' = [place EXCEPT ![h] = @ + 1]
      /\ success' = [success EXCEPT ![h] = FALSE]
      /\ refused' = refused \cup {<<call[h], d>>}
      /\ UNCHANGED <<call, log, answer, before>>
  BY DEF Refused, Advance
<1>4. \A b, c : Holds(b, c)' <=> Holds(b, c)
  BY <1>3, HoldsUnchanged
<1>5. ~Holds(d, call[h])
  <2>1. \A i \in 1..NumBlocks, b \in Blocks : b = Order[i] /\ i >= place[h] => ~Holds(b, call[h])
    BY <1>2 DEF IInv, LoopProgress
  <2> QED BY <1>2, <2>1
<1>6. Passed(h, d)
  <2> HIDE DEF d
  <2>1. d = Order[place[h]]
    BY DEF d
  <2>2. /\ success'[h] = FALSE /\ \A g \in Callers : g # h => success'[g] = success[g]
    BY <1>1, <1>3 DEF TypeOK
  <2>3. <<call[h], d>> \in refused' /\ refused \subseteq refused'
    BY <1>3
  <2>4. \A b \in Blocks, c \in Calls : <<c, b>> \in refused' => <<c, b>> \in refused \/ (b = d /\ c = call[h])
    BY <1>3
  <2>5. \A b \in Blocks, c \in Calls : b = d /\ c = call[h] => (Holds(b, c)' <=> <<c, b>> \notin refused')
    BY <1>4, <1>5, <2>3
  <2> QED BY <1>2, <1>3, <1>4, <2>1, <2>2, <2>3, <2>4, <2>5 DEF Passed
<1>7. TakenOnce' /\ InTurn'
  BY <1>3 DEF IInv, TakenOnce, InTurn
<1>8. /\ CallsDistinct' /\ LoopProgress' /\ SuccessLost' /\ CallsUnmade' /\ BeforeAnswered'
      /\ AnswerTellsAll'
  BY <1>1, <1>2, <1>6, PassedKeeps
<1> QED BY <1>1, <1>7, <1>8 DEF IInv

THEOREM EventsInvariant == Spec => []IInv
<1>1. IInv /\ [Next]_vars => IInv'
  <2> SUFFICES ASSUME IInv, [Next]_vars PROVE IInv'
    OBVIOUS
  <2>1. CASE UNCHANGED vars
    <3>1. UNCHANGED <<call, place, success, log, waiting, refused, answer, before>>
      BY <2>1 DEF vars, caller
    <3>2. \A b, c : Holds(b, c)' <=> Holds(b, c)
      BY <3>1, HoldsUnchanged
    <3>3. TypeOK' /\ CallsDistinct' /\ SuccessLost' /\ BeforeAnswered' /\ TakenOnce' /\ InTurn'
      BY <3>1 DEF IInv, TypeOK, CallsDistinct, SuccessLost, BeforeAnswered, TakenOnce, InTurn
    <3>4. LoopProgress'
      BY <3>1, <3>2 DEF IInv, LoopProgress
    <3>5. CallsUnmade'
      BY <3>1, <3>2 DEF IInv, CallsUnmade
    <3>6. AnswerTellsAll'
      BY <3>1, AnswersStay
    <3> QED BY <3>3, <3>4, <3>5, <3>6 DEF IInv
  <2>2. CASE Next
    BY <2>2, PostKeeps, TakenKeeps, RefusedKeeps, AnswerKeeps, WorkOffKeeps DEF Next, Loop
  <2> QED BY <2>1, <2>2
<1> QED BY InitInvariant, <1>1, PTL DEF Spec

\* An answer tells of every block whether it has the event.
THEOREM AnswersTell == Spec => []AnswerTellsAll
BY EventsInvariant, PTL DEF IInv

\* No interleaving makes a block take the event of one call twice.
THEOREM NoEventTwice == Spec => []TakenOnce
BY EventsInvariant, PTL DEF IInv

\* Calls that do not overlap arrive in their order, in every block.
THEOREM CallsInTurn == Spec => []InTurn
BY EventsInvariant, PTL DEF IInv

-----------------------------------------------------------------------------
(* The refinement *)

LEMMA TakenByHolds ==
    \A c \in Calls, b \in Blocks : <<c, b>> \in TakenBy <=> Holds(b, c)
BY DEF TakenBy

LEMMA BroadcastInit == Init => Broadcast!Init
<1> SUFFICES ASSUME Init PROVE Broadcast!Init
  OBVIOUS
<1>1. TakenBy = {}
  BY DEF Init, TakenBy, Holds
<1> QED BY <1>1 DEF Init, Broadcast!Init

LEMMA TakenByUnchanged == UNCHANGED log => UNCHANGED TakenBy
BY DEF TakenBy, Holds

LEMMA TakenOffers ==
    ASSUME IInv, NEW h \in Callers, Taken(h)
    PROVE  Broadcast!Next
<1> DEFINE d == Order[place[h]]
           c == call[h]
<1>1. TypeOK
  BY DEF IInv
<1>2. /\ c \in Calls /\ place[h] \in 1..NumBlocks /\ d \in Blocks
      /\ \A b \in Blocks, e \in Calls : Holds(b, e)' <=> Holds(b, e) \/ (b = d /\ e = c)
  BY <1>1, HoldsAfterTaken
<1>3. UNCHANGED <<refused, answer>>
  BY DEF Taken
<1>4. answer[c] = "none"
  BY <1>2 DEF IInv, CallsDistinct
<1>5. ~Holds(d, c) /\ <<c, d>> \notin refused
  <2>1. \A i \in 1..NumBlocks, b \in Blocks : b = Order[i] /\ i >= place[h] =>
           ~Holds(b, call[h]) /\ <<call[h], b>> \notin refused
    BY <1>2 DEF IInv, LoopProgress
  <2> QED BY <1>2, <2>1
<1> HIDE DEF c, d
<1>6. TakenBy' = TakenBy \cup {<<c, d>>}
  <2>1. TakenBy' = {p \in Calls \X Blocks : Holds(p[2], p[1])'}
    BY DEF TakenBy
  <2>2. \A p \in Calls \X Blocks : Holds(p[2], p[1])' <=> Holds(p[2], p[1]) \/ p = <<c, d>>
    BY <1>2
  <2>3. <<c, d>> \in Calls \X Blocks
    BY <1>2
  <2> QED BY <2>1, <2>2, <2>3 DEF TakenBy
<1>7. <<c, d>> \notin TakenBy
  BY <1>2, <1>5, TakenByHolds
<1>8. Broadcast!Offer(c, d)
  BY <1>3, <1>4, <1>5, <1>6, <1>7 DEF Broadcast!Offer, Broadcast!Offered
<1> QED BY <1>2, <1>8 DEF Broadcast!Next

LEMMA RefusedOffers ==
    ASSUME IInv, NEW h \in Callers, Refused(h)
    PROVE  Broadcast!Next
<1> DEFINE d == Order[place[h]]
           c == call[h]
<1>1. TypeOK
  BY DEF IInv
<1>2. c \in Calls /\ place[h] \in 1..NumBlocks /\ d \in Blocks
  BY <1>1 DEF TypeOK, Refused, AtBlock
<1>3. refused' = refused \cup {<<c, d>>} /\ UNCHANGED <<log, answer>>
  BY DEF Refused
<1>4. answer[c] = "none"
  BY <1>2 DEF IInv, CallsDistinct
<1>5. ~Holds(d, c) /\ <<c, d>> \notin refused
  <2>1. \A i \in 1..NumBlocks, b \in Blocks : b = Order[i] /\ i >= place[h] =>
           ~Holds(b, call[h]) /\ <<call[h], b>> \notin refused
    BY <1>2 DEF IInv, LoopProgress
  <2> QED BY <1>2, <2>1
<1> HIDE DEF c, d
<1>6. TakenBy' = TakenBy
  BY <1>3, TakenByUnchanged
<1>7. <<c, d>> \notin TakenBy
  BY <1>2, <1>5, TakenByHolds
<1>8. Broadcast!Offer(c, d)
  BY <1>3, <1>4, <1>5, <1>6, <1>7 DEF Broadcast!Offer, Broadcast!Offered
<1> QED BY <1>2, <1>8 DEF Broadcast!Next

LEMMA AnswerAnswers ==
    ASSUME IInv, NEW h \in Callers, Answer(h)
    PROVE  Broadcast!Next
<1> DEFINE c == call[h]
<1>1. /\ c # None /\ place[h] > NumBlocks
      /\ answer' = [answer EXCEPT ![c] = IF success[h] THEN "true" ELSE "false"]
      /\ UNCHANGED <<log, refused>>
  BY DEF Answer
<1>2. c \in Calls /\ answer[c] = "none"
  BY <1>1 DEF IInv, TypeOK, CallsDistinct
<1>3. \A b \in Blocks : /\ Holds(b, c) <=> <<c, b>> \notin refused
                        /\ success[h] => <<c, b>> \notin refused
  <2> SUFFICES ASSUME NEW b \in Blocks
               PROVE  /\ Holds(b, c) <=> <<c, b>> \notin refused
                      /\ success[h] => <<c, b>> \notin refused
    OBVIOUS
  <2>1. PICK i \in 1..NumBlocks : Order[i] = b
    OBVIOUS
  <2>2. i < place[h]
    BY <1>1 DEF IInv, TypeOK
  <2> QED BY <1>2, <2>1, <2>2 DEF IInv, LoopProgress
<1>4. ~success[h] => \E b \in Blocks : <<c, b>> \in refused
  BY <1>2 DEF IInv, SuccessLost
<1> HIDE DEF c
<1>5. \A b \in Blocks : Broadcast!Offered(c, b)
  BY <1>2, <1>3, TakenByHolds DEF Broadcast!Offered
<1>6. (\A b \in Blocks : <<c, b>> \in TakenBy) <=> success[h]
  BY <1>2, <1>3, <1>4, TakenByHolds
<1>7. TakenBy' = TakenBy
  BY <1>1, TakenByUnchanged
<1>8. Broadcast!Answer(c)
  BY <1>1, <1>2, <1>5, <1>6, <1>7 DEF Broadcast!Answer
<1> QED BY <1>2, <1>8 DEF Broadcast!Next

\* The loops of all callers, interleaved, implement the broadcast.
THEOREM LoopImplementsBroadcast == Spec => ImplementsBroadcast
<1>1. IInv /\ [Next]_vars => [Broadcast!Next]_(Broadcast!vars)
  <2> SUFFICES ASSUME IInv, [Next]_vars PROVE Broadcast!Next \/ UNCHANGED <<TakenBy, refused, answer>>
    BY DEF Broadcast!vars
  <2>1. CASE UNCHANGED <<log, refused, answer>>
    BY <2>1, TakenByUnchanged
  <2>2. \A h \in Callers, c \in Calls : Post(h, c) => UNCHANGED <<log, refused, answer>>
    BY DEF Post
  <2>3. \A b \in Blocks : WorkOff(b) => UNCHANGED <<log, refused, answer>>
    BY DEF WorkOff
  <2>4. UNCHANGED vars => UNCHANGED <<log, refused, answer>>
    BY DEF vars
  <2> QED BY <2>1, <2>2, <2>3, <2>4, TakenOffers, RefusedOffers, AnswerAnswers DEF Next, Loop
<1> QED BY <1>1, BroadcastInit, EventsInvariant, PTL DEF Spec, ImplementsBroadcast, Broadcast!Spec
=============================================================================
