---------------------------- MODULE TimingEvents ----------------------------
(***************************************************************************)
(* FlowGraph::post_timing_event (src/include/flowgraph/flowgraph.h:394-    *)
(* 405), called by threads of the graph's owner while the graph runs.      *)
(*                                                                         *)
(* The loop offers the event to one time realignment block after another,  *)
(* in the order of d_block_map; it goes on after a block has refused, and  *)
(* answers whether none has.  There is no lock: the loops of several       *)
(* callers interleave, and the blocks work their events off meanwhile.     *)
(* A block is external.  flowgraph.h knows only that add_timing_event      *)
(* answers false for an event it does not take; a block is modelled by a   *)
(* queue of Capacity events.  A call that repeats an event is a call of    *)
(* its own: a block that took the first takes the second as well.          *)
(***************************************************************************)
EXTENDS Naturals, Sequences

CONSTANTS
    Callers,    \* threads that post events
    Blocks,     \* ids of the time realignment blocks
    NumBlocks,  \* how many there are
    Order,      \* their ids in the order of d_block_map
    Calls,      \* the calls that are made
    Capacity,   \* the bound of a block's queue
    None        \* no call

ASSUME OrderAssumption ==
    /\ NumBlocks \in Nat
    /\ Order \in [1..NumBlocks -> Blocks]
    /\ \A b \in Blocks : \E i \in 1..NumBlocks : Order[i] = b
    /\ \A i, j \in 1..NumBlocks : Order[i] = Order[j] => i = j

ASSUME CapacityAssumption == Capacity \in Nat

ASSUME NoneAssumption == None \notin Calls

VARIABLES
    call,       \* of each caller: the call it is in, or None
    place,      \* of each caller: the place in Order that its loop is at
    success,    \* of each caller: its local of that name
    log,        \* of each block: the calls whose event it took, in order
    waiting,    \* of each block: how many of them it has not worked off
    refused,    \* pairs of a call and a block that refused its event
    answer,     \* of each call: "none", "true" or "false"
    before      \* pairs of calls: the first was answered before the second began

caller == <<call, place, success>>
vars   == <<caller, log, waiting, refused, answer, before>>

Init ==
    /\ call = [h \in Callers |-> None]
    /\ place = [h \in Callers |-> 1]
    /\ success = [h \in Callers |-> TRUE]
    /\ log = [b \in Blocks |-> <<>>]
    /\ waiting = [b \in Blocks |-> 0]
    /\ refused = {}
    /\ answer = [c \in Calls |-> "none"]
    /\ before = {}

-----------------------------------------------------------------------------
Post(h, c) ==
    /\ call[h] = None
    /\ answer[c] = "none" /\ \A g \in Callers : call[g] # c
    /\ call' = [call EXCEPT ![h] = c]
    /\ place' = [place EXCEPT ![h] = 1]
    /\ success' = [success EXCEPT ![h] = TRUE]
    /\ before' = before \cup {<<d, c>> : d \in {d \in Calls : answer[d] # "none"}}
    /\ UNCHANGED <<log, waiting, refused, answer>>

AtBlock(h) == call[h] # None /\ place[h] <= NumBlocks

HasRoom(b) == waiting[b] < Capacity

Advance(h) == place' = [place EXCEPT ![h] = @ + 1]

\* (fault) The result of the last block is the answer.
Taken_last(h) ==
    LET b == Order[place[h]] IN
    /\ AtBlock(h) /\ HasRoom(b)
    /\ log' = [log EXCEPT ![b] = Append(@, call[h])]
    /\ waiting' = [waiting EXCEPT ![b] = @ + 1]
    /\ success' = [success EXCEPT ![h] = TRUE]
    /\ Advance(h)
    /\ UNCHANGED <<call, refused, answer, before>>

\* add_timing_event answers true.
Taken(h) ==
    LET b == Order[place[h]] IN
    /\ AtBlock(h) /\ HasRoom(b)
    /\ log' = [log EXCEPT ![b] = Append(@, call[h])]
    /\ waiting' = [waiting EXCEPT ![b] = @ + 1]
    /\ Advance(h)
    /\ UNCHANGED <<call, success, refused, answer, before>>

\* (fault) The loop ends at the first refusal; it stays there.
Refused_stops(h) ==
    LET b == Order[place[h]] IN
    /\ AtBlock(h) /\ ~HasRoom(b)
    /\ refused' = refused \cup {<<call[h], b>>}
    /\ success' = [success EXCEPT ![h] = FALSE]
    /\ place' = [place EXCEPT ![h] = NumBlocks + 1]
    /\ UNCHANGED <<call, log, waiting, answer, before>>
Refused_spins(h) ==
    /\ AtBlock(h) /\ ~HasRoom(Order[place[h]])
    /\ UNCHANGED vars

\* add_timing_event answers false; the loop goes on.
Refused(h) ==
    LET b == Order[place[h]] IN
    /\ AtBlock(h) /\ ~HasRoom(b)
    /\ refused' = refused \cup {<<call[h], b>>}
    /\ success' = [success EXCEPT ![h] = FALSE]
    /\ Advance(h)
    /\ UNCHANGED <<call, log, waiting, answer, before>>

\* (fault) The answer is given before the loop has ended.
Answer_early(h) ==
    /\ call[h] # None
    /\ answer' = [answer EXCEPT ![call[h]] = IF success[h] THEN "true" ELSE "false"]
    /\ call' = IF place[h] > NumBlocks THEN [call EXCEPT ![h] = None] ELSE call
    /\ UNCHANGED <<place, success, log, waiting, refused, before>>

Answer(h) ==
    /\ call[h] # None /\ place[h] > NumBlocks
    /\ answer' = [answer EXCEPT ![call[h]] = IF success[h] THEN "true" ELSE "false"]
    /\ call' = [call EXCEPT ![h] = None]
    /\ UNCHANGED <<place, success, log, waiting, refused, before>>

\* A time realignment block works off the oldest event it has.
WorkOff(b) ==
    /\ waiting[b] > 0
    /\ waiting' = [waiting EXCEPT ![b] = @ - 1]
    /\ UNCHANGED <<caller, log, refused, answer, before>>

Loop(h) == Taken(h) \/ Refused(h) \/ Answer(h)

Next ==
    \/ \E h \in Callers : Loop(h) \/ \E c \in Calls : Post(h, c)
    \/ \E b \in Blocks : WorkOff(b)

Spec == Init /\ [][Next]_vars /\ \A h \in Callers : WF_vars(Loop(h))

-----------------------------------------------------------------------------
(* Properties *)

Holds(b, c) == \E i \in DOMAIN log[b] : log[b][i] = c

TypeOK ==
    /\ call \in [Callers -> Calls \cup {None}]
    /\ place \in [Callers -> 1..NumBlocks + 1]
    /\ success \in [Callers -> BOOLEAN]
    /\ log \in [Blocks -> Seq(Calls)]
    /\ waiting \in [Blocks -> 0..Capacity]
    /\ refused \subseteq Calls \X Blocks
    /\ answer \in [Calls -> {"none", "true", "false"}]
    /\ before \subseteq Calls \X Calls

\* A call that is answered has been offered to every block, also after one of them
\* refused it, and the answer is true exactly if every block has taken it; a false
\* may leave the event in some blocks (flowgraph.h:397-404).
AnswerTellsAll ==
    \A c \in Calls : answer[c] # "none" => \A b \in Blocks :
        /\ Holds(b, c) <=> <<c, b>> \notin refused
        /\ answer[c] = "true" => Holds(b, c)
        /\ answer[c] = "false" => \E d \in Blocks : <<c, d>> \in refused

\* A block takes the event of one call once, however the callers interleave.
TakenOnce ==
    \A b \in Blocks : \A i, j \in DOMAIN log[b] : log[b][i] = log[b][j] => i = j

\* Events reach every block in the order of their calls, when one call was answered
\* before the other began.  (Calls that overlap may reach two blocks in opposite
\* orders: nothing orders the loops of two callers.)
InTurn ==
    \A b \in Blocks : \A i, j \in DOMAIN log[b] :
        <<log[b][i], log[b][j]>> \in before => i < j

\* A call is always answered.
CallsAnswered == \A h \in Callers : call[h] # None ~> call[h] = None

TakenBy == {p \in Calls \X Blocks : Holds(p[2], p[1])}

Broadcast == INSTANCE EventBroadcast WITH taken <- TakenBy

\* The loop implements the broadcast that is promised.
ImplementsBroadcast == Broadcast!Spec
=============================================================================
