--------------------------- MODULE EventBroadcast ---------------------------
(***************************************************************************)
(* What post_timing_event promises (src/include/flowgraph/flowgraph.h:394- *)
(* 405), without its loop: each call offers its event once to every time   *)
(* realignment block, and answers true if and only if all have taken it.   *)
(* A call is a call of its own even if it repeats an event.                *)
(***************************************************************************)
CONSTANTS
    Calls,     \* the calls that are made, one name for each
    Blocks     \* the time realignment blocks

VARIABLES
    taken,     \* pairs of a call and a block that has taken its event
    refused,   \* pairs of a call and a block that has refused it
    answer     \* of each call: "none", "true" or "false"

vars == <<taken, refused, answer>>

Init ==
    /\ taken = {}
    /\ refused = {}
    /\ answer = [c \in Calls |-> "none"]

Offered(c, b) == <<c, b>> \in taken \cup refused

Offer(c, b) ==
    /\ answer[c] = "none" /\ ~Offered(c, b)
    /\ \/ taken' = taken \cup {<<c, b>>} /\ UNCHANGED refused
       \/ refused' = refused \cup {<<c, b>>} /\ UNCHANGED taken
    /\ UNCHANGED answer

Answer(c) ==
    /\ answer[c] = "none"
    /\ \A b \in Blocks : Offered(c, b)
    /\ answer' = [answer EXCEPT ![c] =
                    IF \A b \in Blocks : <<c, b>> \in taken THEN "true" ELSE "false"]
    /\ UNCHANGED <<taken, refused>>

Next == \E c \in Calls : Answer(c) \/ \E b \in Blocks : Offer(c, b)

Spec == Init /\ [][Next]_vars
=============================================================================
