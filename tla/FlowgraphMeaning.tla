-------------------------- MODULE FlowgraphMeaning --------------------------
(***************************************************************************)
(* What make_flowgraph promises, without saying how: it answers once, with *)
(* an exception exactly when the document has a fault, and otherwise with  *)
(* a graph of the document.                                                *)
(***************************************************************************)
CONSTANTS
    Documents,         \* the documents the stream may hold
    Fault(_),          \* whether a document describes no graph
    IsGraphOf(_, _)    \* whether a graph is the one a document describes

VARIABLES
    document,
    readable,  \* whether the stream holds a well-formed document
    outcome    \* pending, an exception, or a graph: its title, blocks and wires

meaningVars == <<document, readable, outcome>>

Pending   == [kind |-> "pending"]
Exception == [kind |-> "exception"]

Init ==
    /\ document \in Documents
    /\ readable \in BOOLEAN
    /\ outcome = Pending

Answer ==
    /\ outcome = Pending
    /\ IF ~readable \/ Fault(document)
       THEN outcome' = Exception
       ELSE IsGraphOf(document, outcome')
    /\ UNCHANGED <<document, readable>>

\* Every document has an answer, so that the call always ends is all that
\* fairness of Answer would add.
Spec == Init /\ [][Answer]_meaningVars /\ <>(outcome # Pending)
=============================================================================
