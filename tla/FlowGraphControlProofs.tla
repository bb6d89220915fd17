----------------------- MODULE FlowGraphControlProofs -----------------------
(***************************************************************************)
(* Proofs about FlowGraphControl: its typing for any set of threads, and   *)
(* that was_started tells the truth when a single thread starts and stops  *)
(* the graph, however many others wait for it.  With two such threads it   *)
(* does not, see the run of TwoControllers.cfg.                            *)
(***************************************************************************)
EXTENDS FlowGraphControl, TLAPS

\* The types, for any number of controllers.
LEMMA TypesNext == TypeOK /\ [Next]_vars => TypeOK'
<1> SUFFICES ASSUME TypeOK, [Next]_vars PROVE TypeOK'
  OBVIOUS
<1> USE DEF TypeOK, graph, GoTo
<1>1. CASE JobsEnd
  BY <1>1 DEF JobsEnd
<1>2. ASSUME NEW h \in Hosts, start(h) \/ start_throws(h) \/ stop(h) \/ wait(h) \/ Returns(h)
      PROVE  TypeOK'
  <2>1. CASE start(h)
    BY <2>1 DEF start, TopBlockStart
  <2>2. CASE start_throws(h)
    BY <2>2 DEF start_throws, vars
  <2>3. CASE stop(h)
    BY <2>3 DEF stop, TopBlockStop
  <2>4. CASE wait(h)
    BY <2>4 DEF wait
  <2>5. CASE Returns(h)
    BY <2>5 DEF Returns, start_returns, stop_returns, wait_returns
  <2> QED BY <1>2, <2>1, <2>2, <2>3, <2>4, <2>5
<1>3. CASE UNCHANGED vars
  BY <1>3 DEF vars
<1> QED BY <1>1, <1>2, <1>3 DEF Next

\* The type invariant, for any set of threads.
THEOREM ControlTyping == Spec => []TypeOK
<1>1. Init => TypeOK
  BY DEF Init, TypeOK
<1> QED BY <1>1, TypesNext, PTL DEF Spec

-----------------------------------------------------------------------------
(* One controller c *)

\* Between its calls the flag is right; in the middle of one the block is as the
\* flag is about to say, or has ended.
FlagFollows(c) ==
    /\ \A h \in Hosts \ {c} : at[h] \in {"idle", "waiting"}
    /\ at[c] \in {"idle", "waiting"} =>
          /\ jobs = "running" => d_started
          /\ jobs \in {"none", "stopping"} => ~d_started
    /\ at[c] = "started" => jobs \in {"running", "ended"}
    /\ at[c] = "stopped" => jobs # "running"

LEMMA FlagFollowsNext ==
    ASSUME NEW c \in Hosts, Controllers = {c}
    PROVE  TypeOK /\ FlagFollows(c) /\ [Next]_vars => FlagFollows(c)'
<1> SUFFICES ASSUME TypeOK, FlagFollows(c), [Next]_vars PROVE FlagFollows(c)'
  OBVIOUS
<1> USE DEF TypeOK, FlagFollows, graph, GoTo
<1>1. CASE JobsEnd
  BY <1>1 DEF JobsEnd
<1>2. ASSUME NEW h \in Hosts, start(h) \/ start_throws(h) \/ stop(h) \/ wait(h) \/ Returns(h)
      PROVE  FlagFollows(c)'
  <2>1. CASE start(h)
    BY <2>1 DEF start, TopBlockStart
  <2>2. CASE start_throws(h)
    BY <2>2 DEF start_throws, vars
  <2>3. CASE stop(h)
    BY <2>3 DEF stop, TopBlockStop
  <2>4. CASE wait(h)
    BY <2>4 DEF wait
  <2>5. CASE start_returns(h)
    BY <2>5 DEF start_returns
  <2>6. CASE stop_returns(h)
    BY <2>6 DEF stop_returns
  <2>7. CASE wait_returns(h)
    BY <2>7 DEF wait_returns
  <2> QED BY <1>2, <2>1, <2>2, <2>3, <2>4, <2>5, <2>6, <2>7 DEF Returns
<1>3. CASE UNCHANGED vars
  BY <1>3 DEF vars
<1> QED BY <1>1, <1>2, <1>3 DEF Next

\* was_started answers true for a graph that runs, and false for one that never
\* ran or was told to stop, when one thread makes the calls of start and stop
\* (flowgraph.h:169-191).
THEOREM OneControllerIsTold ==
    ASSUME NEW c, Controllers = {c}
    PROVE  Spec => []WasStartedTells
<1>1. c \in Hosts
  BY ControllersAssumption
<1>2. Init => FlagFollows(c)
  BY <1>1 DEF Init, FlagFollows
<1>3. TypeOK /\ FlagFollows(c) => WasStartedTells
  <2> SUFFICES ASSUME TypeOK, FlagFollows(c), \A h \in Hosts : at[h] \in {"idle", "waiting"}
               PROVE  /\ jobs = "running" => d_started
                      /\ jobs \in {"none", "stopping"} => ~d_started
    BY Zenon DEF WasStartedTells
  <2>1. at[c] \in {"idle", "waiting"}
    BY <1>1
  <2> QED BY <2>1, Zenon DEF FlagFollows
<1>4. TypeOK /\ FlagFollows(c) /\ [Next]_vars => FlagFollows(c)'
  BY <1>1, FlagFollowsNext
<1> QED BY <1>2, <1>3, <1>4, ControlTyping, PTL DEF Spec
=============================================================================
