-------------------------- MODULE FlowGraphControl --------------------------
(***************************************************************************)
(* Running a FlowGraph: start, stop, wait and was_started                  *)
(* (src/include/flowgraph/flowgraph.h:169-199), called by the threads of   *)
(* its owner, on top of gr::top_block.                                     *)
(*                                                                         *)
(* start and stop first call the top block and then write d_started; there *)
(* is no lock, so the two halves of calls by two threads interleave.       *)
(* was_started reads d_started and changes nothing: what it would answer   *)
(* is d_started in every state.  gr::top_block is modelled by what         *)
(* flowgraph.h relies on: start throws while the block runs, or has run    *)
(* and was not waited for, and for a graph it finds incomplete; stop only  *)
(* asks the block's threads to end; wait returns when they have.           *)
(***************************************************************************)
CONSTANTS
    Hosts,        \* the threads that use the graph
    Controllers   \* those of them that start and stop it; the others wait

ASSUME ControllersAssumption == Controllers \subseteq Hosts

VARIABLES
    complete,  \* whether gr finds every port of the graph connected
    ends,      \* whether the graph comes to an end by itself
    d_started,
    at,        \* where each host is: "idle", "started", "stopped" or "waiting"
    jobs,      \* the block's threads: "none", "running", "stopping" or "ended"
    waited     \* whether the top block may be started

graph == <<complete, ends>>
vars  == <<graph, d_started, at, jobs, waited>>

Init ==
    /\ complete \in BOOLEAN
    /\ ends \in BOOLEAN
    /\ d_started = FALSE
    /\ at = [h \in Hosts |-> "idle"]
    /\ jobs = "none"
    /\ waited = TRUE

GoTo(h, place) == at' = [at EXCEPT ![h] = place]

-----------------------------------------------------------------------------
(* gr::top_block *)

TopBlockStarts == complete /\ waited

TopBlockStart ==
    /\ jobs' = "running"
    /\ waited' = FALSE

\* (fault) A stopped graph is left in a state of no name.
TopBlockStop_unnamed ==
    /\ jobs' = IF jobs = "running" THEN "stopped" ELSE jobs
    /\ UNCHANGED waited

TopBlockStop ==
    /\ jobs' = IF jobs = "running" THEN "stopping" ELSE jobs
    /\ UNCHANGED waited

\* The threads end when they are asked to, or when their work is done.
JobsEnd ==
    /\ \/ jobs = "stopping"
       \/ jobs = "running" /\ ends
    /\ jobs' = "ended"
    /\ UNCHANGED <<graph, d_started, at, waited>>

-----------------------------------------------------------------------------
(* FlowGraph *)

start(h) ==
    /\ h \in Controllers /\ at[h] = "idle" /\ TopBlockStarts
    /\ TopBlockStart
    /\ GoTo(h, "started")
    /\ UNCHANGED <<graph, d_started>>

\* (fault) A start that throws leaves d_started set.
start_throws_set(h) ==
    /\ h \in Controllers /\ at[h] = "idle" /\ ~TopBlockStarts
    /\ d_started' = TRUE
    /\ UNCHANGED <<graph, at, jobs, waited>>

start_throws(h) ==
    /\ h \in Controllers /\ at[h] = "idle" /\ ~TopBlockStarts
    /\ UNCHANGED vars

start_returns(h) ==
    /\ at[h] = "started"
    /\ d_started' = TRUE
    /\ GoTo(h, "idle")
    /\ UNCHANGED <<graph, jobs, waited>>

\* (fault) stop only clears the flag.
stop_flag_only(h) ==
    /\ h \in Controllers /\ at[h] = "idle"
    /\ GoTo(h, "stopped")
    /\ UNCHANGED <<graph, d_started, jobs, waited>>

stop(h) ==
    /\ h \in Controllers /\ at[h] = "idle"
    /\ TopBlockStop
    /\ GoTo(h, "stopped")
    /\ UNCHANGED <<graph, d_started>>

stop_returns(h) ==
    /\ at[h] = "stopped"
    /\ d_started' = FALSE
    /\ GoTo(h, "idle")
    /\ UNCHANGED <<graph, jobs, waited>>

wait(h) ==
    /\ at[h] = "idle"
    /\ GoTo(h, "waiting")
    /\ UNCHANGED <<graph, d_started, jobs, waited>>

\* (fault) wait returns only from a run that has ended.
wait_returns_after_run(h) ==
    /\ at[h] = "waiting" /\ jobs = "ended"
    /\ waited' = TRUE
    /\ GoTo(h, "idle")
    /\ UNCHANGED <<graph, d_started, jobs>>

wait_returns(h) ==
    /\ at[h] = "waiting" /\ jobs \in {"none", "ended"}
    /\ waited' = TRUE
    /\ GoTo(h, "idle")
    /\ UNCHANGED <<graph, d_started, jobs>>

Returns(h) == start_returns(h) \/ stop_returns(h) \/ wait_returns(h)

Next ==
    \/ JobsEnd
    \/ \E h \in Hosts : start(h) \/ start_throws(h) \/ stop(h) \/ wait(h) \/ Returns(h)

\* A call that can go on goes on, and threads that are to end do; nobody is
\* obliged to make a call.
Spec == Init /\ [][Next]_vars /\ WF_vars(JobsEnd) /\ \A h \in Hosts : WF_vars(Returns(h))

-----------------------------------------------------------------------------
(* Properties *)

TypeOK ==
    /\ complete \in BOOLEAN /\ ends \in BOOLEAN
    /\ d_started \in BOOLEAN
    /\ at \in [Hosts -> {"idle", "started", "stopped", "waiting"}]
    /\ jobs \in {"none", "running", "stopping", "ended"}
    /\ waited \in BOOLEAN

\* "Returns true if the flowgraph was started, else false" (flowgraph.h:186):
\* when no start or stop is under way, was_started() answers true for a graph
\* that runs, and false for one that never ran or was told to stop.
WasStartedTells ==
    (\A h \in Hosts : at[h] \in {"idle", "waiting"}) =>
        /\ jobs = "running" => d_started
        /\ jobs \in {"none", "stopping"} => ~d_started

\* A graph that was told to stop ends, also one that would run for ever, and
\* before it can run again (flowgraph.h:179-183).
StopEndsTheGraph ==
    \A h \in Hosts : at[h] = "stopped" ~> jobs \in {"none", "ended"}

\* wait() does not hang on a graph that is not running: it returns, unless the
\* graph is started again before it does (flowgraph.h:196-199).
WaitReturns ==
    \A h \in Hosts :
        at[h] = "waiting" /\ jobs # "running" ~> at[h] # "waiting" \/ jobs = "running"
=============================================================================
