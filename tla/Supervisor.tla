----------------------------- MODULE Supervisor -----------------------------
(***************************************************************************)
(* The Meathook runtime (src/src/runtime.rs) over the tasks it spawns: one *)
(* per registered pipeline, each going through the life of Pipeline::run   *)
(* (src/src/pipeline.rs).                                                  *)
(*                                                                         *)
(* What a task does inside a call of its sink or its collector is module   *)
(* Spool's subject; here a call is in progress until it ends or panics.    *)
(* Durations are abstract: the failure window of an incarnation may have   *)
(* elapsed at any moment after its spawn, and a backoff sleep ends         *)
(* whenever it ends.                                                       *)
(***************************************************************************)
EXTENDS Integers, Sequences

CONSTANTS
    Pipelines,     \* the registered factories
    MaxFailures,   \* max_consecutive_failures
    FactoryPanics, \* a factory may panic while it rebuilds its pipeline
    None           \* no pipeline

ASSUME SupervisorAssumption ==
    /\ Pipelines # {}
    /\ None \notin Pipelines
    /\ MaxFailures \in Nat
    /\ FactoryPanics \in BOOLEAN

VARIABLES
    cancelled,  \* the CancellationToken has fired
    phase,      \* pipeline -> where its latest task is
    finished,   \* ended tasks that join_next has not returned yet
    loop,       \* where run_with_shutdown is
    respawning, \* the pipeline whose backoff is being slept, or None
    failures,   \* PipelineState::failures
    gaveUp,     \* PipelineState::gave_up
    aged,       \* spawned_at lies at least failure_window back
    streak,     \* history: panics in a row of incarnations that died young
    late,       \* history: one of the streak had aged when it was joined
    outcome     \* history: how the latest task of the pipeline ended

taskVars == <<phase, finished>>
stateVars == <<failures, gaveUp>>
supVars == <<cancelled, phase, finished, loop, respawning, failures, gaveUp,
             aged, streak, late, outcome>>

(* A task is in its first advance, in select!, in a tick, in the shutdown  *)
(* policy; it has returned or panicked; the supervisor has joined it.      *)
InCall == {"starting", "ticking", "settling"}
Ended == {"exited", "panicked"}
Phases == InCall \cup {"waiting"} \cup Ended \cup {"joined"}
(* A task that "died" panicked after the token had fired.                  *)
Outcomes == {"none", "settled", "panicked", "died"}
Loops == {"joining", "backoff", "returned", "unwound"}

SupTypeOK ==
    /\ cancelled \in BOOLEAN
    /\ phase \in [Pipelines -> Phases]
    /\ finished \in Seq(Pipelines)
    /\ loop \in Loops
    /\ respawning \in Pipelines \cup {None}
    /\ failures \in [Pipelines -> 0..(MaxFailures + 1)]
    /\ gaveUp \in [Pipelines -> BOOLEAN]
    /\ aged \in [Pipelines -> BOOLEAN]
    /\ streak \in [Pipelines -> 0..(MaxFailures + 1)]
    /\ late \in [Pipelines -> BOOLEAN]
    /\ outcome \in [Pipelines -> Outcomes]

(* Every factory has been called and its task spawned.                     *)
SupInit ==
    /\ cancelled = FALSE
    /\ phase = [p \in Pipelines |-> "starting"]
    /\ finished = <<>>
    /\ loop = "joining"
    /\ respawning = None
    /\ failures = [p \in Pipelines |-> 0]
    /\ gaveUp = [p \in Pipelines |-> FALSE]
    /\ aged = [p \in Pipelines |-> FALSE]
    /\ streak = [p \in Pipelines |-> 0]
    /\ late = [p \in Pipelines |-> FALSE]
    /\ outcome = [p \in Pipelines |-> "none"]

-----------------------------------------------------------------------------
(* The environment: the signal task and the clock.                         *)

Signal ==
    /\ ~cancelled
    /\ cancelled' = TRUE
    /\ UNCHANGED <<taskVars, loop, respawning, stateVars, aged, streak, late,
                   outcome>>

Ages(p) ==
    /\ ~aged[p]
    /\ phase[p] # "joined"
    /\ aged' = [aged EXCEPT ![p] = TRUE]
    /\ late' = [late EXCEPT ![p] = @ \/ phase[p] = "panicked"]
    /\ UNCHANGED <<cancelled, taskVars, loop, respawning, stateVars, streak,
                   outcome>>

-----------------------------------------------------------------------------
(* A pipeline's task. Sink and collector errors are logged and change      *)
(* nothing here.                                                           *)

Moves(p, from, to) ==
    /\ phase[p] = from
    /\ phase' = [phase EXCEPT ![p] = to]

Quiet == UNCHANGED <<cancelled, loop, respawning, stateVars, aged>>

(* The startup advance, and later a tick, has returned.                    *)
CallReturns(p) ==
    /\ Moves(p, "starting", "waiting") \/ Moves(p, "ticking", "waiting")
    /\ Quiet
    /\ UNCHANGED <<finished, streak, late, outcome>>

(* select! polls its branches in random order: a task may take a tick that *)
(* is due although it has been cancelled.                                  *)
Tick(p) ==
    /\ Moves(p, "waiting", "ticking")
    /\ Quiet
    /\ UNCHANGED <<finished, streak, late, outcome>>

Break(p) ==
    /\ cancelled
    /\ Moves(p, "waiting", "settling")
    /\ Quiet
    /\ UNCHANGED <<finished, streak, late, outcome>>

(* The shutdown policy's flush or advance has returned.                    *)
Settles(p) ==
    /\ Moves(p, "settling", "exited")
    /\ finished' = Append(finished, p)
    /\ outcome' = [outcome EXCEPT ![p] = "settled"]
    /\ Quiet
    /\ UNCHANGED <<streak, late>>

(* The collector, the key function or a sink layer panics inside a call.   *)
Panics(p) ==
    /\ phase[p] \in InCall
    /\ phase' = [phase EXCEPT ![p] = "panicked"]
    /\ finished' = Append(finished, p)
    /\ outcome' = [outcome EXCEPT ![p] =
           IF cancelled THEN "died" ELSE "panicked"]
    /\ streak' = [streak EXCEPT ![p] =
           IF aged[p] THEN 1
           ELSE IF @ > MaxFailures THEN @ ELSE @ + 1]
    /\ late' = [late EXCEPT ![p] = @ /\ ~aged[p]]
    /\ Quiet

-----------------------------------------------------------------------------
(* run_with_shutdown.                                                      *)

(* join_next_with_id yields the tasks in the order in which they ended.    *)
Joins(p) ==
    /\ loop = "joining"
    /\ finished # <<>>
    /\ p = Head(finished)
    /\ finished' = Tail(finished)
    /\ phase' = [phase EXCEPT ![p] = "joined"]

(* A clean exit, or any end during shutdown: no respawn.                   *)
JoinsLast(p) ==
    /\ Joins(p)
    /\ phase[p] = "exited" \/ cancelled
    /\ UNCHANGED <<cancelled, loop, respawning, stateVars, aged, streak,
                   late, outcome>>

(* Mutant of Failures: a long life does not reset the streak.              *)
FailuresNeverReset(p) == failures[p] + 1

(* The streak of p counting the panic at hand: elapsed() is read now, when *)
(* the supervisor gets to it.                                              *)
Failures(p) == (IF aged[p] THEN 0 ELSE failures[p]) + 1

GivesUp(p) ==
    /\ Joins(p)
    /\ phase[p] = "panicked" /\ ~cancelled
    /\ Failures(p) > MaxFailures
    /\ failures' = [failures EXCEPT ![p] = Failures(p)]
    /\ gaveUp' = [gaveUp EXCEPT ![p] = TRUE]
    /\ UNCHANGED <<cancelled, loop, respawning, aged, streak, late, outcome>>

(* Mutant of BacksOff: the token is not looked at before the respawn.      *)
BacksOffInShutdown(p) ==
    /\ Joins(p)
    /\ phase[p] = "panicked"
    /\ Failures(p) <= MaxFailures
    /\ failures' = [failures EXCEPT ![p] = Failures(p)]
    /\ loop' = "backoff"
    /\ respawning' = p
    /\ UNCHANGED <<cancelled, gaveUp, aged, streak, late, outcome>>

(* Mutant of BacksOff: one failure too many is allowed.                    *)
BacksOffOnceMore(p) ==
    /\ Joins(p)
    /\ phase[p] = "panicked" /\ ~cancelled
    /\ Failures(p) <= MaxFailures + 1
    /\ failures' = [failures EXCEPT ![p] = Failures(p)]
    /\ loop' = "backoff"
    /\ respawning' = p
    /\ UNCHANGED <<cancelled, gaveUp, aged, streak, late, outcome>>

(* The sleep happens inside the loop: no task is joined until it is over.  *)
BacksOff(p) ==
    /\ Joins(p)
    /\ phase[p] = "panicked" /\ ~cancelled
    /\ Failures(p) <= MaxFailures
    /\ failures' = [failures EXCEPT ![p] = Failures(p)]
    /\ loop' = "backoff"
    /\ respawning' = p
    /\ UNCHANGED <<cancelled, gaveUp, aged, streak, late, outcome>>

BackoffCancelled ==
    /\ loop = "backoff" /\ cancelled
    /\ loop' = "joining"
    /\ respawning' = None
    /\ UNCHANGED <<cancelled, taskVars, stateVars, aged, streak, late, outcome>>

(* Mutant of Respawns: the rebuilt pipeline is never spawned.              *)
RespawnsNever ==
    /\ loop = "backoff"
    /\ loop' = "joining"
    /\ respawning' = None
    /\ UNCHANGED <<cancelled, taskVars, stateVars, aged, streak, late, outcome>>

(* The sleep branch may win the select although the token has fired.       *)
Respawns ==
    /\ loop = "backoff"
    /\ loop' = "joining"
    /\ respawning' = None
    /\ phase' = [phase EXCEPT ![respawning] = "starting"]
    /\ aged' = [aged EXCEPT ![respawning] = FALSE]
    /\ outcome' = [outcome EXCEPT ![respawning] = "none"]
    /\ UNCHANGED <<cancelled, finished, stateVars, streak, late>>

(* The factory is called on the supervisor's own task: its panic unwinds   *)
(* run_with_shutdown, and dropping the JoinSet aborts every task.          *)
Unwinds ==
    /\ FactoryPanics
    /\ loop = "backoff"
    /\ loop' = "unwound"
    /\ respawning' = None
    /\ phase' = [p \in Pipelines |-> "joined"]
    /\ finished' = <<>>
    /\ UNCHANGED <<cancelled, stateVars, aged, streak, late, outcome>>

(* Mutant of Returns: the token ends the loop, tasks or no tasks.          *)
ReturnsOnCancel ==
    /\ loop = "joining"
    /\ cancelled \/ \A p \in Pipelines : phase[p] = "joined"
    /\ loop' = "returned"
    /\ UNCHANGED <<cancelled, taskVars, respawning, stateVars, aged, streak,
                   late, outcome>>

(* join_next returns None: the JoinSet is empty.                           *)
Returns ==
    /\ loop = "joining"
    /\ \A p \in Pipelines : phase[p] = "joined"
    /\ loop' = "returned"
    /\ UNCHANGED <<cancelled, taskVars, respawning, stateVars, aged, streak,
                   late, outcome>>

(* Nothing is left to run.                                                 *)
Over ==
    /\ loop \in {"returned", "unwound"}
    /\ UNCHANGED supVars

-----------------------------------------------------------------------------
TaskStep(p) ==
    CallReturns(p) \/ Tick(p) \/ Break(p) \/ Settles(p) \/ Panics(p)

JoinStep(p) == JoinsLast(p) \/ GivesUp(p) \/ BacksOff(p)
BackoffEnds == BackoffCancelled \/ Respawns \/ Unwinds

SupNext ==
    \/ Signal
    \/ \E p \in Pipelines : Ages(p) \/ TaskStep(p) \/ JoinStep(p)
    \/ BackoffEnds
    \/ Returns
    \/ Over

SupSpec == SupInit /\ [][SupNext]_supVars

(* A call ends, with a result or a panic. A cancelled select! takes its    *)
(* cancel branch sooner or later, the draws being independent. The loop    *)
(* runs whenever something is there to do. Nothing makes a signal, a tick  *)
(* or the age of an incarnation happen.                                    *)
CallEnds(p) == CallReturns(p) \/ Settles(p) \/ Panics(p)
SupFairness ==
    /\ \A p \in Pipelines :
           /\ WF_supVars(CallEnds(p))
           /\ SF_supVars(Break(p))
           /\ WF_supVars(JoinStep(p))
    /\ WF_supVars(BackoffEnds)
    /\ WF_supVars(Returns)

FairSupSpec == SupSpec /\ SupFairness

-----------------------------------------------------------------------------
(* The runtime gives up on a pipeline only after MaxFailures + 1 panics in *)
(* a row of incarnations none of which outlived failure_window, however    *)
(* late the supervisor came to join them; and it respawns one after such a *)
(* streak only if it came late: elapsed() is read when a panic is joined,  *)
(* so a panic that waited for another backoff passes for the end of a long *)
(* life (runtime.rs:199-217).                                              *)
GivesUpOnStreaks ==
    \A p \in Pipelines :
        /\ gaveUp[p] => streak[p] > MaxFailures
        /\ respawning = p /\ streak[p] > MaxFailures => late[p]

(* run_with_shutdown returns only when no task runs any more: a pipeline   *)
(* was given up, or the token had fired and its latest task has applied    *)
(* its shutdown policy or panicked (runtime.rs:180-197).                   *)
ReturnsAccounted ==
    loop = "returned" =>
        \A p \in Pipelines : gaveUp[p] \/ (cancelled /\ outcome[p] # "none")

(* A panicked pipeline is never forgotten: it runs again or is given up,   *)
(* even when several panic at once and their backoffs are slept one after  *)
(* the other, unless the whole runtime stops (runtime.rs:219-233).         *)
PanicsAreAnswered ==
    \A p \in Pipelines :
        phase[p] = "panicked" ~> \/ phase[p] = "starting"
                                 \/ gaveUp[p]
                                 \/ cancelled
                                 \/ loop = "unwound"

(* Once the token has fired the runtime comes to an end: panics during the *)
(* shutdown do not start a pipeline over and over (runtime.rs:194-197).    *)
SignalStops == cancelled ~> loop \in {"returned", "unwound"}

(* "On SIGTERM/ctrl-c every pipeline applies its configured shutdown       *)
(* policy before the runtime returns" (runtime.rs:6-7): so does one that   *)
(* panicked before the signal and was only waiting to be respawned.        *)
EveryPipelineSettles ==
    loop = "returned" /\ cancelled =>
        \A p \in Pipelines : gaveUp[p] \/ outcome[p] # "panicked"
=============================================================================
