-------------------------- MODULE SupervisorProofs --------------------------
(***************************************************************************)
(* Safety of the supervisor for every number of pipelines and every limit  *)
(* on consecutive failures.                                                *)
(***************************************************************************)
EXTENDS Supervisor, TLAPS

-----------------------------------------------------------------------------
(* The inductive invariant.                                                *)

(* join_next has still to return exactly tasks that have ended, each once. *)
FinishedInv ==
    /\ \A i \in 1..Len(finished) : phase[finished[i]] \in Ended
    /\ \A i, j \in 1..Len(finished) : finished[i] = finished[j] => i = j

(* Whose turn it is.                                                       *)
LoopInv ==
    /\ loop = "backoff" => respawning \in Pipelines
    /\ loop # "backoff" => respawning = None
    /\ loop = "returned" => \A p \in Pipelines : phase[p] = "joined"

(* How an ended task ended, and why a joined one has no successor.         *)
OutcomeInv ==
    \A p \in Pipelines :
        /\ phase[p] \in {"settling", "exited"} => cancelled
        /\ phase[p] \in Ended => outcome[p] # "none"
        /\ phase[p] = "joined" =>
               \/ loop = "unwound"
               \/ /\ outcome[p] # "none"
                  /\ respawning = p \/ gaveUp[p] \/ cancelled
        /\ respawning = p => phase[p] = "joined" /\ ~gaveUp[p]
        /\ gaveUp[p] => phase[p] = "joined"

(* The code's counter never runs ahead of the true streak, save by what a  *)
(* reset at the next join takes back.                                      *)
StreakInv ==
    \A p \in Pipelines :
        /\ phase[p] = "panicked" =>
               /\ streak[p] >= 1
               /\ aged[p] \/ failures[p] < streak[p]
        /\ phase[p] \notin {"panicked", "joined"} \/ respawning = p =>
               failures[p] <= streak[p]
        /\ ~gaveUp[p] => failures[p] <= MaxFailures
        /\ gaveUp[p] => streak[p] > MaxFailures

(* Nor does it fall behind, unless an incarnation aged while its panic     *)
(* waited to be joined.                                                    *)
LateInv ==
    \A p \in Pipelines : ~late[p] =>
        /\ phase[p] = "panicked" => streak[p] <= Failures(p)
        /\ phase[p] \notin {"panicked", "joined"} \/ respawning = p =>
               streak[p] <= failures[p]

SupInv == SupTypeOK /\ FinishedInv /\ LoopInv /\ OutcomeInv /\ StreakInv /\ LateInv

-----------------------------------------------------------------------------
(* It holds initially.                                                     *)
LEMMA SupInitInv == SupInit => SupInv
<1>. SUFFICES ASSUME SupInit  PROVE SupInv
  OBVIOUS
<1>1. SupTypeOK
  <2>1. finished \in Seq(Pipelines)
    BY DEF SupInit
  <2>2. /\ failures \in [Pipelines -> 0..(MaxFailures + 1)]
        /\ streak \in [Pipelines -> 0..(MaxFailures + 1)]
    BY SupervisorAssumption DEF SupervisorAssumption, SupInit
  <2>3. phase \in [Pipelines -> Phases] /\ outcome \in [Pipelines -> Outcomes]
    BY DEF SupInit, Phases, InCall, Outcomes
  <2>. QED  BY <2>1, <2>2, <2>3 DEF SupTypeOK, SupInit, Loops
<1>2. FinishedInv /\ LoopInv
  BY SupervisorAssumption
  DEF SupervisorAssumption, SupInit, FinishedInv, LoopInv
<1>3. OutcomeInv /\ StreakInv
  BY SupervisorAssumption
  DEF SupervisorAssumption, SupInit, OutcomeInv, StreakInv, Ended
<1>4. LateInv
  BY SupervisorAssumption DEF SupervisorAssumption, SupInit, LateInv
<1>. QED  BY <1>1, <1>2, <1>3, <1>4 DEF SupInv

-----------------------------------------------------------------------------
(* Every action preserves it: first the environment, then the tasks, then  *)
(* the supervisor.                                                         *)

(* The signal changes the token alone.                                     *)
LEMMA SignalInv == SupInv /\ Signal => SupInv'
BY DEF Signal, SupInv, SupTypeOK, FinishedInv, LoopInv, OutcomeInv, StreakInv,
       LateInv, Failures, taskVars, stateVars

(* An incarnation that gets old may only lower the counter later.          *)
LEMMA AgesInv ==
    ASSUME SupInv, NEW p \in Pipelines, Ages(p)
    PROVE  SupInv'
BY DEF Ages, SupInv, SupTypeOK, FinishedInv, LoopInv, OutcomeInv, StreakInv,
       LateInv, Failures, taskVars, stateVars

(* A move of p between phases of a running task.                           *)
LEMMA RunningInv ==
    ASSUME SupInv, NEW p \in Pipelines, Quiet,
           UNCHANGED <<finished, streak, late, outcome>>,
           phase[p] \in {"starting", "waiting", "ticking"},
           NEW to \in {"waiting", "ticking", "settling"},
           to = "settling" => cancelled,
           phase' = [phase EXCEPT ![p] = to]
    PROVE  SupInv'
<1>. USE DEF SupInv, Quiet, stateVars
<1>1. SupTypeOK'
  BY DEF SupTypeOK, Phases, InCall
<1>2. FinishedInv'
  BY DEF FinishedInv, SupTypeOK, Ended
<1>3. LoopInv'
  BY DEF LoopInv, SupTypeOK
<1>4. OutcomeInv'
  BY DEF OutcomeInv, SupTypeOK, Ended
<1>5. StreakInv'
  BY DEF StreakInv, OutcomeInv, SupTypeOK
<1>6. LateInv'
  BY DEF LateInv, Failures, OutcomeInv, SupTypeOK
<1>. QED  BY <1>1, <1>2, <1>3, <1>4, <1>5, <1>6

(* A running task that ends is appended to the tasks to be joined.         *)
LEMMA EndsFinished ==
    ASSUME SupTypeOK, FinishedInv, NEW p \in Pipelines, phase[p] \in InCall,
           NEW to \in Ended,
           finished' = Append(finished, p),
           phase' = [phase EXCEPT ![p] = to]
    PROVE  FinishedInv' /\ finished' \in Seq(Pipelines)
<1>1. \A i \in 1..Len(finished) : finished[i] # p
  BY DEF FinishedInv, InCall, Ended
<1>2. /\ finished' \in Seq(Pipelines)
      /\ Len(finished') = Len(finished) + 1
      /\ Len(finished) \in Nat
      /\ \A i \in 1..Len(finished) :
             finished'[i] = finished[i] /\ finished[i] \in Pipelines
      /\ finished'[Len(finished) + 1] = p
  BY DEF SupTypeOK
<1>3. \A i \in 1..Len(finished') : phase'[finished'[i]] \in Ended
  <2>. TAKE i \in 1..Len(finished')
  <2>1. CASE i = Len(finished) + 1
    BY <1>2, <2>1 DEF SupTypeOK
  <2>2. CASE i # Len(finished) + 1
    <3>1. i \in 1..Len(finished)
      BY <1>2, <2>2
    <3>. QED  BY <1>1, <1>2, <3>1 DEF SupTypeOK, FinishedInv
  <2>. QED  BY <2>1, <2>2
<1>4. \A i, j \in 1..Len(finished') : finished'[i] = finished'[j] => i = j
  <2>. SUFFICES ASSUME NEW i \in 1..Len(finished'),
                       NEW j \in 1..Len(finished'),
                       finished'[i] = finished'[j]
                PROVE  i = j
    OBVIOUS
  <2>1. i \in 1..Len(finished) \/ i = Len(finished) + 1
    BY <1>2
  <2>2. j \in 1..Len(finished) \/ j = Len(finished) + 1
    BY <1>2
  <2>. QED  BY <1>1, <1>2, <2>1, <2>2 DEF FinishedInv
<1>. QED  BY <1>2, <1>3, <1>4 DEF FinishedInv

(* A task that settles was cancelled.                                      *)
LEMMA SettlesInv ==
    ASSUME SupInv, NEW p \in Pipelines, Settles(p)
    PROVE  SupInv'
<1>. USE DEF SupInv, Settles, Moves, Quiet, stateVars
<1>1. FinishedInv' /\ finished' \in Seq(Pipelines)
  BY EndsFinished DEF InCall, Ended
<1>2. SupTypeOK'
  BY <1>1 DEF SupTypeOK, Phases, Ended, Outcomes
<1>3. LoopInv'
  BY DEF LoopInv, SupTypeOK
<1>4. OutcomeInv'
  BY DEF OutcomeInv, SupTypeOK, Ended
<1>5. StreakInv'
  BY DEF StreakInv, OutcomeInv, SupTypeOK
<1>6. LateInv'
  BY DEF LateInv, Failures, OutcomeInv, SupTypeOK
<1>. QED  BY <1>1, <1>2, <1>3, <1>4, <1>5, <1>6

(* A panic is one more of the streak, unless the incarnation had aged.     *)
LEMMA PanicsInv ==
    ASSUME SupInv, NEW p \in Pipelines, Panics(p)
    PROVE  SupInv'
<1>. USE DEF SupInv, Panics, Quiet, stateVars
<1>1. FinishedInv' /\ finished' \in Seq(Pipelines)
  BY EndsFinished DEF Ended
<1>2. SupTypeOK'
  BY <1>1, SupervisorAssumption
  DEF SupervisorAssumption, SupTypeOK, Phases, Ended, Outcomes
<1>3. LoopInv'
  BY DEF LoopInv, SupTypeOK, InCall
<1>4. OutcomeInv'
  BY DEF OutcomeInv, SupTypeOK, Ended, InCall
<1>5. StreakInv'
  BY SupervisorAssumption
  DEF SupervisorAssumption, StreakInv, OutcomeInv, SupTypeOK, InCall
<1>6. LateInv'
  BY SupervisorAssumption
  DEF SupervisorAssumption, LateInv, Failures, OutcomeInv, SupTypeOK, InCall
<1>. QED  BY <1>1, <1>2, <1>3, <1>4, <1>5, <1>6

(* What is left to join after a join.                                      *)
LEMMA JoinsFinished ==
    ASSUME SupTypeOK, FinishedInv, NEW p \in Pipelines, Joins(p)
    PROVE  /\ FinishedInv'
           /\ finished' \in Seq(Pipelines)
           /\ phase[p] \in Ended
<1>. USE DEF Joins
<1>1. /\ finished' \in Seq(Pipelines)
      /\ Len(finished) \in Nat \ {0}
      /\ Len(finished') = Len(finished) - 1
      /\ finished[1] = p
      /\ \A i \in 1..Len(finished') : finished'[i] = finished[i + 1]
      /\ \A i \in 1..Len(finished') :
             i + 1 \in 1..Len(finished) /\ finished[i + 1] \in Pipelines
  BY DEF SupTypeOK
<1>2. phase[p] \in Ended
  BY <1>1 DEF FinishedInv
<1>3. \A i \in 1..Len(finished') : finished'[i] # p
  BY <1>1 DEF FinishedInv
<1>4. \A i \in 1..Len(finished') : phase'[finished'[i]] \in Ended
  BY <1>1, <1>3 DEF FinishedInv, SupTypeOK
<1>5. \A i, j \in 1..Len(finished') : finished'[i] = finished'[j] => i = j
  <2>. SUFFICES ASSUME NEW i \in 1..Len(finished'),
                       NEW j \in 1..Len(finished'),
                       finished'[i] = finished'[j]
                PROVE  i = j
    OBVIOUS
  <2>1. i + 1 = j + 1
    BY <1>1 DEF FinishedInv
  <2>. QED  BY <1>1, <2>1
<1>. QED  BY <1>1, <1>2, <1>4, <1>5 DEF FinishedInv

(* A task that is not respawned has an outcome.                            *)
LEMMA JoinsLastInv ==
    ASSUME SupInv, NEW p \in Pipelines, JoinsLast(p)
    PROVE  SupInv'
<1>. USE DEF SupInv, JoinsLast, stateVars
<1>1. FinishedInv' /\ finished' \in Seq(Pipelines) /\ phase[p] \in Ended
  BY JoinsFinished
<1>2. SupTypeOK'
  BY <1>1 DEF SupTypeOK, Joins, Phases
<1>3. LoopInv'
  BY DEF LoopInv, SupTypeOK, Joins
<1>4. OutcomeInv'
  BY <1>1 DEF OutcomeInv, SupTypeOK, Joins, Ended
<1>5. StreakInv'
  BY <1>1 DEF StreakInv, OutcomeInv, SupTypeOK, Joins, Ended
<1>6. LateInv'
  BY <1>1 DEF LateInv, Failures, OutcomeInv, SupTypeOK, Joins, Ended
<1>. QED  BY <1>1, <1>2, <1>3, <1>4, <1>5, <1>6

(* The count that gives up a pipeline is at most its streak.               *)
LEMMA GivesUpInv ==
    ASSUME SupInv, NEW p \in Pipelines, GivesUp(p)
    PROVE  SupInv'
<1>. USE DEF SupInv, GivesUp
<1>1. FinishedInv' /\ finished' \in Seq(Pipelines) /\ phase[p] \in Ended
  BY JoinsFinished
<1>2. failures[p] <= MaxFailures
  BY <1>1 DEF StreakInv, OutcomeInv, Ended
<1>3. Failures(p) \in 0..(MaxFailures + 1)
  BY <1>2, SupervisorAssumption DEF SupervisorAssumption, Failures, SupTypeOK
<1>4. streak[p] >= Failures(p)
  BY SupervisorAssumption
  DEF SupervisorAssumption, Failures, SupTypeOK, StreakInv
<1>5. SupTypeOK'
  BY <1>1, <1>3 DEF SupTypeOK, Joins, Phases
<1>6. LoopInv'
  BY DEF LoopInv, SupTypeOK, Joins
<1>7. OutcomeInv'
  BY <1>1, SupervisorAssumption
  DEF SupervisorAssumption, OutcomeInv, LoopInv, SupTypeOK, Joins, Ended
<1>8. StreakInv'
  BY <1>1, <1>3, <1>4, SupervisorAssumption
  DEF SupervisorAssumption, StreakInv, LoopInv, OutcomeInv, SupTypeOK, Joins,
      Ended
<1>9. LateInv'
  BY <1>1, SupervisorAssumption
  DEF SupervisorAssumption, LateInv, Failures, OutcomeInv, LoopInv, SupTypeOK, Joins, Ended
<1>. QED  BY <1>1, <1>5, <1>6, <1>7, <1>8, <1>9

(* A pipeline that backs off has failures left.                            *)
LEMMA BacksOffInv ==
    ASSUME SupInv, NEW p \in Pipelines, BacksOff(p)
    PROVE  SupInv'
<1>. USE DEF SupInv, BacksOff
<1>1. FinishedInv' /\ finished' \in Seq(Pipelines) /\ phase[p] \in Ended
  BY JoinsFinished
<1>2. Failures(p) \in 0..(MaxFailures + 1)
  BY SupervisorAssumption
  DEF SupervisorAssumption, Failures, SupTypeOK
<1>3. streak[p] >= Failures(p)
  BY SupervisorAssumption
  DEF SupervisorAssumption, Failures, SupTypeOK, StreakInv
<1>4. SupTypeOK'
  BY <1>1, <1>2 DEF SupTypeOK, Joins, Phases, Loops
<1>5. LoopInv'
  BY DEF LoopInv, SupTypeOK, Joins
<1>6. OutcomeInv'
  BY <1>1, SupervisorAssumption
  DEF SupervisorAssumption, OutcomeInv, LoopInv, SupTypeOK, Joins, Ended
<1>7. StreakInv'
  BY <1>1, <1>2, <1>3, SupervisorAssumption
  DEF SupervisorAssumption, StreakInv, LoopInv, OutcomeInv, SupTypeOK, Joins,
      Ended
<1>8. LateInv'
  BY <1>1, SupervisorAssumption
  DEF SupervisorAssumption, LateInv, Failures, OutcomeInv, LoopInv, SupTypeOK, Joins, Ended
<1>. QED  BY <1>1, <1>4, <1>5, <1>6, <1>7, <1>8

(* A backoff cut short leaves its pipeline joined.                         *)
LEMMA BackoffCancelledInv ==
    ASSUME SupInv, BackoffCancelled
    PROVE  SupInv'
<1>. USE DEF SupInv, BackoffCancelled, taskVars, stateVars
<1>. DEFINE q == respawning
<1>1. q \in Pipelines /\ None \notin Pipelines
  BY SupervisorAssumption DEF SupervisorAssumption, LoopInv
<1>2. SupTypeOK' /\ FinishedInv' /\ LoopInv'
  BY DEF SupTypeOK, FinishedInv, LoopInv, Loops
<1>3. OutcomeInv'
  BY <1>1 DEF OutcomeInv, LoopInv, SupTypeOK
<1>4. StreakInv'
  BY <1>1 DEF StreakInv, LoopInv, SupTypeOK
<1>5. LateInv'
  BY <1>1 DEF LateInv, Failures, LoopInv, SupTypeOK
<1>. QED  BY <1>2, <1>3, <1>4, <1>5

(* A new incarnation keeps the counters.                                   *)
LEMMA RespawnsInv ==
    ASSUME SupInv, Respawns
    PROVE  SupInv'
<1>. USE DEF SupInv, Respawns, stateVars
<1>1. /\ respawning \in Pipelines /\ None \notin Pipelines
      /\ phase[respawning] = "joined" /\ ~gaveUp[respawning]
  BY SupervisorAssumption DEF SupervisorAssumption, LoopInv, OutcomeInv
<1>2. SupTypeOK'
  BY <1>1 DEF SupTypeOK, Loops, Phases, InCall, Outcomes
<1>3. FinishedInv'
  BY <1>1 DEF FinishedInv, SupTypeOK, Ended
<1>4. LoopInv'
  BY DEF LoopInv
<1>5. OutcomeInv'
  BY <1>1 DEF OutcomeInv, SupTypeOK, Ended
<1>6. StreakInv'
  BY <1>1 DEF StreakInv, SupTypeOK
<1>7. LateInv'
  BY <1>1 DEF LateInv, Failures, SupTypeOK
<1>. QED  BY <1>2, <1>3, <1>4, <1>5, <1>6, <1>7

(* A factory panic takes every task along.                                 *)
LEMMA UnwindsInv ==
    ASSUME SupInv, Unwinds
    PROVE  SupInv'
<1>. USE DEF SupInv, Unwinds, stateVars
<1>1. SupTypeOK'
  <2>1. finished' \in Seq(Pipelines)
    OBVIOUS
  <2>. QED  BY <2>1 DEF SupTypeOK, Loops, Phases
<1>2. FinishedInv' /\ LoopInv'
  BY DEF FinishedInv, LoopInv
<1>3. OutcomeInv'
  BY SupervisorAssumption
  DEF SupervisorAssumption, OutcomeInv, SupTypeOK, Ended
<1>4. StreakInv'
  BY SupervisorAssumption DEF SupervisorAssumption, StreakInv, SupTypeOK
<1>5. LateInv'
  BY SupervisorAssumption DEF SupervisorAssumption, LateInv, SupTypeOK
<1>. QED  BY <1>1, <1>2, <1>3, <1>4, <1>5

(* The loop returns over joined tasks.                                     *)
LEMMA ReturnsInv ==
    ASSUME SupInv, Returns
    PROVE  SupInv'
<1>. USE DEF SupInv, Returns, taskVars, stateVars
<1>1. SupTypeOK' /\ FinishedInv' /\ LoopInv'
  BY DEF SupTypeOK, FinishedInv, LoopInv, Loops
<1>2. OutcomeInv' /\ StreakInv' /\ LateInv'
  BY DEF OutcomeInv, StreakInv, LateInv, Failures, LoopInv
<1>. QED  BY <1>1, <1>2

(* Every step of a task.                                                   *)
LEMMA TaskStepInv ==
    ASSUME SupInv, NEW p \in Pipelines, TaskStep(p)
    PROVE  SupInv'
<1>1. CASE CallReturns(p)
  BY <1>1, RunningInv DEF CallReturns, Moves
<1>2. CASE Tick(p)
  BY <1>2, RunningInv DEF Tick, Moves
<1>3. CASE Break(p)
  BY <1>3, RunningInv DEF Break, Moves
<1>4. CASE Settles(p)
  BY <1>4, SettlesInv
<1>5. CASE Panics(p)
  BY <1>5, PanicsInv
<1>. QED  BY <1>1, <1>2, <1>3, <1>4, <1>5 DEF TaskStep

(* Every step keeps the invariant.                                         *)
LEMMA SupStep == SupInv /\ [SupNext]_supVars => SupInv'
<1>. SUFFICES ASSUME SupInv, [SupNext]_supVars  PROVE SupInv'
  OBVIOUS
<1>1. CASE Signal
  BY <1>1, SignalInv
<1>2. ASSUME NEW p \in Pipelines, Ages(p)  PROVE SupInv'
  BY <1>2, AgesInv
<1>3. ASSUME NEW p \in Pipelines, TaskStep(p)  PROVE SupInv'
  BY <1>3, TaskStepInv
<1>4. ASSUME NEW p \in Pipelines, JoinStep(p)  PROVE SupInv'
  BY <1>4, JoinsLastInv, GivesUpInv, BacksOffInv DEF JoinStep
<1>5. CASE BackoffEnds
  BY <1>5, BackoffCancelledInv, RespawnsInv, UnwindsInv DEF BackoffEnds
<1>6. CASE Returns
  BY <1>6, ReturnsInv
<1>7. CASE Over \/ UNCHANGED supVars
  BY <1>7
  DEF Over, supVars, SupInv, SupTypeOK, FinishedInv, LoopInv, OutcomeInv,
      StreakInv, LateInv, Failures
<1>. QED  BY <1>1, <1>2, <1>3, <1>4, <1>5, <1>6, <1>7 DEF SupNext

-----------------------------------------------------------------------------
(* The invariant holds in every reachable state.                           *)
THEOREM SupervisorInv == SupSpec => []SupInv
<1>. QED  BY SupInitInv, SupStep, PTL DEF SupSpec

(* The supervisor's state stays in its types: in particular the count of   *)
(* consecutive failures never exceeds the limit by more than one           *)
(* (runtime.rs:203-205).                                                   *)
COROLLARY SupTypeCorrect == SupSpec => []SupTypeOK
<1>1. SupInv => SupTypeOK
  BY DEF SupInv
<1>. QED  BY <1>1, SupervisorInv, PTL

(* A pipeline is given up only after more than MaxFailures panics in a row *)
(* of incarnations that died young, however many pipelines panic together  *)
(* and however late the supervisor joins them; and after such a streak it  *)
(* is respawned only if one of them was joined late (runtime.rs:199-217).  *)
THEOREM GivesUpSound == SupSpec => []GivesUpOnStreaks
<1>1. SupInv => GivesUpOnStreaks
  <2>. SUFFICES ASSUME SupInv, NEW p \in Pipelines
                PROVE  /\ gaveUp[p] => streak[p] > MaxFailures
                       /\ respawning = p /\ streak[p] > MaxFailures => late[p]
    BY DEF GivesUpOnStreaks
  <2>1. gaveUp[p] => streak[p] > MaxFailures
    BY DEF SupInv, StreakInv
  <2>2. ASSUME respawning = p, ~late[p]  PROVE streak[p] <= MaxFailures
    <3>1. failures[p] <= MaxFailures /\ streak[p] <= failures[p]
      BY <2>2 DEF SupInv, OutcomeInv, StreakInv, LateInv
    <3>. QED  BY <3>1, SupervisorAssumption DEF SupervisorAssumption, SupInv, SupTypeOK
  <2>3. streak[p] \in Nat
    BY SupervisorAssumption DEF SupervisorAssumption, SupInv, SupTypeOK
  <2>. QED  BY <2>1, <2>2, <2>3, SupervisorAssumption DEF SupervisorAssumption
<1>. QED  BY <1>1, SupervisorInv, PTL

(* The runtime returns only when every pipeline is accounted for: given    *)
(* up, or ended after the token fired (runtime.rs:180-197).                *)
THEOREM ReturnsSound == SupSpec => []ReturnsAccounted
<1>1. SupInv => ReturnsAccounted
  <2>. SUFFICES ASSUME SupInv, loop = "returned", NEW p \in Pipelines
                PROVE  gaveUp[p] \/ (cancelled /\ outcome[p] # "none")
    BY DEF ReturnsAccounted
  <2>1. phase[p] = "joined" /\ respawning # p
    BY SupervisorAssumption DEF SupervisorAssumption, SupInv, LoopInv
  <2>. QED  BY <2>1 DEF SupInv, OutcomeInv
<1>. QED  BY <1>1, SupervisorInv, PTL
=============================================================================
