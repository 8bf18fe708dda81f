---------------------------- MODULE HfSinkProofs ----------------------------
(***************************************************************************)
(* Safety of the sinks of one repository for every number of sinks, of     *)
(* windows and of attempts, with and without a gate.                       *)
(***************************************************************************)
EXTENDS HfSink, TLAPS

-----------------------------------------------------------------------------
(* The inductive invariant.                                                *)

(* The permit's holder is the one sink that sends.                         *)
GateInv ==
    /\ Gated => \A s \in Sinks : pc[s] = "sending" <=> permit = s
    /\ ~Gated => permit = None

(* An Ok, read or still on its way, is backed by the repository.           *)
OkInv ==
    \A s \in Sinks :
        /\ answer[s] = "committed" => object[s] \in stored
        /\ answer[s] # "none" => pc[s] = "sending"
        /\ result[s] = "ok" => object[s] \in stored

HfInv == HfTypeOK /\ GateInv /\ OkInv

-----------------------------------------------------------------------------
(* It holds initially.                                                     *)
LEMMA HfInitInv == HfInit => HfInv
<1>. SUFFICES ASSUME HfInit  PROVE HfInv
  OBVIOUS
<1>1. HfTypeOK
  <2>1. waiters \in Seq(Sinks)
    BY DEF HfInit
  <2>2. attempt \in [Sinks -> 1..Attempts]
    BY HfAssumption DEF HfAssumption, HfInit
  <2>. QED  BY <2>1, <2>2 DEF HfInit, HfTypeOK
<1>2. GateInv /\ OkInv
  BY HfAssumption DEF HfAssumption, HfInit, GateInv, OkInv
<1>. QED  BY <1>1, <1>2 DEF HfInv

(* The gate's queue stays a queue of sinks.                                *)
LEMMA QueuesType ==
    ASSUME HfTypeOK, NEW s \in Sinks, Queues(s)
    PROVE  waiters' \in Seq(Sinks)
BY DEF HfTypeOK, Queues

(* A call into a sink keeps it, whether the encoder fails or not.          *)
LEMMA CallInv ==
    ASSUME HfInv, NEW s \in Sinks, NEW o \in Objects,
           CallIngest(s, o) \/ EncodeFails(s, o)
    PROVE  HfInv'
<1>. USE DEF HfInv, gateVars, serverVars
<1>1. CASE CallIngest(s, o)
  <2>. USE DEF CallIngest
  <2>1. waiters' \in Seq(Sinks)
    BY <1>1, QueuesType
  <2>2. HfTypeOK'
    BY <1>1, <2>1, HfAssumption DEF HfAssumption, HfTypeOK
  <2>3. GateInv'
    BY <1>1 DEF GateInv, HfTypeOK
  <2>4. OkInv'
    BY <1>1 DEF OkInv, HfTypeOK
  <2>. QED  BY <2>2, <2>3, <2>4
<1>2. CASE EncodeFails(s, o)
  BY <1>2 DEF EncodeFails, HfTypeOK, GateInv, OkInv
<1>. QED  BY <1>1, <1>2

(* So does taking the permit: nobody else is sending then.                 *)
LEMMA SendInv ==
    ASSUME HfInv, NEW s \in Sinks, Send(s)
    PROVE  HfInv'
<1>. USE DEF HfInv, Send, Starts, serverVars
<1>1. waiters' \in Seq(Sinks)
  BY DEF HfTypeOK, Turn
<1>2. HfTypeOK'
  BY <1>1 DEF HfTypeOK
<1>3. GateInv'
  BY HfAssumption DEF HfAssumption, GateInv, HfTypeOK, Turn
<1>4. OkInv'
  BY DEF OkInv, HfTypeOK
<1>. QED  BY <1>2, <1>3, <1>4

(* So does an answer of the server to the request under way.               *)
LEMMA ServeInv ==
    ASSUME HfInv, NEW s \in Sinks, NEW a \in Answers, Serve(s, a)
    PROVE  HfInv'
<1>. USE DEF HfInv, Serve, callVars, gateVars
<1>1. HfTypeOK'
  BY DEF HfTypeOK
<1>2. GateInv' /\ OkInv'
  BY DEF GateInv, OkInv, HfTypeOK
<1>. QED  BY <1>1, <1>2

(* A late commit only adds to the repository.                              *)
LEMMA ServeOrphanInv ==
    ASSUME HfInv, NEW o \in Objects, ServeOrphan(o)
    PROVE  HfInv'
BY DEF HfInv, ServeOrphan, callVars, gateVars, HfTypeOK, GateInv, OkInv

(* The end of an attempt gives the permit back.                            *)
LEMMA EndsAttemptInv ==
    ASSUME HfInv, NEW s \in Sinks, EndsAttempt(s),
           orphans' \in {orphans, orphans \cup {object[s]}},
           NEW to \in {"idle", "backoff"}, pc' = [pc EXCEPT ![s] = to],
           NEW r \in {"none", "ok", "err"}, result' = [result EXCEPT ![s] = r],
           r = "ok" => object[s] \in stored
    PROVE  HfInv'
<1>. USE DEF HfInv, EndsAttempt
<1>1. HfTypeOK'
  BY DEF HfTypeOK
<1>2. GateInv'
  BY HfAssumption DEF HfAssumption, GateInv, HfTypeOK
<1>3. OkInv'
  BY DEF OkInv, HfTypeOK
<1>. QED  BY <1>1, <1>2, <1>3

(* However an attempt ends, the permit is released with it.                *)
LEMMA AttemptEndsInv ==
    ASSUME HfInv, NEW s \in Sinks, AttemptEnds(s)
    PROVE  HfInv'
<1>1. CASE Committed(s)
  BY <1>1, EndsAttemptInv DEF Committed, Finishes, HfInv, OkInv
<1>2. CASE Refused(s)
  BY <1>2, EndsAttemptInv DEF Refused, Finishes
<1>3. CASE Retries(s)
  <2>1. /\ result' = [result EXCEPT ![s] = result[s]]
        /\ result[s] \in {"none", "ok", "err"}
        /\ result[s] = "ok" => object[s] \in stored
    BY <1>3 DEF Retries, HfInv, HfTypeOK, OkInv
  <2>. QED  BY <1>3, <2>1, EndsAttemptInv DEF Retries, Fails
<1>4. CASE Exhausted(s)
  BY <1>4, EndsAttemptInv DEF Exhausted, Finishes, Fails
<1>. QED  BY <1>1, <1>2, <1>3, <1>4 DEF AttemptEnds

(* A backoff is only ever slept with an attempt left, so this needs one    *)
(* more fact, kept by every step.                                          *)
BackoffInv == \A s \in Sinks : pc[s] = "backoff" => attempt[s] < Attempts

(* A sink that queues again has an attempt left.                           *)
LEMMA BackoffOverInv ==
    ASSUME HfInv, BackoffInv, NEW s \in Sinks, BackoffOver(s)
    PROVE  HfInv'
<1>. USE DEF HfInv, BackoffOver, serverVars
<1>1. waiters' \in Seq(Sinks)
  BY QueuesType
<1>2. HfTypeOK'
  BY <1>1, HfAssumption DEF HfAssumption, HfTypeOK, BackoffInv
<1>3. GateInv' /\ OkInv'
  BY DEF GateInv, OkInv, HfTypeOK
<1>. QED  BY <1>2, <1>3

(* A sink in its backoff has attempts left.                                *)
LEMMA BackoffKept ==
    ASSUME HfTypeOK, BackoffInv, [HfNext]_hfVars
    PROVE  BackoffInv'
<1>. USE DEF HfTypeOK, BackoffInv, callVars, gateVars, serverVars
<1>1. ASSUME NEW s \in Sinks, NEW o \in Objects,
             CallIngest(s, o) \/ EncodeFails(s, o)
      PROVE  BackoffInv'
  BY <1>1 DEF CallIngest, EncodeFails
<1>2. ASSUME NEW s \in Sinks, Send(s)  PROVE BackoffInv'
  BY <1>2 DEF Send, Starts
<1>3. ASSUME NEW s \in Sinks, NEW a \in Answers, Serve(s, a)
      PROVE  BackoffInv'
  BY <1>3 DEF Serve
<1>4. ASSUME NEW s \in Sinks, AttemptEnds(s)  PROVE BackoffInv'
  BY <1>4
  DEF AttemptEnds, Committed, Refused, Retries, Exhausted, Finishes,
      EndsAttempt
<1>5. ASSUME NEW s \in Sinks, BackoffOver(s)  PROVE BackoffInv'
  BY <1>5 DEF BackoffOver
<1>6. ASSUME NEW o \in Objects, ServeOrphan(o)  PROVE BackoffInv'
  BY <1>6 DEF ServeOrphan
<1>7. CASE UNCHANGED hfVars
  BY <1>7 DEF hfVars
<1>. QED  BY <1>1, <1>2, <1>3, <1>4, <1>5, <1>6, <1>7 DEF HfNext

(* Every step keeps both invariants.                                       *)
LEMMA HfStep == HfInv /\ BackoffInv /\ [HfNext]_hfVars => HfInv' /\ BackoffInv'
<1>. SUFFICES ASSUME HfInv, BackoffInv, [HfNext]_hfVars
              PROVE  HfInv' /\ BackoffInv'
  OBVIOUS
<1>1. BackoffInv'
  BY BackoffKept DEF HfInv
<1>2. HfInv'
  <2>1. ASSUME NEW s \in Sinks, NEW o \in Objects,
               CallIngest(s, o) \/ EncodeFails(s, o)
        PROVE  HfInv'
    BY <2>1, CallInv
  <2>2. ASSUME NEW s \in Sinks, Send(s)  PROVE HfInv'
    BY <2>2, SendInv
  <2>3. ASSUME NEW s \in Sinks, NEW a \in Answers, Serve(s, a)  PROVE HfInv'
    BY <2>3, ServeInv
  <2>4. ASSUME NEW s \in Sinks, AttemptEnds(s)  PROVE HfInv'
    BY <2>4, AttemptEndsInv
  <2>5. ASSUME NEW s \in Sinks, BackoffOver(s)  PROVE HfInv'
    BY <2>5, BackoffOverInv
  <2>6. ASSUME NEW o \in Objects, ServeOrphan(o)  PROVE HfInv'
    BY <2>6, ServeOrphanInv
  <2>7. CASE UNCHANGED hfVars
    BY <2>7
    DEF hfVars, callVars, gateVars, serverVars, HfInv, HfTypeOK, GateInv, OkInv
  <2>. QED  BY <2>1, <2>2, <2>3, <2>4, <2>5, <2>6, <2>7 DEF HfNext
<1>. QED  BY <1>1, <1>2

-----------------------------------------------------------------------------
(* The invariant holds in every reachable state.                           *)
THEOREM HfSinkInv == HfSpec => [](HfInv /\ BackoffInv)
<1>1. HfInit => BackoffInv
  BY DEF HfInit, BackoffInv
<1>. QED  BY <1>1, HfInitInv, HfStep, PTL DEF HfSpec

(* A shared gate lets one commit out at a time (huggingface.rs:286-301).   *)
THEOREM GateExcludes == HfSpec => []OneSendPerGate
<1>1. HfInv => OneSendPerGate
  BY DEF HfInv, GateInv, OneSendPerGate
<1>. QED  BY <1>1, HfSinkInv, PTL

(* Whoever holds the permit is sending: neither a backoff nor a finished   *)
(* call keeps the gate shut (huggingface.rs:286-301, 330-347).             *)
THEOREM GateReleases == HfSpec => []GateIsHeldToSend
<1>1. HfInv => GateIsHeldToSend
  BY HfAssumption
  DEF HfAssumption, HfInv, HfTypeOK, GateInv, GateIsHeldToSend
<1>. QED  BY <1>1, HfSinkInv, PTL

(* An Ok is backed by the repository, after any number of lost answers,    *)
(* retries and commits that land late (huggingface.rs:330-347).            *)
THEOREM OkIsStored == HfSpec => []OkMeansStored
<1>1. HfInv => OkMeansStored
  BY DEF HfInv, OkInv, OkMeansStored
<1>. QED  BY <1>1, HfSinkInv, PTL

-----------------------------------------------------------------------------
(* HfSink implements Terminal.                                             *)

Calling == [s \in Sinks |-> IF pc[s] = "idle" THEN None ELSE object[s]]
Pending == orphans \cup {object[s] : s \in {t \in Sinks : pc[t] # "idle"}}

(* A sink at work is seen with its window, which is pending.               *)
LEMMA Seen ==
    ASSUME HfInv
    PROVE  /\ \A s \in Sinks : pc[s] = "idle" <=> Calling[s] = None
           /\ \A s \in Sinks : Calling[s] # None =>
                Calling[s] = object[s] /\ Calling[s] \in Pending
BY HfAssumption DEF HfAssumption, HfInv, HfTypeOK, Calling, Pending

(* The end of an ingest.                                                   *)
LEMMA ReturnSteps ==
    ASSUME HfInv, NEW s \in Sinks, NEW r \in {"ok", "err"}, EndsAttempt(s),
           Finishes(s, r), orphans' \in {orphans, orphans \cup {object[s]}},
           r = "ok" => object[s] \in stored
    PROVE  Promise!Return(s, r)
<1>. USE DEF EndsAttempt, Finishes
<1>1. Calling[s] = object[s] /\ Calling[s] # None /\ object[s] \in Pending
  BY Seen
<1>2. Calling' = [Calling EXCEPT ![s] = None] /\ Pending' \in SUBSET Pending
  BY <1>1 DEF Calling, Pending, HfInv, HfTypeOK
<1>. QED  BY <1>1, <1>2 DEF Promise!Return, Calling, Pending

(* Every step is a step of Terminal or changes nothing it sees.            *)
LEMMA StepKeepsPromise ==
    ASSUME HfInv, [HfNext]_hfVars
    PROVE  [Promise!TerminalNext]_(Promise!terminalVars)
<1>. USE DEF HfInv, HfTypeOK, callVars, gateVars, serverVars
<1>1. ASSUME NEW s \in Sinks, NEW o \in Objects, CallIngest(s, o)
      PROVE  Promise!Offer(s, o)
  <2>1. Calling' = [Calling EXCEPT ![s] = o] /\ Calling[s] = None
    BY <1>1 DEF CallIngest, Calling
  <2>2. Pending' = Pending \cup {o}
    BY <1>1 DEF CallIngest, Pending
  <2>. QED
    BY <1>1, <2>1, <2>2 DEF CallIngest, Promise!Offer, Calling, Pending
<1>2. ASSUME NEW s \in Sinks, NEW o \in Objects, EncodeFails(s, o)
      PROVE  Promise!Decline(s)
  <2>1. Calling' = Calling /\ Calling[s] = None /\ Pending' = Pending
    BY <1>2 DEF EncodeFails, Calling, Pending
  <2>. QED
    BY <1>2, <2>1 DEF EncodeFails, Promise!Decline, Calling, Pending
<1>3. ASSUME NEW s \in Sinks, Send(s) \/ BackoffOver(s) \/ Retries(s)
      PROVE  UNCHANGED Promise!terminalVars
  <2>1. UNCHANGED <<object, result, stored>>
    BY <1>3 DEF Send, Starts, BackoffOver, Retries, EndsAttempt
  <2>2. \A t \in Sinks : pc'[t] = "idle" <=> pc[t] = "idle"
    BY <1>3 DEF Send, Starts, BackoffOver, Retries, EndsAttempt
  <2>3. orphans' \in {orphans, orphans \cup {object[s]}} /\ pc[s] # "idle"
    BY <1>3 DEF Send, Starts, BackoffOver, Retries, EndsAttempt, Fails
  <2>4. Calling' = Calling /\ Pending' = Pending
    BY <2>1, <2>2, <2>3 DEF Calling, Pending
  <2>. QED  BY <2>1, <2>4 DEF Promise!terminalVars, Calling, Pending
<1>4. ASSUME NEW s \in Sinks, NEW a \in Answers, Serve(s, a)
      PROVE  Promise!Settle
  <2>1. Calling' = Calling /\ Pending' = Pending /\ object[s] \in Pending
    BY <1>4 DEF Serve, Calling, Pending
  <2>. QED
    BY <1>4, <2>1, Seen DEF Serve, Promise!Settle, Calling, Pending
<1>5. ASSUME NEW o \in Objects, ServeOrphan(o)  PROVE Promise!Settle
  <2>1. /\ Calling' = Calling /\ Pending' \in SUBSET Pending /\ o \in Pending
        /\ \A s \in Sinks : Calling[s] # None => Calling[s] \in Pending'
    BY <1>5 DEF ServeOrphan, Calling, Pending
  <2>. QED
    BY <1>5, <2>1 DEF ServeOrphan, Promise!Settle, Calling, Pending
<1>6. ASSUME NEW s \in Sinks, Committed(s)  PROVE Promise!Return(s, "ok")
  BY <1>6, ReturnSteps DEF Committed, OkInv
<1>7. ASSUME NEW s \in Sinks, Refused(s) \/ Exhausted(s)
      PROVE  Promise!Return(s, "err")
  BY <1>7, ReturnSteps DEF Refused, Exhausted, Fails
<1>8. CASE UNCHANGED hfVars
  BY <1>8 DEF hfVars, Promise!terminalVars
<1>. QED
  BY <1>1, <1>2, <1>3, <1>4, <1>5, <1>6, <1>7, <1>8
     DEF HfNext, AttemptEnds, Promise!TerminalNext

(* An Ok means that the repository has the window, it stays there, and     *)
(* only windows that were offered get there.                               *)
THEOREM HfKeepsPromise == HfSpec => KeepsTerminalPromise
<1>1. HfInit => Promise!TerminalInit
  BY DEF HfInit, Promise!TerminalInit
<1>. QED
  BY <1>1, StepKeepsPromise, HfSinkInv, PTL
     DEF HfSpec, KeepsTerminalPromise, Promise!TerminalSpec
=============================================================================
