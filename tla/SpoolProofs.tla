---------------------------- MODULE SpoolProofs ----------------------------
(***************************************************************************)
(* What Spool guarantees for every value of its constants.                 *)
(***************************************************************************)
EXTENDS Spool, TLAPS, FiniteSetTheorems

USE DEF Ops, Pcs

(* Records counted in a set of records make a natural number.              *)
LEMMA RecordsCount ==
    ASSUME NEW S \in SUBSET Records
    PROVE  Cardinality(S) \in Nat
BY StoreAssumption, FS_Subset, FS_CardinalityType DEF StoreAssumption

(* Aligning a clock reading gives a window key at or before it.            *)
LEMMA AlignTimes ==
    ASSUME NEW t \in Times
    PROVE  /\ Align(t) \in Windows
           /\ Align(t) \in Int
           /\ Align(t) <= t
BY TierAssumption, StoreAssumption
   DEF TierAssumption, StoreAssumption, Align, WindowSecs

(* Variables a call into the tier leaves alone: the typing of the store.   *)
LEMMA StoreSteps ==
    ASSUME StoreTypeOK, NEW w \in Windows, NEW R \in SUBSET Records
    PROVE  /\ StoreAppend(w, R) => StoreTypeOK'
           /\ StoreTear(w, R) => StoreTypeOK'
           /\ StoreCommit(w) => StoreTypeOK'
           /\ StoreCrash => StoreTypeOK'
           /\ UNCHANGED storeVars => StoreTypeOK'
<1>1. StoreAppend(w, R) => StoreTypeOK'
  BY DEF StoreTypeOK, StoreAppend
<1>2. StoreTear(w, R) => StoreTypeOK'
  BY DEF StoreTypeOK, StoreTear, storeVars
<1>3. StoreCommit(w) => StoreTypeOK'
  BY DEF StoreTypeOK, StoreCommit
<1>4. StoreCrash => StoreTypeOK'
  BY DEF StoreTypeOK, StoreCrash, storeVars
<1>5. UNCHANGED storeVars => StoreTypeOK'
  BY DEF StoreTypeOK, storeVars
<1>. QED  BY <1>1, <1>2, <1>3, <1>4, <1>5
-----------------------------------------------------------------------------
(* The inductive invariant of the calls.                                   *)
Inv == SpoolTypeOK /\ CallInv

(* It holds initially.                                                     *)
LEMMA InitInv == SpoolInit => Inv
<1>. SUFFICES ASSUME SpoolInit  PROVE Inv
  OBVIOUS
<1>1. StoreTypeOK
  BY DEF SpoolInit, StoreInit, StoreTypeOK
<1>2. TierTypeOK
  BY DEF SpoolInit, TierInit, TierTypeOK
<1>3. 0 \in 0..MaxCrashes
  BY SpoolAssumption DEF SpoolAssumption
<1>4. CallInv
  BY DEF SpoolInit, TierInit, CallInv
<1>. QED  BY <1>1, <1>2, <1>3, <1>4 DEF Inv, SpoolTypeOK, SpoolInit

(* What the moves between the parts of a call set.                         *)
Moved ==
    /\ pc' \in {"activate", "drain", "done"}
    /\ op' = op \/ op' = "ingest"
    /\ pc' = "activate" => op' = "ingest"
    /\ forced' \in BOOLEAN
    /\ cursor' \in Windows \cup {None}
    /\ failed' \in BOOLEAN

(* The head of ingest moves a call on.                                     *)
LEMMA BodyMoves ==
    ASSUME SpoolTypeOK, NEW R \in SUBSET Records, IngestBody(R)
    PROVE  Moved /\ op' = "ingest"
<1>1. (count >= MaxRecords) \in BOOLEAN
  OBVIOUS
<1>2. CASE R # {} /\ ToActivate
  BY <1>2 DEF SpoolTypeOK, TierTypeOK, IngestBody, ToActivate, Moved
<1>3. CASE R = {} /\ StartPass(count >= MaxRecords)
  BY <1>1, <1>3 DEF IngestBody, StartPass, Moved
<1>. QED  BY <1>2, <1>3 DEF IngestBody

(* So does the end of a call, which may be the head of ingest.             *)
LEMMA CompleteMoves ==
    ASSUME SpoolTypeOK, NEW ok \in BOOLEAN, Complete(ok)
    PROVE  /\ Moved
           /\ op' = op \/ (op = "init" /\ op' = "ingest")
<1>1. CASE op = "init" /\ IngestBody(arg)
  <2>1. arg \in SUBSET Records
    BY DEF SpoolTypeOK, TierTypeOK
  <2>. QED  BY <1>1, <2>1, BodyMoves
<1>2. CASE op # "init" /\ pc' = "done" /\ failed' = ~ok /\ UNCHANGED <<op, forced, cursor>>
  BY <1>2 DEF SpoolTypeOK, TierTypeOK, Moved
<1>. QED  BY <1>1, <1>2 DEF Complete

(* The calls from above keep the invariant.                                *)
LEMMA CallsKeepInv ==
    ASSUME Inv
    PROVE  /\ \A R \in SUBSET (Records \ used) : Ingest(R) => Inv'
           /\ Heartbeat => Inv'
           /\ Flush => Inv'
<1>. USE DEF Inv
<1>1. ASSUME NEW R \in SUBSET (Records \ used), Ingest(R)  PROVE Inv'
  <2>. USE <1>1 DEF Ingest, CallIngest, segVars, storeVars, envVars
  <2>1. Name \in Names
    BY TierAssumption DEF TierAssumption
  <2>2. StoreTypeOK'
    BY DEF SpoolTypeOK, StoreTypeOK
  <2>3. CASE initialized /\ IngestBody(R)
    <3>1. Moved /\ op' = "ingest"
      BY <2>3, BodyMoves
    <3>. QED  BY <2>1, <2>2, <3>1 DEF SpoolTypeOK, TierTypeOK, CallInv, Moved
  <2>4. CASE op' = "init" /\ ToActivate
    BY <2>1, <2>2, <2>4 DEF SpoolTypeOK, TierTypeOK, CallInv, ToActivate
  <2>. QED  BY <2>3, <2>4
<1>2. ASSUME Heartbeat  PROVE Inv'
  <2>. USE <1>2 DEF Heartbeat, CallAdvance, ToActivate, segVars, storeVars,
           envVars, histVars
  <2>1. SpoolTypeOK'
    BY DEF SpoolTypeOK, StoreTypeOK, TierTypeOK
  <2>2. CallInv'
    BY DEF CallInv, SpoolTypeOK
  <2>. QED  BY <2>1, <2>2
<1>3. ASSUME Flush  PROVE Inv'
  <2>. USE <1>3 DEF Flush, CallFlush, StartPass, segVars, storeVars, envVars,
           histVars
  <2>1. SpoolTypeOK'
    BY DEF SpoolTypeOK, StoreTypeOK, TierTypeOK
  <2>2. CallInv'
    BY DEF CallInv, SpoolTypeOK
  <2>. QED  BY <2>1, <2>2
<1>. QED  BY <1>1, <1>2, <1>3

(* A step of the tier that hands its call on to the next part.             *)
LEMMA HandsOn ==
    ASSUME Inv, Moved,
           op' = op \/ (op = "init" /\ op' = "ingest"),
           UNCHANGED <<active, count, initialized, pipeline, arg, at, win, batch>>,
           UNCHANGED <<remote, envVars, histVars>>,
           StoreTypeOK'
    PROVE  Inv'
<1>. USE DEF Inv
<1>1. TierTypeOK'
  BY DEF SpoolTypeOK, TierTypeOK, Moved
<1>2. SpoolTypeOK'
  BY <1>1 DEF SpoolTypeOK, envVars, histVars
<1>3. CallInv'
  BY DEF CallInv, SpoolTypeOK, TierTypeOK, Moved
<1>. QED  BY <1>2, <1>3

(* An append adds the batch to the segment of its window.                  *)
LEMMA AppendKeepsInv == Inv /\ Append => Inv'
<1>. SUFFICES ASSUME Inv, Append  PROVE Inv'
  OBVIOUS
<1>. USE DEF Inv, Append, AppendOk
<1>1. at \in Times /\ arg \in SUBSET Records
  BY DEF SpoolTypeOK, TierTypeOK, CallInv
<1>2. Align(at) \in Windows /\ Cardinality(arg) \in Nat
  BY <1>1, AlignTimes, RecordsCount
<1>3. StoreTypeOK'
  BY <1>1, <1>2, StoreSteps DEF SpoolTypeOK
<1>4. count' \in Nat
  BY <1>2 DEF SpoolTypeOK, TierTypeOK
<1>5. (count' >= MaxRecords) \in BOOLEAN
  OBVIOUS
<1>6. TierTypeOK'
  BY <1>4, <1>5 DEF SpoolTypeOK, TierTypeOK, StartPass, callVars, segVars
<1>7. SpoolTypeOK'
  BY <1>3, <1>6 DEF SpoolTypeOK, TierTypeOK, envVars
<1>8. CallInv'
  BY DEF CallInv, SpoolTypeOK, StartPass, callVars, segVars
<1>. QED  BY <1>7, <1>8

(* A pass checks out what the segment holds.                               *)
LEMMA ReadKeepsInv == ASSUME NEW w \in Windows  PROVE Inv /\ Read(w) => Inv'
<1>. SUFFICES ASSUME Inv, Read(w)  PROVE Inv'
  OBVIOUS
<1>. USE DEF Inv, Read, ReadOk, NextSegment, memVars, callVars, passVars,
         storeVars
<1>1. StoreTypeOK'
  BY DEF SpoolTypeOK, StoreTypeOK
<1>2. TierTypeOK'
  BY DEF SpoolTypeOK, TierTypeOK, StoreTypeOK
<1>3. SpoolTypeOK'
  BY <1>1, <1>2 DEF SpoolTypeOK, envVars
<1>4. CallInv'
  BY DEF CallInv, SpoolTypeOK
<1>. QED  BY <1>3, <1>4

(* The tier's own steps keep the invariant.                                *)
LEMMA StepKeepsInv == Inv /\ Step => Inv'
<1>. SUFFICES ASSUME Inv, Step  PROVE Inv'
  OBVIOUS
<1>. USE DEF Inv, Step
<1>0. /\ StoreTypeOK /\ TierTypeOK /\ CallInv
      /\ FALSE \in BOOLEAN /\ TRUE \in BOOLEAN
  BY DEF SpoolTypeOK
<1>1. CASE Activated
  <2>. USE <1>1 DEF Activated
  <2>1. at \in Times
    BY DEF CallInv
  <2>2. Align(at) \in Windows /\ Cardinality(held[Align(at)]) \in Nat
    BY <1>0, <2>1, AlignTimes, RecordsCount DEF StoreTypeOK
  <2>3. active' = Align(at) /\ count' \in Nat
    BY <1>0, <2>2 DEF Activate, TierTypeOK
  <2>4. StoreTypeOK'
    BY <1>0, StoreSteps, <2>2
  <2>5. (count' >= MaxRecords) \in BOOLEAN
    OBVIOUS
  <2>6. TierTypeOK'
    BY <1>0, <2>2, <2>3, <2>5
       DEF TierTypeOK, StartPass, passVars, segVars, callVars
  <2>7. SpoolTypeOK'
    BY <2>4, <2>6 DEF SpoolTypeOK, envVars, histVars
  <2>8. CallInv'
    BY <2>3 DEF CallInv, StartPass, segVars, callVars
  <2>. QED  BY <2>7, <2>8
<1>2. CASE ActivateFails \/ AppendFails \/ DrainEnds \/ OldestFails
  <2>1. StoreTypeOK'
    <3>1. CASE AppendFails
      BY <1>0, <3>1, AlignTimes, StoreSteps
         DEF AppendFails, CallInv, TierTypeOK
    <3>2. CASE ActivateFails \/ DrainEnds \/ OldestFails
      BY <1>0, <3>2
         DEF ActivateFails, DrainEnds, OldestFails, storeVars, StoreTypeOK
    <3>. QED  BY <1>2, <3>1, <3>2
  <2>2. CASE \E ok \in BOOLEAN : Complete(ok)
    <3>1. Moved /\ (op' = op \/ (op = "init" /\ op' = "ingest"))
      BY <2>2, CompleteMoves
    <3>. QED
      BY <1>2, <2>1, <3>1, HandsOn
         DEF ActivateFails, AppendFails, DrainEnds, OldestFails, memVars,
             segVars
  <2>3. CASE DrainEnds /\ pc' = "inner" /\ UNCHANGED <<op, passVars>>
    <3>. USE <2>3 DEF DrainEnds, memVars, passVars, segVars, storeVars
    <3>1. TierTypeOK'
      BY <1>0 DEF TierTypeOK
    <3>2. SpoolTypeOK'
      BY <2>1, <3>1 DEF SpoolTypeOK, envVars, histVars
    <3>3. CallInv'
      BY DEF CallInv
    <3>. QED  BY <3>2, <3>3
  <2>4. failed \in BOOLEAN /\ (~failed) \in BOOLEAN
    BY <1>0 DEF TierTypeOK
  <2>. QED
    BY <1>0, <1>2, <2>2, <2>3, <2>4
       DEF ActivateFails, AppendFails, DrainEnds, OldestFails
<1>3. ASSUME NEW w \in Windows, ReadFails(w)  PROVE Inv'
  <2>. USE <1>3 DEF ReadFails, NextSegment, Skip, memVars, callVars, storeVars
  <2>1. StoreTypeOK'
    BY <1>0 DEF StoreTypeOK
  <2>2. TierTypeOK'
    BY <1>0 DEF TierTypeOK
  <2>3. SpoolTypeOK'
    BY <2>1, <2>2 DEF SpoolTypeOK, envVars, histVars
  <2>4. CallInv'
    BY DEF CallInv
  <2>. QED  BY <2>3, <2>4
<1>4. CASE CommitOk
  <2>. USE <1>4 DEF CommitOk
  <2>1. StoreTypeOK'
    BY <1>0, StoreSteps DEF CallInv
  <2>2. TierTypeOK'
    BY <1>0 DEF TierTypeOK, callVars, passVars
  <2>3. SpoolTypeOK'
    BY <2>1, <2>2 DEF SpoolTypeOK, envVars, histVars
  <2>4. CallInv'
    BY DEF CallInv, callVars, passVars
  <2>. QED  BY <2>3, <2>4
<1>5. CASE CommitFails
  <2>. USE <1>5 DEF CommitFails, Skip, memVars, callVars, storeVars
  <2>1. StoreTypeOK'
    BY <1>0 DEF StoreTypeOK
  <2>2. TierTypeOK'
    BY <1>0 DEF TierTypeOK, CallInv
  <2>3. SpoolTypeOK'
    BY <2>1, <2>2 DEF SpoolTypeOK, envVars, histVars
  <2>4. CallInv'
    BY DEF CallInv
  <2>. QED  BY <2>3, <2>4
<1>6. CASE Return
  <2>. USE <1>6 DEF Return, memVars, segVars, storeVars
  <2>1. StoreTypeOK'
    BY <1>0 DEF StoreTypeOK
  <2>2. TierTypeOK'
    BY <1>0 DEF TierTypeOK
  <2>3. SpoolTypeOK'
    BY <2>1, <2>2 DEF SpoolTypeOK, envVars, histVars
  <2>4. CallInv'
    BY DEF CallInv
  <2>. QED  BY <2>3, <2>4
<1>. QED
  BY <1>1, <1>2, <1>3, <1>4, <1>5, <1>6 DEF TierStep

(* An uploaded object is well formed.                                      *)
LEMMA UploadsObject ==
    ASSUME Inv, pc = "offered", Upload
    PROVE  /\ remote' \in SUBSET Objects
           /\ Delivered' = Delivered \cup batch
<1>1. win \in Windows /\ batch \in SUBSET Records /\ remote \in SUBSET Objects
  BY DEF Inv, CallInv, SpoolTypeOK, TierTypeOK
<1>2. PipelineName \in Names
  BY TierAssumption DEF TierAssumption, PipelineName, Inv, SpoolTypeOK, TierTypeOK
<1>3. Path(win, batch) \in Objects /\ Path(win, batch).rows = batch
  BY <1>1, <1>2 DEF Path, Object, Objects
<1>. QED  BY <1>1, <1>3 DEF Upload, Delivered

(* Answers from below: a segment goes to commit once it is delivered.      *)
LEMMA AnswersKeepInv ==
    ASSUME Inv, NEW ok \in BOOLEAN,
           Accepts \/ Rejects \/ AcceptsLost \/ Answers(ok)
    PROVE  Inv'
<1>. USE DEF Inv
<1>0. StoreTypeOK /\ TierTypeOK /\ CallInv
  BY DEF SpoolTypeOK
<1>1. CASE Accepts
  <2>. USE <1>1 DEF Accepts, InnerAccepts, memVars, callVars, passVars,
           segVars, storeVars
  <2>1. remote' \in SUBSET Objects /\ Delivered' = Delivered \cup batch
    BY UploadsObject
  <2>2. SpoolTypeOK'
    BY <2>1 DEF SpoolTypeOK, StoreTypeOK, TierTypeOK, envVars, histVars
  <2>3. CallInv'
    BY <2>1 DEF CallInv
  <2>. QED  BY <2>2, <2>3
<1>2. CASE Rejects \/ AcceptsLost
  <2>. USE <1>2 DEF Rejects, AcceptsLost, InnerRejects, Skip, memVars,
           callVars, storeVars
  <2>1. remote' \in SUBSET Objects
    BY UploadsObject DEF SpoolTypeOK
  <2>2. TierTypeOK'
    BY <1>0 DEF TierTypeOK, CallInv
  <2>3. SpoolTypeOK'
    BY <1>0, <2>1, <2>2 DEF SpoolTypeOK, StoreTypeOK, envVars, histVars
  <2>4. CallInv'
    BY DEF CallInv
  <2>. QED  BY <2>3, <2>4
<1>3. CASE Answers(ok)
  <2>. USE <1>3 DEF Answers, InnerReturns
  <2>1. Moved /\ (op' = op \/ (op = "init" /\ op' = "ingest"))
    BY <1>0, CompleteMoves
  <2>2. StoreTypeOK'
    BY <1>0 DEF StoreTypeOK, storeVars
  <2>. QED  BY <2>1, <2>2, HandsOn DEF memVars, segVars
<1>. QED  BY <1>1, <1>2, <1>3

(* Time changes nothing a call knows.                                      *)
LEMMA TickKeepsInv == ASSUME NEW t \in Times  PROVE Inv /\ Tick(t) => Inv'
BY DEF Inv, SpoolTypeOK, StoreTypeOK, TierTypeOK, CallInv, Tick, storeVars,
       tierVars, memVars, passVars, segVars, histVars, Delivered

(* A crash ends the call in progress.                                      *)
LEMMA CrashKeepsInv == Inv /\ Crash => Inv'
<1>. SUFFICES ASSUME Inv, Crash  PROVE Inv'
  OBVIOUS
<1>. USE DEF Inv, Crash
<1>1. StoreTypeOK'
  <2>1. CASE pc = "append" /\ Durable
    BY <2>1, AlignTimes, StoreSteps DEF SpoolTypeOK, TierTypeOK, CallInv
  <2>2. CASE ~(pc = "append" /\ Durable)
    BY <2>2 DEF SpoolTypeOK, StoreTypeOK, StoreCrash, storeVars
  <2>. QED  BY <2>1, <2>2
<1>2. TierTypeOK'
  BY DEF TierReset, TierTypeOK
<1>3. crashes' \in 0..MaxCrashes
  BY SpoolAssumption DEF SpoolAssumption, SpoolTypeOK
<1>4. SpoolTypeOK'
  BY <1>1, <1>2, <1>3 DEF SpoolTypeOK, histVars
<1>5. CallInv'
  BY DEF CallInv, TierReset
<1>. QED  BY <1>4, <1>5

(* Stuttering.                                                             *)
LEMMA StutterKeepsInv == Inv /\ UNCHANGED spoolVars => Inv'
BY DEF Inv, SpoolTypeOK, StoreTypeOK, TierTypeOK, CallInv, spoolVars, storeVars,
       tierVars, memVars, passVars, segVars, envVars, histVars, Delivered

(* Every step keeps the invariant.                                         *)
LEMMA NextInv ==
    ASSUME Inv, [SpoolNext]_spoolVars
    PROVE  Inv'
<1>1. ASSUME NEW R \in SUBSET (Records \ used), Ingest(R)  PROVE Inv'
  BY <1>1, CallsKeepInv
<1>2. ASSUME Heartbeat \/ Flush  PROVE Inv'
  BY <1>2, CallsKeepInv
<1>3. ASSUME Append \/ Step  PROVE Inv'
  BY <1>3, AppendKeepsInv, StepKeepsInv
<1>4. ASSUME NEW w \in Windows, Read(w)  PROVE Inv'
  BY <1>4, ReadKeepsInv
<1>5. ASSUME Accepts \/ Rejects \/ AcceptsLost  PROVE Inv'
  BY <1>5, AnswersKeepInv
<1>6. ASSUME NEW ok \in BOOLEAN, Answers(ok)  PROVE Inv'
  BY <1>6, AnswersKeepInv
<1>7. ASSUME NEW t \in Times, Tick(t)  PROVE Inv'
  BY <1>7, TickKeepsInv
<1>8. ASSUME Crash \/ UNCHANGED spoolVars  PROVE Inv'
  BY <1>8, CrashKeepsInv, StutterKeepsInv
<1>. QED
  BY <1>1, <1>2, <1>3, <1>4, <1>5, <1>6, <1>7, <1>8 DEF SpoolNext, Busy

(* Types hold, and a call in progress keeps hold of its time, its window   *)
(* and the segment it has checked out.                                     *)
THEOREM SpoolInv == SpoolSpec => []Inv
BY InitInv, NextInv, PTL DEF SpoolSpec

(* Every variable keeps its type.                                          *)
COROLLARY TypeCorrect == SpoolSpec => []SpoolTypeOK
BY SpoolInv, PTL DEF Inv

-----------------------------------------------------------------------------
(* Spool implements Delivery.                                              *)

(* What is held and delivered are records.                                 *)
LEMMA HeldBounds ==
    /\ Inv => Held \in SUBSET Records /\ Delivered \in SUBSET Records
    /\ Inv' => Held' \in SUBSET Records /\ Delivered' \in SUBSET Records
BY DEF Inv, SpoolTypeOK, StoreTypeOK, Held, Delivered, Objects

(* What the store operations do to the records held.                       *)
LEMMA HeldAfter ==
    ASSUME StoreTypeOK, NEW w \in Windows, NEW R \in SUBSET Records
    PROVE  /\ StoreAppend(w, R) => Held \subseteq Held' /\ R \subseteq Held'
           /\ StoreTear(w, R) => Held \subseteq Held'
           /\ StoreCommit(w) => Held' \subseteq Held /\ Held \ Held' \subseteq held[w]
           /\ StoreCrash => Held' = IF Durable THEN Held ELSE {}
           /\ UNCHANGED held => Held' = Held
<1>. USE DEF StoreTypeOK, Held
<1>1. StoreAppend(w, R) => Held \subseteq Held' /\ R \subseteq Held'
  BY DEF StoreAppend
<1>2. StoreTear(w, R) => Held \subseteq Held'
  BY DEF StoreTear, storeVars
<1>3. StoreCommit(w) => Held' \subseteq Held /\ Held \ Held' \subseteq held[w]
  BY DEF StoreCommit
<1>4. StoreCrash => Held' = IF Durable THEN Held ELSE {}
  BY DEF StoreCrash, storeVars
<1>5. UNCHANGED held => Held' = Held
  OBVIOUS
<1>. QED  BY <1>1, <1>2, <1>3, <1>4, <1>5

(* Steps that neither store nor remove a record, nor upload one.           *)
LEMMA SilentSteps ==
    ASSUME Inv, UNCHANGED <<held, remote>>
    PROVE  UNCHANGED Promise!deliveryVars
BY HeldAfter DEF Promise!deliveryVars, Delivered, Held

(* Every step of the spool is a step of Delivery or changes neither the    *)
(* custody nor the destination.                                            *)
LEMMA StepDelivers ==
    ASSUME Inv, Inv', [SpoolNext]_spoolVars
    PROVE  [Promise!DeliveryNext]_(Promise!deliveryVars)
<1>0. /\ StoreTypeOK /\ Held \in SUBSET Records /\ Held' \in SUBSET Records
      /\ Delivered \in SUBSET Records /\ Delivered' \in SUBSET Records
  BY HeldBounds DEF Inv, SpoolTypeOK
<1>. USE DEF Promise!DeliveryNext
<1>1. CASE Append \/ (Step /\ AppendFails) \/ (Crash /\ pc = "append" /\ Durable)
  <2>1. Align(at) \in Windows /\ arg \in SUBSET Records
    BY <1>1, AlignTimes
       DEF Append, AppendOk, AppendFails, Crash, Inv, SpoolTypeOK, TierTypeOK,
           CallInv
  <2>2. StoreAppend(Align(at), arg) \/ StoreTear(Align(at), arg)
    BY <1>1 DEF Append, AppendOk, AppendFails, Crash
  <2>3. Held \subseteq Held'
    BY <1>0, <2>1, <2>2, HeldAfter
  <2>4. Delivered' = Delivered
    BY <1>1 DEF Append, Step, Crash, Delivered
  <2>. QED  BY <1>0, <2>3, <2>4 DEF Promise!Accept
<1>2. CASE Accepts \/ AcceptsLost
  <2>1. pc = "offered" /\ Upload
    BY <1>2 DEF Accepts, AcceptsLost, InnerAccepts, InnerRejects
  <2>2. Delivered' = Delivered \cup batch
    BY <2>1, UploadsObject
  <2>3. batch \subseteq Held
    BY <2>1 DEF Inv, CallInv, Held
  <2>4. Held' = Held
    BY <1>2 DEF Accepts, AcceptsLost, InnerAccepts, InnerRejects, storeVars, Held
  <2>. QED  BY <1>0, <2>2, <2>3, <2>4 DEF Promise!Deliver
<1>3. CASE Step /\ CommitOk
  <2>1. win \in Windows /\ held[win] \subseteq Delivered /\ StoreCommit(win)
    BY <1>3 DEF CommitOk, Inv, CallInv
  <2>2. Held' \subseteq Held /\ Held \ Held' \subseteq Delivered
    BY <1>0, <2>1, HeldAfter
  <2>3. Delivered' = Delivered
    BY <1>3 DEF Step, Delivered
  <2>. QED  BY <2>2, <2>3 DEF Promise!Release
<1>4. CASE Crash /\ ~(pc = "append" /\ Durable)
  <2>1. StoreCrash /\ Delivered' = Delivered
    BY <1>4 DEF Crash, Delivered
  <2>2. CASE Durable
    BY <2>1, <2>2 DEF StoreCrash, storeVars, Held, Promise!deliveryVars
  <2>3. CASE ~Durable
    <3>1. Held' = {}
      BY <2>1, <2>3 DEF StoreCrash, Held
    <3>. QED  BY <2>1, <2>3, <3>1 DEF Promise!Lose
  <2>. QED  BY <2>2, <2>3
<1>5. CASE \E R \in SUBSET (Records \ used) : Ingest(R)
  BY <1>5, SilentSteps DEF Ingest, CallIngest, storeVars
<1>6. CASE \/ Heartbeat \/ Flush \/ Rejects
           \/ \E w \in Windows : Read(w)
           \/ \E ok \in BOOLEAN : Answers(ok)
           \/ \E t \in Times : Tick(t)
           \/ UNCHANGED spoolVars
  BY <1>6, SilentSteps
     DEF Heartbeat, CallAdvance, Flush, CallFlush, Rejects, InnerRejects, Read,
         ReadOk, Answers, InnerReturns, Tick, spoolVars, storeVars
<1>7. CASE Step /\ (\/ Activated \/ ActivateFails \/ DrainEnds \/ OldestFails
                    \/ CommitFails \/ Return
                    \/ \E w \in Windows : ReadFails(w))
  BY <1>7, SilentSteps
     DEF Step, Activated, ActivateFails, DrainEnds, OldestFails, CommitFails,
         Return, ReadFails, storeVars
<1>. QED
  BY <1>1, <1>2, <1>3, <1>4, <1>5, <1>6, <1>7 DEF SpoolNext, Busy, Step, TierStep

(* A record taken into the spool leaves it only after the destination has  *)
(* it, and nothing else reaches the destination.                           *)
THEOREM SpoolDelivers == SpoolSpec => KeepsPromise
<1>1. SpoolInit => Promise!DeliveryInit
  BY DEF SpoolInit, StoreInit, Promise!DeliveryInit, Held, Delivered
<1>2. Inv /\ Inv' /\ [SpoolNext]_spoolVars
        => [Promise!DeliveryNext]_(Promise!deliveryVars)
  BY StepDelivers
<1>. QED
  BY <1>1, <1>2, SpoolInv, PTL DEF SpoolSpec, KeepsPromise, Promise!DeliverySpec

(* Records whose append returned Ok survive in a durable store or at the   *)
(* destination.                                                            *)
THEOREM RecordsKept == SpoolSpec => []Custody
<1>1. SpoolInit => Custody
  BY DEF SpoolInit, Custody
<1>2. Inv /\ Inv' /\ Custody /\ [SpoolNext]_spoolVars => Custody'
  <2>. SUFFICES ASSUME Inv, Inv', Custody, Durable, [SpoolNext]_spoolVars
                PROVE  acked' \subseteq Held' \cup Delivered'
    BY DEF Custody
  <2>1. acked \subseteq Held' \cup Delivered'
    <3>1. [Promise!DeliveryNext]_(Promise!deliveryVars)
      BY StepDelivers
    <3>2. Held \ Held' \subseteq Delivered' /\ Delivered \subseteq Delivered'
      BY <3>1
         DEF Promise!DeliveryNext, Promise!deliveryVars, Promise!Accept,
             Promise!Deliver, Promise!Release, Promise!Lose
    <3>. QED  BY <3>2 DEF Custody
  <2>2. CASE Append
    <3>1. arg \subseteq Held'
      BY <2>2, AlignTimes, HeldAfter
         DEF Append, AppendOk, Inv, SpoolTypeOK, TierTypeOK, CallInv
    <3>. QED  BY <2>1, <2>2, <3>1 DEF Append
  <2>3. CASE ~Append
    <3>1. acked' = acked
      BY <2>3
         DEF SpoolNext, Busy, Ingest, Heartbeat, Flush, Read, Step, Accepts, Rejects,
             AcceptsLost, Answers, Tick, Crash, spoolVars, histVars
    <3>. QED  BY <2>1, <3>1
  <2>. QED  BY <2>2, <2>3
<1>. QED  BY <1>1, <1>2, SpoolInv, PTL DEF SpoolSpec

-----------------------------------------------------------------------------
(* An unforced pass ships closed windows only.                             *)

(* Complete starts no pass in which there is something to append.          *)
LEMMA CompleteStartsNoPass ==
    ASSUME NEW ok \in BOOLEAN, Complete(ok), UNCHANGED arg
    PROVE  pc' \in {"activate", "done"} \/ (op' = "ingest" /\ arg' = {})
BY DEF Complete, IngestBody, ToActivate, StartPass

(* Every step keeps what an unforced pass knows of its windows.            *)
LEMMA NextPassInv ==
    ASSUME Inv, PassInv, [SpoolNext]_spoolVars
    PROVE  PassInv'
<1>. USE DEF PassInv
<1>1. CASE \E R \in SUBSET (Records \ used) : Ingest(R)
  BY <1>1 DEF Ingest, CallIngest, IngestBody, ToActivate, StartPass
<1>2. CASE Heartbeat \/ Flush
  BY <1>2 DEF Heartbeat, Flush, CallAdvance, CallFlush, ToActivate, StartPass
<1>3. CASE Append
  <2>1. at \in Times /\ active \in Windows /\ active = Align(at)
    BY <1>3, AlignTimes DEF Append, AppendOk, Inv, CallInv
  <2>. QED  BY <1>3, <2>1 DEF Append, AppendOk, StartPass, callVars
<1>4. ASSUME NEW w \in Windows, Read(w)  PROVE PassInv'
  <2>1. UNCHANGED <<active, forced, op, arg, at>> /\ pc = "drain" /\ win' = w
    BY <1>4 DEF Read, ReadOk, NextSegment, memVars, callVars, passVars
  <2>2. w \in segs /\ ~(~forced /\ active # None /\ w >= active)
    BY <1>4 DEF Read, ReadOk, NextSegment, PassEnds, Retained, IsOldest, Newer
  <2>3. active \in Windows => active # None /\ active \in Int /\ w \in Int
    BY StoreAssumption DEF StoreAssumption
  <2>. QED  BY <2>1, <2>2, <2>3
<1>5. CASE Step
  <2>1. CASE Activated
    <3>1. /\ at \in Times /\ active' \in Windows /\ active' = Align(at)
          /\ UNCHANGED <<at, arg, op>>
      BY <1>5, <2>1, AlignTimes DEF Activated, Activate, callVars, Inv, CallInv
    <3>. QED  BY <2>1, <3>1 DEF Activated, StartPass
  <2>2. CASE \E ok \in BOOLEAN : Complete(ok) /\ UNCHANGED arg
    BY <2>2, CompleteStartsNoPass
  <2>3. CASE ActivateFails \/ AppendFails \/ DrainEnds \/ OldestFails
    <3>1. failed \in BOOLEAN /\ (~failed) \in BOOLEAN
      BY DEF Inv, SpoolTypeOK, TierTypeOK
    <3>2. (\E ok \in BOOLEAN : Complete(ok) /\ UNCHANGED arg) \/ pc' = "inner"
      BY <2>3, <3>1 DEF ActivateFails, AppendFails, DrainEnds, OldestFails
    <3>. QED  BY <2>2, <3>2
  <2>4. CASE (\E w \in Windows : ReadFails(w)) \/ CommitFails
    BY <2>4 DEF ReadFails, NextSegment, CommitFails, Skip, memVars, callVars
  <2>5. CASE CommitOk
    <3>1. win \in Windows => win \in Int
      BY StoreAssumption DEF StoreAssumption
    <3>2. ~forced /\ (op = "ingest" => arg # {}) => win # active
      BY <2>5, <3>1 DEF CommitOk, Inv, CallInv
    <3>. QED  BY <2>5, <3>2 DEF CommitOk, callVars, passVars
  <2>6. CASE Return
    BY <2>6 DEF Return
  <2>. QED  BY <1>5, <2>1, <2>3, <2>4, <2>5, <2>6 DEF Step, TierStep
<1>6. CASE Accepts
  BY <1>6 DEF Accepts, InnerAccepts, memVars, callVars, passVars, segVars
<1>7. CASE Rejects \/ AcceptsLost
  BY <1>7 DEF Rejects, AcceptsLost, InnerRejects, Skip, memVars, callVars
<1>8. CASE \E ok \in BOOLEAN : Answers(ok)
  BY <1>8, CompleteStartsNoPass DEF Answers, InnerReturns
<1>9. CASE Crash
  BY <1>9 DEF Crash, TierReset
<1>10. CASE (\E t \in Times : Tick(t)) \/ UNCHANGED spoolVars
  BY <1>10 DEF Tick, spoolVars, tierVars, memVars, passVars, segVars
<1>. QED
  BY <1>1, <1>2, <1>3, <1>4, <1>5, <1>6, <1>7, <1>8, <1>9, <1>10 DEF SpoolNext, Busy

(* No partial window leaves the spool unless max_records or flush asks.    *)
THEOREM ShipsClosed == SpoolSpec => []ShipsClosedWindows
<1>1. SpoolInit => PassInv
  BY DEF SpoolInit, TierInit, PassInv
<1>2. Inv /\ PassInv /\ [SpoolNext]_spoolVars => PassInv'
  BY NextPassInv
<1>3. Inv /\ PassInv => ShipsClosedWindows
  <2>. SUFFICES ASSUME Inv, PassInv, pc = "offered", ~forced,
                       op = "ingest" => arg # {}
                PROVE  win + WindowSecs <= at
    BY DEF ShipsClosedWindows
  <2>1. /\ win \in Windows /\ win < active /\ at \in Times
        /\ active \in Windows /\ active = Align(at)
    BY DEF PassInv, Inv, CallInv
  <2>2. win + WindowSecs <= active
    BY <2>1, TierAssumption DEF TierAssumption
  <2>3. WindowSecs \in Int /\ win \in Int /\ at \in Int
    BY <2>1, StoreAssumption, TierAssumption
       DEF StoreAssumption, TierAssumption, WindowSecs
  <2>. QED  BY <2>1, <2>2, <2>3, AlignTimes
<1>. QED  BY <1>1, <1>2, <1>3, SpoolInv, PTL DEF SpoolSpec

-----------------------------------------------------------------------------
(* active_count is exact when no store call fails.                         *)

(* Every step keeps the records held among those handed over, and only the *)
(* append of a call stores its records.                                    *)
LEMMA NextFreshInv ==
    ASSUME Inv, FreshInv, [SpoolNext]_spoolVars
    PROVE  FreshInv'
<1>. USE DEF FreshInv
<1>1. CASE \E R \in SUBSET (Records \ used) : Ingest(R)
  BY <1>1 DEF Ingest, CallIngest, storeVars, Held
<1>2. CASE Heartbeat \/ Flush
  BY <1>2 DEF Heartbeat, Flush, CallAdvance, CallFlush, storeVars, histVars, Held
<1>3. CASE Append
  <2>1. Align(at) \in Windows /\ StoreTypeOK
    BY <1>3, AlignTimes DEF Append, AppendOk, Inv, SpoolTypeOK, CallInv
  <2>2. Held' \subseteq Held \cup arg
    BY <1>3, <2>1 DEF Append, AppendOk, StoreAppend, StoreTypeOK, Held
  <2>. QED  BY <1>3, <2>2 DEF Append, AppendOk, StartPass, callVars, Inv, CallInv
<1>4. CASE \E w \in Windows : Read(w)
  BY <1>4 DEF Read, ReadOk, NextSegment, callVars, storeVars, Held
<1>5. CASE Step
  <2>1. CASE Activated
    BY <1>5, <2>1
       DEF Activated, StartPass, callVars, storeVars, Step, histVars, Held
  <2>2. CASE ActivateFails \/ DrainEnds \/ OldestFails
    BY <1>5, <2>2
       DEF ActivateFails, DrainEnds, OldestFails, Complete, IngestBody,
           storeVars, Step, histVars, Held
  <2>3. CASE AppendFails
    <3>1. Align(at) \in Windows /\ StoreTypeOK /\ op = "ingest"
      BY <2>3, AlignTimes DEF AppendFails, Inv, SpoolTypeOK, CallInv
    <3>2. Held' \subseteq Held \cup arg
      BY <2>3, <3>1 DEF AppendFails, StoreTear, storeVars, StoreTypeOK, Held
    <3>3. pc' = "done" /\ op' = op /\ UNCHANGED <<arg, used>>
      BY <1>5, <2>3, <3>1 DEF AppendFails, Complete, Step, histVars
    <3>. QED  BY <3>1, <3>2, <3>3
  <2>4. CASE (\E w \in Windows : ReadFails(w)) \/ CommitFails \/ Return
    BY <1>5, <2>4
       DEF ReadFails, NextSegment, CommitFails, Return, Skip, callVars, storeVars,
           Step, histVars, Held
  <2>5. CASE CommitOk
    <3>1. Held' \subseteq Held
      BY <2>5, HeldAfter DEF CommitOk, Inv, SpoolTypeOK, CallInv
    <3>. QED  BY <1>5, <2>5, <3>1 DEF CommitOk, callVars, Step, histVars
  <2>. QED  BY <1>5, <2>1, <2>2, <2>3, <2>4, <2>5 DEF Step, TierStep
<1>6. CASE Accepts \/ Rejects \/ AcceptsLost
  BY <1>6
     DEF Accepts, Rejects, AcceptsLost, InnerAccepts, InnerRejects, Skip,
         callVars, storeVars, histVars, Held
<1>7. CASE \E ok \in BOOLEAN : Answers(ok)
  BY <1>7
     DEF Answers, InnerReturns, Complete, IngestBody, storeVars, histVars, Held
<1>8. CASE Crash
  <2>1. Held' \subseteq Held \cup arg
    <3>1. CASE pc = "append" /\ Durable
      BY <1>8, <3>1, AlignTimes
         DEF Crash, StoreTear, storeVars, StoreTypeOK, Held, Inv, SpoolTypeOK,
             CallInv
    <3>2. CASE ~(pc = "append" /\ Durable)
      BY <1>8, <3>2, HeldAfter DEF Crash, StoreCrash, storeVars, Held
    <3>. QED  BY <3>1, <3>2
  <2>. QED  BY <1>8, <2>1 DEF Crash, TierReset, histVars
<1>9. CASE (\E t \in Times : Tick(t)) \/ UNCHANGED spoolVars
  BY <1>9 DEF Tick, spoolVars, tierVars, callVars, storeVars, histVars, Held
<1>. QED
  BY <1>1, <1>2, <1>3, <1>4, <1>5, <1>6, <1>7, <1>8, <1>9 DEF SpoolNext, Busy

(* Every step keeps the count exact when no store call fails.              *)
LEMMA NextCountExact ==
    ASSUME ~StoreErrors, Inv, FreshInv, CountExact, [SpoolNext]_spoolVars
    PROVE  CountExact'
<1>0. StoreTypeOK /\ active \in Windows \cup {None}
  BY DEF Inv, SpoolTypeOK, TierTypeOK
<1>1. CASE UNCHANGED <<active, count, held>>
  BY <1>1 DEF CountExact
<1>2. CASE Append
  <2>. DEFINE w == Align(at)
  <2>1. w \in Windows /\ w # None /\ active = w
    BY <1>2, AlignTimes, StoreAssumption
       DEF Append, AppendOk, Inv, CallInv, StoreAssumption
  <2>2. arg \in SUBSET Records /\ held[w] \in SUBSET Records
    BY <2>1, <1>0 DEF Inv, SpoolTypeOK, TierTypeOK, StoreTypeOK
  <2>3. held[w] \cap arg = {}
    BY <1>2, <2>1 DEF FreshInv, Append, AppendOk, Inv, CallInv, Held
  <2>4. IsFiniteSet(held[w]) /\ IsFiniteSet(arg)
    BY <2>2, StoreAssumption, FS_Subset DEF StoreAssumption
  <2>5. Cardinality(held[w] \cup arg) = Cardinality(held[w]) + Cardinality(arg)
    <3>1. Cardinality(held[w] \cup arg)
            = Cardinality(held[w]) + Cardinality(arg) - Cardinality({})
      BY <2>3, <2>4, FS_Union
    <3>2. Cardinality(held[w]) \in Nat /\ Cardinality(arg) \in Nat
      BY <2>2, RecordsCount
    <3>. HIDE DEF w
    <3>. QED  BY <3>1, <3>2, FS_EmptySet
  <2>6. held'[w] = held[w] \cup arg
    BY <1>0, <1>2, <2>1 DEF Append, AppendOk, StoreAppend, StoreTypeOK
  <2>7. count' = Cardinality(held[w]) + Cardinality(arg) /\ active' = w
    BY <1>2, <2>1 DEF Append, AppendOk, CountExact
  <2>. QED  BY <2>5, <2>6, <2>7 DEF CountExact
<1>3. CASE Step /\ Activated
  <2>1. held' = held
    BY <1>3 DEF Activated, storeVars
  <2>. QED  BY <1>3, <2>1 DEF Activated, Activate, CountExact
<1>4. CASE Step /\ CommitOk
  <2>1. win # active => held'[active] = held[active] \/ active = None
    BY <1>0, <1>4 DEF CommitOk, StoreCommit, StoreTypeOK
  <2>. QED  BY <1>4, <2>1 DEF CommitOk, CountExact
<1>5. CASE Crash
  BY <1>5 DEF Crash, TierReset, CountExact
<1>6. CASE \E R \in SUBSET (Records \ used) : Ingest(R)
  BY <1>1, <1>6 DEF Ingest, CallIngest, storeVars
<1>7. CASE Step /\ AppendFails
  BY <1>7 DEF AppendFails
<1>8. CASE Step /\ (\/ ActivateFails \/ DrainEnds \/ OldestFails \/ CommitFails
                    \/ Return
                    \/ \E w \in Windows : ReadFails(w))
  BY <1>1, <1>8
     DEF ActivateFails, DrainEnds, OldestFails, CommitFails, Return, ReadFails,
         memVars, storeVars
<1>9. CASE \/ Heartbeat \/ Flush \/ Accepts \/ Rejects \/ AcceptsLost
           \/ \E w \in Windows : Read(w)
           \/ \E ok \in BOOLEAN : Answers(ok)
           \/ \E t \in Times : Tick(t)
           \/ UNCHANGED spoolVars
  BY <1>1, <1>9
     DEF Heartbeat, CallAdvance, Flush, CallFlush, Accepts, InnerAccepts,
         Rejects, AcceptsLost, InnerRejects, Read, ReadOk, Answers,
         InnerReturns, Tick, spoolVars, tierVars, memVars, storeVars
<1>. QED
  BY <1>2, <1>3, <1>4, <1>5, <1>6, <1>7, <1>8, <1>9 DEF SpoolNext, Busy, Step, TierStep

(* Without store errors active_count is what the active window holds, so   *)
(* max_records is compared with the truth after restarts and forced        *)
(* drains alike.                                                           *)
THEOREM CountIsExact ==
    ASSUME ~StoreErrors
    PROVE  SpoolSpec => []CountExact
<1>1. SpoolInit => FreshInv /\ CountExact
  BY DEF SpoolInit, TierInit, StoreInit, FreshInv, CountExact, Held
<1>2. Inv /\ FreshInv /\ CountExact /\ [SpoolNext]_spoolVars
        => FreshInv' /\ CountExact'
  BY NextFreshInv, NextCountExact
<1>. QED  BY <1>1, <1>2, SpoolInv, PTL DEF SpoolSpec

-----------------------------------------------------------------------------
(* What an Ok of a call means: the drain pass reached its end without an   *)
(* error, and an end without an error leaves nothing behind that it should *)
(* have shipped.                                                           *)

InPass == pc \in {"drain", "offered", "commit"}

(* What a pass without an error has established.                           *)
Through ==
    /\ op = "flush" => segs = {}
    /\ op = "advance" \/ (op = "ingest" /\ arg # {})
         => \A w \in segs : w + WindowSecs > at
    /\ active # None => count < MaxRecords \/ segs = {}

(* A pass without an error has skipped nothing; one that flush started is  *)
(* forced; one that is not found max_records not reached.                  *)
DrainInv ==
    /\ InPass =>
        /\ ~failed => cursor = None
        /\ op = "flush" => forced
        /\ ~forced /\ active # None => count < MaxRecords
    /\ pc = "inner" \/ (pc = "done" /\ ~failed) => Through

(* The window of a clock reading ends after it.                            *)
LEMMA AlignEnds ==
    ASSUME NEW t \in Times
    PROVE  Align(t) + WindowSecs > t
<1>1. t \in Int /\ WindowSecs \in Int /\ WindowSecs > 0
  BY TierAssumption DEF TierAssumption, WindowSecs
<1>2. t % WindowSecs \in 0..(WindowSecs - 1)
  BY <1>1
<1>. QED  BY <1>1, <1>2 DEF Align

(* A pass that ends without an error has shipped what it should have.      *)
LEMMA PassShips ==
    ASSUME Inv, PassInv, DrainInv, pc = "drain", PassEnds, ~failed
    PROVE  Through
<1>. USE DEF DrainInv, InPass
<1>1. Newer(cursor) = segs /\ segs \in SUBSET Windows
  BY DEF Newer, Inv, SpoolTypeOK, StoreTypeOK
<1>2. CASE segs = {}
  BY <1>2 DEF Through
<1>3. CASE segs # {}
  <2>1. PICK w \in segs : (\A v \in segs : w <= v) /\ Retained(w)
    BY <1>1, <1>3 DEF PassEnds, IsOldest
  <2>2. ~forced /\ active # None /\ w >= active
    BY <2>1 DEF Retained
  <2>3. ASSUME op = "advance" \/ (op = "ingest" /\ arg # {}), NEW v \in segs
        PROVE  v + WindowSecs > at
    <3>1. at \in Times /\ active = Align(at)
      BY <2>2, <2>3 DEF PassInv
    <3>2. v >= active /\ v \in Int
      <4>1. v \in Int /\ w \in Int /\ active \in Int
        BY <1>1, <3>1, AlignTimes, StoreAssumption DEF StoreAssumption
      <4>. QED  BY <2>1, <2>2, <4>1
    <3>3. at \in Int /\ WindowSecs \in Int /\ Align(at) \in Int
      BY <3>1, AlignTimes, TierAssumption DEF TierAssumption, WindowSecs
    <3>. QED  BY <3>1, <3>2, <3>3, AlignEnds
  <2>. QED  BY <2>2, <2>3 DEF Through
<1>. QED  BY <1>2, <1>3

(* A new pass.                                                             *)
LEMMA StartKeepsDrain ==
    ASSUME count' \in Nat, op' # "flush", StartPass(count' >= MaxRecords)
    PROVE  DrainInv'
<1>1. pc' = "drain" /\ cursor' = None /\ forced' = (count' >= MaxRecords)
  BY DEF StartPass
<1>2. ~(count' >= MaxRecords) => count' < MaxRecords
  BY TierAssumption DEF TierAssumption
<1>3. ~forced' => count' < MaxRecords
  BY <1>1, <1>2
<1>. QED  BY <1>1, <1>3 DEF DrainInv, InPass

(* The head of ingest.                                                     *)
LEMMA BodyKeepsDrain ==
    ASSUME count \in Nat, UNCHANGED count, NEW R, IngestBody(R)
    PROVE  DrainInv'
<1>1. CASE ToActivate
  BY <1>1 DEF ToActivate, DrainInv, InPass
<1>2. CASE StartPass(count >= MaxRecords)
  BY <1>2, StartKeepsDrain DEF IngestBody
<1>. QED  BY <1>1, <1>2 DEF IngestBody

(* The end of a call, or of the advance before its first ingest.           *)
LEMMA CompleteKeepsDrain ==
    ASSUME SpoolTypeOK, NEW ok \in BOOLEAN, Complete(ok),
           UNCHANGED <<active, count, arg, at>>,
           ok => Through /\ UNCHANGED segs
    PROVE  DrainInv'
<1>1. CASE op = "init" /\ IngestBody(arg)
  <2>1. count \in Nat
    BY DEF SpoolTypeOK, TierTypeOK
  <2>. QED  BY <1>1, <2>1, BodyKeepsDrain
<1>2. CASE op # "init" /\ pc' = "done" /\ failed' = ~ok /\ UNCHANGED <<op, forced, cursor>>
  BY <1>2 DEF DrainInv, InPass, Through, WindowSecs
<1>. QED  BY <1>1, <1>2 DEF Complete

(* Every step keeps it.                                                    *)
LEMMA NextDrainInv ==
    ASSUME Inv, Inv', PassInv, DrainInv, [SpoolNext]_spoolVars
    PROVE  DrainInv'
<1>0. /\ count \in Nat /\ count' \in Nat /\ SpoolTypeOK /\ MaxRecords \in Nat
      /\ failed \in BOOLEAN /\ (~failed) \in BOOLEAN
  BY TierAssumption DEF Inv, SpoolTypeOK, TierTypeOK, TierAssumption
<1>1. CASE \E R \in SUBSET (Records \ used) : Ingest(R)
  <2>1. PICK R \in SUBSET (Records \ used) : CallIngest(R, now)
    BY <1>1 DEF Ingest
  <2>2. CASE IngestBody(R)
    BY <1>0, <2>1, <2>2, BodyKeepsDrain DEF CallIngest
  <2>3. CASE ToActivate
    BY <2>3 DEF ToActivate, DrainInv, InPass
  <2>. QED  BY <2>1, <2>2, <2>3 DEF CallIngest
<1>2. CASE Heartbeat \/ Flush
  BY <1>2
     DEF Heartbeat, Flush, CallAdvance, CallFlush, ToActivate, StartPass,
         DrainInv, InPass
<1>3. CASE Append
  <2>1. op' # "flush"
    BY <1>3 DEF Append, AppendOk, callVars, Inv, CallInv
  <2>. QED  BY <1>0, <1>3, <2>1, StartKeepsDrain DEF Append, AppendOk
<1>4. CASE \E w \in Windows : Read(w)
  BY <1>4
     DEF Read, ReadOk, NextSegment, memVars, callVars, passVars, DrainInv, InPass
<1>5. CASE Step
  <2>1. CASE Activated
    <3>1. CASE op = "ingest"
      BY <2>1, <3>1 DEF Activated, callVars, DrainInv, InPass
    <3>2. CASE op # "ingest"
      <4>1. op' # "flush"
        BY <2>1, <3>2 DEF Activated, callVars, Inv, CallInv
      <4>. QED  BY <1>0, <2>1, <3>2, <4>1, StartKeepsDrain DEF Activated
    <3>. QED  BY <3>1, <3>2
  <2>2. CASE ActivateFails \/ AppendFails \/ OldestFails
    BY <1>0, <2>2, CompleteKeepsDrain
       DEF ActivateFails, AppendFails, OldestFails, memVars
  <2>3. CASE DrainEnds
    <3>1. ~failed => Through
      BY <2>3, PassShips DEF DrainEnds
    <3>2. CASE Complete(~failed)
      BY <1>0, <2>3, <3>1, <3>2, CompleteKeepsDrain
         DEF DrainEnds, memVars, storeVars
    <3>3. CASE ~failed /\ pc' = "inner" /\ UNCHANGED <<op, passVars>>
      BY <2>3, <3>1, <3>3
         DEF DrainEnds, memVars, storeVars, DrainInv, InPass, Through, WindowSecs
    <3>. QED  BY <2>3, <3>2, <3>3 DEF DrainEnds
  <2>4. CASE (\E w \in Windows : ReadFails(w)) \/ CommitFails
    BY <2>4
       DEF ReadFails, NextSegment, CommitFails, Skip, memVars, callVars,
           DrainInv, InPass
  <2>5. CASE CommitOk
    BY <2>5 DEF CommitOk, callVars, passVars, DrainInv, InPass
  <2>6. CASE Return
    BY <2>6 DEF Return, DrainInv, InPass
  <2>. QED
    BY <1>5, <2>1, <2>2, <2>3, <2>4, <2>5, <2>6 DEF Step, TierStep
<1>6. CASE Accepts \/ Rejects \/ AcceptsLost
  BY <1>6
     DEF Accepts, Rejects, AcceptsLost, InnerAccepts, InnerRejects, Skip,
         memVars, callVars, passVars, DrainInv, InPass
<1>7. ASSUME NEW ok \in BOOLEAN, Answers(ok)  PROVE DrainInv'
  <2>1. Through /\ Complete(ok) /\ UNCHANGED <<active, count, arg, at, segs>>
    BY <1>7 DEF Answers, InnerReturns, memVars, storeVars, DrainInv
  <2>. QED  BY <1>0, <2>1, CompleteKeepsDrain
<1>8. CASE Crash
  BY <1>8 DEF Crash, TierReset, DrainInv, InPass
<1>9. CASE (\E t \in Times : Tick(t)) \/ UNCHANGED spoolVars
  BY <1>9
     DEF Tick, spoolVars, tierVars, memVars, passVars, storeVars, DrainInv,
         InPass, Through, WindowSecs
<1>. QED
  BY <1>1, <1>2, <1>3, <1>4, <1>5, <1>6, <1>7, <1>8, <1>9 DEF SpoolNext, Busy

(* The invariants of a pass.                                               *)
THEOREM SpoolPasses == SpoolSpec => [](Inv /\ PassInv /\ DrainInv)
<1>1. SpoolInit => PassInv /\ DrainInv
  BY DEF SpoolInit, TierInit, PassInv, DrainInv, InPass
<1>2. Inv /\ Inv' /\ PassInv /\ DrainInv /\ [SpoolNext]_spoolVars
        => PassInv' /\ DrainInv'
  BY NextPassInv, NextDrainInv
<1>. QED  BY <1>1, <1>2, SpoolInv, PTL DEF SpoolSpec

(* An Ok of flush means that nothing is stored, one of advance or ingest   *)
(* that no closed window is.                                               *)
THEOREM OkIsDrained == SpoolSpec => []OkMeansDrained
<1>1. DrainInv => OkMeansDrained
  BY DEF DrainInv, Through, OkMeansDrained
<1>. QED  BY <1>1, SpoolPasses, PTL

(* Without store errors an Ok leaves fewer than max_records records in the *)
(* active window.                                                          *)
THEOREM ValveWorks ==
    ASSUME ~StoreErrors
    PROVE  SpoolSpec => []ValveFires
<1>1. Inv /\ DrainInv /\ CountExact => ValveFires
  <2>. SUFFICES ASSUME Inv, DrainInv, CountExact,
                       pc = "done", ~failed, active # None, held[active] # {}
                PROVE  Cardinality(held[active]) < MaxRecords
    BY DEF ValveFires
  <2>1. segs # {}
    BY DEF Inv, SpoolTypeOK, StoreTypeOK, TierTypeOK
  <2>2. count < MaxRecords
    BY <2>1 DEF DrainInv, Through
  <2>. QED  BY <2>2 DEF CountExact
<1>. QED  BY <1>1, SpoolPasses, CountIsExact, PTL

-----------------------------------------------------------------------------
(* A window is one object.                                                 *)

Closed(w, t) == w + WindowSecs <= t

Timed == op \in {"ingest", "init", "advance"}

(* Without steps of the clock nothing is stored for a window to come, the  *)
(* active window is the newest, and a call runs later than what it finds.  *)
ClockInv ==
    /\ Timed => at <= now
    /\ \A w \in segs : w <= now /\ (Timed => w <= at)
    /\ active # None =>
        /\ active <= now /\ (Timed => active <= at)
        /\ \A w \in segs : w <= active

(* The segment that is checked out is the oldest one not yet skipped; it   *)
(* is a window that a forced pass offered, or it is closed.                *)
OfferInv ==
    /\ pc # "idle" => op # "idle" /\ initialized
    /\ pc = "offered" => batch # {}
    /\ pc \in {"offered", "commit"} =>
        /\ win \in split \/ (~forced /\ Closed(win, at))
        /\ \A w \in Newer(cursor) : win <= w

(* With no active window to hold a pass back, every segment has been       *)
(* offered by force, is closed or cannot be read.                          *)
OpenInv ==
    ~StoreErrors /\ active = None /\ initialized /\ pc # "activate" =>
        \A w \in segs :
            \/ w \in broken
            \/ w \in split
            \/ Closed(w, now) /\ (Timed => Closed(w, at))
            \/ op = "flush" /\ InPass /\ w \in Newer(cursor)

(* The name an object may carry: the store's hint only after a restart.    *)
NameOf(o) == o.pipeline = Name \/ (o.pipeline = Hint /\ crashes > 0)

(* The first process has nothing stored before it has a name.              *)
NamedInv ==
    crashes = 0 /\ pipeline = None =>
        segs = {} /\ pc # "offered" /\ op \notin {"ingest", "init"}

(* An object has a name of this pipeline; unless a forced pass split it,   *)
(* its window is closed, and what is still stored of it is the same.       *)
ObjectInv ==
    /\ pipeline \in {None, Name}
    /\ \A o \in remote :
        /\ NameOf(o)
        /\ o.window \notin split =>
            /\ Closed(o.window, now) /\ (Timed => Closed(o.window, at))
            /\ held[o.window] \in {{}, o.rows}

WholeInv ==
    /\ ClockInv
    /\ OfferInv
    /\ OpenInv
    /\ NamedInv
    /\ ObjectInv
    /\ ClosedWindowIsOneObject

LEMMA TimeFacts ==
    /\ Windows \subseteq Int /\ Times \subseteq Int /\ None \notin Int
    /\ WindowSecs \in Int /\ WindowSecs > 0
BY StoreAssumption, TierAssumption DEF StoreAssumption, TierAssumption, WindowSecs

(* A window that has begun is the one of the clock reading or is closed.   *)
LEMMA WindowBelow ==
    ASSUME NEW w \in Windows, NEW t \in Times, w <= t
    PROVE  w <= Align(t) /\ (w # Align(t) => Closed(w, t))
<1>1. w \in Int /\ t \in Int /\ Align(t) \in Windows /\ Align(t) \in Int /\ Align(t) <= t
      /\ WindowSecs \in Int /\ WindowSecs > 0
  BY AlignTimes, TimeFacts
<1>2. ~(Align(t) < w)
  <2>. SUFFICES ASSUME Align(t) < w PROVE FALSE
    OBVIOUS
  <2>1. Align(t) + WindowSecs <= w
    BY <1>1, TierAssumption DEF TierAssumption
  <2>. QED  BY <1>1, <2>1, AlignEnds
<1>3. w < Align(t) => w + WindowSecs <= Align(t)
  BY <1>1, TierAssumption DEF TierAssumption
<1>. QED  BY <1>1, <1>2, <1>3 DEF Closed

(* What an append may touch, whatever becomes of it.                       *)
LEMMA AppendTouches ==
    ASSUME StoreTypeOK, NEW w \in Windows, NEW R \in SUBSET Records,
           StoreAppend(w, R) \/ StoreTear(w, R)
    PROVE  /\ segs' \subseteq segs \cup {w}
           /\ broken \subseteq broken'
           /\ \A v \in Windows : v # w => held'[v] = held[v]
           /\ held[w] \subseteq held'[w]
BY DEF StoreAppend, StoreTear, storeVars, StoreTypeOK

LEMMA WindowIsClosed ==
    ASSUME NEW t \in Times, NEW w \in Windows, Closed(w, t)
    PROVE  w # Align(t)
BY AlignTimes, AlignEnds, TimeFacts DEF Closed

(* The steps that append, well or badly.                                   *)
Appends ==
    /\ pc = "append"
    /\ StoreAppend(Align(at), arg) \/ StoreTear(Align(at), arg)

LEMMA AppendsTouch ==
    ASSUME Inv, Appends
    PROVE  /\ at \in Times /\ op = "ingest" /\ Align(at) \in Windows
           /\ active = Align(at) /\ active # None
           /\ segs' \subseteq segs \cup {Align(at)}
           /\ broken \subseteq broken'
           /\ \A v \in Windows : v # Align(at) => held'[v] = held[v]
<1>1. at \in Times /\ op = "ingest" /\ active = Align(at) /\ arg \in SUBSET Records
      /\ StoreTypeOK
  BY DEF Appends, Inv, CallInv, SpoolTypeOK, TierTypeOK
<1>2. Align(at) \in Windows
  BY <1>1, AlignTimes
<1>3. active # None
  BY <1>1, <1>2, TimeFacts
<1>. QED  BY <1>1, <1>2, <1>3, AppendTouches DEF Appends

(* The steps by what they do to the store.                                 *)
LEMMA StoreKinds ==
    ASSUME Durable, Inv, [SpoolNext]_spoolVars
    PROVE  \/ UNCHANGED storeVars
           \/ Appends
           \/ Step /\ CommitOk
<1>1. CASE Append \/ (Step /\ AppendFails) \/ Crash
  BY <1>1 DEF Append, AppendOk, AppendFails, Crash, StoreCrash, Appends
<1>2. CASE Step /\ ~AppendFails /\ ~CommitOk
  BY <1>2
     DEF Step, TierStep, Activated, ActivateFails, DrainEnds, OldestFails, ReadFails,
         CommitFails, Return
<1>3. CASE \/ \E R \in SUBSET (Records \ used) : Ingest(R)
           \/ Heartbeat \/ Flush \/ Accepts \/ Rejects \/ AcceptsLost
           \/ \E w \in Windows : Read(w)
           \/ \E ok \in BOOLEAN : Answers(ok)
           \/ \E t \in Times : Tick(t)
           \/ UNCHANGED spoolVars
  BY <1>3
     DEF Ingest, CallIngest, Heartbeat, CallAdvance, Flush, CallFlush, Accepts,
         InnerAccepts, Rejects, AcceptsLost, InnerRejects, Read, ReadOk, Answers,
         InnerReturns, Tick, spoolVars
<1>. QED  BY <1>1, <1>2, <1>3 DEF SpoolNext, Busy, Step

(* A call keeps its time; a new one has the clock's.                       *)
LEMMA TimeKinds ==
    ASSUME ~ClockSteps, Inv, [SpoolNext]_spoolVars
    PROVE  /\ now \in Int /\ now' \in Int /\ now <= now'
           /\ Timed' => (Timed /\ at' = at) \/ (pc = "idle" /\ at' = now /\ now' = now)
<1>0. now \in Times
  BY DEF Inv, SpoolTypeOK
<1>1. now' \in Times /\ now <= now'
  <2>1. CASE \E t \in Times : Tick(t)
    BY <1>0, <2>1, TimeFacts DEF Tick
  <2>2. CASE ~\E t \in Times : Tick(t)
    <3>1. now' = now
      BY <2>2
         DEF SpoolNext, Busy, Ingest, Heartbeat, Flush, Append, Read, Step, Accepts,
             Rejects, AcceptsLost, Answers, Crash, spoolVars, envVars
    <3>. QED  BY <1>0, <3>1, TimeFacts
  <2>. QED  BY <2>1, <2>2
<1>2. Timed' => (Timed /\ at' = at) \/ (pc = "idle" /\ at' = now /\ now' = now)
  <2>. USE DEF Timed
  <2>1. CASE (\E R \in SUBSET (Records \ used) : Ingest(R)) \/ Heartbeat \/ Flush
    BY <2>1
       DEF Ingest, CallIngest, Heartbeat, CallAdvance, Flush, CallFlush, envVars
  <2>2. CASE \/ Append \/ Accepts \/ Rejects \/ AcceptsLost \/ UNCHANGED spoolVars
             \/ \E w \in Windows : Read(w)
             \/ \E t \in Times : Tick(t)
    BY <2>2
       DEF Append, AppendOk, Read, ReadOk, Accepts, InnerAccepts, Rejects, AcceptsLost,
           InnerRejects, Tick, spoolVars, tierVars, callVars
  <2>3. CASE (\E ok \in BOOLEAN : Answers(ok)) \/ Crash
    BY <2>3 DEF Answers, InnerReturns, Complete, IngestBody, Crash, TierReset
  <2>4. CASE Step
    <3>1. CASE ActivateFails \/ AppendFails \/ DrainEnds \/ OldestFails
      BY <3>1
         DEF ActivateFails, AppendFails, DrainEnds, OldestFails, Complete, IngestBody
    <3>2. CASE Activated \/ CommitOk \/ CommitFails \/ Return
               \/ \E w \in Windows : ReadFails(w)
      BY <3>2 DEF Activated, CommitOk, CommitFails, Return, ReadFails, callVars
    <3>. QED  BY <2>4, <3>1, <3>2 DEF Step, TierStep
  <2>. QED  BY <2>1, <2>2, <2>3, <2>4 DEF SpoolNext, Busy
<1>3. now \in Int /\ now' \in Int
  BY <1>0, <1>1, TimeFacts
<1>. QED  BY <1>1, <1>2, <1>3

(* Only an activation makes another window the active one.                 *)
LEMMA ActiveKinds ==
    ASSUME Inv, [SpoolNext]_spoolVars
    PROVE  active' = active \/ active' = None \/ (Step /\ Activated)
<1>1. CASE Step
  BY <1>1
     DEF Step, TierStep, ActivateFails, AppendFails, DrainEnds, OldestFails, ReadFails,
         CommitOk, CommitFails, Return, memVars
<1>2. CASE ~Step
  BY <1>2
     DEF SpoolNext, Busy, Ingest, CallIngest, Heartbeat, CallAdvance, Flush, CallFlush,
         Append, AppendOk, Read, ReadOk, Accepts, InnerAccepts, Rejects, AcceptsLost,
         InnerRejects, Answers, InnerReturns, Tick, Crash, TierReset, spoolVars,
         tierVars, memVars
<1>. QED  BY <1>1, <1>2

(* Commits take segments away.                                             *)
LEMMA SegmentKinds ==
    ASSUME Durable, Inv, [SpoolNext]_spoolVars
    PROVE  segs' \subseteq segs \/ Appends
<1>1. Step /\ CommitOk => segs' \subseteq segs
  BY DEF CommitOk, StoreCommit
<1>. QED  BY <1>1, StoreKinds DEF storeVars

(* Every step keeps the windows in the order of time.                      *)
LEMMA NextClockInv ==
    ASSUME Durable, ~ClockSteps, Inv, Inv', ClockInv, [SpoolNext]_spoolVars
    PROVE  ClockInv'
<1>0. /\ segs \subseteq Windows /\ segs' \subseteq Windows
      /\ segs \subseteq Int /\ segs' \subseteq Int
      /\ Timed => at \in Int /\ at \in Times
      /\ active # None => active \in Int
  BY TimeFacts
     DEF Timed, Inv, SpoolTypeOK, StoreTypeOK, TierTypeOK, CallInv
<1>1. /\ now \in Int /\ now' \in Int /\ now <= now'
      /\ Timed' => (Timed /\ at' = at) \/ (pc = "idle" /\ at' = now /\ now' = now)
  BY TimeKinds
<1>2. Appends => /\ Timed /\ active = Align(at) /\ Align(at) \in Int /\ Align(at) <= at
                 /\ segs' \subseteq segs \cup {Align(at)} /\ pc # "idle" /\ at \in Times
  BY AppendsTouch, AlignTimes DEF Timed, Appends
<1>3. segs' \subseteq segs \/ Appends
  BY SegmentKinds
<1>4. Timed' => at' <= now'
  BY <1>0, <1>1 DEF ClockInv
<1>5. ASSUME NEW w \in segs'
      PROVE  w <= now' /\ (Timed' => w <= at')
  <2>1. w <= now /\ (Timed => w <= at)
    <3>1. CASE w \in segs
      BY <3>1 DEF ClockInv
    <3>2. CASE Appends /\ w = Align(at)
      <4>1. at <= now /\ at \in Int
        BY <1>0, <1>2, <3>2 DEF ClockInv
      <4>. QED  BY <1>1, <1>2, <3>2, <4>1
    <3>. QED  BY <1>2, <1>3, <3>1, <3>2
  <2>. QED  BY <1>0, <1>1, <2>1
<1>6. ASSUME active' # None
      PROVE  /\ active' <= now' /\ (Timed' => active' <= at')
             /\ \A w \in segs' : w <= active'
  <2>1. CASE active' = active
    <3>1. /\ active \in Int /\ active <= now /\ (Timed => active <= at)
          /\ \A w \in segs : w <= active
      BY <1>0, <1>6, <2>1 DEF ClockInv
    <3>2. active <= now' /\ (Timed' => active <= at')
      BY <1>0, <1>1, <3>1
    <3>3. \A w \in segs' : w <= active
      BY <1>0, <1>2, <1>3, <3>1
    <3>. QED  BY <2>1, <3>2, <3>3
  <2>2. CASE Step /\ Activated
    <3>1. /\ pc = "activate" /\ at' = at /\ active' = Align(at) /\ segs' = segs
          /\ now' = now
      BY <2>2 DEF Step, Activated, Activate, callVars, storeVars, envVars
    <3>2. Timed /\ at \in Times
      BY <3>1 DEF Inv, CallInv, Timed
    <3>3. Align(at) <= at /\ Align(at) \in Int /\ at \in Int /\ at <= now
      BY <3>2, AlignTimes, TimeFacts DEF ClockInv
    <3>4. \A w \in segs : w <= Align(at)
      BY <1>0, <3>2, WindowBelow DEF ClockInv
    <3>. QED  BY <1>1, <3>1, <3>3, <3>4
  <2>. QED  BY <1>6, <2>1, <2>2, ActiveKinds
<1>. QED  BY <1>4, <1>5, <1>6 DEF ClockInv

(* A segment is checked out by a read and stays so until it is committed   *)
(* or skipped.                                                             *)
LEMMA OfferKinds ==
    ASSUME Inv, [SpoolNext]_spoolVars, pc' \in {"offered", "commit"}
    PROVE  \/ \E w \in Windows : Read(w)
           \/ /\ pc \in {"offered", "commit"} /\ (pc' = "offered" => pc = "offered")
              /\ UNCHANGED <<win, batch, cursor, forced, op, at, segs, split>>
<1>1. CASE \/ \E R \in SUBSET (Records \ used) : Ingest(R)
           \/ Heartbeat \/ Flush \/ Append \/ Crash
           \/ \E ok \in BOOLEAN : Answers(ok)
  BY <1>1
     DEF Ingest, CallIngest, Heartbeat, CallAdvance, Flush, CallFlush, Append, AppendOk,
         Crash, TierReset, Answers, InnerReturns, Complete, IngestBody, ToActivate,
         StartPass
<1>2. CASE Step
  <2>1. CASE ActivateFails \/ AppendFails \/ DrainEnds \/ OldestFails
    BY <2>1
       DEF ActivateFails, AppendFails, DrainEnds, OldestFails, Complete, IngestBody,
           ToActivate, StartPass
  <2>2. CASE Activated \/ CommitOk \/ CommitFails \/ Return
             \/ \E w \in Windows : ReadFails(w)
    BY <2>2 DEF Activated, CommitOk, CommitFails, Return, ReadFails, StartPass, Skip
  <2>. QED  BY <1>2, <2>1, <2>2 DEF Step, TierStep
<1>3. CASE Accepts \/ Rejects \/ AcceptsLost
  BY <1>3
     DEF Accepts, InnerAccepts, Rejects, AcceptsLost, InnerRejects, Skip, callVars,
         passVars, segVars, storeVars, histVars
<1>4. CASE (\E t \in Times : Tick(t)) \/ UNCHANGED spoolVars
  BY <1>4
     DEF Tick, spoolVars, tierVars, memVars, callVars, passVars, segVars, storeVars, histVars
<1>. QED  BY <1>1, <1>2, <1>3, <1>4 DEF SpoolNext, Busy

(* A call runs on an initialized tier.                                     *)
LEMMA BusyIsInitialized ==
    ASSUME Inv, OfferInv, [SpoolNext]_spoolVars
    PROVE  pc' # "idle" => op' # "idle" /\ initialized'
<1>. USE DEF OfferInv
<1>1. CASE (\E R \in SUBSET (Records \ used) : Ingest(R)) \/ Heartbeat \/ Flush \/ Crash
  BY <1>1
     DEF Ingest, CallIngest, IngestBody, Heartbeat, CallAdvance, Flush, CallFlush, Crash,
         TierReset
<1>2. CASE Append \/ (\E w \in Windows : Read(w)) \/ Accepts \/ Rejects \/ AcceptsLost
           \/ (\E t \in Times : Tick(t)) \/ UNCHANGED spoolVars
  BY <1>2
     DEF Append, AppendOk, Read, ReadOk, NextSegment, Accepts, InnerAccepts, Rejects,
         AcceptsLost, InnerRejects, Tick, spoolVars, tierVars, callVars, memVars
<1>3. CASE \E ok \in BOOLEAN : Answers(ok)
  BY <1>3 DEF Answers, InnerReturns, Complete, IngestBody, memVars
<1>4. CASE Step
  <2>1. CASE ActivateFails \/ AppendFails \/ DrainEnds \/ OldestFails
    BY <2>1
       DEF ActivateFails, AppendFails, DrainEnds, OldestFails, Complete, IngestBody,
           memVars
  <2>2. CASE Activated \/ CommitOk \/ CommitFails \/ Return
             \/ \E w \in Windows : ReadFails(w)
    BY <2>2
       DEF Activated, CommitOk, CommitFails, Return, ReadFails, NextSegment, callVars,
           memVars
  <2>. QED  BY <1>4, <2>1, <2>2 DEF Step, TierStep
<1>. QED  BY <1>1, <1>2, <1>3, <1>4 DEF SpoolNext, Busy

(* What a pass that is not forced reads is closed, also without an active  *)
(* window to hold it back.                                                 *)
LEMMA NextOfferInv ==
    ASSUME Inv, DrainInv, PassInv, ClockInv, OpenInv, OfferInv, [SpoolNext]_spoolVars,
           StoreErrors /\ op = "ingest" => arg # {}
    PROVE  OfferInv'
<1>1. pc' # "idle" => op' # "idle" /\ initialized'
  BY BusyIsInitialized
<1>2. ASSUME NEW w \in Windows, Read(w)
      PROVE  /\ pc' = "offered" => batch' # {}
             /\ win' \in split' \/ (~forced' /\ Closed(win', at'))
             /\ \A v \in Newer(cursor)' : win' <= v
  <2>1. /\ win' = w /\ batch' = held[w] /\ pc' = IF held[w] = {} THEN "commit" ELSE "offered"
        /\ UNCHANGED <<forced, cursor, at, segs, held, broken>>
        /\ split' = IF forced THEN split \cup {w} ELSE split
        /\ pc = "drain" /\ w \notin broken /\ IsOldest(w, cursor)
        /\ w \in segs => ~Retained(w)
    BY <1>2
       DEF Read, ReadOk, NextSegment, PassEnds, Readable, callVars, passVars, storeVars
  <2>2. w \in segs /\ \A v \in Newer(cursor) : w <= v
    BY <2>1 DEF IsOldest, Newer
  <2>3. Newer(cursor)' = Newer(cursor)
    BY <2>1 DEF Newer
  <2>4. ASSUME ~forced
        PROVE  w \in split \/ Closed(w, at)
    <3>1. op # "idle" /\ op # "flush" /\ initialized
      BY <2>1, <2>4 DEF OfferInv, DrainInv, InPass
    <3>2. Timed /\ at \in Times
      BY <3>1 DEF Timed, Inv, CallInv, SpoolTypeOK, TierTypeOK
    <3>3. CASE active # None
      <4>1. /\ active \in Windows /\ active \in Int /\ w \in Int /\ at \in Int
            /\ WindowSecs \in Int
        BY <3>2, <3>3, TimeFacts DEF Inv, SpoolTypeOK, TierTypeOK
      <4>2. w < active
        BY <2>1, <2>2, <2>4, <3>3, <4>1 DEF Retained
      <4>3. w + WindowSecs <= active /\ active <= at
        BY <3>2, <3>3, <4>1, <4>2, TierAssumption DEF TierAssumption, ClockInv
      <4>. QED  BY <4>1, <4>3 DEF Closed
    <3>4. CASE active = None
      <4>1. op = "ingest" /\ arg = {}
        BY <2>1, <2>4, <3>4, TimeFacts DEF PassInv
      <4>2. ~StoreErrors
        BY <4>1
      <4>. QED
        BY <2>1, <2>2, <3>1, <3>2, <3>4, <4>2 DEF OpenInv
    <3>. QED  BY <3>3, <3>4
  <2>. QED  BY <2>1, <2>2, <2>3, <2>4
<1>3. ASSUME pc \in {"offered", "commit"}, pc' = "offered" => pc = "offered",
             UNCHANGED <<win, batch, cursor, forced, op, at, segs, split>>
      PROVE  /\ pc' = "offered" => batch' # {}
             /\ win' \in split' \/ (~forced' /\ Closed(win', at'))
             /\ \A v \in Newer(cursor)' : win' <= v
  BY <1>3 DEF OfferInv, Newer
<1>4. pc' \in {"offered", "commit"} =>
        /\ pc' = "offered" => batch' # {}
        /\ win' \in split' \/ (~forced' /\ Closed(win', at'))
        /\ \A v \in Newer(cursor)' : win' <= v
  BY <1>2, <1>3, OfferKinds
<1>. QED  BY <1>1, <1>4 DEF OfferInv

(* What a segment has come to with no active window to hold it back.       *)
Settled(w) ==
    \/ w \in broken
    \/ w \in split
    \/ Closed(w, now) /\ (Timed => Closed(w, at))

LEMMA SplitGrows == [SpoolNext]_spoolVars => split \subseteq split'
BY DEF SpoolNext, Busy, Ingest, Heartbeat, Flush, Append, Read, Step, Accepts, Rejects,
       AcceptsLost, Answers, Tick, Crash, spoolVars, histVars

LEMMA ClosedStays ==
    ASSUME Inv, NEW w \in Windows, [SpoolNext]_spoolVars, ~ClockSteps,
           Closed(w, now), Timed => Closed(w, at)
    PROVE  Closed(w, now') /\ (Timed' => Closed(w, at'))
<1>1. w \in Int /\ WindowSecs \in Int
  BY TimeFacts
<1>2. /\ now \in Int /\ now' \in Int /\ now <= now'
      /\ Timed' => (Timed /\ at' = at) \/ (pc = "idle" /\ at' = now /\ now' = now)
  BY TimeKinds
<1>. QED  BY <1>1, <1>2 DEF Closed

LEMMA SettledStays ==
    ASSUME Inv, NEW w \in Windows, [SpoolNext]_spoolVars, ~ClockSteps,
           Settled(w), w \in broken => w \in broken'
    PROVE  Settled(w)'
<1>1. CASE w \in broken \/ w \in split
  BY <1>1, SplitGrows DEF Settled
<1>2. CASE Closed(w, now) /\ (Timed => Closed(w, at))
  BY <1>2, ClosedStays DEF Settled
<1>. QED  BY <1>1, <1>2 DEF Settled

LEMMA NextOpenInv ==
    ASSUME ~ClockSteps, Inv, Inv', DrainInv, ClockInv, OfferInv, OpenInv,
           [SpoolNext]_spoolVars
    PROVE  OpenInv'
<1>. SUFFICES ASSUME ~StoreErrors, active' = None, initialized', pc' # "activate",
                     NEW w \in segs'
              PROVE  Settled(w)' \/ (op' = "flush" /\ InPass' /\ w \in Newer(cursor)')
  BY DEF OpenInv, Settled
<1>0. w \in Windows /\ w \in Int /\ segs \subseteq Windows
  BY TimeFacts DEF Inv, SpoolTypeOK, StoreTypeOK
(* A pass that goes on where it stood, or no pass.                         *)
<1>1. ASSUME active = None, initialized, pc # "activate",
             w \in segs, w \in broken => w \in broken',
             op = "flush" /\ InPass /\ w \in Newer(cursor) =>
                w \in broken \/ w \in split \/ (op' = "flush" /\ InPass' /\ w \in Newer(cursor)')
      PROVE  Settled(w)' \/ (op' = "flush" /\ InPass' /\ w \in Newer(cursor)')
  <2>1. Settled(w) \/ (op = "flush" /\ InPass /\ w \in Newer(cursor))
    BY <1>1 DEF OpenInv, Settled
  <2>2. Settled(w) \/ (op' = "flush" /\ InPass' /\ w \in Newer(cursor)')
    BY <1>1, <2>1 DEF Settled
  <2>. QED  BY <1>0, <1>1, <2>2, SettledStays
<1>2. CASE \E R \in SUBSET (Records \ used) : Ingest(R)
  <2>1. pc = "idle" /\ UNCHANGED <<active, segs, broken>>
        /\ (initialized \/ pc' = "activate")
    BY <1>2 DEF Ingest, CallIngest, ToActivate, storeVars
  <2>. QED  BY <1>1, <2>1 DEF InPass
<1>3. CASE Heartbeat
  BY <1>3 DEF Heartbeat, CallAdvance, ToActivate
<1>4. CASE Flush
  BY <1>4 DEF Flush, CallFlush, StartPass, InPass, Newer
<1>5. CASE Append \/ Crash
  <2>1. pc = "append" => active # None
    BY AlignTimes, TimeFacts DEF Inv, CallInv
  <2>. QED  BY <1>5, <2>1 DEF Append, AppendOk, Crash, TierReset
<1>6. CASE \E v \in Windows : Read(v)
  BY <1>1, <1>6
     DEF Read, ReadOk, NextSegment, memVars, callVars, passVars, storeVars, InPass, Newer
<1>7. CASE Step /\ Activated
  <2>1. active' = Align(at) /\ at \in Times
    BY <1>7 DEF Activated, Activate, Inv, CallInv
  <2>. QED  BY <2>1, AlignTimes, TimeFacts
<1>8. CASE Step /\ ActivateFails
  <2>1. /\ pc = "activate" /\ Align(at) \in broken
        /\ UNCHANGED <<segs, broken, at, now>>
    BY <1>8 DEF Step, ActivateFails, Readable, storeVars, envVars
  <2>2. at \in Times /\ Timed
    BY <2>1 DEF Inv, CallInv, Timed
  <2>3. w <= at /\ at <= now /\ at \in Int /\ now \in Int
    BY <2>1, <2>2, TimeFacts DEF ClockInv, Inv, SpoolTypeOK
  <2>4. CASE w = Align(at)
    BY <2>1, <2>4 DEF Settled
  <2>5. CASE w # Align(at)
    <3>1. Closed(w, at)
      BY <1>0, <2>2, <2>3, <2>5, WindowBelow
    <3>2. Closed(w, now)
      BY <1>0, <2>3, <3>1, TimeFacts DEF Closed
    <3>. QED  BY <2>1, <3>1, <3>2 DEF Settled
  <2>. QED  BY <2>4, <2>5
<1>9. CASE Step /\ DrainEnds
  <2>1. pc = "drain" /\ PassEnds /\ UNCHANGED <<active, initialized, segs, broken>>
    BY <1>9 DEF DrainEnds, memVars, storeVars
  <2>2. op = "flush" => Newer(cursor) = {}
    BY <2>1 DEF PassEnds, Retained, DrainInv, InPass
  <2>. QED  BY <1>1, <2>1, <2>2
<1>10. ASSUME NEW v \in Windows, Step, ReadFails(v)
       PROVE  Settled(w)' \/ (op' = "flush" /\ InPass' /\ w \in Newer(cursor)')
  <2>1. /\ pc = "drain" /\ pc' = "drain" /\ cursor' = v /\ v \in broken
        /\ v \in segs /\ \A u \in Newer(cursor) : v <= u
        /\ UNCHANGED <<active, initialized, op, segs, broken>>
    BY <1>10
       DEF ReadFails, NextSegment, IsOldest, Newer, Readable, Skip, memVars, callVars,
           storeVars
  <2>2. v \in Int
    BY TimeFacts
  <2>3. w \in Newer(cursor) => w = v \/ w \in Newer(cursor)'
    BY <1>0, <2>1, <2>2 DEF Newer
  <2>. QED  BY <1>1, <2>1, <2>3 DEF InPass
<1>11. CASE Step /\ CommitOk
  <2>1. /\ pc = "commit" /\ pc' = "drain" /\ segs' = segs \ {win} /\ broken' = broken \ {win}
        /\ win \in Windows
        /\ UNCHANGED <<initialized, op, at, cursor, now>>
    BY <1>11
       DEF Step, CommitOk, StoreCommit, callVars, passVars, envVars, Inv, CallInv
  <2>2. CASE active = None
    <3>1. w \in segs /\ (w \in broken => w \in broken')
      BY <2>1
    <3>2. w \in Newer(cursor) => w \in Newer(cursor)'
      BY <2>1 DEF Newer
    <3>. QED  BY <1>1, <2>1, <2>2, <3>1, <3>2 DEF InPass
  <2>3. CASE active # None
    <3>1. active = win /\ w # win /\ w \in segs
      BY <1>11, <2>1, <2>3 DEF CommitOk
    <3>2. /\ w <= active /\ active <= now /\ (Timed => active <= at)
          /\ active \in Int
      BY <2>1, <2>3, <3>1, TimeFacts DEF ClockInv
    <3>3. w + WindowSecs <= active
      BY <1>0, <2>1, <3>1, <3>2, TierAssumption DEF TierAssumption
    <3>4. now \in Int /\ (Timed => at \in Int) /\ WindowSecs \in Int
      BY TimeFacts DEF Inv, SpoolTypeOK, CallInv, Timed
    <3>5. Closed(w, now) /\ (Timed => Closed(w, at))
      BY <1>0, <3>2, <3>3, <3>4 DEF Closed
    <3>. QED  BY <2>1, <3>5 DEF Settled, Timed
  <2>. QED  BY <2>2, <2>3
<1>12. CASE Step /\ (AppendFails \/ OldestFails \/ CommitFails)
  BY <1>12 DEF AppendFails, OldestFails, CommitFails
<1>13. CASE Step /\ Return
  BY <1>1, <1>13 DEF Return, memVars, storeVars, InPass
<1>14. CASE Accepts
  BY <1>1, <1>14
     DEF Accepts, InnerAccepts, memVars, callVars, passVars, storeVars, InPass, Newer
<1>15. CASE Rejects \/ AcceptsLost
  <2>1. /\ pc = "offered" /\ pc' = "drain" /\ cursor' = win /\ win \in Windows
        /\ UNCHANGED <<active, initialized, op, segs, broken>>
    BY <1>15
       DEF Rejects, AcceptsLost, InnerRejects, Skip, memVars, callVars, storeVars, Inv,
           CallInv
  <2>2. op = "flush" => win \in split
    BY <2>1 DEF OfferInv, DrainInv, InPass
  <2>3. (\A u \in Newer(cursor) : win <= u) /\ win \in Int
    BY <2>1, TimeFacts DEF OfferInv
  <2>4. w \in Newer(cursor) => w = win \/ w \in Newer(cursor)'
    BY <1>0, <2>1, <2>3 DEF Newer
  <2>. QED  BY <1>1, <2>1, <2>2, <2>4 DEF InPass
<1>16. CASE \E ok \in BOOLEAN : Answers(ok)
  BY <1>1, <1>16 DEF Answers, InnerReturns, memVars, storeVars, InPass
<1>17. CASE (\E t \in Times : Tick(t)) \/ UNCHANGED spoolVars
  BY <1>1, <1>17
     DEF Tick, spoolVars, tierVars, memVars, passVars, storeVars, InPass, Newer
<1>. QED
  BY <1>2, <1>3, <1>4, <1>5, <1>6, <1>7, <1>8, <1>9, <1>10, <1>11, <1>12, <1>13, <1>14,
     <1>15, <1>16, <1>17 DEF SpoolNext, Busy, Step, TierStep

(* What reaches the destination.                                           *)
LEMMA RemoteKinds ==
    ASSUME Inv, [SpoolNext]_spoolVars
    PROVE  \/ remote' = remote
           \/ /\ pc = "offered" /\ remote' = remote \cup {Path(win, batch)}
              /\ UNCHANGED <<held, split, now>>
<1>1. CASE Accepts \/ AcceptsLost
  BY <1>1
     DEF Accepts, InnerAccepts, AcceptsLost, InnerRejects, Upload, storeVars, envVars, histVars
<1>2. CASE ~(Accepts \/ AcceptsLost)
  BY <1>2
     DEF SpoolNext, Busy, Ingest, Heartbeat, Flush, Append, Read, Step, Rejects, Answers,
         Tick, Crash, spoolVars
<1>. QED  BY <1>1, <1>2

LEMMA CrashesGrow == Inv /\ [SpoolNext]_spoolVars /\ crashes > 0 => crashes' > 0
BY DEF SpoolNext, Busy, Ingest, Heartbeat, Flush, Append, Read, Step, Accepts, Rejects,
       AcceptsLost, Answers, Tick, Crash, spoolVars, envVars, Inv, SpoolTypeOK

LEMMA PipelineKinds ==
    ASSUME Inv, [SpoolNext]_spoolVars
    PROVE  pipeline' \in {pipeline, None, Name}
<1>1. CASE Step
  BY <1>1
     DEF Step, TierStep, Activated, ActivateFails, AppendFails, DrainEnds, OldestFails,
         ReadFails, CommitOk, CommitFails, Return, memVars
<1>2. CASE ~Step
  BY <1>2
     DEF SpoolNext, Busy, Ingest, CallIngest, Heartbeat, CallAdvance, Flush, CallFlush,
         Append, AppendOk, Read, ReadOk, Accepts, InnerAccepts, Rejects, AcceptsLost,
         InnerRejects, Answers, InnerReturns, Tick, Crash, TierReset, spoolVars,
         tierVars, memVars
<1>. QED  BY <1>1, <1>2

(* What is stored of a closed window does not change until it is gone.     *)
LEMMA ClosedKeeps ==
    ASSUME Durable, Inv, [SpoolNext]_spoolVars, NEW w \in Windows, Timed => Closed(w, at)
    PROVE  held'[w] \in {{}, held[w]}
<1>1. CASE UNCHANGED storeVars
  BY <1>1 DEF storeVars
<1>2. CASE Appends
  <2>1. at \in Times /\ Timed /\ \A v \in Windows : v # Align(at) => held'[v] = held[v]
    BY <1>2, AppendsTouch DEF Timed
  <2>. QED  BY <2>1, WindowIsClosed
<1>3. CASE Step /\ CommitOk
  BY <1>3 DEF CommitOk, StoreCommit, Inv, SpoolTypeOK, StoreTypeOK
<1>. QED  BY <1>1, <1>2, <1>3, StoreKinds

LEMMA NextNamedInv ==
    ASSUME Inv, NamedInv, [SpoolNext]_spoolVars
    PROVE  NamedInv'
<1>. USE DEF NamedInv
<1>0. segs = {} => held = [w \in Windows |-> {}]
  BY DEF Inv, SpoolTypeOK, StoreTypeOK
<1>1. CASE \E R \in SUBSET (Records \ used) : Ingest(R)
  BY <1>1, TierAssumption DEF Ingest, CallIngest, TierAssumption
<1>2. CASE Heartbeat \/ Flush
  BY <1>2
     DEF Heartbeat, CallAdvance, ToActivate, Flush, CallFlush, StartPass, storeVars, envVars
<1>3. CASE Append
  BY <1>3 DEF Append, AppendOk, callVars, envVars, Inv, CallInv
<1>4. CASE \E w \in Windows : Read(w)
  BY <1>4 DEF Read, ReadOk, NextSegment, IsOldest, Newer, memVars, storeVars, envVars
<1>5. CASE Step
  <2>1. crashes' = crashes
    BY <1>5 DEF Step, envVars
  <2>2. CASE Activated
    BY <2>1, <2>2 DEF Activated, StartPass, callVars, storeVars
  <2>3. CASE ActivateFails \/ DrainEnds \/ OldestFails
    BY <2>1, <2>3 DEF ActivateFails, DrainEnds, OldestFails, Complete, memVars, storeVars
  <2>4. CASE AppendFails
    BY <2>1, <2>4 DEF AppendFails, Complete, memVars, Inv, CallInv
  <2>5. CASE CommitOk
    BY <2>1, <2>5 DEF CommitOk, StoreCommit, callVars
  <2>6. CASE (\E w \in Windows : ReadFails(w)) \/ CommitFails \/ Return
    BY <2>1, <2>6 DEF ReadFails, Skip, CommitFails, Return, memVars, callVars, storeVars
  <2>. QED  BY <1>5, <2>2, <2>3, <2>4, <2>5, <2>6 DEF Step, TierStep
<1>6. CASE Accepts \/ Rejects \/ AcceptsLost
  BY <1>6
     DEF Accepts, InnerAccepts, Rejects, AcceptsLost, InnerRejects, Skip, memVars,
         callVars, storeVars, envVars
<1>7. CASE \E ok \in BOOLEAN : Answers(ok)
  BY <1>7 DEF Answers, InnerReturns, Complete, memVars, storeVars, envVars
<1>8. CASE Crash
  BY <1>8 DEF Crash, Inv, SpoolTypeOK
<1>9. CASE (\E t \in Times : Tick(t)) \/ UNCHANGED spoolVars
  BY <1>9 DEF Tick, spoolVars, tierVars, memVars, storeVars, envVars
<1>. QED  BY <1>1, <1>2, <1>3, <1>4, <1>5, <1>6, <1>7, <1>8, <1>9 DEF SpoolNext, Busy

(* The object that an upload adds is new or there already.                 *)
LEMMA UploadIsSame ==
    ASSUME Inv, OfferInv, DrainInv, NamedInv, ObjectInv, ClockInv, pc = "offered"
    PROVE  /\ Path(win, batch) \in Objects
           /\ Path(win, batch).window = win /\ Path(win, batch).rows = batch
           /\ NameOf(Path(win, batch))
           /\ batch = held[win] /\ batch # {} /\ win \in Windows
           /\ win \notin split => Timed /\ Closed(win, at) /\ Closed(win, now)
           /\ \A o \in remote : o.window = win /\ win \notin split => o.rows = batch
<1>1. /\ win \in Windows /\ batch = held[win] /\ batch # {} /\ batch \in SUBSET Records
      /\ remote \in SUBSET Objects
  BY DEF Inv, CallInv, OfferInv, SpoolTypeOK, TierTypeOK
<1>2. PipelineName \in Names /\ (PipelineName = Name \/ (PipelineName = Hint /\ crashes > 0))
  <2>1. pipeline = None => crashes \in Nat /\ crashes # 0
    BY DEF NamedInv, Inv, SpoolTypeOK
  <2>. QED  BY <2>1, TierAssumption DEF TierAssumption, PipelineName, ObjectInv
<1>3. Path(win, batch) = [pipeline |-> PipelineName, window |-> win, rows |-> batch]
  BY <1>2 DEF Path, Object
<1>4. Path(win, batch) \in Objects
  BY <1>1, <1>2, <1>3 DEF Objects
<1>5. ASSUME win \notin split
      PROVE  Timed /\ Closed(win, at) /\ Closed(win, now)
  <2>1. ~forced /\ Closed(win, at) /\ op # "idle"
    BY <1>5 DEF OfferInv
  <2>2. op # "flush"
    BY <2>1 DEF DrainInv, InPass
  <2>3. Timed /\ at \in Int /\ at <= now /\ now \in Int /\ win \in Int /\ WindowSecs \in Int
    <3>1. Timed
      BY <2>1, <2>2 DEF Timed, Inv, SpoolTypeOK, TierTypeOK
    <3>. QED  BY <1>1, <3>1, TimeFacts DEF ClockInv, Timed, Inv, CallInv, SpoolTypeOK
  <2>. QED  BY <2>1, <2>3 DEF Closed
<1>6. ASSUME NEW o \in remote, o.window = win, win \notin split
      PROVE  o.rows = batch
  BY <1>1, <1>6 DEF ObjectInv
<1>. QED  BY <1>1, <1>2, <1>3, <1>4, <1>5, <1>6 DEF NameOf

LEMMA NextObjectInv ==
    ASSUME Durable, ~ClockSteps, Inv, Inv', DrainInv, ClockInv, OfferInv, NamedInv,
           ObjectInv, ClosedWindowIsOneObject, [SpoolNext]_spoolVars
    PROVE  ObjectInv' /\ ClosedWindowIsOneObject'
<1>1. pipeline' \in {None, Name}
  BY PipelineKinds DEF ObjectInv
<1>2. split \subseteq split'
  BY SplitGrows
(* What was known of an object stays true.                                 *)
<1>3. ASSUME NEW o \in Objects, NameOf(o),
             o.window \notin split =>
                /\ Closed(o.window, now) /\ (Timed => Closed(o.window, at))
                /\ held[o.window] \in {{}, o.rows}
      PROVE  /\ NameOf(o)'
             /\ o.window \notin split' =>
                  /\ Closed(o.window, now') /\ (Timed' => Closed(o.window, at'))
                  /\ held'[o.window] \in {{}, o.rows}
  <2>1. o.window \in Windows /\ NameOf(o)'
    BY <1>3, CrashesGrow DEF Objects, NameOf
  <2>2. CASE o.window \notin split
    <3>1. held'[o.window] \in {{}, held[o.window]}
      BY <1>3, <2>1, <2>2, ClosedKeeps
    <3>2. Closed(o.window, now') /\ (Timed' => Closed(o.window, at'))
      BY <1>3, <2>1, <2>2, ClosedStays
    <3>. QED  BY <1>3, <2>1, <2>2, <3>1, <3>2
  <2>3. CASE o.window \in split
    BY <1>2, <1>3, <2>1, <2>3
  <2>. QED  BY <2>2, <2>3
<1>4. remote \subseteq Objects
  BY DEF Inv, SpoolTypeOK
<1>5. CASE remote' = remote
  <2>1. ObjectInv'
    BY <1>1, <1>3, <1>4, <1>5 DEF ObjectInv, Timed
  <2>2. \A o \in remote' : o.pipeline = Name \/ (o.pipeline = Hint /\ crashes' > 0)
    BY <2>1 DEF ObjectInv, NameOf
  <2>. QED  BY <1>2, <1>5, <2>1, <2>2 DEF ClosedWindowIsOneObject
<1>6. CASE pc = "offered" /\ remote' = remote \cup {Path(win, batch)}
           /\ UNCHANGED <<held, split, now>>
  <2>. DEFINE p == Path(win, batch)
  <2>1. /\ p \in Objects /\ NameOf(p) /\ p.window = win /\ p.rows = held[win]
        /\ win \notin split => Closed(win, now) /\ (Timed => Closed(win, at))
        /\ \A o \in remote : o.window = win /\ win \notin split => o.rows = p.rows
    BY <1>6, UploadIsSame
  <2>. HIDE DEF p
  <2>2. ASSUME NEW o \in remote \cup {p}
        PROVE  /\ NameOf(o)
               /\ o.window \notin split =>
                    /\ Closed(o.window, now) /\ (Timed => Closed(o.window, at))
                    /\ held[o.window] \in {{}, o.rows}
    BY <2>1 DEF ObjectInv
  <2>3. ObjectInv'
    BY <1>1, <1>3, <1>4, <1>6, <2>1, <2>2 DEF ObjectInv, Timed, p
  <2>4. remote' = remote \cup {p} /\ split' = split /\ p.window = win
    BY <1>6, <2>1 DEF p
  <2>5. ASSUME NEW o1 \in remote \cup {p}, NEW o2 \in remote \cup {p},
               o1.window = o2.window, o1.window \notin split
        PROVE  o1.rows = o2.rows
    BY <2>1, <2>5 DEF ClosedWindowIsOneObject
  <2>6. \A o \in remote' : o.pipeline = Name \/ (o.pipeline = Hint /\ crashes' > 0)
    BY <2>3 DEF ObjectInv, NameOf
  <2>7. ClosedWindowIsOneObject'
    BY <2>4, <2>5, <2>6 DEF ClosedWindowIsOneObject
  <2>. QED  BY <2>3, <2>7
<1>. QED  BY <1>5, <1>6, RemoteKinds

LEMMA InitWholeInv == SpoolInit => WholeInv
BY DEF SpoolInit, TierInit, StoreInit, WholeInv, ClockInv, OfferInv, OpenInv, ObjectInv,
       NamedInv, Timed, ClosedWindowIsOneObject

LEMMA NextWholeInv ==
    ASSUME Durable, ~ClockSteps, Inv, PassInv, DrainInv, WholeInv,
           StoreErrors /\ op = "ingest" => arg # {}, [SpoolNext]_spoolVars
    PROVE  WholeInv'
<1>1. Inv'
  BY NextInv
<1>. QED
  BY <1>1, NextClockInv, NextOfferInv, NextOpenInv, NextNamedInv, NextObjectInv
     DEF WholeInv

(* A window that no forced pass touched has one content at the destination *)
(* (object_path in huggingface.rs), however often it is uploaded, under    *)
(* the pipeline's name or, from a restarted process that has not ingested, *)
(* under the store's hint; so it is one object where the two agree.  The   *)
(* records survive the process and the clock only goes forward. Without    *)
(* store errors: an empty ingest after a failed activation would drain the *)
(* open window too (tier.rs:298).                                          *)
THEOREM ClosedWindowsAreWhole ==
    ASSUME Durable, ~ClockSteps, ~StoreErrors
    PROVE  SpoolSpec => []ClosedWindowIsOneObject
<1>1. Inv /\ PassInv /\ DrainInv /\ WholeInv /\ [SpoolNext]_spoolVars => WholeInv'
  BY NextWholeInv
<1>2. WholeInv => ClosedWindowIsOneObject
  BY DEF WholeInv
<1>. QED  BY <1>1, <1>2, InitWholeInv, SpoolPasses, PTL DEF SpoolSpec

-----------------------------------------------------------------------------
(* Passes that nothing forces.                                             *)

(* active_count is not above what is stored, whatever the store does: a    *)
(* failed append may store more than it counts.                            *)
CountBelow ==
    IF active = None THEN count = 0 ELSE count <= Cardinality(held[active])

LEMMA GrownCount ==
    ASSUME NEW S \in SUBSET Records, NEW T \in SUBSET S
    PROVE  Cardinality(T) <= Cardinality(S)
BY StoreAssumption, FS_Subset DEF StoreAssumption

LEMMA NextCountBelow ==
    ASSUME Inv, Inv', FreshInv, CountBelow, [SpoolNext]_spoolVars
    PROVE  CountBelow'
<1>0. StoreTypeOK /\ StoreTypeOK' /\ active \in Windows \cup {None} /\ count \in Nat
  BY DEF Inv, SpoolTypeOK, TierTypeOK
<1>1. CASE UNCHANGED <<active, count, held>>
  BY <1>1 DEF CountBelow
<1>2. CASE Append
  <2>. DEFINE w == Align(at)
  <2>1. w \in Windows /\ w # None /\ active = w /\ pc = "append" /\ op = "ingest"
    BY <1>2, AlignTimes, StoreAssumption
       DEF Append, AppendOk, Inv, CallInv, StoreAssumption
  <2>2. arg \in SUBSET Records /\ held[w] \in SUBSET Records /\ held[w] \cap arg = {}
    BY <1>0, <2>1 DEF Inv, SpoolTypeOK, TierTypeOK, StoreTypeOK, FreshInv, Held
  <2>3. IsFiniteSet(held[w]) /\ IsFiniteSet(arg)
    BY <2>2, StoreAssumption, FS_Subset DEF StoreAssumption
  <2>4. /\ Cardinality(held[w] \cup arg)
             = Cardinality(held[w]) + Cardinality(arg) - Cardinality(held[w] \cap arg)
        /\ Cardinality(held[w]) \in Nat /\ Cardinality(arg) \in Nat
        /\ Cardinality(held[w] \cap arg) = 0
    BY <2>2, <2>3, FS_Union, RecordsCount, FS_EmptySet
  <2>5. held'[w] = held[w] \cup arg /\ count' = count + Cardinality(arg) /\ active' = w
    BY <1>0, <1>2, <2>1 DEF Append, AppendOk, StoreAppend, StoreTypeOK
  <2>6. count <= Cardinality(held[w])
    BY <2>1 DEF CountBelow
  <2>7. Cardinality(held'[w]) = Cardinality(held[w]) + Cardinality(arg)
    <3>. HIDE DEF w
    <3>. QED  BY <2>4, <2>5
  <2>. HIDE DEF w
  <2>8. count' <= Cardinality(held'[w])
    BY <1>0, <2>4, <2>5, <2>6, <2>7
  <2>. QED  BY <2>1, <2>5, <2>8 DEF CountBelow
<1>3. CASE Step /\ AppendFails
  <2>1. /\ at \in Times /\ arg \in SUBSET Records /\ active = Align(at)
        /\ UNCHANGED <<active, count>> /\ StoreTear(Align(at), arg)
    BY <1>3
       DEF AppendFails, memVars, Inv, CallInv, SpoolTypeOK, TierTypeOK
  <2>2. active \in Windows /\ held[active] \subseteq held'[active]
    BY <1>0, <2>1, AlignTimes, AppendTouches
  <2>3. held'[active] \in SUBSET Records
    BY <1>0, <2>2 DEF StoreTypeOK
  <2>4. /\ Cardinality(held[active]) <= Cardinality(held'[active])
        /\ Cardinality(held[active]) \in Nat /\ Cardinality(held'[active]) \in Nat
    <3>1. held[active] \in SUBSET Records
      BY <2>2, <2>3
    <3>. QED  BY <2>2, <2>3, <3>1, GrownCount, RecordsCount
  <2>. QED  BY <1>0, <2>1, <2>2, <2>4 DEF CountBelow
<1>4. CASE Step /\ Activated
  <2>1. \/ UNCHANGED <<active, count, held>>
        \/ active' = Align(at) /\ count' = Cardinality(held'[Align(at)]) /\ at \in Times
    BY <1>4 DEF Activated, Activate, storeVars, Inv, CallInv
  <2>2. at \in Times => Align(at) # None /\ Align(at) \in Windows
    BY AlignTimes, TimeFacts
  <2>3. at \in Times => Cardinality(held'[Align(at)]) \in Nat
    BY <1>0, <2>2, RecordsCount DEF StoreTypeOK
  <2>. QED  BY <1>1, <2>1, <2>2, <2>3 DEF CountBelow
<1>5. CASE Step /\ CommitOk
  <2>1. win # active /\ active # None => held'[active] = held[active]
    BY <1>0, <1>5 DEF CommitOk, StoreCommit, StoreTypeOK
  <2>. QED  BY <1>5, <2>1 DEF CommitOk, CountBelow
<1>6. CASE Crash
  BY <1>6 DEF Crash, TierReset, CountBelow
<1>7. CASE \E R \in SUBSET (Records \ used) : Ingest(R)
  BY <1>1, <1>7 DEF Ingest, CallIngest, storeVars
<1>8. CASE Step /\ (\/ ActivateFails \/ DrainEnds \/ OldestFails \/ CommitFails
                    \/ Return
                    \/ \E w \in Windows : ReadFails(w))
  BY <1>1, <1>8
     DEF ActivateFails, DrainEnds, OldestFails, CommitFails, Return, ReadFails,
         memVars, storeVars
<1>9. CASE \/ Heartbeat \/ Flush \/ Accepts \/ Rejects \/ AcceptsLost
           \/ \E w \in Windows : Read(w)
           \/ \E ok \in BOOLEAN : Answers(ok)
           \/ \E t \in Times : Tick(t)
           \/ UNCHANGED spoolVars
  BY <1>1, <1>9
     DEF Heartbeat, CallAdvance, Flush, CallFlush, Accepts, InnerAccepts,
         Rejects, AcceptsLost, InnerRejects, Read, ReadOk, Answers,
         InnerReturns, Tick, spoolVars, tierVars, memVars, storeVars
<1>. QED
  BY <1>2, <1>3, <1>4, <1>5, <1>6, <1>7, <1>8, <1>9 DEF SpoolNext, Busy, Step, TierStep

(* The tier's count never exceeds what the active window holds: a failed   *)
(* append (tier.rs, ingest) adds to the segment and not to the count, and  *)
(* the valve may fire late but never early.                                *)
THEOREM CountIsBelow == SpoolSpec => [](FreshInv /\ CountBelow)
<1>1. SpoolInit => FreshInv /\ CountBelow
  BY DEF SpoolInit, TierInit, StoreInit, FreshInv, CountBelow, Held
<1>2. Inv /\ Inv' /\ FreshInv /\ CountBelow /\ [SpoolNext]_spoolVars
        => FreshInv' /\ CountBelow'
  BY NextFreshInv, NextCountBelow
<1>. QED  BY <1>1, <1>2, SpoolInv, PTL DEF SpoolSpec

(* What an ingest is still to append is not acknowledged yet.              *)
AckedInv ==
    /\ acked \subseteq used
    /\ op = "init" \/ (op = "ingest" /\ pc \in {"activate", "append"})
         => arg \cap acked = {}

LEMMA NextAckedInv ==
    ASSUME Inv, FreshInv, AckedInv, [SpoolNext]_spoolVars
    PROVE  AckedInv'
<1>. USE DEF AckedInv
<1>1. CASE \E R \in SUBSET (Records \ used) : Ingest(R)
  BY <1>1 DEF Ingest, CallIngest
<1>2. CASE Append
  <2>1. op = "ingest" /\ op' = op /\ pc' = "drain" /\ arg \subseteq used
    BY <1>2 DEF Append, AppendOk, StartPass, callVars, Inv, CallInv, FreshInv
  <2>. QED  BY <1>2, <2>1 DEF Append
<1>3. CASE Step
  <2>1. UNCHANGED <<used, acked>>
    BY <1>3 DEF Step, histVars
  <2>2. CASE Activated
    BY <2>1, <2>2 DEF Activated, StartPass, callVars
  <2>3. CASE ActivateFails \/ DrainEnds \/ OldestFails
    BY <2>1, <2>3 DEF ActivateFails, DrainEnds, OldestFails, Complete, IngestBody
  <2>4. CASE AppendFails
    <3>1. op = "ingest"
      BY <2>4 DEF AppendFails, Inv, CallInv
    <3>. QED  BY <2>1, <2>4, <3>1 DEF AppendFails, Complete
  <2>5. CASE (\E w \in Windows : ReadFails(w)) \/ CommitOk \/ CommitFails \/ Return
    BY <2>1, <2>5
       DEF ReadFails, NextSegment, CommitOk, CommitFails, Return, Skip, callVars
  <2>. QED  BY <1>3, <2>2, <2>3, <2>4, <2>5 DEF Step, TierStep
<1>4. CASE \E ok \in BOOLEAN : Answers(ok)
  BY <1>4 DEF Answers, InnerReturns, Complete, IngestBody, histVars
<1>5. CASE Crash
  BY <1>5 DEF Crash, TierReset, histVars
<1>6. CASE \/ Heartbeat \/ Flush \/ Accepts \/ Rejects \/ AcceptsLost
           \/ \E w \in Windows : Read(w)
           \/ \E t \in Times : Tick(t)
           \/ UNCHANGED spoolVars
  BY <1>6
     DEF Heartbeat, CallAdvance, Flush, CallFlush, Accepts, InnerAccepts,
         Rejects, AcceptsLost, InnerRejects, Skip, Read, ReadOk, NextSegment,
         Tick, spoolVars, tierVars, callVars, histVars
<1>. QED  BY <1>1, <1>2, <1>3, <1>4, <1>5, <1>6 DEF SpoolNext, Busy

(* The count has every acknowledged record of the active window: it grows  *)
(* with every append that returned Ok, and activate takes it from the      *)
(* store.                                                                  *)
LEMMA NextCountCovers ==
    ASSUME Inv, Inv', FreshInv, AckedInv, CountBelow, CountBelow', CountCovers,
           [SpoolNext]_spoolVars
    PROVE  CountCovers'
<1>0. /\ StoreTypeOK /\ StoreTypeOK' /\ active \in Windows \cup {None} /\ count \in Nat
      /\ active' \in Windows \cup {None} /\ count' \in Nat
  BY DEF Inv, SpoolTypeOK, TierTypeOK
<1>1. active' # None => count' <= Cardinality(held'[active'])
  BY DEF CountBelow
<1>. SUFFICES ASSUME active' # None
              PROVE  Cardinality(held'[active'] \cap acked') <= count'
  BY <1>1 DEF CountCovers
<1>. DEFINE Safe(w) == held[w] \cap acked
            NextSafe(w) == held'[w] \cap acked'
<1>2. \A w \in Windows : /\ Safe(w) \in SUBSET Records /\ NextSafe(w) \in SUBSET Records
                         /\ held[w] \in SUBSET Records /\ held'[w] \in SUBSET Records
  BY <1>0 DEF StoreTypeOK
<1>3. /\ active' \in Windows
      /\ active # None => active \in Windows /\ Cardinality(Safe(active)) <= count
  BY <1>0 DEF CountCovers
(* The same window and count, and no acknowledged record more.             *)
<1>4. ASSUME UNCHANGED <<active, count>>, NextSafe(active) \subseteq Safe(active)
      PROVE  Cardinality(NextSafe(active')) <= count'
  <2>1. active \in Windows /\ Safe(active) \in SUBSET Records
    BY <1>2, <1>3, <1>4
  <2>2. Cardinality(NextSafe(active)) <= Cardinality(Safe(active))
    BY <1>4, <2>1, GrownCount
  <2>3. Cardinality(NextSafe(active)) \in Nat /\ Cardinality(Safe(active)) \in Nat
    BY <1>2, <2>1, RecordsCount
  <2>. HIDE DEF Safe, NextSafe
  <2>. QED  BY <1>0, <1>3, <1>4, <2>2, <2>3
<1>5. CASE Append
  <2>. DEFINE w == Align(at)
  <2>1. w \in Windows /\ w # None /\ active = w /\ pc = "append" /\ op = "ingest"
    BY <1>5, AlignTimes, StoreAssumption
       DEF Append, AppendOk, Inv, CallInv, StoreAssumption
  <2>2. /\ arg \in SUBSET Records /\ arg \cap held[w] = {} /\ arg \cap acked = {}
    BY <2>1 DEF Inv, SpoolTypeOK, TierTypeOK, FreshInv, AckedInv, Held
  <2>3. held'[w] = held[w] \cup arg /\ count' = count + Cardinality(arg) /\ active' = w
        /\ acked' = acked \cup arg
    BY <1>0, <1>5, <2>1 DEF Append, AppendOk, StoreAppend, StoreTypeOK
  <2>4. NextSafe(w) = Safe(w) \cup arg /\ Safe(w) \cap arg = {}
    BY <2>2, <2>3
  <2>5. /\ IsFiniteSet(Safe(w)) /\ IsFiniteSet(arg)
        /\ Cardinality(Safe(w)) \in Nat /\ Cardinality(arg) \in Nat
    BY <1>2, <2>1, <2>2, RecordsCount, StoreAssumption, FS_Subset DEF StoreAssumption
  <2>6. Cardinality(Safe(w)) <= count
    BY <1>3, <2>1
  <2>. HIDE DEF w, Safe, NextSafe
  <2>7. Cardinality(Safe(w) \cup arg) = Cardinality(Safe(w)) + Cardinality(arg)
    <3>1. Cardinality(Safe(w) \cup arg)
            = Cardinality(Safe(w)) + Cardinality(arg) - Cardinality(Safe(w) \cap arg)
      BY <2>5, FS_Union
    <3>2. Cardinality(Safe(w) \cap arg) = 0
      BY <2>4, FS_EmptySet
    <3>. QED  BY <2>5, <3>1, <3>2
  <2>8. Cardinality(NextSafe(w)) = Cardinality(Safe(w)) + Cardinality(arg)
    BY <2>4, <2>7
  <2>9. Cardinality(NextSafe(w)) <= count'
    BY <1>0, <2>3, <2>5, <2>6, <2>8
  <2>. QED  BY <2>3, <2>9 DEF NextSafe
<1>6. CASE Step /\ AppendFails
  <2>1. /\ at \in Times /\ arg \in SUBSET Records /\ active = Align(at)
        /\ arg \cap acked = {} /\ op = "ingest"
        /\ UNCHANGED <<active, count, acked>> /\ StoreTear(Align(at), arg)
    BY <1>6
       DEF AppendFails, Step, memVars, histVars, Inv, CallInv, AckedInv, SpoolTypeOK,
           TierTypeOK
  <2>2. active \in Windows /\ held'[active] \subseteq held[active] \cup arg
    BY <1>0, <2>1, AlignTimes DEF StoreTear, storeVars, StoreTypeOK
  <2>. QED  BY <1>4, <2>1, <2>2
<1>7. CASE Step /\ Activated
  <2>1. UNCHANGED <<held, acked>> /\ at \in Times
    BY <1>7 DEF Activated, Step, storeVars, histVars, Inv, CallInv
  <2>2. UNCHANGED <<active, count>> \/ count' = Cardinality(held'[active'])
    BY <1>7, <2>1 DEF Activated, Activate
  <2>3. CASE UNCHANGED <<active, count>>
    BY <1>4, <2>1, <2>3
  <2>4. CASE count' = Cardinality(held'[active'])
    BY <1>2, <1>3, <2>4, GrownCount
  <2>. QED  BY <2>2, <2>3, <2>4
<1>8. CASE Step /\ CommitOk
  <2>1. UNCHANGED <<active, count, acked>> /\ win # active
    BY <1>8 DEF CommitOk, Step, histVars
  <2>2. held'[active] = held[active]
    BY <1>0, <1>8, <2>1 DEF CommitOk, StoreCommit, StoreTypeOK
  <2>. QED  BY <1>4, <2>1, <2>2
<1>9. CASE Crash
  BY <1>9 DEF Crash, TierReset
<1>10. CASE UNCHANGED <<active, count, held, acked>>
  BY <1>4, <1>10
<1>11. CASE \E R \in SUBSET (Records \ used) : Ingest(R)
  BY <1>10, <1>11 DEF Ingest, CallIngest, storeVars
<1>12. CASE Step /\ (\/ ActivateFails \/ DrainEnds \/ OldestFails \/ CommitFails
                     \/ Return
                     \/ \E w \in Windows : ReadFails(w))
  BY <1>10, <1>12
     DEF ActivateFails, DrainEnds, OldestFails, CommitFails, Return, ReadFails, Step,
         memVars, storeVars, histVars
<1>13. CASE \/ Heartbeat \/ Flush \/ Accepts \/ Rejects \/ AcceptsLost
            \/ \E w \in Windows : Read(w)
            \/ \E ok \in BOOLEAN : Answers(ok)
            \/ \E t \in Times : Tick(t)
            \/ UNCHANGED spoolVars
  BY <1>10, <1>13
     DEF Heartbeat, CallAdvance, Flush, CallFlush, Accepts, InnerAccepts,
         Rejects, AcceptsLost, InnerRejects, Read, ReadOk, Answers,
         InnerReturns, Tick, spoolVars, tierVars, memVars, storeVars, histVars
<1>. QED
  BY <1>5, <1>6, <1>7, <1>8, <1>9, <1>11, <1>12, <1>13 DEF SpoolNext, Busy, Step, TierStep

(* Whatever the store does, active_count lies between the acknowledged     *)
(* records of the active window and all that it stores: an append that     *)
(* failed half-way (tier.rs, ingest) adds to the segment and not to the    *)
(* count, so the valve may fire late, but only by records that were never  *)
(* acknowledged, and it never fires early.                                 *)
THEOREM CountIsCovered == SpoolSpec => []CountCovers
<1>1. SpoolInit => AckedInv /\ CountCovers
  BY DEF SpoolInit, TierInit, AckedInv, CountCovers
<1>2. Inv /\ Inv' /\ FreshInv /\ CountBelow /\ CountBelow' /\ AckedInv /\ CountCovers
        /\ [SpoolNext]_spoolVars
        => AckedInv' /\ CountCovers'
  BY NextAckedInv, NextCountCovers
<1>. QED  BY <1>1, <1>2, SpoolInv, CountIsBelow, PTL DEF SpoolSpec

(* A max_records that no pipeline reaches never forces a pass.             *)
Shut == ~(count >= MaxRecords)

LEMMA ValveIsShut ==
    ASSUME Inv, CountBelow, MaxRecords > Cardinality(Records)
    PROVE  Shut
<1>. USE DEF Shut
<1>1. MaxRecords \in Nat /\ Cardinality(Records) \in Nat /\ count \in Nat
  BY RecordsCount, TierAssumption DEF TierAssumption, Inv, SpoolTypeOK, TierTypeOK
<1>2. CASE active = None
  BY <1>1, <1>2 DEF CountBelow
<1>3. CASE active # None
  <2>1. held[active] \in SUBSET Records
    BY <1>3 DEF Inv, SpoolTypeOK, StoreTypeOK, TierTypeOK
  <2>2. Cardinality(held[active]) <= Cardinality(Records) /\ Cardinality(held[active]) \in Nat
    BY <2>1, GrownCount, RecordsCount
  <2>. QED  BY <1>1, <1>3, <2>2 DEF CountBelow
<1>. QED  BY <1>2, <1>3

Unforced == ~forced /\ split = {} /\ op # "flush"

LEMMA NextUnforced ==
    ASSUME Shut, Shut', Unforced, [SpoolNext]_spoolVars
    PROVE  Flush \/ Unforced'
<1>1. ~(count >= MaxRecords) /\ ~(count' >= MaxRecords)
  BY DEF Shut
<1>. USE DEF Unforced
<1>2. CASE (\E R \in SUBSET (Records \ used) : Ingest(R)) \/ Heartbeat
  BY <1>1, <1>2
     DEF Ingest, CallIngest, IngestBody, Heartbeat, CallAdvance, ToActivate, StartPass,
         histVars
<1>3. CASE Append
  BY <1>1, <1>3 DEF Append, AppendOk, StartPass, callVars
<1>4. CASE Step
  <2>1. split' = split
    BY <1>4 DEF Step, histVars
  <2>2. CASE ActivateFails \/ AppendFails \/ DrainEnds \/ OldestFails
    BY <1>1, <2>1, <2>2
       DEF ActivateFails, AppendFails, DrainEnds, OldestFails, Complete, IngestBody,
           ToActivate, StartPass, passVars
  <2>3. CASE Activated
    BY <1>1, <2>1, <2>3 DEF Activated, StartPass, callVars, passVars
  <2>4. CASE CommitOk \/ CommitFails \/ Return \/ \E w \in Windows : ReadFails(w)
    BY <2>1, <2>4 DEF CommitOk, CommitFails, Return, ReadFails, Skip, callVars, passVars
  <2>. QED  BY <1>4, <2>2, <2>3, <2>4 DEF Step, TierStep
<1>5. CASE (\E w \in Windows : Read(w)) \/ Accepts \/ Rejects \/ AcceptsLost
           \/ (\E t \in Times : Tick(t)) \/ UNCHANGED spoolVars
  BY <1>5
     DEF Read, ReadOk, Accepts, InnerAccepts, Rejects, AcceptsLost, InnerRejects, Skip,
         Tick, spoolVars, tierVars, callVars, passVars, histVars
<1>6. CASE (\E ok \in BOOLEAN : Answers(ok)) \/ Crash
  BY <1>1, <1>6
     DEF Answers, InnerReturns, Complete, IngestBody, ToActivate, StartPass, Crash,
         TierReset, histVars
<1>. QED  BY <1>2, <1>3, <1>4, <1>5, <1>6 DEF SpoolNext, Busy
=============================================================================
