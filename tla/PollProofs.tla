----------------------------- MODULE PollProofs -----------------------------
(***************************************************************************)
(* What Poll guarantees for every value of its constants: the loop of      *)
(* Pipeline::run is one of the callers module Spool allows, and no record  *)
(* it was handed disappears without an error or a crash.                   *)
(***************************************************************************)
EXTENDS Poll, SpoolProofs

(* The copies of x that have been handed over are numbered without a gap.  *)
CopiesOf(x, S) == {r \in S : r[1] = x}

(* A copy is numbered at most by how many copies there are: the next one   *)
(* is new.                                                                 *)
CopyInv == \A r \in used : r[2] <= Cardinality(CopiesOf(r[1], used))

(* Only an ingest carries records, and one that is past its append without *)
(* an error has had them acknowledged.                                     *)
AckInv ==
    /\ pc = "idle" => arg = {}
    /\ op \in {"advance", "flush"} => arg = {}
    /\ pc # "idle" => op # "idle"
    /\ pc = "done" => op # "init"
    /\ op = "ingest" /\ pc \notin {"activate", "append"} /\ ~(pc = "done" /\ failed)
         => arg \subseteq acked

(* Every record that was handed over is accounted for.                     *)
LossInv == used \subseteq acked \cup refused \cup cut \cup arg

(* Keys that are remembered were handed over and not lost in a crash.      *)
SeenInv ==
    Keyed => /\ steady \subseteq seenPrev
             /\ \A k \in seenPrev :
                    \E r \in acked \cup refused \cup arg : KeyOf[r[1]] = k

(* The last call of a pipeline that flushes is a flush.                    *)
SettleInv == phase = "settle" /\ policy = "FlushAll" => op = "flush"

PollInv ==
    /\ PollTypeOK
    /\ CopyInv
    /\ AckInv
    /\ LossInv
    /\ SeenInv
    /\ SettleInv

USE DEF Phases, lossVars

-----------------------------------------------------------------------------
(* The next copies of readings are new.                                    *)
LEMMA CopiesAreNew ==
    ASSUME CopyInv, SpoolTypeOK, NEW F \in SUBSET Readings, Copies(F) \subseteq Records
    PROVE  Copies(F) \in SUBSET (Records \ used)
<1>. SUFFICES ASSUME NEW r \in Copies(F), r \in used  PROVE FALSE
  OBVIOUS
<1>1. PICK x \in F : r = <<x, 1 + Cardinality({q \in used : q[1] = x})>>
  BY DEF Copies
<1>2. {q \in used : q[1] = x} \in SUBSET Records
  BY DEF SpoolTypeOK
<1>3. Cardinality({q \in used : q[1] = x}) \in Nat
  BY <1>2, RecordsCount
<1>4. 1 + Cardinality({q \in used : q[1] = x}) <= Cardinality({q \in used : q[1] = x})
  BY <1>1 DEF CopyInv, CopiesOf
<1>. QED  BY <1>3, <1>4

(* They keep the numbering.                                                *)
LEMMA CopiesKeepInv ==
    ASSUME CopyInv, SpoolTypeOK, NEW F \in SUBSET Readings, Copies(F) \subseteq Records,
           used' = used \cup Copies(F)
    PROVE  CopyInv'
<1>. SUFFICES ASSUME NEW r \in used'
              PROVE  r[2] <= Cardinality(CopiesOf(r[1], used'))
  BY DEF CopyInv, CopiesOf
<1>. DEFINE x == r[1]
            old == CopiesOf(x, used)
            new == CopiesOf(x, used')
<1>1. r \in Records /\ r[2] \in Nat
  BY PollAssumption DEF PollAssumption, SpoolTypeOK
<1>2. old \in SUBSET Records /\ new \in SUBSET Records /\ old \subseteq new
  BY DEF CopiesOf, SpoolTypeOK
<1>3. IsFiniteSet(old) /\ IsFiniteSet(new)
  BY <1>2, StoreAssumption, FS_Subset DEF StoreAssumption
<1>4. Cardinality(old) \in Nat /\ Cardinality(new) \in Nat
  BY <1>2, RecordsCount
<1>5. CASE r \in used
  <2>1. r[2] <= Cardinality(old)
    BY <1>5 DEF CopyInv
  <2>2. Cardinality(old) <= Cardinality(new)
    BY <1>2, <1>3, FS_Subset
  <2>. HIDE DEF old, new
  <2>. QED  BY <1>1, <1>4, <2>1, <2>2 DEF new
<1>6. CASE r \notin used
  <2>1. PICK y \in F : r = <<y, 1 + Cardinality({q \in used : q[1] = y})>>
    BY <1>6 DEF Copies
  <2>2. r[1] = y /\ r[2] = 1 + Cardinality({q \in used : q[1] = y})
    BY <2>1
  <2>3. r[2] = 1 + Cardinality(old)
    BY <2>2 DEF CopiesOf
  <2>4. old \cup {r} \subseteq new /\ r \notin old
    BY <1>6 DEF CopiesOf
  <2>5. IsFiniteSet(old \cup {r}) /\ Cardinality(old \cup {r}) = Cardinality(old) + 1
    BY <1>3, <2>4, FS_AddElement
  <2>6. Cardinality(old \cup {r}) <= Cardinality(new)
    BY <1>3, <2>4, FS_Subset
  <2>. HIDE DEF old, new
  <2>. QED  BY <1>1, <1>4, <2>3, <2>5, <2>6 DEF new
<1>. QED  BY <1>5, <1>6

-----------------------------------------------------------------------------
(* Every step of Poll is a step of Spool.                                  *)
LEMMA StepSimulates ==
    ASSUME PollInv, [PollNext]_pipeVars
    PROVE  [SpoolNext]_spoolVars
<1>1. CASE Start \/ TickDue \/ Break
  BY <1>1 DEF Start, TickDue, Break, Settle, SpoolNext
<1>2. CASE Returned
  BY <1>2 DEF Returned, SpoolNext, Busy
<1>3. CASE Polls
  <2>0. PICK X \in SUBSET Readings : \E F \in SUBSET X : Collect(X, F)
    BY <1>3 DEF Polls, Flatten, Responses
  <2>1. PICK F \in SUBSET X : Collect(X, F)
    BY <2>0
  <2>2. CASE Copies(F) \subseteq Records /\ Ingest(Copies(F))
    BY <2>2, CopiesAreNew DEF PollInv, PollTypeOK, SpoolNext
  <2>. QED  BY <2>1, <2>2 DEF Collect
<1>4. CASE CollectFails \/ Cancel \/ UNCHANGED pipeVars
  BY <1>4 DEF CollectFails, Cancel, pipeVars
<1>5. CASE Works \/ Passes \/ Restarts
  BY <1>5 DEF Works, Passes, Restarts, SpoolNext
<1>. QED  BY <1>1, <1>2, <1>3, <1>4, <1>5 DEF PollNext

-----------------------------------------------------------------------------
(* The calls.                                                              *)

(* What a step of the spool may not touch.                                 *)
Keeps == UNCHANGED <<used, arg>> /\ acked \subseteq acked'

(* The end of a call, an ingest that follows its own advance apart.        *)
LEMMA CompleteKeepsAck ==
    ASSUME AckInv, NEW ok \in BOOLEAN, Complete(ok), UNCHANGED <<arg, acked>>,
           pc # "idle",
           ok => pc \notin {"activate", "append"} /\ (pc = "done" => ~failed)
    PROVE  AckInv' /\ (op = "flush" => op' = "flush")
<1>1. CASE op = "init" /\ IngestBody(arg)
  BY <1>1 DEF IngestBody, ToActivate, StartPass, AckInv
<1>2. CASE op # "init" /\ pc' = "done" /\ failed' = ~ok /\ op' = op
  BY <1>2 DEF AckInv
<1>. QED  BY <1>1, <1>2 DEF Complete

(* The steps of a call in progress, its return apart.                      *)
LEMMA BusyKeepsAck ==
    ASSUME Inv, AckInv, Busy, pc # "done"
    PROVE  AckInv' /\ Keeps /\ (op = "flush" => op' = "flush")
<1>. USE DEF Keeps
<1>0. failed \in BOOLEAN /\ (~failed) \in BOOLEAN
  BY DEF Inv, SpoolTypeOK, TierTypeOK
<1>1. CASE Append
  BY <1>1
     DEF Append, AppendOk, StartPass, callVars, AckInv, Inv, CallInv
<1>2. CASE \E w \in Windows : Read(w)
  BY <1>2 DEF Read, ReadOk, NextSegment, callVars, passVars, AckInv
<1>3. CASE Step
  <2>1. CASE Activated
    BY <1>3, <2>1
       DEF Step, Activated, StartPass, callVars, histVars, AckInv, Inv, CallInv
  <2>2. CASE ActivateFails \/ AppendFails \/ OldestFails
    BY <1>3, <2>2, CompleteKeepsAck
       DEF Step, ActivateFails, AppendFails, OldestFails, histVars
  <2>3. CASE DrainEnds
    <3>1. CASE Complete(~failed)
      BY <1>0, <1>3, <2>3, <3>1, CompleteKeepsAck DEF Step, DrainEnds, histVars
    <3>2. CASE op # "ingest" /\ pc' = "inner" /\ UNCHANGED <<op, passVars>>
      BY <1>3, <2>3, <3>2 DEF Step, DrainEnds, histVars, AckInv
    <3>. QED  BY <2>3, <3>1, <3>2 DEF DrainEnds
  <2>4. CASE (\E w \in Windows : ReadFails(w)) \/ CommitFails
    BY <1>3, <2>4
       DEF Step, ReadFails, NextSegment, CommitFails, Skip, callVars, histVars,
           AckInv
  <2>5. CASE CommitOk
    BY <1>3, <2>5 DEF Step, CommitOk, callVars, histVars, AckInv
  <2>6. ~Return
    BY DEF Return
  <2>. QED
    BY <1>3, <2>1, <2>2, <2>3, <2>4, <2>5, <2>6 DEF Step, TierStep
<1>4. CASE Accepts \/ Rejects \/ AcceptsLost
  BY <1>4
     DEF Accepts, Rejects, AcceptsLost, InnerAccepts, InnerRejects, Skip,
         callVars, histVars, AckInv
<1>5. ASSUME NEW ok \in BOOLEAN, Answers(ok)
      PROVE  AckInv' /\ Keeps /\ (op = "flush" => op' = "flush")
  BY <1>5, CompleteKeepsAck DEF Answers, InnerReturns, histVars
<1>. QED  BY <1>1, <1>2, <1>3, <1>4, <1>5 DEF Busy

-----------------------------------------------------------------------------
(* The loop.                                                               *)

(* It holds initially.                                                     *)
LEMMA PollInitInv == PollInit => PollInv
<1>. SUFFICES ASSUME PollInit  PROVE PollInv
  OBVIOUS
<1>1. SpoolTypeOK
  BY InitInv DEF PollInit, Inv
<1>. QED
  BY <1>1
     DEF PollInit, SpoolInit, TierInit, PollInv, PollTypeOK, CopyInv, AckInv,
         LossInv, SeenInv, SettleInv

(* The types of the loop's own variables.                                  *)
LEMMA LoopTypes ==
    ASSUME PollInv, SpoolTypeOK', [PollNext]_pipeVars
    PROVE  PollTypeOK'
<1>. USE DEF PollInv, PollTypeOK, Goes
<1>1. arg \in SUBSET Records
  BY DEF SpoolTypeOK, TierTypeOK
<1>2. CASE Start \/ TickDue \/ Break \/ CollectFails
  BY <1>2 DEF Start, TickDue, Break, CollectFails
<1>3. CASE Returned
  BY <1>1, <1>3 DEF Returned, After
<1>4. CASE Polls
  <2>0. PICK X \in SUBSET Readings : \E F \in SUBSET X : Collect(X, F)
    BY <1>4 DEF Polls, Flatten, Responses
  <2>1. PICK F \in SUBSET X : Collect(X, F)
    BY <2>0
  <2>2. KeysOf(X) \subseteq Keys /\ KeysOf(F) \subseteq Keys
    BY DEF KeysOf, Keys
  <2>. QED  BY <2>1, <2>2 DEF Collect, Remember
<1>5. CASE Cancel \/ Works \/ Passes \/ UNCHANGED pipeVars
  BY <1>5 DEF Cancel, Works, Passes, pipeVars, pollVars
<1>6. CASE Restarts
  BY <1>1, <1>6 DEF Restarts
<1>. QED  BY <1>2, <1>3, <1>4, <1>5, <1>6 DEF PollNext

(* A poll hands over new records of keys it did not remember.              *)
LEMMA PollKeepsInv ==
    ASSUME PollInv, NEW X \in SUBSET Readings, NEW F \in SUBSET X, Collect(X, F)
    PROVE  CopyInv' /\ AckInv' /\ LossInv' /\ SeenInv' /\ SettleInv'
<1>. USE DEF PollInv, Collect
<1>1. CASE UNCHANGED spoolVars /\ F = {}
  <2>1. UNCHANGED <<used, acked, refused, cut, pc, op, arg, failed>>
    BY <1>1 DEF spoolVars, histVars, tierVars, passVars
  <2>2. SeenInv'
    <3>. SUFFICES ASSUME Keyed  PROVE SeenInv'
      BY DEF SeenInv
    <3>1. KeysOf(F) = {} /\ KeysOf(X) \subseteq seenPrev /\ seenPrev' = KeysOf(X)
      BY <1>1 DEF Fresh, KeysOf, Remember
    <3>. QED  BY <2>1, <3>1 DEF SeenInv
  <2>. QED
    BY <1>1, <2>1, <2>2 DEF CopyInv, AckInv, LossInv, SettleInv, Goes
<1>2. CASE Copies(F) \subseteq Records /\ Ingest(Copies(F)) /\ Goes("ingest")
  <2>1. /\ used' = used \cup Copies(F) /\ arg' = Copies(F)
        /\ UNCHANGED <<acked, refused, cut>> /\ pc = "idle"
    BY <1>2 DEF Ingest, CallIngest
  <2>2. CopyInv'
    BY <1>2, <2>1, CopiesKeepInv DEF PollTypeOK
  <2>3. AckInv'
    BY <1>2, <2>1
       DEF Ingest, CallIngest, IngestBody, ToActivate, StartPass, AckInv
  <2>4. LossInv'
    BY <2>1 DEF LossInv, AckInv
  <2>5. SeenInv'
    <3>. SUFFICES ASSUME Keyed  PROVE SeenInv'
      BY DEF SeenInv
    <3>1. /\ KeysOf(F) = KeysOf(X) \ seenPrev
          /\ seenPrev' = KeysOf(X)
          /\ steady' \subseteq KeysOf(X)
      BY DEF Fresh, Remember
    <3>2. ASSUME NEW k \in KeysOf(X)
          PROVE  \E r \in acked' \cup refused' \cup arg' : KeyOf[r[1]] = k
      <4>1. CASE k \in seenPrev
        BY <2>1, <4>1 DEF SeenInv, AckInv
      <4>2. CASE k \in KeysOf(F)
        <5>1. PICK x \in F : KeyOf[x] = k
          BY <4>2 DEF KeysOf
        <5>2. <<x, 1 + Cardinality({q \in used : q[1] = x})>> \in arg'
          BY <2>1 DEF Copies
        <5>. QED  BY <5>1, <5>2
      <4>. QED  BY <3>1, <4>1, <4>2
    <3>. QED  BY <3>1, <3>2 DEF SeenInv
  <2>6. SettleInv'
    BY <1>2 DEF SettleInv, Goes
  <2>. QED  BY <2>2, <2>3, <2>4, <2>5, <2>6
<1>. QED  BY <1>1, <1>2

(* What a call in progress keeps, the loop keeps.                          *)
LEMMA QuietLoop ==
    ASSUME PollInv, Keeps, UNCHANGED <<refused, cut, seenPrev, steady>>
    PROVE  CopyInv' /\ LossInv' /\ SeenInv'
BY DEF PollInv, Keeps, CopyInv, CopiesOf, LossInv, SeenInv

(* Every step keeps the invariant.                                         *)
LEMMA NextPollInv ==
    ASSUME PollInv, Inv, Inv', [PollNext]_pipeVars
    PROVE  PollInv'
<1>. USE DEF PollInv, Goes
<1>0. PollTypeOK'
  BY LoopTypes DEF Inv
<1>1. CASE Start \/ TickDue \/ Break
  <2>1. CASE Heartbeat
    <3>1. Keeps /\ AckInv'
      BY <2>1
         DEF Heartbeat, CallAdvance, ToActivate, histVars, Keeps, AckInv
    <3>. QED
      BY <1>0, <1>1, <2>1, <3>1, QuietLoop
         DEF Start, TickDue, Break, Settle, SettleInv, Flush, CallFlush,
             Heartbeat, CallAdvance
  <2>2. CASE Flush /\ Break
    <3>1. Keeps /\ AckInv' /\ op' = "flush"
      BY <2>2 DEF Flush, CallFlush, StartPass, histVars, Keeps, AckInv
    <3>. QED  BY <1>0, <2>2, <3>1, QuietLoop DEF Break, SettleInv
  <2>. QED  BY <1>1, <2>1, <2>2 DEF Start, TickDue, Break, Settle
<1>2. CASE Returned
  <2>1. /\ pc = "done" /\ arg' = {} /\ pc' = "idle" /\ op' = "idle"
        /\ UNCHANGED <<used, acked, seenPrev, steady, cut>>
        /\ refused' = IF failed THEN refused \cup arg ELSE refused
    BY <1>2
       DEF Returned, Step, TierStep, Return, Activated, ActivateFails,
           AppendFails, DrainEnds, OldestFails, ReadFails, NextSegment,
           CommitOk, CommitFails, histVars
  <2>2. failed \/ arg \subseteq acked
    BY <2>1 DEF AckInv, Inv, SpoolTypeOK, TierTypeOK, Ops
  <2>3. AckInv'
    BY <2>1 DEF AckInv
  <2>4. LossInv'
    BY <2>1, <2>2 DEF LossInv
  <2>5. SeenInv'
    <3>1. acked \cup refused \cup arg \subseteq acked' \cup refused' \cup arg'
      BY <2>1, <2>2
    <3>. QED  BY <2>1, <3>1 DEF SeenInv
  <2>6. CopyInv'
    BY <2>1 DEF CopyInv, CopiesOf
  <2>7. SettleInv'
    BY <1>2 DEF Returned, After, SettleInv
  <2>. QED  BY <1>0, <2>3, <2>4, <2>5, <2>6, <2>7
<1>3. CASE Polls
  <2>0. PICK X \in SUBSET Readings : \E F \in SUBSET X : Collect(X, F)
    BY <1>3 DEF Polls, Flatten, Responses
  <2>1. PICK F \in SUBSET X : Collect(X, F)
    BY <2>0
  <2>. QED  BY <1>0, <2>1, PollKeepsInv
<1>4. CASE CollectFails \/ Cancel \/ UNCHANGED pipeVars
  <2>1. Keeps /\ AckInv' /\ UNCHANGED <<op, refused, cut, seenPrev, steady>>
    BY <1>4
       DEF CollectFails, Cancel, pipeVars, pollVars, spoolVars, histVars,
           tierVars, passVars, Keeps, AckInv
  <2>. QED
    BY <1>0, <1>4, <2>1, QuietLoop
       DEF CollectFails, Cancel, pipeVars, pollVars, SettleInv
<1>5. CASE Works
  BY <1>0, <1>5, BusyKeepsAck, QuietLoop DEF Works, pollVars, SettleInv
<1>6. CASE Passes
  <2>1. Keeps /\ AckInv' /\ op' = op
    BY <1>6
       DEF Passes, Tick, histVars, tierVars, passVars, Keeps, AckInv
  <2>. QED  BY <1>0, <1>6, <2>1, QuietLoop DEF Passes, pollVars, SettleInv
<1>7. CASE Restarts
  <2>1. /\ arg' = {} /\ pc' = "idle" /\ op' = "idle"
        /\ UNCHANGED <<used, acked, refused>>
        /\ cut' = cut \cup arg /\ seenPrev' = {} /\ steady' = {}
    BY <1>7 DEF Restarts, Crash, TierReset, histVars
  <2>. QED
    BY <1>0, <1>7, <2>1
       DEF Restarts, CopyInv, CopiesOf, AckInv, LossInv, SeenInv, SettleInv
<1>. QED
  BY <1>1, <1>2, <1>3, <1>4, <1>5, <1>6, <1>7 DEF PollNext

-----------------------------------------------------------------------------
(* The loop drives the spool as module Spool allows, so everything proved  *)
(* of Spool holds of it.                                                   *)
THEOREM PollDrivesSpool == PollSpec => SpoolSpec /\ []PollInv
<1>1. PollInit => SpoolInit
  BY DEF PollInit
<1>2. Inv /\ PollInv /\ [PollNext]_pipeVars
        => [SpoolNext]_spoolVars /\ Inv' /\ PollInv'
  <2>. SUFFICES ASSUME Inv, PollInv, [PollNext]_pipeVars
                PROVE  [SpoolNext]_spoolVars /\ Inv' /\ PollInv'
    OBVIOUS
  <2>1. [SpoolNext]_spoolVars
    BY StepSimulates
  <2>2. Inv'
    BY <2>1, NextInv
  <2>. QED  BY <2>1, <2>2, NextPollInv
<1>. QED
  BY <1>1, <1>2, InitInv, PollInitInv, PTL DEF PollSpec, SpoolSpec

(* Every variable keeps its type.                                          *)
COROLLARY PollTypeCorrect == PollSpec => []PollTypeOK
BY PollDrivesSpool, PTL DEF PollInv

(* A key that has been in every response since it was handed over is not   *)
(* handed over again, and none twice in a batch.                           *)
THEOREM RepeatsDropped == PollSpec => NoRepeats
<1>. DEFINE NoRepeat ==
        Keyed /\ phase = "collect" /\ phase' = "ingest" =>
            /\ KeysOf(Handed(arg')) \cap steady = {}
            /\ \A x, y \in Handed(arg') : KeyOf[x] = KeyOf[y] => x = y
<1>1. PollInv /\ [PollNext]_pipeVars => [NoRepeat]_pipeVars
  <2>. SUFFICES ASSUME PollInv, PollNext, Keyed, phase = "collect", phase' = "ingest"
                PROVE  NoRepeat
    OBVIOUS
  <2>0. PICK X \in SUBSET Readings : \E F \in SUBSET X : Collect(X, F)
    <3>1. Polls
      BY DEF PollNext, Start, TickDue, Break, Returned, CollectFails, Cancel,
             Works, Passes, Restarts, Goes, Calling, pollVars
    <3>. QED  BY <3>1 DEF Polls, Flatten, Responses
  <2>1. PICK F \in SUBSET X : Collect(X, F)
    BY <2>0
  <2>2. arg' = Copies(F) /\ F \in Fresh(X)
    BY <2>1 DEF Collect, Goes, Ingest, CallIngest
  <2>3. Handed(arg') = F
    <3>1. ASSUME NEW x \in F  PROVE x \in Handed(arg')
      <4>. DEFINE q == <<x, 1 + Cardinality({r \in used : r[1] = x})>>
      <4>1. q \in arg'
        BY <2>2 DEF Copies
      <4>2. q[1] = x
        OBVIOUS
      <4>. HIDE DEF q
      <4>. QED  BY <4>1, <4>2 DEF Handed
    <3>2. ASSUME NEW q \in arg'  PROVE q[1] \in F
      <4>1. PICK x \in F : q = <<x, 1 + Cardinality({r \in used : r[1] = x})>>
        BY <2>2, <3>2 DEF Copies
      <4>. QED  BY <4>1
    <3>. QED  BY <3>1, <3>2 DEF Handed
  <2>. QED  BY <2>2, <2>3 DEF Fresh, PollInv, SeenInv
<1>. QED  BY <1>1, PollDrivesSpool, PTL DEF PollSpec, NoRepeats

(* An ingest that fails without its records being acknowledged has found   *)
(* the segment of its window unreadable, if the store's calls succeed.     *)
RefuseInv ==
    ~StoreErrors /\ op = "ingest" /\ pc = "done" /\ failed
        => arg \subseteq acked \/ Align(at) \in broken

LEMMA NextRefuseInv ==
    ASSUME Inv, AckInv, RefuseInv, [SpoolNext]_spoolVars
    PROVE  RefuseInv'
<1>. SUFFICES ASSUME ~StoreErrors, op' = "ingest", pc' = "done", failed'
              PROVE  arg' \subseteq acked' \/ Align(at') \in broken'
  BY DEF RefuseInv, Align
(* Only these steps end an ingest.                                         *)
<1>1. CASE Step /\ ActivateFails
  BY <1>1 DEF ActivateFails, Readable, storeVars
<1>2. CASE Step /\ DrainEnds
  BY <1>2
     DEF Step, DrainEnds, Complete, IngestBody, ToActivate, StartPass, histVars, AckInv
<1>3. CASE \E ok \in BOOLEAN : Answers(ok)
  BY <1>3
     DEF Answers, InnerReturns, Complete, IngestBody, ToActivate, StartPass, histVars, AckInv
<1>4. CASE UNCHANGED <<op, pc, failed, arg, acked, at, broken>>
  BY <1>4 DEF RefuseInv
<1>5. CASE (\E t \in Times : Tick(t)) \/ UNCHANGED spoolVars
  BY <1>4, <1>5
     DEF Tick, spoolVars, tierVars, passVars, callVars, storeVars, histVars
<1>6. ~(Step /\ (AppendFails \/ OldestFails \/ CommitFails))
  BY DEF AppendFails, OldestFails, CommitFails
<1>7. ~(Step /\ (Activated \/ CommitOk \/ Return \/ \E w \in Windows : ReadFails(w)))
  BY DEF Activated, StartPass, CommitOk, Return, ReadFails, Skip
<1>8. ~((\E R \in SUBSET (Records \ used) : Ingest(R)) \/ Heartbeat \/ Flush \/ Crash)
  BY DEF Ingest, CallIngest, IngestBody, Heartbeat, CallAdvance, ToActivate, Flush,
         CallFlush, StartPass, Crash, TierReset
<1>9. ~(Append \/ Accepts \/ Rejects \/ AcceptsLost \/ \E w \in Windows : Read(w))
  BY DEF Append, AppendOk, StartPass, Accepts, InnerAccepts, Rejects, AcceptsLost,
         InnerRejects, Skip, Read, ReadOk
<1>. QED
  BY <1>1, <1>2, <1>3, <1>5, <1>6, <1>7, <1>8, <1>9 DEF SpoolNext, Busy, Step, TierStep

(* A record is lost only by an ingest that returned an error or that the   *)
(* process did not survive; and, while the store's calls succeed, a failed *)
(* ingest has kept its records unless their own segment is unreadable.     *)
THEOREM NothingLostSilently == PollSpec => []NoSilentLoss
<1>1. PollInv /\ RefuseInv /\ Custody => NoSilentLoss
  BY DEF PollInv, LossInv, RefuseInv, Custody, NoSilentLoss, Readable
<1>2. SpoolInit => RefuseInv
  BY DEF SpoolInit, TierInit, RefuseInv
<1>3. Inv /\ PollInv /\ RefuseInv /\ [SpoolNext]_spoolVars => RefuseInv'
  BY NextRefuseInv DEF PollInv
<1>. QED
  BY <1>1, <1>2, <1>3, PollDrivesSpool, SpoolInv, RecordsKept, PTL DEF SpoolSpec

(* What dedupe drops as a repeat is stored, delivered, in the hands of the *)
(* ingest in progress or was refused with an error.                        *)
THEOREM RepeatsKept == PollSpec => []RepeatsAreKept
<1>1. PollInv /\ Custody => RepeatsAreKept
  BY DEF PollInv, SeenInv, Custody, RepeatsAreKept
<1>. QED  BY <1>1, PollDrivesSpool, RecordsKept, PTL

(* FlushAll: after a shutdown without an error everything ever taken is at *)
(* the destination.                                                        *)
THEOREM StopDelivers == PollSpec => []StopDeliversAll
<1>1. Inv /\ PollInv /\ Custody /\ OkMeansDrained => StopDeliversAll
  <2>. SUFFICES ASSUME Inv, PollInv, Custody, OkMeansDrained, phase = "settle",
                       pc = "done", ~failed, policy = "FlushAll", Durable
                PROVE  used \subseteq Delivered \cup refused \cup cut
    BY DEF StopDeliversAll
  <2>1. op = "flush" /\ arg = {}
    BY DEF PollInv, SettleInv, AckInv
  <2>2. Held = {}
    BY <2>1 DEF OkMeansDrained, Held, Inv, SpoolTypeOK, StoreTypeOK
  <2>. QED  BY <2>1, <2>2 DEF PollInv, LossInv, Custody
<1>. QED
  BY <1>1, PollDrivesSpool, SpoolInv, RecordsKept, OkIsDrained, PTL

-----------------------------------------------------------------------------
(* A pipeline that preserves its active window, with a max_records it does *)
(* not reach, forces no pass; and it ingests no empty batch.               *)
PreserveInv ==
    /\ policy = "PreserveActiveWindow" /\ MaxRecords > Cardinality(Records) => Unforced
    /\ op \in {"ingest", "init"} => arg # {}

(* Only a pipeline that flushes calls flush, and it calls it when idle.    *)
LEMMA FlushIsSettled ==
    ASSUME PollInv, [PollNext]_pipeVars, Flush
    PROVE  policy = "FlushAll"
<1>1. pc = "idle" /\ pc' = "drain" /\ op' = "flush"
  BY DEF Flush, CallFlush, StartPass
<1>2. CASE Start \/ TickDue
  BY <1>1, <1>2 DEF Start, TickDue, Heartbeat, CallAdvance
<1>3. CASE Break
  BY <1>1, <1>3 DEF Break, Settle, Heartbeat, CallAdvance
<1>4. CASE Returned
  BY <1>1, <1>4 DEF Returned
<1>5. CASE Polls \/ CollectFails \/ Cancel \/ UNCHANGED pipeVars
  BY <1>1, <1>5
     DEF Polls, Collect, Ingest, CallIngest, IngestBody, CollectFails, Cancel, pipeVars,
         spoolVars, tierVars
<1>6. CASE Works
  BY <1>1, <1>6
     DEF Works, Busy, Append, AppendOk, Read, ReadOk, NextSegment, Step, TierStep,
         Activated, ActivateFails, AppendFails, DrainEnds, OldestFails, ReadFails,
         CommitOk, CommitFails, Return, Accepts, InnerAccepts, Rejects, AcceptsLost,
         InnerRejects, Answers, InnerReturns
<1>7. CASE Passes \/ Restarts
  BY <1>1, <1>7 DEF Passes, Tick, tierVars, Restarts, Crash, TierReset
<1>. QED  BY <1>2, <1>3, <1>4, <1>5, <1>6, <1>7 DEF PollNext

LEMMA PolicyStays == [PollNext]_pipeVars => policy' = policy
BY DEF PollNext, Start, TickDue, Break, Returned, Polls, Collect, CollectFails, Cancel,
       Works, Passes, Restarts, Goes, pipeVars, pollVars

LEMMA NextPreserveInv ==
    ASSUME PollInv, PollInv', Inv, PreserveInv, [PollNext]_pipeVars, [SpoolNext]_spoolVars,
           MaxRecords > Cardinality(Records) => Shut /\ Shut'
    PROVE  PreserveInv'
<1>1. ASSUME policy' = "PreserveActiveWindow", MaxRecords > Cardinality(Records)
      PROVE  Unforced'
  <2>1. policy = "PreserveActiveWindow" /\ Unforced /\ Shut /\ Shut'
    BY <1>1, PolicyStays DEF PreserveInv
  <2>2. ~Flush
    BY <2>1, FlushIsSettled
  <2>. QED  BY <2>1, <2>2, NextUnforced
<1>2. ASSUME op' \in {"ingest", "init"}
      PROVE  arg' # {}
  <2>. USE DEF PreserveInv
  <2>1. CASE Start \/ TickDue \/ Break
    BY <1>2, <2>1
       DEF Start, TickDue, Break, Settle, Heartbeat, CallAdvance, Flush, CallFlush
  <2>2. CASE Returned \/ Restarts
    <3>1. op' = "idle"
      BY <2>2
         DEF Returned, Step, TierStep, Return, Activated, ActivateFails, AppendFails,
             DrainEnds, OldestFails, ReadFails, NextSegment, CommitOk, CommitFails,
             Restarts, Crash, TierReset
    <3>. QED  BY <1>2, <3>1
  <2>3. CASE Polls
    <3>1. PICK X, F : Collect(X, F)
      BY <2>3 DEF Polls
    <3>2. CASE UNCHANGED spoolVars
      BY <1>2, <3>2 DEF spoolVars, tierVars, callVars
    <3>3. CASE F # {} /\ Ingest(Copies(F))
      <4>1. arg' = Copies(F)
        BY <3>3 DEF Ingest, CallIngest
      <4>. QED  BY <3>3, <4>1 DEF Copies
    <3>. QED  BY <3>1, <3>2, <3>3 DEF Collect
  <2>4. CASE CollectFails \/ Cancel \/ Passes \/ UNCHANGED pipeVars
    BY <1>2, <2>4
       DEF CollectFails, Cancel, Passes, Tick, pipeVars, spoolVars, tierVars, callVars
  <2>5. CASE Works
    <3>1. pc # "done" /\ arg' = arg
      BY <2>5, BusyKeepsAck DEF Works, PollInv, Keeps
    <3>2. op' \in {"ingest", "init"} => op \in {"ingest", "init"}
      BY <2>5, <3>1
         DEF Works, Busy, Append, AppendOk, Read, ReadOk, Step, TierStep, Activated,
             ActivateFails, AppendFails, DrainEnds, OldestFails, ReadFails, CommitOk,
             CommitFails, Return, Accepts, InnerAccepts, Rejects, AcceptsLost,
             InnerRejects, Answers, InnerReturns, Complete, IngestBody, callVars
    <3>. QED  BY <1>2, <3>1, <3>2
  <2>. QED  BY <2>1, <2>2, <2>3, <2>4, <2>5 DEF PollNext
<1>. QED  BY <1>1, <1>2 DEF PreserveInv

(* PreserveActiveWindow (pipeline.rs): a window is one object at the       *)
(* destination, through stops and crashes in the middle of it, store       *)
(* errors included, if the name in the store is the pipeline's.            *)
THEOREM PreservedWindowsAreWhole ==
    ASSUME Hint = Name
    PROVE  PollSpec => []WindowsStayWhole
<1>. DEFINE Kept == (Durable /\ ~ClockSteps => WholeInv)
            Narrow == (MaxRecords > Cardinality(Records) => Shut)
<1>1. PollInit => PreserveInv /\ Kept
  <2>1. PollInit => PreserveInv
    BY DEF PollInit, SpoolInit, TierInit, PreserveInv, Unforced
  <2>. QED  BY <2>1, InitWholeInv DEF PollInit
<1>2. Inv /\ FreshInv /\ CountBelow => Narrow
  BY ValveIsShut
<1>3. /\ PollInv /\ PollInv' /\ Inv /\ PassInv /\ DrainInv /\ Narrow /\ Narrow'
      /\ PreserveInv /\ Kept /\ [PollNext]_pipeVars /\ [SpoolNext]_spoolVars
      => PreserveInv' /\ Kept'
  <2>. SUFFICES ASSUME PollInv, PollInv', Inv, PassInv, DrainInv, Narrow, Narrow',
                       PreserveInv, Kept, [PollNext]_pipeVars, [SpoolNext]_spoolVars
                PROVE  PreserveInv' /\ Kept'
    OBVIOUS
  <2>1. PreserveInv'
    BY NextPreserveInv
  <2>2. op = "ingest" => arg # {}
    BY DEF PreserveInv
  <2>3. Kept'
    BY <2>2, NextWholeInv
  <2>. QED  BY <2>1, <2>3
<1>4. Inv /\ Kept /\ PreserveInv => WindowsStayWhole
  <2>. SUFFICES ASSUME Inv, Kept, PreserveInv, policy = "PreserveActiveWindow", Durable,
                       ~ClockSteps, MaxRecords > Cardinality(Records),
                       NEW o1 \in remote, NEW o2 \in remote, o1.window = o2.window
                PROVE  o1 = o2
    BY DEF WindowsStayWhole
  <2>1. WholeInv /\ split = {}
    BY DEF PreserveInv, Unforced
  <2>2. o1.rows = o2.rows /\ o1.pipeline = Name /\ o2.pipeline = Name
    BY <2>1 DEF WholeInv, ClosedWindowIsOneObject
  <2>3. /\ o1 \in [pipeline : Names, window : Windows, rows : SUBSET Records]
        /\ o2 \in [pipeline : Names, window : Windows, rows : SUBSET Records]
    BY DEF Inv, SpoolTypeOK, Objects
  <2>. QED  BY <2>2, <2>3
<1>. QED
  BY <1>1, <1>2, <1>3, <1>4, PollDrivesSpool, SpoolPasses, CountIsBelow, PTL
  DEF PollSpec, SpoolSpec
=============================================================================
