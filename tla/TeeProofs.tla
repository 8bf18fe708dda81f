------------------------------ MODULE TeeProofs ------------------------------
(***************************************************************************)
(* What a tier over a Tee guarantees for every set of records, times and   *)
(* windows: a segment outlives its delivery to both branches.              *)
(***************************************************************************)
EXTENDS Tee, TLAPS

(* What both branches have taken.                                          *)
Both == taken["first"] \cap taken["second"]

(* What the tier below the caller keeps in order.                          *)
TierInv ==
    /\ StoreTypeOK
    /\ arg \in SUBSET Records
    /\ now \in Times
    /\ op \in {"ingest", "init", "advance"} => at \in Times
    /\ pc = "append" => op = "ingest"
    /\ pc \in {"offered", "commit"} => win \in Windows /\ batch = held[win]

(* A call into the Tee is under way only while the tier waits for it, and  *)
(* a branch that has answered without an error has the batch.              *)
CallInv ==
    /\ taken \in [Branches -> SUBSET Records]
    /\ turn \in {"idle", "first", "second", "answer"}
    /\ errors \subseteq Branches
    /\ turn \in {"idle", "first"} => errors = {}
    /\ turn # "idle" => pc \in {"offered", "inner"}
    /\ turn = "second" /\ pc = "offered" /\ "first" \notin errors
         => batch \subseteq taken["first"]
    /\ BranchesAreIndependent
    /\ pc = "commit" => batch \subseteq Both

Inv == TierInv /\ CallInv

USE DEF Branches, Both, envVars, histVars, callTeeVars, Outside

-----------------------------------------------------------------------------
(* Aligning a clock reading gives a window.                                *)
LEMMA AlignTimes ==
    ASSUME NEW t \in Times
    PROVE  Align(t) \in Windows
BY TierAssumption DEF TierAssumption

(* What the store's own steps keep and change.                             *)
LEMMA StoreSteps ==
    ASSUME StoreTypeOK, NEW w \in Windows, NEW R \in SUBSET Records
    PROVE  /\ StoreAppend(w, R) =>
                StoreTypeOK' /\ Held \subseteq Held' /\ R \subseteq Held'
           /\ StoreTear(w, R) => StoreTypeOK' /\ Held \subseteq Held'
           /\ StoreCommit(w) => StoreTypeOK' /\ Held \ Held' \subseteq held[w]
           /\ StoreCrash => StoreTypeOK' /\ (Durable => Held' = Held)
           /\ UNCHANGED storeVars => StoreTypeOK' /\ Held' = Held
<1>1. StoreAppend(w, R) => StoreTypeOK' /\ Held \subseteq Held' /\ R \subseteq Held'
  BY DEF StoreTypeOK, StoreAppend, Held
<1>2. StoreTear(w, R) => StoreTypeOK' /\ Held \subseteq Held'
  BY DEF StoreTypeOK, StoreTear, storeVars, Held
<1>3. StoreCommit(w) => StoreTypeOK' /\ Held \ Held' \subseteq held[w]
  BY DEF StoreTypeOK, StoreCommit, Held
<1>4. StoreCrash => StoreTypeOK' /\ (Durable => Held' = Held)
  BY DEF StoreTypeOK, StoreCrash, storeVars, Held
<1>5. UNCHANGED storeVars => StoreTypeOK' /\ Held' = Held
  BY DEF StoreTypeOK, storeVars, Held
<1>. QED  BY <1>1, <1>2, <1>3, <1>4, <1>5

(* The end of a call, or of the advance before its first ingest.           *)
LEMMA CompleteMoves ==
    ASSUME NEW ok \in BOOLEAN, Complete(ok)
    PROVE  /\ pc' \in {"activate", "drain", "done"}
           /\ op' = op \/ (op = "init" /\ op' = "ingest")
BY DEF Complete, IngestBody, ToActivate, StartPass

(* Steps of the tier outside of a call into the Tee.                       *)
LEMMA OutsideKeepsCall ==
    ASSUME CallInv, UNCHANGED <<turn, errors, taken>>, pc \notin {"offered", "inner"},
           pc' = "commit" => batch' \subseteq Both
    PROVE  CallInv'
BY DEF CallInv, BranchesAreIndependent

-----------------------------------------------------------------------------
(* It holds initially.                                                     *)
LEMMA InitInv == TeeInit => Inv
BY DEF TeeInit, StoreInit, TierInit, Inv, TierInv, CallInv, StoreTypeOK,
       BranchesAreIndependent

(* The calls from above.                                                   *)
LEMMA CallsKeepInv ==
    ASSUME Inv,
           \/ \E R \in SUBSET (Records \ used) : Ingest(R)
           \/ Heartbeat \/ Flush
    PROVE  Inv'
<1>. USE DEF Inv
<1>1. StoreTypeOK' /\ pc = "idle" /\ UNCHANGED <<now, turn, errors, taken, held>>
  BY DEF Ingest, CallIngest, Heartbeat, CallAdvance, Flush, CallFlush, TierInv,
         StoreTypeOK, storeVars
<1>2. pc' \in {"activate", "drain"}
  BY DEF Ingest, CallIngest, IngestBody, Heartbeat, CallAdvance, Flush,
         CallFlush, ToActivate, StartPass
<1>3. arg' \in SUBSET Records /\ (op' \in {"ingest", "init", "advance"} => at' \in Times)
  BY DEF Ingest, CallIngest, IngestBody, Heartbeat, CallAdvance, Flush,
         CallFlush, ToActivate, StartPass, TierInv
<1>. QED  BY <1>1, <1>2, <1>3, OutsideKeepsCall DEF TierInv

(* The append of the batch.                                                *)
LEMMA AppendKeepsInv == Inv /\ Append => Inv'
<1>. SUFFICES ASSUME Inv, Append  PROVE Inv'
  OBVIOUS
<1>. USE DEF Inv, TierInv, Append, AppendOk, StartPass, callVars, segVars
<1>1. StoreTypeOK'
  BY AlignTimes, StoreSteps
<1>. QED  BY <1>1, OutsideKeepsCall

(* The tier's own steps.                                                   *)
LEMMA StepKeepsInv == Inv /\ Step => Inv'
<1>. SUFFICES ASSUME Inv, Step  PROVE Inv'
  OBVIOUS
<1>. USE DEF Inv, TierInv, Step
<1>1. CASE \E w \in Windows : ReadOk(w)
  <2>. USE <1>1 DEF ReadOk, NextSegment, memVars, callVars, passVars, storeVars
  <2>1. StoreTypeOK'
    BY DEF StoreTypeOK
  <2>2. CallInv'
    BY OutsideKeepsCall
  <2>. QED  BY <2>1, <2>2
<1>2. CASE Activated
  <2>. USE <1>2 DEF Activated, StartPass, callVars, segVars, storeVars
  <2>1. StoreTypeOK'
    BY DEF StoreTypeOK
  <2>2. CallInv'
    BY OutsideKeepsCall
  <2>. QED  BY <2>1, <2>2
<1>3. CASE ActivateFails \/ AppendFails \/ DrainEnds \/ OldestFails
  <2>1. /\ pc' \in {"activate", "drain", "done", "inner"}
        /\ op' = op \/ (op = "init" /\ op' = "ingest")
        /\ pc \in {"activate", "append", "drain"}
        /\ UNCHANGED <<arg, at, now, turn, errors, taken>>
    <3>1. CASE \E ok \in BOOLEAN : Complete(ok)
      BY <1>3, <3>1, CompleteMoves
         DEF ActivateFails, AppendFails, DrainEnds, OldestFails
    <3>2. CASE DrainEnds /\ pc' = "inner" /\ op' = op
      BY <3>2 DEF DrainEnds
    <3>3. CASE DrainEnds /\ Complete(~failed)
      BY <3>3 DEF DrainEnds, Complete, IngestBody, ToActivate, StartPass
    <3>. QED
      BY <1>3, <3>1, <3>2, <3>3
         DEF ActivateFails, AppendFails, DrainEnds, OldestFails
  <2>2. StoreTypeOK'
    BY <1>3, AlignTimes, StoreSteps
       DEF ActivateFails, AppendFails, DrainEnds, OldestFails, storeVars,
           StoreTypeOK
  <2>. QED  BY <2>1, <2>2, OutsideKeepsCall
<1>4. CASE (\E w \in Windows : ReadFails(w)) \/ CommitFails \/ Return
  <2>1. /\ pc' \in {"drain", "idle"} /\ pc \notin {"offered", "inner"}
        /\ op' = op \/ op' = "idle"
        /\ arg' = arg \/ arg' = {}
        /\ op' = op => at' = at \/ op' = "idle"
        /\ UNCHANGED <<storeVars, now, turn, errors, taken>>
    BY <1>4
       DEF ReadFails, NextSegment, CommitFails, Skip, Return, callVars, storeVars
  <2>2. StoreTypeOK'
    BY <2>1 DEF StoreTypeOK, storeVars
  <2>. QED  BY <2>1, <2>2, OutsideKeepsCall
<1>5. CASE CommitOk
  <2>. USE <1>5 DEF CommitOk, callVars, passVars
  <2>1. StoreTypeOK'
    BY StoreSteps
  <2>. QED  BY <2>1, OutsideKeepsCall
<1>. QED  BY <1>1, <1>2, <1>3, <1>4, <1>5 DEF TierStep

(* A branch that answers Ok has taken the batch.                           *)
LEMMA BranchKeepsInv ==
    ASSUME Inv, NEW b \in Branches, NEW ok \in BOOLEAN, Branch(b, ok)
    PROVE  Inv'
<1>. USE DEF Inv, Branch, NextTurn, tierVars, callVars, segVars, storeVars
<1>1. TierInv'
  BY DEF TierInv, StoreTypeOK
<1>2. batch \in SUBSET Records \/ pc # "offered"
  BY DEF TierInv, StoreTypeOK
<1>3. /\ taken' \in [Branches -> SUBSET Records]
      /\ \A c \in Branches : taken[c] \subseteq taken'[c]
      /\ pc = "offered" /\ ok => batch \subseteq taken'[b]
  BY <1>2 DEF CallInv, Ingested
<1>. QED  BY <1>1, <1>3 DEF CallInv, BranchesAreIndependent

(* The Tee is called, and it answers.                                      *)
LEMMA TeeKeepsInv == Inv /\ (Calls \/ Answer) => Inv'
<1>1. ASSUME Inv, Calls  PROVE Inv'
  BY <1>1
     DEF Inv, TierInv, CallInv, BranchesAreIndependent, Calls, storeVars,
         tierVars, callVars, segVars, StoreTypeOK
<1>2. ASSUME Inv, Answer  PROVE Inv'
  <2>. USE <1>2 DEF Inv, Answer
  <2>1. CASE Verdict /\ InnerAccepts
    BY <2>1
       DEF Verdict, InnerAccepts, memVars, callVars, passVars, segVars, storeVars,
           TierInv, CallInv, BranchesAreIndependent, StoreTypeOK
  <2>2. CASE InnerRejects
    BY <2>2
       DEF InnerRejects, Skip, memVars, callVars, storeVars, TierInv, CallInv,
           BranchesAreIndependent, StoreTypeOK
  <2>3. CASE InnerReturns(Verdict)
    <3>1. Verdict \in BOOLEAN
      BY DEF Verdict
    <3>2. /\ pc' \in {"activate", "drain", "done"}
          /\ op' = op \/ (op = "init" /\ op' = "ingest")
      BY <2>3, <3>1, CompleteMoves DEF InnerReturns
    <3>. QED
      BY <2>3, <3>2
         DEF InnerReturns, memVars, segVars, storeVars, TierInv, CallInv,
             BranchesAreIndependent, StoreTypeOK
  <2>. QED  BY <2>1, <2>2, <2>3
<1>. QED  BY <1>1, <1>2

(* A crash ends the call into the Tee too.                                 *)
LEMMA CrashKeepsInv == Inv /\ Crash => Inv'
<1>. SUFFICES ASSUME Inv, Crash  PROVE Inv'
  OBVIOUS
<1>. USE DEF Inv, Crash, TierReset
<1>1. StoreTypeOK'
  <2>1. CASE pc = "append" /\ Durable
    BY <2>1, AlignTimes, StoreSteps DEF TierInv
  <2>2. CASE ~(pc = "append" /\ Durable)
    BY <2>2 DEF TierInv, StoreTypeOK, StoreCrash, storeVars
  <2>. QED  BY <2>1, <2>2
<1>. QED  BY <1>1 DEF TierInv, CallInv, BranchesAreIndependent

(* Every step keeps the invariant.                                         *)
LEMMA NextInv ==
    ASSUME Inv, [TeeNext]_teeVars
    PROVE  Inv'
<1>1. CASE (\E t \in Times : Tick(t)) \/ UNCHANGED teeVars
  BY <1>1
     DEF Tick, teeVars, storeVars, tierVars, callVars, segVars, Inv, TierInv,
         CallInv, BranchesAreIndependent, StoreTypeOK
<1>. QED
  BY <1>1, CallsKeepInv, AppendKeepsInv, StepKeepsInv, BranchKeepsInv,
     TeeKeepsInv, CrashKeepsInv
     DEF TeeNext, Busy

(* The tier and the Tee stay in step.                                      *)
THEOREM TeeInv == TeeSpec => []Inv
BY InitInv, NextInv, PTL DEF TeeSpec

(* A branch that returned no error has the batch, whatever the other one   *)
(* returned.                                                               *)
THEOREM BranchesIndependent == TeeSpec => []BranchesAreIndependent
<1>1. Inv => BranchesAreIndependent
  BY DEF Inv, CallInv
<1>. QED  BY <1>1, TeeInv, PTL

-----------------------------------------------------------------------------
(* A step removes from the store what both branches have at most.          *)
LEMMA StepsRelease ==
    ASSUME Inv, Durable, [TeeNext]_teeVars
    PROVE  /\ Held \ Held' \subseteq Both
           /\ Both \subseteq Both'
           /\ acked' = acked \/ (acked' = acked \cup arg /\ arg \subseteq Held')
<1>. USE DEF Inv, TierInv
<1>1. CASE Append
  BY <1>1, AlignTimes, StoreSteps DEF Append, AppendOk
<1>2. CASE Step /\ CommitOk
  <2>1. Held \ Held' \subseteq batch
    BY <1>2, StoreSteps DEF CommitOk
  <2>. QED  BY <1>2, <2>1 DEF Step, CommitOk, CallInv
<1>3. CASE Step /\ AppendFails
  BY <1>3, AlignTimes, StoreSteps DEF Step, AppendFails
<1>4. CASE Crash
  <2>1. CASE pc = "append"
    BY <1>4, <2>1, AlignTimes, StoreSteps DEF Crash
  <2>2. CASE pc # "append"
    BY <1>4, <2>2 DEF Crash, StoreCrash, storeVars, Held
  <2>. QED  BY <1>4, <2>1, <2>2 DEF Crash
<1>5. ASSUME NEW b \in Branches, NEW ok \in BOOLEAN, Branch(b, ok)
      PROVE  UNCHANGED <<storeVars, acked>> /\ Both \subseteq Both'
  BY <1>5 DEF Branch, Ingested, CallInv
<1>6. CASE \/ \E R \in SUBSET (Records \ used) : Ingest(R)
           \/ Heartbeat \/ Flush \/ Calls \/ Answer
           \/ \E t \in Times : Tick(t)
           \/ UNCHANGED teeVars
  BY <1>6
     DEF Ingest, CallIngest, Heartbeat, CallAdvance, Flush, CallFlush, Calls,
         Answer, InnerAccepts, InnerRejects, InnerReturns, Tick, teeVars,
         storeVars, Held
<1>7. CASE Step /\ (\/ Activated \/ ActivateFails \/ DrainEnds \/ OldestFails
                    \/ CommitFails \/ Return
                    \/ \E w \in Windows : ReadFails(w) \/ ReadOk(w))
  BY <1>7
     DEF Step, Activated, ActivateFails, DrainEnds, OldestFails, CommitFails,
         Return, ReadFails, ReadOk, storeVars, Held
<1>. QED
  BY <1>1, <1>2, <1>3, <1>4, <1>5, <1>6, <1>7
     DEF TeeNext, Busy, Step, TierStep, storeVars, Held

(* A record that was acknowledged stays in a durable store until both      *)
(* branches have taken it.                                                 *)
THEOREM TeeKeeps == TeeSpec => []TeeCustody
<1>1. TeeInit => TeeCustody
  BY DEF TeeInit, TeeCustody
<1>2. Inv /\ TeeCustody /\ [TeeNext]_teeVars => TeeCustody'
  BY StepsRelease DEF TeeCustody
<1>. QED  BY <1>1, <1>2, TeeInv, PTL DEF TeeSpec

-----------------------------------------------------------------------------
(* Why the tier offers a batch again. A record is in one segment at most,  *)
(* one that waits for its append in none; and what the Tee returned Ok for *)
(* is gone from the store but for the segment that is being removed.       *)
FreshInv ==
    /\ pc = "idle" \/ op \in {"advance", "flush"} => arg = {}
    /\ Held \cup settled \cup arg \subseteq used
    /\ \A v, w \in Windows : v # w => held[v] \cap held[w] = {}
    /\ op = "init" \/ pc \in {"activate", "append"} => arg \cap (Held \cup settled) = {}
    /\ settled \cap Held \subseteq IF pc = "commit" THEN batch ELSE {}

(* Steps that move neither records nor what is known of them.              *)
LEMMA QuietKeepsFresh ==
    ASSUME FreshInv, UNCHANGED <<held, settled, used>>,
           pc # "commit",
           arg' = arg \/ arg' = {},
           arg' = {} \/ ~(pc' = "idle" \/ op' \in {"advance", "flush"}),
           op' = "init" \/ pc' \in {"activate", "append"}
             => arg' = {} \/ op = "init" \/ pc \in {"activate", "append"}
    PROVE  FreshInv'
BY DEF FreshInv, Held

(* New records are put into a segment.                                     *)
LEMMA AppendKeepsFresh ==
    ASSUME Inv, FreshInv, NEW w \in Windows, NEW S \in SUBSET arg,
           pc = "append", pc' \in {"drain", "idle"}, op' \in {"idle", "ingest"},
           held' = [held EXCEPT ![w] = @ \cup S],
           settled' \subseteq settled, used' = used,
           arg' = {} \/ (arg' = arg /\ pc' = "drain")
    PROVE  FreshInv'
<1>. USE DEF FreshInv, Inv, TierInv, StoreTypeOK
<1>1. Held' = Held \cup S
  BY DEF Held
<1>2. \A u, v \in Windows : u # v => held'[u] \cap held'[v] = {}
  BY DEF Held
<1>. QED  BY <1>1, <1>2

(* A segment is removed.                                                   *)
LEMMA CommitKeepsFresh ==
    ASSUME Inv, FreshInv, Step, CommitOk
    PROVE  FreshInv'
<1>. USE DEF FreshInv, Inv, TierInv, StoreTypeOK, Step, CommitOk, StoreCommit,
             callVars, passVars
<1>1. Held' = Held \ held[win]
  BY DEF Held
<1>. QED  BY <1>1

(* Every step keeps it, if the store does not fail: an append that failed  *)
(* half-way, or a segment that could not be removed, is offered again.     *)
LEMMA NextFreshInv ==
    ASSUME Inv, FreshInv, [TeeNext]_teeVars, ~StoreErrors
    PROVE  FreshInv'
<1>1. CASE \E R \in SUBSET (Records \ used) : Ingest(R)
  BY <1>1
     DEF Ingest, CallIngest, IngestBody, ToActivate, StartPass, FreshInv, Held, segVars,
         storeVars
<1>2. CASE Heartbeat \/ Flush
  BY <1>2, QuietKeepsFresh
     DEF Heartbeat, CallAdvance, Flush, CallFlush, ToActivate, StartPass, storeVars,
         FreshInv
<1>3. CASE Append
  BY <1>3, AlignTimes, AppendKeepsFresh
     DEF Append, AppendOk, StoreAppend, StartPass, callVars, Inv, TierInv
<1>4. CASE Step /\ CommitOk
  BY <1>4, CommitKeepsFresh
<1>5. CASE Step /\ (\/ Activated \/ ActivateFails \/ DrainEnds \/ OldestFails
                    \/ Return \/ \E w \in Windows : ReadFails(w))
  <2>1. UNCHANGED <<held, settled, used>> /\ pc # "commit"
    BY <1>5
       DEF Step, Activated, ActivateFails, DrainEnds, OldestFails, Return, ReadFails,
           NextSegment, storeVars
  <2>2. /\ arg' = arg \/ arg' = {}
        /\ arg' = {} \/ pc' # "idle"
        /\ op' = op \/ op' = "idle" \/ (op = "init" /\ op' = "ingest")
        /\ pc' \in {"activate", "append"} => op = "init" \/ pc = "activate"
    BY <1>5
       DEF Step, Activated, ActivateFails, DrainEnds, OldestFails, Return, ReadFails,
           NextSegment, Skip, Complete, IngestBody, ToActivate, StartPass, callVars,
           passVars
  <2>3. op \in {"advance", "flush"} => arg = {}
    BY DEF FreshInv
  <2>. QED  BY <2>1, <2>2, <2>3, QuietKeepsFresh
<1>6. CASE Step /\ \E w \in Windows : ReadOk(w)
  BY <1>6
     DEF Step, ReadOk, NextSegment, callVars, storeVars, FreshInv, Held
<1>7. CASE Calls \/ (\E b \in Branches, ok \in BOOLEAN : Branch(b, ok))
           \/ (\E t \in Times : Tick(t)) \/ UNCHANGED teeVars
  BY <1>7
     DEF Calls, Branch, Tick, teeVars, tierVars, callVars, segVars, storeVars,
         FreshInv, Held
<1>8. CASE Answer
  <2>1. CASE Verdict /\ InnerAccepts
    BY <1>8, <2>1
       DEF Answer, InnerAccepts, callVars, segVars, storeVars, FreshInv, Held, Inv,
           TierInv, StoreTypeOK
  <2>2. CASE ~Verdict /\ InnerRejects
    BY <1>8, <2>2, QuietKeepsFresh
       DEF Answer, Verdict, InnerRejects, Skip, callVars, storeVars, FreshInv
  <2>3. CASE InnerReturns(Verdict)
    BY <1>8, <2>3, QuietKeepsFresh
       DEF Answer, InnerReturns, Complete, IngestBody, ToActivate, StartPass, storeVars,
           FreshInv
  <2>. QED  BY <1>8, <2>1, <2>2, <2>3 DEF Answer
<1>9. CASE Crash
  <2>1. CASE pc = "append" /\ Durable
    <3>1. Align(at) \in Windows /\ op = "ingest"
      BY <2>1, AlignTimes DEF Inv, TierInv
    <3>2. \/ held' = held
          \/ \E S \in SUBSET arg : held' = [held EXCEPT ![Align(at)] = @ \cup S]
      BY <1>9, <2>1 DEF Crash, StoreTear, storeVars
    <3>3. pc' = "idle" /\ op' = "idle" /\ arg' = {} /\ settled' = {} /\ used' = used
      BY <1>9 DEF Crash, TierReset
    <3>4. CASE held' = held
      BY <3>3, <3>4 DEF FreshInv, Held
    <3>. QED  BY <2>1, <3>1, <3>2, <3>3, <3>4, AppendKeepsFresh
  <2>2. CASE ~(pc = "append" /\ Durable)
    BY <1>9, <2>2 DEF Crash, TierReset, StoreCrash, storeVars, FreshInv, Held
  <2>. QED  BY <2>1, <2>2
<1>. QED
  BY <1>1, <1>2, <1>3, <1>4, <1>5, <1>6, <1>7, <1>8, <1>9
     DEF TeeNext, Busy, Step, TierStep, AppendFails, CommitFails

(* Over a store that does not fail, the tier offers a batch again only     *)
(* when a branch has refused it, or the process died before its commit.    *)
THEOREM CopiesNeedFailure ==
    ASSUME ~StoreErrors
    PROVE  TeeSpec => []CopiesOnlyAfterFailure
<1>1. TeeInit => FreshInv
  BY DEF TeeInit, TierInit, StoreInit, FreshInv, Held
<1>2. Inv /\ FreshInv /\ [TeeNext]_teeVars => FreshInv'
  BY NextFreshInv
<1>3. Inv /\ FreshInv => CopiesOnlyAfterFailure
  BY DEF Inv, TierInv, FreshInv, CopiesOnlyAfterFailure, Held
<1>. QED  BY <1>1, <1>2, <1>3, TeeInv, PTL DEF TeeSpec
=============================================================================
