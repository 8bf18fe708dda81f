----------------------------- MODULE StackProofs -----------------------------
(***************************************************************************)
(* What a stack of two tiers guarantees for every value of its constants.  *)
(*                                                                         *)
(* Each tier keeps an invariant of its own whatever surrounds it (OuterInv *)
(* and LowerInv).  The others relate the two: which call of the inner tier *)
(* answers which step of the outer one (LinkInv), that what leaves the     *)
(* outer tier is below (BelowInv), that an Ok from above had an Ok from    *)
(* below (BelowDrained), and that records are offered again only when the  *)
(* inner tier has refused them (FreshInv, OfferInv).                       *)
(***************************************************************************)
EXTENDS Stack, TLAPS, FiniteSetTheorems

-----------------------------------------------------------------------------
(* Sets of records, and of copies, have a number.                          *)
LEMMA OuterCounts ==
    ASSUME NEW S \in SUBSET Records
    PROVE  Cardinality(S) \in Nat
BY StoreAssumption, FS_Subset, FS_CardinalityType DEF StoreAssumption

LEMMA LowerCounts ==
    ASSUME NEW S \in SUBSET Copies
    PROVE  Inner!Cardinality(S) \in Nat
<1>1. IsFiniteSet(Records) /\ MaxCopies \in Nat
  BY StoreAssumption, StackAssumption DEF StoreAssumption, StackAssumption, MaxCopies
<1>2. IsFiniteSet(1..MaxCopies)
  BY <1>1, FS_Interval
<1>3. IsFiniteSet(Copies)
  BY <1>1, <1>2, FS_Product DEF Copies
<1>4. Cardinality(S) \in Nat
  BY <1>3, FS_Subset, FS_CardinalityType
<1>5. Inner!Cardinality(S) = Cardinality(S)
  BY DEF Inner!Cardinality, Cardinality
<1>. QED  BY <1>4, <1>5

(* What the outer tier keeps in order, whatever its caller and the tier    *)
(* below do: types, the segment it has checked out, and what a pass        *)
(* without an error has established.                                       *)
OuterDrained ==
    /\ op = "flush" => segs = {}
    /\ op = "advance" => \A w \in segs : w + WindowSecs > at

OuterPass ==
    /\ ~failed => cursor = None
    /\ op = "flush" => forced
    /\ op = "advance" => active \in {None, Align(at)}

OuterInv ==
    /\ StoreTypeOK
    /\ TierTypeOK
    /\ pc = "idle" <=> op = "idle"
    /\ op \in {"ingest", "init", "advance"} => at \in Times
    /\ pc = "activate" => op # "flush"
    /\ pc = "append" => op = "ingest"
    /\ pc = "inner" => op # "ingest"
    /\ pc = "done" => op # "init"
    /\ pc \in {"offered", "commit"} => win \in Windows /\ batch = held[win]
    /\ pc \in {"drain", "offered", "commit"} => OuterPass
    /\ pc = "inner" \/ (pc = "done" /\ ~failed) => OuterDrained

(* A call into the outer tier, or a step of it.                            *)
OuterCalls ==
    \/ \E R \in SUBSET Records, t \in Times : CallIngest(R, t)
    \/ \E t \in Times : CallAdvance(t)
    \/ CallFlush

OuterMoves ==
    \/ OuterCalls
    \/ AppendOk
    \/ TierStep
    \/ \E w \in Windows : ReadOk(w)
    \/ InnerAccepts
    \/ InnerRejects
    \/ \E ok \in BOOLEAN : InnerReturns(ok)
    \/ UNCHANGED outerVars
    \/ StoreTypeOK' /\ TierReset

(* Aligning a clock reading gives its window, which ends after it.         *)
LEMMA OuterAlign ==
    ASSUME NEW t \in Times
    PROVE  /\ Align(t) \in Windows
           /\ Align(t) \in Int
           /\ Align(t) + WindowSecs > t
<1>1. t \in Int /\ WindowSecs \in Int /\ WindowSecs > 0 /\ Align(t) \in Windows
  BY TierAssumption DEF TierAssumption, WindowSecs
<1>2. t % WindowSecs \in 0..(WindowSecs - 1)
  BY <1>1
<1>. QED  BY <1>1, <1>2 DEF Align

(* Steps of the outer store keep its type.                                 *)
LEMMA OuterStore ==
    ASSUME StoreTypeOK, NEW w \in Windows, NEW R \in SUBSET Records
    PROVE  /\ StoreAppend(w, R) => StoreTypeOK'
           /\ StoreTear(w, R) => StoreTypeOK'
           /\ StoreCommit(w) => StoreTypeOK'
<1>1. StoreAppend(w, R) => StoreTypeOK'
  BY DEF StoreTypeOK, StoreAppend
<1>2. StoreTear(w, R) => StoreTypeOK'
  BY DEF StoreTypeOK, StoreTear, storeVars
<1>3. StoreCommit(w) => StoreTypeOK'
  BY DEF StoreTypeOK, StoreCommit
<1>. QED  BY <1>1, <1>2, <1>3

(* A step that hands a call on to its next part.                           *)
OuterMoved ==
    /\ pc' \in {"activate", "drain", "done"}
    /\ op' = op \/ (op = "init" /\ op' = "ingest")
    /\ pc' # "done" => op' = "ingest"
    /\ pc' = "done" => op' # "init"
    /\ pc' = "drain" => cursor' = None
    /\ forced' \in BOOLEAN
    /\ cursor' \in Windows \cup {None}
    /\ failed' \in BOOLEAN
    /\ pc' = "done" => op' = op

LEMMA OuterCompletes ==
    ASSUME OuterInv, NEW ok \in BOOLEAN, Complete(ok)
    PROVE  /\ OuterMoved
           /\ pc' = "done" /\ ~failed' => ok
<1>1. (count >= MaxRecords) \in BOOLEAN
  OBVIOUS
<1>. QED
  BY <1>1 DEF OuterInv, TierTypeOK, Complete, IngestBody, ToActivate, StartPass, OuterMoved

LEMMA OuterHandsOn ==
    ASSUME OuterInv, OuterMoved, pc # "idle", StoreTypeOK',
           UNCHANGED <<active, count, initialized, pipeline, arg, at, win, batch>>,
           pc' = "done" /\ ~failed' => OuterDrained /\ UNCHANGED segs
    PROVE  OuterInv'
<1>1. TierTypeOK'
  BY DEF OuterInv, TierTypeOK, OuterMoved, Ops, Pcs
<1>2. pc' \in {"drain", "offered", "commit"} => OuterPass'
  BY DEF OuterMoved, OuterPass
<1>3. pc' = "done" /\ ~failed' => OuterDrained'
  BY DEF OuterMoved, OuterDrained, WindowSecs
<1>. QED  BY <1>1, <1>2, <1>3 DEF OuterInv, OuterMoved

(* A pass that ends without an error has shipped what it should have.      *)
LEMMA OuterPassShips ==
    ASSUME OuterInv, pc = "drain", PassEnds, ~failed
    PROVE  OuterDrained
<1>. USE DEF OuterInv, OuterPass
<1>1. Newer(cursor) = segs /\ segs \in SUBSET Windows
  BY DEF Newer, StoreTypeOK
<1>2. CASE segs = {}
  BY <1>2 DEF OuterDrained
<1>3. CASE segs # {}
  <2>1. PICK w \in segs : (\A v \in segs : w <= v) /\ Retained(w)
    BY <1>1, <1>3 DEF PassEnds, IsOldest
  <2>2. ~forced /\ active # None /\ w >= active
    BY <2>1 DEF Retained
  <2>3. ASSUME op = "advance", NEW v \in segs
        PROVE  v + WindowSecs > at
    <3>1. at \in Times /\ active = Align(at)
      BY <2>2, <2>3
    <3>2. v >= active /\ v \in Int
      <4>1. v \in Int /\ w \in Int /\ active \in Int
        BY <1>1, <3>1, OuterAlign, StoreAssumption DEF StoreAssumption
      <4>. QED  BY <2>1, <2>2, <4>1
    <3>3. at \in Int /\ WindowSecs \in Int /\ Align(at) \in Int
      BY <3>1, OuterAlign, TierAssumption DEF TierAssumption, WindowSecs
    <3>. QED  BY <3>1, <3>2, <3>3, OuterAlign
  <2>. QED  BY <2>2, <2>3 DEF OuterDrained
<1>. QED  BY <1>2, <1>3

(* The calls into the outer tier keep its invariant.                       *)
LEMMA OuterCallsKeep ==
    ASSUME OuterInv, OuterCalls
    PROVE  OuterInv'
<1>1. Name \in Names /\ (count >= MaxRecords) \in BOOLEAN
  BY TierAssumption DEF TierAssumption
<1>2. pc = "idle" /\ UNCHANGED <<active, count, win, batch, storeVars>>
  BY DEF OuterCalls, CallIngest, CallAdvance, CallFlush, segVars
<1>3. StoreTypeOK'
  BY <1>2 DEF OuterInv, StoreTypeOK, storeVars
<1>4. TierTypeOK'
  BY <1>1, <1>2
     DEF OuterInv, TierTypeOK, OuterCalls, CallIngest, CallAdvance, CallFlush, IngestBody,
         ToActivate, StartPass, Ops, Pcs
<1>5. /\ pc' \in {"activate", "drain"}
      /\ op' \in {"ingest", "init", "advance", "flush"}
      /\ pc' = "activate" => op' # "flush"
      /\ pc' = "drain" => cursor' = None /\ op' # "advance"
      /\ op' = "flush" => forced'
      /\ op' # "flush" => at' \in Times
  BY DEF OuterCalls, CallIngest, CallAdvance, CallFlush, IngestBody, ToActivate, StartPass
<1>6. pc' = "drain" => OuterPass'
  BY <1>5 DEF OuterPass
<1>. QED  BY <1>3, <1>4, <1>5, <1>6 DEF OuterInv

(* So do its steps.                                                        *)
LEMMA OuterKeepsInv ==
    ASSUME OuterInv, OuterMoves
    PROVE  OuterInv'
<1>0. /\ (count' >= MaxRecords) \in BOOLEAN /\ failed \in BOOLEAN /\ (~failed) \in BOOLEAN
      /\ FALSE \in BOOLEAN /\ TRUE \in BOOLEAN
      /\ \A w \in Windows : w # None
  BY StoreAssumption DEF OuterInv, TierTypeOK, StoreAssumption
<1>1. CASE Activated
  <2>. USE <1>1 DEF Activated, segVars, callVars
  <2>1. at \in Times /\ op # "flush"
    BY DEF OuterInv, TierTypeOK, Ops, Pcs
  <2>2. Align(at) \in Windows /\ Cardinality(held[Align(at)]) \in Nat
    BY <2>1, OuterAlign, OuterCounts DEF OuterInv, StoreTypeOK
  <2>3. active' = Align(at) /\ count' \in Nat
    BY <2>2 DEF OuterInv, Activate, TierTypeOK
  <2>4. StoreTypeOK'
    BY DEF OuterInv, StoreTypeOK, storeVars
  <2>5. TierTypeOK'
    BY <1>0, <2>2, <2>3 DEF OuterInv, TierTypeOK, StartPass, passVars, Ops, Pcs
  <2>6. pc' = "drain" => OuterPass'
    BY <2>1, <2>3 DEF OuterPass, StartPass
  <2>. QED  BY <2>1, <2>4, <2>5, <2>6 DEF OuterInv, StartPass
<1>2. CASE ActivateFails \/ AppendFails \/ OldestFails
  <2>1. StoreTypeOK'
    <3>1. CASE AppendFails
      BY <3>1, OuterAlign, OuterStore DEF AppendFails, OuterInv, TierTypeOK
    <3>. QED  BY <1>2, <3>1 DEF ActivateFails, OldestFails, OuterInv, StoreTypeOK, storeVars
  <2>. QED
    BY <1>0, <1>2, <2>1, OuterCompletes, OuterHandsOn
       DEF ActivateFails, AppendFails, OldestFails, memVars, segVars
<1>3. CASE DrainEnds
  <2>. USE <1>3 DEF DrainEnds
  <2>1. ~failed => OuterDrained
    BY OuterPassShips
  <2>2. StoreTypeOK' /\ UNCHANGED <<segs, active, count, initialized, pipeline, arg, at,
                                    win, batch>>
    BY DEF OuterInv, StoreTypeOK, storeVars, memVars, segVars
  <2>3. CASE Complete(~failed)
    BY <1>0, <2>1, <2>2, <2>3, OuterCompletes, OuterHandsOn
  <2>4. CASE op # "ingest" /\ ~failed /\ pc' = "inner" /\ UNCHANGED <<op, passVars>>
    <3>1. TierTypeOK'
      BY <2>2, <2>4 DEF OuterInv, TierTypeOK, passVars, Pcs
    <3>2. OuterDrained'
      BY <2>1, <2>2, <2>4 DEF OuterDrained, WindowSecs
    <3>. QED  BY <2>2, <2>4, <3>1, <3>2 DEF OuterInv, passVars
  <2>. QED  BY <2>3, <2>4
<1>4. CASE \E w \in Windows : ReadOk(w)
  <2>. USE <1>4 DEF ReadOk, NextSegment, memVars, callVars, passVars, storeVars
  <2>1. StoreTypeOK'
    BY DEF OuterInv, StoreTypeOK
  <2>2. TierTypeOK'
    BY DEF OuterInv, TierTypeOK, StoreTypeOK, Pcs
  <2>3. OuterPass'
    BY DEF OuterInv, OuterPass, Align, WindowSecs
  <2>. QED  BY <2>1, <2>2, <2>3 DEF OuterInv
<1>5. CASE (\E w \in Windows : ReadFails(w)) \/ CommitFails \/ InnerRejects
  <2>1. /\ pc \in {"drain", "offered", "commit"}
        /\ pc' = "drain" /\ failed' /\ cursor' \in Windows
        /\ win' = None /\ batch' = {}
        /\ UNCHANGED <<forced, active, count, initialized, pipeline, op, arg, at, segs,
                       held, broken>>
    BY <1>5
       DEF ReadFails, NextSegment, CommitFails, InnerRejects, Skip, memVars, callVars,
           storeVars, OuterInv
  <2>2. StoreTypeOK'
    BY <2>1 DEF OuterInv, StoreTypeOK
  <2>3. failed' \in BOOLEAN
    BY <1>5 DEF ReadFails, CommitFails, InnerRejects, Skip
  <2>4. TierTypeOK'
    BY <2>1, <2>3 DEF OuterInv, TierTypeOK, Pcs
  <2>5. OuterPass'
    BY <2>1 DEF OuterInv, OuterPass, Align, WindowSecs
  <2>. QED  BY <2>1, <2>2, <2>4, <2>5 DEF OuterInv
<1>6. CASE CommitOk
  <2>. USE <1>6 DEF CommitOk, callVars, passVars
  <2>1. StoreTypeOK'
    BY OuterStore DEF OuterInv
  <2>2. TierTypeOK'
    BY DEF OuterInv, TierTypeOK, Pcs
  <2>3. OuterPass'
    BY DEF OuterInv, OuterPass, Align, WindowSecs
  <2>. QED  BY <2>1, <2>2, <2>3 DEF OuterInv
<1>7. CASE Return
  <2>. USE <1>7 DEF Return, memVars, segVars
  <2>1. StoreTypeOK'
    BY DEF OuterInv, StoreTypeOK, storeVars
  <2>2. TierTypeOK'
    BY DEF OuterInv, TierTypeOK, Ops, Pcs
  <2>. QED  BY <2>1, <2>2 DEF OuterInv
<1>11. CASE StoreTypeOK' /\ TierReset
  <2>1. StoreTypeOK'
    BY <1>11
  <2>2. TierTypeOK'
    BY <1>11 DEF TierTypeOK, TierReset, Ops, Pcs
  <2>. QED  BY <1>11, <2>1, <2>2 DEF OuterInv, TierReset
<1>8. CASE AppendOk
  <2>. USE <1>8 DEF AppendOk
  <2>1. at \in Times /\ arg \in SUBSET Records /\ op = "ingest"
    BY DEF OuterInv, TierTypeOK
  <2>2. Align(at) \in Windows /\ Cardinality(arg) \in Nat
    BY <2>1, OuterAlign, OuterCounts
  <2>3. StoreTypeOK'
    BY <2>1, <2>2, OuterStore DEF OuterInv
  <2>4. count' \in Nat
    BY <2>2 DEF OuterInv, TierTypeOK
  <2>5. TierTypeOK'
    BY <1>0, <2>4 DEF OuterInv, TierTypeOK, StartPass, callVars, segVars, Pcs
  <2>. QED  BY <2>1, <2>3, <2>5 DEF OuterInv, OuterPass, StartPass, callVars
<1>9. CASE InnerAccepts \/ UNCHANGED outerVars
  <2>1. StoreTypeOK'
    BY <1>9 DEF OuterInv, StoreTypeOK, InnerAccepts, outerVars, storeVars
  <2>2. TierTypeOK'
    BY <1>9
       DEF OuterInv, TierTypeOK, InnerAccepts, outerVars, tierVars, memVars, callVars,
           passVars, segVars, Pcs
  <2>. QED
    BY <1>9, <2>1, <2>2
       DEF OuterInv, OuterPass, OuterDrained, InnerAccepts, outerVars, tierVars, memVars,
           callVars, passVars, segVars, storeVars, Align, WindowSecs
<1>10. ASSUME NEW ok \in BOOLEAN, InnerReturns(ok)  PROVE OuterInv'
  BY <1>10, OuterCompletes, OuterHandsOn
     DEF InnerReturns, memVars, segVars, storeVars, OuterInv, StoreTypeOK
<1>. QED
  BY <1>1, <1>2, <1>3, <1>4, <1>5, <1>6, <1>7, <1>8, <1>9, <1>10, <1>11, OuterCallsKeep
     DEF OuterMoves, TierStep

-----------------------------------------------------------------------------
(* The inner tier keeps the same invariant, under its own names: the text  *)
(* is that above, over the instance Inner.                                 *)

(* What the inner tier keeps in order, whatever its caller and the sink    *)
(* below do: types, the segment it has checked out, and what a pass        *)
(* without an error has established.                                       *)
LowerDrained ==
    /\ iop = "flush" => isegs = {}
    /\ iop = "advance" => \A w \in isegs : w + Inner!WindowSecs > iat

LowerPass ==
    /\ ~ifailed => icursor = None
    /\ iop = "flush" => iforced
    /\ iop = "advance" => iactive \in {None, Inner!Align(iat)}

LowerInv ==
    /\ Inner!StoreTypeOK
    /\ Inner!TierTypeOK
    /\ ipc = "idle" <=> iop = "idle"
    /\ iop \in {"ingest", "init", "advance"} => iat \in InnerTimes
    /\ ipc = "activate" => iop # "flush"
    /\ ipc = "append" => iop = "ingest"
    /\ ipc = "inner" => iop # "ingest"
    /\ ipc = "done" => iop # "init"
    /\ ipc \in {"offered", "commit"} => iwin \in InnerWindows /\ ibatch = iheld[iwin]
    /\ ipc \in {"drain", "offered", "commit"} => LowerPass
    /\ ipc = "inner" \/ (ipc = "done" /\ ~ifailed) => LowerDrained

(* A call into the inner tier, or a step of it.                            *)
LowerCalls ==
    \/ \E R \in SUBSET Copies, t \in InnerTimes : Inner!CallIngest(R, t)
    \/ \E t \in InnerTimes : Inner!CallAdvance(t)
    \/ Inner!CallFlush

LowerMoves ==
    \/ LowerCalls
    \/ Inner!AppendOk
    \/ Inner!TierStep
    \/ \E w \in InnerWindows : Inner!ReadOk(w)
    \/ Inner!InnerAccepts
    \/ Inner!InnerRejects
    \/ \E ok \in BOOLEAN : Inner!InnerReturns(ok)
    \/ UNCHANGED innerVars
    \/ Inner!StoreTypeOK' /\ Inner!TierReset

(* Aligning a clock reading gives its window, which ends after it.         *)
LEMMA LowerAlign ==
    ASSUME NEW t \in InnerTimes
    PROVE  /\ Inner!Align(t) \in InnerWindows
           /\ Inner!Align(t) \in Int
           /\ Inner!Align(t) + Inner!WindowSecs > t
<1>1. t \in Int /\ Inner!WindowSecs \in Int /\ Inner!WindowSecs > 0 /\ Inner!Align(t) \in InnerWindows
  BY StackAssumption DEF StackAssumption, Inner!WindowSecs
<1>2. t % Inner!WindowSecs \in 0..(Inner!WindowSecs - 1)
  BY <1>1
<1>. QED  BY <1>1, <1>2 DEF Inner!Align

(* Steps of the inner store keep its type.                                 *)
LEMMA LowerStore ==
    ASSUME Inner!StoreTypeOK, NEW w \in InnerWindows, NEW R \in SUBSET Copies
    PROVE  /\ Inner!StoreAppend(w, R) => Inner!StoreTypeOK'
           /\ Inner!StoreTear(w, R) => Inner!StoreTypeOK'
           /\ Inner!StoreCommit(w) => Inner!StoreTypeOK'
<1>1. Inner!StoreAppend(w, R) => Inner!StoreTypeOK'
  BY DEF Inner!StoreTypeOK, Inner!StoreAppend
<1>2. Inner!StoreTear(w, R) => Inner!StoreTypeOK'
  BY DEF Inner!StoreTypeOK, Inner!StoreTear, Inner!storeVars
<1>3. Inner!StoreCommit(w) => Inner!StoreTypeOK'
  BY DEF Inner!StoreTypeOK, Inner!StoreCommit
<1>. QED  BY <1>1, <1>2, <1>3

(* A step that hands a call on to its next part.                           *)
LowerMoved ==
    /\ ipc' \in {"activate", "drain", "done"}
    /\ iop' = iop \/ (iop = "init" /\ iop' = "ingest")
    /\ ipc' # "done" => iop' = "ingest"
    /\ ipc' = "done" => iop' # "init"
    /\ ipc' = "drain" => icursor' = None
    /\ iforced' \in BOOLEAN
    /\ icursor' \in InnerWindows \cup {None}
    /\ ifailed' \in BOOLEAN
    /\ ipc' = "done" => iop' = iop

LEMMA LowerCompletes ==
    ASSUME LowerInv, NEW ok \in BOOLEAN, Inner!Complete(ok)
    PROVE  /\ LowerMoved
           /\ ipc' = "done" /\ ~ifailed' => ok
<1>1. (icount >= InnerMax) \in BOOLEAN
  OBVIOUS
<1>. QED
  BY <1>1 DEF LowerInv, Inner!TierTypeOK, Inner!Complete, Inner!IngestBody,
              Inner!ToActivate, Inner!StartPass, LowerMoved

LEMMA LowerHandsOn ==
    ASSUME LowerInv, LowerMoved, ipc # "idle", Inner!StoreTypeOK',
           UNCHANGED <<iactive, icount, iinitialized, ipipeline, iarg, iat, iwin, ibatch>>,
           ipc' = "done" /\ ~ifailed' => LowerDrained /\ UNCHANGED isegs
    PROVE  LowerInv'
<1>1. Inner!TierTypeOK'
  BY DEF LowerInv, Inner!TierTypeOK, LowerMoved, Inner!Ops, Inner!Pcs
<1>2. ipc' \in {"drain", "offered", "commit"} => LowerPass'
  BY DEF LowerMoved, LowerPass
<1>3. ipc' = "done" /\ ~ifailed' => LowerDrained'
  BY DEF LowerMoved, LowerDrained, Inner!WindowSecs
<1>. QED  BY <1>1, <1>2, <1>3 DEF LowerInv, LowerMoved

(* A pass that ends without an error has shipped what it should have.      *)
LEMMA LowerPassShips ==
    ASSUME LowerInv, ipc = "drain", Inner!PassEnds, ~ifailed
    PROVE  LowerDrained
<1>. USE DEF LowerInv, LowerPass
<1>1. Inner!Newer(icursor) = isegs /\ isegs \in SUBSET InnerWindows
  BY DEF Inner!Newer, Inner!StoreTypeOK
<1>2. CASE isegs = {}
  BY <1>2 DEF LowerDrained
<1>3. CASE isegs # {}
  <2>1. PICK w \in isegs : (\A v \in isegs : w <= v) /\ Inner!Retained(w)
    BY <1>1, <1>3 DEF Inner!PassEnds, Inner!IsOldest
  <2>2. ~iforced /\ iactive # None /\ w >= iactive
    BY <2>1 DEF Inner!Retained
  <2>3. ASSUME iop = "advance", NEW v \in isegs
        PROVE  v + Inner!WindowSecs > iat
    <3>1. iat \in InnerTimes /\ iactive = Inner!Align(iat)
      BY <2>2, <2>3
    <3>2. v >= iactive /\ v \in Int
      <4>1. v \in Int /\ w \in Int /\ iactive \in Int
        BY <1>1, <3>1, LowerAlign, StackAssumption DEF StackAssumption
      <4>. QED  BY <2>1, <2>2, <4>1
    <3>3. iat \in Int /\ Inner!WindowSecs \in Int /\ Inner!Align(iat) \in Int
      BY <3>1, LowerAlign, StackAssumption DEF StackAssumption, Inner!WindowSecs
    <3>. QED  BY <3>1, <3>2, <3>3, LowerAlign
  <2>. QED  BY <2>2, <2>3 DEF LowerDrained
<1>. QED  BY <1>2, <1>3

(* The calls into the inner tier keep its invariant.                       *)
LEMMA LowerCallsKeep ==
    ASSUME LowerInv, LowerCalls
    PROVE  LowerInv'
<1>1. Name \in Names /\ (icount >= InnerMax) \in BOOLEAN
  BY TierAssumption DEF TierAssumption
<1>2. ipc = "idle" /\ UNCHANGED <<iactive, icount, iwin, ibatch, Inner!storeVars>>
  BY DEF LowerCalls, Inner!CallIngest, Inner!CallAdvance, Inner!CallFlush, Inner!segVars
<1>3. Inner!StoreTypeOK'
  BY <1>2 DEF LowerInv, Inner!StoreTypeOK, Inner!storeVars
<1>4. Inner!TierTypeOK'
  BY <1>1, <1>2
     DEF LowerInv, Inner!TierTypeOK, LowerCalls, Inner!CallIngest, Inner!CallAdvance,
         Inner!CallFlush, Inner!IngestBody,
         Inner!ToActivate, Inner!StartPass, Inner!Ops, Inner!Pcs
<1>5. /\ ipc' \in {"activate", "drain"}
      /\ iop' \in {"ingest", "init", "advance", "flush"}
      /\ ipc' = "activate" => iop' # "flush"
      /\ ipc' = "drain" => icursor' = None /\ iop' # "advance"
      /\ iop' = "flush" => iforced'
      /\ iop' # "flush" => iat' \in InnerTimes
  BY DEF LowerCalls, Inner!CallIngest, Inner!CallAdvance, Inner!CallFlush,
         Inner!IngestBody, Inner!ToActivate, Inner!StartPass
<1>6. ipc' = "drain" => LowerPass'
  BY <1>5 DEF LowerPass
<1>. QED  BY <1>3, <1>4, <1>5, <1>6 DEF LowerInv

(* So do its steps.                                                        *)
LEMMA LowerKeepsInv ==
    ASSUME LowerInv, LowerMoves
    PROVE  LowerInv'
<1>0. /\ (icount' >= InnerMax) \in BOOLEAN /\ ifailed \in BOOLEAN /\ (~ifailed) \in BOOLEAN
      /\ FALSE \in BOOLEAN /\ TRUE \in BOOLEAN
      /\ \A w \in InnerWindows : w # None
  <2>1. ifailed \in BOOLEAN
    BY DEF LowerInv, Inner!TierTypeOK
  <2>2. \A w \in InnerWindows : w # None
    BY StoreAssumption, StackAssumption DEF StoreAssumption, StackAssumption
  <2>3. (icount' >= InnerMax) \in BOOLEAN
    OBVIOUS
  <2>. QED  BY <2>1, <2>2, <2>3
<1>1. CASE Inner!Activated
  <2>. USE <1>1 DEF Inner!Activated, Inner!segVars, Inner!callVars
  <2>1. iat \in InnerTimes /\ iop # "flush"
    BY DEF LowerInv, Inner!TierTypeOK, Inner!Ops, Inner!Pcs
  <2>2. Inner!Align(iat) \in InnerWindows /\ Inner!Cardinality(iheld[Inner!Align(iat)]) \in Nat
    BY <2>1, LowerAlign, LowerCounts DEF LowerInv, Inner!StoreTypeOK
  <2>3. iactive' = Inner!Align(iat) /\ icount' \in Nat
    BY <2>2 DEF LowerInv, Inner!Activate, Inner!TierTypeOK
  <2>4. Inner!StoreTypeOK'
    BY DEF LowerInv, Inner!StoreTypeOK, Inner!storeVars
  <2>5. Inner!TierTypeOK'
    BY <1>0, <2>2, <2>3 DEF LowerInv, Inner!TierTypeOK, Inner!StartPass, Inner!passVars,
                            Inner!Ops, Inner!Pcs
  <2>6. ipc' = "drain" => LowerPass'
    BY <2>1, <2>3 DEF LowerPass, Inner!StartPass
  <2>. QED  BY <2>1, <2>4, <2>5, <2>6 DEF LowerInv, Inner!StartPass
<1>2. CASE Inner!ActivateFails \/ Inner!AppendFails \/ Inner!OldestFails
  <2>1. Inner!StoreTypeOK'
    <3>1. CASE Inner!AppendFails
      BY <3>1, LowerAlign, LowerStore DEF Inner!AppendFails, LowerInv, Inner!TierTypeOK
    <3>. QED  BY <1>2, <3>1 DEF Inner!ActivateFails, Inner!OldestFails, LowerInv,
    Inner!StoreTypeOK, Inner!storeVars
  <2>. QED
    BY <1>0, <1>2, <2>1, LowerCompletes, LowerHandsOn
       DEF Inner!ActivateFails, Inner!AppendFails, Inner!OldestFails, Inner!memVars,
           Inner!segVars
<1>3. CASE Inner!DrainEnds
  <2>. USE <1>3 DEF Inner!DrainEnds
  <2>1. ~ifailed => LowerDrained
    BY LowerPassShips
  <2>2. Inner!StoreTypeOK' /\ UNCHANGED <<isegs, iactive, icount, iinitialized, ipipeline,
                                          iarg, iat, iwin, ibatch>>
    BY DEF LowerInv, Inner!StoreTypeOK, Inner!storeVars, Inner!memVars, Inner!segVars
  <2>3. CASE Inner!Complete(~ifailed)
    BY <1>0, <2>1, <2>2, <2>3, LowerCompletes, LowerHandsOn
  <2>4. CASE iop # "ingest" /\ ~ifailed /\ ipc' = "inner" /\ UNCHANGED <<iop, Inner!passVars>>
    <3>1. Inner!TierTypeOK'
      BY <2>2, <2>4 DEF LowerInv, Inner!TierTypeOK, Inner!passVars, Inner!Pcs
    <3>2. LowerDrained'
      BY <2>1, <2>2, <2>4 DEF LowerDrained, Inner!WindowSecs
    <3>. QED  BY <2>2, <2>4, <3>1, <3>2 DEF LowerInv, Inner!passVars
  <2>. QED  BY <2>3, <2>4
<1>4. CASE \E w \in InnerWindows : Inner!ReadOk(w)
  <2>. USE <1>4 DEF Inner!ReadOk, Inner!NextSegment, Inner!memVars, Inner!callVars,
  Inner!passVars, Inner!storeVars
  <2>1. Inner!StoreTypeOK'
    BY DEF LowerInv, Inner!StoreTypeOK
  <2>2. Inner!TierTypeOK'
    BY DEF LowerInv, Inner!TierTypeOK, Inner!StoreTypeOK, Inner!Pcs
  <2>3. LowerPass'
    BY DEF LowerInv, LowerPass, Inner!Align, Inner!WindowSecs
  <2>. QED  BY <2>1, <2>2, <2>3 DEF LowerInv
<1>5. CASE (\E w \in InnerWindows : Inner!ReadFails(w)) \/ Inner!CommitFails \/ Inner!InnerRejects
  <2>1. /\ ipc \in {"drain", "offered", "commit"}
        /\ ipc' = "drain" /\ ifailed' /\ icursor' \in InnerWindows
        /\ iwin' = None /\ ibatch' = {}
        /\ UNCHANGED <<iforced, iactive, icount, iinitialized, ipipeline, iop, iarg, iat,
                       isegs, iheld, ibroken>>
    BY <1>5
       DEF Inner!ReadFails, Inner!NextSegment, Inner!CommitFails, Inner!InnerRejects,
           Inner!Skip, Inner!memVars, Inner!callVars,
           Inner!storeVars, LowerInv
  <2>2. Inner!StoreTypeOK'
    BY <2>1 DEF LowerInv, Inner!StoreTypeOK
  <2>3. ifailed' \in BOOLEAN
    BY <1>5 DEF Inner!ReadFails, Inner!CommitFails, Inner!InnerRejects, Inner!Skip
  <2>4. Inner!TierTypeOK'
    BY <2>1, <2>3 DEF LowerInv, Inner!TierTypeOK, Inner!Pcs
  <2>5. LowerPass'
    BY <2>1 DEF LowerInv, LowerPass, Inner!Align, Inner!WindowSecs
  <2>. QED  BY <2>1, <2>2, <2>4, <2>5 DEF LowerInv
<1>6. CASE Inner!CommitOk
  <2>. USE <1>6 DEF Inner!CommitOk, Inner!callVars, Inner!passVars
  <2>1. Inner!StoreTypeOK'
    BY LowerStore DEF LowerInv
  <2>2. Inner!TierTypeOK'
    BY DEF LowerInv, Inner!TierTypeOK, Inner!Pcs
  <2>3. LowerPass'
    BY DEF LowerInv, LowerPass, Inner!Align, Inner!WindowSecs
  <2>. QED  BY <2>1, <2>2, <2>3 DEF LowerInv
<1>7. CASE Inner!Return
  <2>. USE <1>7 DEF Inner!Return, Inner!memVars, Inner!segVars
  <2>1. Inner!StoreTypeOK'
    BY DEF LowerInv, Inner!StoreTypeOK, Inner!storeVars
  <2>2. Inner!TierTypeOK'
    BY DEF LowerInv, Inner!TierTypeOK, Inner!Ops, Inner!Pcs
  <2>. QED  BY <2>1, <2>2 DEF LowerInv
<1>11. CASE Inner!StoreTypeOK' /\ Inner!TierReset
  <2>1. Inner!StoreTypeOK'
    BY <1>11
  <2>2. Inner!TierTypeOK'
    BY <1>11 DEF Inner!TierTypeOK, Inner!TierReset, Inner!Ops, Inner!Pcs
  <2>. QED  BY <1>11, <2>1, <2>2 DEF LowerInv, Inner!TierReset
<1>8. CASE Inner!AppendOk
  <2>. USE <1>8 DEF Inner!AppendOk
  <2>1. iat \in InnerTimes /\ iarg \in SUBSET Copies /\ iop = "ingest"
    BY DEF LowerInv, Inner!TierTypeOK
  <2>2. Inner!Align(iat) \in InnerWindows /\ Inner!Cardinality(iarg) \in Nat
    BY <2>1, LowerAlign, LowerCounts
  <2>3. Inner!StoreTypeOK'
    BY <2>1, <2>2, LowerStore DEF LowerInv
  <2>4. icount' \in Nat
    BY <2>2 DEF LowerInv, Inner!TierTypeOK
  <2>5. Inner!TierTypeOK'
    BY <1>0, <2>4 DEF LowerInv, Inner!TierTypeOK, Inner!StartPass, Inner!callVars,
                      Inner!segVars, Inner!Pcs
  <2>. QED  BY <2>1, <2>3, <2>5 DEF LowerInv, LowerPass, Inner!StartPass, Inner!callVars
<1>9. CASE Inner!InnerAccepts \/ UNCHANGED innerVars
  <2>1. Inner!StoreTypeOK'
    BY <1>9 DEF LowerInv, Inner!StoreTypeOK, Inner!InnerAccepts, innerVars, Inner!storeVars
  <2>2. Inner!TierTypeOK'
    BY <1>9
       DEF LowerInv, Inner!TierTypeOK, Inner!InnerAccepts, innerVars, Inner!tierVars,
           Inner!memVars, Inner!callVars,
           Inner!passVars, Inner!segVars, Inner!Pcs
  <2>. QED
    BY <1>9, <2>1, <2>2
       DEF LowerInv, LowerPass, LowerDrained, Inner!InnerAccepts, innerVars,
           Inner!tierVars, Inner!memVars,
           Inner!callVars, Inner!passVars, Inner!segVars, Inner!storeVars, Inner!Align,
           Inner!WindowSecs
<1>10. ASSUME NEW ok \in BOOLEAN, Inner!InnerReturns(ok)  PROVE LowerInv'
  BY <1>10, LowerCompletes, LowerHandsOn
     DEF Inner!InnerReturns, Inner!memVars, Inner!segVars, Inner!storeVars, LowerInv,
         Inner!StoreTypeOK
<1>. QED
  BY <1>1, <1>2, <1>3, <1>4, <1>5, <1>6, <1>7, <1>8, <1>9, <1>10, <1>11, LowerCallsKeep
     DEF LowerMoves, Inner!TierStep

-----------------------------------------------------------------------------
(* How the two calls are linked: the inner tier works only for the outer   *)
(* one, on the call the outer one stands at.                               *)
OfferedCopies == {<<r, offers[r]>> : r \in batch}

(* The inner tier works on the batch the outer one has offered.            *)
Offering == pc = "offered" /\ ipc # "idle"

LinkInv ==
    /\ ipc # "idle" => pc \in {"offered", "inner"}
    /\ Offering => iop \in {"init", "ingest"} /\ iarg = OfferedCopies
    /\ pc = "inner" /\ ipc # "idle" =>
        \/ op = "flush" /\ iop = "flush"
        \/ op # "flush" /\ iop = "advance" /\ iat = at

(* An inner ingest that has got past its append without an error has the   *)
(* copies; the outer tier and the inner one commit only what is below.     *)
BelowInv ==
    /\ /\ pc = "offered" /\ iop = "ingest"
       /\ ipc \notin {"activate", "append"}
       /\ ipc = "done" => ~ifailed
       => iarg \subseteq Below
    /\ pc = "commit" => batch \subseteq Rows(Below)
    /\ ipc = "commit" => ibatch \subseteq Delivered
    /\ acked \subseteq Held \cup Rows(Below) \cup lost

(* A flush or an advance returns Ok only after the inner one has.          *)
BelowDrained ==
    pc = "done" /\ ~failed =>
        /\ op = "flush" => isegs = {}
        /\ op = "advance" => \A w \in isegs : w + Inner!WindowSecs > at

(* Records leave the collector once, and each is in one outer window.      *)
Unappended == op = "init" \/ (op = "ingest" /\ pc \in {"activate", "append"})

FreshInv ==
    /\ Held \subseteq used
    /\ arg \subseteq used
    /\ \A r \in Records : offers[r] > 0 => r \in used
    /\ \A v, w \in Windows : v # w => held[v] \cap held[w] = {}
    /\ Unappended => \A r \in arg : r \notin Held /\ offers[r] = 0

(* A record is with the inner tier while its batch is offered, and until   *)
(* the outer segment of an accepted batch is removed.                      *)
HandedOver(r) == r \in batch /\ (pc = "commit" \/ Offering)

(* Every offer but the first answers a failure, of which there are faults  *)
(* so far; and a record of which an earlier copy is below, or the last one *)
(* although the outer tier still has it, was bounced.                      *)
KeptBack(r) == <<r, offers[r]>> \in Below => r \in bounced

CopiesCounted ==
    \A c \in Below :
        /\ c[2] <= offers[c[1]]
        /\ c[2] < offers[c[1]] => c[1] \in bounced

OfferInv ==
    /\ offers \in [Records -> Nat]
    /\ \A r \in Records : offers[r] <= faults + 1
    /\ \A r \in Held : ~HandedOver(r) => offers[r] <= faults /\ KeptBack(r)
    /\ Offering => \A r \in batch : ifailed => offers[r] <= faults
    /\ CopiesCounted

EnvTypeOK ==
    /\ now \in Times
    /\ remote \in SUBSET Objects
    /\ faults \in 0..MaxFaults
    /\ crashes \in 0..MaxCrashes
    /\ used \in SUBSET Records
    /\ acked \in SUBSET Records
    /\ bounced \in SUBSET Records
    /\ lost \in SUBSET Records

StackInv ==
    /\ OuterInv
    /\ LowerInv
    /\ EnvTypeOK
    /\ LinkInv
    /\ BelowInv
    /\ BelowDrained
    /\ FreshInv
    /\ OfferInv

(* What each step of the stack does to either tier is a move of that tier. *)
LEMMA StackMoves ==
    ASSUME StackInv, [StackNext]_stackVars
    PROVE  OuterMoves /\ LowerMoves
<1>. USE DEF StackInv
<1>1. CASE \/ \E R \in SUBSET (Records \ used) : Ingest(R)
           \/ Heartbeat \/ Flush \/ Append \/ OuterStep
  <2>1. OuterMoves
    BY <1>1
       DEF EnvTypeOK, OuterMoves, OuterCalls, Ingest, Heartbeat, Flush, Append, OuterStep
  <2>2. LowerMoves
    BY <1>1 DEF LowerMoves, Ingest, Heartbeat, Flush, Append, OuterStep
  <2>. QED  BY <2>1, <2>2
<1>2. CASE InnerStep \/ InnerStoreFails \/ Accepts \/ Rejects \/ Idles
  <2>1. OuterMoves
    BY <1>2 DEF OuterMoves, InnerStep, InnerStoreFails, Accepts, Rejects, Idles
  <2>2. LowerMoves
    BY <1>2
       DEF LowerMoves, Inner!TierStep, InnerStep, InnerStoreFails, Accepts, Rejects, Idles
  <2>. QED  BY <2>1, <2>2
<1>3. CASE Offer
  <2>1. win \in Windows /\ win + WindowSecs \in InnerTimes
    BY <1>3, StackAssumption DEF Offer, OuterInv, StackAssumption
  <2>2. batch = held[win] /\ batch \subseteq Held /\ batch \in SUBSET Records
    BY <1>3, <2>1 DEF Offer, OuterInv, StoreTypeOK, Held
  <2>3. \A r \in batch : offers[r] + 1 \in 1..MaxCopies
    BY <1>3, <2>2, StackAssumption
       DEF Offer, OfferInv, HandedOver, Offering, EnvTypeOK, MaxCopies, StackAssumption
  <2>4. {<<r, offers[r] + 1>> : r \in batch} \in SUBSET Copies
    BY <2>2, <2>3 DEF Copies
  <2>. QED  BY <1>3, <2>1, <2>4 DEF Offer, OuterMoves, LowerMoves, LowerCalls
<1>4. CASE PassOn
  <2>1. op # "flush" => at \in InnerTimes
    BY <1>4, StackAssumption
       DEF PassOn, OuterInv, TierTypeOK, Ops, StackAssumption
  <2>. QED  BY <1>4, <2>1 DEF PassOn, OuterMoves, LowerMoves, LowerCalls
<1>5. CASE Answer
  <2>1. (~ifailed) \in BOOLEAN
    BY DEF LowerInv, Inner!TierTypeOK
  <2>. QED
    BY <1>5, <2>1 DEF Answer, OuterMoves, LowerMoves, Inner!TierStep
<1>6. CASE (\E t \in Times : Tick(t)) \/ UNCHANGED stackVars
  BY <1>6 DEF Tick, stackVars, OuterMoves, LowerMoves
<1>7. CASE Crash
  <2>1. StoreTypeOK'
    BY <1>7, StackAssumption DEF Crash, StoreCrash, StoreTypeOK, StackAssumption
  <2>2. Inner!StoreTypeOK'
    <3>1. CASE ipc = "append"
      <4>1. iat \in InnerTimes /\ iarg \in SUBSET Copies
        BY <3>1 DEF LowerInv, Inner!TierTypeOK
      <4>. QED  BY <1>7, <3>1, <4>1, LowerAlign, LowerStore DEF Crash, LowerInv
    <3>2. CASE ipc # "append"
      BY <1>7, <3>2
         DEF Crash, LowerInv, Inner!StoreCrash, Inner!storeVars, Inner!StoreTypeOK
    <3>. QED  BY <3>1, <3>2
  <2>. QED  BY <1>7, <2>1, <2>2 DEF Crash, OuterMoves, LowerMoves
<1>. QED  BY <1>1, <1>2, <1>3, <1>4, <1>5, <1>6, <1>7 DEF StackNext

(* What the stores hold after their steps.                                 *)
LEMMA OuterHolds ==
    ASSUME StoreTypeOK, NEW w \in Windows, NEW R \in SUBSET Records
    PROVE  /\ StoreAppend(w, R) => Held' = Held \cup R
           /\ StoreCommit(w) => Held \subseteq Held' \cup held[w] /\ Held' \subseteq Held
<1>1. ASSUME StoreAppend(w, R)  PROVE Held' = Held \cup R
  <2>1. \A v \in Windows : held'[v] = IF v = w THEN held[v] \cup R ELSE held[v]
    BY <1>1 DEF StoreAppend, StoreTypeOK
  <2>. QED  BY <2>1 DEF Held
<1>2. ASSUME StoreCommit(w)
      PROVE  Held \subseteq Held' \cup held[w] /\ Held' \subseteq Held
  <2>1. \A v \in Windows : held'[v] = IF v = w THEN {} ELSE held[v]
    BY <1>2 DEF StoreCommit, StoreTypeOK
  <2>. QED  BY <2>1 DEF Held
<1>. QED  BY <1>1, <1>2

LEMMA LowerHolds ==
    ASSUME Inner!StoreTypeOK, NEW w \in InnerWindows, NEW R \in SUBSET Copies
    PROVE  /\ Inner!StoreAppend(w, R) => Spooled' = Spooled \cup R
           /\ Inner!StoreTear(w, R) => /\ Spooled \subseteq Spooled'
                                       /\ Spooled' \subseteq Spooled \cup R
           /\ Inner!StoreCommit(w) => /\ Spooled \subseteq Spooled' \cup iheld[w]
                                      /\ Spooled' \subseteq Spooled
<1>1. ASSUME Inner!StoreAppend(w, R)  PROVE Spooled' = Spooled \cup R
  <2>1. \A v \in InnerWindows : iheld'[v] = IF v = w THEN iheld[v] \cup R ELSE iheld[v]
    BY <1>1 DEF Inner!StoreAppend, Inner!StoreTypeOK
  <2>. QED  BY <2>1 DEF Spooled
<1>2. ASSUME Inner!StoreTear(w, R)
      PROVE  Spooled \subseteq Spooled' /\ Spooled' \subseteq Spooled \cup R
  <2>1. CASE UNCHANGED Inner!storeVars
    BY <2>1 DEF Inner!storeVars, Spooled
  <2>2. ASSUME NEW S \in SUBSET R, iheld' = [iheld EXCEPT ![w] = @ \cup S]
        PROVE  Spooled \subseteq Spooled' /\ Spooled' \subseteq Spooled \cup R
    <3>1. \A v \in InnerWindows : iheld'[v] = IF v = w THEN iheld[v] \cup S ELSE iheld[v]
      BY <2>2 DEF Inner!StoreTypeOK
    <3>. QED  BY <3>1 DEF Spooled
  <2>. QED  BY <1>2, <2>1, <2>2 DEF Inner!StoreTear
<1>3. ASSUME Inner!StoreCommit(w)
      PROVE  Spooled \subseteq Spooled' \cup iheld[w] /\ Spooled' \subseteq Spooled
  <2>1. \A v \in InnerWindows : iheld'[v] = IF v = w THEN {} ELSE iheld[v]
    BY <1>3 DEF Inner!StoreCommit, Inner!StoreTypeOK
  <2>. QED  BY <2>1 DEF Spooled
<1>. QED  BY <1>1, <1>2, <1>3

(* A step inside a call of the inner tier.                                 *)
InnerWork == InnerStep \/ InnerStoreFails \/ Accepts \/ Rejects \/ Idles

(* An ingest that has the copies it was given, unless it has failed.       *)
Appended ==
    /\ iop = "ingest"
    /\ ipc \notin {"activate", "append"}
    /\ ipc = "done" => ~ifailed

(* Such a step leaves the outer tier alone and takes no copy from below;   *)
(* what it adds is the batch offered; an error is a failure.               *)
LEMMA InnerWorks ==
    ASSUME StackInv, InnerWork
    PROVE  /\ ipc # "idle" /\ ipc' # "idle"
           /\ UNCHANGED <<outerVars, iarg, iat, now, crashes, histVars>>
           /\ iop' = iop \/ (iop = "init" /\ iop' = "ingest")
           /\ Below \subseteq Below' /\ Below' \subseteq Below \cup iarg
           /\ ~Offering => Below' \subseteq Below
           /\ faults' \in {faults, faults + 1} /\ faults' \in 0..MaxFaults
           /\ ifailed' => ifailed \/ faults' = faults + 1
           /\ ipc' = "commit" => ibatch' \subseteq Delivered'
           /\ Appended' => Appended \/ iarg \subseteq Below'
           /\ remote' \in SUBSET Objects
<1>. USE DEF StackInv, LowerInv
<1>1. faults \in Nat /\ MaxFaults \in Nat
  BY StackAssumption DEF StackAssumption, EnvTypeOK
<1>2. ASSUME NEW ok \in BOOLEAN, Inner!Complete(ok), UNCHANGED iarg
      PROVE  /\ ipc' \in {"activate", "drain", "done"}
             /\ iop' = iop \/ (iop = "init" /\ iop' = "ingest")
             /\ ipc' = "done" => ifailed' = ~ok
             /\ ipc' # "done" => ~ifailed'
             /\ Appended' => (iop = "init" /\ iarg = {}) \/ (iop = "ingest" /\ ok)
  BY <1>2
     DEF Inner!Complete, Inner!IngestBody, Inner!ToActivate, Inner!StartPass, Appended
<1>3. UNCHANGED iheld => Spooled' = Spooled
  BY DEF Spooled
<1>4. UNCHANGED remote => Delivered' = Delivered /\ remote' \in SUBSET Objects
  BY DEF Delivered, EnvTypeOK
<1>5. ASSUME ipc = "offered", Ship
      PROVE  Delivered' = Delivered \cup ibatch /\ remote' \in SUBSET Objects
  <2>1. Object(iwin, ibatch) \in Objects
    BY <1>5 DEF Inner!TierTypeOK, Object, Objects
  <2>2. Object(iwin, ibatch).rows = ibatch
    BY DEF Object
  <2>. QED  BY <1>5, <2>1, <2>2 DEF Ship, Delivered, EnvTypeOK
<1>6. ipc \in {"offered", "commit"} => ibatch = iheld[iwin] /\ ibatch \subseteq Spooled
  BY DEF Spooled
<1>7. CASE Accepts
  <2>1. ipc = "offered" /\ Spooled' = Spooled /\ Delivered' = Delivered \cup ibatch
    BY <1>3, <1>5, <1>7 DEF Accepts, Inner!InnerAccepts, Inner!storeVars
  <2>2. remote' \in SUBSET Objects
    BY <1>5, <1>7, <2>1 DEF Accepts
  <2>. QED
    BY <1>1, <1>6, <1>7, <2>1, <2>2
       DEF Accepts, Inner!InnerAccepts, Inner!callVars, Inner!passVars, Inner!segVars,
           envVars, EnvTypeOK, Below, Appended
<1>8. CASE Rejects
  <2>1. ipc = "offered" /\ Spooled' = Spooled
    BY <1>3, <1>8 DEF Rejects, Inner!InnerRejects, Inner!storeVars
  <2>2. /\ Delivered \subseteq Delivered' /\ Delivered' \subseteq Delivered \cup ibatch
        /\ remote' \in SUBSET Objects
    BY <1>4, <1>5, <1>8, <2>1 DEF Rejects
  <2>. QED
    BY <1>1, <1>6, <1>8, <2>1, <2>2
       DEF Rejects, Fault, Inner!InnerRejects, Inner!Skip, Inner!callVars, EnvTypeOK, Below,
           Appended
<1>9. CASE InnerStep
  <2>. USE <1>9
  <2>1. /\ UNCHANGED <<outerVars, now, faults, crashes, histVars>>
        /\ Delivered' = Delivered /\ remote' \in SUBSET Objects
        /\ faults' \in {faults, faults + 1} /\ faults' \in 0..MaxFaults
    BY <1>1, <1>4 DEF InnerStep, envVars, EnvTypeOK
  <2>2. CASE Inner!AppendOk
    <3>1. ipc = "append" /\ Spooled' = Spooled \cup iarg
      <4>1. ipc = "append" /\ iat \in InnerTimes /\ iarg \in SUBSET Copies
        BY <2>2 DEF Inner!AppendOk, Inner!TierTypeOK
      <4>. QED  BY <2>2, <4>1, LowerAlign, LowerHolds DEF Inner!AppendOk
    <3>2. Offering
      BY <3>1 DEF LinkInv, Offering
    <3>. QED
      BY <2>1, <2>2, <3>1, <3>2
         DEF Inner!AppendOk, Inner!StartPass, Inner!callVars, Below, Appended
  <2>3. CASE Inner!CommitOk
    <3>1. ipc = "commit" /\ ibatch = iheld[iwin] /\ ibatch \subseteq Delivered
      BY <2>3 DEF Inner!CommitOk, BelowInv
    <3>2. Spooled \subseteq Spooled' \cup ibatch /\ Spooled' \subseteq Spooled
      BY <2>3, <3>1, LowerHolds DEF Inner!CommitOk
    <3>. QED
      BY <2>1, <2>3, <3>1, <3>2
         DEF Inner!CommitOk, Inner!callVars, Inner!passVars, Below, Appended
  <2>4. CASE Inner!Activated
    BY <1>3, <2>1, <2>4
       DEF Inner!Activated, Inner!StartPass, Inner!callVars, Inner!passVars,
           Inner!storeVars, Below, Appended
  <2>5. CASE \E w \in InnerWindows : Inner!ReadOk(w)
    <3>1. PICK w \in InnerWindows : Inner!ReadOk(w)
      BY <2>5
    <3>2. /\ ipc = "drain" /\ ipc' \in {"offered", "commit"}
          /\ ibatch' = iheld[w]
          /\ ipc' = "commit" => iheld[w] = {}
          /\ UNCHANGED <<iop, iarg, iat, ifailed, iheld>>
      BY <3>1
         DEF Inner!ReadOk, Inner!NextSegment, Inner!callVars, Inner!passVars,
             Inner!storeVars
    <3>. QED  BY <1>3, <2>1, <3>2 DEF Below, Appended
  <2>6. CASE Inner!DrainEnds
    <3>1. ipc = "drain" /\ UNCHANGED <<iarg, iat, iheld>>
      BY <2>6 DEF Inner!DrainEnds, Inner!storeVars
    <3>2. CASE Inner!Complete(~ifailed)
      <4>1. (~ifailed) \in BOOLEAN /\ ifailed \in BOOLEAN
        BY DEF Inner!TierTypeOK
      <4>2. /\ ipc' \in {"activate", "drain", "done"}
            /\ iop' = iop \/ (iop = "init" /\ iop' = "ingest")
            /\ ifailed' => ifailed
            /\ Appended' => (iop = "init" /\ iarg = {}) \/ (iop = "ingest" /\ ~ifailed)
        BY <1>2, <3>1, <3>2, <4>1
      <4>. QED  BY <1>3, <2>1, <3>1, <4>2 DEF Below, Appended
    <3>3. CASE iop # "ingest" /\ ipc' = "inner" /\ UNCHANGED <<iop, Inner!passVars>>
      BY <1>3, <2>1, <3>1, <3>3 DEF Below, Appended, Inner!passVars
    <3>. QED  BY <2>6, <3>2, <3>3 DEF Inner!DrainEnds
  <2>. QED  BY <2>2, <2>3, <2>4, <2>5, <2>6 DEF InnerStep
<1>10. CASE InnerStoreFails
  <2>. USE <1>10
  <2>1. /\ UNCHANGED <<outerVars, now, crashes, histVars>>
        /\ Delivered' = Delivered /\ remote' \in SUBSET Objects
        /\ faults' = faults + 1 /\ faults' \in 0..MaxFaults
    BY <1>1, <1>4 DEF InnerStoreFails, Fault, EnvTypeOK
  <2>2. CASE Inner!ActivateFails \/ Inner!OldestFails
    <3>1. /\ ipc \in {"activate", "drain"} /\ UNCHANGED <<iarg, iat, iheld>>
          /\ Inner!Complete(FALSE)
      BY <2>2 DEF Inner!ActivateFails, Inner!OldestFails, Inner!storeVars
    <3>. QED  BY <1>2, <1>3, <2>1, <3>1 DEF Below
  <2>3. CASE Inner!AppendFails
    <3>1. /\ ipc = "append" /\ UNCHANGED <<iarg, iat>>
          /\ Inner!Complete(FALSE)
      BY <2>3 DEF Inner!AppendFails
    <3>2. Spooled \subseteq Spooled' /\ Spooled' \subseteq Spooled \cup iarg
      <4>1. iat \in InnerTimes /\ iarg \in SUBSET Copies
        BY <3>1 DEF Inner!TierTypeOK
      <4>. QED  BY <2>3, <4>1, LowerAlign, LowerHolds DEF Inner!AppendFails
    <3>3. Offering
      BY <3>1 DEF LinkInv, Offering
    <3>. QED  BY <1>2, <2>1, <3>1, <3>2, <3>3 DEF Below
  <2>4. CASE (\E w \in InnerWindows : Inner!ReadFails(w)) \/ Inner!CommitFails
    <3>1. /\ ipc \in {"drain", "commit"} /\ ipc' = "drain"
          /\ UNCHANGED <<iop, iarg, iat, iheld>>
      BY <2>4
         DEF Inner!ReadFails, Inner!NextSegment, Inner!CommitFails, Inner!Skip,
             Inner!callVars, Inner!storeVars
    <3>. QED  BY <1>3, <2>1, <3>1 DEF Below, Appended
  <2>. QED  BY <2>2, <2>3, <2>4 DEF InnerStoreFails
<1>11. CASE Idles
  <2>1. ipc = "inner" /\ Inner!Complete(TRUE) /\ UNCHANGED <<iarg, iat, iheld>>
    BY <1>11 DEF Idles, Inner!InnerReturns, Inner!storeVars
  <2>2. UNCHANGED <<outerVars, remote, faults, now, crashes, histVars>>
    BY <1>11 DEF Idles, envVars
  <2>. QED  BY <1>1, <1>2, <1>3, <1>4, <2>1, <2>2 DEF Below, Appended, EnvTypeOK
<1>. QED  BY <1>7, <1>8, <1>9, <1>10, <1>11 DEF InnerWork

(* The outer store is memory and does not fail.                            *)
LEMMA MemoryStore == ~StoreErrors
BY StoreAssumption, StackAssumption DEF StoreAssumption, StackAssumption

(* A call into the outer tier, or a step it takes without the inner one.   *)
OuterWork ==
    \/ \E R \in SUBSET (Records \ used) : Ingest(R)
    \/ Heartbeat
    \/ Flush
    \/ Append
    \/ OuterStep

(* Such a step finds the inner tier idle.  A record leaves the outer store *)
(* only as part of a batch that is committed, which is gone then, and a    *)
(* record enters it only once.                                             *)
LEMMA OuterWorks ==
    ASSUME StackInv, OuterWork
    PROVE  /\ ipc = "idle"
           /\ UNCHANGED <<innerVars, remote, envVars, offers, bounced, lost>>
           /\ used \subseteq used' /\ used' \subseteq Records
           /\ acked' \subseteq acked \cup Held' /\ acked' \subseteq Records
           /\ Held \subseteq Held' \cup (IF pc = "commit" THEN batch ELSE {})
           /\ Held' \subseteq Held \cup (IF Unappended THEN arg ELSE {})
           /\ pc = "commit" => batch \cap Held' = {}
           /\ \A v, w \in Windows : v # w => held'[v] \cap held'[w] = {}
           /\ pc' = "commit" => batch' = {}
           /\ pc' = "done" /\ ~failed' => op' \notin {"flush", "advance"}
           /\ \/ arg' \subseteq used' \ used /\ Held' = Held
              \/ arg' \subseteq arg /\ (Unappended' => Unappended /\ Held' \subseteq Held)
<1>. USE DEF StackInv
<1>1. CASE \/ \E R \in SUBSET (Records \ used) : Ingest(R)
           \/ Heartbeat \/ Flush
  <2>1. /\ pc = "idle" /\ pc' \in {"activate", "drain"} /\ op' # "idle"
        /\ UNCHANGED <<held, innerVars, remote, envVars, acked, offers, bounced, lost>>
    BY <1>1
       DEF Ingest, Heartbeat, Flush, CallIngest, CallAdvance, CallFlush, IngestBody,
           ToActivate, StartPass, storeVars, histVars
  <2>2. /\ used \subseteq used' /\ used' \subseteq Records
        /\ arg' \subseteq used' \ used \/ (arg' = arg /\ op' \in {"advance", "flush"})
    BY <1>1
       DEF Ingest, Heartbeat, Flush, CallIngest, CallAdvance, CallFlush, histVars, EnvTypeOK
  <2>3. Held' = Held
    BY <2>1 DEF Held
  <2>. QED
    BY <2>1, <2>2, <2>3 DEF LinkInv, Unappended, EnvTypeOK, FreshInv
<1>2. CASE Append
  <2>1. /\ pc = "append" /\ op = "ingest" /\ arg \in SUBSET Records
        /\ Align(at) \in Windows
    BY <1>2, OuterAlign DEF Append, AppendOk, OuterInv, TierTypeOK
  <2>2. Held' = Held \cup arg
    BY <1>2, <2>1, OuterHolds DEF Append, AppendOk, OuterInv
  <2>3. \A w \in Windows : held'[w] \subseteq held[w] \cup (IF w = Align(at) THEN arg ELSE {})
    BY <1>2, <2>1 DEF Append, AppendOk, StoreAppend, OuterInv, StoreTypeOK
  <2>4. \A w \in Windows : held[w] \cap arg = {}
    BY <2>1 DEF FreshInv, Unappended, Held
  <2>5. \A v, w \in Windows : v # w => held'[v] \cap held'[w] = {}
    BY <2>3, <2>4 DEF FreshInv
  <2>6. /\ pc' = "drain" /\ UNCHANGED <<innerVars, remote, envVars, offers, bounced, lost>>
        /\ acked' = acked \cup arg /\ UNCHANGED <<used, op, arg>>
    BY <1>2 DEF Append, AppendOk, StartPass, callVars
  <2>. QED
    BY <2>1, <2>2, <2>5, <2>6 DEF LinkInv, Unappended, EnvTypeOK
<1>3. CASE OuterStep
  <2>1. UNCHANGED <<innerVars, remote, envVars, histVars>>
    BY <1>3 DEF OuterStep
  <2>2. CASE CommitOk
    <3>1. /\ pc = "commit" /\ pc' = "drain" /\ batch = held[win] /\ win \in Windows
          /\ UNCHANGED <<op, arg>>
      BY <2>2 DEF CommitOk, callVars, OuterInv
    <3>2. Held \subseteq Held' \cup batch /\ Held' \subseteq Held
      BY <2>2, <3>1, OuterHolds DEF CommitOk, OuterInv
    <3>3. \A w \in Windows : held'[w] = IF w = win THEN {} ELSE held[w]
      BY <2>2, <3>1 DEF CommitOk, StoreCommit, OuterInv, StoreTypeOK
    <3>4. batch \cap Held' = {} /\ \A v, w \in Windows : v # w => held'[v] \cap held'[w] = {}
      BY <3>1, <3>3 DEF FreshInv, Held
    <3>. QED  BY <2>1, <3>1, <3>2, <3>4 DEF LinkInv, Unappended, histVars, EnvTypeOK
  <2>3. CASE ~CommitOk
    <3>1. /\ held' = held /\ pc \in {"activate", "drain", "done"}
          /\ arg' \in {arg, {}}
          /\ Unappended' => Unappended
          /\ pc' = "commit" => batch' = {}
          /\ pc' = "done" /\ ~failed' => op' \notin {"flush", "advance"}
      <4>1. CASE Activated \/ ActivateFails \/ OldestFails \/ DrainEnds
        BY <4>1
           DEF Activated, ActivateFails, OldestFails, DrainEnds, Complete, IngestBody,
               ToActivate, StartPass, passVars, callVars, storeVars, Unappended
      <4>2. CASE \E w \in Windows : ReadFails(w) \/ ReadOk(w)
        BY <4>2
           DEF ReadFails, ReadOk, NextSegment, Skip, passVars, callVars, storeVars, Unappended
      <4>3. CASE Return
        BY <4>3 DEF Return, storeVars, Unappended
      <4>. QED
        BY <1>3, <2>3, <4>1, <4>2, <4>3, MemoryStore
           DEF OuterStep, TierStep, AppendFails, CommitFails
    <3>2. Held' = Held
      BY <3>1 DEF Held
    <3>. QED  BY <2>1, <3>1, <3>2 DEF LinkInv, histVars, EnvTypeOK, FreshInv
  <2>. QED  BY <2>2, <2>3
<1>. QED  BY <1>1, <1>2, <1>3 DEF OuterWork

(* The inner call returns: the outer tier removes the batch it offered, or *)
(* keeps it and notes the error, or ends its own call.                     *)
LEMMA Answers ==
    ASSUME StackInv, Answer
    PROVE  /\ ipc = "done" /\ ipc' = "idle" /\ iop' = "idle"
           /\ pc \in {"offered", "inner"}
           /\ UNCHANGED <<storeVars, arg, at, isegs, iheld, remote, envVars, used, acked,
                          offers, lost>>
           /\ pc = "offered" => \/ ~ifailed /\ pc' = "commit" /\ batch' = batch
                                \/ ifailed /\ pc' = "drain"
           /\ pc = "offered" /\ ifailed =>
                \A r \in batch : <<r, offers[r]>> \in Below => r \in bounced'
           /\ pc = "inner" => /\ pc' \in {"activate", "drain", "done"}
                              /\ pc' = "done" => op' = op /\ failed' = ifailed
           /\ bounced \subseteq bounced' /\ bounced' \subseteq Records
           /\ Unappended' => Unappended
<1>. USE DEF StackInv
<1>1. /\ ipc = "done" /\ ipc' = "idle" /\ iop' = "idle" /\ UNCHANGED <<isegs, iheld>>
      /\ UNCHANGED <<remote, envVars, used, acked, offers, lost>>
  BY DEF Answer, Inner!Return, Inner!storeVars
<1>2. bounced' \subseteq Records /\ bounced \subseteq bounced'
  BY DEF Answer, OuterInv, TierTypeOK, EnvTypeOK
<1>3. ifailed \in BOOLEAN
  BY DEF LowerInv, Inner!TierTypeOK
<1>4. CASE pc = "offered"
  <2>1. /\ (~ifailed /\ InnerAccepts) \/ (ifailed /\ InnerRejects)
        /\ ifailed => \A r \in batch : <<r, offers[r]>> \in Below => r \in bounced'
    BY <1>4 DEF Answer, InnerReturns
  <2>. QED
    BY <1>1, <1>2, <1>4, <2>1
       DEF InnerAccepts, InnerRejects, Skip, callVars, segVars, storeVars, Unappended
<1>5. CASE pc # "offered"
  <2>1. InnerReturns(~ifailed)
    BY <1>5 DEF Answer, InnerAccepts, InnerRejects
  <2>. QED
    BY <1>1, <1>2, <1>3, <1>5, <2>1
       DEF InnerReturns, Complete, IngestBody, ToActivate, StartPass, storeVars, Unappended
<1>. QED  BY <1>4, <1>5

(* A crash empties the outer tier and no other store.                      *)
LEMMA Crashes ==
    ASSUME StackInv, Crash
    PROVE  /\ pc' = "idle" /\ op' = "idle" /\ ipc' = "idle"
           /\ arg' = {} /\ Held' = {} /\ \A w \in Windows : held'[w] = {}
           /\ UNCHANGED <<remote, now, faults, used, acked, offers, bounced>>
           /\ crashes' \in 0..MaxCrashes
           /\ lost' = lost \cup Held /\ lost' \subseteq Records
           /\ Below \subseteq Below' /\ Below' \subseteq Below \cup iarg
           /\ ~Offering => Below' \subseteq Below
<1>. USE DEF StackInv
<1>1. \A w \in Windows : held'[w] = {}
  BY StackAssumption DEF Crash, StoreCrash, StackAssumption
<1>2. Held' = {} /\ Held \subseteq Records
  BY <1>1 DEF Held, OuterInv, StoreTypeOK
<1>3. Delivered' = Delivered
  BY DEF Crash, Delivered
<1>4. CASE ipc = "append"
  <2>1. iat \in InnerTimes /\ iarg \in SUBSET Copies /\ Offering
    BY <1>4 DEF LowerInv, Inner!TierTypeOK, LinkInv, Offering
  <2>2. Spooled \subseteq Spooled' /\ Spooled' \subseteq Spooled \cup iarg
    BY <1>4, <2>1, LowerAlign, LowerHolds DEF Crash, LowerInv
  <2>. QED
    BY <1>1, <1>2, <1>3, <2>1, <2>2, StackAssumption
       DEF Crash, TierReset, Inner!TierReset, Below, EnvTypeOK, StackAssumption
<1>5. CASE ipc # "append"
  <2>1. Spooled' = Spooled
    BY <1>5 DEF Crash, Inner!StoreCrash, Inner!storeVars, Spooled
  <2>. QED
    BY <1>1, <1>2, <1>3, <2>1, StackAssumption
       DEF Crash, TierReset, Inner!TierReset, Below, EnvTypeOK, StackAssumption
<1>. QED  BY <1>4, <1>5

(* An offer and a passed-on call start the inner tier.                     *)
LEMMA Handovers ==
    ASSUME StackInv, Offer \/ PassOn
    PROVE  /\ ipc = "idle" /\ ipc' \in {"activate", "drain"} /\ ~ifailed'
           /\ UNCHANGED <<outerVars, isegs, iheld, remote, envVars, used, acked, bounced, lost>>
           /\ PassOn => /\ pc = "inner" /\ UNCHANGED offers
                        /\ \/ op = "flush" /\ iop' = "flush"
                           \/ op # "flush" /\ iop' = "advance" /\ iat' = at
           /\ Offer => /\ pc = "offered" /\ iop' \in {"init", "ingest"}
                       /\ iarg' = {<<r, offers[r] + 1>> : r \in batch}
                       /\ offers' = [r \in Records |->
                                        IF r \in batch THEN offers[r] + 1 ELSE offers[r]]
                       /\ ipc' = "activate" \/ iop' = "init" \/ iarg' = {}
                       /\ batch \subseteq Held
<1>. USE DEF Inner!ToActivate, Inner!StartPass, Inner!storeVars, histVars
<1>1. CASE Offer
  <2>1. batch \subseteq Held
    BY <1>1 DEF Offer, StackInv, OuterInv, Held
  <2>. QED
    BY <1>1, <2>1 DEF Offer, Inner!CallIngest, Inner!IngestBody, PassOn
<1>2. CASE PassOn
  BY <1>2 DEF PassOn, Offer, Inner!CallFlush, Inner!CallAdvance
<1>. QED  BY <1>1, <1>2

-----------------------------------------------------------------------------
(* Each part of the invariant is kept by every step.                       *)
LEMMA EnvKept ==
    ASSUME StackInv, [StackNext]_stackVars
    PROVE  EnvTypeOK'
<1>. USE DEF StackInv
<1>1. CASE OuterWork
  BY <1>1, OuterWorks DEF EnvTypeOK, envVars
<1>2. CASE Offer \/ PassOn
  BY <1>2, Handovers DEF EnvTypeOK, envVars, outerVars, PassOn, Offer, histVars
<1>3. CASE Answer
  BY <1>3, Answers DEF EnvTypeOK, envVars
<1>4. CASE InnerWork
  BY <1>4, InnerWorks DEF EnvTypeOK, histVars
<1>5. CASE (\E t \in Times : Tick(t)) \/ UNCHANGED stackVars
  BY <1>5 DEF Tick, stackVars, histVars, envVars, EnvTypeOK
<1>6. CASE Crash
  BY <1>6, Crashes DEF EnvTypeOK
<1>. QED  BY <1>1, <1>2, <1>3, <1>4, <1>5, <1>6 DEF StackNext, OuterWork, InnerWork

LEMMA LinkKept ==
    ASSUME StackInv, [StackNext]_stackVars
    PROVE  LinkInv'
<1>. USE DEF StackInv
<1>1. CASE OuterWork \/ Answer \/ Crash
  <2>1. ipc' = "idle"
    BY <1>1, OuterWorks, Answers, Crashes DEF innerVars
  <2>. QED  BY <2>1 DEF LinkInv, Offering
<1>2. CASE Offer
  <2>1. /\ pc' = "offered" /\ iop' \in {"init", "ingest"} /\ batch' = batch
        /\ iarg' = {<<r, offers[r] + 1>> : r \in batch}
        /\ offers' = [r \in Records |-> IF r \in batch THEN offers[r] + 1 ELSE offers[r]]
    BY <1>2, Handovers DEF outerVars, tierVars, segVars
  <2>2. batch \in SUBSET Records
    BY DEF OuterInv, TierTypeOK
  <2>3. \A r \in batch : offers'[r] = offers[r] + 1
    BY <2>1, <2>2
  <2>4. iarg' = OfferedCopies'
    BY <2>1, <2>3 DEF OfferedCopies
  <2>. QED  BY <2>1, <2>4 DEF LinkInv, Offering
<1>3. CASE PassOn
  BY <1>3, Handovers DEF LinkInv, Offering, outerVars, tierVars
<1>4. CASE InnerWork
  <2>1. OfferedCopies' = OfferedCopies
    BY <1>4, InnerWorks DEF OfferedCopies, outerVars, tierVars, segVars, histVars
  <2>. QED
    BY <1>4, <2>1, InnerWorks DEF LinkInv, Offering, outerVars, tierVars
<1>5. CASE (\E t \in Times : Tick(t)) \/ UNCHANGED stackVars
  <2>1. UNCHANGED <<outerVars, innerVars, histVars>>
    BY <1>5 DEF Tick, stackVars
  <2>. QED
    BY <2>1 DEF LinkInv, Offering, OfferedCopies, outerVars, tierVars, segVars, innerVars, histVars
<1>. QED  BY <1>1, <1>2, <1>3, <1>4, <1>5 DEF StackNext, OuterWork, InnerWork

(* Nothing below is forgotten.                                             *)
LEMMA BelowAreCopies ==
    ASSUME StackInv
    PROVE  Below \subseteq Copies
<1>1. Spooled \subseteq Copies
  BY DEF StackInv, LowerInv, Inner!StoreTypeOK, Spooled
<1>2. Delivered \subseteq Copies
  BY DEF StackInv, EnvTypeOK, Objects, Delivered
<1>. QED  BY <1>1, <1>2 DEF Below

LEMMA BelowGrows ==
    ASSUME StackInv, [StackNext]_stackVars
    PROVE  /\ Below \subseteq Below'
           /\ Below' \subseteq Below \cup (IF Offering THEN iarg ELSE {})
           /\ Rows(Below) \subseteq Rows(Below')
<1>1. Below \subseteq Below' /\ Below' \subseteq Below \cup (IF Offering THEN iarg ELSE {})
  <2>1. CASE UNCHANGED <<iheld, remote>>
    BY <2>1 DEF Below, Spooled, Delivered
  <2>2. CASE InnerWork
    BY <2>2, InnerWorks
  <2>3. CASE Crash
    BY <2>3, Crashes
  <2>4. CASE \/ OuterWork \/ Offer \/ PassOn \/ Answer
             \/ (\E t \in Times : Tick(t)) \/ UNCHANGED stackVars
    <3>1. UNCHANGED <<iheld, remote>>
      BY <2>4, OuterWorks, Handovers, Answers DEF innerVars, Tick, stackVars
    <3>. QED  BY <2>1, <3>1
  <2>. QED  BY <2>2, <2>3, <2>4 DEF StackNext, OuterWork, InnerWork
<1>. QED  BY <1>1 DEF Rows

LEMMA BelowKept ==
    ASSUME StackInv, [StackNext]_stackVars
    PROVE  BelowInv'
<1>. USE DEF StackInv
<1>. DEFINE Acked == acked \subseteq Held \cup Rows(Below) \cup lost
<1>1. /\ Below \subseteq Below' /\ Rows(Below) \subseteq Rows(Below')
  BY BelowGrows
<1>2. CASE OuterWork
  <2>1. /\ ipc' = "idle" /\ iop' = "idle"
        /\ acked' \subseteq acked \cup Held' /\ lost' = lost
        /\ Held \subseteq Held' \cup (IF pc = "commit" THEN batch ELSE {})
        /\ pc' = "commit" => batch' = {}
    BY <1>2, OuterWorks DEF innerVars, LowerInv
  <2>2. Acked'
    BY <1>1, <2>1 DEF BelowInv
  <2>. QED  BY <2>1, <2>2 DEF BelowInv
<1>3. CASE Offer \/ PassOn
  <2>1. /\ ipc' \in {"activate", "drain"} /\ UNCHANGED <<held, acked, lost>>
        /\ pc' \in {"offered", "inner"}
        /\ ipc' = "activate" \/ iop' # "ingest" \/ iarg' = {}
    BY <1>3, Handovers DEF outerVars, tierVars, storeVars
  <2>2. Acked'
    BY <1>1, <2>1 DEF BelowInv, Held
  <2>. QED  BY <2>1, <2>2 DEF BelowInv
<1>4. CASE InnerWork
  <2>1. /\ UNCHANGED <<held, acked, lost, pc, batch, iarg>> /\ pc # "commit"
        /\ Appended' => Appended \/ iarg \subseteq Below'
        /\ ipc' = "commit" => ibatch' \subseteq Delivered'
    BY <1>4, InnerWorks
       DEF outerVars, tierVars, storeVars, segVars, histVars, LinkInv
  <2>2. Acked'
    BY <1>1, <2>1 DEF BelowInv, Held
  <2>3. pc = "offered" /\ Appended' => iarg \subseteq Below'
    BY <1>1, <2>1 DEF BelowInv, Appended
  <2>. QED  BY <2>1, <2>2, <2>3 DEF BelowInv, Appended
<1>5. CASE Answer
  <2>1. /\ ipc = "done" /\ iop' = "idle" /\ ipc' = "idle" /\ pc \in {"offered", "inner"}
        /\ UNCHANGED <<held, acked, lost>>
        /\ pc' = "commit" => pc = "offered" /\ ~ifailed /\ batch' = batch
    BY <1>5, Answers DEF storeVars
  <2>2. Acked'
    BY <1>1, <2>1 DEF BelowInv, Held
  <2>3. ASSUME pc' = "commit"  PROVE batch' \subseteq Rows(Below')
    <3>1. iarg = OfferedCopies /\ iop = "ingest" /\ batch' = batch
      BY <2>1, <2>3 DEF LinkInv, Offering, LowerInv
    <3>2. iarg \subseteq Below
      BY <2>1, <2>3, <3>1 DEF BelowInv
    <3>3. \A r \in batch : <<r, offers[r]>> \in Below /\ <<r, offers[r]>>[1] = r
      BY <3>1, <3>2 DEF OfferedCopies
    <3>. QED  BY <1>1, <3>1, <3>3 DEF Rows
  <2>. QED  BY <2>1, <2>2, <2>3 DEF BelowInv
<1>6. CASE (\E t \in Times : Tick(t)) \/ UNCHANGED stackVars
  <2>1. UNCHANGED <<outerVars, innerVars, remote, histVars>>
    BY <1>6 DEF Tick, stackVars
  <2>2. UNCHANGED <<Held, Below, Delivered>>
    BY <2>1 DEF Held, Below, Spooled, Delivered, outerVars, storeVars, innerVars
  <2>. QED
    BY <2>1, <2>2 DEF BelowInv, outerVars, tierVars, segVars, innerVars, histVars, Rows
<1>7. CASE Crash
  <2>1. /\ pc' = "idle" /\ ipc' = "idle" /\ acked' = acked /\ lost' = lost \cup Held
    BY <1>7, Crashes
  <2>2. Acked'
    BY <1>1, <2>1 DEF BelowInv
  <2>. QED  BY <2>1, <2>2 DEF BelowInv
<1>. QED
  BY <1>2, <1>3, <1>4, <1>5, <1>6, <1>7 DEF StackNext, OuterWork, InnerWork

LEMMA DrainedKept ==
    ASSUME StackInv, [StackNext]_stackVars
    PROVE  BelowDrained'
<1>. USE DEF StackInv
<1>1. CASE OuterWork
  BY <1>1, OuterWorks DEF BelowDrained
<1>2. CASE Offer \/ PassOn
  <2>1. pc \in {"offered", "inner"} /\ pc' = pc
    BY <1>2, Handovers DEF outerVars, tierVars
  <2>. QED  BY <2>1 DEF BelowDrained
<1>3. CASE InnerWork
  <2>1. pc \in {"offered", "inner"} /\ pc' = pc
    BY <1>3, InnerWorks DEF LinkInv, outerVars, tierVars
  <2>. QED  BY <2>1 DEF BelowDrained
<1>4. CASE Answer
  <2>1. ASSUME pc' = "done", ~failed'
        PROVE  LowerDrained /\ op' = op /\ at' = at /\ isegs' = isegs /\ pc = "inner"
    BY <1>4, <2>1, Answers DEF LowerInv
  <2>2. ASSUME pc' = "done", ~failed'
        PROVE  \/ op = "flush" /\ iop = "flush"
               \/ op # "flush" /\ iop = "advance" /\ iat = at
    BY <1>4, <2>1, <2>2, Answers DEF LinkInv
  <2>. QED
    BY <2>1, <2>2 DEF BelowDrained, LowerDrained, Inner!WindowSecs
<1>5. CASE (\E t \in Times : Tick(t)) \/ UNCHANGED stackVars
  <2>1. UNCHANGED <<outerVars, innerVars>>
    BY <1>5 DEF Tick, stackVars
  <2>. QED  BY <2>1 DEF BelowDrained, outerVars, tierVars, callVars, passVars, innerVars, Inner!WindowSecs
<1>6. CASE Crash
  BY <1>6, Crashes DEF BelowDrained
<1>. QED
  BY <1>1, <1>2, <1>3, <1>4, <1>5, <1>6 DEF StackNext, OuterWork, InnerWork

LEMMA FreshKept ==
    ASSUME StackInv, [StackNext]_stackVars
    PROVE  FreshInv'
<1>. USE DEF StackInv
<1>1. CASE OuterWork
  <2>. USE <1>1
  <2>1. /\ used \subseteq used' /\ offers' = offers
        /\ Held' \subseteq Held \cup (IF Unappended THEN arg ELSE {})
        /\ \A v, w \in Windows : v # w => held'[v] \cap held'[w] = {}
        /\ \/ arg' \subseteq used' \ used /\ Held' = Held
           \/ arg' \subseteq arg /\ (Unappended' => Unappended /\ Held' \subseteq Held)
    BY OuterWorks
  <2>2. arg' \subseteq Records
    <3>1. OuterInv'
      BY StackMoves, OuterKeepsInv
    <3>. QED  BY <3>1 DEF OuterInv, TierTypeOK
  <2>3. \A r \in Records : r \notin used => offers[r] = 0
    BY DEF FreshInv, OfferInv
  <2>4. Held' \subseteq used' /\ arg' \subseteq used'
    BY <2>1 DEF FreshInv
  <2>5. Unappended' => \A r \in arg' : r \notin Held' /\ offers'[r] = 0
    <3>1. CASE arg' \subseteq used' \ used /\ Held' = Held
      BY <2>1, <2>2, <2>3, <3>1 DEF FreshInv
    <3>2. CASE arg' \subseteq arg /\ (Unappended' => Unappended /\ Held' \subseteq Held)
      BY <2>1, <3>2 DEF FreshInv
    <3>. QED  BY <2>1, <3>1, <3>2
  <2>6. \A r \in Records : offers'[r] > 0 => r \in used'
    BY <2>1 DEF FreshInv
  <2>. QED  BY <2>1, <2>4, <2>5, <2>6 DEF FreshInv
<1>2. CASE Offer
  <2>1. /\ UNCHANGED <<held, arg, used, op, pc>> /\ batch \subseteq Held
        /\ offers' = [r \in Records |-> IF r \in batch THEN offers[r] + 1 ELSE offers[r]]
    BY <1>2, Handovers DEF outerVars, tierVars, storeVars
  <2>2. Held' = Held /\ Unappended' = Unappended /\ arg \subseteq Records
    BY <2>1 DEF Held, Unappended, OuterInv, TierTypeOK
  <2>3. \A r \in Records : r \notin batch => offers'[r] = offers[r]
    BY <2>1
  <2>4. \A r \in Records : offers'[r] > 0 => r \in used'
    BY <2>1, <2>3 DEF FreshInv
  <2>5. Unappended => \A r \in arg : r \notin Held /\ offers'[r] = 0
    BY <2>1, <2>2, <2>3 DEF FreshInv
  <2>. QED  BY <2>1, <2>2, <2>4, <2>5 DEF FreshInv
<1>3. CASE PassOn \/ InnerWork \/ (\E t \in Times : Tick(t)) \/ UNCHANGED stackVars
  <2>1. UNCHANGED <<held, arg, used, op, pc, offers>>
    BY <1>3, Handovers, InnerWorks
       DEF Tick, stackVars, histVars, outerVars, tierVars, storeVars
  <2>2. Held' = Held /\ Unappended' = Unappended
    BY <2>1 DEF Held, Unappended
  <2>. QED  BY <2>1, <2>2 DEF FreshInv
<1>4. CASE Answer
  <2>1. UNCHANGED <<held, arg, used, offers>> /\ (Unappended' => Unappended)
    BY <1>4, Answers DEF storeVars
  <2>2. Held' = Held
    BY <2>1 DEF Held
  <2>. QED  BY <2>1, <2>2 DEF FreshInv
<1>5. CASE Crash
  BY <1>5, Crashes DEF FreshInv
<1>. QED
  BY <1>1, <1>2, <1>3, <1>4, <1>5 DEF StackNext, OuterWork, InnerWork

LEMMA OfferKept ==
    ASSUME StackInv, [StackNext]_stackVars
    PROVE  OfferInv'
<1>. USE DEF StackInv
<1>. DEFINE Kept(r) == offers[r] <= faults /\ KeptBack(r)
<1>0. faults \in Nat /\ offers \in [Records -> Nat] /\ Held \subseteq Records
      /\ batch \subseteq Records /\ \A r \in Records : offers[r] \in Nat
  BY DEF EnvTypeOK, OfferInv, OuterInv, StoreTypeOK, TierTypeOK, Held
<1>1. Below' \subseteq Below \cup (IF Offering THEN iarg ELSE {})
  BY BelowGrows
<1>9. \A c \in Below : c[1] \in Records /\ c[2] \in Nat /\ c[2] >= 1
  BY BelowAreCopies DEF Copies
<1>2. ASSUME bounced \subseteq bounced', offers' = offers
      PROVE  CopiesCounted'
  <2>1. ASSUME Offering, NEW c \in iarg
        PROVE  c[1] \in Records /\ c[2] = offers[c[1]]
    <3>1. PICK r \in batch : c = <<r, offers[r]>>
      BY <2>1 DEF LinkInv, OfferedCopies
    <3>. QED  BY <1>0, <3>1
  <2>. QED  BY <1>0, <1>1, <1>2, <2>1 DEF OfferInv, CopiesCounted
<1>3. CASE OuterWork
  <2>1. /\ ipc = "idle" /\ ipc' = "idle" /\ UNCHANGED <<offers, bounced, faults>>
        /\ Held' \subseteq Held \cup (IF Unappended THEN arg ELSE {})
        /\ pc = "commit" => batch \cap Held' = {}
    BY <1>3, OuterWorks DEF innerVars, envVars
  <2>2. Below' \subseteq Below /\ ~Offering'
    BY <1>1, <2>1 DEF Offering
  <2>3. ASSUME NEW r \in Held'
        PROVE  Kept(r)
    <3>1. CASE r \in Held
      BY <2>1, <2>3, <3>1 DEF HandedOver, Offering, OfferInv
    <3>2. CASE r \notin Held
      <4>1. offers[r] = 0
        BY <2>1, <2>3, <3>2 DEF FreshInv, OuterInv, TierTypeOK
      <4>2. <<r, 0>> \notin Below
        <5>1. ASSUME <<r, 0>> \in Below  PROVE FALSE
          <6>1. <<r, 0>>[2] >= 1
            BY <1>9, <5>1
          <6>. QED  BY <6>1
        <5>. QED  BY <5>1
      <4>. QED  BY <1>0, <4>1, <4>2 DEF KeptBack
    <3>. QED  BY <3>1, <3>2
  <2>4. \A r \in Held' : ~HandedOver(r)' => Kept(r)'
    BY <2>1, <2>2, <2>3 DEF KeptBack
  <2>. QED  BY <1>2, <2>1, <2>2, <2>4 DEF OfferInv
<1>4. CASE Offer
  <2>1. /\ pc = "offered" /\ ipc = "idle" /\ ipc' # "idle" /\ ~ifailed'
        /\ UNCHANGED <<held, pc, batch, faults, bounced, iheld, remote>>
        /\ batch \subseteq Held
        /\ offers' = [r \in Records |-> IF r \in batch THEN offers[r] + 1 ELSE offers[r]]
    BY <1>4, Handovers DEF outerVars, tierVars, storeVars, segVars, envVars
  <2>2. Held' = Held /\ Offering' /\ \A r \in batch : HandedOver(r)'
    BY <2>1 DEF Held, Offering, HandedOver
  <2>3. Below' = Below
    BY <2>1 DEF Below, Spooled, Delivered
  <2>4. \A r \in Held : Kept(r)
    BY <2>1 DEF HandedOver, Offering, OfferInv
  <2>5. /\ offers' \in [Records -> Nat]
        /\ \A r \in batch : offers'[r] = offers[r] + 1
        /\ \A r \in Records : r \notin batch => offers'[r] = offers[r]
    BY <1>0, <2>1
  <2>6. \A r \in Records : offers'[r] <= faults' + 1
    BY <1>0, <2>1, <2>4, <2>5 DEF OfferInv
  <2>7. \A r \in Held' : ~HandedOver(r)' => Kept(r)'
    BY <1>0, <2>1, <2>2, <2>3, <2>4, <2>5 DEF KeptBack
  <2>8. ASSUME NEW c \in Below
        PROVE  /\ c[2] <= offers'[c[1]]
               /\ c[2] < offers'[c[1]] => c[1] \in bounced
    <3>1. c = <<c[1], c[2]>> /\ c[1] \in Records /\ c[2] \in Nat
      BY BelowAreCopies DEF Copies
    <3>2. c[2] <= offers[c[1]] /\ (c[2] < offers[c[1]] => c[1] \in bounced)
      BY DEF OfferInv, CopiesCounted
    <3>3. CASE c[1] \notin batch
      BY <2>5, <3>1, <3>2, <3>3
    <3>4. CASE c[1] \in batch
      <4>1. c[2] = offers[c[1]] => c[1] \in bounced
        BY <2>1, <2>4, <3>1, <3>4 DEF KeptBack
      <4>. QED  BY <1>0, <2>5, <3>1, <3>2, <3>4, <4>1
    <3>. QED  BY <3>3, <3>4
  <2>9. CopiesCounted'
    BY <2>1, <2>3, <2>8 DEF CopiesCounted
  <2>. QED  BY <2>1, <2>5, <2>6, <2>7, <2>9 DEF OfferInv
<1>5. CASE InnerWork
  <2>1. /\ ipc # "idle" /\ ipc' # "idle"
        /\ UNCHANGED <<held, pc, batch, offers, bounced>>
        /\ faults' \in {faults, faults + 1} /\ faults' \in Nat
        /\ ifailed' => ifailed \/ faults' = faults + 1
    BY <1>5, InnerWorks DEF outerVars, tierVars, storeVars, segVars, histVars
  <2>2. Held' = Held /\ Offering' = Offering /\ \A r : HandedOver(r)' = HandedOver(r)
    BY <2>1 DEF Held, Offering, HandedOver
  <2>3. \A r \in Records : offers[r] <= faults => offers[r] <= faults'
    BY <1>0, <2>1
  <2>4. \A r \in Records : offers'[r] <= faults' + 1
    BY <1>0, <2>1 DEF OfferInv
  <2>5. ASSUME NEW r \in Held, ~HandedOver(r), <<r, offers[r]>> \in Below'
        PROVE  <<r, offers[r]>> \in Below
    <3>1. ASSUME Offering, <<r, offers[r]>> \in iarg  PROVE FALSE
      <4>1. PICK q \in batch : <<r, offers[r]>> = <<q, offers[q]>>
        BY <3>1 DEF LinkInv, OfferedCopies
      <4>. QED  BY <2>5, <3>1, <4>1 DEF HandedOver
    <3>. QED  BY <1>1, <2>5, <3>1
  <2>6. \A r \in Held' : ~HandedOver(r)' => Kept(r)'
    BY <1>0, <2>1, <2>2, <2>3, <2>5 DEF OfferInv, KeptBack
  <2>7. Offering' => \A r \in batch' : ifailed' => offers'[r] <= faults'
    BY <1>0, <2>1, <2>2, <2>3 DEF OfferInv
  <2>. QED  BY <1>0, <1>2, <2>1, <2>4, <2>6, <2>7 DEF OfferInv
<1>6. CASE Answer
  <2>1. /\ ipc = "done" /\ ipc' = "idle" /\ UNCHANGED <<held, offers, faults, iheld, remote>>
        /\ bounced \subseteq bounced' /\ pc \in {"offered", "inner"}
        /\ pc = "offered" => (~ifailed /\ pc' = "commit" /\ batch' = batch) \/ ifailed
        /\ pc = "offered" /\ ifailed =>
             \A r \in batch : <<r, offers[r]>> \in Below => r \in bounced'
    BY <1>6, Answers DEF storeVars, envVars
  <2>2. Held' = Held /\ ~Offering' /\ Below' = Below
    BY <2>1 DEF Held, Offering, Below, Spooled, Delivered
  <2>3. ASSUME NEW r \in Held, ~HandedOver(r)'
        PROVE  Kept(r)'
    <3>1. CASE HandedOver(r)
      <4>1. pc = "offered" /\ ifailed /\ r \in batch /\ Offering
        BY <2>1, <2>3, <3>1 DEF HandedOver, Offering
      <4>. QED  BY <2>1, <2>2, <4>1 DEF OfferInv, KeptBack
    <3>2. CASE ~HandedOver(r)
      BY <2>1, <2>2, <3>2 DEF OfferInv, KeptBack
    <3>. QED  BY <3>1, <3>2
  <2>. QED  BY <1>0, <1>2, <2>1, <2>2, <2>3 DEF OfferInv
<1>7. CASE PassOn \/ (\E t \in Times : Tick(t)) \/ UNCHANGED stackVars
  <2>1. UNCHANGED <<held, pc, batch, offers, bounced, faults, iheld, remote>>
    BY <1>7, Handovers
       DEF Tick, stackVars, histVars, outerVars, innerVars, tierVars, storeVars, segVars,
           envVars
  <2>2. PassOn \/ UNCHANGED <<ipc, ifailed>>
    BY <1>7 DEF Tick, stackVars, innerVars
  <2>3. Offering' => Offering /\ UNCHANGED ifailed
    BY <2>1, <2>2, Handovers DEF Offering
  <2>4. /\ Held' = Held /\ Below' = Below
        /\ \A r : HandedOver(r) => HandedOver(r)' \/ PassOn
    BY <2>1, <2>2 DEF Held, HandedOver, Offering, Below, Spooled, Delivered
  <2>5. PassOn => \A r : ~HandedOver(r)
    BY Handovers DEF HandedOver, Offering
  <2>6. \A r : KeptBack(r)' <=> KeptBack(r)
    BY <2>1, <2>4 DEF KeptBack
  <2>. QED  BY <1>2, <2>1, <2>3, <2>4, <2>5, <2>6 DEF OfferInv
<1>8. CASE Crash
  <2>1. /\ pc' = "idle" /\ Held' = {} /\ UNCHANGED <<offers, bounced, faults>>
    BY <1>8, Crashes
  <2>. QED  BY <1>2, <2>1 DEF OfferInv, Offering
<1>. QED
  BY <1>3, <1>4, <1>5, <1>6, <1>7, <1>8 DEF StackNext, OuterWork, InnerWork

-----------------------------------------------------------------------------
(* The invariant holds at first, and every step keeps it.                  *)
LEMMA InitStackInv == StackInit => StackInv
<1>. SUFFICES ASSUME StackInit  PROVE StackInv
  OBVIOUS
<1>1. Held = {} /\ Spooled = {} /\ Delivered = {}
  BY DEF StackInit, StoreInit, Inner!StoreInit, Held, Spooled, Delivered
<1>2. Below = {}
  BY <1>1 DEF Below
<1>3. OuterInv
  BY DEF StackInit, StoreInit, TierInit, OuterInv, StoreTypeOK, TierTypeOK, Ops, Pcs
<1>4. LowerInv
  BY DEF StackInit, Inner!StoreInit, Inner!TierInit, LowerInv, Inner!StoreTypeOK,
         Inner!TierTypeOK, Inner!Ops, Inner!Pcs
<1>5. EnvTypeOK
  BY StackAssumption DEF StackInit, EnvTypeOK, StackAssumption
<1>6. LinkInv /\ BelowInv /\ BelowDrained
  BY <1>1
     DEF StackInit, TierInit, Inner!TierInit, LinkInv, Offering, BelowInv, BelowDrained
<1>7. FreshInv
  BY <1>1 DEF StackInit, StoreInit, TierInit, FreshInv, Unappended
<1>8. OfferInv
  BY <1>1, <1>2 DEF StackInit, TierInit, OfferInv, CopiesCounted, Offering
<1>. QED  BY <1>3, <1>4, <1>5, <1>6, <1>7, <1>8 DEF StackInv

LEMMA NextStackInv == StackInv /\ [StackNext]_stackVars => StackInv'
<1>. SUFFICES ASSUME StackInv, [StackNext]_stackVars
              PROVE  StackInv'
  OBVIOUS
<1>1. OuterInv' /\ LowerInv'
  BY StackMoves, OuterKeepsInv, LowerKeepsInv DEF StackInv
<1>2. EnvTypeOK' /\ LinkInv' /\ BelowInv' /\ BelowDrained' /\ FreshInv' /\ OfferInv'
  BY EnvKept, LinkKept, BelowKept, DrainedKept, FreshKept, OfferKept
<1>. QED  BY <1>1, <1>2 DEF StackInv

(* The inductive invariant of the stack.                                   *)
THEOREM StackIsInvariant == StackSpec => []StackInv
BY InitStackInv, NextStackInv, PTL DEF StackSpec

(* Every variable keeps its type; in particular no record is offered more  *)
(* often than once and once more for each failure.                         *)
THEOREM StackTypeCorrect == StackSpec => []StackTypeOK
<1>1. StackInv => StackTypeOK
  <2>. SUFFICES ASSUME StackInv  PROVE StackTypeOK
    OBVIOUS
  <2>1. MaxFaults \in Nat /\ faults \in 0..MaxFaults /\ offers \in [Records -> Nat]
    BY StackAssumption DEF StackInv, EnvTypeOK, OfferInv, StackAssumption
  <2>2. \A r \in Records : offers[r] \in 0..MaxCopies
    BY <2>1 DEF StackInv, OfferInv, MaxCopies
  <2>3. offers \in [Records -> 0..MaxCopies]
    BY <2>1, <2>2
  <2>. QED  BY <2>3 DEF StackInv, OuterInv, LowerInv, EnvTypeOK, StackTypeOK
<1>. QED  BY <1>1, StackIsInvariant, PTL

(* Custody passes from the outer tier's memory to the durable store and on *)
(* to the destination; only a crash loses what is still in memory.         *)
THEOREM CustodyPasses == StackSpec => []StackCustody
<1>1. StackInv => StackCustody
  BY DEF StackInv, BelowInv, StackCustody, Below, Rows
<1>. QED  BY <1>1, StackIsInvariant, PTL

(* A flush that returns Ok leaves nothing in either tier.                  *)
THEOREM FlushEmptiesBoth == StackSpec => []FlushEmptiesStack
<1>1. StackInv => FlushEmptiesStack
  <2>. SUFFICES ASSUME StackInv, pc = "done", op = "flush", ~failed
                PROVE  /\ segs = {} /\ isegs = {}
                       /\ acked \subseteq Rows(Delivered) \cup lost
    BY DEF FlushEmptiesStack
  <2>1. segs = {} /\ isegs = {}
    BY DEF StackInv, OuterInv, OuterDrained, BelowDrained
  <2>2. Held = {} /\ Spooled = {}
    BY <2>1
       DEF StackInv, OuterInv, LowerInv, StoreTypeOK, Inner!StoreTypeOK, Held, Spooled
  <2>3. Below = Delivered
    BY <2>2 DEF Below
  <2>. QED  BY <2>1, <2>2, <2>3 DEF StackInv, BelowInv
<1>. QED  BY <1>1, StackIsInvariant, PTL

(* An advance that returns Ok leaves no closed window in either tier.      *)
THEOREM AdvanceShipsClosed == StackSpec => []AdvanceShipsBoth
<1>1. StackInv => AdvanceShipsBoth
  BY DEF StackInv, OuterInv, OuterDrained, BelowDrained, AdvanceShipsBoth
<1>. QED  BY <1>1, StackIsInvariant, PTL

(* The handover stores a record a second time only after an inner ingest   *)
(* that had stored it returned an error.                                   *)
THEOREM CopiesAreBounced == StackSpec => []OneCopyUnlessBounced
<1>1. StackInv => OneCopyUnlessBounced
  <2>. SUFFICES ASSUME StackInv, NEW c \in Below, NEW d \in Below,
                       c # d, c[1] = d[1]
                PROVE  c[1] \in bounced
    BY DEF OneCopyUnlessBounced
  <2>1. /\ c = <<c[1], c[2]>> /\ c[2] \in Nat
        /\ d = <<d[1], d[2]>> /\ d[2] \in Nat
        /\ c[1] \in Records
    BY BelowAreCopies DEF Copies
  <2>2. c[2] # d[2]
    BY <2>1
  <2>3. offers[c[1]] \in Nat /\ c[2] <= offers[c[1]] /\ d[2] <= offers[c[1]]
    BY <2>1 DEF StackInv, OfferInv, CopiesCounted
  <2>4. c[2] < offers[c[1]] \/ d[2] < offers[c[1]]
    BY <2>1, <2>2, <2>3
  <2>. QED  BY <2>1, <2>4 DEF StackInv, OfferInv, CopiesCounted
<1>. QED  BY <1>1, StackIsInvariant, PTL
=============================================================================
