------------------------------- MODULE Spool -------------------------------
(***************************************************************************)
(* One pipeline's spool in its environment: a Tier over its store and a    *)
(* terminal sink, driven by a pipeline that may call ingest, advance and   *)
(* flush in any order, on a process that can die and be started again.     *)
(*                                                                         *)
(* The terminal sink stores a window as one object whose path names the    *)
(* pipeline, the window start and a fingerprint of the content             *)
(* (object_path in src/src/sink/huggingface.rs), so an object is           *)
(* identified by those three and writing it twice changes nothing.         *)
(***************************************************************************)
EXTENDS Tier

CONSTANTS
    Poison,       \* records the terminal sink refuses on every attempt
    Rejections,   \* the terminal sink may refuse any batch
    LostReplies,  \* the destination may store a batch and the sink still fail
    ClockSteps,   \* the wall clock may step backwards
    MaxCrashes    \* bound: crashes of the process

ASSUME SpoolAssumption ==
    /\ Poison \subseteq Records
    /\ Rejections \in BOOLEAN
    /\ LostReplies \in BOOLEAN
    /\ ClockSteps \in BOOLEAN
    /\ MaxCrashes \in Nat

VARIABLES
    now,      \* the wall clock
    remote,   \* objects the destination stores
    crashes,
    used,     \* records the collector has handed over
    acked,    \* history: records whose append returned Ok
    split     \* history: windows that a forced pass offered downstream

envVars == <<now, crashes>>
histVars == <<used, acked, split>>
spoolVars == <<storeVars, tierVars, remote, envVars, histVars>>

Object(p, w, R) == [pipeline |-> p, window |-> w, rows |-> R]
Objects == [pipeline : Names, window : Windows, rows : SUBSET Records]

(* Every record the destination stores.                                    *)
Delivered == UNION {o.rows : o \in remote}

SpoolTypeOK ==
    /\ StoreTypeOK
    /\ TierTypeOK
    /\ now \in Times
    /\ remote \in SUBSET Objects
    /\ crashes \in 0..MaxCrashes
    /\ used \in SUBSET Records
    /\ acked \in SUBSET Records
    /\ split \in SUBSET Windows

SpoolInit ==
    /\ StoreInit
    /\ TierInit
    /\ now \in Times
    /\ remote = {}
    /\ crashes = 0
    /\ used = {}
    /\ acked = {}
    /\ split = {}

-----------------------------------------------------------------------------
(* The pipeline above.                                                     *)

Ingest(R) ==
    /\ CallIngest(R, now)
    /\ used' = used \cup R
    /\ UNCHANGED <<remote, envVars, acked, split>>

Heartbeat ==
    /\ CallAdvance(now)
    /\ UNCHANGED <<remote, envVars, histVars>>

Flush ==
    /\ CallFlush
    /\ UNCHANGED <<remote, envVars, histVars>>

(* The tier's own steps and its store's.                                   *)
Append ==
    /\ AppendOk
    /\ acked' = acked \cup arg
    /\ UNCHANGED <<remote, envVars, used, split>>

Read(w) ==
    /\ ReadOk(w)
    /\ split' = IF forced THEN split \cup {w} ELSE split
    /\ UNCHANGED <<remote, envVars, used, acked>>

Step ==
    /\ TierStep
    /\ UNCHANGED <<remote, envVars, histVars>>

-----------------------------------------------------------------------------
(* The terminal sink below.                                                *)

(* Where the open batch is stored.                                         *)
Path(w, R) == Object(PipelineName, w, R)

Upload == remote' = remote \cup {Path(win, batch)}

Accepts ==
    /\ batch \cap Poison = {}
    /\ InnerAccepts
    /\ Upload
    /\ UNCHANGED <<envVars, histVars>>

Rejects ==
    /\ Rejections \/ batch \cap Poison # {}
    /\ InnerRejects
    /\ UNCHANGED <<remote, envVars, histVars>>

(* The object is stored and the answer is lost or timed out.               *)
AcceptsLost ==
    /\ LostReplies
    /\ batch \cap Poison = {}
    /\ InnerRejects
    /\ Upload
    /\ UNCHANGED <<envVars, histVars>>

Answers(ok) ==
    /\ ok \/ Rejections
    /\ InnerReturns(ok)
    /\ UNCHANGED <<remote, envVars, histVars>>

-----------------------------------------------------------------------------
(* Time and crashes.                                                       *)

Tick(t) ==
    /\ ClockSteps \/ t > now
    /\ now' = t
    /\ UNCHANGED <<storeVars, tierVars, remote, crashes, histVars>>

(* The process dies at any await, in the middle of an append too.          *)
Crash ==
    /\ crashes < MaxCrashes
    /\ crashes' = crashes + 1
    /\ TierReset
    /\ IF pc = "append" /\ Durable THEN StoreTear(Align(at), arg) ELSE StoreCrash
    /\ UNCHANGED <<remote, now, histVars>>

(* Every step of a call in progress.                                       *)
Busy ==
    \/ Append
    \/ \E w \in Windows : Read(w)
    \/ Step
    \/ Accepts
    \/ Rejects
    \/ AcceptsLost
    \/ \E ok \in BOOLEAN : Answers(ok)

SpoolNext ==
    \/ \E R \in SUBSET (Records \ used) : Ingest(R)
    \/ Heartbeat
    \/ Flush
    \/ Busy
    \/ \E t \in Times : Tick(t)
    \/ Crash

SpoolSpec == SpoolInit /\ [][SpoolNext]_spoolVars

-----------------------------------------------------------------------------
(* Safety.                                                                 *)

(* What a call in progress knows: its time and its window, the segment it  *)
(* has checked out, and before it removes one, that it was delivered.      *)
CallInv ==
    /\ op \in {"ingest", "init", "advance"} => at \in Times
    /\ pc = "activate" => op \in {"ingest", "init", "advance"}
    /\ pc = "append" => op = "ingest" /\ active = Align(at)
    /\ pc \in {"offered", "commit"} => win \in Windows /\ batch = held[win]
    /\ pc = "commit" => batch \subseteq Delivered

(* A record whose append returned Ok (the caller believes it safe) is in   *)
(* the durable store or at the destination, whatever crashed, failed or    *)
(* answered late: drain removes a segment only after inner.ingest said Ok  *)
(* and only what it had read.                                              *)
Custody == Durable => acked \subseteq Held \cup Delivered

(* A record is stored once: one that is still to be appended is in no      *)
(* segment yet.                                                            *)
FreshInv ==
    /\ Held \subseteq used
    /\ arg \subseteq used
    /\ op = "init" \/ (op = "ingest" /\ pc \in {"activate", "append"})
         => arg \cap Held = {}

(* In a pass that was not forced the active window is the one of the call, *)
(* and what the pass has checked out lies before it.                       *)
PassInv ==
    ~forced /\ (op = "ingest" => arg # {}) =>
        /\ pc \in {"drain", "offered", "commit"}
             => at \in Times /\ active \in Windows /\ active = Align(at)
        /\ pc \in {"offered", "commit"} => win < active

(* The layer keeps the promise of module Delivery.                         *)
Promise == INSTANCE Delivery WITH
    Volatile <- ~Durable,
    custody <- Held,
    delivered <- Delivered

KeepsPromise == Promise!DeliverySpec

(* active_count is the number of records stored under the active window,   *)
(* across restarts, forced drains and windows that come back when the      *)
(* clock steps: what max_records is compared with (stored_count, activate, *)
(* the reset after commit).                                                *)
CountExact ==
    active # None => count = Cardinality(held[active])

(* When appends fail half-way the count is no longer exact, but it stays   *)
(* between the two numbers that matter: no acknowledged record of the      *)
(* active window is left out, so the valve fires for those at the latest,  *)
(* and nothing is counted that is not stored, so it never fires early.     *)
CountCovers ==
    active # None =>
        /\ Cardinality(held[active] \cap acked) <= count
        /\ count <= Cardinality(held[active])

(* The max_records valve: a call that returns Ok leaves fewer than         *)
(* max_records records in the active window, also when they were stored by *)
(* an earlier process.                                                     *)
ValveFires ==
    pc = "done" /\ ~failed /\ active # None
        => held[active] = {} \/ Cardinality(held[active]) < MaxRecords

(* A pass that was not forced ships only windows whose last second had     *)
(* passed when the call was made: no partial window leaves the spool       *)
(* unless max_records or flush asks for it.                                *)
ShipsClosedWindows ==
    pc = "offered" /\ ~forced /\ (op = "ingest" => arg # {})
        => win + WindowSecs <= at

(* Ok means drained: after a successful flush nothing is stored; after a   *)
(* successful advance or ingest no closed window is.                       *)
OkMeansDrained ==
    pc = "done" /\ ~failed =>
        /\ op = "flush" => segs = {}
        /\ op = "advance" \/ (op = "ingest" /\ arg # {})
             => \A w \in segs : w + WindowSecs > at

(* A window that no forced pass touched has one content at the             *)
(* destination, however often it was uploaded again after a crash, a lost  *)
(* reply or a failed removal.  It is there once, under the pipeline's      *)
(* name; only a restarted process that has not ingested yet may store it   *)
(* under the store's hint (pipeline_name in tier.rs).                      *)
ClosedWindowIsOneObject ==
    /\ \A o1, o2 \in remote :
        o1.window = o2.window /\ o1.window \notin split => o1.rows = o2.rows
    /\ \A o \in remote : o.pipeline = Name \/ (o.pipeline = Hint /\ crashes > 0)
=============================================================================
