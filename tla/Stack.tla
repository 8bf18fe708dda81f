------------------------------- MODULE Stack -------------------------------
(***************************************************************************)
(* Two tiers in one stack, as SinkStack builds it                          *)
(* (src/src/layer/builder.rs): the outer Tier over a volatile store        *)
(* batches in short windows and drains into an inner Tier over a durable   *)
(* store with long windows, which drains into a terminal sink.             *)
(*                                                                         *)
(* The outer tier is module Tier itself, the inner one an instance of it   *)
(* over the variables with an i in front.  The inner tier is called while  *)
(* the outer one stands at "offered" (inner.ingest) or "inner"             *)
(* (inner.advance, inner.flush).                                           *)
(*                                                                         *)
(* A record that is offered again arrives as another copy of itself: the   *)
(* inner tier cannot tell it from a new one, and this module can.          *)
(***************************************************************************)
EXTENDS Tier

CONSTANTS
    InnerWindows, InnerTimes, InnerEvery, InnerMax,
    InnerErrors,   \* the durable store may fail
    LostReplies,   \* the destination may store a batch and the sink fail
    MaxFaults,     \* bound: failures of the durable store and the sink
    MaxCrashes     \* bound: crashes of the process

VARIABLES
    isegs, iheld, ibroken,
    iactive, icount, iinitialized, ipipeline, iop, ipc, iarg, iat, iforced,
    icursor, iwin, ibatch, ifailed

VARIABLES
    now,
    faults,   \* failures so far
    remote,   \* objects at the destination: a window and its rows
    crashes,
    used,     \* records the collector has handed over
    acked,    \* history: records whose ingest was appended to the outer store
    offers,   \* history: record -> times offered to the inner tier
    bounced,  \* history: records whose copy was below when its inner ingest
              \* returned an error
    lost      \* history: records in volatile memory when the process died

(* Every offer but the first answers a failure.                            *)
MaxCopies == MaxFaults + 1

Copies == Records \X (1..MaxCopies)

Inner == INSTANCE Tier WITH
    Windows <- InnerWindows, Records <- Copies, Durable <- TRUE,
    StoreErrors <- InnerErrors, TornBytes <- FALSE,
    Times <- InnerTimes, Every <- InnerEvery, MaxRecords <- InnerMax,
    Hint <- Name,
    segs <- isegs, held <- iheld, broken <- ibroken,
    active <- iactive, count <- icount, initialized <- iinitialized,
    pipeline <- ipipeline, op <- iop, pc <- ipc, arg <- iarg, at <- iat,
    forced <- iforced, cursor <- icursor, win <- iwin, batch <- ibatch,
    failed <- ifailed

(* The outer store is memory; the inner windows are aligned as those of    *)
(* TierAssumption are.                                                     *)
ASSUME StackAssumption ==
    /\ ~Durable
    /\ InnerWindows \subseteq Int
    /\ InnerTimes \subseteq Int
    /\ InnerEvery \in Nat
    /\ InnerMax \in Nat
    /\ \A t \in InnerTimes : Inner!Align(t) \in InnerWindows
    /\ \A v, w \in InnerWindows : v < w => v + Inner!WindowSecs <= w
    /\ Times \subseteq InnerTimes
    /\ \A w \in Windows : w + WindowSecs \in InnerTimes
    /\ InnerErrors \in BOOLEAN
    /\ LostReplies \in BOOLEAN
    /\ MaxFaults \in Nat
    /\ MaxCrashes \in Nat

outerVars == <<storeVars, tierVars>>
innerVars == <<isegs, iheld, ibroken, iactive, icount, iinitialized,
               ipipeline, iop, ipc, iarg, iat, iforced, icursor, iwin, ibatch,
               ifailed>>
envVars == <<now, faults, crashes>>
histVars == <<used, acked, offers, bounced, lost>>
stackVars == <<outerVars, innerVars, remote, envVars, histVars>>

Rows(C) == {c[1] : c \in C}
Object(w, C) == [window |-> w, rows |-> C]
Objects == [window : InnerWindows, rows : SUBSET Copies]

(* Copies the durable store holds, and copies the destination stores.      *)
Spooled == UNION {iheld[w] : w \in InnerWindows}
Delivered == UNION {o.rows : o \in remote}
Below == Spooled \cup Delivered

StackTypeOK ==
    /\ StoreTypeOK /\ TierTypeOK
    /\ Inner!StoreTypeOK /\ Inner!TierTypeOK
    /\ now \in Times
    /\ remote \in SUBSET Objects
    /\ faults \in 0..MaxFaults
    /\ crashes \in 0..MaxCrashes
    /\ used \in SUBSET Records
    /\ acked \in SUBSET Records
    /\ offers \in [Records -> 0..MaxCopies]
    /\ bounced \in SUBSET Records
    /\ lost \in SUBSET Records

StackInit ==
    /\ StoreInit /\ TierInit
    /\ Inner!StoreInit /\ Inner!TierInit
    /\ now \in Times
    /\ remote = {}
    /\ faults = 0
    /\ crashes = 0
    /\ used = {}
    /\ acked = {}
    /\ offers = [r \in Records |-> 0]
    /\ bounced = {}
    /\ lost = {}

-----------------------------------------------------------------------------
(* The pipeline above.                                                     *)

Ingest(R) ==
    /\ CallIngest(R, now)
    /\ used' = used \cup R
    /\ UNCHANGED <<innerVars, remote, envVars, acked, offers, bounced, lost>>

Heartbeat ==
    /\ CallAdvance(now)
    /\ UNCHANGED <<innerVars, remote, envVars, histVars>>

Flush ==
    /\ CallFlush
    /\ UNCHANGED <<innerVars, remote, envVars, histVars>>

-----------------------------------------------------------------------------
(* The outer tier on its own.                                              *)

Append ==
    /\ AppendOk
    /\ acked' = acked \cup arg
    /\ UNCHANGED <<innerVars, remote, envVars, used, offers, bounced,
                   lost>>

OuterStep ==
    /\ TierStep \/ \E w \in Windows : ReadOk(w)
    /\ UNCHANGED <<innerVars, remote, envVars, histVars>>

-----------------------------------------------------------------------------
(* Calls from the outer tier into the inner one.                           *)

(* inner.ingest with the outer window's meta: the inner tier aligns its    *)
(* exclusive end.                                                          *)
Offer ==
    /\ pc = "offered" /\ ipc = "idle"
    /\ Inner!CallIngest({<<r, offers[r] + 1>> : r \in batch}, win + WindowSecs)
    /\ offers' = [r \in Records |->
                     IF r \in batch THEN offers[r] + 1 ELSE offers[r]]
    /\ UNCHANGED <<outerVars, remote, envVars, used, acked, bounced,
                   lost>>

(* A mutant of PassOn: flush only advances what is downstream.             *)
PassOnAdvance ==
    /\ pc = "inner" /\ ipc = "idle"
    /\ Inner!CallAdvance(now)
    /\ UNCHANGED <<outerVars, remote, envVars, histVars>>

PassOn ==
    /\ pc = "inner" /\ ipc = "idle"
    /\ \/ op = "flush" /\ Inner!CallFlush
       \/ op # "flush" /\ Inner!CallAdvance(at)
    /\ UNCHANGED <<outerVars, remote, envVars, histVars>>

(* The inner call returns to the outer tier.                               *)
Answer ==
    /\ Inner!Return
    /\ \/ ~ifailed /\ InnerAccepts
       \/ ifailed /\ InnerRejects
       \/ InnerReturns(~ifailed)
    /\ bounced' = IF pc = "offered" /\ ifailed
                  THEN bounced \cup {r \in batch : <<r, offers[r]>> \in Below}
                  ELSE bounced
    /\ UNCHANGED <<remote, envVars, used, acked, offers, lost>>

(* A step of the inner tier inside a call.                                 *)
InnerStep ==
    /\ \/ Inner!Activated
       \/ Inner!AppendOk
       \/ Inner!DrainEnds
       \/ \E w \in InnerWindows : Inner!ReadOk(w)
       \/ Inner!CommitOk
    /\ UNCHANGED <<outerVars, remote, envVars, histVars>>

Fault ==
    /\ faults < MaxFaults
    /\ faults' = faults + 1

(* The durable store fails one of them.                                    *)
InnerStoreFails ==
    /\ Fault
    /\ \/ Inner!ActivateFails
       \/ Inner!AppendFails
       \/ Inner!OldestFails
       \/ \E w \in InnerWindows : Inner!ReadFails(w)
       \/ Inner!CommitFails
    /\ UNCHANGED <<outerVars, remote, now, crashes, histVars>>

-----------------------------------------------------------------------------
(* The terminal sink below: advance and flush are no-ops.                  *)

Ship == remote' = remote \cup {Object(iwin, ibatch)}

Accepts ==
    /\ Inner!InnerAccepts
    /\ Ship
    /\ UNCHANGED <<outerVars, envVars, histVars>>

Rejects ==
    /\ Fault
    /\ Inner!InnerRejects
    /\ UNCHANGED remote \/ (LostReplies /\ Ship)
    /\ UNCHANGED <<outerVars, now, crashes, histVars>>

Idles ==
    /\ Inner!InnerReturns(TRUE)
    /\ UNCHANGED <<outerVars, remote, envVars, histVars>>

-----------------------------------------------------------------------------
(* Time and crashes.                                                       *)

Tick(t) ==
    /\ t > now
    /\ now' = t
    /\ UNCHANGED <<outerVars, innerVars, remote, faults, crashes, histVars>>

Crash ==
    /\ crashes < MaxCrashes
    /\ crashes' = crashes + 1
    /\ TierReset /\ StoreCrash
    /\ Inner!TierReset
    /\ IF ipc = "append" THEN Inner!StoreTear(Inner!Align(iat), iarg)
                         ELSE Inner!StoreCrash
    /\ lost' = lost \cup Held
    /\ UNCHANGED <<remote, now, faults, used, acked, offers, bounced>>

StackNext ==
    \/ \E R \in SUBSET (Records \ used) : Ingest(R)
    \/ Heartbeat
    \/ Flush
    \/ Append
    \/ OuterStep
    \/ Offer
    \/ PassOn
    \/ Answer
    \/ InnerStep
    \/ InnerStoreFails
    \/ Accepts
    \/ Rejects
    \/ Idles
    \/ \E t \in Times : Tick(t)
    \/ Crash

StackSpec == StackInit /\ [][StackNext]_stackVars

-----------------------------------------------------------------------------
(* Safety.                                                                 *)

(* A record leaves the outer tier's memory only into the durable store or  *)
(* to the destination, unless the process dies while it is there: the      *)
(* inner ingest that returned Ok has it on disk (tier.rs:249, 303).        *)
StackCustody ==
    acked \subseteq Held \cup Rows(Spooled) \cup Rows(Delivered) \cup lost

(* A flush that returns Ok has emptied both tiers: what is not lost is at  *)
(* the destination (tier.rs:333-337).                                      *)
FlushEmptiesStack ==
    pc = "done" /\ op = "flush" /\ ~failed =>
        /\ segs = {} /\ isegs = {}
        /\ acked \subseteq Rows(Delivered) \cup lost

(* An advance that returns Ok has shipped every closed window of both      *)
(* tiers (tier.rs:318-329).                                                *)
AdvanceShipsBoth ==
    pc = "done" /\ op = "advance" /\ ~failed =>
        /\ \A w \in segs : w + WindowSecs > at
        /\ \A w \in isegs : w + Inner!WindowSecs > at

(* The handover makes no copies as long as an inner tier that returns an   *)
(* error has kept nothing: a record is there twice only if an inner ingest *)
(* stored it and returned an error nevertheless, that of its append (a     *)
(* torn batch) or of the drain pass behind it (tier.rs:303, 311).          *)
OneCopyUnlessBounced ==
    \A c, d \in Below : c # d /\ c[1] = d[1] => c[1] \in bounced

-----------------------------------------------------------------------------
(* What the documentation says and the code does not do.                   *)

(* "An hourly policy maps every record from 12:00 through 12:59 UTC to the *)
(* same 12:00 segment" (README.md:165-166): the records of an outer window *)
(* go to the inner window it lies in.                                      *)
SegmentsKeepTheirHour ==
    pc = "offered" /\ ipc = "append" => Inner!Align(iat) = Inner!Align(win)
=============================================================================
