-------------------------------- MODULE Tier --------------------------------
(***************************************************************************)
(* One buffering layer: Tier<R, St, S> (src/src/layer/tier.rs).            *)
(*                                                                         *)
(* The calls ingest, advance and flush run to completion one at a time     *)
(* (they take &mut self), but they await the store and the wrapped sink,   *)
(* and the process can die at any of those awaits.  So a call is a chain   *)
(* of actions, one per call out of the tier, and pc is where it stands:    *)
(*                                                                         *)
(*   idle      no call in progress                                         *)
(*   activate  about to activate the window of `at`                        *)
(*   append    about to append `arg` to the active window                  *)
(*   drain     head of the drain loop                                      *)
(*   offered   inner.ingest of segment `win` is outstanding                *)
(*   commit    about to remove segment `win`                               *)
(*   inner     inner.advance or inner.flush is outstanding                 *)
(*   done      about to return `failed` to the caller                      *)
(*                                                                         *)
(* op is the call: "ingest", "advance", "flush", or "init" for the         *)
(* advance that ensure_init runs inside the first ingest.                  *)
(***************************************************************************)
EXTENDS Store

CONSTANTS
    Times,       \* wall-clock readings (unix seconds)
    Every,       \* FlushPolicy::every in whole seconds
    MaxRecords,  \* FlushPolicy::max_records
    Names,       \* pipeline names
    Name,        \* the name in every live WindowMeta
    Hint         \* Store::pipeline_hint, or "unknown" without one

VARIABLES
    active,       \* active_window
    count,        \* active_count
    initialized,
    pipeline,
    op, pc,       \* the call in progress and where it stands
    arg,          \* records of the ingest in progress
    at,           \* wall time the call was given
    forced,       \* include_active of the drain pass
    cursor,       \* windows at or below it were skipped in this pass
    win, batch,   \* segment checked out of the store and the records read
    failed        \* first_error is set; the result once pc = "done"

memVars == <<active, count, initialized, pipeline>>
passVars == <<forced, cursor, failed>>
segVars == <<win, batch>>
callVars == <<op, arg, at>>
tierVars == <<memVars, op, pc, arg, at, passVars, segVars>>

-----------------------------------------------------------------------------
WindowSecs == IF Every < 1 THEN 1 ELSE Every

Align(t) == t - (t % WindowSecs)

ASSUME TierAssumption ==
    /\ Times \subseteq Int
    /\ Every \in Nat
    /\ MaxRecords \in Nat
    /\ \A t \in Times : Align(t) \in Windows
    /\ \A v, w \in Windows : v < w => v + WindowSecs <= w
    /\ Name \in Names
    /\ Hint \in Names
    /\ None \notin Names

Ops == {"idle", "ingest", "init", "advance", "flush"}
Pcs == {"idle", "activate", "append", "drain", "offered", "commit", "inner",
        "done"}

TierTypeOK ==
    /\ active \in Windows \cup {None}
    /\ count \in Nat
    /\ initialized \in BOOLEAN
    /\ pipeline \in Names \cup {None}
    /\ op \in Ops
    /\ pc \in Pcs
    /\ arg \in SUBSET Records
    /\ at \in Times \cup {None}
    /\ forced \in BOOLEAN
    /\ cursor \in Windows \cup {None}
    /\ win \in Windows \cup {None}
    /\ batch \in SUBSET Records
    /\ failed \in BOOLEAN

TierInit ==
    /\ active = None
    /\ count = 0
    /\ initialized = FALSE
    /\ pipeline = None
    /\ op = "idle"
    /\ pc = "idle"
    /\ arg = {}
    /\ at = None
    /\ forced = FALSE
    /\ cursor = None
    /\ win = None
    /\ batch = {}
    /\ failed = FALSE

(* The name a drained window carries: the first live one, then the hint.   *)
PipelineName == IF pipeline = None THEN Hint ELSE pipeline

-----------------------------------------------------------------------------
(* Moves between the parts of a call.                                      *)

ToActivate ==
    /\ pc' = "activate"
    /\ failed' = FALSE
    /\ UNCHANGED <<forced, cursor>>

(* The head of a drain pass.                                               *)
StartPass(includeActive) ==
    /\ pc' = "drain"
    /\ forced' = includeActive
    /\ cursor' = None
    /\ failed' = FALSE

(* The body of ingest, after ensure_init.                                  *)
IngestBody(R) ==
    /\ op' = "ingest"
    /\ \/ R # {} /\ ToActivate
       \/ R = {} /\ StartPass(count >= MaxRecords)

(* The current call ends with ok.  The advance inside ensure_init has its  *)
(* error logged and ingest goes on; any other call returns.                *)
Complete(ok) ==
    \/ /\ op = "init"
       /\ IngestBody(arg)
    \/ /\ op # "init"
       /\ pc' = "done"
       /\ failed' = ~ok
       /\ UNCHANGED <<op, forced, cursor>>

-----------------------------------------------------------------------------
(* Calls.                                                                  *)

CallIngest(R, t) ==
    /\ pc = "idle"
    /\ pipeline' = IF pipeline = None THEN Name ELSE pipeline
    /\ arg' = R
    /\ at' = t
    /\ initialized' = TRUE
    /\ \/ initialized /\ IngestBody(R)
       \/ ~initialized /\ op' = "init" /\ ToActivate
    /\ UNCHANGED <<active, count, segVars, storeVars>>

CallAdvance(t) ==
    /\ pc = "idle"
    /\ op' = "advance"
    /\ at' = t
    /\ initialized' = TRUE
    /\ ToActivate
    /\ UNCHANGED <<active, count, pipeline, arg, segVars, storeVars>>

CallFlush ==
    /\ pc = "idle"
    /\ op' = "flush"
    /\ initialized' = TRUE
    /\ StartPass(TRUE)
    /\ UNCHANGED <<active, count, pipeline, arg, at, segVars, storeVars>>

Return ==
    /\ pc = "done"
    /\ pc' = "idle"
    /\ op' = "idle"
    /\ arg' = {}
    /\ at' = None
    /\ forced' = FALSE
    /\ cursor' = None
    /\ failed' = FALSE
    /\ UNCHANGED <<memVars, segVars, storeVars>>

-----------------------------------------------------------------------------
(* activate and append.                                                    *)

(* A mutant of Activate: the stored count is not restored.                 *)
ActivateEmpty(w) ==
    \/ active = w /\ UNCHANGED <<active, count>>
    \/ active # w /\ Readable(w) /\ active' = w /\ count' = 0

(* Window w becomes the active one, and its stored records are counted.    *)
Activate(w) ==
    \/ /\ active = w
       /\ UNCHANGED <<active, count>>
    \/ /\ active # w
       /\ Readable(w)
       /\ active' = w
       /\ count' = Cardinality(held[w])

Activated ==
    /\ pc = "activate"
    /\ Activate(Align(at))
    /\ \/ /\ op = "ingest"
          /\ pc' = "append"
          /\ UNCHANGED passVars
       \/ /\ op # "ingest"
          /\ StartPass(count' >= MaxRecords)
    /\ UNCHANGED <<initialized, pipeline, callVars, segVars, storeVars>>

(* stored_count failed: the call returns before it appends or drains.      *)
ActivateFails ==
    /\ pc = "activate"
    /\ active # Align(at)
    /\ StoreErrors \/ ~Readable(Align(at))
    /\ Complete(FALSE)
    /\ UNCHANGED <<memVars, arg, at, segVars, storeVars>>

AppendOk ==
    /\ pc = "append"
    /\ StoreAppend(Align(at), arg)
    /\ count' = count + Cardinality(arg)
    /\ StartPass(count' >= MaxRecords)
    /\ UNCHANGED <<active, initialized, pipeline, callVars, segVars>>

(* A mutant of AppendFails: the batch is counted before it is stored.      *)
AppendFailsCounted ==
    /\ pc = "append"
    /\ StoreErrors
    /\ StoreTear(Align(at), arg)
    /\ count' = count + Cardinality(arg)
    /\ Complete(FALSE)
    /\ UNCHANGED <<active, initialized, pipeline, arg, at, segVars>>

AppendFails ==
    /\ pc = "append"
    /\ StoreErrors
    /\ StoreTear(Align(at), arg)
    /\ Complete(FALSE)
    /\ UNCHANGED <<memVars, arg, at, segVars>>

-----------------------------------------------------------------------------
(* The drain pass.                                                         *)

(* A mutant of Retained: the active window counts as closed.               *)
RetainedLate(w) == ~forced /\ active # None /\ w > active

(* An unforced pass stops at the active window.                            *)
Retained(w) == ~forced /\ active # None /\ w >= active

(* A mutant of Skip: the cursor does not move past the failed window.      *)
SkipNoCursor(w) ==
    /\ pc' = "drain"
    /\ failed' = TRUE
    /\ win' = None
    /\ batch' = {}
    /\ UNCHANGED <<cursor, forced>>

(* A mutant of Skip: first_error is not recorded.                          *)
SkipSilently(w) ==
    /\ pc' = "drain"
    /\ cursor' = w
    /\ win' = None
    /\ batch' = {}
    /\ UNCHANGED <<forced, failed>>

(* Window w failed: it stays stored and the pass goes on behind it.        *)
Skip(w) ==
    /\ pc' = "drain"
    /\ failed' = TRUE
    /\ cursor' = w
    /\ win' = None
    /\ batch' = {}
    /\ UNCHANGED forced

(* A mutant of PassEnds: the pass stops at its first error.                *)
PassEndsAtError ==
    \/ failed
    \/ Newer(cursor) = {}
    \/ \E w \in segs : IsOldest(w, cursor) /\ Retained(w)

PassEnds ==
    \/ Newer(cursor) = {}
    \/ \E w \in segs : IsOldest(w, cursor) /\ Retained(w)

(* The pass is over.  Its first error is the result of the call; without   *)
(* one, advance and flush go on to the wrapped sink.                       *)
DrainEnds ==
    /\ pc = "drain"
    /\ PassEnds
    /\ \/ /\ op = "ingest" \/ failed
          /\ Complete(~failed)
       \/ /\ op # "ingest" /\ ~failed
          /\ pc' = "inner"
          /\ UNCHANGED <<op, passVars>>
    /\ UNCHANGED <<memVars, arg, at, segVars, storeVars>>

OldestFails ==
    /\ pc = "drain"
    /\ StoreErrors
    /\ Complete(FALSE)
    /\ UNCHANGED <<memVars, arg, at, segVars, storeVars>>

NextSegment(w) ==
    /\ pc = "drain"
    /\ ~PassEnds
    /\ IsOldest(w, cursor)

ReadFails(w) ==
    /\ NextSegment(w)
    /\ StoreErrors \/ ~Readable(w)
    /\ Skip(w)
    /\ UNCHANGED <<memVars, callVars, storeVars>>

(* An empty segment is removed without going downstream.                   *)
ReadOk(w) ==
    /\ NextSegment(w)
    /\ Readable(w)
    /\ win' = w
    /\ batch' = held[w]
    /\ pc' = IF held[w] = {} THEN "commit" ELSE "offered"
    /\ UNCHANGED <<memVars, callVars, passVars, storeVars>>

(* inner.ingest returned.                                                  *)
InnerAccepts ==
    /\ pc = "offered"
    /\ pc' = "commit"
    /\ UNCHANGED <<memVars, callVars, passVars, segVars, storeVars>>

(* A mutant of InnerRejects: the segment is removed all the same.          *)
InnerRejectsCommit ==
    /\ pc = "offered"
    /\ pc' = "commit"
    /\ failed' = TRUE
    /\ UNCHANGED <<memVars, callVars, forced, cursor, segVars, storeVars>>

InnerRejects ==
    /\ pc = "offered"
    /\ Skip(win)
    /\ UNCHANGED <<memVars, callVars, storeVars>>

CommitOk ==
    /\ pc = "commit"
    /\ StoreCommit(win)
    /\ \/ /\ win = active
          /\ active' = None
          /\ count' = 0
       \/ /\ win # active
          /\ UNCHANGED <<active, count>>
    /\ pc' = "drain"
    /\ win' = None
    /\ batch' = {}
    /\ UNCHANGED <<initialized, pipeline, callVars, passVars>>

CommitFails ==
    /\ pc = "commit"
    /\ StoreErrors
    /\ Skip(win)
    /\ UNCHANGED <<memVars, callVars, storeVars>>

(* inner.advance or inner.flush returned.                                  *)
InnerReturns(ok) ==
    /\ pc = "inner"
    /\ Complete(ok)
    /\ UNCHANGED <<memVars, arg, at, segVars, storeVars>>

(* The steps the tier takes on its own and with its store, apart from the  *)
(* two a composition observes: AppendOk and ReadOk.                        *)
TierStep ==
    \/ Activated
    \/ ActivateFails
    \/ AppendFails
    \/ DrainEnds
    \/ OldestFails
    \/ \E w \in Windows : ReadFails(w)
    \/ CommitOk
    \/ CommitFails
    \/ Return

(* The process died: a restarted pipeline builds the tier anew.            *)
TierReset ==
    /\ active' = None
    /\ count' = 0
    /\ initialized' = FALSE
    /\ pipeline' = None
    /\ op' = "idle"
    /\ pc' = "idle"
    /\ arg' = {}
    /\ at' = None
    /\ forced' = FALSE
    /\ cursor' = None
    /\ win' = None
    /\ batch' = {}
    /\ failed' = FALSE
=============================================================================
