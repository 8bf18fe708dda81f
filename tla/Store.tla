------------------------------- MODULE Store -------------------------------
(***************************************************************************)
(* Window-keyed record storage behind a Tier: the Store and Segment traits *)
(* (src/src/store.rs) with the two backends of the crate, the volatile     *)
(* MemStore (Durable = FALSE) and the write-ahead JsonlStore               *)
(* (Durable = TRUE).                                                       *)
(*                                                                         *)
(* A segment holds a set of records: a record is ingested once, so the     *)
(* order inside a segment identifies nothing the properties tell apart.    *)
(* The file-level protocol of JsonlStore is in module JsonlStore.          *)
(***************************************************************************)
EXTENDS Integers, FiniteSets

CONSTANTS
    Windows,      \* window keys: aligned unix seconds
    Records,      \* the records a collector may hand over
    None,         \* Option::None
    Durable,      \* JsonlStore rather than MemStore
    StoreErrors,  \* store calls may fail with an I/O error
    TornBytes     \* a torn write may leave a segment that cannot be read

(* MemStore is Infallible and never torn.                                  *)
ASSUME StoreAssumption ==
    /\ Windows \subseteq Int
    /\ None \notin Int
    /\ IsFiniteSet(Records)
    /\ Durable \in BOOLEAN
    /\ StoreErrors \in BOOLEAN
    /\ TornBytes \in BOOLEAN
    /\ (StoreErrors \/ TornBytes) => Durable

VARIABLES
    segs,    \* windows that have a segment
    held,    \* window -> the records its segment yields
    broken   \* segments whose records() fails on every read

storeVars == <<segs, held, broken>>

StoreTypeOK ==
    /\ segs \in SUBSET Windows
    /\ held \in [Windows -> SUBSET Records]
    /\ broken \in SUBSET segs
    /\ \A w \in Windows \ segs : held[w] = {}

(* Every record some segment holds.                                        *)
Held == UNION {held[w] : w \in Windows}

StoreInit ==
    /\ segs = {}
    /\ held = [w \in Windows |-> {}]
    /\ broken = {}

-----------------------------------------------------------------------------
(* The windows oldest(after) chooses from: strictly newer than the cursor. *)
Newer(after) == {w \in segs : after = None \/ w > after}

(* w is the window oldest(after) opens.                                    *)
IsOldest(w, after) ==
    /\ w \in Newer(after)
    /\ \A v \in Newer(after) : w <= v

Readable(w) == w \notin broken

(* A mutant of StoreAppend: the segment is opened with truncate, not       *)
(* append.                                                                 *)
StoreAppendTruncates(w, R) ==
    /\ segs' = segs \cup {w}
    /\ held' = [held EXCEPT ![w] = R]
    /\ UNCHANGED broken

(* append returned Ok: the whole batch is in the segment.                  *)
StoreAppend(w, R) ==
    /\ segs' = segs \cup {w}
    /\ held' = [held EXCEPT ![w] = @ \cup R]
    /\ UNCHANGED broken

(* append failed, or the process died inside it: part of the batch may be  *)
(* in the segment, and the record that was torn may make it unreadable.    *)
StoreTear(w, R) ==
    \/ UNCHANGED storeVars
    \/ \E S \in SUBSET R :
        /\ segs' = segs \cup {w}
        /\ held' = [held EXCEPT ![w] = @ \cup S]
        /\ \/ UNCHANGED broken
           \/ TornBytes /\ S # R /\ broken' = broken \cup {w}

(* A mutant of StoreCommit: the window leaves the index, its records stay. *)
StoreCommitIndexOnly(w) ==
    /\ segs' = segs \ {w}
    /\ broken' = broken \ {w}
    /\ UNCHANGED held

(* commit returned Ok: the segment is gone.                                *)
StoreCommit(w) ==
    /\ segs' = segs \ {w}
    /\ held' = [held EXCEPT ![w] = {}]
    /\ broken' = broken \ {w}

(* The process died: memory is gone, files stay.                           *)
StoreCrash ==
    IF Durable
    THEN UNCHANGED storeVars
    ELSE /\ segs' = {}
         /\ held' = [w \in Windows |-> {}]
         /\ broken' = {}

-----------------------------------------------------------------------------
(* What a store does between calls: the promise a backend is held to.      *)
StoreNext ==
    \/ \E w \in Windows, R \in SUBSET Records :
        StoreAppend(w, R) \/ StoreTear(w, R)
    \/ \E w \in Windows : Readable(w) /\ StoreCommit(w)
    \/ StoreCrash

StoreSpec == StoreInit /\ [][StoreNext]_storeVars
=============================================================================
