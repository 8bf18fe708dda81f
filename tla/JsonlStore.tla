----------------------------- MODULE JsonlStore -----------------------------
(***************************************************************************)
(* The write-ahead segment files of JsonlStore (src/src/store/jsonl.rs),   *)
(* one action per system call, so that the process can be killed between   *)
(* any two of them, and inside the write.                                  *)
(*                                                                         *)
(* A file is a sequence of tokens: a record's whole JSON value, the        *)
(* newline that ends its line, a value cut short (Torn) or cut inside a    *)
(* multi-byte character (TornUtf8).  file is what the page cache shows;    *)
(* synced, listed and rootListed say what of it a power failure cannot     *)
(* take back.                                                              *)
(***************************************************************************)
EXTENDS Integers, FiniteSets, SequencesExt

CONSTANTS
    Windows,
    Records,
    None,
    Batches,     \* bound: the batches append is called with
    Newline, Torn, TornUtf8,
    Ascii,       \* records serialize to ASCII only
    IoErrors,    \* a system call may fail
    RootListed,  \* whether the store directory is on disk at first: either
                 \* value, or both
    MaxKills,    \* bound: times the process is killed
    MaxOutages   \* bound: power failures

ASSUME JsonlAssumption ==
    /\ Windows \subseteq Int
    /\ None \notin Int
    /\ IsFiniteSet(Records)
    /\ Batches \subseteq Seq(Records)
    /\ {Newline, Torn, TornUtf8} \cap Records = {}
    /\ Newline # Torn /\ Newline # TornUtf8 /\ Torn # TornUtf8
    /\ None \notin Seq(Records \cup {Newline, Torn, TornUtf8})
    /\ Ascii \in BOOLEAN
    /\ IoErrors \in BOOLEAN
    /\ RootListed \subseteq BOOLEAN
    /\ MaxKills \in Nat
    /\ MaxOutages \in Nat

VARIABLES
    files,        \* windows whose segment file exists
    file,         \* window -> content of its file
    synced,       \* window -> length of the content that fsync has covered
    listed,       \* windows whose directory entry an fsync has covered
    rootListed,   \* the directory's own entry is on disk
    removed,      \* window -> an unlinked file the disk may still list
    initialized,  \* JsonlStore::initialized
    pc, win, arg, todo, isNew,  \* the append in progress
    acked,        \* window -> records whose append returned Ok
    exposed,      \* history: windows with an Ok whose directory entry, or the
                  \* directory's own, was not on disk
    cut,          \* history: windows with a write that was not finished
    used, kills, outages

diskVars == <<files, file, synced, listed, rootListed, removed>>
callVars == <<pc, win, arg, todo, isNew>>
boundVars == <<used, kills, outages>>
histVars == <<acked, exposed, cut>>
jsonlVars == <<diskVars, callVars, initialized, histVars, boundVars>>

Tokens == Records \cup {Newline, Torn, TornUtf8}
Pcs == {"idle", "dir", "open", "tail", "write", "syncdir"}

JsonlTypeOK ==
    /\ files \in SUBSET Windows
    /\ file \in [Windows -> Seq(Tokens)]
    /\ \A w \in Windows : synced[w] \in 0..Len(file[w])
    /\ \A w \in Windows \ files : file[w] = <<>>
    /\ listed \in SUBSET files
    /\ rootListed \in BOOLEAN
    /\ removed \in [Windows -> Seq(Tokens)]
    /\ initialized \in BOOLEAN
    /\ pc \in Pcs
    /\ win \in Windows \cup {None}
    /\ arg \in SUBSET Records
    /\ todo \in Seq(Tokens)
    /\ isNew \in BOOLEAN
    /\ acked \in [Windows -> SUBSET Records]
    /\ exposed \in SUBSET Windows
    /\ cut \in SUBSET Windows
    /\ used \in SUBSET Records
    /\ kills \in 0..MaxKills
    /\ outages \in 0..MaxOutages

JsonlInit ==
    /\ files = {}
    /\ file = [w \in Windows |-> <<>>]
    /\ synced = [w \in Windows |-> 0]
    /\ listed = {}
    /\ rootListed \in RootListed
    /\ removed = [w \in Windows |-> <<>>]
    /\ initialized = FALSE
    /\ pc = "idle"
    /\ win = None
    /\ arg = {}
    /\ todo = <<>>
    /\ isNew = FALSE
    /\ acked = [w \in Windows |-> {}]
    /\ exposed = {}
    /\ cut = {}
    /\ used = {}
    /\ kills = 0
    /\ outages = 0

-----------------------------------------------------------------------------
(* What records() makes of a file.                                         *)

(* read_to_string refuses a file that is not UTF-8.                        *)
ReadsAsText(c) == TornUtf8 \notin ToSet(c)

(* Lines that hold one whole value and nothing else.                       *)
Parsed(c) ==
    {c[i] : i \in {j \in DOMAIN c :
        /\ c[j] \in Records
        /\ j = 1 \/ c[j - 1] = Newline
        /\ j = Len(c) \/ c[j + 1] = Newline}}

(* The lines append serializes before it touches the file.                 *)
Lines(batch) ==
    [i \in 1..(2 * Len(batch)) |->
        IF i % 2 = 1 THEN batch[(i + 1) \div 2] ELSE Newline]

-----------------------------------------------------------------------------
(* append.                                                                 *)

CallAppend(w, batch) ==
    /\ pc = "idle"
    /\ ToSet(batch) \cap used = {}
    /\ pc' = "dir"
    /\ win' = w
    /\ arg' = ToSet(batch)
    /\ todo' = Lines(batch)
    /\ used' = used \cup ToSet(batch)
    /\ UNCHANGED <<diskVars, isNew, initialized, histVars, kills, outages>>

(* ensure_dir.                                                             *)
EnsureDir ==
    /\ pc = "dir"
    /\ initialized' = TRUE
    /\ pc' = "open"
    /\ UNCHANGED <<diskVars, win, arg, todo, isNew, histVars, boundVars>>

(* A mutant of Open: the file is opened with truncate.                     *)
OpenTruncates ==
    /\ pc = "open"
    /\ isNew' = (win \notin files)
    /\ files' = files \cup {win}
    /\ file' = [file EXCEPT ![win] = <<>>]
    /\ pc' = "tail"
    /\ UNCHANGED <<synced, listed, rootListed, removed, win, arg, todo,
                   initialized, histVars, boundVars>>

(* exists(), then open with create and append.                             *)
Open ==
    /\ pc = "open"
    /\ isNew' = (win \notin files)
    /\ files' = files \cup {win}
    /\ pc' = "tail"
    /\ UNCHANGED <<file, synced, listed, rootListed, removed, win, arg, todo,
                   initialized, histVars, boundVars>>

(* A mutant of CloseTail: new lines follow whatever the file ends with.    *)
CloseTailNever ==
    /\ pc = "tail"
    /\ pc' = "write"
    /\ UNCHANGED <<diskVars, win, arg, todo, isNew, initialized, histVars, boundVars>>

(* A last line without its newline is closed before anything is appended.  *)
CloseTail ==
    /\ pc = "tail"
    /\ LET c == file[win]
           open == c # <<>> /\ Last(c) # Newline
       IN  file' = [file EXCEPT ![win] = IF open THEN Append(c, Newline) ELSE c]
    /\ pc' = "write"
    /\ UNCHANGED <<files, synced, listed, rootListed, removed, win, arg, todo, isNew,
                   initialized, histVars, boundVars>>

(* write_all: the bytes reach the file in order.                           *)
Write ==
    /\ pc = "write"
    /\ todo # <<>>
    /\ file' = [file EXCEPT ![win] = Append(@, Head(todo))]
    /\ todo' = Tail(todo)
    /\ UNCHANGED <<files, synced, listed, rootListed, removed, pc, win, arg, isNew,
                   initialized, histVars, boundVars>>

Return ==
    /\ pc' = "idle"
    /\ win' = None
    /\ arg' = {}
    /\ todo' = <<>>
    /\ isNew' = FALSE

(* An Ok now rests on the directory entries D, and on the directory's own. *)
Exposes(D) ==
    exposed' = IF win \in D /\ rootListed THEN exposed ELSE exposed \cup {win}

(* A mutant of Sync: a new segment's directory entry is not synced.        *)
SyncFileOnly ==
    /\ pc = "write"
    /\ todo = <<>>
    /\ synced' = [synced EXCEPT ![win] = Len(file[win])]
    /\ acked' = [acked EXCEPT ![win] = @ \cup arg]
    /\ Return
    /\ UNCHANGED <<files, file, listed, rootListed, removed, initialized,
                   exposed, cut, boundVars>>

(* sync_all on the file; a file that existed needs nothing more.           *)
Sync ==
    /\ pc = "write"
    /\ todo = <<>>
    /\ synced' = [synced EXCEPT ![win] = Len(file[win])]
    /\ \/ /\ isNew
          /\ pc' = "syncdir"
          /\ UNCHANGED <<win, arg, todo, isNew, histVars>>
       \/ /\ ~isNew
          /\ acked' = [acked EXCEPT ![win] = @ \cup arg]
          /\ Exposes(listed)
          /\ UNCHANGED cut
          /\ Return
    /\ UNCHANGED <<files, file, listed, rootListed, removed, initialized,
                   boundVars>>

(* sync_all on the directory.                                              *)
SyncDir ==
    /\ pc = "syncdir"
    /\ listed' = files
    /\ removed' = [w \in Windows |-> <<>>]
    /\ acked' = [acked EXCEPT ![win] = @ \cup arg]
    /\ Exposes(files)
    /\ Return
    /\ UNCHANGED <<files, file, synced, rootListed, initialized, cut, boundVars>>

(* A value that was being written when the writer stopped.                 *)
Fragments == IF Ascii THEN {Torn} ELSE {Torn, TornUtf8}

(* What is left of content c when the bytes behind it, which start with    *)
(* rest, got lost.                                                         *)
Cut(c, rest) ==
    {c} \cup (IF rest # <<>> /\ Head(rest) \in Records
             THEN {Append(c, x) : x \in Fragments}
             ELSE {})

(* What the file of the write in progress may look like when it stops now. *)
Stopped == Cut(file[win], todo)

(* A write that is not finished is on record.                              *)
Cuts == cut' = IF pc = "write" THEN cut \cup {win} ELSE cut

(* Any system call of append fails, or a record does not serialize.        *)
AppendFails ==
    /\ IoErrors
    /\ pc # "idle"
    /\ Return
    /\ IF pc = "write"
       THEN \E c \in Stopped : file' = [file EXCEPT ![win] = c]
       ELSE UNCHANGED file
    /\ Cuts
    /\ UNCHANGED <<files, synced, listed, rootListed, removed, initialized, acked,
                   exposed, boundVars>>

-----------------------------------------------------------------------------
(* oldest and commit.                                                      *)

(* oldest creates the directory too, and reads.                            *)
Oldest ==
    /\ pc = "idle"
    /\ initialized' = TRUE
    /\ UNCHANGED <<diskVars, callVars, histVars, boundVars>>

(* remove_file on a segment that was read; the directory is not synced.    *)
Commit(w) ==
    /\ pc = "idle"
    /\ w \in files
    /\ ReadsAsText(file[w])
    /\ files' = files \ {w}
    /\ file' = [file EXCEPT ![w] = <<>>]
    /\ synced' = [synced EXCEPT ![w] = 0]
    /\ listed' = listed \ {w}
    /\ removed' = [removed EXCEPT ![w] =
                      IF w \in listed THEN SubSeq(file[w], 1, synced[w]) ELSE @]
    /\ acked' = [acked EXCEPT ![w] = {}]
    /\ exposed' = exposed \ {w}
    /\ cut' = cut \ {w}
    /\ UNCHANGED <<rootListed, callVars, initialized, boundVars>>

-----------------------------------------------------------------------------
(* The process is killed: files stay as they are.                          *)
Kill ==
    /\ kills < MaxKills
    /\ kills' = kills + 1
    /\ initialized' = FALSE
    /\ Return
    /\ IF pc = "write"
       THEN \E c \in Stopped : file' = [file EXCEPT ![win] = c]
       ELSE UNCHANGED file
    /\ Cuts
    /\ UNCHANGED <<files, synced, listed, rootListed, removed, acked, exposed, used,
                   outages>>

(* What the disk may have of window w after a power failure.               *)
Survivors(w) ==
    (IF w \in files
     THEN UNION {Cut(SubSeq(file[w], 1, n), SubSeq(file[w], n + 1, Len(file[w]))) :
                   n \in synced[w]..Len(file[w])}
     ELSE {})
    \cup (IF removed[w] # <<>> /\ w \notin listed THEN {removed[w]} ELSE {})
    \cup (IF w \notin listed THEN {None} ELSE {})

(* Everything that was not synced may be gone.                             *)
Outage ==
    /\ outages < MaxOutages
    /\ outages' = outages + 1
    /\ initialized' = FALSE
    /\ Return
    /\ \E f \in {g \in [Windows -> (UNION {Survivors(w) : w \in Windows}) \cup {None}] :
                    \/ \A w \in Windows : g[w] \in Survivors(w)
                    \/ ~rootListed /\ \A w \in Windows : g[w] = None} :
        /\ files' = {w \in Windows : f[w] # None}
        /\ file' = [w \in Windows |-> IF f[w] = None THEN <<>> ELSE f[w]]
        /\ synced' = [w \in Windows |-> Len(file'[w])]
        /\ listed' = files'
        /\ rootListed' = (rootListed \/ files' # {})
    /\ removed' = [w \in Windows |-> <<>>]
    /\ Cuts
    /\ UNCHANGED <<acked, exposed, used, kills>>

JsonlNext ==
    \/ \E w \in Windows, batch \in Batches : CallAppend(w, batch)
    \/ EnsureDir
    \/ Open
    \/ CloseTail
    \/ Write
    \/ Sync
    \/ SyncDir
    \/ AppendFails
    \/ Oldest
    \/ \E w \in Windows : Commit(w)
    \/ Kill
    \/ Outage

JsonlSpec == JsonlInit /\ [][JsonlNext]_jsonlVars

-----------------------------------------------------------------------------
(* The files are a store in the sense of module Store, but for a power     *)
(* failure: an append that stops leaves all, some or none of its batch on  *)
(* lines of their own, and if records are not ASCII it may leave a segment *)
(* nobody can read; what was read back before is lost in no other way, and *)
(* only commit removes records.                                            *)
Backend == INSTANCE Store WITH
    Durable <- TRUE,
    StoreErrors <- IoErrors,
    TornBytes <- ~Ascii,
    segs <- files,
    held <- [w \in Windows |-> Parsed(file[w])],
    broken <- {w \in files : ~ReadsAsText(file[w])}

OutageStep == outages' = outages + 1

ImplementsStore ==
    Backend!StoreInit /\ [][OutageStep \/ Backend!StoreNext]_(Backend!storeVars)

(* What an append has returned Ok for is read back until the segment is    *)
(* committed: through kills, failed appends and power failures, whatever   *)
(* was torn before or behind it.  Its records stay on lines of their own,  *)
(* and read_to_string takes the file (jsonl.rs:254), unless a write to     *)
(* this very segment was cut short and records are not ASCII.  (Left out:  *)
(* the segments whose directory entry was not on disk at the Ok.)          *)
AckedIsReadBack ==
    \A w \in Windows \ exposed :
        /\ acked[w] \subseteq Parsed(file[w])
        /\ Ascii \/ w \notin cut => ReadsAsText(file[w])

(* The same of every segment: a durable store must not "return until the   *)
(* records would survive a crash" (store.rs:35-37).                        *)
AckedIsDurable == \A w \in Windows : acked[w] \subseteq Parsed(file[w])
=============================================================================
