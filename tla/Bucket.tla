------------------------------- MODULE Bucket -------------------------------
(***************************************************************************)
(* Terminal sinks that write windows to one Hugging Face storage bucket    *)
(* (src/src/sink/hf_bucket.rs). A write is two legs: the bytes go to the   *)
(* content store (CAS) through a Xet commit, and then one addFile line     *)
(* registers a path that refers to them by hash. Either leg may fail, and  *)
(* a registration may be carried out after its sink has given up on it.    *)
(*                                                                         *)
(*   idle         no ingest in progress                                    *)
(*   uploading    new_upload_commit .. finalize_ingestion                  *)
(*   committing   commit.commit                                            *)
(*   registering  the POST of the addFile line                             *)
(*   backoff      sleeping before the next attempt                         *)
(***************************************************************************)
EXTENDS Integers, FiniteSets

CONSTANTS
    Sinks,     \* the HfBucketSinks of one process
    Windows,   \* [pipeline, start, end, content]: encoded windows
    Attempts,  \* WRITE_ATTEMPTS
    MaxCrashes, \* bound: crashes of the process
    None

(* object_path: the same window with the same content has the same path.   *)
Path(w) == <<w.pipeline, w.start, w.content>>

Statuses == {"2xx", "4xx", "429", "5xx"}

(* A window is replayed with the end it had: the length of the windows is  *)
(* not reconfigured while one of them is being written.                    *)
ASSUME BucketAssumption ==
    /\ None \notin Windows
    /\ None \notin Statuses
    /\ Attempts \in Nat \ {0}
    /\ MaxCrashes \in Nat
    /\ \A w \in Windows : w.end \in Int
    /\ \A v, w \in Windows : Path(v) = Path(w) => v = w

VARIABLES
    pc,        \* sink -> where its ingest is
    window,    \* sink -> the window it writes, or wrote last
    attempt,   \* sink -> the attempt under way
    result,    \* sink -> what its last ingest returned
    answer,    \* sink -> the status the server gave the POST under way
    orphans,   \* lines nobody waits for that the server may still apply
    cas,       \* contents that are committed
    entries,   \* lines the bucket has applied, one per path
    exists,    \* the bucket exists
    crashes

sinkVars == <<pc, window, attempt, result>>
serverVars == <<answer, orphans, cas, entries>>
bucketVars == <<sinkVars, serverVars, exists, crashes>>

-----------------------------------------------------------------------------
(* mtime_ms: from the window, not from the clock.                          *)
Mtime(w) == w.end * 1000

(* A mutant of Line: the time of the attempt.                              *)
LineNow(s) ==
    [path |-> Path(window[s]), hash |-> window[s].content, mtime |-> attempt[s]]

(* The addFile line of a write. The Xet hash stands for the content.       *)
Line(s) ==
    [path |-> Path(window[s]), hash |-> window[s].content,
     mtime |-> Mtime(window[s])]

Lines ==
    [path : {Path(w) : w \in Windows}, hash : {w.content : w \in Windows},
     mtime : Int]

(* How an attempt fails; a POST that was answered fails with its status.   *)
Errors == {"Xet", "Authentication", "Transport"} \cup (Statuses \ {"2xx"})

Transient == {"Xet", "Transport", "429", "5xx"}

BucketTypeOK ==
    /\ pc \in [Sinks -> {"idle", "uploading", "committing", "registering", "backoff"}]
    /\ window \in [Sinks -> Windows \cup {None}]
    /\ attempt \in [Sinks -> 1..Attempts]
    /\ result \in [Sinks -> {"none", "ok", "err"}]
    /\ answer \in [Sinks -> Statuses \cup {None}]
    /\ orphans \in SUBSET Lines
    /\ cas \in SUBSET {w.content : w \in Windows}
    /\ entries \in SUBSET Lines
    /\ \A e1, e2 \in entries : e1.path = e2.path => e1 = e2
    /\ exists \in BOOLEAN
    /\ crashes \in 0..MaxCrashes
    /\ \A s \in Sinks : pc[s] # "idle" => window[s] # None

BucketInit ==
    /\ pc = [s \in Sinks |-> "idle"]
    /\ window = [s \in Sinks |-> None]
    /\ attempt = [s \in Sinks |-> 1]
    /\ result = [s \in Sinks |-> "none"]
    /\ answer = [s \in Sinks |-> None]
    /\ orphans = {}
    /\ cas = {}
    /\ entries = {}
    /\ exists \in BOOLEAN
    /\ crashes = 0

-----------------------------------------------------------------------------
(* The operator's CreateBucketAction takes effect, whatever he is told: a  *)
(* later one is refused with a 409.                                        *)
CreateBucket ==
    /\ ~exists
    /\ exists' = TRUE
    /\ UNCHANGED <<sinkVars, serverVars, crashes>>

-----------------------------------------------------------------------------
(* ingest.                                                                 *)

Goes(s, to) ==
    /\ pc' = [pc EXCEPT ![s] = to]
    /\ UNCHANGED <<window, attempt, result>>

(* A window is encoded and written. (An empty one would return Ok at once; *)
(* a tier does not offer any.)                                             *)
CallIngest(s, w) ==
    /\ pc[s] = "idle"
    /\ pc' = [pc EXCEPT ![s] = "uploading"]
    /\ window' = [window EXCEPT ![s] = w]
    /\ attempt' = [attempt EXCEPT ![s] = 1]
    /\ result' = [result EXCEPT ![s] = "none"]
    /\ UNCHANGED <<serverVars, exists, crashes>>

(* The encoder fails: nothing is uploaded.                                 *)
EncodeFails(s) ==
    /\ pc[s] = "idle"
    /\ result' = [result EXCEPT ![s] = "err"]
    /\ UNCHANGED <<pc, window, attempt, serverVars, exists, crashes>>

(* A mutant of Upload: the line is posted without the Xet commit.          *)
UploadUncommitted(s) ==
    /\ pc[s] = "uploading"
    /\ exists
    /\ Goes(s, "registering")
    /\ UNCHANGED <<serverVars, exists, crashes>>

(* The bytes are uploaded and hashed. The token for it is the bucket's.    *)
Upload(s) ==
    /\ pc[s] = "uploading"
    /\ exists
    /\ Goes(s, "committing")
    /\ UNCHANGED <<serverVars, exists, crashes>>

CommitContent(s) ==
    /\ pc[s] = "committing"
    /\ cas' = cas \cup {window[s].content}
    /\ Goes(s, "registering")
    /\ UNCHANGED <<answer, orphans, entries, exists, crashes>>

(* The server applies a line: the path refers to it from now on.           *)
Apply(line) == entries' = {e \in entries : e.path # line.path} \cup {line}

(* The server answers the POST; it does not look up the hash.              *)
Serve(s, status) ==
    /\ pc[s] = "registering"
    /\ answer[s] = None
    /\ answer' = [answer EXCEPT ![s] = status]
    /\ \/ status = "2xx" /\ exists /\ Apply(Line(s))
       \/ status # "2xx" /\ UNCHANGED entries
    /\ UNCHANGED <<sinkVars, orphans, cas, exists, crashes>>

(* A line whose sender is gone is applied after all, or dropped.           *)
ServeOrphan(line) ==
    /\ line \in orphans
    /\ orphans' = orphans \ {line}
    /\ Apply(line) \/ UNCHANGED entries
    /\ UNCHANGED <<sinkVars, answer, cas, exists, crashes>>

Registered(s) ==
    /\ pc[s] = "registering"
    /\ answer[s] = "2xx"
    /\ pc' = [pc EXCEPT ![s] = "idle"]
    /\ result' = [result EXCEPT ![s] = "ok"]
    /\ answer' = [answer EXCEPT ![s] = None]
    /\ UNCHANGED <<window, attempt, orphans, cas, entries, exists, crashes>>

-----------------------------------------------------------------------------
(* An attempt fails.                                                       *)

(* In the first leg: the commit may have taken effect all the same.        *)
XetFails(s, error) ==
    /\ error \in {"Xet", "Authentication"}
    /\ \/ pc[s] = "uploading" /\ UNCHANGED cas
       \/ pc[s] = "committing" /\ cas' \in {cas, cas \cup {window[s].content}}
    /\ UNCHANGED <<answer, orphans>>

(* In the second: an answer that is not a success, or no answer. Without   *)
(* one the server may have the line still before it.                       *)
PostFails(s, error) ==
    /\ pc[s] = "registering"
    /\ answer' = [answer EXCEPT ![s] = None]
    /\ \/ /\ error = answer[s]
          /\ error # "2xx"
          /\ UNCHANGED orphans
       \/ /\ error = "Transport"
          /\ \/ UNCHANGED orphans
             \/ answer[s] = None /\ exists /\ orphans' = orphans \cup {Line(s)}
    /\ UNCHANGED cas

Fails(s, error) == XetFails(s, error) \/ PostFails(s, error)

(* A mutant of Retries: one attempt too many.                              *)
RetriesOnceMore(s) ==
    /\ attempt[s] <= Attempts
    /\ \E error \in Transient : Fails(s, error)
    /\ Goes(s, "backoff")
    /\ UNCHANGED <<entries, exists, crashes>>

(* A transient error with attempts left: back off.                         *)
Retries(s) ==
    /\ attempt[s] < Attempts
    /\ \E error \in Transient : Fails(s, error)
    /\ Goes(s, "backoff")
    /\ UNCHANGED <<entries, exists, crashes>>

(* A mutant of GivesUp: the last transient error is swallowed.             *)
GivesUpSilently(s) ==
    /\ \E error \in Errors :
        /\ Fails(s, error)
        /\ error \in Transient => attempt[s] = Attempts
        /\ result' = [result EXCEPT ![s] = IF error \in Transient THEN "ok" ELSE "err"]
    /\ pc' = [pc EXCEPT ![s] = "idle"]
    /\ UNCHANGED <<window, attempt, entries, exists, crashes>>

(* Any other error, or the last attempt: ingest returns it.                *)
GivesUp(s) ==
    /\ \E error \in Errors :
        /\ Fails(s, error)
        /\ error \in Transient => attempt[s] = Attempts
    /\ pc' = [pc EXCEPT ![s] = "idle"]
    /\ result' = [result EXCEPT ![s] = "err"]
    /\ UNCHANGED <<window, attempt, entries, exists, crashes>>

(* A mutant of BackoffOver: the attempts are not counted.                  *)
BackoffUncounted(s) ==
    /\ pc[s] = "backoff"
    /\ Goes(s, "uploading")
    /\ UNCHANGED <<serverVars, exists, crashes>>

(* The next attempt does both legs again.                                  *)
BackoffOver(s) ==
    /\ pc[s] = "backoff"
    /\ pc' = [pc EXCEPT ![s] = "uploading"]
    /\ attempt' = [attempt EXCEPT ![s] = @ + 1]
    /\ UNCHANGED <<window, result, serverVars, exists, crashes>>

(* The process dies. What was under way at the server may go on.           *)
Crash ==
    /\ crashes < MaxCrashes
    /\ crashes' = crashes + 1
    /\ pc' = [s \in Sinks |-> "idle"]
    /\ window' = [s \in Sinks |-> None]
    /\ attempt' = [s \in Sinks |-> 1]
    /\ result' = [s \in Sinks |-> "none"]
    /\ answer' = [s \in Sinks |-> None]
    /\ orphans' \in
        {orphans \cup O : O \in SUBSET
            {Line(s) : s \in {t \in Sinks : pc[t] = "registering" /\ answer[t] = None /\ exists}}}
    /\ cas' \in
        {cas \cup C : C \in SUBSET
            {window[s].content : s \in {t \in Sinks : pc[t] = "committing"}}}
    /\ UNCHANGED <<entries, exists>>

-----------------------------------------------------------------------------
(* The steps of an ingest in progress.                                     *)
Advances(s) ==
    \/ Upload(s)
    \/ CommitContent(s)
    \/ Registered(s)
    \/ Retries(s)
    \/ GivesUp(s)

BucketNext ==
    \/ CreateBucket
    \/ \E s \in Sinks :
        \/ \E w \in Windows : CallIngest(s, w)
        \/ EncodeFails(s)
        \/ \E status \in Statuses : Serve(s, status)
        \/ Advances(s)
        \/ BackoffOver(s)
    \/ \E line \in orphans : ServeOrphan(line)
    \/ Crash

BucketSpec == BucketInit /\ [][BucketNext]_bucketVars

(* The HTTP client has a timeout, a Xet session ends what it began or      *)
(* fails, and a sleep ends. The server owes nothing.                       *)
BucketFairness ==
    \A s \in Sinks : WF_bucketVars(Advances(s)) /\ WF_bucketVars(BackoffOver(s))

FairBucketSpec == BucketSpec /\ BucketFairness

-----------------------------------------------------------------------------
(* A path never refers to bytes that are not there, whatever was retried,  *)
(* cut off or applied late: the line goes out only after the Xet commit    *)
(* ("only once the bytes are committed to CAS", hf_bucket.rs:67-68).        *)
EntriesHaveContent == \A e \in entries : e.hash \in cas

(* Replays register the same line: however often a window is written, and  *)
(* however late an abandoned line is applied, an entry never changes       *)
(* ("replayed windows register byte-identical payloads",                   *)
(* hf_bucket.rs:296-297).                                                  *)
EntriesNeverChange == [][entries \subseteq entries']_bucketVars

(* What can be read at the path of a window is its content.                *)
Readable(w) == \E e \in entries : e.path = Path(w) /\ e.hash = w.content /\ e.hash \in cas

(* The sinks keep what the tier above relies on (module Terminal): an Ok   *)
(* means that the window can be read in the bucket.                        *)
Promise == INSTANCE Terminal WITH
    Files <- Windows,
    call <- [s \in Sinks |-> IF pc[s] = "idle" THEN None ELSE window[s]],
    pending <- {w \in Windows :
                    \/ \E s \in Sinks : pc[s] # "idle" /\ window[s] = w
                    \/ \E line \in orphans : line.path = Path(w)},
    stored <- {w \in Windows : Readable(w)}

KeepsTerminalPromise == Promise!TerminalSpec

(* Every ingest returns: the attempts are counted.                         *)
EveryWriteReturns ==
    \A s \in Sinks : pc[s] # "idle" ~> pc[s] = "idle"
=============================================================================
