---------------------------- MODULE BucketProofs ----------------------------
(***************************************************************************)
(* What Bucket guarantees for every number of sinks, windows and attempts. *)
(***************************************************************************)
EXTENDS Bucket, TLAPS

(* The line that registers window w.                                       *)
LineOf(w) == [path |-> Path(w), hash |-> w.content, mtime |-> Mtime(w)]

(* Only lines of windows are registered or still under way, their content  *)
(* is committed, and one that was answered with a success is registered. A *)
(* sink that backs off has an attempt left.                                *)
LinesInv ==
    /\ \A line \in entries \cup orphans :
        /\ \E w \in Windows : line = LineOf(w)
        /\ line.hash \in cas
    /\ \A s \in Sinks :
        /\ pc[s] = "registering" => window[s].content \in cas
        /\ pc[s] # "registering" => answer[s] = None
        /\ answer[s] = "2xx" => LineOf(window[s]) \in entries
        /\ pc[s] = "backoff" => attempt[s] < Attempts

Inv == BucketTypeOK /\ LinesInv

(* The line of a window is a line, and it names no other window.           *)
LEMMA LinesOfWindows ==
    ASSUME NEW v \in Windows, NEW w \in Windows
    PROVE  /\ LineOf(w) \in Lines
           /\ LineOf(w).path = Path(w) /\ LineOf(w).hash = w.content
           /\ LineOf(v).path = LineOf(w).path => v = w
BY BucketAssumption DEF BucketAssumption, LineOf, Lines, Mtime

(* A sink that is at work writes a window.                                 *)
LEMMA WindowAtWork ==
    ASSUME Inv, NEW s \in Sinks, pc[s] # "idle"
    PROVE  /\ window[s] \in Windows /\ window[s] # None
           /\ Line(s) = LineOf(window[s])
BY BucketAssumption DEF BucketAssumption, Inv, BucketTypeOK, Line, LineOf

(* It holds initially.                                                     *)
LEMMA InitInv == BucketInit => Inv
BY BucketAssumption
   DEF BucketAssumption, Statuses, BucketInit, Inv, BucketTypeOK, LinesInv

-----------------------------------------------------------------------------
(* Applying a line of a window, of which the content is committed.         *)
LEMMA ApplyKeepsEntries ==
    ASSUME Inv, NEW w \in Windows, Apply(LineOf(w))
    PROVE  /\ entries' = entries \cup {LineOf(w)}
           /\ entries' \in SUBSET Lines
           /\ \A e1, e2 \in entries' : e1.path = e2.path => e1 = e2
<1>1. ASSUME NEW e \in entries, e.path = LineOf(w).path  PROVE e = LineOf(w)
  <2>1. PICK v \in Windows : e = LineOf(v)
    BY DEF Inv, LinesInv
  <2>. QED  BY <1>1, <2>1, LinesOfWindows
<1>2. entries' = entries \cup {LineOf(w)}
  BY <1>1 DEF Apply
<1>3. entries' \in SUBSET Lines
  BY <1>2, LinesOfWindows DEF Inv, BucketTypeOK
<1>4. \A e1, e2 \in entries' : e1.path = e2.path => e1 = e2
  BY <1>1, <1>2 DEF Inv, BucketTypeOK
<1>. QED  BY <1>2, <1>3, <1>4

(* Starting an ingest, and the steps of one that leave the server alone.   *)
LEMMA SinkKeepsInv ==
    ASSUME Inv, NEW s \in Sinks,
           \/ \E w \in Windows : CallIngest(s, w)
           \/ EncodeFails(s) \/ Upload(s) \/ Registered(s) \/ BackoffOver(s)
           \/ CreateBucket
    PROVE  Inv'
<1>. USE DEF Inv, serverVars, sinkVars
<1>1. CASE \E w \in Windows : CallIngest(s, w)
  <2>1. BucketTypeOK'
    BY <1>1, BucketAssumption DEF BucketAssumption, BucketTypeOK, CallIngest
  <2>2. LinesInv'
    BY <1>1, BucketAssumption
       DEF BucketAssumption, Statuses, LinesInv, CallIngest, BucketTypeOK
  <2>. QED  BY <2>1, <2>2
<1>2. CASE EncodeFails(s) \/ CreateBucket
  BY <1>2 DEF EncodeFails, CreateBucket, BucketTypeOK, LinesInv
<1>3. CASE Upload(s)
  BY <1>3 DEF Upload, Goes, BucketTypeOK, LinesInv
<1>4. CASE Registered(s)
  <2>1. BucketTypeOK'
    BY <1>4 DEF BucketTypeOK, Registered
  <2>2. LinesInv'
    BY <1>4, BucketAssumption
       DEF BucketAssumption, Statuses, LinesInv, Registered, BucketTypeOK
  <2>. QED  BY <2>1, <2>2
<1>5. CASE BackoffOver(s)
  <2>1. attempt[s] + 1 \in 1..Attempts
    BY <1>5, BucketAssumption
       DEF BucketAssumption, BucketTypeOK, LinesInv, BackoffOver
  <2>. QED  BY <1>5, <2>1 DEF BackoffOver, BucketTypeOK, LinesInv
<1>. QED  BY <1>1, <1>2, <1>3, <1>4, <1>5

(* The Xet commit adds the content that the line will name.                *)
LEMMA CommitKeepsInv ==
    ASSUME Inv, NEW s \in Sinks, CommitContent(s)
    PROVE  Inv'
<1>1. window[s] \in Windows
  BY WindowAtWork DEF CommitContent
<1>. QED
  BY <1>1 DEF Inv, BucketTypeOK, LinesInv, CommitContent, Goes

(* An answer: a success says that the line has been applied.               *)
LEMMA ServeKeepsInv ==
    ASSUME Inv, NEW s \in Sinks, NEW status \in Statuses, Serve(s, status)
    PROVE  Inv'
<1>. USE DEF Inv, Serve, sinkVars
<1>1. /\ window[s] \in Windows /\ Line(s) = LineOf(window[s])
      /\ window[s].content \in cas
  BY WindowAtWork DEF LinesInv
<1>2. CASE status = "2xx" /\ Apply(Line(s))
  <2>1. entries' = entries \cup {LineOf(window[s])}
    BY <1>1, <1>2, ApplyKeepsEntries
  <2>2. BucketTypeOK'
    BY <1>1, <1>2, ApplyKeepsEntries DEF BucketTypeOK
  <2>3. LinesInv'
    BY <1>1, <1>2, <2>1, LinesOfWindows DEF LinesInv, BucketTypeOK
  <2>. QED  BY <2>2, <2>3
<1>3. CASE status # "2xx" /\ UNCHANGED entries
  BY <1>3 DEF BucketTypeOK, LinesInv
<1>. QED  BY <1>2, <1>3

(* A line that nobody waits for is applied or dropped.                     *)
LEMMA OrphanKeepsInv ==
    ASSUME Inv, NEW line \in orphans, ServeOrphan(line)
    PROVE  Inv'
<1>. USE DEF Inv, ServeOrphan, sinkVars
<1>1. PICK w \in Windows : line = LineOf(w)
  BY DEF LinesInv
<1>2. CASE Apply(line)
  <2>1. entries' = entries \cup {LineOf(w)}
    BY <1>1, <1>2, ApplyKeepsEntries
  <2>2. BucketTypeOK'
    BY <1>1, <1>2, ApplyKeepsEntries DEF BucketTypeOK
  <2>3. LinesInv'
    BY <1>1, <2>1 DEF LinesInv
  <2>. QED  BY <2>2, <2>3
<1>3. CASE UNCHANGED entries
  BY <1>3 DEF BucketTypeOK, LinesInv
<1>. QED  BY <1>2, <1>3

(* An attempt that fails may leave content or a line behind.               *)
LEMMA FailureLeaves ==
    ASSUME Inv, NEW s \in Sinks, NEW error, Fails(s, error)
    PROVE  /\ pc[s] \in {"uploading", "committing", "registering"}
           /\ cas \subseteq cas' /\ cas' \subseteq cas \cup {window[s].content}
           /\ orphans \subseteq orphans'
           /\ orphans' \subseteq orphans \cup {LineOf(window[s])}
           /\ orphans' # orphans => pc[s] = "registering"
           /\ answer' = [answer EXCEPT ![s] = None]
<1>1. answer \in [Sinks -> Statuses \cup {None}]
  BY DEF Inv, BucketTypeOK
<1>2. pc[s] # "registering" => answer[s] = None
  BY DEF Inv, LinesInv
<1>3. CASE XetFails(s, error)
  BY <1>1, <1>2, <1>3 DEF XetFails
<1>4. CASE PostFails(s, error)
  <2>1. Line(s) = LineOf(window[s])
    BY <1>4, WindowAtWork DEF PostFails
  <2>. QED  BY <1>4, <2>1 DEF PostFails
<1>. QED  BY <1>3, <1>4 DEF Fails

(* Both ways on from there keep the invariant.                             *)
LEMMA FailureKeepsInv ==
    ASSUME Inv, NEW s \in Sinks, Retries(s) \/ GivesUp(s)
    PROVE  Inv'
<1>. USE DEF Inv
<1>1. PICK error : Fails(s, error)
  BY DEF Retries, GivesUp
<1>2. /\ pc[s] \in {"uploading", "committing", "registering"}
      /\ cas \subseteq cas' /\ cas' \subseteq cas \cup {window[s].content}
      /\ orphans' \subseteq orphans \cup {LineOf(window[s])}
      /\ orphans' # orphans => pc[s] = "registering"
      /\ answer' = [answer EXCEPT ![s] = None]
  BY <1>1, FailureLeaves
<1>3. window[s] \in Windows
  BY <1>2, WindowAtWork
<1>4. UNCHANGED <<window, attempt, entries, exists, crashes>>
  BY DEF Retries, GivesUp, Goes
<1>5. /\ \/ pc' = [pc EXCEPT ![s] = "backoff"] /\ attempt[s] < Attempts
         \/ pc' = [pc EXCEPT ![s] = "idle"]
      /\ result' \in [Sinks -> {"none", "ok", "err"}]
  BY DEF Retries, GivesUp, Goes, BucketTypeOK
<1>6. BucketTypeOK'
  <2>1. orphans' \in SUBSET Lines /\ cas' \in SUBSET {w.content : w \in Windows}
    BY <1>2, <1>3, LinesOfWindows DEF BucketTypeOK
  <2>. QED  BY <1>2, <1>4, <1>5, <2>1 DEF BucketTypeOK
<1>7. LinesInv'
  <2>1. ASSUME NEW line \in entries' \cup orphans'
        PROVE  (\E w \in Windows : line = LineOf(w)) /\ line.hash \in cas'
    <3>1. CASE line \in entries \cup orphans
      BY <1>2, <3>1 DEF LinesInv
    <3>2. CASE line \notin entries \cup orphans
      <4>1. line = LineOf(window[s]) /\ pc[s] = "registering"
        BY <1>2, <1>4, <3>2
      <4>. QED  BY <1>2, <1>3, <4>1, LinesOfWindows DEF LinesInv
    <3>. QED  BY <3>1, <3>2
  <2>2. ASSUME NEW t \in Sinks
        PROVE  /\ pc'[t] = "registering" => window'[t].content \in cas'
               /\ pc'[t] # "registering" => answer'[t] = None
               /\ answer'[t] = "2xx" => LineOf(window'[t]) \in entries'
               /\ pc'[t] = "backoff" => attempt'[t] < Attempts
    <3>1. CASE t = s
      BY <1>2, <1>4, <1>5, <3>1, BucketAssumption
         DEF BucketAssumption, Statuses, BucketTypeOK
    <3>2. CASE t # s
      BY <1>2, <1>4, <1>5, <3>2 DEF LinesInv, BucketTypeOK
    <3>. QED  BY <3>1, <3>2
  <2>. QED  BY <2>1, <2>2 DEF LinesInv
<1>. QED  BY <1>6, <1>7

(* The process dies: lines under way may become orphans.                   *)
LEMMA CrashKeepsInv == Inv /\ Crash => Inv'
<1>. SUFFICES ASSUME Inv, Crash  PROVE Inv'
  OBVIOUS
<1>. USE DEF Inv, Crash
<1>1. PICK O \in SUBSET {Line(s) : s \in {t \in Sinks : pc[t] = "registering"}} :
        orphans' = orphans \cup O
  <2>1. PICK O \in SUBSET {Line(s) : s \in {t \in Sinks : pc[t] = "registering" /\ answer[t] = None /\ exists}} :
          orphans' = orphans \cup O
    OBVIOUS
  <2>. QED  BY <2>1
<1>2. PICK C \in SUBSET {window[s].content : s \in {t \in Sinks : pc[t] = "committing"}} :
        cas' = cas \cup C
  OBVIOUS
<1>3. \A line \in O : \E s \in Sinks : /\ pc[s] = "registering"
                                     /\ line = LineOf(window[s])
                                     /\ window[s] \in Windows
  BY <1>1, WindowAtWork
<1>4. \A c \in C : \E w \in Windows : c = w.content
  BY <1>2, WindowAtWork
<1>5. BucketTypeOK'
  <2>1. orphans' \in SUBSET Lines /\ cas' \in SUBSET {w.content : w \in Windows}
    BY <1>1, <1>2, <1>3, <1>4, LinesOfWindows DEF BucketTypeOK
  <2>2. 1 \in 1..Attempts /\ crashes' \in 0..MaxCrashes
    BY BucketAssumption DEF BucketAssumption, BucketTypeOK
  <2>. QED  BY <2>1, <2>2 DEF BucketTypeOK
<1>6. LinesInv'
  <2>1. ASSUME NEW line \in entries' \cup orphans'
        PROVE  (\E w \in Windows : line = LineOf(w)) /\ line.hash \in cas'
    BY <1>1, <1>2, <1>3, LinesOfWindows DEF LinesInv
  <2>. QED
    BY <2>1, BucketAssumption DEF BucketAssumption, Statuses, LinesInv
<1>. QED  BY <1>5, <1>6

-----------------------------------------------------------------------------
(* Lines under way and entries are lines of windows with committed content.*)
THEOREM BucketInv == BucketSpec => []Inv
<1>1. Inv /\ [BucketNext]_bucketVars => Inv'
  <2>. SUFFICES ASSUME Inv, [BucketNext]_bucketVars  PROVE Inv'
    OBVIOUS
  <2>1. CASE CreateBucket
    BY <2>1 DEF CreateBucket, Inv, BucketTypeOK, LinesInv, sinkVars, serverVars
  <2>2. ASSUME NEW s \in Sinks,
               \/ \E w \in Windows : CallIngest(s, w)
               \/ EncodeFails(s) \/ Upload(s) \/ Registered(s) \/ BackoffOver(s)
        PROVE  Inv'
    BY <2>2, SinkKeepsInv
  <2>3. ASSUME NEW s \in Sinks, CommitContent(s)  PROVE Inv'
    BY <2>3, CommitKeepsInv
  <2>4. ASSUME NEW s \in Sinks, NEW status \in Statuses, Serve(s, status)
        PROVE  Inv'
    BY <2>4, ServeKeepsInv
  <2>5. ASSUME NEW line \in orphans, ServeOrphan(line)  PROVE Inv'
    BY <2>5, OrphanKeepsInv
  <2>6. ASSUME NEW s \in Sinks, Retries(s) \/ GivesUp(s)  PROVE Inv'
    BY <2>6, FailureKeepsInv
  <2>7. CASE Crash
    BY <2>7, CrashKeepsInv
  <2>8. CASE UNCHANGED bucketVars
    BY <2>8
       DEF Inv, BucketTypeOK, LinesInv, bucketVars, sinkVars, serverVars
  <2>. QED
    BY <2>1, <2>2, <2>3, <2>4, <2>5, <2>6, <2>7, <2>8
       DEF BucketNext, Advances
<1>. QED  BY InitInv, <1>1, PTL DEF BucketSpec

(* Every variable keeps its type; there is one entry per path.             *)
COROLLARY BucketTypeCorrect == BucketSpec => []BucketTypeOK
BY BucketInv, PTL DEF Inv

(* No path ever refers to bytes that are not in the content store.         *)
THEOREM EntriesSound == BucketSpec => []EntriesHaveContent
<1>1. Inv => EntriesHaveContent
  BY DEF Inv, LinesInv, EntriesHaveContent
<1>. QED  BY <1>1, BucketInv, PTL

(* An entry never changes: every line for its path is the same one.        *)
THEOREM EntriesStay == BucketSpec => EntriesNeverChange
<1>1. Inv /\ [BucketNext]_bucketVars => [entries \subseteq entries']_bucketVars
  <2>. SUFFICES ASSUME Inv, BucketNext  PROVE entries \subseteq entries'
    OBVIOUS
  <2>1. ASSUME NEW s \in Sinks, NEW status \in Statuses, Serve(s, status)
        PROVE  entries \subseteq entries'
    <3>1. window[s] \in Windows /\ Line(s) = LineOf(window[s])
      BY <2>1, WindowAtWork DEF Serve
    <3>. QED  BY <2>1, <3>1, ApplyKeepsEntries DEF Serve
  <2>2. ASSUME NEW line \in orphans, ServeOrphan(line)
        PROVE  entries \subseteq entries'
    <3>1. PICK w \in Windows : line = LineOf(w)
      BY DEF Inv, LinesInv
    <3>. QED  BY <2>2, <3>1, ApplyKeepsEntries DEF ServeOrphan
  <2>3. CASE UNCHANGED entries
    BY <2>3
  <2>. QED
    BY <2>1, <2>2, <2>3
       DEF BucketNext, CreateBucket, CallIngest, EncodeFails, Upload,
           CommitContent, Registered, Retries, GivesUp, BackoffOver, Advances,
           Crash, serverVars
<1>. QED  BY <1>1, BucketInv, PTL DEF BucketSpec, EntriesNeverChange

-----------------------------------------------------------------------------
(* Bucket implements Terminal.                                             *)

Calling == [s \in Sinks |-> IF pc[s] = "idle" THEN None ELSE window[s]]
Pending ==
    {w \in Windows : \/ \E s \in Sinks : pc[s] # "idle" /\ window[s] = w
                     \/ \E line \in orphans : line.path = Path(w)}
Stored == {w \in Windows : Readable(w)}

USE DEF Promise!terminalVars

(* A window can be read when its line is registered.                       *)
LEMMA ReadableLines ==
    ASSUME NEW E, NEW C, NEW w \in Windows,
           \A e \in E : (\E v \in Windows : e = LineOf(v)) /\ e.hash \in C
    PROVE  (\E e \in E : e.path = Path(w) /\ e.hash = w.content /\ e.hash \in C)
             <=> LineOf(w) \in E
<1>1. ASSUME NEW e \in E, e.path = Path(w)  PROVE e = LineOf(w)
  <2>1. PICK v \in Windows : e = LineOf(v)
    OBVIOUS
  <2>. QED  BY <1>1, <2>1, LinesOfWindows
<1>. QED  BY <1>1, LinesOfWindows

(* So what is stored depends on the entries alone.                         *)
LEMMA StoredAfter ==
    ASSUME Inv, Inv'
    PROVE  /\ UNCHANGED entries => Stored' = Stored
           /\ \A w \in Windows :
                entries' = entries \cup {LineOf(w)} => Stored' = Stored \cup {w}
<1>1. \A w \in Windows : Readable(w) <=> LineOf(w) \in entries
  BY ReadableLines DEF Inv, LinesInv, Readable
<1>2. \A w \in Windows : Readable(w)' <=> LineOf(w) \in entries'
  <2>1. \A e \in entries' : (\E v \in Windows : e = LineOf(v)) /\ e.hash \in cas'
    BY DEF Inv, LinesInv, LineOf, Mtime, Path
  <2>. QED  BY <2>1, ReadableLines DEF Readable, Path
<1>. QED  BY <1>1, <1>2, LinesOfWindows DEF Stored

(* What Terminal sees of the two.                                          *)
LEMMA Seen ==
    ASSUME Inv
    PROVE  /\ \A s \in Sinks : pc[s] = "idle" <=> Calling[s] = None
           /\ \A s \in Sinks : Calling[s] # None =>
                /\ Calling[s] = window[s] /\ window[s] \in Windows
                /\ Calling[s] \in Pending
           /\ \A w \in Windows : LineOf(w) \in orphans => w \in Pending
BY BucketAssumption, LinesOfWindows
   DEF BucketAssumption, Inv, BucketTypeOK, Calling, Pending

(* A step that leaves the calls alone, adds nothing to what is pending and *)
(* stores at most a pending window, is one of the destination.             *)
LEMMA SettleSteps ==
    ASSUME Inv, Inv', UNCHANGED <<pc, window, result>>, orphans' \subseteq orphans,
           NEW w \in Pending, Stored' \in {Stored, Stored \cup {w}}
    PROVE  Promise!Settle
<1>1. Pending' \in SUBSET Pending /\ Calling' = Calling
  BY DEF Pending, Calling, Path
<1>2. \A s \in Sinks : Calling[s] # None => Calling[s] \in Pending'
  BY Seen, <1>1 DEF Pending
<1>. QED  BY <1>1, <1>2 DEF Promise!Settle, Calling, Pending, Stored

(* The end of an ingest.                                                   *)
LEMMA ReturnSteps ==
    ASSUME Inv, Inv', NEW s \in Sinks, NEW r \in {"ok", "err"},
           pc[s] # "idle", pc' = [pc EXCEPT ![s] = "idle"],
           result' = [result EXCEPT ![s] = r],
           orphans' \subseteq orphans \cup {LineOf(window[s])},
           UNCHANGED <<window, entries>>,
           r = "ok" => LineOf(window[s]) \in entries
    PROVE  Promise!Return(s, r)
<1>1. /\ Calling[s] = window[s] /\ Calling[s] # None
      /\ window[s] \in Windows /\ window[s] \in Pending
  BY Seen
<1>2. Calling' = [Calling EXCEPT ![s] = None]
  BY DEF Calling, Inv, BucketTypeOK
<1>3. Pending' \in SUBSET Pending
  BY <1>1, LinesOfWindows DEF Pending, Path, Inv, BucketTypeOK
<1>4. Stored' = Stored
  BY StoredAfter
<1>5. r = "ok" => Calling[s] \in Stored
  BY <1>1, LinesOfWindows DEF Stored, Readable, Inv, LinesInv
<1>. QED
  BY <1>1, <1>2, <1>3, <1>4, <1>5
     DEF Promise!Return, Calling, Pending, Stored

(* A step within an ingest that registers nothing is not seen.             *)
LEMMA QuietSteps ==
    ASSUME Inv, Inv', UNCHANGED <<window, result, entries>>,
           NEW s \in Sinks, NEW to \in {"uploading", "committing", "registering", "backoff"},
           pc[s] # "idle", pc' = [pc EXCEPT ![s] = to],
           orphans \subseteq orphans', orphans' \subseteq orphans \cup {LineOf(window[s])}
    PROVE  UNCHANGED Promise!terminalVars
<1>1. window[s] \in Windows /\ window[s] \in Pending
  BY Seen
<1>2. Calling' = Calling
  BY DEF Calling, Inv, BucketTypeOK
<1>3. Pending' = Pending
  <2>1. \A t \in Sinks : pc'[t] # "idle" <=> pc[t] # "idle"
    BY DEF Inv, BucketTypeOK
  <2>2. \A w \in Windows : (\E line \in orphans : line.path = Path(w)) =>
                           \E line \in orphans' : line.path = Path(w)
    OBVIOUS
  <2>3. \A w \in Windows : (\E line \in orphans' : line.path = Path(w)) =>
                           (\E line \in orphans : line.path = Path(w)) \/ w = window[s]
    BY <1>1, LinesOfWindows
  <2>. QED  BY <2>1, <2>2, <2>3 DEF Pending, Path
<1>. QED  BY <1>2, <1>3, StoredAfter DEF Calling, Pending, Stored

(* Every step is a step of Terminal or changes nothing it sees.            *)
LEMMA StepKeepsPromise ==
    ASSUME Inv, Inv', [BucketNext]_bucketVars
    PROVE  [Promise!TerminalNext]_(Promise!terminalVars)
<1>. USE DEF serverVars, sinkVars
<1>0. /\ pc \in [Sinks -> {"idle", "uploading", "committing", "registering", "backoff"}]
      /\ window \in [Sinks -> Windows \cup {None}] /\ None \notin Windows
      /\ result \in [Sinks -> {"none", "ok", "err"}]
  BY BucketAssumption DEF BucketAssumption, Inv, BucketTypeOK
<1>1. ASSUME NEW s \in Sinks, NEW w \in Windows, CallIngest(s, w)
      PROVE  Promise!Offer(s, w)
  <2>1. Stored' = Stored
    BY <1>1, StoredAfter DEF CallIngest
  <2>2. Pending' = Pending \cup {w}
    BY <1>0, <1>1 DEF CallIngest, Pending, Path
  <2>3. Calling' = [Calling EXCEPT ![s] = w] /\ Calling[s] = None
    BY <1>0, <1>1 DEF CallIngest, Calling
  <2>. QED
    BY <1>1, <2>1, <2>2, <2>3
       DEF CallIngest, Promise!Offer, Calling, Pending, Stored
<1>2. ASSUME NEW s \in Sinks, EncodeFails(s)  PROVE Promise!Decline(s)
  <2>1. Stored' = Stored /\ Pending' = Pending /\ Calling' = Calling
    BY <1>2, StoredAfter DEF EncodeFails, Pending, Calling, Path
  <2>2. Calling[s] = None
    BY <1>2 DEF EncodeFails, Calling
  <2>. QED
    BY <1>2, <2>1, <2>2
       DEF EncodeFails, Promise!Decline, Calling, Pending, Stored
<1>3. ASSUME NEW s \in Sinks, NEW status \in Statuses, Serve(s, status)
      PROVE  Promise!Settle
  <2>1. /\ window[s] \in Windows /\ window[s] \in Pending
        /\ Line(s) = LineOf(window[s])
    BY <1>3, Seen, WindowAtWork DEF Serve
  <2>2. Stored' \in {Stored, Stored \cup {window[s]}}
    BY <1>3, <2>1, StoredAfter, ApplyKeepsEntries DEF Serve
  <2>. QED  BY <1>3, <2>1, <2>2, SettleSteps DEF Serve
<1>4. ASSUME NEW line \in orphans, ServeOrphan(line)  PROVE Promise!Settle
  <2>1. PICK w \in Windows : line = LineOf(w)
    BY DEF Inv, LinesInv
  <2>2. w \in Pending
    BY <2>1, Seen
  <2>3. Stored' \in {Stored, Stored \cup {w}}
    BY <1>4, <2>1, StoredAfter, ApplyKeepsEntries DEF ServeOrphan
  <2>. QED  BY <1>4, <2>2, <2>3, SettleSteps DEF ServeOrphan
<1>5. ASSUME NEW s \in Sinks, Registered(s)  PROVE Promise!Return(s, "ok")
  BY <1>5, ReturnSteps DEF Registered, Inv, LinesInv
<1>6. ASSUME NEW s \in Sinks, GivesUp(s)  PROVE Promise!Return(s, "err")
  <2>1. PICK error : Fails(s, error)
    BY <1>6 DEF GivesUp
  <2>. QED  BY <1>6, <2>1, FailureLeaves, ReturnSteps DEF GivesUp
<1>7. ASSUME NEW s \in Sinks, Retries(s)  PROVE UNCHANGED Promise!terminalVars
  <2>1. PICK error : Fails(s, error)
    BY <1>7 DEF Retries
  <2>. QED  BY <1>7, <2>1, FailureLeaves, QuietSteps DEF Retries, Goes
<1>8. ASSUME NEW s \in Sinks, Upload(s) \/ CommitContent(s) \/ BackoffOver(s)
      PROVE  UNCHANGED Promise!terminalVars
  BY <1>8, QuietSteps DEF Upload, CommitContent, BackoffOver, Goes
<1>9. CASE Crash
  <2>1. Stored' = Stored
    BY <1>9, StoredAfter DEF Crash
  <2>2. Calling' = [s \in Sinks |-> None] /\ result' = [s \in Sinks |-> "none"]
    BY <1>9 DEF Crash, Calling
  <2>3. Pending' \in SUBSET Pending
    <3>1. PICK O \in SUBSET {Line(s) : s \in {t \in Sinks : pc[t] = "registering" /\ answer[t] = None /\ exists}} :
            orphans' = orphans \cup O
      BY <1>9 DEF Crash
    <3>2. \A line \in O : \E s \in Sinks : /\ pc[s] = "registering"
                                          /\ line = LineOf(window[s])
                                          /\ window[s] \in Windows
      BY <3>1, WindowAtWork
    <3>3. \A s \in Sinks : pc'[s] = "idle"
      BY <1>9 DEF Crash
    <3>4. ASSUME NEW w \in Windows, NEW line \in O, line.path = Path(w)
          PROVE  w \in Pending
      <4>1. PICK s \in Sinks : /\ pc[s] = "registering"
                               /\ line = LineOf(window[s])
                               /\ window[s] \in Windows
        BY <3>2
      <4>2. w = window[s]
        BY <3>4, <4>1, LinesOfWindows
      <4>. QED  BY <4>1, <4>2 DEF Pending
    <3>. QED  BY <3>1, <3>3, <3>4 DEF Pending, Path
  <2>4. Promise!Abandon
    <3>. HIDE <1>9
    <3>. QED  BY <2>1, <2>2, <2>3 DEF Promise!Abandon, Calling, Pending, Stored
  <2>. QED  BY <2>4 DEF Promise!TerminalNext
<1>10. CASE CreateBucket \/ UNCHANGED bucketVars
  <2>1. UNCHANGED <<pc, window, result, orphans, entries>>
    BY <1>10 DEF CreateBucket, bucketVars
  <2>. QED
    BY <2>1, StoredAfter DEF Calling, Pending, Stored, Path
<1>. QED
  BY <1>1, <1>2, <1>3, <1>4, <1>5, <1>6, <1>7, <1>8, <1>9, <1>10
     DEF BucketNext, Advances, Promise!TerminalNext

(* An Ok means that the window can be read, nothing readable goes away,    *)
(* and only windows that were offered are ever stored.                     *)
THEOREM BucketKeepsPromise == BucketSpec => KeepsTerminalPromise
<1>1. BucketInit => Promise!TerminalInit
  BY DEF BucketInit, Promise!TerminalInit, Readable
<1>. QED
  BY <1>1, StepKeepsPromise, BucketInv, PTL
     DEF BucketSpec, KeepsTerminalPromise, Promise!TerminalSpec
=============================================================================
