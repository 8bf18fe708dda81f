-------------------------------- MODULE Poll --------------------------------
(***************************************************************************)
(* Pipeline::run over its spool (src/src/pipeline.rs): the calls a         *)
(* pipeline makes into the sink stack of module Spool, in the order it     *)
(* makes them, with the polls and the deduplication between them.          *)
(*                                                                         *)
(*   starting   the task has been spawned                                  *)
(*   startup    the advance that recovers closed windows                   *)
(*   waiting    select! between the token and the interval                 *)
(*   beat       the heartbeat at the head of a tick                        *)
(*   collect    the collector has been called                              *)
(*   ingest     the fresh records are being ingested                       *)
(*   settle     the call that the shutdown policy asks for                 *)
(*   stopped    run has returned                                           *)
(*                                                                         *)
(* The API may return a reading in any number of responses. What is handed *)
(* over is a copy of it, <<reading, n>> the n-th time, so that a record    *)
(* stays what module Spool takes it for: handed over once.                 *)
(***************************************************************************)
EXTENDS Spool

CONSTANTS
    Readings,   \* what the API may return: a key with a value
    KeyOf,      \* reading -> what key_fn makes of it
    Stations,
    StationOf,  \* reading -> the station it names
    Keyed,      \* with_key_fn was called
    Policies    \* the shutdown policies a pipeline is built with

ASSUME PollAssumption ==
    /\ Records \subseteq Readings \X (Nat \ {0})
    /\ StationOf \in [Readings -> Stations]
    /\ Keyed \in BOOLEAN
    /\ Policies \subseteq {"FlushAll", "PreserveActiveWindow"}

VARIABLES
    phase,      \* where run stands
    cancelled,  \* the CancellationToken has fired
    seenPrev,   \* seen_prev
    policy,     \* shutdown_policy
    steady,     \* history: keys handed over and in every response since
    refused,    \* history: records whose ingest returned an error
    cut         \* history: records whose ingest the process did not survive

lossVars == <<refused, cut>>
pollVars == <<phase, cancelled, seenPrev, policy, steady, lossVars>>
pipeVars == <<spoolVars, pollVars>>

Keys == {KeyOf[x] : x \in Readings}
KeysOf(X) == {KeyOf[x] : x \in X}
Handed(R) == {r[1] : r \in R}

Phases == {"starting", "startup", "waiting", "beat", "collect", "ingest",
           "settle", "stopped"}

(* The phases in which run awaits its sink.                                *)
Calling == {"startup", "beat", "ingest", "settle"}

PollTypeOK ==
    /\ SpoolTypeOK
    /\ phase \in Phases
    /\ cancelled \in BOOLEAN
    /\ seenPrev \in SUBSET Keys
    /\ policy \in Policies
    /\ steady \in SUBSET Keys
    /\ refused \in SUBSET Records
    /\ cut \in SUBSET Records

PollInit ==
    /\ SpoolInit
    /\ phase = "starting"
    /\ cancelled = FALSE
    /\ seenPrev = {}
    /\ policy \in Policies
    /\ steady = {}
    /\ refused = {}
    /\ cut = {}

-----------------------------------------------------------------------------
(* The loop.                                                               *)

Goes(to) ==
    /\ phase' = to
    /\ UNCHANGED <<cancelled, policy>>

Start ==
    /\ phase = "starting"
    /\ Heartbeat
    /\ Goes("startup")
    /\ UNCHANGED <<seenPrev, steady, lossVars>>

(* select! takes a ready branch at random, so a tick may come after the    *)
(* token has fired.                                                        *)
TickDue ==
    /\ phase = "waiting"
    /\ Heartbeat
    /\ Goes("beat")
    /\ UNCHANGED <<seenPrev, steady, lossVars>>

(* A mutant of Settle: every policy flushes.                               *)
SettleFlushes == Flush

(* The call the shutdown policy asks for.                                  *)
Settle ==
    \/ policy = "FlushAll" /\ Flush
    \/ policy = "PreserveActiveWindow" /\ Heartbeat

Break ==
    /\ phase = "waiting"
    /\ cancelled
    /\ Settle
    /\ Goes("settle")
    /\ UNCHANGED <<seenPrev, steady, lossVars>>

(* Where run goes when its call into the sink has returned. Errors are     *)
(* logged only.                                                            *)
After(p) ==
    CASE p = "beat" -> "collect"
      [] p = "settle" -> "stopped"
      [] OTHER -> "waiting"

Returned ==
    /\ phase \in Calling
    /\ pc = "done"
    /\ Step
    /\ Goes(After(phase))
    /\ refused' = IF failed THEN refused \cup arg ELSE refused
    /\ UNCHANGED <<seenPrev, steady, cut>>

-----------------------------------------------------------------------------
(* A poll.                                                                 *)

(* A response of the API: its status, the stations and the readings it     *)
(* lists.                                                                  *)
Responses == [ok : BOOLEAN, stations : SUBSET Stations,
              readings : SUBSET Readings]

(* What the collector makes of it: a reading of a station that is not      *)
(* listed is left out, and a response that is not an OK is an empty Ok.    *)
Flatten(response) ==
    IF response.ok
    THEN {x \in response.readings : StationOf[x] \in response.stations}
    ELSE {}

(* A mutant of Fresh: all readings of a repeated key are dropped.          *)
FreshOnlyUnique(X) ==
    {{x \in X : KeyOf[x] \notin seenPrev /\ \A y \in X : KeyOf[y] = KeyOf[x] => y = x}}

(* What dedupe may leave of the readings X: the first one of each key that *)
(* was not in the previous response. Which one is first is the API's       *)
(* choice.                                                                 *)
Fresh(X) ==
    IF Keyed
    THEN {F \in SUBSET X :
            /\ KeysOf(F) = KeysOf(X) \ seenPrev
            /\ \A x, y \in F : KeyOf[x] = KeyOf[y] => x = y}
    ELSE {X}

(* A mutant of Remember: only what was handed over is remembered.          *)
RememberFresh(X, F) == seenPrev' = IF Keyed THEN KeysOf(F) ELSE seenPrev

(* seen_prev becomes the keys of this response, whatever happens to the    *)
(* fresh ones.                                                             *)
Remember(X, F) == seenPrev' = IF Keyed THEN KeysOf(X) ELSE seenPrev

(* The next copies of the readings F. (Bound: Records holds so many copies *)
(* of a reading; a poll that would hand over more of them is left out.)    *)
Copies(F) ==
    {<<x, 1 + Cardinality({r \in used : r[1] = x})>> : x \in F}

(* An Ok response: its fresh readings F are ingested, if there are any.    *)
Collect(X, F) ==
    /\ phase = "collect"
    /\ F \in Fresh(X)
    /\ Remember(X, F)
    /\ steady' = (steady \cap KeysOf(X)) \cup KeysOf(F)
    /\ \/ /\ F = {}
          /\ Goes("waiting")
          /\ UNCHANGED spoolVars
       \/ /\ F # {}
          /\ Copies(F) \subseteq Records
          /\ Ingest(Copies(F))
          /\ Goes("ingest")
    /\ UNCHANGED lossVars

Polls == \E response \in Responses :
            LET X == Flatten(response)
            IN  \E F \in SUBSET X : Collect(X, F)

(* collect returned an error: the tick ends, and seen_prev stays.          *)
CollectFails ==
    /\ phase = "collect"
    /\ Goes("waiting")
    /\ UNCHANGED <<spoolVars, seenPrev, steady, lossVars>>

-----------------------------------------------------------------------------
(* What run does not decide.                                               *)

Cancel ==
    /\ ~cancelled
    /\ cancelled' = TRUE
    /\ UNCHANGED <<spoolVars, phase, seenPrev, policy, steady, lossVars>>

(* The call in progress, up to its return.                                 *)
Works ==
    /\ phase \in Calling
    /\ pc # "done"
    /\ Busy
    /\ UNCHANGED pollVars

Passes ==
    /\ \E t \in Times : Tick(t)
    /\ UNCHANGED pollVars

(* The process dies or ends, and a pipeline is built anew over the store;  *)
(* so does the task alone after a panic.                                   *)
Restarts ==
    /\ Crash
    /\ phase' = "starting"
    /\ cancelled' = FALSE
    /\ seenPrev' = {}
    /\ steady' = {}
    /\ cut' = cut \cup arg
    /\ UNCHANGED <<policy, refused>>

PollNext ==
    \/ Start
    \/ TickDue
    \/ Break
    \/ Returned
    \/ Polls
    \/ CollectFails
    \/ Cancel
    \/ Works
    \/ Passes
    \/ Restarts

PollSpec == PollInit /\ [][PollNext]_pipeVars

-----------------------------------------------------------------------------
(* Safety.                                                                 *)

(* Consecutive polls return repeats: a key that has been in every OK       *)
(* response since it was handed over is not handed over again, and no key  *)
(* twice in one batch ("a key the API keeps returning must stay            *)
(* remembered", pipeline.rs:193-195).                                      *)
NoRepeats ==
    [][Keyed /\ phase = "collect" /\ phase' = "ingest" =>
        LET F == Handed(arg')
        IN  /\ KeysOf(F) \cap steady = {}
            /\ \A x, y \in F : KeyOf[x] = KeyOf[y] => x = y]_pipeVars

(* What dedupe drops is not lost by it: a key that is about to be dropped  *)
(* as a repeat has a record that the spool or the destination has, or      *)
(* whose ingest returned an error, which run logs and does not repeat      *)
(* (pipeline.rs:179-181, 200).                                             *)
RepeatsAreKept ==
    Keyed /\ Durable =>
        \A k \in seenPrev :
            \E r \in Held \cup Delivered \cup refused \cup arg : KeyOf[r[1]] = k

(* A record is lost only by an ingest that returned an error or that the   *)
(* process did not survive. While the store's calls succeed, the records   *)
(* of a failed ingest are stored all the same, but for one case: activate  *)
(* returns before the append when the segment of their own window cannot   *)
(* be read (tier.rs:301); no other window's segment refuses them.          *)
NoSilentLoss ==
    Durable =>
        /\ used \ arg \subseteq Held \cup Delivered \cup refused \cup cut
        /\ ~StoreErrors /\ op = "ingest" /\ pc = "done" /\ failed
             => arg \subseteq Held \cup Delivered \/ ~Readable(Align(at))

(* FlushAll: after a shutdown without an error everything ever taken is at *)
(* the destination, windows of earlier processes included.                 *)
StopDeliversAll ==
    phase = "settle" /\ pc = "done" /\ ~failed /\ policy = "FlushAll" /\ Durable
        => used \subseteq Delivered \cup refused \cup cut

(* PreserveActiveWindow: a window is one object at the destination, also   *)
(* when the process was stopped or died in the middle of it, as long as    *)
(* max_records does not split it.                                          *)
WindowsStayWhole ==
    policy = "PreserveActiveWindow" /\ Durable /\ ~ClockSteps
        /\ MaxRecords > Cardinality(Records) =>
            \A o1, o2 \in remote : o1.window = o2.window => o1 = o2

-----------------------------------------------------------------------------
(* Liveness.                                                               *)

(* The executor polls a ready task again, every await of the sink stack    *)
(* and of the collector ends (HTTP clients have a timeout), the interval   *)
(* ticks; select! is random, so it does not ignore the token for ever; and *)
(* the destination does not refuse the same window on every attempt,       *)
(* poison batches aside. Nobody has to send a signal, and the clock may    *)
(* stand still.                                                            *)
PollFairness ==
    /\ WF_pipeVars(Start)
    /\ WF_pipeVars(TickDue)
    /\ SF_pipeVars(Break)
    /\ WF_pipeVars(Works)
    /\ WF_pipeVars(Returned)
    /\ WF_pipeVars(Polls \/ CollectFails)
    /\ \A w \in Windows : SF_pipeVars(Works /\ Accepts /\ win = w)

FairPollSpec == PollSpec /\ PollFairness

(* run returns after the signal, whatever its sink refuses, unless the     *)
(* process dies first.                                                     *)
SignalStopsRun == cancelled ~> (phase = "stopped" \/ ~cancelled)

(* What the heartbeat promises: a closed window ships, next to windows     *)
(* that fail for ever, whether the collector answers or not. The           *)
(* exceptions: poison, a segment that cannot be read and a pipeline that   *)
(* was stopped. An unreadable segment of the current window, on which      *)
(* advance returns before it drains (tier.rs:322), delays the others, but  *)
(* only for as long as the clock stays in such a window.                   *)
ClosedWindowsShip ==
    \A w \in Windows :
        (w + WindowSecs <= now /\ held[w] # {})
            ~> \/ held[w] = {}
               \/ held[w] \cap Poison # {}
               \/ w \in broken
               \/ phase = "stopped"
               \/ [](Align(now) \in broken)
=============================================================================
