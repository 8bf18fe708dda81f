------------------------------- MODULE HfSink -------------------------------
(***************************************************************************)
(* Terminal sinks that commit windows to one Hugging Face dataset          *)
(* repository and share one CommitGate (src/src/sink/huggingface.rs).      *)
(*                                                                         *)
(* A window is an object: its path holds a fingerprint of its content, so  *)
(* to commit it twice changes nothing. The server answers a commit, asks   *)
(* for patience (429, 5xx) or refuses it; the connection may break or time *)
(* out before the answer is read, and the server may then still carry the  *)
(* commit out, at any later time.                                          *)
(***************************************************************************)
EXTENDS Integers, Sequences

CONSTANTS
    Sinks,     \* the HfSinks that share the repository
    Objects,   \* encoded windows
    Attempts,  \* COMMIT_ATTEMPTS
    Gated,     \* the sinks share one CommitGate
    None       \* nobody, nothing

ASSUME HfAssumption ==
    /\ None \notin Sinks \cup Objects
    /\ Attempts \in Nat \ {0}
    /\ Gated \in BOOLEAN

VARIABLES
    pc,       \* sink -> where its ingest is
    object,   \* sink -> the window it ships, or shipped last
    attempt,  \* sink -> the attempt under way
    result,   \* sink -> what its last ingest returned
    waiters,  \* sinks waiting for the gate, first come first
    permit,   \* the sink that holds the gate's permit, or None
    answer,   \* sink -> what the server made of the request under way
    orphans,  \* commits nobody waits for that the server may still do
    stored    \* windows in the repository

callVars == <<pc, object, attempt, result>>
gateVars == <<waiters, permit>>
serverVars == <<answer, orphans, stored>>
hfVars == <<callVars, gateVars, serverVars>>

Answers == {"committed", "busy", "refused"}

HfTypeOK ==
    /\ pc \in [Sinks -> {"idle", "waiting", "sending", "backoff"}]
    /\ object \in [Sinks -> Objects]
    /\ attempt \in [Sinks -> 1..Attempts]
    /\ result \in [Sinks -> {"none", "ok", "err"}]
    /\ waiters \in Seq(Sinks)
    /\ permit \in Sinks \cup {None}
    /\ answer \in [Sinks -> Answers \cup {"none"}]
    /\ orphans \in SUBSET Objects
    /\ stored \in SUBSET Objects

HfInit ==
    /\ pc = [s \in Sinks |-> "idle"]
    /\ object \in [Sinks -> Objects]
    /\ attempt = [s \in Sinks |-> 1]
    /\ result = [s \in Sinks |-> "none"]
    /\ waiters = <<>>
    /\ permit = None
    /\ answer = [s \in Sinks |-> "none"]
    /\ orphans = {}
    /\ stored = {}

-----------------------------------------------------------------------------
(* The sink joins the waiters of the gate, if there is one.                *)
Queues(s) == waiters' = IF Gated THEN Append(waiters, s) ELSE waiters

(* The tier above calls ingest with the window o.                          *)
CallIngest(s, o) ==
    /\ pc[s] = "idle"
    /\ pc' = [pc EXCEPT ![s] = "waiting"]
    /\ object' = [object EXCEPT ![s] = o]
    /\ attempt' = [attempt EXCEPT ![s] = 1]
    /\ result' = [result EXCEPT ![s] = "none"]
    /\ Queues(s)
    /\ UNCHANGED <<permit, serverVars>>

(* The encoder fails: nothing is sent.                                     *)
EncodeFails(s, o) ==
    /\ pc[s] = "idle"
    /\ object' = [object EXCEPT ![s] = o]
    /\ result' = [result EXCEPT ![s] = "err"]
    /\ UNCHANGED <<pc, attempt, gateVars, serverVars>>

(* A free permit goes to the waiter that came first.                       *)
Turn(s) == permit = None /\ waiters # <<>> /\ Head(waiters) = s

Starts(s) ==
    /\ pc[s] = "waiting"
    /\ pc' = [pc EXCEPT ![s] = "sending"]
    /\ UNCHANGED <<object, attempt, result, serverVars>>

(* Mutant of Send: `let _ = gate.acquire()` drops the permit at once.      *)
SendDropsPermit(s) ==
    /\ Gated => Turn(s)
    /\ Starts(s)
    /\ waiters' = IF Gated THEN Tail(waiters) ELSE waiters
    /\ UNCHANGED permit

(* Mutant of Send: the gate wakes any waiter.                              *)
SendUnfair(s) ==
    /\ Gated => permit = None
    /\ Starts(s)
    /\ waiters' = SelectSeq(waiters, LAMBDA t : t # s)
    /\ permit' = IF Gated THEN s ELSE None

(* The permit is acquired, in FIFO order, and the request goes out.        *)
Send(s) ==
    /\ Gated => Turn(s)
    /\ Starts(s)
    /\ waiters' = IF Gated THEN Tail(waiters) ELSE waiters
    /\ permit' = IF Gated THEN s ELSE None

-----------------------------------------------------------------------------
(* The server.                                                             *)

Serve(s, a) ==
    /\ pc[s] = "sending" /\ answer[s] = "none"
    /\ answer' = [answer EXCEPT ![s] = a]
    /\ stored' = IF a = "committed" THEN stored \cup {object[s]} ELSE stored
    /\ UNCHANGED <<callVars, gateVars, orphans>>

(* A commit its client has given up on is carried out, or dropped.         *)
ServeOrphan(o) ==
    /\ o \in orphans
    /\ orphans' = orphans \ {o}
    /\ stored' \in {stored, stored \cup {o}}
    /\ UNCHANGED <<callVars, gateVars, answer>>

-----------------------------------------------------------------------------
(* The end of an attempt. The guard of the permit lives as long as the     *)
(* call of commit does.                                                    *)

EndsAttempt(s) ==
    /\ pc[s] = "sending"
    /\ answer' = [answer EXCEPT ![s] = "none"]
    /\ permit' = IF permit = s THEN None ELSE permit
    /\ UNCHANGED <<object, attempt, waiters, stored>>

Finishes(s, r) ==
    /\ pc' = [pc EXCEPT ![s] = "idle"]
    /\ result' = [result EXCEPT ![s] = r]

Committed(s) ==
    /\ answer[s] = "committed"
    /\ EndsAttempt(s)
    /\ Finishes(s, "ok")
    /\ UNCHANGED orphans

(* Mutant of Refused: a refusal is taken for a commit done before.         *)
RefusedAsCommitted(s) ==
    /\ answer[s] = "refused"
    /\ EndsAttempt(s)
    /\ Finishes(s, "ok")
    /\ UNCHANGED orphans

Refused(s) ==
    /\ answer[s] = "refused"
    /\ EndsAttempt(s)
    /\ Finishes(s, "err")
    /\ UNCHANGED orphans

(* A transient failure: the answer is 429 or 5xx, or whatever it is it is  *)
(* lost or cannot be read; or there is none in time, and the server may or *)
(* may not have the request.                                               *)
Fails(s) ==
    \/ /\ answer[s] # "none"
       /\ UNCHANGED orphans
    \/ /\ answer[s] = "none"
       /\ orphans' \in {orphans, orphans \cup {object[s]}}

(* Mutant of Retries: the permit is acquired outside the retry loop.       *)
RetriesInGate(s) ==
    /\ Fails(s)
    /\ pc[s] = "sending"
    /\ attempt[s] < Attempts
    /\ answer' = [answer EXCEPT ![s] = "none"]
    /\ pc' = [pc EXCEPT ![s] = "backoff"]
    /\ UNCHANGED <<object, attempt, result, gateVars, stored>>

(* A transient failure with attempts left: back off, without the permit.   *)
Retries(s) ==
    /\ Fails(s)
    /\ EndsAttempt(s)
    /\ attempt[s] < Attempts
    /\ pc' = [pc EXCEPT ![s] = "backoff"]
    /\ UNCHANGED result

(* Mutant of Exhausted: the last transient failure is swallowed.           *)
ExhaustedSilently(s) ==
    /\ Fails(s)
    /\ EndsAttempt(s)
    /\ attempt[s] = Attempts
    /\ Finishes(s, "ok")

Exhausted(s) ==
    /\ Fails(s)
    /\ EndsAttempt(s)
    /\ attempt[s] = Attempts
    /\ Finishes(s, "err")

(* The backoff is slept without the permit; then the sink queues again.    *)
BackoffOver(s) ==
    /\ pc[s] = "backoff"
    /\ pc' = [pc EXCEPT ![s] = "waiting"]
    /\ attempt' = [attempt EXCEPT ![s] = @ + 1]
    /\ Queues(s)
    /\ UNCHANGED <<object, result, permit, serverVars>>

-----------------------------------------------------------------------------
AttemptEnds(s) == Committed(s) \/ Refused(s) \/ Retries(s) \/ Exhausted(s)

HfNext ==
    \/ \E s \in Sinks :
           \/ \E o \in Objects : CallIngest(s, o) \/ EncodeFails(s, o)
           \/ Send(s)
           \/ \E a \in Answers : Serve(s, a)
           \/ AttemptEnds(s)
           \/ BackoffOver(s)
    \/ \E o \in Objects : ServeOrphan(o)

HfSpec == HfInit /\ [][HfNext]_hfVars

(* A request ends, with an answer or, the clients of a gate being given a  *)
(* timeout, with a transport error; a sleep ends; a free permit goes to    *)
(* the first waiter. The server owes nothing.                              *)
HfFairness ==
    \A s \in Sinks :
        /\ WF_hfVars(Send(s))
        /\ WF_hfVars(AttemptEnds(s))
        /\ WF_hfVars(BackoffOver(s))

FairHfSpec == HfSpec /\ HfFairness

-----------------------------------------------------------------------------
(* Sinks that share a gate send one commit at a time (huggingface.rs:151). *)
OneSendPerGate ==
    Gated => \A s, t \in Sinks :
                 pc[s] = "sending" /\ pc[t] = "sending" => s = t

(* A sink that sleeps or waits does not hold the gate (huggingface.rs:286, *)
(* 342), so one that is refused for a while does not stop the others.      *)
GateIsHeldToSend == permit # None => pc[permit] = "sending"

(* The sinks keep what the tier above relies on (module Terminal): an Ok   *)
(* means that the repository has the window, and on the strength of it the *)
(* tier removes its segment (huggingface.rs:330-347).                      *)
Promise == INSTANCE Terminal WITH
    Files <- Objects,
    call <- [s \in Sinks |-> IF pc[s] = "idle" THEN None ELSE object[s]],
    pending <- orphans \cup {object[s] : s \in {t \in Sinks : pc[t] # "idle"}}

KeepsTerminalPromise == Promise!TerminalSpec

(* In particular the window of an ingest that returned Ok is stored.       *)
OkMeansStored ==
    \A s \in Sinks : result[s] = "ok" => object[s] \in stored

(* Every ingest returns, however busy the gate and whatever the server     *)
(* answers: the gate is fair and the attempts are bounded.                 *)
EveryIngestReturns ==
    \A s \in Sinks : pc[s] = "waiting" ~> pc[s] = "idle"
=============================================================================
