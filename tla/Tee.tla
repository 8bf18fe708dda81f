-------------------------------- MODULE Tee --------------------------------
(***************************************************************************)
(* A durable tier over a Tee of two sinks (src/src/layer.rs): every call   *)
(* of the tier into the sink below it is made into the first branch, then  *)
(* into the second one, and the errors of both are combined.               *)
(*                                                                         *)
(* A branch is any sink: with Ok it has taken the batch; with an error it  *)
(* may have taken it all the same.                                         *)
(***************************************************************************)
EXTENDS Tier

CONSTANTS
    MaxCrashes   \* bound: crashes of the process

ASSUME TeeAssumption == MaxCrashes \in Nat

VARIABLES
    turn,     \* the branch that is being called; "answer" after both
    errors,   \* branches whose call returned an error
    taken,    \* branch -> records it has ever taken
    now,
    crashes,
    used,     \* records handed to the tier
    acked,    \* history: records whose append returned Ok
    settled   \* history: records that one call into the Tee returned Ok for,
              \* since the last start of the process

callTeeVars == <<turn, errors>>
envVars == <<now, crashes>>
histVars == <<used, acked, settled>>
teeVars == <<storeVars, tierVars, callTeeVars, taken, envVars, histVars>>

Branches == {"first", "second"}

TeeInit ==
    /\ StoreInit
    /\ TierInit
    /\ turn = "idle"
    /\ errors = {}
    /\ taken = [b \in Branches |-> {}]
    /\ now \in Times
    /\ crashes = 0
    /\ used = {}
    /\ acked = {}
    /\ settled = {}

-----------------------------------------------------------------------------
(* The tier and its caller, as in module Spool.                            *)

Outside == <<callTeeVars, taken, envVars>>

Ingest(R) ==
    /\ CallIngest(R, now)
    /\ used' = used \cup R
    /\ UNCHANGED <<Outside, acked, settled>>

Heartbeat == CallAdvance(now) /\ UNCHANGED <<Outside, histVars>>

Flush == CallFlush /\ UNCHANGED <<Outside, histVars>>

Append ==
    /\ AppendOk
    /\ acked' = acked \cup arg
    /\ UNCHANGED <<Outside, used, settled>>

Step ==
    /\ TierStep \/ \E w \in Windows : ReadOk(w)
    /\ UNCHANGED <<Outside, histVars>>

-----------------------------------------------------------------------------
(* A call into the Tee.                                                    *)

Calls ==
    /\ pc \in {"offered", "inner"}
    /\ turn = "idle"
    /\ turn' = "first"
    /\ UNCHANGED <<storeVars, tierVars, errors, taken, envVars, histVars>>

(* What branch b may have taken when its ingest returned.                  *)
Ingested(b, ok) ==
    taken' \in {[taken EXCEPT ![b] = @ \cup batch]} \cup (IF ok THEN {} ELSE {taken})

(* A mutant of NextTurn: an error of the first branch ends the call.           *)
NextUnlessError(b, ok) == IF b = "first" /\ ok THEN "second" ELSE "answer"

(* Both branches are always called.                                        *)
NextTurn(b, ok) == IF b = "first" THEN "second" ELSE "answer"

Branch(b, ok) ==
    /\ turn = b
    /\ \/ pc = "offered" /\ Ingested(b, ok)
       \/ pc = "inner" /\ UNCHANGED taken
    /\ errors' = IF ok THEN errors ELSE errors \cup {b}
    /\ turn' = NextTurn(b, ok)
    /\ UNCHANGED <<storeVars, tierVars, envVars, histVars>>

(* A mutant of Verdict: one branch that succeeded is enough.               *)
VerdictEither == errors # Branches

(* Ok only without an error of either branch.                              *)
Verdict == errors = {}

Answer ==
    /\ turn = "answer"
    /\ \/ Verdict /\ InnerAccepts
       \/ ~Verdict /\ InnerRejects
       \/ InnerReturns(Verdict)
    /\ turn' = "idle"
    /\ errors' = {}
    /\ settled' = IF pc = "offered" /\ errors = {} THEN settled \cup batch ELSE settled
    /\ UNCHANGED <<taken, envVars, used, acked>>

-----------------------------------------------------------------------------
Tick(t) ==
    /\ t > now
    /\ now' = t
    /\ UNCHANGED <<storeVars, tierVars, callTeeVars, taken, crashes, histVars>>

(* The process dies at any await.                                          *)
Crash ==
    /\ crashes < MaxCrashes
    /\ crashes' = crashes + 1
    /\ TierReset
    /\ IF pc = "append" /\ Durable THEN StoreTear(Align(at), arg) ELSE StoreCrash
    /\ turn' = "idle"
    /\ errors' = {}
    /\ settled' = {}
    /\ UNCHANGED <<taken, now, used, acked>>

Busy ==
    \/ Append
    \/ Step
    \/ Calls
    \/ \E b \in Branches, ok \in BOOLEAN : Branch(b, ok)
    \/ Answer

TeeNext ==
    \/ \E R \in SUBSET (Records \ used) : R # {} /\ Ingest(R)
    \/ Heartbeat
    \/ Flush
    \/ Busy
    \/ \E t \in Times : Tick(t)
    \/ Crash

TeeSpec == TeeInit /\ [][TeeNext]_teeVars

(* Calls are polled to their end, the heartbeat comes again and again, and *)
(* the second branch does not refuse every batch of a window. The first    *)
(* one may refuse all of them, for ever.                                   *)
TeeFairness ==
    /\ WF_teeVars(Busy)
    /\ SF_teeVars(Heartbeat)
    /\ \A w \in Windows : SF_teeVars(Branch("second", TRUE) /\ pc = "offered" /\ win = w)

FairTeeSpec == TeeSpec /\ TeeFairness

-----------------------------------------------------------------------------
(* A record that was acknowledged stays in the tier's store until both     *)
(* branches have taken it (layer.rs:101-113 below tier.rs:249-261): an     *)
(* error of either one keeps the segment.                                  *)
TeeCustody ==
    Durable => acked \subseteq Held \cup (taken["first"] \cap taken["second"])

(* When both branches have answered, one that returned no error has the    *)
(* batch, whatever the other one returned ("both branches are always       *)
(* attempted", layer.rs:74-75).                                            *)
BranchesAreIndependent ==
    turn = "answer" /\ pc = "offered" =>
        \A b \in Branches \ errors : batch \subseteq taken[b]

(* The tier offers a batch to both branches again when one failed. That is *)
(* the only reason, next to a crash before the commit: what the Tee        *)
(* returned Ok for is not offered again.                                   *)
CopiesOnlyAfterFailure ==
    ~StoreErrors /\ pc = "offered" /\ turn = "idle" => batch \cap settled = {}

(* The second branch gets every record of a closed window, although the    *)
(* first one refuses all of them for ever. (It gets them again and again:  *)
(* they stay in the store.)                                                *)
SecondIsServed ==
    \A r \in Records :
        (\E w \in Windows : w + WindowSecs <= now /\ r \in held[w])
            ~> r \in taken["second"]
=============================================================================
