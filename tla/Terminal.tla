------------------------------ MODULE Terminal ------------------------------
(***************************************************************************)
(* What a terminal sink promises the tier above it, which removes a        *)
(* segment on the strength of an Ok: ingest returns Ok only for a file     *)
(* that is at the destination; a file gets there only if it was offered,   *)
(* at any time after that; and nothing there goes away again.              *)
(***************************************************************************)
CONSTANTS
    Sinks,
    Files,    \* encoded windows
    None      \* no call

VARIABLES
    call,     \* sink -> the file of the ingest in progress, or None
    result,   \* sink -> what its last ingest returned
    pending,  \* files that a call or a late request may still store
    stored    \* files at the destination

terminalVars == <<call, result, pending, stored>>

TerminalInit ==
    /\ call = [s \in Sinks |-> None]
    /\ result = [s \in Sinks |-> "none"]
    /\ pending = {}
    /\ stored = {}

Offer(s, f) ==
    /\ call[s] = None
    /\ call' = [call EXCEPT ![s] = f]
    /\ result' = [result EXCEPT ![s] = "none"]
    /\ pending' = pending \cup {f}
    /\ UNCHANGED stored

(* The window is not offered to the destination at all.                    *)
Decline(s) ==
    /\ call[s] = None
    /\ result' = [result EXCEPT ![s] = "err"]
    /\ UNCHANGED <<call, pending, stored>>

(* The destination makes something of a request, or nothing.               *)
Settle ==
    /\ \E f \in pending : stored' \in {stored, stored \cup {f}}
    /\ pending' \in SUBSET pending
    /\ \A s \in Sinks : call[s] # None => call[s] \in pending'
    /\ UNCHANGED <<call, result>>

Return(s, r) ==
    /\ call[s] # None
    /\ r = "ok" => call[s] \in stored
    /\ call' = [call EXCEPT ![s] = None]
    /\ result' = [result EXCEPT ![s] = r]
    /\ pending' \in SUBSET pending
    /\ UNCHANGED stored

(* The process dies in the middle of its calls.                            *)
Abandon ==
    /\ call' = [s \in Sinks |-> None]
    /\ result' = [s \in Sinks |-> "none"]
    /\ pending' \in SUBSET pending
    /\ UNCHANGED stored

TerminalNext ==
    \/ \E s \in Sinks :
        \/ \E f \in Files : Offer(s, f)
        \/ Decline(s)
        \/ \E r \in {"ok", "err"} : Return(s, r)
    \/ Settle
    \/ Abandon

TerminalSpec == TerminalInit /\ [][TerminalNext]_terminalVars
=============================================================================
