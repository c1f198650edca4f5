------------------------------ MODULE SpendSafety ------------------------------
(***************************************************************************)
(* What the executor promises to the account owner, with no handlers, no   *)
(* mutexes and no caches: a row is decided once by a human, an approved    *)
(* row is carried out or refused once, in one step, and an object is not   *)
(* changed again inside its cooldown nor for a key already carried out.    *)
(***************************************************************************)
EXTENDS Integers

CONSTANTS
    Rows,      \* the proposals
    Scopes,    \* what a cooldown covers
    Scope,     \* the scope of each row
    Twins,     \* pairs of rows that ask for the very same change
    Window     \* the cooldown

VARIABLES state, lastChange, clock

safetyVars == <<state, lastChange, clock>>

Untouched == -1

Init ==
    /\ state = [r \in Rows |-> "PENDING"]
    /\ lastChange = [s \in Scopes |-> Untouched]
    /\ clock = 0

Decide(r, verdict) ==
    /\ state[r] = "PENDING"
    /\ state' = [state EXCEPT ![r] = verdict]
    /\ UNCHANGED <<lastChange, clock>>

CarryOut(r) ==
    LET s == Scope[r] IN
    /\ state[r] = "APPROVED"
    /\ \A t \in Rows : <<r, t>> \in Twins => state[t] # "EXECUTED"
    /\ lastChange[s] = Untouched \/ clock - lastChange[s] >= Window
    /\ state' = [state EXCEPT ![r] = "EXECUTED"]
    /\ lastChange' = [lastChange EXCEPT ![s] = clock]
    /\ UNCHANGED clock

Refuse(r) ==
    /\ state[r] = "APPROVED"
    /\ state' = [state EXCEPT ![r] = "FAILED"]
    /\ UNCHANGED <<lastChange, clock>>

Pass ==
    /\ clock' = clock + 1
    /\ UNCHANGED <<state, lastChange>>

Next ==
    \/ \E r \in Rows, verdict \in {"APPROVED", "REJECTED"} : Decide(r, verdict)
    \/ \E r \in Rows : CarryOut(r) \/ Refuse(r)
    \/ Pass

Spec == Init /\ [][Next]_safetyVars
===============================================================================
