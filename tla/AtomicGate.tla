------------------------------ MODULE AtomicGate ------------------------------
(***************************************************************************)
(* What a credit gate promises the task that sends on a stream: acquiring  *)
(* credit is one atomic step, it happens once enough credit has been       *)
(* granted, and a canceled gate refuses it.  How CreditGate of             *)
(* zyris-core/src/connection.rs gets there with a mutex and a Notify is    *)
(* the business of module CreditGate, which implements this one.           *)
(***************************************************************************)
EXTENDS Naturals

CONSTANTS Amounts,   \* byte counts that are acquired or granted
          Initial    \* the credit a new gate starts with

VARIABLES available, \* bytes that may be sent
          canceled,  \* the receiver or a shutdown ended the stream
          want,      \* bytes the sending task asks for
          waiting,   \* that task is inside acquire
          refused    \* acquire returned an error and the task stopped sending

vars == <<available, canceled, want, waiting, refused>>

Init ==
    /\ available = Initial
    /\ canceled = FALSE
    /\ want = 0
    /\ waiting = FALSE
    /\ refused = FALSE

Ask(n) ==
    /\ ~waiting /\ ~refused
    /\ want' = n
    /\ waiting' = TRUE
    /\ UNCHANGED <<available, canceled, refused>>

Take ==
    /\ waiting /\ ~canceled /\ available >= want
    /\ available' = available - want
    /\ waiting' = FALSE
    /\ UNCHANGED <<canceled, want, refused>>

Refuse ==
    /\ waiting /\ canceled
    /\ waiting' = FALSE
    /\ refused' = TRUE
    /\ UNCHANGED <<available, canceled, want>>

Grant(n) ==
    /\ available' = available + n
    /\ UNCHANGED <<canceled, want, waiting, refused>>

Revoke ==
    /\ canceled' = TRUE
    /\ UNCHANGED <<available, want, waiting, refused>>

Next ==
    \/ \E n \in Amounts : Ask(n) \/ Grant(n)
    \/ Take
    \/ Refuse
    \/ Revoke

Safety == Init /\ [][Next]_vars
Spec == Safety /\ WF_vars(Take) /\ WF_vars(Refuse)
===============================================================================
