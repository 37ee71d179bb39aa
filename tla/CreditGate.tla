------------------------------ MODULE CreditGate ------------------------------
(***************************************************************************)
(* CreditGate of zyris-core/src/connection.rs, at the granularity of its   *)
(* lock regions.  One task sends on a stream and calls acquire; the        *)
(* connection's reader (s_credit, s_cancel) and a shutdown call add and    *)
(* cancel.  Each of those takes the lock once and only afterwards calls    *)
(* notify_waiters, so the steps of the two sides interleave; acquire must  *)
(* not sleep through a grant that came between its check and its await.    *)
(*                                                                         *)
(* tokio's Notify is external: a Notified future receives every            *)
(* notify_waiters from its creation on, whether or not it has been polled. *)
(***************************************************************************)
EXTENDS Naturals

CONSTANTS Wakers,    \* threads that call add and cancel
          Amounts,   \* byte counts that are acquired or granted
          Initial,   \* initial_stream_credit
          MaxCalls   \* bound: calls of acquire, add and cancel in a behaviour

ASSUME AmountsAssumption == Amounts \subseteq Nat
ASSUME InitialAssumption == Initial \in Nat
ASSUME MaxCallsAssumption == MaxCalls \in Nat

VARIABLES available, \* CreditState.available
          canceled,  \* CreditState.canceled
          want,      \* the argument of the current acquire
          pc,        \* where the sending task is inside acquire
          woken,     \* its Notified future has been notified
          waker,     \* waker[w]: w is between the lock and notify_waiters
          calls      \* calls made so far

vars == <<available, canceled, want, pc, woken, waker, calls>>

TypeOK ==
    /\ available \in Nat
    /\ canceled \in BOOLEAN
    /\ want \in Nat
    /\ pc \in {"idle", "loop", "check", "unlocked", "parked", "refused"}
    /\ woken \in BOOLEAN
    /\ waker \in [Wakers -> {"idle", "notify"}]
    /\ calls \in Nat

Init ==
    /\ available = Initial
    /\ canceled = FALSE
    /\ want = 0
    /\ pc = "idle"
    /\ woken = FALSE
    /\ waker = [w \in Wakers |-> "idle"]
    /\ calls = 0

CountCall ==
    /\ calls < MaxCalls
    /\ calls' = calls + 1

-------------------------------------------------------------------------------
(* The sending task *)

Acquire(n) ==
    /\ pc = "idle"
    /\ CountCall
    /\ want' = n
    /\ pc' = "loop"
    /\ UNCHANGED <<available, canceled, woken, waker>>

\* let notified = self.notify.notified()
Listen ==
    /\ pc = "loop"
    /\ woken' = FALSE
    /\ pc' = "check"
    /\ UNCHANGED <<available, canceled, want, waker, calls>>

Enough == available >= want

\* The region under the lock.
Check ==
    /\ pc = "check"
    /\ \/ /\ canceled
          /\ pc' = "refused"
          /\ UNCHANGED available
       \/ /\ ~canceled /\ Enough
          /\ available' = available - want
          /\ pc' = "idle"
       \/ /\ ~canceled /\ ~Enough
          /\ pc' = "unlocked"
          /\ UNCHANGED available
    /\ UNCHANGED <<canceled, want, woken, waker, calls>>

\* A gate that creates its future only now, with the lock already dropped.
AwaitFresh ==
    /\ pc = "unlocked"
    /\ pc' = "parked"
    /\ woken' = FALSE
    /\ UNCHANGED <<available, canceled, want, waker, calls>>

\* The future created by Listen is awaited.
Await ==
    /\ pc = "unlocked"
    /\ pc' = "parked"
    /\ UNCHANGED <<available, canceled, want, woken, waker, calls>>

\* notified.await returns
Wake ==
    /\ pc = "parked" /\ woken
    /\ pc' = "loop"
    /\ UNCHANGED <<available, canceled, want, woken, waker, calls>>

-------------------------------------------------------------------------------
(* The reader and a shutdown *)

Add(w, n) ==
    /\ waker[w] = "idle"
    /\ CountCall
    /\ available' = available + n
    /\ waker' = [waker EXCEPT ![w] = "notify"]
    /\ UNCHANGED <<canceled, want, pc, woken>>

\* A cancel that sets the flag and wakes nobody.
SilentCancel(w) ==
    /\ waker[w] = "idle"
    /\ CountCall
    /\ canceled' = TRUE
    /\ UNCHANGED <<available, want, pc, woken, waker>>

Cancel(w) ==
    /\ waker[w] = "idle"
    /\ CountCall
    /\ canceled' = TRUE
    /\ waker' = [waker EXCEPT ![w] = "notify"]
    /\ UNCHANGED <<available, want, pc, woken>>

NotifyWaiters(w) ==
    /\ waker[w] = "notify"
    /\ woken' = TRUE
    /\ waker' = [waker EXCEPT ![w] = "idle"]
    /\ UNCHANGED <<available, canceled, want, pc, calls>>

-------------------------------------------------------------------------------
Next ==
    \/ \E n \in Amounts : Acquire(n)
    \/ Listen
    \/ Check
    \/ Await
    \/ Wake
    \/ \E w \in Wakers :
          \/ \E n \in Amounts : Add(w, n)
          \/ Cancel(w)
          \/ NotifyWaiters(w)

\* A tokio task that is runnable is polled, and a thread that holds no lock
\* finishes the function it is in.
Fairness ==
    /\ WF_vars(Listen)
    /\ WF_vars(Check)
    /\ WF_vars(Await)
    /\ WF_vars(Wake)
    /\ \A w \in Wakers : WF_vars(NotifyWaiters(w))

Spec == Init /\ [][Next]_vars
FairSpec == Spec /\ Fairness

-------------------------------------------------------------------------------
\* A task stopped in acquire that nobody has notified has nothing to wake up
\* for: the gate is open and short of credit, or the thread that changed it
\* has yet to call notify_waiters (connection.rs 86-111).
NoLostWakeup ==
    (pc \in {"unlocked", "parked"} /\ ~woken) =>
        \/ ~canceled /\ available < want
        \/ \E w \in Wakers : waker[w] = "notify"

Gate == INSTANCE AtomicGate WITH
            waiting <- pc \in {"loop", "check", "unlocked", "parked"},
            refused <- pc = "refused"

\* acquire, add and cancel behave as if each were one atomic step, and acquire
\* returns once the credit is there or the gate is canceled (connection.rs
\* 86-111): splitting the lock region from the notification loses nothing.
ImplementsAtomicGate == Gate!Spec
===============================================================================
