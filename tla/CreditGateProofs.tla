--------------------------- MODULE CreditGateProofs ---------------------------
(***************************************************************************)
(* For every number of waking threads, every credit window and every       *)
(* amount: the gate's credit never goes negative, no wakeup is lost, and   *)
(* acquire, add and cancel are each one atomic step to their callers.      *)
(***************************************************************************)
EXTENDS CreditGate, TLAPS

\* CreditGate's state keeps its types; in particular acquire never takes more
\* than is available, so the u64 never drops below zero (connection.rs 94-95).
THEOREM TypeCorrect == Spec => []TypeOK
<1>1. Init => TypeOK
  <2> SUFFICES ASSUME Init PROVE TypeOK
    OBVIOUS
  <2> QED
    BY InitialAssumption DEF Init, TypeOK
<1>2. TypeOK /\ [Next]_vars => TypeOK'
  <2> SUFFICES ASSUME TypeOK, [Next]_vars PROVE TypeOK'
    OBVIOUS
  <2> USE DEF TypeOK
  <2>1. ASSUME NEW n \in Amounts, Acquire(n) PROVE TypeOK'
    BY <2>1, AmountsAssumption DEF Acquire, CountCall
  <2>2. CASE Listen
    BY <2>2 DEF Listen
  <2>3. CASE Check
    BY <2>3 DEF Check, Enough
  <2>4. CASE Await \/ Wake
    BY <2>4 DEF Await, Wake
  <2>5. ASSUME NEW w \in Wakers, NEW n \in Amounts, Add(w, n) PROVE TypeOK'
    BY <2>5, AmountsAssumption DEF Add, CountCall
  <2>6. ASSUME NEW w \in Wakers, Cancel(w) PROVE TypeOK'
    BY <2>6 DEF Cancel, CountCall
  <2>7. ASSUME NEW w \in Wakers, NotifyWaiters(w) PROVE TypeOK'
    BY <2>7 DEF NotifyWaiters
  <2>8. CASE UNCHANGED vars
    BY <2>8 DEF vars
  <2>9. QED
    BY <2>1, <2>2, <2>3, <2>4, <2>5, <2>6, <2>7, <2>8 DEF Next
<1>3. QED
  BY <1>1, <1>2, PTL DEF Spec

\* A parked task that was not notified waits for credit that is not there, or a
\* waker still owes it a notification: creating the Notified future before the
\* check (connection.rs 88-99) closes the window between check and await.
THEOREM WakeupNeverLost == Spec => []NoLostWakeup
<1>1. Init => NoLostWakeup
  BY DEF Init, NoLostWakeup
<1>2. TypeOK /\ NoLostWakeup /\ [Next]_vars => NoLostWakeup'
  <2> SUFFICES ASSUME TypeOK, NoLostWakeup, [Next]_vars PROVE NoLostWakeup'
    OBVIOUS
  <2> USE DEF TypeOK, NoLostWakeup
  <2>1. ASSUME NEW n \in Amounts, Acquire(n) PROVE NoLostWakeup'
    BY <2>1 DEF Acquire
  <2>2. CASE Listen
    BY <2>2 DEF Listen
  <2>3. CASE Check
    BY <2>3 DEF Check, Enough
  <2>4. CASE Await \/ Wake
    BY <2>4 DEF Await, Wake
  <2>5. ASSUME NEW w \in Wakers, NEW n \in Amounts, Add(w, n) PROVE NoLostWakeup'
    <3>1. waker'[w] = "notify"
      BY <2>5 DEF Add
    <3>2. QED
      BY <3>1
  <2>6. ASSUME NEW w \in Wakers, Cancel(w) PROVE NoLostWakeup'
    <3>1. waker'[w] = "notify"
      BY <2>6 DEF Cancel
    <3>2. QED
      BY <3>1
  <2>7. ASSUME NEW w \in Wakers, NotifyWaiters(w) PROVE NoLostWakeup'
    BY <2>7 DEF NotifyWaiters
  <2>8. CASE UNCHANGED vars
    BY <2>8 DEF vars
  <2>9. QED
    BY <2>1, <2>2, <2>3, <2>4, <2>5, <2>6, <2>7, <2>8 DEF Next
<1>3. QED
  BY <1>1, <1>2, TypeCorrect, PTL DEF Spec

\* Every step of the gate is a step of AtomicGate or changes nothing it shows: of
\* acquire only its call and the region under the lock that decides (connection.rs
\* 89-97), of add and cancel only the region under the lock.
THEOREM ImplementsSafety == Spec => Gate!Safety
<1>1. Init => Gate!Init
  BY DEF Init, Gate!Init
<1>2. TypeOK /\ [Next]_vars => [Gate!Next]_(Gate!vars)
  <2> SUFFICES ASSUME TypeOK, [Next]_vars PROVE Gate!Next \/ UNCHANGED Gate!vars
    OBVIOUS
  <2>1. ASSUME NEW n \in Amounts, Acquire(n) PROVE Gate!Next
    <3>1. Gate!Ask(n)
      BY <2>1 DEF Acquire, Gate!Ask
    <3>2. QED
      BY <3>1 DEF Gate!Next
  <2>2. CASE Listen \/ Await \/ Wake
    BY <2>2 DEF Listen, Await, Wake, Gate!vars
  <2>3. CASE Check
    <3>1. CASE canceled
      BY <2>3, <3>1 DEF Check, Gate!Next, Gate!Refuse
    <3>2. CASE ~canceled /\ Enough
      BY <2>3, <3>2 DEF Check, Enough, Gate!Next, Gate!Take
    <3>3. CASE ~canceled /\ ~Enough
      BY <2>3, <3>3 DEF Check, Gate!vars
    <3>4. QED
      BY <3>1, <3>2, <3>3
  <2>4. ASSUME NEW w \in Wakers, NEW n \in Amounts, Add(w, n) PROVE Gate!Next
    <3>1. Gate!Grant(n)
      BY <2>4 DEF Add, Gate!Grant
    <3>2. QED
      BY <3>1 DEF Gate!Next
  <2>5. ASSUME NEW w \in Wakers, Cancel(w) PROVE Gate!Next
    BY <2>5 DEF Cancel, Gate!Next, Gate!Revoke
  <2>6. ASSUME NEW w \in Wakers, NotifyWaiters(w) PROVE UNCHANGED Gate!vars
    BY <2>6 DEF NotifyWaiters, Gate!vars
  <2>7. CASE UNCHANGED vars
    BY <2>7 DEF vars, Gate!vars
  <2>8. QED
    BY <2>1, <2>2, <2>3, <2>4, <2>5, <2>6, <2>7 DEF Next
<1>3. QED
  BY <1>1, <1>2, TypeCorrect, PTL DEF Spec, Gate!Safety
===============================================================================
