----------------------------- MODULE CallsProofs ------------------------------
(***************************************************************************)
(* What holds of module Calls for every set of calls, every stream content *)
(* and every credit window: with chunks lost and capabilities panicking,   *)
(* and, on a hop that loses nothing, that the application sees RemoteCall. *)
(***************************************************************************)
EXTENDS CallsStepProofs, CallsStreamProofs

\* The initial states satisfy the invariant.
LEMMA InvInit == Init => Inv
<1> SUFFICES ASSUME Init PROVE Inv
  OBVIOUS
<1>1. TypeOK
  <2>1. \A S, x : x \in S => [c \in Calls |-> x] \in [Calls -> S]
    OBVIOUS
  <2>2. /\ replied \in [Calls -> BOOLEAN] /\ done \in [Calls -> BOOLEAN]
        /\ served \in BOOLEAN /\ revoked \in BOOLEAN
    BY Zenon DEF Init
  <2>3. \A S : [c \in Calls |-> <<>>] \in [Calls -> Seq(S)]
    OBVIOUS
  <2>4. QED
    BY <2>1, <2>2, <2>3, CallsAssumption, WindowAssumption
    DEF Init, TypeOK, TaskStates, CallerStates
<1>2. ASSUME NEW c \in Calls PROVE CallInv(c)
  <2>1. toCaller[c] = <<>> /\ toCallee[c] = <<>> /\ rx[c] = <<>>
    BY DEF Init
  <2>2. RequestInv(c) /\ ReplyInv(c)
    BY <2>1, CallsAssumption DEF Init, RequestInv, ReplyInv
  <2>3. PositionInv(c)
    BY <2>1, LengthAssumption DEF Init, PositionInv, Between
  <2>4. QueueInv(c)
    BY <2>1 DEF Init, QueueInv
  <2>5. CreditInv(c)
    <3>1. Offset[c][0] \in Nat
      BY OffsetAssumption, LengthAssumption
    <3>2. QED
      BY <3>1, WindowAssumption DEF Init, CreditInv
  <2>6. QED
    BY <2>2, <2>3, <2>4, <2>5 DEF CallInv
<1>3. QED
  BY <1>1, <1>2 DEF Inv

-------------------------------------------------------------------------------
(* The theorems *)

\* Every step keeps the invariant: of the call it is a step of, and of the others.
LEMMA InvStep == Inv /\ [Next]_vars => Inv'
<1> SUFFICES ASSUME Inv, [Next]_vars PROVE Inv'
  OBVIOUS
<1>1. TypeOK /\ TypeOK'
  BY TypeStep DEF Inv
<1>2. ASSUME NEW c \in Calls, CallStep(c), NEW d \in Calls PROVE CallInv(d)'
  <2>1. CallInv(c) /\ CallInv(d)
    BY DEF Inv
  <2>2. CASE d = c
    BY <1>1, <1>2, <2>1, <2>2, RequestStep, ReplyStep, PositionStep, QueueStep, CreditStep
    DEF CallInv
  <2>3. CASE d # c
    BY <1>1, <1>2, <2>1, <2>3, OtherCalls, SameKeepsInv
  <2>4. QED
    BY <2>2, <2>3
<1>3. ASSUME RemoveCapability \/ UNCHANGED vars, NEW d \in Calls PROVE CallInv(d)'
  <2>1. Same(d)
    BY <1>3 DEF RemoveCapability, vars, Same, callerVars, taskVars, gateVars, revokeVars
  <2>2. QED
    BY <2>1, SameKeepsInv DEF Inv
<1>4. ASSUME TakeVictims, NEW d \in Calls PROVE CallInv(d)'
  <2>1. CallInv(d)
    BY DEF Inv
  <2>2. RequestInv(d)' /\ CreditInv(d)'
    BY <1>4, <2>1 DEF TakeVictims, callerVars, taskVars, gateVars, CallInv, RequestInv, CreditInv
  <2>3. ReplyInv(d)'
    BY <1>4, <2>1 DEF TakeVictims, taskVars, CallInv, ReplyInv
  <2>4. PositionInv(d)' /\ QueueInv(d)'
    BY <1>4, <2>1 DEF TakeVictims, callerVars, taskVars, gateVars, CallInv, PositionInv,
       FirstOnWire, QueueInv
  <2>5. QED
    BY <2>2, <2>3, <2>4 DEF CallInv
<1>5. \A d \in Calls : CallInv(d)'
  BY <1>2, <1>3, <1>4 DEF Next, CallStep
<1>6. QED
  BY <1>1, <1>5 DEF Inv

\* In every reachable state the invariant holds.
THEOREM InvHolds == Spec => []Inv
BY InvInit, InvStep, PTL DEF Spec

\* The state of both ends keeps its types; in particular the credit of a stream
\* never drops below zero, which acquire's subtraction relies on
\* (connection.rs 94-95).
THEOREM TypeCorrect == Spec => []TypeOK
BY InvHolds, PTL DEF Inv

\* No call is answered twice, however its task, cancels and a revocation race
\* (connection.rs 217-220, 270-272, 296-303, 1088-1101).
THEOREM AnsweredAtMostOnce == Spec => []AtMostOneReply
<1>1. Inv => AtMostOneReply
  BY Zenon DEF Inv, CallInv, ReplyInv, AtMostOneReply
<1>2. QED
  BY <1>1, InvHolds, PTL

\* A receiver never holds more unread bytes of a stream than the window it gave,
\* counting those on the wire, whatever the items' sizes and whatever is lost
\* (CreditGate, and poll_next granting credit as items are read).
THEOREM BufferingIsBounded == Spec => []FlowControl
<1>1. Inv => FlowControl
  <2> SUFFICES ASSUME Inv, NEW c \in Calls
               PROVE  Offset[c][sent[c]] <= Window + Offset[c][read[c]]
    BY Zenon DEF FlowControl
  <2>1. /\ credited[c] \in Nat /\ read[c] \in Nat /\ next_seq[c] \in Nat /\ sent[c] \in Nat
        /\ available[c] \in Nat /\ Length[c] \in Nat /\ Window \in Nat
    BY LengthAssumption, WindowAssumption DEF Inv, TypeOK
  <2>2. /\ credited[c] <= read[c] /\ read[c] <= next_seq[c] /\ next_seq[c] <= sent[c]
        /\ sent[c] <= Length[c]
    BY DEF Inv, CallInv, PositionInv
  <2>3. {credited[c], read[c], sent[c]} \subseteq 0 .. Length[c]
    BY <2>1, <2>2
  <2>4. /\ Offset[c][credited[c]] \in Nat /\ Offset[c][read[c]] \in Nat
        /\ Offset[c][sent[c]] \in Nat /\ Offset[c][credited[c]] <= Offset[c][read[c]]
    BY <2>2, <2>3, OffsetAssumption, Zenon
  <2>5. available[c] + Offset[c][sent[c]] <= Window + Offset[c][credited[c]]
    BY DEF Inv, CallInv, CreditInv
  <2>6. QED
    BY <2>1, <2>4, <2>5
<1>2. QED
  BY <1>1, InvHolds, PTL

\* The application reads the items of a stream in order and without a gap, even on
\* a hop that loses chunks (the next_seq check of handle_frame).
THEOREM ReadInOrder == Spec => []InOrder
<1>1. Inv => InOrder
  <2> SUFFICES ASSUME Inv, NEW c \in Calls, NEW i \in DOMAIN rx[c]
               PROVE  /\ i < Len(rx[c]) => rx[c][i].t = "data"
                      /\ rx[c][i].t = "data" => rx[c][i].n = read[c] + i - 1
    BY DEF InOrder
  <2>1. i \in 1 .. Len(rx[c])
    <3>1. rx[c] \in Seq(Events)
      BY DEF Inv, TypeOK
    <3>2. QED
      BY <3>1
  <2>2. QED
    BY <2>1 DEF Inv, CallInv, QueueInv
<1>2. QED
  BY <1>1, InvHolds, PTL

-------------------------------------------------------------------------------
(* The table of calls in flight *)

\* A task sets done before it looks for its entry, and is gone once it has taken it.
StaleInv ==
    \A c \in Calls : /\ c \in inflight => task[c] # "gone"
                     /\ task[c] \in {"deregister", "gone"} => done[c]

\* A step of the task of a call that does not finish it.
GoesOn(c) ==
    /\ \E x \in TaskStates \ {"deregister", "gone"} : task' = [task EXCEPT ![c] = x]
    /\ done' = done /\ inflight' = inflight

\* A step that leaves the tasks where they are, enters no call and resets no flag.
LeavesTasks ==
    /\ task' = task /\ inflight' \subseteq inflight
    /\ \A c \in Calls : done[c] => done'[c]

\* Only Register enters a call, only Finish and Deregister end a task.
LEMMA StaleCases ==
    ASSUME TypeOK, [Next]_vars
    PROVE  \/ LeavesTasks
           \/ \E c \in Calls : GoesOn(c) \/ Register(c) \/ Finish(c) \/ Deregister(c)
<1> USE DEF callerVars, taskVars, gateVars, revokeVars
<1>1. ASSUME NEW c \in Calls, CallerStep(c) PROVE LeavesTasks
  BY <1>1, Zenon
  DEF CallerStep, Request, CallReturns, AbandonCall, SendCancel, PollNext, DropStream, LeavesTasks
<1>2. ASSUME NEW c \in Calls, CallerReader(c) PROVE LeavesTasks
  BY <1>2, Zenon DEF CallerReader, ReceiveReply, ReceiveData, ReceiveEnd, Receive, LeavesTasks
<1>3. ASSUME NEW c \in Calls, LoseChunk(c) \/ FailVictim(c) \/ SendError(c) PROVE LeavesTasks
  BY <1>3, Zenon DEF LoseChunk, FailVictim, SendError, LeavesTasks
<1>4. ASSUME NEW c \in Calls, HandleRequest(c) PROVE LeavesTasks \/ GoesOn(c)
  BY <1>4, Zenon DEF HandleRequest, LeavesTasks, GoesOn, TaskStates
<1>5. ASSUME NEW c \in Calls, HandleCancel(c) PROVE LeavesTasks
  <2>1. task' = task /\ inflight' \subseteq inflight
    BY <1>5, Zenon DEF HandleCancel
  <2>2. done' = done \/ done' = [done EXCEPT ![c] = TRUE]
    BY <1>5, Zenon DEF HandleCancel
  <2>3. \A d \in Calls : done[d] => done'[d]
    BY <2>2, Zenon DEF TypeOK
  <2>4. QED
    BY <2>1, <2>3 DEF LeavesTasks
<1>6. ASSUME NEW c \in Calls, HandleCredit(c) \/ HandleStreamCancel(c) PROVE LeavesTasks
  BY <1>6, Zenon DEF HandleCredit, HandleStreamCancel, LeavesTasks
<1>7. ASSUME NEW c \in Calls, Dispatch(c) \/ Reply(c) \/ SendReply(c) PROVE GoesOn(c)
  BY <1>7 DEF Dispatch, Reply, SendReply, TaskStep, AfterReply, GoesOn, TaskStates
<1>8. ASSUME NEW c \in Calls,
             NextItem(c) \/ ItemsEnd(c) \/ ItemsFail(c) \/ SendItem(c) \/ AcquireFails(c)
      PROVE  GoesOn(c)
  BY <1>8
  DEF NextItem, ItemsEnd, ItemsFail, SendItem, AcquireFails, TaskStep, GoesOn, TaskStates
<1>9. ASSUME NEW c \in Calls, CloseStream(c) \/ Killed(c) \/ Panic(c) PROVE GoesOn(c)
  BY <1>9 DEF CloseStream, Killed, Panic, TaskStep, GoesOn, TaskStates
<1>10. CASE RemoveCapability \/ TakeVictims \/ UNCHANGED vars
  BY <1>10, Zenon DEF RemoveCapability, TakeVictims, vars, LeavesTasks
<1>11. QED
  BY <1>1, <1>2, <1>3, <1>4, <1>5, <1>6, <1>7, <1>8, <1>9, <1>10 DEF Next, CalleeReader, Task

\* No step leaves a finished task behind in the table.
LEMMA StaleStep ==
    ASSUME TypeOK, StaleInv, [Next]_vars
    PROVE  StaleInv'
<1>1. CASE LeavesTasks
  BY <1>1, Zenon DEF LeavesTasks, StaleInv
<1>2. ASSUME NEW c \in Calls, GoesOn(c) PROVE StaleInv'
  <2>1. PICK x \in TaskStates \ {"deregister", "gone"} : task' = [task EXCEPT ![c] = x]
    BY <1>2 DEF GoesOn
  <2>2. \A d \in Calls : task'[d] = task[d] \/ task'[d] \notin {"deregister", "gone"}
    BY <2>1 DEF TypeOK
  <2>3. QED
    BY <1>2, <2>2 DEF GoesOn, StaleInv
<1>3. ASSUME NEW c \in Calls, Register(c) PROVE StaleInv'
  <2>1. /\ task' = task /\ done' = done
        /\ inflight' = inflight \/ (~done[c] /\ inflight' = inflight \cup {c})
    BY <1>3, Zenon DEF Register, taskVars
  <2>2. QED
    BY <2>1 DEF StaleInv
<1>4. ASSUME NEW c \in Calls, Finish(c) PROVE StaleInv'
  <2>1. /\ \A d \in Calls : task'[d] = IF d = c THEN "deregister" ELSE task[d]
        /\ inflight' = inflight
    BY <1>4 DEF Finish, TaskStep, TypeOK
  <2>2. done'[c] /\ \A d \in Calls \ {c} : done'[d] = done[d]
    BY <1>4, Zenon DEF Finish, TypeOK
  <2>3. QED
    BY <2>1, <2>2 DEF StaleInv
<1>5. ASSUME NEW c \in Calls, Deregister(c) PROVE StaleInv'
  <2>1. /\ \A d \in Calls : task'[d] = IF d = c THEN "gone" ELSE task[d]
        /\ inflight' = inflight \ {c} /\ done' = done /\ task[c] = "deregister"
    BY <1>5 DEF Deregister, TaskStep, TypeOK
  <2>2. QED
    BY <2>1 DEF StaleInv
<1>6. QED
  BY <1>1, <1>2, <1>3, <1>4, <1>5, StaleCases

\* The table of calls in flight keeps no entry of a task that ran to its end, whether
\* the reader's insertion or the task's removal comes first (the done flag of
\* handle_request and its task).
THEOREM NothingStale == Spec => []NoStaleInflight
<1>1. Init => StaleInv
  BY DEF Init, StaleInv
<1>2. TypeOK /\ StaleInv /\ [Next]_vars => StaleInv'
  BY StaleStep
<1>3. TypeOK /\ StaleInv => NoStaleInflight
  BY DEF TypeOK, StaleInv, NoStaleInflight
<1>4. QED
  BY <1>1, <1>2, <1>3, TypeCorrect, PTL DEF Spec

-------------------------------------------------------------------------------
(* What the application sees on a hop that loses nothing *)

Closed == {"close", "finish", "deregister", "gone"}

Holds(q, k) == \E i \in 1 .. Len(q) : q[i].t = "data" /\ q[i].n = k
HasEnd(q) == \E i \in 1 .. Len(q) : q[i].t = "s_end"
EndLast(q) == \A i, j \in 1 .. Len(q) : q[i].t = "s_end" /\ q[j].t = "data" => j < i

\* While the receiver holds on to a stream, every item that was sent and not
\* received is on the wire; s_end follows the last of them.
WireInv(c) ==
    /\ caller[c] = "idle" => sent[c] = 0
    /\ HasEnd(toCaller[c]) => sent[c] = Length[c] /\ task[c] \in Closed
    /\ EndLast(toCaller[c])
    /\ c \in incoming =>
          \A k \in 0 .. Length[c] : next_seq[c] <= k /\ k < sent[c] => Holds(toCaller[c], k)

\* The end of a stream stands behind its last item.
EndInv(c) == \A i \in 1 .. Len(rx[c]) : rx[c][i].t = "end" => read[c] + i - 1 = Length[c]

WholeInv == \A c \in Calls : WireInv(c) /\ EndInv(c)

\* The head of a queue is its first element.
LEMMA HeadIsFirst ==
    ASSUME NEW S, NEW q \in Seq(S), q # <<>>
    PROVE  1 \in 1 .. Len(q) /\ Head(q) = q[1]
OBVIOUS

\* What is in a queue when a frame is added to it, or taken.
LEMMA HoldsFacts ==
    ASSUME NEW S, NEW q \in Seq(S)
    PROVE  /\ \A f \in S : \A k :
                 Holds(q, k) \/ (f.t = "data" /\ f.n = k) => Holds(Append(q, f), k)
           /\ \A f \in S : HasEnd(Append(q, f)) => HasEnd(q) \/ f.t = "s_end"
           /\ \A f \in S : EndLast(q) /\ ~(f.t = "data" /\ HasEnd(q)) => EndLast(Append(q, f))
           /\ q # <<>> =>
                 /\ HasEnd(Tail(q)) => HasEnd(q)
                 /\ EndLast(q) => EndLast(Tail(q))
                 /\ \A k : Holds(q, k) => Holds(Tail(q), k) \/ (Head(q).t = "data" /\ Head(q).n = k)
                 /\ Head(q).t = "s_end" /\ EndLast(q) => HasEnd(q) /\ \A k : ~Holds(q, k)
<1>1. ASSUME NEW f \in S
      PROVE  /\ Len(Append(q, f)) = Len(q) + 1 /\ Len(q) \in Nat
             /\ \A i \in 1 .. Len(q) : Append(q, f)[i] = q[i]
             /\ Append(q, f)[Len(q) + 1] = f
  OBVIOUS
<1>2. ASSUME NEW f \in S, NEW k, Holds(q, k) \/ (f.t = "data" /\ f.n = k)
      PROVE  Holds(Append(q, f), k)
  <2>1. CASE Holds(q, k)
    <3>1. PICK i \in 1 .. Len(q) : q[i].t = "data" /\ q[i].n = k
      BY <2>1 DEF Holds
    <3>2. i \in 1 .. Len(Append(q, f)) /\ Append(q, f)[i] = q[i]
      BY <1>1, <3>1
    <3>3. QED
      BY <3>1, <3>2 DEF Holds
  <2>2. CASE f.t = "data" /\ f.n = k
    <3>1. Len(q) + 1 \in 1 .. Len(Append(q, f)) /\ Append(q, f)[Len(q) + 1] = f
      BY <1>1
    <3>2. QED
      BY <2>2, <3>1, Zenon DEF Holds
  <2>3. QED
    BY <1>2, <2>1, <2>2
<1>3. ASSUME NEW f \in S PROVE HasEnd(Append(q, f)) => HasEnd(q) \/ f.t = "s_end"
  BY <1>1, <1>3 DEF HasEnd
<1>4. ASSUME NEW f \in S, EndLast(q), ~(f.t = "data" /\ HasEnd(q)) PROVE EndLast(Append(q, f))
  <2> SUFFICES ASSUME NEW i \in 1 .. Len(Append(q, f)), NEW j \in 1 .. Len(Append(q, f)),
                      Append(q, f)[i].t = "s_end", Append(q, f)[j].t = "data"
               PROVE  j < i
    BY DEF EndLast
  <2>1. (i \in 1 .. Len(q) \/ i = Len(q) + 1) /\ (j \in 1 .. Len(q) \/ j = Len(q) + 1)
    BY <1>1
  <2>2. CASE j = Len(q) + 1
    <3>1. f.t = "data" /\ i \in 1 .. Len(q) /\ q[i].t = "s_end"
      BY <1>1, <2>1, <2>2
    <3>2. QED
      BY <1>4, <3>1 DEF HasEnd
  <2>3. CASE j \in 1 .. Len(q)
    BY <1>1, <1>4, <2>1, <2>3 DEF EndLast
  <2>4. QED
    BY <2>1, <2>2, <2>3
<1>5. ASSUME q # <<>>
      PROVE  /\ Len(Tail(q)) = Len(q) - 1 /\ Len(q) \in Nat \ {0} /\ Head(q) = q[1]
             /\ \A i \in 1 .. Len(Tail(q)) : Tail(q)[i] = q[i + 1] /\ i + 1 \in 1 .. Len(q)
  BY <1>5
<1>6. ASSUME q # <<>>
      PROVE  (HasEnd(Tail(q)) => HasEnd(q)) /\ (EndLast(q) => EndLast(Tail(q)))
  BY <1>5, <1>6 DEF HasEnd, EndLast
<1>7. ASSUME q # <<>>, NEW k, Holds(q, k), ~(Head(q).t = "data" /\ Head(q).n = k)
      PROVE  Holds(Tail(q), k)
  <2>1. PICK i \in 1 .. Len(q) : q[i].t = "data" /\ q[i].n = k
    BY <1>7 DEF Holds
  <2>2. i # 1
    BY <1>5, <1>7, <2>1
  <2>3. i - 1 \in 1 .. Len(Tail(q)) /\ Tail(q)[i - 1] = q[i]
    BY <1>5, <1>7, <2>2
  <2>4. QED
    BY <2>1, <2>3 DEF Holds
<1>8. ASSUME q # <<>>, Head(q).t = "s_end", EndLast(q)
      PROVE  HasEnd(q) /\ \A k : ~Holds(q, k)
  <2>1. 1 \in 1 .. Len(q) /\ q[1].t = "s_end"
    BY <1>5, <1>8
  <2>2. \A j \in 1 .. Len(q) : q[j].t # "data"
    BY <1>8, <2>1 DEF EndLast
  <2>3. QED
    BY <2>1, <2>2 DEF HasEnd, Holds
<1>9. QED
  BY <1>2, <1>3, <1>4, <1>6, <1>7, <1>8

\* What toCaller becomes in a step that neither sends an item or an end nor takes
\* an item.
Plain(q) ==
    {q} \cup {Append(q, f) : f \in {g \in ToCaller : g.t \notin {"data", "s_end"}}}
        \cup {p \in {Tail(q)} : q # <<>> /\ Head(q).t # "data"}

\* A step that leaves the positions of the stream of c where they are.
Quiet(c) ==
    /\ caller'[c] = "idle" => caller[c] = "idle"
    /\ sent'[c] = sent[c] /\ next_seq'[c] = next_seq[c]
    /\ c \in incoming' => c \in incoming
    /\ task[c] \in Closed => task'[c] \in Closed
    /\ toCaller'[c] \in Plain(toCaller[c])

\* Such a step keeps WireInv.
LEMMA QuietKeeps ==
    ASSUME TypeOK, NEW c \in Calls, WireInv(c), Quiet(c)
    PROVE  WireInv(c)'
<1> DEFINE q == toCaller[c]
<1> DEFINE p == toCaller'[c]
<1>1. q \in Seq(ToCaller)
  BY DEF TypeOK
<1>2. EndLast(q)
  BY DEF WireInv
<1>3. /\ HasEnd(p) => HasEnd(q)
      /\ EndLast(p)
      /\ \A k : Holds(q, k) => Holds(p, k)
  <2>1. p \in Plain(q)
    BY DEF Quiet
  <2> HIDE DEF p, q
  <2>2. CASE p = q
    BY <1>2, <2>2
  <2>3. ASSUME NEW f \in ToCaller, f.t \notin {"data", "s_end"}, p = Append(q, f)
        PROVE  /\ HasEnd(p) => HasEnd(q)
               /\ EndLast(p)
               /\ \A k : Holds(q, k) => Holds(p, k)
    BY <1>1, <1>2, <2>3, HoldsFacts, Zenon
  <2>4. CASE p = Tail(q) /\ q # <<>> /\ Head(q).t # "data"
    BY <1>1, <1>2, <2>4, HoldsFacts, Zenon
  <2>5. QED
    BY <2>1, <2>2, <2>3, <2>4, Zenon DEF Plain
<1> HIDE DEF p, q
<1>4. \A k \in 0 .. Length[c] : c \in incoming' /\ next_seq'[c] <= k /\ k < sent'[c] => Holds(p, k)
  BY <1>3 DEF Quiet, WireInv, q
<1>5. HasEnd(p) => sent'[c] = Length[c] /\ task'[c] \in Closed
  BY <1>3 DEF Quiet, WireInv, q
<1>6. caller'[c] = "idle" => sent'[c] = 0
  BY DEF Quiet, WireInv
<1>7. QED
  BY <1>3, <1>4, <1>5, <1>6, Zenon DEF WireInv, p

\* Steps of the caller but for Request and ReceiveData, and of the callee's reader,
\* are of this kind.
LEMMA QuietReaders ==
    ASSUME TypeOK, NEW c \in Calls, CallInv(c),
           \/ CallReturns(c) \/ AbandonCall(c) \/ SendCancel(c) \/ PollNext(c) \/ DropStream(c)
           \/ ReceiveReply(c) \/ ReceiveEnd(c) \/ CalleeReader(c)
           \/ FailVictim(c) \/ SendError(c)
    PROVE  Quiet(c)
<1> USE DEF callerVars, taskVars, gateVars, revokeVars
<1> /\ toCaller \in [Calls -> Seq(ToCaller)] /\ task \in [Calls -> TaskStates]
    /\ caller \in [Calls -> CallerStates]
  BY Zenon DEF TypeOK
<1>1. /\ toCaller[c] \in Plain(toCaller[c])
      /\ toCaller[c] # <<>> /\ Head(toCaller[c]).t # "data" =>
            Tail(toCaller[c]) \in Plain(toCaller[c])
      /\ \A t \in {"res", "err", "s_err"} : Append(toCaller[c], Ctl(t)) \in Plain(toCaller[c])
  BY FrameTypes, Zenon DEF Plain, Ctl
<1>2. CASE CallReturns(c) \/ AbandonCall(c) \/ SendCancel(c) \/ PollNext(c) \/ DropStream(c)
  <2>1. /\ UNCHANGED <<sent, next_seq, task, toCaller>> /\ incoming' \subseteq incoming
    BY <1>2, Zenon DEF CallReturns, AbandonCall, SendCancel, PollNext, DropStream
  <2>2. caller'[c] = "idle" => caller[c] = "idle"
    BY <1>2 DEF CallReturns, AbandonCall, SendCancel, PollNext, DropStream
  <2>3. QED
    BY <1>1, <2>1, <2>2 DEF Quiet
<1>3. CASE ReceiveReply(c) \/ ReceiveEnd(c)
  <2>1. PICK t \in {"res", "err", "s_end", "s_err"} : Receive(c, t)
    BY <1>3, Zenon DEF ReceiveReply, ReceiveEnd
  <2>2. incoming' \subseteq incoming /\ UNCHANGED next_seq
    BY <1>3, Zenon DEF ReceiveReply, ReceiveEnd
  <2>3. /\ UNCHANGED <<sent, task, caller>> /\ toCaller[c] # <<>> /\ Head(toCaller[c]).t = t
        /\ toCaller'[c] = Tail(toCaller[c])
    BY <2>1, Zenon DEF Receive
  <2>4. QED
    BY <1>1, <2>2, <2>3 DEF Quiet
<1>4. CASE HandleRequest(c)
  <2>1. task[c] = "none"
    <3>1. toCallee[c] \in Seq(ToCallee) /\ toCallee[c] # <<>> /\ Head(toCallee[c]).t = "req"
      BY <1>4 DEF HandleRequest, Read, TypeOK
    <3>2. 1 \in 1 .. Len(toCallee[c]) /\ toCallee[c][1].t = "req"
      BY <3>1, HeadIsFirst, Zenon
    <3>3. QED
      BY <3>2 DEF CallInv, RequestInv
  <2>2. UNCHANGED <<caller, next_seq, sent, incoming>>
    BY <1>4 DEF HandleRequest
  <2>3. toCaller'[c] = toCaller[c] \/ toCaller'[c] = Append(toCaller[c], Ctl("err"))
    BY <1>4, Zenon DEF HandleRequest, SendToCaller
  <2>4. QED
    BY <1>1, <2>1, <2>2, <2>3 DEF Quiet, Closed
<1>5. CASE Register(c) \/ HandleCredit(c) \/ HandleStreamCancel(c)
  <2>1. UNCHANGED <<caller, next_seq, sent, incoming, task, toCaller>>
    BY <1>5 DEF Register, HandleCredit, HandleStreamCancel
  <2>2. QED
    BY <1>1, <2>1 DEF Quiet
<1>6. CASE HandleCancel(c) \/ FailVictim(c) \/ SendError(c)
  <2>1. UNCHANGED <<caller, next_seq, sent, incoming, task>>
    BY <1>6, Zenon DEF HandleCancel, FailVictim, SendError
  <2>2. \/ toCaller' = toCaller
        \/ \E t \in {"err", "s_err"} : SendToCaller(c, Ctl(t))
    BY <1>6, Zenon DEF HandleCancel, FailVictim, SendError
  <2>3. \/ toCaller'[c] = toCaller[c]
        \/ \E t \in {"err", "s_err"} : toCaller'[c] = Append(toCaller[c], Ctl(t))
    BY <2>2, Zenon DEF SendToCaller
  <2>4. QED
    BY <1>1, <2>1, <2>3 DEF Quiet
<1>7. QED
  BY <1>2, <1>3, <1>4, <1>5, <1>6 DEF CalleeReader

\* So are steps of the call's task but for ItemsEnd and SendItem.
LEMMA QuietTask ==
    ASSUME TypeOK, NEW c \in Calls, Task(c), ~ItemsEnd(c), ~SendItem(c)
    PROVE  Quiet(c)
<1> USE DEF callerVars, gateVars, TaskStep
<1> toCaller \in [Calls -> Seq(ToCaller)] /\ task \in [Calls -> TaskStates]
  BY Zenon DEF TypeOK
<1>1. UNCHANGED <<caller, next_seq, incoming, sent>>
  BY Zenon DEF Task, Dispatch, Reply, SendReply, NextItem, ItemsFail, AcquireFails, CloseStream,
     Finish, Deregister, Killed, Panic
<1>2. \/ toCaller' = toCaller
      \/ \E t \in {"res", "err", "s_err"} : SendToCaller(c, Ctl(t))
  BY Zenon DEF Task, Dispatch, Reply, SendReply, NextItem, ItemsFail, AcquireFails, CloseStream,
     Finish, Deregister, Killed, Panic
<1>3. toCaller'[c] \in Plain(toCaller[c])
  <2>1. \/ toCaller'[c] = toCaller[c]
        \/ \E t \in {"res", "err", "s_err"} : toCaller'[c] = Append(toCaller[c], Ctl(t))
    BY <1>2, Zenon DEF SendToCaller
  <2>2. \A t \in {"res", "err", "s_err"} : Append(toCaller[c], Ctl(t)) \in Plain(toCaller[c])
    BY FrameTypes, Zenon DEF Plain, Ctl
  <2>3. toCaller[c] \in Plain(toCaller[c])
    BY Zenon DEF Plain
  <2>4. QED
    BY <2>1, <2>2, <2>3, Zenon
<1>4. task[c] \in Closed => task'[c] \in Closed
  <2>1. CASE CloseStream(c) \/ Finish(c) \/ Deregister(c)
    BY <2>1 DEF CloseStream, Finish, Deregister, Closed
  <2>2. CASE Dispatch(c) \/ Reply(c) \/ SendReply(c)
    BY <2>2 DEF Dispatch, Reply, SendReply, Closed
  <2>3. CASE NextItem(c) \/ ItemsFail(c) \/ AcquireFails(c) \/ Killed(c) \/ Panic(c)
    BY <2>3 DEF NextItem, ItemsFail, AcquireFails, Killed, Panic, Waits, Closed
  <2>4. QED
    BY <2>1, <2>2, <2>3 DEF Task
<1>5. QED
  BY <1>1, <1>3, <1>4 DEF Quiet

\* On a hop that loses nothing every step of a call keeps WireInv: an item sent is
\* on the wire until the receiver takes it, in turn, and s_end goes out last.
LEMMA WireStep ==
    ASSUME TypeOK, NEW c \in Calls, CallInv(c), WireInv(c), CallStep(c), ~Lossy
    PROVE  WireInv(c)'
<1> USE DEF callerVars, taskVars, gateVars, revokeVars
<1> DEFINE q == toCaller[c]
<1>1. /\ q \in Seq(ToCaller) /\ sent[c] \in Nat /\ next_seq[c] \in Nat /\ Length[c] \in Nat
      /\ toCaller \in [Calls -> Seq(ToCaller)] /\ sent \in [Calls -> Nat]
      /\ next_seq \in [Calls -> Nat] /\ task \in [Calls -> TaskStates]
      /\ caller \in [Calls -> CallerStates]
  BY LengthAssumption, Zenon DEF TypeOK
<1>2. CASE Request(c)
  <2>1. sent[c] = 0 /\ caller'[c] = "calling" /\ UNCHANGED <<sent, next_seq, task, toCaller>>
    BY <1>1, <1>2, Zenon DEF Request, WireInv
  <2>2. ~\E k \in 0 .. Length[c] : k < sent'[c]
    <3>1. \A b \in Nat : \A k \in 0 .. b : ~(k < 0)
      OBVIOUS
    <3>2. QED
      BY <1>1, <2>1, <3>1, Zenon
  <2>3. QED
    BY <2>1, <2>2, Zenon DEF WireInv
<1>3. CASE ReceiveData(c)
  <2>1. /\ q # <<>> /\ Head(q).t = "data" /\ toCaller'[c] = Tail(q)
        /\ UNCHANGED <<caller, sent, task>>
    BY <1>1, <1>3, Zenon DEF ReceiveData, Receive
  <2>2. /\ HasEnd(Tail(q)) => HasEnd(q)
        /\ EndLast(Tail(q))
        /\ \A k : Holds(q, k) => Holds(Tail(q), k) \/ Head(q).n = k
    BY <1>1, <2>1, HoldsFacts, Zenon DEF WireInv
  <2>3. c \in incoming' =>
          c \in incoming /\ Head(q).n = next_seq[c] /\ next_seq'[c] = next_seq[c] + 1
    BY <1>1, <1>3, Zenon DEF ReceiveData, Expected
  <2>4. ASSUME c \in incoming', NEW k \in 0 .. Length[c], next_seq'[c] <= k, k < sent[c]
        PROVE  Holds(Tail(q), k)
    <3>1. next_seq[c] <= k /\ next_seq[c] # k /\ c \in incoming
      <4>1. next_seq[c] + 1 <= k /\ c \in incoming
        BY <2>3, <2>4, Zenon
      <4>2. \A n \in Nat, b \in Nat : \A j \in 0 .. b : n + 1 <= j => n <= j /\ n # j
        OBVIOUS
      <4>3. next_seq[c] \in Nat /\ Length[c] \in Nat
        BY <1>1, Zenon
      <4>4. QED
        BY <2>4, <4>1, <4>2, <4>3, Zenon
    <3>2. Holds(q, k)
      BY <2>4, <3>1 DEF WireInv
    <3>3. QED
      BY <2>2, <2>3, <2>4, <3>1, <3>2, Zenon
  <2>5. QED
    BY <2>1, <2>2, <2>4, Zenon DEF WireInv
<1>4. CASE ItemsEnd(c)
  <2>1. /\ sent[c] = Length[c] /\ task'[c] = "close" /\ toCaller'[c] = Append(q, Ctl("s_end"))
        /\ UNCHANGED <<caller, incoming, next_seq, sent>>
    BY <1>1, <1>4, Zenon DEF ItemsEnd, TaskStep, SendToCaller
  <2>2. Ctl("s_end") \in ToCaller /\ Ctl("s_end").t = "s_end"
    BY FrameTypes DEF Ctl
  <2>3. /\ EndLast(Append(q, Ctl("s_end")))
        /\ \A k : Holds(q, k) => Holds(Append(q, Ctl("s_end")), k)
    BY <1>1, <2>2, HoldsFacts, Zenon DEF WireInv
  <2>4. QED
    BY <2>1, <2>3, Zenon DEF WireInv, Closed
<1>5. CASE SendItem(c)
  <2> DEFINE f == Numbered("data", sent[c])
  <2>1. /\ task[c] = "acquire" /\ toCaller'[c] = Append(q, f) /\ sent'[c] = sent[c] + 1
        /\ UNCHANGED <<caller, incoming, next_seq>>
    BY <1>1, <1>5, Zenon DEF SendItem, TaskStep, SendToCaller
  <2>2. f \in ToCaller /\ f.t = "data" /\ f.n = sent[c]
    BY <1>1, FrameTypes, Zenon DEF Numbered
  <2>3. ~HasEnd(q) /\ caller[c] # "idle"
    BY <2>1 DEF WireInv, Closed, CallInv, RequestInv
  <2> HIDE DEF f
  <2>4. /\ ~HasEnd(Append(q, f)) /\ EndLast(Append(q, f))
        /\ \A k : Holds(q, k) \/ k = sent[c] => Holds(Append(q, f), k)
    <3>1. f.t # "s_end"
      BY <2>2
    <3>2. ~HasEnd(Append(q, f)) /\ EndLast(Append(q, f))
      BY <1>1, <2>2, <2>3, <3>1, HoldsFacts, Zenon DEF WireInv
    <3>3. \A k : Holds(q, k) \/ (f.t = "data" /\ f.n = k) => Holds(Append(q, f), k)
      <4>1. ASSUME NEW k, Holds(q, k) \/ (f.t = "data" /\ f.n = k) PROVE Holds(Append(q, f), k)
        BY <1>1, <2>2, <4>1, HoldsFacts
      <4>2. QED
        BY <4>1
    <3>4. \A k : k = sent[c] => f.t = "data" /\ f.n = k
      BY <2>2
    <3>5. QED
      BY <3>2, <3>3, <3>4, Zenon
  <2>5. \A k \in 0 .. Length[c] : k < sent[c] + 1 => k < sent[c] \/ k = sent[c]
    BY <1>1
  <2>6. QED
    BY <2>1, <2>3, <2>4, <2>5, Zenon DEF WireInv
<1>6. CASE \/ CallReturns(c) \/ AbandonCall(c) \/ SendCancel(c) \/ PollNext(c) \/ DropStream(c)
           \/ ReceiveReply(c) \/ ReceiveEnd(c) \/ CalleeReader(c)
           \/ FailVictim(c) \/ SendError(c)
  BY <1>6, QuietReaders, QuietKeeps
<1>7. CASE Task(c) /\ ~ItemsEnd(c) /\ ~SendItem(c)
  BY <1>7, QuietTask, QuietKeeps
<1>8. ~LoseChunk(c)
  BY DEF LoseChunk
<1>9. QED
  BY <1>2, <1>3, <1>4, <1>5, <1>6, <1>7, <1>8 DEF CallStep, CallerStep, CallerReader

\* The end that s_end brings to an open channel stands behind the last item.
LEMMA EndComesLast ==
    ASSUME TypeOK, NEW c \in Calls, CallInv(c), WireInv(c), c \in incoming,
           toCaller[c] # <<>>, Head(toCaller[c]).t = "s_end"
    PROVE  next_seq[c] = Length[c]
<1>1. /\ toCaller[c] \in Seq(ToCaller) /\ sent[c] \in Nat /\ next_seq[c] \in Nat
      /\ Length[c] \in Nat
  BY LengthAssumption DEF TypeOK
<1>2. EndLast(toCaller[c])
  BY DEF WireInv
<1>3. HasEnd(toCaller[c]) /\ \A k : ~Holds(toCaller[c], k)
  BY <1>1, <1>2, HoldsFacts, Zenon
<1>4. sent[c] = Length[c]
  BY <1>3 DEF WireInv
<1>5. next_seq[c] <= sent[c]
  BY DEF CallInv, PositionInv
<1>6. ~(next_seq[c] < sent[c])
  <2>1. next_seq[c] \in 0 .. Length[c] /\ next_seq[c] <= next_seq[c]
    BY <1>1, <1>4, <1>5
  <2>2. QED
    BY <1>3, <2>1, Zenon DEF WireInv
<1>7. QED
  BY <1>1, <1>4, <1>5, <1>6

\* An event that is no end, or an end in its place, may be pushed.
LEMMA PushKeepsEnd ==
    ASSUME TypeOK, NEW c \in Calls, CallInv(c), EndInv(c), c \in incoming,
           NEW e \in Events, Push(c, e), e.t = "end" => next_seq[c] = Length[c],
           read'[c] = read[c]
    PROVE  EndInv(c)'
<1>1. /\ rx[c] \in Seq(Events) /\ rx \in [Calls -> Seq(Events)] /\ read[c] \in Nat
  BY Zenon DEF TypeOK
<1>2. CASE caller[c] \in {"calling", "open"}
  <2>1. rx'[c] = Append(rx[c], e)
    BY <1>1, <1>2 DEF Push
  <2>2. /\ Len(rx'[c]) = Len(rx[c]) + 1 /\ Len(rx[c]) \in Nat /\ rx'[c][Len(rx[c]) + 1] = e
        /\ \A i \in 1 .. Len(rx[c]) : rx'[c][i] = rx[c][i]
    BY <1>1, <2>1
  <2>3. read[c] + Len(rx[c]) = next_seq[c]
    BY <1>2 DEF CallInv, QueueInv
  <2>4. ASSUME NEW i \in 1 .. Len(rx'[c]), rx'[c][i].t = "end"
        PROVE  read'[c] + i - 1 = Length[c]
    <3>1. i \in 1 .. Len(rx[c]) \/ i = Len(rx[c]) + 1
      BY <2>2, Arithmetic, Zenon
    <3>2. CASE i \in 1 .. Len(rx[c])
      BY <2>2, <2>4, <3>2 DEF EndInv
    <3>3. CASE i = Len(rx[c]) + 1
      <4>1. next_seq[c] = Length[c]
        BY <2>2, <2>4, <3>3
      <4>2. QED
        BY <1>1, <2>2, <2>3, <3>3, <4>1
    <3>4. QED
      BY <3>1, <3>2, <3>3
  <2>5. QED
    BY <2>4 DEF EndInv
<1>3. CASE caller[c] \notin {"calling", "open"}
  <2>1. rx'[c] = rx[c]
    BY <1>1, <1>3 DEF Push
  <2>2. QED
    BY <2>1 DEF EndInv
<1>4. QED
  BY <1>2, <1>3

\* EndInv is kept: the reader pushes an end for an s_end only, and reading an item
\* moves what is behind it one place forward.
LEMMA EndStep ==
    ASSUME TypeOK, NEW c \in Calls, CallInv(c), WireInv(c), EndInv(c), CallStep(c)
    PROVE  EndInv(c)'
<1> USE DEF callerVars
<1> /\ rx[c] \in Seq(Events) /\ rx \in [Calls -> Seq(Events)]
    /\ read[c] \in Nat /\ read \in [Calls -> Nat]
  BY Zenon DEF TypeOK
<1>1. CASE UNCHANGED <<rx, read>>
  BY <1>1 DEF EndInv
<1>2. CASE rx'[c] = <<>>
  <2>1. 1 .. Len(rx'[c]) = {}
    BY <1>2
  <2>2. QED
    BY <2>1, Zenon DEF EndInv
<1>3. CASE PollNext(c)
  <2>1. rx'[c] = Tail(rx[c]) /\ rx[c] # <<>>
    BY <1>3, Zenon DEF PollNext
  <2>2. /\ Len(rx'[c]) = Len(rx[c]) - 1 /\ Len(rx[c]) \in Nat \ {0} /\ Head(rx[c]) = rx[c][1]
        /\ \A i \in 1 .. Len(rx'[c]) : rx'[c][i] = rx[c][i + 1] /\ i + 1 \in 1 .. Len(rx[c])
    BY <2>1
  <2>3. CASE Head(rx[c]).t = "data"
    <3>1. read'[c] = read[c] + 1
      BY <1>3, <2>3, Zenon DEF PollNext
    <3>2. ASSUME NEW i \in 1 .. Len(rx'[c]), rx'[c][i].t = "end"
          PROVE  read'[c] + i - 1 = Length[c]
      <4>1. read[c] + (i + 1) - 1 = Length[c]
        BY <2>2, <3>2 DEF EndInv
      <4>2. QED
        BY <3>1, <4>1
    <3>3. QED
      BY <3>2 DEF EndInv
  <2>4. CASE Head(rx[c]).t # "data"
    <3>1. ~(1 < Len(rx[c]))
      <4>1. 1 \in 1 .. Len(rx[c]) /\ rx[c][1].t # "data"
        BY <2>1, <2>4, HeadIsFirst, Zenon
      <4>2. QED
        BY <4>1, Zenon DEF CallInv, QueueInv
    <3>2. 1 .. Len(rx'[c]) = {}
      BY <2>2, <3>1
    <3>3. QED
      BY <3>2, Zenon DEF EndInv
  <2>5. QED
    BY <2>3, <2>4
<1>4. CASE Request(c) \/ CallReturns(c) \/ AbandonCall(c) \/ SendCancel(c) \/ DropStream(c)
  <2>1. UNCHANGED <<rx, read>> \/ rx'[c] = <<>>
    BY <1>4, Zenon DEF Request, CallReturns, AbandonCall, SendCancel, DropStream
  <2>2. QED
    BY <1>1, <1>2, <2>1
<1>5. CASE ReceiveReply(c) \/ (ReceiveData(c) /\ c \notin incoming)
  BY <1>1, <1>5, Zenon DEF ReceiveReply, ReceiveData, Receive
<1>6. CASE ReceiveData(c) /\ c \in incoming
  <2>1. PICK e \in Events : e.t # "end" /\ Push(c, e)
    <3>1. Head(toCaller[c]).n \in Nat
      BY <1>6, Receives DEF ReceiveData, Receive, ToCaller
    <3>2. /\ Ctl("failed") \in Events /\ Ctl("failed").t # "end"
          /\ Numbered("data", Head(toCaller[c]).n) \in Events
          /\ Numbered("data", Head(toCaller[c]).n).t # "end"
      BY <3>1, FrameTypes DEF Ctl, Numbered
    <3>3. QED
      BY <1>6, <3>2, Zenon DEF ReceiveData
  <2>2. read' = read
    BY <1>6, Zenon DEF ReceiveData, Receive
  <2>3. QED
    BY <1>6, <2>1, <2>2, PushKeepsEnd, Zenon
<1>7. CASE ReceiveEnd(c)
  <2>1. PICK t \in {"s_end", "s_err"} :
              /\ Receive(c, t)
              /\ IF c \in incoming THEN Push(c, Ctl(IF t = "s_end" THEN "end" ELSE "failed"))
                                   ELSE UNCHANGED rx
    BY <1>7, Zenon DEF ReceiveEnd
  <2>2. read' = read /\ toCaller[c] # <<>> /\ Head(toCaller[c]).t = t
    BY <2>1, Zenon DEF Receive
  <2>3. CASE c \in incoming
    <3> DEFINE e == Ctl(IF t = "s_end" THEN "end" ELSE "failed")
    <3>1. e \in Events /\ (e.t = "end" => t = "s_end") /\ Push(c, e)
      BY <2>1, <2>3, FrameTypes DEF Ctl
    <3> HIDE DEF e
    <3>2. e.t = "end" => next_seq[c] = Length[c]
      BY <2>2, <2>3, <3>1, EndComesLast, Zenon
    <3>3. QED
      BY <2>2, <2>3, <3>1, <3>2, PushKeepsEnd, Zenon
  <2>4. QED
    BY <1>1, <2>1, <2>2, <2>3
<1>8. CASE LoseChunk(c) \/ FailVictim(c) \/ SendError(c) \/ CalleeReader(c)
  BY <1>1, <1>8, Zenon DEF LoseChunk, FailVictim, SendError, CalleeReader, HandleRequest,
     Register, HandleCancel, HandleCredit, HandleStreamCancel
<1>9. CASE Task(c)
  BY <1>1, <1>9, Zenon DEF Task, TaskStep, Dispatch, Reply, SendReply, NextItem, ItemsEnd,
     ItemsFail, SendItem, AcquireFails, CloseStream, Finish, Deregister, Killed, Panic
<1>10. CASE CallerStep(c)
  BY <1>3, <1>4, <1>10 DEF CallerStep
<1>11. CASE CallerReader(c)
  BY <1>5, <1>6, <1>7, <1>11 DEF CallerReader
<1>12. QED
  BY <1>8, <1>9, <1>10, <1>11 DEF CallStep

\* Where nothing is lost every step keeps WholeInv.
LEMMA WholeStep ==
    ASSUME Inv, WholeInv, [Next]_vars, ~Lossy
    PROVE  WholeInv'
<1>1. TypeOK /\ \A c \in Calls : CallInv(c) /\ WireInv(c) /\ EndInv(c)
  BY DEF Inv, WholeInv
<1>2. ASSUME NEW d \in Calls,
             /\ caller'[d] = caller[d] /\ rx'[d] = rx[d] /\ read'[d] = read[d]
             /\ next_seq'[d] = next_seq[d] /\ (d \in incoming' <=> d \in incoming)
             /\ toCaller'[d] = toCaller[d] /\ task'[d] = task[d] /\ sent'[d] = sent[d]
      PROVE  WireInv(d)' /\ EndInv(d)'
  BY <1>1, <1>2, Zenon DEF WireInv, EndInv
<1>3. ASSUME NEW c \in Calls, CallStep(c), NEW d \in Calls PROVE WireInv(d)' /\ EndInv(d)'
  <2>1. CASE d = c
    BY <1>1, <1>3, <2>1, WireStep, EndStep
  <2>2. CASE d # c
    BY <1>1, <1>2, <1>3, <2>2, OtherCalls DEF Same
  <2>3. QED
    BY <2>1, <2>2
<1>4. ASSUME RemoveCapability \/ TakeVictims \/ UNCHANGED vars, NEW d \in Calls
      PROVE  WireInv(d)' /\ EndInv(d)'
  BY <1>2, <1>4 DEF RemoveCapability, TakeVictims, vars, callerVars, taskVars
<1>5. QED
  BY <1>3, <1>4 DEF Next, CallStep, WholeInv

\* Each step is one of the application's or leaves what it sees alone: poll_next
\* yields an item only while there is one, and the end only behind the last.
LEMMA ApplicationStep ==
    ASSUME Inv, WholeInv, [Next]_vars
    PROVE  [Application!Next]_(Application!vars)
<1> USE DEF callerVars, Application!Move
<1>1. ASSUME NEW c \in Calls, PollNext(c)
      PROVE  Application!Deliver(c) \/ Application!End(c) \/ Application!Break(c)
  <2>1. /\ rx[c] \in Seq(Events) /\ read[c] \in Nat /\ next_seq[c] \in Nat /\ sent[c] \in Nat
        /\ Length[c] \in Nat
    BY LengthAssumption DEF Inv, TypeOK
  <2>2. caller[c] = "open" /\ rx[c] # <<>>
    BY <1>1 DEF PollNext
  <2>3. 1 \in 1 .. Len(rx[c]) /\ Head(rx[c]) = rx[c][1]
    BY <2>1, <2>2
  <2>4. CASE Head(rx[c]).t = "data"
    <3>1. rx[c][1].n = read[c] + 1 - 1 /\ rx[c][1].n < next_seq[c]
      BY <2>3, <2>4 DEF Inv, CallInv, QueueInv
    <3>2. next_seq[c] <= sent[c] /\ sent[c] <= Length[c]
      BY DEF Inv, CallInv, PositionInv
    <3>3. read[c] < Length[c]
      <4>1. read[c] + 1 - 1 = read[c]
        BY <2>1, Places, Zenon
      <4>2. read[c] < next_seq[c]
        BY <3>1, <4>1, Zenon
      <4>3. read[c] < sent[c]
        BY <2>1, <3>2, <4>2, Before, Zenon
      <4>4. QED
        BY <2>1, <3>2, <4>3, Before, Zenon
    <3>4. read' = [read EXCEPT ![c] = @ + 1] /\ caller' = caller
      BY <1>1, <2>4, Zenon DEF PollNext
    <3>5. QED
      BY <2>2, <3>3, <3>4 DEF Application!Deliver
  <2>5. CASE Head(rx[c]).t = "end"
    <3>1. read[c] + 1 - 1 = Length[c]
      BY <2>3, <2>5 DEF WholeInv, EndInv
    <3>2. caller' = [caller EXCEPT ![c] = "ended"] /\ read' = read
      BY <1>1, <2>5 DEF PollNext
    <3>3. QED
      BY <2>1, <2>2, <3>1, <3>2, Places, Zenon DEF Application!End
  <2>6. CASE Head(rx[c]).t = "failed"
    <3>1. caller' = [caller EXCEPT ![c] = "broken"] /\ read' = read
      BY <1>1, <2>6 DEF PollNext
    <3>2. QED
      BY <2>2, <3>1 DEF Application!Break
  <2>7. QED
    BY <1>1, <2>4, <2>5, <2>6 DEF PollNext
<1>2. ASSUME NEW c \in Calls, CallerStep(c) PROVE Application!Next \/ UNCHANGED <<caller, read>>
  <2>1. CASE Request(c)
    BY <2>1, Zenon DEF Request, Application!Next, Application!Issue
  <2>2. CASE CallReturns(c)
    BY <2>2, Zenon DEF CallReturns, Application!Next, Application!Return
  <2>3. CASE AbandonCall(c) \/ DropStream(c)
    BY <2>3, Zenon DEF AbandonCall, DropStream, Application!Next, Application!GiveUp
  <2>4. CASE SendCancel(c)
    BY <2>4, Zenon DEF SendCancel
  <2>5. CASE PollNext(c)
    BY <1>1, <2>5, Zenon DEF Application!Next
  <2>6. QED
    BY <1>2, <2>1, <2>2, <2>3, <2>4, <2>5 DEF CallerStep
<1>3. ASSUME NEW c \in Calls, CallerReader(c) \/ LoseChunk(c) \/ FailVictim(c) \/ SendError(c)
      PROVE  UNCHANGED <<caller, read>>
  BY <1>3, Zenon DEF CallerReader, ReceiveReply, ReceiveData, ReceiveEnd, Receive, LoseChunk,
     FailVictim, SendError
<1>4. ASSUME NEW c \in Calls, CalleeReader(c) PROVE UNCHANGED <<caller, read>>
  BY <1>4, Zenon DEF CalleeReader, HandleRequest, Register, HandleCancel, HandleCredit,
     HandleStreamCancel
<1>5. ASSUME NEW c \in Calls, Task(c) PROVE UNCHANGED <<caller, read>>
  BY <1>5, Zenon DEF Task, TaskStep, Dispatch, Reply, SendReply, NextItem, ItemsEnd,
     ItemsFail, SendItem, AcquireFails, CloseStream, Finish, Deregister, Killed, Panic
<1>6. CASE RemoveCapability \/ TakeVictims \/ UNCHANGED vars
  BY <1>6, Zenon DEF RemoveCapability, TakeVictims, vars, Application!vars
<1>7. QED
  BY <1>2, <1>3, <1>4, <1>5, <1>6, Zenon DEF Next, Application!vars

\* Where no chunk is lost the application sees of its calls what RemoteCall promises:
\* every item once and in order, a clean end only after the last, nothing behind it
\* (call_streaming_raw, handle_frame and poll_next, for any content and window).
THEOREM SeenByApplication == ~Lossy => (Spec => ImplementsRemoteCall)
<1> SUFFICES ASSUME ~Lossy PROVE Spec => ImplementsRemoteCall
  OBVIOUS
<1>1. Init => WholeInv
  <2> SUFFICES ASSUME Init, NEW c \in Calls PROVE WireInv(c) /\ EndInv(c)
    BY DEF WholeInv
  <2>1. 1 .. Len(toCaller[c]) = {} /\ 1 .. Len(rx[c]) = {}
    BY DEF Init
  <2>2. sent[c] = 0 /\ c \notin incoming
    BY DEF Init
  <2>3. QED
    BY <2>1, <2>2, Zenon DEF WireInv, EndInv, HasEnd, EndLast
<1>2. Inv /\ WholeInv /\ [Next]_vars => WholeInv'
  BY WholeStep
<1>3. Init => Application!Init
  BY DEF Init, Application!Init
<1>4. Inv /\ WholeInv /\ [Next]_vars => [Application!Next]_(Application!vars)
  BY ApplicationStep
<1>5. QED
  BY <1>1, <1>2, <1>3, <1>4, InvHolds, PTL DEF Spec, ImplementsRemoteCall, Application!Spec
===============================================================================
