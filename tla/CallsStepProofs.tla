--------------------------- MODULE CallsStepProofs ----------------------------
(***************************************************************************)
(* A step of one call leaves the others alone, and keeps the call's own    *)
(* request, reply and credit invariants.                                   *)
(***************************************************************************)
EXTENDS CallsInvariant

-------------------------------------------------------------------------------
(* The invariant of each call is kept *)

\* A step leaves alone what CallInv says of call d.
Same(d) ==
    /\ caller'[d] = caller[d] /\ rx'[d] = rx[d] /\ read'[d] = read[d]
    /\ next_seq'[d] = next_seq[d] /\ (d \in incoming' <=> d \in incoming)
    /\ toCaller'[d] = toCaller[d] /\ toCallee'[d] = toCallee[d]
    /\ task'[d] = task[d] /\ replied'[d] = replied[d] /\ replies'[d] = replies[d]
    /\ sent'[d] = sent[d] /\ available'[d] = available[d] /\ credited'[d] = credited[d]
    /\ (d \in inflight' <=> d \in inflight) /\ (d \in victims' <=> d \in victims)
    /\ (reader' = d <=> reader = d) /\ (d \in owed' <=> d \in owed)

\* A step of one call leaves every other call alone.
LEMMA OtherCalls ==
    ASSUME TypeOK, NEW d \in Calls, NEW c \in Calls, c # d, CallStep(c)
    PROVE  Same(d)
<1> USE CallsAssumption DEF Same, TypeOK, callerVars, taskVars, gateVars, revokeVars
<1>1. CASE Request(c)
  BY <1>1, Zenon DEF Request, SendToCallee
<1>2. CASE CallReturns(c)
  BY <1>2, Zenon DEF CallReturns
<1>3. CASE AbandonCall(c)
  BY <1>3 DEF AbandonCall
<1>4. CASE SendCancel(c)
  BY <1>4 DEF SendCancel, SendToCallee
<1>5. CASE PollNext(c)
  BY <1>5, Zenon DEF PollNext, SendToCallee
<1>6. CASE DropStream(c)
  BY <1>6, Zenon DEF DropStream, SendToCallee
<1>7. CASE ReceiveReply(c)
  BY <1>7 DEF ReceiveReply, Receive
<1>8. CASE ReceiveData(c)
  BY <1>8, Zenon DEF ReceiveData, Receive, Push, SendToCallee
<1>9. CASE ReceiveEnd(c)
  <2>1. PICK t \in {"s_end", "s_err"} :
              /\ Receive(c, t)
              /\ incoming' = incoming \ {c}
              /\ rx' = rx \/ Push(c, Ctl(IF t = "s_end" THEN "end" ELSE "failed"))
              /\ UNCHANGED <<next_seq, toCallee>>
    BY <1>9, Zenon DEF ReceiveEnd
  <2>2. QED
    BY <2>1, Zenon DEF Receive, Push
<1>10. CASE LoseChunk(c)
  BY <1>10 DEF LoseChunk
<1>11. CASE HandleRequest(c)
  BY <1>11, Zenon DEF HandleRequest, Read, SendToCaller
<1>12. CASE Register(c)
  BY <1>12, Zenon DEF Register
<1>13. CASE HandleCancel(c)
  <2>1. toCallee' = [toCallee EXCEPT ![c] = Tail(@)] /\ reader = None
    BY <1>13, Zenon DEF HandleCancel, Read
  <2>2. /\ replied' = replied \/ replied' = [replied EXCEPT ![c] = TRUE]
        /\ inflight' = inflight \/ inflight' = inflight \ {c}
        /\ toCaller' = toCaller \/ toCaller' = [toCaller EXCEPT ![c] = Append(@, Ctl("s_err"))]
    BY <1>13, Zenon DEF HandleCancel, SendToCaller
  <2>3. /\ owed' = owed \/ owed' = owed \cup {c}
        /\ reader' = reader \/ reader' = c
    BY <1>13, Zenon DEF HandleCancel
  <2>4. /\ UNCHANGED <<task, replies, sent, available, credited>>
        /\ UNCHANGED <<caller, rx, read, next_seq, incoming, victims>>
    BY <1>13, Zenon DEF HandleCancel
  <2>5. toCallee'[d] = toCallee[d] /\ toCaller'[d] = toCaller[d] /\ replied'[d] = replied[d]
    BY <2>1, <2>2, Zenon
  <2>6. /\ d \in inflight' <=> d \in inflight
        /\ d \in owed' <=> d \in owed
        /\ reader' = d <=> reader = d
    BY <2>1, <2>2, <2>3, Zenon
  <2>7. QED
    BY <2>4, <2>5, <2>6, Zenon
<1>14. CASE HandleCredit(c)
  BY <1>14, Zenon DEF HandleCredit, Read
<1>15. CASE HandleStreamCancel(c)
  BY <1>15 DEF HandleStreamCancel, Read
<1>16. CASE Dispatch(c)
  BY <1>16, Zenon DEF Dispatch, TaskStep
<1>17. CASE Reply(c)
  BY <1>17, ZenonT(60) DEF Reply, TaskStep
<1>18. CASE SendReply(c)
  BY <1>18 DEF SendReply, TaskStep, SendToCaller
<1>19. CASE NextItem(c)
  BY <1>19 DEF NextItem, TaskStep
<1>20. CASE ItemsEnd(c)
  BY <1>20 DEF ItemsEnd, TaskStep, SendToCaller
<1>21. CASE ItemsFail(c)
  BY <1>21 DEF ItemsFail, TaskStep, SendToCaller
<1>22. CASE SendItem(c)
  BY <1>22 DEF SendItem, TaskStep, SendToCaller
<1>23. CASE AcquireFails(c)
  BY <1>23 DEF AcquireFails, TaskStep
<1>24. CASE CloseStream(c)
  BY <1>24 DEF CloseStream, TaskStep
<1>25. CASE Finish(c)
  BY <1>25 DEF Finish, TaskStep
<1>26. CASE Deregister(c)
  BY <1>26, Zenon DEF Deregister, TaskStep
<1>27. CASE Killed(c)
  BY <1>27 DEF Killed, TaskStep
<1>28. CASE Panic(c)
  BY <1>28 DEF Panic, TaskStep
<1>29. CASE FailVictim(c)
  BY <1>29, Zenon DEF FailVictim, SendToCaller
<1>30. CASE SendError(c)
  BY <1>30, Zenon DEF SendError, SendToCaller
<1>31. QED
  BY <1>1, <1>2, <1>3, <1>4, <1>5, <1>6, <1>7, <1>8, <1>9, <1>10, <1>11, <1>12, Zenon,
     <1>13, <1>14,
     <1>15, <1>16, <1>17, <1>18, <1>19, <1>20, <1>21, <1>22, <1>23, <1>24, <1>25,
     <1>26, <1>27, <1>28, <1>29, <1>30
  DEF CallStep, CallerStep, CallerReader, CalleeReader, Task

\* A call that is left alone keeps its invariant.
LEMMA SameKeepsInv == ASSUME NEW d \in Calls, CallInv(d), Same(d) PROVE CallInv(d)'
<1>1. RequestInv(d)' /\ ReplyInv(d)'
  BY DEF Same, CallInv, RequestInv, ReplyInv
<1>2. PositionInv(d)'
  BY DEF Same, CallInv, PositionInv, FirstOnWire
<1>3. QueueInv(d)' /\ CreditInv(d)'
  BY DEF Same, CallInv, QueueInv, CreditInv
<1>4. QED
  BY <1>1, <1>2, <1>3 DEF CallInv

\* RequestInv is kept: what is sent after the request is no request, what is left
\* once a frame is taken holds none, and a call with a task has had its request.
LEMMA RequestStep ==
    ASSUME TypeOK, NEW c \in Calls, CallInv(c), CallStep(c)
    PROVE  RequestInv(c)'
<1> RequestInv(c) /\ ReplyInv(c) /\ QueueInv(c)
  BY DEF CallInv
<1> toCallee \in [Calls -> Seq(ToCallee)] /\ caller \in [Calls -> CallerStates]
  BY Zenon DEF TypeOK
<1> USE DEF callerVars, taskVars
<1>1. CASE UNCHANGED <<caller, toCallee, task, replies>>
  BY <1>1 DEF RequestInv
<1>2. ASSUME NEW f \in ToCallee, f.t # "req", caller[c] # "idle", caller'[c] # "idle",
             toCallee'[c] \in {toCallee[c], Append(toCallee[c], f)},
             UNCHANGED <<task, replies>>
      PROVE  RequestInv(c)'
  <2>1. CASE toCallee'[c] = toCallee[c]
    BY <1>2, <2>1 DEF RequestInv
  <2>2. CASE toCallee'[c] = Append(toCallee[c], f)
    <3>1. \A i \in 1 .. Len(toCallee'[c]) :
             toCallee'[c][i].t = "req" => i \in 1 .. Len(toCallee[c]) /\ toCallee[c][i].t = "req"
      BY <1>2, <2>2
    <3>2. QED
      BY <1>2, <3>1 DEF RequestInv
  <2>3. QED
    BY <1>2, <2>1, <2>2
<1>3. ASSUME toCallee[c] # <<>>, toCallee'[c] = Tail(toCallee[c]), UNCHANGED caller
      PROVE  RequestInv(c)'
  BY <1>3 DEF RequestInv
<1>4. ASSUME task[c] # "none", task'[c] # "none", UNCHANGED <<caller, toCallee>>
      PROVE  RequestInv(c)'
  BY <1>4 DEF RequestInv
<1>5. CASE Request(c)
  <2>1. toCallee'[c] = <<Ctl("req")>> /\ caller'[c] = "calling"
    BY <1>5 DEF Request, SendToCallee, RequestInv
  <2>2. QED
    BY <1>5, <2>1 DEF Request, RequestInv
<1>6. CASE CallReturns(c) \/ AbandonCall(c) \/ SendCancel(c) \/ DropStream(c)
  <2>1. caller[c] # "idle" /\ caller'[c] # "idle" /\ UNCHANGED <<task, replies>>
    BY <1>6 DEF CallReturns, AbandonCall, SendCancel, DropStream
  <2>2. \E f \in {Ctl("cancel"), Ctl("s_cancel")} :
           toCallee'[c] \in {toCallee[c], Append(toCallee[c], f)}
    BY <1>6 DEF CallReturns, AbandonCall, SendCancel, DropStream, SendToCallee
  <2>3. QED
    BY <1>2, <2>1, <2>2, FrameTypes DEF Ctl
<1>7. CASE PollNext(c)
  <2>1. caller[c] # "idle" /\ caller'[c] # "idle" /\ UNCHANGED <<task, replies>>
    BY <1>7 DEF PollNext
  <2>2. Head(rx[c]).n \in Nat
    BY <1>7, Receives, FrameTypes DEF PollNext
  <2>3. toCallee'[c] \in {toCallee[c],
                          Append(toCallee[c], Numbered("s_credit", Head(rx[c]).n))}
    BY <1>7 DEF PollNext, SendToCallee
  <2>4. QED
    BY <1>2, <2>1, <2>2, <2>3, FrameTypes, Zenon DEF Numbered
<1>8. CASE ReceiveData(c)
  <2>1. CASE c \in incoming
    <3>1. caller[c] # "idle" /\ caller'[c] # "idle" /\ UNCHANGED <<task, replies>>
      BY <1>8, <2>1 DEF ReceiveData, Receive, QueueInv
    <3>2. toCallee'[c] \in {toCallee[c], Append(toCallee[c], Ctl("s_cancel"))}
      BY <1>8, <2>1 DEF ReceiveData, SendToCallee
    <3>3. QED
      BY <1>2, <3>1, <3>2, FrameTypes DEF Ctl
  <2>2. CASE c \notin incoming
    BY <1>1, <1>8, <2>2 DEF ReceiveData, Receive
  <2>3. QED
    BY <2>1, <2>2
<1>9. CASE ReceiveReply(c) \/ ReceiveEnd(c) \/ LoseChunk(c) \/ Register(c)
  BY <1>1, <1>9 DEF ReceiveReply, ReceiveEnd, Receive, LoseChunk, Register
<1>10. CASE HandleRequest(c) \/ HandleCancel(c) \/ HandleCredit(c) \/ HandleStreamCancel(c)
  <2>1. toCallee[c] # <<>> /\ toCallee'[c] = Tail(toCallee[c]) /\ UNCHANGED caller
    BY <1>10 DEF HandleRequest, HandleCancel, HandleCredit, HandleStreamCancel, Read
  <2>2. QED
    BY <1>3, <2>1
<1>11. CASE Task(c)
  <2>1. \E from, to \in TaskStates \ {"none"} : TaskStep(c, from, to)
    BY <1>11 DEF Task, Dispatch, Reply, SendReply, NextItem, ItemsEnd, ItemsFail,
       SendItem, AcquireFails, CloseStream, Finish, Deregister, Killed, Panic, Waits,
       AfterReply, TaskStates
  <2>2. task \in [Calls -> TaskStates]
    BY DEF TypeOK
  <2>3. QED
    BY <1>4, <2>1, <2>2 DEF TaskStep
<1>12. CASE FailVictim(c) \/ SendError(c)
  <2>1. task[c] # "none" /\ UNCHANGED <<caller, toCallee, task>>
    BY <1>12 DEF FailVictim, SendError, ReplyInv
  <2>2. QED
    BY <1>4, <2>1
<1>13. QED
  BY <1>5, <1>6, <1>7, <1>8, <1>9, <1>10, <1>11, <1>12
  DEF CallStep, CallerStep, CallerReader, CalleeReader

\* ReplyInv is kept: the swap of replied decides who answers, once and for all.
LEMMA ReplyStep ==
    ASSUME TypeOK, NEW c \in Calls, CallInv(c), CallStep(c)
    PROVE  ReplyInv(c)'
<1> RequestInv(c) /\ ReplyInv(c)
  BY DEF CallInv
<1> /\ task \in [Calls -> TaskStates] /\ replied \in [Calls -> BOOLEAN]
    /\ replies \in [Calls -> Nat] /\ toCallee \in [Calls -> Seq(ToCallee)]
  BY Zenon DEF TypeOK
<1> USE CallsAssumption DEF callerVars, taskVars, revokeVars
<1>1. CASE UNCHANGED <<task, replied, replies, inflight, victims, owed, reader>>
  BY <1>1 DEF ReplyInv
<1>2. CASE \/ CallerStep(c) \/ CallerReader(c) \/ LoseChunk(c)
           \/ HandleCredit(c) \/ HandleStreamCancel(c)
  BY <1>1, <1>2, Zenon DEF CallerStep, Request, CallReturns, AbandonCall, SendCancel, PollNext,
     DropStream, CallerReader, ReceiveReply, ReceiveData, ReceiveEnd, Receive, LoseChunk,
     HandleCredit, HandleStreamCancel
<1>3. CASE HandleRequest(c)
  <2>1. task[c] = "none" /\ replies[c] = 0
    <3>1. 1 \in 1 .. Len(toCallee[c]) /\ toCallee[c][1].t = "req"
      BY <1>3 DEF HandleRequest, Read
    <3>2. QED
      BY <3>1 DEF RequestInv
  <2>2. QED
    BY <1>3, <2>1 DEF HandleRequest, Read, ReplyInv
<1>4. CASE Register(c)
  BY <1>4 DEF Register, ReplyInv
<1>5. CASE HandleCancel(c)
  BY <1>5 DEF HandleCancel, WinsReply, ReplyInv
<1>6. CASE Reply(c)
  BY <1>6 DEF Reply, TaskStep, AfterReply, WinsReply, ReplyInv
<1>7. CASE SendReply(c)
  BY <1>7 DEF SendReply, TaskStep, AfterReply, ReplyInv
<1>8. CASE Task(c) /\ ~Reply(c) /\ ~SendReply(c)
  <2>1. \E from, to \in TaskStates \ {"none", "send_res", "send_err"} : TaskStep(c, from, to)
    BY <1>8 DEF Task, Dispatch, NextItem, ItemsEnd, ItemsFail, SendItem, AcquireFails,
       CloseStream, Finish, Deregister, Killed, Panic, Waits, TaskStates
  <2>2. UNCHANGED <<replied, replies>>
    BY <1>8 DEF Task, Dispatch, NextItem, ItemsEnd, ItemsFail, SendItem, AcquireFails,
       CloseStream, Finish, Deregister, Killed, Panic
  <2>3. QED
    BY <2>1, <2>2 DEF TaskStep, ReplyInv
<1>9. CASE FailVictim(c)
  BY <1>9 DEF FailVictim, WinsReply, ReplyInv
<1>10. CASE SendError(c)
  BY <1>10 DEF SendError, ReplyInv
<1>11. QED
  BY <1>2, <1>3, <1>4, <1>5, <1>6, <1>7, <1>8, <1>9, <1>10 DEF CallStep, CalleeReader

\* CreditInv is kept: SendItem turns credit into bytes sent, HandleCredit turns
\* bytes credited into credit, and nothing else touches either.
LEMMA CreditStep ==
    ASSUME TypeOK, TypeOK', NEW c \in Calls, CallInv(c), CallStep(c)
    PROVE  CreditInv(c)'
<1> PositionInv(c) /\ CreditInv(c)
  BY DEF CallInv
<1> /\ credited[c] \in Nat /\ read[c] \in Nat /\ next_seq[c] \in Nat /\ sent[c] \in Nat
    /\ available[c] \in Nat /\ Length[c] \in Nat /\ Window \in Nat
  BY LengthAssumption, WindowAssumption DEF TypeOK
<1> USE DEF callerVars, taskVars, gateVars
<1>1. CASE UNCHANGED <<sent, available, credited>>
  BY <1>1 DEF CreditInv
<1>2. CASE CallerStep(c) \/ CallerReader(c) \/ LoseChunk(c) \/ FailVictim(c) \/ SendError(c)
  BY <1>1, <1>2 DEF CallerStep, Request, CallReturns, AbandonCall, SendCancel, PollNext,
     DropStream, CallerReader, ReceiveReply, ReceiveData, ReceiveEnd, Receive, LoseChunk,
     FailVictim, SendError
<1>3. CASE HandleRequest(c) \/ Register(c) \/ HandleCancel(c) \/ HandleStreamCancel(c)
  BY <1>1, <1>3 DEF HandleRequest, Register, HandleCancel, HandleStreamCancel
<1>4. CASE HandleCredit(c)
  <2> DEFINE k == Head(toCallee[c]).n
  <2>1. CASE c \notin credits
    BY <1>1, <1>4, <2>1 DEF HandleCredit
  <2>2. CASE c \in credits
    <3>1. /\ available'[c] = available[c] + ItemLen(c, k) /\ credited'[c] = k + 1
          /\ UNCHANGED sent
      <4>1. /\ available' = [available EXCEPT ![c] = @ + ItemLen(c, k)]
            /\ credited' = [credited EXCEPT ![c] = k + 1] /\ UNCHANGED sent
        BY <1>4, <2>2, Zenon DEF HandleCredit, Grants
      <4>2. available \in [Calls -> Nat] /\ credited \in [Calls -> Nat]
        BY DEF TypeOK
      <4>3. QED
        BY <4>1, <4>2, Zenon
    <3>2. k \in Nat /\ credited[c] <= k /\ k < Length[c]
      <4>1. toCallee[c] \in Seq(ToCallee)
        BY DEF TypeOK
      <4>2. toCallee[c] # <<>> /\ Head(toCallee[c]).t = "s_credit"
        BY <1>4 DEF HandleCredit, Read
      <4>3. k \in Nat
        BY <4>2, Receives, FrameTypes
      <4>4. credited[c] <= k /\ k < read[c]
        BY <4>1, <4>2, BetweenFacts, FrameTypes, Zenon DEF PositionInv
      <4>5. read[c] <= Length[c]
        BY Before, Zenon DEF PositionInv
      <4>6. QED
        BY <4>3, <4>4, <4>5, Before, Zenon
    <3> HIDE DEF k
    <3>3. Offset[c][credited[c]] <= Offset[c][k] /\ Offset[c][credited[c]] \in Nat
      <4>1. credited[c] \in 0 .. Length[c] /\ k \in 0 .. Length[c]
        BY <3>2
      <4>2. QED
        BY <3>2, <4>1, OffsetAssumption
    <3>4. Offset[c][sent[c]] \in Nat
      <4>1. sent[c] \in 0 .. Length[c]
        BY DEF PositionInv
      <4>2. QED
        BY <4>1, OffsetAssumption
    <3>5. /\ ItemLen(c, k) \in Nat /\ Offset[c][k] \in Nat
          /\ Offset[c][k + 1] = Offset[c][k] + ItemLen(c, k)
      BY <3>2, ItemBytes
    <3>6. \A a, n, s, w, o, p \in Nat : a + s <= w + o /\ o <= p => (a + n) + s <= w + (p + n)
      OBVIOUS
    <3>7. QED
      BY <3>1, <3>3, <3>4, <3>5, <3>6 DEF CreditInv
  <2>3. QED
    BY <2>1, <2>2
<1>5. CASE SendItem(c)
  <2>1. sent[c] \in Nat /\ sent[c] < Length[c]
    BY <1>5 DEF SendItem, TaskStep, PositionInv
  <2>2. /\ available'[c] = available[c] - ItemLen(c, sent[c])
        /\ sent'[c] = sent[c] + 1 /\ UNCHANGED credited
    BY <1>5 DEF SendItem, TypeOK
  <2>3. QED
    BY <2>1, <2>2, ItemBytes DEF CreditInv
<1>6. CASE Task(c) /\ ~SendItem(c)
  BY <1>1, <1>6 DEF Task, Dispatch, Reply, SendReply, NextItem, ItemsEnd, ItemsFail,
     AcquireFails, CloseStream, Finish, Deregister, Killed, Panic
<1>7. QED
  BY <1>2, <1>3, <1>4, <1>5, <1>6 DEF CallStep, CalleeReader
===============================================================================
