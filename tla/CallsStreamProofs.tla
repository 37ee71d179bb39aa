-------------------------- MODULE CallsStreamProofs ---------------------------
(***************************************************************************)
(* A step of a call keeps its position and queue invariants: where the     *)
(* items of its stream are, and what waits for the application.            *)
(***************************************************************************)
EXTENDS CallsInvariant

\* The queues that a step which is not about frames of kind t may leave: the same
\* queue, one more frame of another kind, or one frame less.
Otherwise(q, S, t) ==
    {q} \cup {Append(q, f) : f \in {g \in S : g.t # t}} \cup {p \in {Tail(q)} : q # <<>>}

\* None of them disturbs the frames of kind t.
LEMMA OtherwiseKeeps ==
    ASSUME NEW S, \A f \in S : f.n \in Nat, NEW q \in Seq(S),
           NEW t, NEW lo \in Nat, NEW hi \in Nat, Between(q, t, lo, hi),
           NEW p \in Otherwise(q, S, t)
    PROVE  p \in Seq(S) /\ Between(p, t, lo, hi)
<1>1. /\ \A f \in S : f.t # t => Between(Append(q, f), t, lo, hi)
      /\ q # <<>> => Between(Tail(q), t, lo, hi)
  BY BetweenFacts, Zenon
<1>2. p \in Seq(S)
  <2>1. (\A f \in S : Append(q, f) \in Seq(S)) /\ (q # <<>> => Tail(q) \in Seq(S))
    OBVIOUS
  <2>2. QED
    BY <2>1, Zenon DEF Otherwise
<1>3. QED
  BY <1>1, <1>2, Zenon DEF Otherwise

\* The arithmetic of places in a channel.
LEMMA Places ==
    /\ \A a \in Nat \ {0} : \A i \in 1 .. a - 1 : i \in Nat
    /\ \A a, i \in Nat : i < a - 1 => i + 1 < a
    /\ \A r, i \in Nat : r + (i + 1) - 1 = r + 1 + i - 1
    /\ \A a \in Nat : ~(a + 1 < a + 1)
    /\ \A n \in Nat : 0 <= n /\ n + 1 - 1 = n
    /\ \A r, a, n \in Nat : \A i \in 1 .. a : r + i - 1 < n => r + i - 1 < n + 1
OBVIOUS

\* PositionInv is kept: an item goes from sent to the wire, to the channel, to the
\* application, and its credit back, and never overtakes the one before it.
LEMMA PositionStep ==
    ASSUME TypeOK, TypeOK', NEW c \in Calls, CallInv(c), CallStep(c)
    PROVE  PositionInv(c)'
<1> PositionInv(c) /\ QueueInv(c)
  BY DEF CallInv
<1> /\ credited[c] \in Nat /\ read[c] \in Nat /\ next_seq[c] \in Nat /\ sent[c] \in Nat
    /\ Length[c] \in Nat /\ FirstOnWire(c) \in Nat
    /\ toCaller[c] \in Seq(ToCaller) /\ toCallee[c] \in Seq(ToCallee) /\ rx[c] \in Seq(Events)
  BY LengthAssumption DEF TypeOK, FirstOnWire
<1> USE DEF callerVars, taskVars, gateVars
<1>1. ASSUME UNCHANGED <<credited, read, next_seq, sent>>, c \in incoming' => c \in incoming,
             task'[c] = "acquire" => task[c] = "acquire",
             toCaller'[c] \in Otherwise(toCaller[c], ToCaller, "data"),
             toCallee'[c] \in Otherwise(toCallee[c], ToCallee, "s_credit")
      PROVE  PositionInv(c)'
  <2>1. /\ toCaller'[c] \in Seq(ToCaller)
        /\ Between(toCaller'[c], "data", FirstOnWire(c), sent[c])
    BY <1>1, OtherwiseKeeps, FrameTypes DEF PositionInv
  <2>2. Between(toCallee'[c], "s_credit", credited[c], read[c])
    BY <1>1, OtherwiseKeeps, FrameTypes, Zenon DEF PositionInv
  <2>3. Between(toCaller'[c], "data", 0, sent[c])
    BY <2>1, BetweenFacts, FrameTypes, Zenon
  <2>4. QED
    BY <1>1, <2>1, <2>2, <2>3 DEF PositionInv, FirstOnWire
<1>2. /\ toCaller[c] \in Otherwise(toCaller[c], ToCaller, "data")
      /\ toCallee[c] \in Otherwise(toCallee[c], ToCallee, "s_credit")
      /\ toCaller[c] # <<>> => Tail(toCaller[c]) \in Otherwise(toCaller[c], ToCaller, "data")
      /\ toCallee[c] # <<>> => Tail(toCallee[c]) \in Otherwise(toCallee[c], ToCallee, "s_credit")
      /\ \A t \in {"res", "err", "s_end", "s_err"} :
            Append(toCaller[c], Ctl(t)) \in Otherwise(toCaller[c], ToCaller, "data")
      /\ \A t \in {"req", "cancel", "s_cancel"} :
            Append(toCallee[c], Ctl(t)) \in Otherwise(toCallee[c], ToCallee, "s_credit")
  BY FrameTypes, Zenon DEF Otherwise, Ctl
<1> /\ toCaller \in [Calls -> Seq(ToCaller)] /\ toCallee \in [Calls -> Seq(ToCallee)]
    /\ task \in [Calls -> TaskStates]
  BY Zenon DEF TypeOK
<1>3. CASE Request(c) \/ CallReturns(c) \/ AbandonCall(c) \/ SendCancel(c) \/ DropStream(c)
  <2>1. CASE Request(c)
    <3>1. next_seq[c] = 0
      BY <2>1 DEF Request, QueueInv
    <3>2. UNCHANGED <<credited, read, next_seq, sent, task, toCaller>>
      BY <2>1 DEF Request
    <3>3. /\ Between(toCallee'[c], "s_credit", credited[c], read[c])
          /\ Between(toCaller[c], "data", 0, sent[c])
      BY <1>2, <2>1, OtherwiseKeeps, BetweenFacts, FrameTypes, Zenon
      DEF Request, SendToCallee, PositionInv
    <3>4. QED
      BY <3>1, <3>2, <3>3 DEF PositionInv, FirstOnWire
  <2>2. CASE CallReturns(c) \/ AbandonCall(c) \/ SendCancel(c) \/ DropStream(c)
    BY <1>1, <1>2, <2>2, Zenon
    DEF CallReturns, AbandonCall, SendCancel, DropStream, SendToCallee
  <2>3. QED
    BY <1>3, <2>1, <2>2
<1>4. CASE PollNext(c)
  <2>1. CASE Head(rx[c]).t = "data"
    <3>1. Head(rx[c]).n = read[c] /\ read[c] < next_seq[c]
      <4>1. 1 \in 1 .. Len(rx[c]) /\ Head(rx[c]) = rx[c][1]
        BY <1>4 DEF PollNext
      <4>2. rx[c][1].n = read[c] + 1 - 1 /\ rx[c][1].n < next_seq[c]
        BY <2>1, <4>1 DEF QueueInv
      <4>3. QED
        BY <4>1, <4>2
    <3>2. /\ read'[c] = read[c] + 1
          /\ toCallee'[c] = Append(toCallee[c], Numbered("s_credit", read[c]))
          /\ UNCHANGED <<credited, next_seq, sent, task, incoming, toCaller>>
      <4>1. /\ read' = [read EXCEPT ![c] = @ + 1] /\ UNCHANGED <<credited, next_seq, sent>>
            /\ SendToCallee(c, Numbered("s_credit", read[c]))
            /\ UNCHANGED <<task, incoming, toCaller>>
        BY <1>4, <2>1, <3>1 DEF PollNext
      <4>2. QED
        BY <4>1 DEF SendToCallee, TypeOK
    <3>3. Between(toCallee'[c], "s_credit", credited[c], read[c] + 1)
      <4>1. Numbered("s_credit", read[c]) \in ToCallee /\ Numbered("s_credit", read[c]).n = read[c]
        BY FrameTypes, Zenon DEF Numbered
      <4>2. \A f \in ToCallee : f.n = read[c] =>
               Between(Append(toCallee[c], f), "s_credit", credited[c], read[c] + 1)
        BY BetweenFacts, FrameTypes, Zenon DEF PositionInv
      <4>3. QED
        BY <3>2, <4>1, <4>2
    <3>4. QED
      BY <3>1, <3>2, <3>3 DEF PositionInv, FirstOnWire
  <2>2. CASE Head(rx[c]).t # "data"
    BY <1>1, <1>2, <1>4, <2>2 DEF PollNext
  <2>3. QED
    BY <2>1, <2>2
<1>5. CASE ReceiveReply(c) \/ ReceiveEnd(c)
  <2>1. /\ UNCHANGED <<credited, read, next_seq, sent, task, toCallee>>
        /\ c \in incoming' => c \in incoming
        /\ toCaller[c] # <<>> /\ toCaller'[c] = Tail(toCaller[c])
    BY <1>5 DEF ReceiveReply, ReceiveEnd, Receive
  <2>2. QED
    BY <1>1, <1>2, <2>1
<1>6. CASE ReceiveData(c)
  <2>1. /\ toCaller[c] # <<>> /\ Head(toCaller[c]).t = "data"
        /\ toCaller'[c] = Tail(toCaller[c]) /\ UNCHANGED <<credited, read, sent, task>>
    BY <1>6 DEF ReceiveData, Receive
  <2>2. CASE c \in incoming /\ Expected(c)
    <3>1. next_seq'[c] = next_seq[c] + 1 /\ UNCHANGED <<incoming, toCallee>>
      BY <1>6, <2>2 DEF ReceiveData, TypeOK
    <3>2. Head(toCaller[c]).n = next_seq[c]
      BY <2>2 DEF Expected
    <3>3. /\ next_seq[c] < sent[c]
          /\ Between(toCaller'[c], "data", next_seq[c] + 1, sent[c])
      <4>1. Between(toCaller[c], "data", FirstOnWire(c), sent[c])
        BY Zenon DEF PositionInv
      <4>2. /\ Head(toCaller[c]).n < sent[c]
            /\ Between(Tail(toCaller[c]), "data", Head(toCaller[c]).n + 1, sent[c])
        BY <2>1, <4>1, BetweenFacts, FrameTypes, Zenon
      <4>3. QED
        BY <2>1, <3>2, <4>2, Zenon
    <3>4. /\ read[c] <= next_seq[c] + 1 /\ next_seq[c] + 1 <= sent[c]
      <4>1. read[c] <= next_seq[c]
        BY Zenon DEF PositionInv
      <4>2. QED
        BY <3>3, <4>1, Arithmetic, Zenon
    <3>5. FirstOnWire(c)' = next_seq[c] + 1
      BY <2>2, <3>1, Zenon DEF FirstOnWire
    <3>6. QED
      BY <2>1, <3>1, <3>3, <3>4, <3>5, Zenon DEF PositionInv
  <2>3. CASE ~(c \in incoming /\ Expected(c))
    <3>1. /\ UNCHANGED next_seq
          /\ c \in incoming' => c \in incoming
          /\ toCallee'[c] \in {toCallee[c], Append(toCallee[c], Ctl("s_cancel"))}
      BY <1>6, <2>3 DEF ReceiveData, SendToCallee
    <3>2. QED
      <4>1. toCallee'[c] \in Otherwise(toCallee[c], ToCallee, "s_credit")
        BY <1>2, <3>1, Zenon
      <4>2. toCaller'[c] \in Otherwise(toCaller[c], ToCaller, "data")
        BY <1>2, <2>1
      <4>3. QED
        BY <1>1, <2>1, <3>1, <4>1, <4>2
  <2>4. QED
    BY <2>2, <2>3
<1>7. CASE LoseChunk(c) \/ Register(c)
  BY <1>1, <1>2, <1>7, Zenon DEF LoseChunk, Register
<1>8. CASE HandleRequest(c) \/ HandleCancel(c) \/ HandleStreamCancel(c)
  <2>1. /\ UNCHANGED <<credited, read, next_seq, sent, incoming>>
        /\ task'[c] = "acquire" => task[c] = "acquire"
        /\ toCallee[c] # <<>> /\ toCallee'[c] = Tail(toCallee[c])
    BY <1>8 DEF HandleRequest, HandleCancel, HandleStreamCancel, Read
  <2>2. \/ toCaller'[c] = toCaller[c]
        \/ \E t \in {"err", "s_err"} : toCaller'[c] = Append(toCaller[c], Ctl(t))
    BY <1>8 DEF HandleRequest, HandleCancel, HandleStreamCancel, SendToCaller
  <2>3. QED
    BY <1>1, <1>2, <2>1, <2>2, Zenon
<1>9. CASE HandleCredit(c)
  <2> DEFINE k == Head(toCallee[c]).n
  <2>1. /\ toCallee[c] # <<>> /\ Head(toCallee[c]).t = "s_credit"
        /\ toCallee'[c] = Tail(toCallee[c])
        /\ UNCHANGED <<read, next_seq, sent, task, incoming, toCaller>>
    BY <1>9 DEF HandleCredit, Read
  <2>2. CASE c \notin credits
    BY <1>1, <1>2, <1>9, <2>1, <2>2 DEF HandleCredit
  <2>3. CASE c \in credits
    <3>1. credited'[c] = k + 1
      BY <1>9, <2>3 DEF HandleCredit, TypeOK
    <3>2. k \in Nat
      BY <2>1, Receives, FrameTypes
    <3>3. k < read[c] /\ Between(toCallee'[c], "s_credit", k + 1, read[c])
      <4>1. Between(toCallee[c], "s_credit", credited[c], read[c])
        BY Zenon DEF PositionInv
      <4>2. k < read[c] /\ Between(Tail(toCallee[c]), "s_credit", k + 1, read[c])
        BY <2>1, <4>1, BetweenFacts, FrameTypes, Zenon
      <4>3. QED
        BY <2>1, <4>2, Zenon
    <3> HIDE DEF k
    <3>4. k + 1 <= read[c]
      BY <3>2, <3>3, Arithmetic, Zenon
    <3>5. QED
      BY <2>1, <3>1, <3>3, <3>4, Zenon DEF PositionInv, FirstOnWire
  <2>4. QED
    BY <2>2, <2>3
<1>10. CASE NextItem(c)
  BY <1>10 DEF NextItem, TaskStep, PositionInv, FirstOnWire
<1>11. CASE SendItem(c)
  <2>1. /\ sent'[c] = sent[c] + 1 /\ sent[c] < Length[c] /\ task'[c] = "next"
        /\ toCaller'[c] = Append(toCaller[c], Numbered("data", sent[c]))
        /\ UNCHANGED <<credited, read, next_seq, incoming, toCallee>>
    BY <1>11 DEF SendItem, TaskStep, SendToCaller, PositionInv, TypeOK
  <2>2. Between(toCaller'[c], "data", FirstOnWire(c), sent[c] + 1)
    <3>1. Numbered("data", sent[c]) \in ToCaller /\ Numbered("data", sent[c]).n = sent[c]
      BY FrameTypes, Zenon DEF Numbered
    <3>2. FirstOnWire(c) <= sent[c]
      BY Places, Zenon DEF FirstOnWire, PositionInv
    <3>3. \A f \in ToCaller : f.n = sent[c] =>
             Between(Append(toCaller[c], f), "data", FirstOnWire(c), sent[c] + 1)
      BY <3>2, BetweenFacts, FrameTypes, Zenon DEF PositionInv
    <3>4. QED
      BY <2>1, <3>1, <3>3
  <2>3. /\ credited[c] <= read[c] /\ read[c] <= next_seq[c] /\ next_seq[c] <= sent[c]
        /\ Between(toCallee[c], "s_credit", credited[c], read[c])
    BY DEF PositionInv
  <2>4. next_seq[c] <= sent[c] + 1 /\ sent[c] + 1 <= Length[c]
    BY <2>1, <2>3, Arithmetic, Zenon
  <2>5. QED
    BY <2>1, <2>2, <2>3, <2>4, Zenon DEF PositionInv, FirstOnWire
<1>12. CASE Task(c) /\ ~NextItem(c) /\ ~SendItem(c)
  <2>1. /\ UNCHANGED <<credited, read, next_seq, sent, incoming, toCallee>>
        /\ task'[c] # "acquire"
    BY <1>12, Zenon DEF Task, Dispatch, Reply, SendReply, ItemsEnd, ItemsFail, AcquireFails,
       CloseStream, Finish, Deregister, Killed, Panic, TaskStep, AfterReply
  <2>2. \/ toCaller'[c] = toCaller[c]
        \/ \E t \in {"res", "err", "s_end", "s_err"} :
              toCaller'[c] = Append(toCaller[c], Ctl(t))
    BY <1>12 DEF Task, Dispatch, Reply, SendReply, ItemsEnd, ItemsFail, AcquireFails,
       CloseStream, Finish, Deregister, Killed, Panic, SendToCaller
  <2>3. QED
    BY <1>1, <1>2, <2>1, <2>2, Zenon
<1>13. CASE FailVictim(c) \/ SendError(c)
  <2>1. /\ UNCHANGED <<credited, read, next_seq, sent, incoming, task, toCallee>>
        /\ \/ toCaller'[c] = toCaller[c]
           \/ \E t \in {"err", "s_err"} : toCaller'[c] = Append(toCaller[c], Ctl(t))
    BY <1>13 DEF FailVictim, SendError, SendToCaller
  <2>2. QED
    BY <1>1, <1>2, <2>1, Zenon
<1>14. QED
  BY <1>3, <1>4, <1>5, <1>6, <1>7, <1>8, <1>9, <1>10, <1>11, <1>12, <1>13
  DEF CallStep, CallerStep, CallerReader, CalleeReader

\* QueueInv is kept: the reader appends the item it expects, or the end of the
\* stream, and then lets go of the stream; the application takes from the front.
LEMMA QueueStep ==
    ASSUME TypeOK, TypeOK', NEW c \in Calls, CallInv(c), CallStep(c)
    PROVE  QueueInv(c)'
<1> QueueInv(c) /\ PositionInv(c)
  BY DEF CallInv
<1> /\ read[c] \in Nat /\ next_seq[c] \in Nat /\ rx[c] \in Seq(Events)
    /\ caller \in [Calls -> CallerStates] /\ rx \in [Calls -> Seq(Events)]
  BY Zenon DEF TypeOK
<1> USE DEF callerVars
<1>1. CASE UNCHANGED callerVars
  BY <1>1 DEF QueueInv
<1>2. ASSUME rx'[c] = <<>>, c \notin incoming' \/ caller'[c] = "abandoned", caller'[c] # "idle"
      PROVE  QueueInv(c)'
  <2>1. 1 .. Len(rx'[c]) = {}
    BY <1>2
  <2>2. ~(c \in incoming' /\ caller'[c] \in {"calling", "open"})
    BY <1>2
  <2>3. QED
    BY <1>2, <2>1, <2>2, Zenon DEF QueueInv
<1>3. CASE Request(c)
  <2>1. /\ caller'[c] = "calling" /\ rx'[c] = <<>> /\ next_seq'[c] = 0
        /\ UNCHANGED <<read, next_seq>>
    BY <1>3 DEF Request, QueueInv
  <2>2. read'[c] = 0
    <3>1. read[c] <= next_seq[c] /\ next_seq[c] = 0
      BY <1>3, Zenon DEF PositionInv, Request, QueueInv
    <3>2. \A n \in Nat : n <= 0 => n = 0
      OBVIOUS
    <3>3. QED
      BY <2>1, <3>1, <3>2, Zenon
  <2>3. QED
    BY <2>1, <2>2 DEF QueueInv
<1>4. CASE CallReturns(c)
  <2>1. CASE reply[c] = "res"
    <3>1. /\ UNCHANGED <<incoming, rx, read, next_seq>> /\ caller[c] = "calling"
          /\ caller'[c] # "idle"
      BY <1>4, <2>1 DEF CallReturns
    <3>2. QED
      BY <3>1 DEF QueueInv
  <2>2. CASE reply[c] = "err"
    BY <1>2, <1>4, <2>2 DEF CallReturns
  <2>3. QED
    BY <1>4, <2>1, <2>2 DEF CallReturns
<1>5. CASE AbandonCall(c) \/ DropStream(c)
  BY <1>2, <1>5 DEF AbandonCall, DropStream
<1>6. CASE SendCancel(c) \/ ReceiveReply(c)
  BY <1>6 DEF SendCancel, ReceiveReply, Receive, QueueInv
<1>7. CASE PollNext(c)
  <2>1. /\ rx'[c] = Tail(rx[c]) /\ rx[c] # <<>> /\ UNCHANGED <<incoming, next_seq>>
        /\ caller[c] = "open" /\ caller'[c] # "idle"
    BY <1>7 DEF PollNext
  <2>2. /\ Len(rx'[c]) = Len(rx[c]) - 1 /\ Len(rx[c]) \in Nat \ {0} /\ Head(rx[c]) = rx[c][1]
        /\ \A i \in 1 .. Len(rx'[c]) : rx'[c][i] = rx[c][i + 1] /\ i + 1 \in 1 .. Len(rx[c])
    BY <2>1
  <2>3. CASE Head(rx[c]).t = "data"
    <3>1. read'[c] = read[c] + 1 /\ UNCHANGED caller
      <4>1. read' = [read EXCEPT ![c] = @ + 1] /\ UNCHANGED caller
        BY <1>7, <2>3, Zenon DEF PollNext
      <4>2. read \in [Calls -> Nat]
        BY Zenon DEF TypeOK
      <4>3. QED
        BY <4>1, <4>2, Zenon
    <3>2. ASSUME NEW i \in 1 .. Len(rx'[c])
          PROVE  /\ i < Len(rx'[c]) => rx'[c][i].t = "data"
                 /\ rx'[c][i].t = "data" =>
                       rx'[c][i].n = read[c] + 1 + i - 1 /\ rx'[c][i].n < next_seq[c]
      <4>1. rx'[c][i] = rx[c][i + 1] /\ i + 1 \in 1 .. Len(rx[c]) /\ i \in Nat
        BY <2>2, Places, Zenon
      <4>2. /\ i + 1 < Len(rx[c]) => rx[c][i + 1].t = "data"
            /\ rx[c][i + 1].t = "data" =>
                  rx[c][i + 1].n = read[c] + (i + 1) - 1 /\ rx[c][i + 1].n < next_seq[c]
        BY <4>1 DEF QueueInv
      <4>3. i < Len(rx'[c]) => i + 1 < Len(rx[c])
        <5>1. Len(rx'[c]) = Len(rx[c]) - 1 /\ Len(rx[c]) \in Nat
          BY <2>2
        <5>2. i < Len(rx[c]) - 1 => i + 1 < Len(rx[c])
          BY <4>1, <5>1, Places, Zenon
        <5>3. QED
          BY <5>1, <5>2, Zenon
      <4>4. read[c] + (i + 1) - 1 = read[c] + 1 + i - 1
        BY <4>1, Places, Zenon
      <4>5. QED
        BY <4>1, <4>2, <4>3, <4>4, Zenon
    <3>3. c \in incoming => /\ \A i \in 1 .. Len(rx'[c]) : rx'[c][i].t = "data"
                            /\ read[c] + 1 + Len(rx'[c]) = next_seq[c]
      <4>1. c \in incoming => /\ \A i \in 1 .. Len(rx[c]) : rx[c][i].t = "data"
                              /\ read[c] + Len(rx[c]) = next_seq[c]
        BY <2>1 DEF QueueInv
      <4>2. Len(rx'[c]) = Len(rx[c]) - 1 /\ Len(rx[c]) \in Nat \ {0}
        BY <2>2
      <4>3. c \in incoming => read[c] + 1 + Len(rx'[c]) = next_seq[c]
        BY <4>1, <4>2
      <4>4. QED
        BY <2>2, <4>1, <4>3
    <3>4. QED
      BY <2>1, <3>1, <3>2, <3>3 DEF QueueInv
  <2>4. CASE Head(rx[c]).t # "data"
    <3>1. Len(rx[c]) = 1
      <4>1. 1 \in 1 .. Len(rx[c]) /\ rx[c][1].t # "data"
        BY <2>2, <2>4
      <4>2. ~(1 < Len(rx[c]))
        BY <4>1 DEF QueueInv
      <4>3. \A n \in Nat \ {0} : ~(1 < n) => n = 1
        OBVIOUS
      <4>4. Len(rx[c]) \in Nat \ {0}
        BY <2>2
      <4>5. QED
        BY <4>2, <4>3, <4>4, Zenon
    <3>2. Len(rx'[c]) = 0 /\ c \notin incoming
      BY <2>1, <2>2, <2>4, <3>1 DEF QueueInv
    <3>3. 1 .. Len(rx'[c]) = {}
      BY <3>2
    <3>4. QED
      BY <2>1, <3>2, <3>3, Zenon DEF QueueInv
  <2>5. QED
    BY <2>3, <2>4
<1>8. ASSUME c \in incoming, UNCHANGED <<caller, read>>,
             NEW e \in Events, Push(c, e),
             \/ /\ e.t # "data" /\ c \notin incoming' /\ UNCHANGED next_seq
             \/ /\ e = Numbered("data", next_seq[c]) /\ UNCHANGED incoming
                /\ next_seq'[c] = next_seq[c] + 1
      PROVE  QueueInv(c)'
  <2>1. caller[c] # "idle"
    BY <1>8 DEF QueueInv
  <2>2. CASE caller[c] \in {"calling", "open"}
    <3>1. rx'[c] = Append(rx[c], e)
      BY <1>8, <2>2 DEF Push
    <3>2. /\ Len(rx'[c]) = Len(rx[c]) + 1 /\ Len(rx[c]) \in Nat /\ rx'[c][Len(rx[c]) + 1] = e
          /\ \A i \in 1 .. Len(rx[c]) : rx'[c][i] = rx[c][i]
      BY <3>1, SMTT(60)
    <3>3. read[c] + Len(rx[c]) = next_seq[c] /\ \A i \in 1 .. Len(rx[c]) : rx[c][i].t = "data"
      BY <1>8, <2>2 DEF QueueInv
    <3>4. CASE e.t # "data" /\ c \notin incoming' /\ UNCHANGED next_seq
      <4>1. ASSUME NEW i \in 1 .. Len(rx'[c])
            PROVE  /\ i < Len(rx'[c]) => rx'[c][i].t = "data"
                   /\ rx'[c][i].t = "data" =>
                         rx'[c][i].n = read[c] + i - 1 /\ rx'[c][i].n < next_seq[c]
        <5>1. i \in 1 .. Len(rx[c]) \/ i = Len(rx[c]) + 1
          BY <3>2
        <5>2. CASE i \in 1 .. Len(rx[c])
          <6>1. /\ rx[c][i].t = "data" /\ rx[c][i].n = read[c] + i - 1
                /\ rx[c][i].n < next_seq[c]
            BY <3>3, <5>2 DEF QueueInv
          <6>2. QED
            BY <3>2, <5>2, <6>1
        <5>3. CASE i = Len(rx[c]) + 1
          <6>1. rx'[c][i].t # "data" /\ Len(rx'[c]) = Len(rx[c]) + 1 /\ Len(rx[c]) \in Nat
            BY <3>2, <3>4, <5>3, Zenon
          <6>2. ~(i < Len(rx'[c]))
            BY <5>3, <6>1, Places, Zenon
          <6>3. QED
            BY <6>1, <6>2, Zenon
        <5>4. QED
          BY <5>1, <5>2, <5>3
      <4>2. QED
        BY <1>8, <2>1, <3>4, <4>1 DEF QueueInv
    <3>5. CASE /\ e = Numbered("data", next_seq[c]) /\ UNCHANGED incoming
               /\ next_seq'[c] = next_seq[c] + 1
      <4>1. rx'[c] = Append(rx[c], Numbered("data", next_seq[c]))
        BY <3>1, <3>5, Zenon
      <4>2. \A i \in 1 .. Len(rx[c]) : rx[c][i].t = "data" /\ rx[c][i].n = read[c] + i - 1
        BY <3>3, Zenon DEF QueueInv
      <4>3. /\ read[c] + Len(rx'[c]) = next_seq[c] + 1
            /\ \A i \in 1 .. Len(rx'[c]) :
                 /\ rx'[c][i].t = "data" /\ rx'[c][i].n = read[c] + i - 1
                 /\ rx'[c][i].n < next_seq[c] + 1
        BY <3>3, <4>1, <4>2, PushData, Zenon
      <4>4. QED
        BY <1>8, <2>1, <3>5, <4>3, Zenon DEF QueueInv
    <3>6. QED
      BY <1>8, <3>4, <3>5
  <2>3. CASE caller[c] \notin {"calling", "open"}
    <3>1. rx'[c] = rx[c] /\ caller'[c] = caller[c]
      BY <1>8, <2>3, Zenon DEF Push
    <3>2. next_seq'[c] = next_seq[c] \/ next_seq'[c] = next_seq[c] + 1
      BY <1>8, Zenon
    <3>3. \A i \in 1 .. Len(rx[c]) :
             /\ i < Len(rx[c]) => rx[c][i].t = "data"
             /\ rx[c][i].t = "data" =>
                   rx[c][i].n = read[c] + i - 1 /\ rx[c][i].n < next_seq[c]
      BY Zenon DEF QueueInv
    <3>4. \A i \in 1 .. Len(rx[c]) : rx[c][i].t = "data" => rx[c][i].n < next_seq'[c]
      <4>1. Len(rx[c]) \in Nat
        OBVIOUS
      <4>2. ASSUME NEW i \in 1 .. Len(rx[c]), rx[c][i].t = "data"
            PROVE  rx[c][i].n < next_seq'[c]
        <5>1. rx[c][i].n = read[c] + i - 1 /\ read[c] + i - 1 < next_seq[c]
          BY <3>3, <4>2, Zenon
        <5>2. read[c] + i - 1 < next_seq[c] + 1
          BY <4>1, <5>1, Places, Zenon
        <5>3. QED
          BY <3>2, <5>1, <5>2, Zenon
      <4>3. QED
        BY <4>2, Zenon
    <3>5. QED
      BY <1>8, <2>1, <2>3, <3>1, <3>3, <3>4, Zenon DEF QueueInv
  <2>4. QED
    BY <2>2, <2>3
<1>9. CASE ReceiveData(c)
  <2>1. UNCHANGED <<caller, read>>
    BY <1>9 DEF ReceiveData, Receive
  <2>2. CASE c \notin incoming
    BY <1>9, <2>1, <2>2 DEF ReceiveData, QueueInv
  <2>3. CASE c \in incoming /\ Expected(c)
    <3>1. /\ Push(c, Numbered("data", next_seq[c])) /\ UNCHANGED incoming
          /\ next_seq'[c] = next_seq[c] + 1
      BY <1>9, <2>3, Zenon DEF ReceiveData, Expected, TypeOK
    <3>2. QED
      BY <1>8, <2>1, <2>3, <3>1, FrameTypes
  <2>4. CASE c \in incoming /\ ~Expected(c)
    <3>1. Push(c, Ctl("failed")) /\ c \notin incoming' /\ UNCHANGED next_seq
      BY <1>9, <2>4 DEF ReceiveData
    <3>2. QED
      BY <1>8, <2>1, <2>4, <3>1, FrameTypes DEF Ctl
  <2>5. QED
    BY <2>2, <2>3, <2>4
<1>10. CASE ReceiveEnd(c)
  <2>1. UNCHANGED <<caller, read, next_seq>> /\ c \notin incoming'
    BY <1>10 DEF ReceiveEnd, Receive
  <2>2. CASE c \notin incoming
    BY <1>10, <2>1, <2>2 DEF ReceiveEnd, QueueInv
  <2>3. CASE c \in incoming
    <3>1. PICK t \in {"end", "failed"} : Push(c, Ctl(t))
      BY <1>10, <2>3 DEF ReceiveEnd
    <3>2. Ctl(t) \in Events /\ Ctl(t).t # "data"
      BY FrameTypes DEF Ctl
    <3>3. QED
      BY <1>8, <2>1, <2>3, <3>1, <3>2
  <2>4. QED
    BY <2>2, <2>3
<1>11. CASE CalleeReader(c) \/ LoseChunk(c) \/ FailVictim(c) \/ SendError(c)
  BY <1>1, <1>11 DEF CalleeReader, HandleRequest, Register, HandleCancel, HandleCredit,
     HandleStreamCancel, LoseChunk, FailVictim, SendError
<1>12. CASE Task(c)
  BY <1>1, <1>12, Zenon DEF Task, Dispatch, Reply, SendReply, NextItem, ItemsEnd, ItemsFail,
     SendItem, AcquireFails, CloseStream, Finish, Deregister, Killed, Panic, TaskStep
<1>13. QED
  BY <1>3, <1>4, <1>5, <1>6, <1>7, <1>9, <1>10, <1>11, <1>12
  DEF CallStep, CallerStep, CallerReader
===============================================================================
