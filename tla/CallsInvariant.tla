---------------------------- MODULE CallsInvariant ----------------------------
(***************************************************************************)
(* The inductive invariant of module Calls, facts about the data it speaks *)
(* of, and the proof that every step keeps the types.  CallsStepProofs and *)
(* CallsStreamProofs show that every step keeps the rest of the invariant, *)
(* CallsProofs draws the conclusions.                                      *)
(***************************************************************************)
EXTENDS Calls, TLAPS

-------------------------------------------------------------------------------
(* The inductive invariant *)

\* A request travels once, ahead of everything else its caller sends for it, and
\* nothing happens to a call before its request is taken.
RequestInv(c) ==
    /\ caller[c] = "idle" => toCallee[c] = <<>> /\ task[c] = "none" /\ replies[c] = 0
    /\ \A i \in 1 .. Len(toCallee[c]) :
          toCallee[c][i].t = "req" => i = 1 /\ task[c] = "none" /\ replies[c] = 0

\* Whoever answers a call has set replied first, and nobody answers a call that
\* was not dispatched once it was refused.
ReplyInv(c) ==
    /\ task[c] = "none" => ~replied[c] /\ c \notin inflight \cup victims \cup owed /\ reader # c
    /\ task[c] # "none" /\ ~replied[c] => replies[c] = 0
    /\ task[c] \in {"send_res", "send_err"} => replied[c] /\ replies[c] = 0 /\ c \notin owed
    /\ c \in owed => replied[c] /\ replies[c] = 0
    /\ replies[c] <= 1

\* The frames of kind t in a queue are about items from lo up to hi, in order.
Between(q, t, lo, hi) ==
    /\ \A i \in 1 .. Len(q) : q[i].t = t => lo <= q[i].n /\ q[i].n < hi
    /\ \A i, j \in 1 .. Len(q) : i < j /\ q[i].t = t /\ q[j].t = t => q[i].n < q[j].n

\* The first item a chunk on the wire may be about: next_seq, until the receiver
\* gives up on the stream.
FirstOnWire(c) == IF c \in incoming THEN next_seq[c] ELSE 0

\* Where the items of a stream are: chunks on the wire lie below sent, credits on
\* the wire between credited and read.
PositionInv(c) ==
    /\ credited[c] <= read[c] /\ read[c] <= next_seq[c] /\ next_seq[c] <= sent[c]
    /\ sent[c] <= Length[c]
    /\ task[c] = "acquire" => sent[c] < Length[c]
    /\ Between(toCaller[c], "data", FirstOnWire(c), sent[c])
    /\ Between(toCallee[c], "s_credit", credited[c], read[c])

\* What waits in the channel of a stream: the items from read on, up to next_seq
\* while the stream is open, and its end behind them.
QueueInv(c) ==
    /\ caller[c] = "idle" => c \notin incoming /\ rx[c] = <<>> /\ next_seq[c] = 0
    /\ \A i \in 1 .. Len(rx[c]) :
          /\ i < Len(rx[c]) => rx[c][i].t = "data"
          /\ rx[c][i].t = "data" => rx[c][i].n = read[c] + i - 1 /\ rx[c][i].n < next_seq[c]
    /\ c \in incoming /\ caller[c] \in {"calling", "open"} =>
          /\ \A i \in 1 .. Len(rx[c]) : rx[c][i].t = "data"
          /\ read[c] + Len(rx[c]) = next_seq[c]

\* The credit in hand and the bytes sent are covered by the window and the bytes
\* credited back.
CreditInv(c) == available[c] + Offset[c][sent[c]] <= Window + Offset[c][credited[c]]

CallInv(c) ==
    RequestInv(c) /\ ReplyInv(c) /\ PositionInv(c) /\ QueueInv(c) /\ CreditInv(c)

Inv == TypeOK /\ \A c \in Calls : CallInv(c)

\* A step of call c, or of a thread that handles it.
CallStep(c) ==
    \/ CallerStep(c) \/ CallerReader(c) \/ LoseChunk(c)
    \/ CalleeReader(c) \/ Task(c) \/ FailVictim(c) \/ SendError(c)

-------------------------------------------------------------------------------
(* Facts about the data *)

\* The arithmetic of positions and queue lengths.
LEMMA Arithmetic ==
    /\ \A a, b \in Nat : a < b => a + 1 <= b
    /\ \A a, b \in Nat : a <= b => a <= b + 1
    /\ \A a \in Nat : \A i \in 1 .. a + 1 : i \in 1 .. a \/ i = a + 1
OBVIOUS

\* The order of the positions of a stream: consumed, delivered, sent, produced.
LEMMA Before ==
    /\ \A a, b, d \in Nat : a < b /\ b <= d => a < d
    /\ \A a, b, d, e \in Nat : a <= b /\ b <= d /\ d <= e => a <= e
OBVIOUS

\* The frames and events the actions build have the types of their queues.
LEMMA FrameTypes ==
    /\ \A t \in {"res", "err", "s_end", "s_err"} : Ctl(t) \in ToCaller
    /\ \A t \in {"req", "cancel", "s_cancel"} : Ctl(t) \in ToCallee
    /\ \A t \in {"end", "failed"} : Ctl(t) \in Events
    /\ \A k \in Nat : /\ Numbered("data", k) \in ToCaller
                      /\ Numbered("s_credit", k) \in ToCallee
                      /\ Numbered("data", k) \in Events
    /\ \A f \in ToCaller \cup ToCallee \cup Events : f.n \in Nat
BY DEF Ctl, Numbered, ToCaller, ToCallee, Events

\* A queue that holds the items from position r on, each at its place, still does
\* when the item at the next position n is pushed.
LEMMA PushData ==
    ASSUME NEW q \in Seq(Events), NEW r \in Nat, NEW n \in Nat, r + Len(q) = n,
           \A i \in 1 .. Len(q) : q[i].t = "data" /\ q[i].n = r + i - 1,
           NEW p, p = Append(q, Numbered("data", n))
    PROVE  /\ r + Len(p) = n + 1
           /\ \A i \in 1 .. Len(p) : p[i].t = "data" /\ p[i].n = r + i - 1 /\ p[i].n < n + 1
<1> DEFINE e == Numbered("data", n)
<1>1. e.t = "data" /\ e.n = n /\ e \in Events
  BY FrameTypes DEF Numbered
<1> HIDE DEF e
<1>2. /\ Len(p) = Len(q) + 1 /\ p[Len(q) + 1] = e
      /\ \A i \in 1 .. Len(q) : p[i] = q[i]
  BY <1>1 DEF e
<1>3. QED
  BY <1>1, <1>2

\* The bytes before an item, and in it, are natural numbers (OffsetAssumption).
LEMMA ItemBytes ==
    ASSUME NEW c \in Calls, NEW k \in Nat, k < Length[c]
    PROVE  /\ ItemLen(c, k) \in Nat /\ Offset[c][k] \in Nat
           /\ Offset[c][k + 1] = Offset[c][k] + ItemLen(c, k)
<1>1. k \in 0 .. Length[c] /\ k + 1 \in 0 .. Length[c] /\ k <= k + 1
  BY LengthAssumption
<1>2. Offset[c][k] \in Nat /\ Offset[c][k + 1] \in Nat /\ Offset[c][k] <= Offset[c][k + 1]
  BY <1>1, OffsetAssumption, Zenon
<1>3. QED
  BY <1>2 DEF ItemLen

\* What a queue of frames looks like after a frame is added to it, or taken.
LEMMA BetweenFacts ==
    ASSUME NEW S, \A f \in S : f.n \in Nat, NEW q \in Seq(S),
           NEW t, NEW lo \in Nat, NEW hi \in Nat, Between(q, t, lo, hi)
    PROVE  /\ \A f \in S : f.t # t => Between(Append(q, f), t, lo, hi)
           /\ \A f \in S : f.n = hi /\ lo <= hi => Between(Append(q, f), t, lo, hi + 1)
           /\ q # <<>> => Between(Tail(q), t, lo, hi)
           /\ q # <<>> /\ Head(q).t = t =>
                 /\ lo <= Head(q).n /\ Head(q).n < hi
                 /\ Between(Tail(q), t, Head(q).n + 1, hi)
           /\ Between(q, t, 0, hi)
<1>1. \A i \in 1 .. Len(q) : q[i] \in S /\ q[i].n \in Nat
  OBVIOUS
<1>2. ASSUME NEW f \in S
      PROVE  /\ Len(Append(q, f)) = Len(q) + 1
             /\ \A i \in 1 .. Len(q) : Append(q, f)[i] = q[i]
             /\ Append(q, f)[Len(q) + 1] = f
  OBVIOUS
<1>3. ASSUME NEW f \in S, f.t # t PROVE Between(Append(q, f), t, lo, hi)
  BY <1>1, <1>2, <1>3 DEF Between
<1>4. ASSUME NEW f \in S, f.n = hi, lo <= hi PROVE Between(Append(q, f), t, lo, hi + 1)
  <2>1. \A i \in 1 .. Len(Append(q, f)) : i \in 1 .. Len(q) \/ i = Len(q) + 1
    BY <1>2
  <2>2. \A i \in 1 .. Len(q) : q[i].t = t => q[i].n < hi /\ lo <= q[i].n
    BY DEF Between
  <2>3. ASSUME NEW i \in 1 .. Len(Append(q, f)), NEW j \in 1 .. Len(Append(q, f)),
               i < j, Append(q, f)[i].t = t, Append(q, f)[j].t = t
        PROVE  Append(q, f)[i].n < Append(q, f)[j].n
    <3>1. i \in 1 .. Len(q)
      BY <1>2, <2>3
    <3>2. CASE j \in 1 .. Len(q)
      BY <1>2, <2>3, <3>1, <3>2 DEF Between
    <3>3. CASE j = Len(q) + 1
      BY <1>2, <1>4, <2>2, <2>3, <3>1, <3>3
    <3>4. QED
      BY <2>1, <3>2, <3>3
  <2>4. ASSUME NEW i \in 1 .. Len(Append(q, f)), Append(q, f)[i].t = t
        PROVE  lo <= Append(q, f)[i].n /\ Append(q, f)[i].n < hi + 1
    BY <1>1, <1>2, <1>4, <2>1, <2>2, <2>4
  <2>5. QED
    BY <2>3, <2>4 DEF Between
<1>5. ASSUME q # <<>>
      PROVE  /\ Len(Tail(q)) = Len(q) - 1 /\ Len(q) \in Nat \ {0} /\ Head(q) = q[1]
             /\ \A i \in 1 .. Len(Tail(q)) : Tail(q)[i] = q[i + 1] /\ i + 1 \in 1 .. Len(q)
  BY <1>5
<1>6. ASSUME q # <<>> PROVE Between(Tail(q), t, lo, hi)
  BY <1>1, <1>5, <1>6 DEF Between
<1>7. ASSUME q # <<>>, Head(q).t = t
      PROVE  /\ lo <= Head(q).n /\ Head(q).n < hi
             /\ Between(Tail(q), t, Head(q).n + 1, hi)
  <2>1. 1 \in 1 .. Len(q) /\ q[1].t = t
    BY <1>5, <1>7
  <2>2. \A i \in 1 .. Len(Tail(q)) : Tail(q)[i].t = t => q[1].n < Tail(q)[i].n
    BY <1>5, <1>7, <2>1 DEF Between
  <2>3. lo <= q[1].n /\ q[1].n < hi /\ q[1].n \in Nat
    BY <1>1, <2>1 DEF Between
  <2>4. \A i \in 1 .. Len(Tail(q)) : Tail(q)[i].n \in Nat
    BY <1>1, <1>5, <1>7
  <2>5. QED
    BY <1>5, <1>6, <1>7, <2>2, <2>3, <2>4 DEF Between
<1>8. Between(q, t, 0, hi)
  BY <1>1 DEF Between
<1>9. QED
  BY <1>3, <1>4, <1>6, <1>7, <1>8

-------------------------------------------------------------------------------
(* Types are kept *)

\* Sending a frame and pushing an event keep the types of the queues.
LEMMA Sends ==
    ASSUME TypeOK, NEW c \in Calls
    PROVE  /\ \A f \in ToCaller :
                 SendToCaller(c, f) => toCaller' \in [Calls -> Seq(ToCaller)]
           /\ \A f \in ToCallee :
                 SendToCallee(c, f) => toCallee' \in [Calls -> Seq(ToCallee)]
           /\ \A e \in Events : Push(c, e) => rx' \in [Calls -> Seq(Events)]
<1>1. toCaller \in [Calls -> Seq(ToCaller)]
  BY DEF TypeOK
<1>2. toCallee \in [Calls -> Seq(ToCallee)]
  BY DEF TypeOK
<1>3. rx \in [Calls -> Seq(Events)]
  BY DEF TypeOK
<1>4. \A e \in Events : Push(c, e) => rx' \in [Calls -> Seq(Events)]
  BY <1>3 DEF Push
<1>5. \A f \in ToCaller : SendToCaller(c, f) => toCaller' \in [Calls -> Seq(ToCaller)]
  BY <1>1 DEF SendToCaller
<1>6. \A f \in ToCallee : SendToCallee(c, f) => toCallee' \in [Calls -> Seq(ToCallee)]
  BY <1>2 DEF SendToCallee
<1>7. QED
  BY <1>4, <1>5, <1>6

\* ... and so does taking from them.
LEMMA Receives ==
    ASSUME TypeOK, NEW c \in Calls
    PROVE  /\ toCaller[c] # <<>> =>
                 /\ Head(toCaller[c]) \in ToCaller
                 /\ [toCaller EXCEPT ![c] = Tail(@)] \in [Calls -> Seq(ToCaller)]
           /\ toCallee[c] # <<>> =>
                 /\ Head(toCallee[c]) \in ToCallee
                 /\ [toCallee EXCEPT ![c] = Tail(@)] \in [Calls -> Seq(ToCallee)]
           /\ rx[c] # <<>> =>
                 /\ Head(rx[c]) \in Events
                 /\ [rx EXCEPT ![c] = Tail(@)] \in [Calls -> Seq(Events)]
           /\ [rx EXCEPT ![c] = <<>>] \in [Calls -> Seq(Events)]
<1>1. /\ toCaller \in [Calls -> Seq(ToCaller)]
      /\ toCallee \in [Calls -> Seq(ToCallee)]
      /\ rx \in [Calls -> Seq(Events)]
  BY Zenon DEF TypeOK
<1>2. QED
  BY <1>1

\* Counters count on.
LEMMA Counts ==
    ASSUME TypeOK, NEW c \in Calls
    PROVE  /\ {read, [read EXCEPT ![c] = @ + 1]} \subseteq [Calls -> Nat]
           /\ {next_seq, [next_seq EXCEPT ![c] = @ + 1]} \subseteq [Calls -> Nat]
           /\ {sent, [sent EXCEPT ![c] = @ + 1]} \subseteq [Calls -> Nat]
           /\ {replies, [replies EXCEPT ![c] = @ + 1]} \subseteq [Calls -> Nat]
<1>1. \A f \in [Calls -> Nat] : [f EXCEPT ![c] = @ + 1] \in [Calls -> Nat]
  OBVIOUS
<1>2. {read, next_seq, sent, replies} \subseteq [Calls -> Nat]
  BY Zenon DEF TypeOK
<1>3. QED
  BY <1>1, <1>2

\* Flags are set.
LEMMA Flags ==
    ASSUME TypeOK, NEW c \in Calls
    PROVE  /\ {replied, [replied EXCEPT ![c] = TRUE]} \subseteq [Calls -> BOOLEAN]
           /\ {done, [done EXCEPT ![c] = TRUE]} \subseteq [Calls -> BOOLEAN]
BY Zenon DEF TypeOK

\* TypeOK is kept by every step.  Only HandleCredit and SendItem need more than
\* TypeOK: that the item they are about is one of the stream's.
LEMMA TypeStep == ASSUME Inv, [Next]_vars PROVE TypeOK'
<1> TypeOK
  BY DEF Inv
<1> USE CallsAssumption DEF callerVars, taskVars, gateVars, revokeVars
<1>1. ASSUME NEW c \in Calls, Request(c) PROVE TypeOK'
  BY <1>1, Sends, FrameTypes, Zenon
  DEF Request, TypeOK, CallerStates, TaskStates
<1>2. ASSUME NEW c \in Calls, CallReturns(c) PROVE TypeOK'
  <2>1. rx' \in [Calls -> Seq(Events)]
    <3>1. rx' = rx \/ rx' = [rx EXCEPT ![c] = <<>>]
      BY <1>2 DEF CallReturns
    <3>2. rx \in [Calls -> Seq(Events)]
      BY DEF TypeOK
    <3>3. QED
      BY <3>1, <3>2, Receives, ZenonT(60)
  <2>2. PICK x \in CallerStates : caller' = [caller EXCEPT ![c] = x]
    BY <1>2 DEF CallReturns, CallerStates
  <2>3. QED
    BY <1>2, <2>1, <2>2, Zenon DEF CallReturns, TypeOK
<1>3. ASSUME NEW c \in Calls, AbandonCall(c) PROVE TypeOK'
  BY <1>3, Receives, Zenon
  DEF AbandonCall, TypeOK, CallerStates, TaskStates
<1>4. ASSUME NEW c \in Calls, SendCancel(c) PROVE TypeOK'
  BY <1>4, Sends, FrameTypes, Zenon
  DEF SendCancel, TypeOK, CallerStates, TaskStates
<1>5. ASSUME NEW c \in Calls, PollNext(c) PROVE TypeOK'
  <2>1. rx' \in [Calls -> Seq(Events)] /\ Head(rx[c]).n \in Nat
    BY <1>5, Receives DEF PollNext, Events
  <2>2. toCallee' \in [Calls -> Seq(ToCallee)]
    BY <1>5, <2>1, Sends, FrameTypes, Zenon DEF PollNext, TypeOK
  <2>3. caller' \in [Calls -> CallerStates]
    <3>1. \/ caller' = caller
          \/ \E x \in CallerStates : caller' = [caller EXCEPT ![c] = x]
      BY <1>5 DEF PollNext, CallerStates
    <3>2. QED
      BY <3>1, ZenonT(60) DEF TypeOK
  <2>4. read' \in [Calls -> Nat]
    <3>1. read' = read \/ read' = [read EXCEPT ![c] = @ + 1]
      BY <1>5 DEF PollNext
    <3>2. QED
      BY <3>1, Counts
  <2>5. QED
    BY <1>5, <2>1, <2>2, <2>3, <2>4, Zenon DEF PollNext, TypeOK
<1>6. ASSUME NEW c \in Calls, DropStream(c) PROVE TypeOK'
  BY <1>6, Sends, FrameTypes, Receives, Zenon
  DEF DropStream, TypeOK, CallerStates, TaskStates
<1>7. ASSUME NEW c \in Calls, ReceiveReply(c) PROVE TypeOK'
  <2>1. toCaller' \in [Calls -> Seq(ToCaller)]
    BY <1>7, Receives DEF ReceiveReply, Receive
  <2>2. PICK t \in {"res", "err"} :
        /\ Receive(c, t)
        /\ pending' = pending \ {c}
        /\ reply' = [reply EXCEPT ![c] = IF c \in pending THEN t ELSE @]
        /\ UNCHANGED <<incoming, next_seq, rx, toCallee>>
    BY <1>7, Zenon DEF ReceiveReply
  <2>3. QED
    BY <2>1, <2>2, Zenon DEF Receive, TypeOK
<1>8. ASSUME NEW c \in Calls, ReceiveData(c) PROVE TypeOK'
  <2>1. toCaller' \in [Calls -> Seq(ToCaller)] /\ Head(toCaller[c]).n \in Nat
    BY <1>8, Receives DEF ReceiveData, Receive, ToCaller
  <2>2. rx' \in [Calls -> Seq(Events)]
    BY <1>8, <2>1, Sends, FrameTypes, Zenon DEF ReceiveData, TypeOK
  <2>3. toCallee' \in [Calls -> Seq(ToCallee)]
    BY <1>8, Sends, FrameTypes, Zenon DEF ReceiveData, TypeOK
  <2>4. next_seq' \in [Calls -> Nat]
    BY <1>8, Counts DEF ReceiveData
  <2>5. QED
    BY <1>8, <2>1, <2>2, <2>3, <2>4, Zenon
    DEF ReceiveData, Receive, TypeOK
<1>9. ASSUME NEW c \in Calls, ReceiveEnd(c) PROVE TypeOK'
  <2>1. toCaller' \in [Calls -> Seq(ToCaller)]
    BY <1>9, Receives DEF ReceiveEnd, Receive
  <2>2. rx' \in [Calls -> Seq(Events)]
    BY <1>9, Sends, FrameTypes, Zenon DEF ReceiveEnd, TypeOK
  <2>3. QED
    BY <1>9, <2>1, <2>2, Zenon DEF ReceiveEnd, Receive, TypeOK
<1>10. ASSUME NEW c \in Calls, LoseChunk(c) PROVE TypeOK'
  BY <1>10, Receives, Zenon
  DEF LoseChunk, TypeOK, CallerStates, TaskStates
<1>11. ASSUME NEW c \in Calls, HandleRequest(c) PROVE TypeOK'
  <2>1. toCallee' \in [Calls -> Seq(ToCallee)]
    BY <1>11, Receives DEF HandleRequest, Read
  <2>2. toCaller' \in [Calls -> Seq(ToCaller)]
    BY <1>11, Sends, FrameTypes, Zenon DEF HandleRequest, TypeOK
  <2>3. replies' \in [Calls -> Nat]
    BY <1>11, Counts DEF HandleRequest
  <2>4. QED
    BY <1>11, <2>1, <2>2, <2>3, ZenonT(60) DEF HandleRequest, TypeOK, TaskStates
<1>12. ASSUME NEW c \in Calls, Register(c) PROVE TypeOK'
  BY <1>12, Zenon
  DEF Register, TypeOK, CallerStates, TaskStates
<1>13. ASSUME NEW c \in Calls, HandleCancel(c) PROVE TypeOK'
  <2>1. toCallee' \in [Calls -> Seq(ToCallee)]
    BY <1>13, Receives DEF HandleCancel, Read
  <2>2. toCaller' \in [Calls -> Seq(ToCaller)]
    BY <1>13, Sends, FrameTypes, Zenon DEF HandleCancel, TypeOK
  <2>3. replies' \in [Calls -> Nat]
    BY <1>13, Counts DEF HandleCancel
  <2>4. replied' \in [Calls -> BOOLEAN] /\ done' \in [Calls -> BOOLEAN]
    BY <1>13, Flags, Zenon DEF HandleCancel
  <2>5. inflight' \subseteq Calls /\ aborted' \subseteq Calls /\ credits' \subseteq Streaming
    <3>1. /\ inflight' = inflight \/ inflight' = inflight \ {c}
          /\ aborted' = aborted \/ aborted' = aborted \cup {c}
          /\ credits' = credits \/ credits' = credits \ {c}
      BY <1>13 DEF HandleCancel
    <3>2. QED
      BY <3>1, Zenon DEF TypeOK
  <2>6. UNCHANGED <<task, sent>>
    BY <1>13 DEF HandleCancel
  <2>7. QED
    BY <1>13, <2>1, <2>2, <2>3, <2>4, <2>5, <2>6, Zenon DEF HandleCancel, TypeOK
<1>14. ASSUME NEW c \in Calls, HandleCredit(c) PROVE TypeOK'
  <2> DEFINE k == Head(toCallee[c]).n
  <2>1. toCallee' \in [Calls -> Seq(ToCallee)] /\ Head(toCallee[c]) \in ToCallee
    BY <1>14, Receives DEF HandleCredit, Read
  <2>2. ItemLen(c, k) \in Nat /\ k \in Nat
    <3>1. toCallee[c] # <<>> /\ Head(toCallee[c]).t = "s_credit"
      BY <1>14 DEF HandleCredit, Read
    <3>2. k \in Nat /\ k < read[c]
      <4>1. toCallee[c] \in Seq(ToCallee) /\ read[c] \in Nat /\ credited[c] \in Nat
        BY DEF TypeOK
      <4>2. Between(toCallee[c], "s_credit", credited[c], read[c])
        BY DEF Inv, CallInv, PositionInv
      <4>3. QED
        BY <2>1, <3>1, <4>1, <4>2, BetweenFacts, FrameTypes, Zenon
    <3>3. read[c] <= Length[c] /\ read[c] \in Nat /\ Length[c] \in Nat
      <4>1. /\ read[c] \in Nat /\ next_seq[c] \in Nat /\ sent[c] \in Nat /\ Length[c] \in Nat
        BY LengthAssumption DEF TypeOK
      <4>2. read[c] <= next_seq[c] /\ next_seq[c] <= sent[c] /\ sent[c] <= Length[c]
        BY Zenon DEF Inv, CallInv, PositionInv
      <4>3. QED
        BY <4>1, <4>2, Before, Zenon
    <3>4. QED
      BY <3>2, <3>3, ItemBytes
  <2>3. available' \in [Calls -> Nat]
    <3>1. \/ available' = available
          \/ available' = [available EXCEPT ![c] = @ + ItemLen(c, k)]
      BY <1>14 DEF HandleCredit, Grants
    <3>2. available \in [Calls -> Nat]
      BY DEF TypeOK
    <3>3. QED
      BY <2>2, <3>1, <3>2
  <2>4. credited' \in [Calls -> Nat]
    <3>1. \/ credited' = credited
          \/ credited' = [credited EXCEPT ![c] = k + 1]
      BY <1>14 DEF HandleCredit
    <3>2. credited \in [Calls -> Nat]
      BY DEF TypeOK
    <3>3. QED
      BY <2>2, <3>1, <3>2
  <2>5. QED
    BY <1>14, <2>1, <2>3, <2>4, Zenon DEF HandleCredit, TypeOK
<1>15. ASSUME NEW c \in Calls, HandleStreamCancel(c) PROVE TypeOK'
  BY <1>15, Receives, Zenon
  DEF HandleStreamCancel, Read, TypeOK, CallerStates, TaskStates
<1>16. ASSUME NEW c \in Calls, Dispatch(c) PROVE TypeOK'
  <2>1. PICK x \in TaskStates : task' = [task EXCEPT ![c] = x]
    BY <1>16 DEF Dispatch, TaskStep, TaskStates
  <2>2. QED
    BY <1>16, <2>1, Zenon DEF Dispatch, TaskStep, TypeOK
<1>17. ASSUME NEW c \in Calls, Reply(c) PROVE TypeOK'
  <2>1. PICK x \in TaskStates : task' = [task EXCEPT ![c] = x]
    BY <1>17, Zenon DEF Reply, TaskStep, AfterReply, TaskStates
  <2>2. replied' \in [Calls -> BOOLEAN]
    BY <1>17, Flags DEF Reply
  <2>3. QED
    BY <1>17, <2>1, <2>2, ZenonT(60) DEF Reply, TaskStep, TypeOK
<1>18. ASSUME NEW c \in Calls, SendReply(c) PROVE TypeOK'
  <2>1. PICK x \in TaskStates : task' = [task EXCEPT ![c] = x]
    BY <1>18, Zenon DEF SendReply, TaskStep, AfterReply, TaskStates
  <2>2. toCaller' \in [Calls -> Seq(ToCaller)]
    BY <1>18, Sends, FrameTypes DEF SendReply
  <2>3. replies' \in [Calls -> Nat]
    BY <1>18, Counts DEF SendReply
  <2>4. QED
    BY <1>18, <2>1, <2>2, <2>3, ZenonT(60) DEF SendReply, TaskStep, TypeOK
<1>19. ASSUME NEW c \in Calls, NextItem(c) PROVE TypeOK'
  BY <1>19, Zenon
  DEF NextItem, TaskStep, TypeOK, CallerStates, TaskStates
<1>20. ASSUME NEW c \in Calls, ItemsEnd(c) PROVE TypeOK'
  BY <1>20, Sends, FrameTypes, Zenon
  DEF ItemsEnd, TaskStep, TypeOK, CallerStates, TaskStates
<1>21. ASSUME NEW c \in Calls, ItemsFail(c) PROVE TypeOK'
  BY <1>21, Sends, FrameTypes, Zenon
  DEF ItemsFail, TaskStep, TypeOK, CallerStates, TaskStates
<1>22. ASSUME NEW c \in Calls, SendItem(c) PROVE TypeOK'
  <2>1. sent[c] \in Nat /\ sent[c] < Length[c] /\ ItemLen(c, sent[c]) \in Nat
    <3>1. sent[c] \in Nat /\ sent[c] < Length[c]
      BY <1>22 DEF SendItem, TaskStep, Inv, CallInv, PositionInv, TypeOK
    <3>2. QED
      BY <3>1, ItemBytes
  <2>2. available' \in [Calls -> Nat]
    <3>1. available \in [Calls -> Nat]
      BY DEF TypeOK
    <3>2. QED
      BY <1>22, <2>1, <3>1 DEF SendItem, Enough
  <2>3. toCaller' \in [Calls -> Seq(ToCaller)]
    BY <1>22, <2>1, Sends, FrameTypes DEF SendItem
  <2>4. sent' \in [Calls -> Nat]
    BY <1>22, Counts DEF SendItem
  <2>5. QED
    BY <1>22, <2>2, <2>3, <2>4, Zenon DEF SendItem, TaskStep, TaskStates, TypeOK
<1>23. ASSUME NEW c \in Calls, AcquireFails(c) PROVE TypeOK'
  BY <1>23
  DEF AcquireFails, TaskStep, TypeOK, CallerStates, TaskStates
<1>24. ASSUME NEW c \in Calls, CloseStream(c) PROVE TypeOK'
  BY <1>24, Zenon
  DEF CloseStream, TaskStep, TypeOK, CallerStates, TaskStates
<1>25. ASSUME NEW c \in Calls, Finish(c) PROVE TypeOK'
  BY <1>25, Flags, Zenon
  DEF Finish, TaskStep, TypeOK, CallerStates, TaskStates
<1>26. ASSUME NEW c \in Calls, Deregister(c) PROVE TypeOK'
  BY <1>26, Zenon
  DEF Deregister, TaskStep, TypeOK, CallerStates, TaskStates
<1>27. ASSUME NEW c \in Calls, Killed(c) PROVE TypeOK'
  BY <1>27
  DEF Killed, TaskStep, TypeOK, CallerStates, TaskStates
<1>28. ASSUME NEW c \in Calls, Panic(c) PROVE TypeOK'
  BY <1>28, Zenon
  DEF Panic, TaskStep, TypeOK, CallerStates, TaskStates
<1>29. ASSUME NEW c \in Calls, FailVictim(c) PROVE TypeOK'
  <2>1. toCaller' \in [Calls -> Seq(ToCaller)]
    BY <1>29, Sends, FrameTypes, Zenon DEF FailVictim, TypeOK
  <2>2. replied' \in [Calls -> BOOLEAN]
    BY <1>29, Flags DEF FailVictim
  <2>3. aborted' \subseteq Calls /\ owed' \subseteq Calls /\ credits' \subseteq Streaming
    BY <1>29, Zenon DEF FailVictim, TypeOK
  <2>4. QED
    BY <1>29, <2>1, <2>2, <2>3, Zenon DEF FailVictim, TypeOK
<1>30. CASE RemoveCapability
  BY <1>30, Zenon DEF RemoveCapability, TypeOK
<1>31. CASE TakeVictims
  BY <1>31, Zenon DEF TakeVictims, TypeOK
<1>32. CASE UNCHANGED vars
  BY <1>32, Zenon DEF vars, TypeOK
<1>33. ASSUME NEW c \in Calls, SendError(c) PROVE TypeOK'
  <2>1. toCaller' \in [Calls -> Seq(ToCaller)]
    BY <1>33, Sends, FrameTypes, Zenon DEF SendError
  <2>2. replies' \in [Calls -> Nat]
    BY <1>33, Counts DEF SendError
  <2>3. QED
    BY <1>33, <2>1, <2>2, Zenon DEF SendError, TypeOK
<1>34. QED
  BY <1>1, <1>2, <1>3, <1>4, <1>5, <1>6, <1>7, <1>8, <1>9, <1>10, <1>11, <1>12,
     <1>13, <1>14, <1>15, <1>16, <1>17, <1>18, <1>19, <1>20, <1>21, <1>22, <1>23,
     <1>24, <1>25, <1>26, <1>27, <1>28, <1>29, <1>30, <1>31, <1>32, <1>33
  DEF Next, CallerStep, CallerReader, CalleeReader, Task
===============================================================================
