-------------------------------- MODULE Calls ---------------------------------
(***************************************************************************)
(* Calls over one live connection, from zyris-core/src/connection.rs: a    *)
(* caller issues requests, a callee dispatches each to a capability in a   *)
(* task of its own and answers it, and a streaming call's items follow the *)
(* answer under credit-based flow control.  Either end may issue calls;    *)
(* the two directions use disjoint ids, so one direction is modelled.      *)
(*                                                                         *)
(* The threads that interleave are the caller's tasks, the caller's        *)
(* reader, the callee's reader, one task per call, and a task that removes *)
(* the capability (Capabilities::remove, which calls revoke_inflight).     *)
(* Each action is one lock region or one atomic operation of the code;     *)
(* neighbouring ones are merged only where no other thread can tell.       *)
(*                                                                         *)
(* Data is abstracted to positions: the items of a stream are numbered     *)
(* from 0, Offset[c][k] is the total length in bytes of the first k, a     *)
(* chunk carries the number of its item and an s_credit the number of the  *)
(* item it pays for.  Frames of different calls never affect each other,   *)
(* so each call has its own FIFO in each direction.  Closing the           *)
(* connection is the subject of module Shutdown, the wakeups inside        *)
(* acquire of module CreditGate.                                           *)
(***************************************************************************)
EXTENDS Naturals, Sequences

CONSTANTS Calls,      \* the requests issued
          Streaming,  \* those that declare a stream, of a tool that returns one
          Length,     \* Length[c]: how many items c's stream has
          Offset,     \* Offset[c][k]: bytes in its first k items
          Window,     \* limits.initial_stream_credit
          Lossy,      \* the hop may be a relay that drops chunks
          Panics,     \* capability code may panic
          None        \* no call

ItemLen(c, k) == Offset[c][k + 1] - Offset[c][k]

ASSUME CallsAssumption == Streaming \subseteq Calls /\ None \notin Calls
ASSUME WindowAssumption == Window \in Nat
ASSUME LengthAssumption == Length \in [Calls -> Nat]
ASSUME OffsetAssumption ==
    \A c \in Calls :
        /\ Offset[c] \in [0 .. Length[c] -> Nat]
        /\ \A i, j \in 0 .. Length[c] : i <= j => Offset[c][i] <= Offset[c][j]

Ctl(t) == [t |-> t, n |-> 0]
Numbered(t, k) == [t |-> t, n |-> k]

ToCaller == [t : {"res", "err", "data", "s_end", "s_err"}, n : Nat]
ToCallee == [t : {"req", "cancel", "s_credit", "s_cancel"}, n : Nat]
Events == [t : {"data", "end", "failed"}, n : Nat]

VARIABLES
  \* the caller
    caller,    \* caller[c]: where the application's use of the call stands
    pending,   \* calls with an entry in Shared.pending
    reply,     \* what the reader put into the oneshot of the call
    incoming,  \* streams with an entry in Shared.incoming
    next_seq,  \* IncomingStreamEntry.next_seq
    rx,        \* stream events queued for the application
    read,      \* items the application has taken out of rx
    cancels,   \* calls the caller's side has sent a cancel for
  \* the wire
    toCaller, toCallee,
    lost,      \* calls that lost a chunk on the way (history)
  \* the callee
    served,    \* the capability is in the callee's set
    reader,    \* the call its reader is busy with: spawned and not yet
               \* registered, or canceled and not yet answered
    task,      \* task[c]: where the call's task stands
    replied, done,   \* the two AtomicBools shared by task and InflightCall
    inflight,  \* calls with an entry in Shared.inflight
    aborted,   \* calls whose task has been told to abort
    owed,      \* calls whose canceler or remover swapped replied and has yet
               \* to send err
    replies,   \* how many res and err were sent for the call (history)
    sent,      \* items sent on the stream; the task's seq
  \* the gate of each stream
    credits,   \* streams with an entry in Shared.credits
    available, canceled,
    credited,  \* one more than the last item credit was taken for (history)
  \* the task inside Capabilities::remove
    remover,   \* the call it belongs to, if any
    victims,   \* calls taken out of inflight and still to be failed
    revoked    \* revoke_inflight has taken its victims

callerVars == <<caller, pending, reply, incoming, next_seq, rx, read, cancels>>
taskVars == <<task, replied, done, aborted, owed, replies, sent>>
gateVars == <<credits, available, canceled, credited>>
revokeVars == <<served, remover, victims, revoked>>
vars == <<callerVars, toCaller, toCallee, lost, reader, inflight, taskVars,
          gateVars, revokeVars>>

TaskStates == {"none", "dispatch", "res", "send_res", "err", "send_err", "next",
               "acquire", "close", "finish", "deregister", "gone", "killed"}
CallerStates == {"idle", "calling", "returned", "open", "failed", "abandoned",
                 "dropped", "ended", "broken"}

TypeOK ==
    /\ caller \in [Calls -> CallerStates]
    /\ pending \subseteq Calls
    /\ reply \in [Calls -> {"none", "res", "err"}]
    /\ incoming \subseteq Streaming
    /\ next_seq \in [Calls -> Nat]
    /\ rx \in [Calls -> Seq(Events)]
    /\ read \in [Calls -> Nat]
    /\ cancels \subseteq Calls
    /\ toCaller \in [Calls -> Seq(ToCaller)]
    /\ toCallee \in [Calls -> Seq(ToCallee)]
    /\ lost \subseteq Calls
    /\ served \in BOOLEAN
    /\ reader \in Calls \cup {None}
    /\ task \in [Calls -> TaskStates]
    /\ replied \in [Calls -> BOOLEAN]
    /\ done \in [Calls -> BOOLEAN]
    /\ inflight \subseteq Calls
    /\ aborted \subseteq Calls
    /\ owed \subseteq Calls
    /\ replies \in [Calls -> Nat]
    /\ sent \in [Calls -> Nat]
    /\ credits \subseteq Streaming
    /\ available \in [Calls -> Nat]
    /\ canceled \subseteq Calls
    /\ credited \in [Calls -> Nat]
    /\ remover \in Calls \cup {None}
    /\ victims \subseteq Calls
    /\ revoked \in BOOLEAN

Init ==
    /\ caller = [c \in Calls |-> "idle"]
    /\ pending = {}
    /\ reply = [c \in Calls |-> "none"]
    /\ incoming = {}
    /\ next_seq = [c \in Calls |-> 0]
    /\ rx = [c \in Calls |-> <<>>]
    /\ read = [c \in Calls |-> 0]
    /\ cancels = {}
    /\ toCaller = [c \in Calls |-> <<>>]
    /\ toCallee = [c \in Calls |-> <<>>]
    /\ lost = {}
    /\ served = TRUE
    /\ reader = None
    /\ task = [c \in Calls |-> "none"]
    /\ replied = [c \in Calls |-> FALSE]
    /\ done = [c \in Calls |-> FALSE]
    /\ inflight = {}
    /\ aborted = {}
    /\ owed = {}
    /\ replies = [c \in Calls |-> 0]
    /\ sent = [c \in Calls |-> 0]
    /\ credits = {}
    /\ available = [c \in Calls |-> Window]
    /\ canceled = {}
    /\ credited = [c \in Calls |-> 0]
    /\ remover = None
    /\ victims = {}
    /\ revoked = FALSE

-------------------------------------------------------------------------------
(* The caller's application *)

\* send_envelope on a connection whose writer runs, from either end.
SendToCallee(c, frame) == toCallee' = [toCallee EXCEPT ![c] = Append(@, frame)]
SendToCaller(c, frame) == toCaller' = [toCaller EXCEPT ![c] = Append(@, frame)]

\* request, and call_streaming_raw for a streaming call.
Request(c) ==
    /\ caller[c] = "idle"
    /\ caller' = [caller EXCEPT ![c] = "calling"]
    /\ incoming' = incoming \cup ({c} \cap Streaming)
    /\ pending' = pending \cup {c}
    /\ SendToCallee(c, Ctl("req"))
    /\ UNCHANGED <<reply, next_seq, rx, read, cancels, toCaller, lost, reader,
                   inflight, taskVars, gateVars, revokeVars>>

\* The oneshot resolves and the call's future returns.
CallReturns(c) ==
    /\ caller[c] = "calling"
    /\ \/ /\ reply[c] = "res"
          /\ caller' = [caller EXCEPT
                            ![c] = IF c \in Streaming THEN "open" ELSE "returned"]
          /\ UNCHANGED <<incoming, rx>>
       \/ /\ reply[c] = "err"
          /\ caller' = [caller EXCEPT ![c] = "failed"]
          /\ incoming' = incoming \ {c}
          /\ rx' = [rx EXCEPT ![c] = <<>>]
    /\ UNCHANGED <<pending, reply, next_seq, read, cancels, toCaller, toCallee,
                   lost, reader, inflight, taskVars, gateVars, revokeVars>>

\* The application drops the future of a call that has not returned, as a
\* timeout around it does.  Nothing is sent; the map entries stay.
AbandonCall(c) ==
    /\ caller[c] = "calling"
    /\ caller' = [caller EXCEPT ![c] = "abandoned"]
    /\ rx' = [rx EXCEPT ![c] = <<>>]
    /\ UNCHANGED <<pending, reply, incoming, next_seq, read, cancels, toCaller,
                   toCallee, lost, reader, inflight, taskVars, gateVars, revokeVars>>

\* A peer may cancel a request it has issued.
SendCancel(c) ==
    /\ caller[c] # "idle" /\ c \notin cancels
    /\ cancels' = cancels \cup {c}
    /\ SendToCallee(c, Ctl("cancel"))
    /\ UNCHANGED <<caller, pending, reply, incoming, next_seq, rx, read, toCaller,
                   lost, reader, inflight, taskVars, gateVars, revokeVars>>

\* RawIncomingStream::poll_next.
PollNext(c) ==
    /\ caller[c] = "open" /\ rx[c] # <<>>
    /\ rx' = [rx EXCEPT ![c] = Tail(@)]
    /\ \/ /\ Head(rx[c]).t = "data"
          /\ read' = [read EXCEPT ![c] = @ + 1]
          /\ SendToCallee(c, Numbered("s_credit", Head(rx[c]).n))
          /\ UNCHANGED caller
       \/ /\ Head(rx[c]).t \in {"end", "failed"}
          /\ caller' = [caller EXCEPT
                            ![c] = IF Head(rx[c]).t = "end" THEN "ended" ELSE "broken"]
          /\ UNCHANGED <<read, toCallee>>
    /\ UNCHANGED <<pending, reply, incoming, next_seq, cancels, toCaller, lost,
                   reader, inflight, taskVars, gateVars, revokeVars>>

\* Drop for RawIncomingStream, before its end was read.
DropStream(c) ==
    /\ caller[c] = "open"
    /\ caller' = [caller EXCEPT ![c] = "dropped"]
    /\ incoming' = incoming \ {c}
    /\ rx' = [rx EXCEPT ![c] = <<>>]
    /\ SendToCallee(c, Ctl("s_cancel"))
    /\ UNCHANGED <<pending, reply, next_seq, read, cancels, toCaller, lost, reader,
                   inflight, taskVars, gateVars, revokeVars>>

-------------------------------------------------------------------------------
(* The caller's reader: handle_frame and handle_control *)

\* An event goes into the stream's channel unless its receiver is gone.
Push(c, event) ==
    rx' = [rx EXCEPT ![c] = IF caller[c] \in {"calling", "open"}
                            THEN Append(@, event) ELSE @]

Receive(c, t) ==
    /\ toCaller[c] # <<>> /\ Head(toCaller[c]).t = t
    /\ toCaller' = [toCaller EXCEPT ![c] = Tail(@)]
    /\ UNCHANGED <<caller, read, cancels, lost, reader, inflight, taskVars,
                   gateVars, revokeVars>>

\* A reader that delivers whatever chunk comes next.
ExpectedAnything(c) == TRUE

Expected(c) == Head(toCaller[c]).n = next_seq[c]

ReceiveReply(c) ==
    \E t \in {"res", "err"} :
        /\ Receive(c, t)
        /\ pending' = pending \ {c}
        /\ reply' = [reply EXCEPT ![c] = IF c \in pending THEN t ELSE @]
        /\ UNCHANGED <<incoming, next_seq, rx, toCallee>>

ReceiveData(c) ==
    /\ Receive(c, "data")
    /\ \/ /\ c \notin incoming
          /\ UNCHANGED <<incoming, next_seq, rx, toCallee>>
       \/ /\ c \in incoming /\ Expected(c)
          /\ next_seq' = [next_seq EXCEPT ![c] = @ + 1]
          /\ Push(c, Numbered("data", Head(toCaller[c]).n))
          /\ UNCHANGED <<incoming, toCallee>>
       \/ /\ c \in incoming /\ ~Expected(c)
          /\ incoming' = incoming \ {c}
          /\ Push(c, Ctl("failed"))
          /\ SendToCallee(c, Ctl("s_cancel"))
          /\ UNCHANGED next_seq
    /\ UNCHANGED <<pending, reply>>

\* A failed stream ends like a finished one.
ReceiveEndCleanly(c) ==
    \E t \in {"s_end", "s_err"} :
        /\ Receive(c, t)
        /\ incoming' = incoming \ {c}
        /\ IF c \in incoming THEN Push(c, Ctl("end")) ELSE UNCHANGED rx
        /\ UNCHANGED <<pending, reply, next_seq, toCallee>>

ReceiveEnd(c) ==
    \E t \in {"s_end", "s_err"} :
        /\ Receive(c, t)
        /\ incoming' = incoming \ {c}
        /\ IF c \in incoming
           THEN Push(c, Ctl(IF t = "s_end" THEN "end" ELSE "failed"))
           ELSE UNCHANGED rx
        /\ UNCHANGED <<pending, reply, next_seq, toCallee>>

\* A relay between the two ends drops a chunk (external).
LoseChunk(c) ==
    /\ Lossy
    /\ toCaller[c] # <<>> /\ Head(toCaller[c]).t = "data"
    /\ toCaller' = [toCaller EXCEPT ![c] = Tail(@)]
    /\ lost' = lost \cup {c}
    /\ UNCHANGED <<callerVars, toCallee, reader, inflight, taskVars, gateVars,
                   revokeVars>>

-------------------------------------------------------------------------------
(* The callee's reader: handle_control and handle_request.  It is one task,  *)
(* so it takes no further frame before it has registered the call it spawned *)

Read(c, t) ==
    /\ reader = None
    /\ toCallee[c] # <<>> /\ Head(toCallee[c]).t = t
    /\ toCallee' = [toCallee EXCEPT ![c] = Tail(@)]

\* handle_request up to tokio::spawn.
HandleRequest(c) ==
    /\ Read(c, "req")
    /\ \/ /\ ~served
          /\ SendToCaller(c, Ctl("err"))
          /\ replies' = [replies EXCEPT ![c] = @ + 1]
          /\ UNCHANGED <<reader, task>>
       \/ /\ served
          /\ task' = [task EXCEPT ![c] = "dispatch"]
          /\ reader' = c
          /\ UNCHANGED <<toCaller, replies>>
    /\ UNCHANGED <<callerVars, lost, inflight, replied, done, aborted, owed, sent,
                   gateVars, revokeVars>>

\* A reader that registers a call without asking whether it is over.
RegisterAlways(c) ==
    /\ reader = c /\ c \notin owed
    /\ inflight' = inflight \cup {c}
    /\ reader' = None
    /\ UNCHANGED <<callerVars, toCaller, toCallee, lost, taskVars, gateVars,
                   revokeVars>>

\* The rest of handle_request: the entry goes in unless the task is done.
Register(c) ==
    /\ reader = c /\ c \notin owed
    /\ inflight' = IF done[c] THEN inflight ELSE inflight \cup {c}
    /\ reader' = None
    /\ UNCHANGED <<callerVars, toCaller, toCallee, lost, taskVars, gateVars,
                   revokeVars>>

\* Answering a call twice over.
WinsReplyAlways(c) == TRUE

\* Answering only calls that are found in the map.
WinsReplyInflight(c) == ~replied[c] /\ c \in inflight

\* !replied.swap(true): the first to answer a call, and the only one that may.
WinsReply(c) == ~replied[c]

\* Cancel, up to the swap: the call is to be answered, or its stream ends if the
\* answer is out already.
HandleCancel(c) ==
    /\ Read(c, "cancel")
    /\ IF c \notin inflight
       THEN UNCHANGED <<toCaller, reader, inflight, taskVars, credits>>
       ELSE /\ inflight' = inflight \ {c}
            /\ aborted' = aborted \cup {c}
            /\ done' = [done EXCEPT ![c] = TRUE]
            /\ replied' = [replied EXCEPT ![c] = TRUE]
            /\ \/ /\ WinsReply(c)
                  /\ owed' = owed \cup {c}
                  /\ reader' = c
                  /\ UNCHANGED <<toCaller, credits>>
               \/ /\ ~WinsReply(c)
                  /\ credits' = credits \ {c}
                  /\ IF c \in credits THEN SendToCaller(c, Ctl("s_err"))
                                      ELSE UNCHANGED toCaller
                  /\ UNCHANGED <<reader, owed>>
            /\ UNCHANGED <<task, replies, sent>>
    /\ UNCHANGED <<callerVars, lost, available, canceled, credited, revokeVars>>

\* The err of a Cancel or of revoke_inflight, which aborts the task after it.
SendError(c) ==
    /\ c \in owed
    /\ owed' = owed \ {c}
    /\ SendToCaller(c, Ctl("err"))
    /\ replies' = [replies EXCEPT ![c] = @ + 1]
    /\ aborted' = aborted \cup {c}
    /\ reader' = IF reader = c THEN None ELSE reader
    /\ UNCHANGED <<callerVars, toCallee, lost, inflight, task, replied, done, sent,
                   gateVars, revokeVars>>

\* Credit applied as if the whole window had been read.
GrantsWindow(c, k) == Window

Grants(c, k) == ItemLen(c, k)

\* SCredit: CreditGate::add, if the stream still has a gate.
HandleCredit(c) ==
    /\ Read(c, "s_credit")
    /\ LET k == Head(toCallee[c]).n IN
       IF c \in credits
       THEN /\ available' = [available EXCEPT ![c] = @ + Grants(c, k)]
            /\ credited' = [credited EXCEPT ![c] = k + 1]
       ELSE UNCHANGED <<available, credited>>
    /\ UNCHANGED <<callerVars, toCaller, lost, reader, inflight, taskVars, credits,
                   canceled, revokeVars>>

\* SCancel: CreditGate::cancel, and the gate's entry goes.
HandleStreamCancel(c) ==
    /\ Read(c, "s_cancel")
    /\ canceled' = canceled \cup ({c} \cap credits)
    /\ credits' = credits \ {c}
    /\ UNCHANGED <<callerVars, toCaller, lost, reader, inflight, taskVars,
                   available, credited, revokeVars>>

-------------------------------------------------------------------------------
(* The task of one call.  abort() takes effect where the task next waits; a   *)
(* task that is running when it is aborted runs on until then.                *)

TaskStep(c, from, to) ==
    /\ task[c] = from
    /\ task' = [task EXCEPT ![c] = to]
    /\ UNCHANGED <<callerVars, toCallee, lost, reader, aborted, owed, revokeVars>>

\* revoke_inflight has failed the calls it took.
RevocationDone == revoked /\ victims = {} /\ owed \subseteq {reader}

\* The call's task is inside Capabilities::remove, which does not wait before
\* revoke_inflight is through.
Removing(c) == c = remover /\ ~RevocationDone

\* capability.dispatch returns.  A stream for a call that declared one gets its
\* gate before anything else; a stream nobody declared is an error.
Dispatch(c) ==
    /\ ~Removing(c)
    /\ \/ /\ TaskStep(c, "dispatch", "res")
          /\ credits' = credits \cup ({c} \cap Streaming)
       \/ /\ TaskStep(c, "dispatch", "err")
          /\ UNCHANGED credits
    /\ UNCHANGED <<toCaller, inflight, replied, done, replies, sent, available,
                   canceled, credited>>

AfterReply(c, pc) == IF pc = "res" /\ c \in Streaming THEN "next" ELSE "finish"

\* reply_res and reply_err up to the swap of replied.
Reply(c) ==
    \E pc \in {"res", "err"} :
        /\ TaskStep(c, pc, IF ~WinsReply(c) THEN AfterReply(c, pc)
                           ELSE IF pc = "res" THEN "send_res" ELSE "send_err")
        /\ replied' = [replied EXCEPT ![c] = TRUE]
        /\ UNCHANGED <<toCaller, inflight, done, replies, sent, gateVars>>

\* ... and the envelope they send.
SendReply(c) ==
    \E pc \in {"res", "err"} :
        /\ TaskStep(c, IF pc = "res" THEN "send_res" ELSE "send_err",
                    AfterReply(c, pc))
        /\ SendToCaller(c, Ctl(pc))
        /\ replies' = [replies EXCEPT ![c] = @ + 1]
        /\ UNCHANGED <<inflight, replied, done, sent, gateVars>>

\* items.next() yields an item, its end, or an error.
NextItem(c) ==
    /\ sent[c] < Length[c]
    /\ TaskStep(c, "next", "acquire")
    /\ UNCHANGED <<toCaller, inflight, replied, done, replies, sent, gateVars>>

ItemsEnd(c) ==
    /\ sent[c] = Length[c]
    /\ TaskStep(c, "next", "close")
    /\ SendToCaller(c, Ctl("s_end"))
    /\ UNCHANGED <<inflight, replied, done, replies, sent, gateVars>>

ItemsFail(c) ==
    /\ TaskStep(c, "next", "close")
    /\ SendToCaller(c, Ctl("s_err"))
    /\ UNCHANGED <<inflight, replied, done, replies, sent, gateVars>>


Enough(c) == available[c] >= ItemLen(c, sent[c])

\* gate.acquire succeeds and the chunk is sent.
SendItem(c) ==
    /\ TaskStep(c, "acquire", "next")
    /\ c \notin canceled
    /\ Enough(c)
    /\ available' = [available EXCEPT ![c] = @ - ItemLen(c, sent[c])]
    /\ SendToCaller(c, Numbered("data", sent[c]))
    /\ sent' = [sent EXCEPT ![c] = @ + 1]
    /\ UNCHANGED <<inflight, replied, done, replies, credits, canceled, credited>>

\* gate.acquire fails because the gate was canceled.
AcquireFails(c) ==
    /\ c \in canceled
    /\ TaskStep(c, "acquire", "close")
    /\ UNCHANGED <<toCaller, inflight, replied, done, replies, sent, gateVars>>

CloseStream(c) ==
    /\ TaskStep(c, "close", "finish")
    /\ credits' = credits \ {c}
    /\ UNCHANGED <<toCaller, inflight, replied, done, replies, sent, available,
                   canceled, credited>>

Finish(c) ==
    /\ TaskStep(c, "finish", "deregister")
    /\ done' = [done EXCEPT ![c] = TRUE]
    /\ UNCHANGED <<toCaller, inflight, replied, replies, sent, gateVars>>

Deregister(c) ==
    /\ TaskStep(c, "deregister", "gone")
    /\ inflight' = inflight \ {c}
    /\ UNCHANGED <<toCaller, replied, done, replies, sent, gateVars>>

Waits(c) == task[c] \in {"dispatch", "next", "acquire"} /\ ~Removing(c)

\* The runtime drops the future of an aborted task at the point it waits.
Killed(c) ==
    /\ c \in aborted /\ Waits(c)
    /\ TaskStep(c, task[c], "killed")
    /\ UNCHANGED <<toCaller, inflight, replied, done, replies, sent, gateVars>>

\* Capability code panics; the runtime catches it and the task is over.
Panic(c) ==
    /\ Panics
    /\ Waits(c) /\ task[c] # "acquire"
    /\ TaskStep(c, task[c], "killed")
    /\ UNCHANGED <<toCaller, inflight, replied, done, replies, sent, gateVars>>

-------------------------------------------------------------------------------
(* Capabilities::remove on the callee: the capability leaves the set, then    *)
(* revoke_inflight fails the calls it finds in flight.                        *)

\* The task that removes the capability may be one of its own calls.
RemoveCapability ==
    /\ served
    /\ served' = FALSE
    /\ remover' \in {None} \cup {c \in Calls : task[c] = "dispatch"}
    /\ UNCHANGED <<callerVars, toCaller, toCallee, lost, reader, inflight, taskVars,
                   gateVars, victims, revoked>>

TakeVictims ==
    /\ ~served /\ ~revoked
    /\ victims' = inflight \ {remover}
    /\ inflight' = inflight \cap {remover}
    /\ revoked' = TRUE
    /\ UNCHANGED <<callerVars, toCaller, toCallee, lost, reader, taskVars, gateVars,
                   served, remover>>

\* The victims are failed one after the other.
FailVictim(c) ==
    /\ c \in victims /\ owed \subseteq {reader}
    /\ victims' = victims \ {c}
    /\ replied' = [replied EXCEPT ![c] = TRUE]
    /\ \/ /\ WinsReply(c)
          /\ owed' = owed \cup {c}
          /\ UNCHANGED <<toCaller, aborted, credits>>
       \/ /\ ~WinsReply(c)
          /\ credits' = credits \ {c}
          /\ aborted' = aborted \cup {c}
          /\ IF c \in Streaming THEN SendToCaller(c, Ctl("s_err"))
                                ELSE UNCHANGED toCaller
          /\ UNCHANGED owed
    /\ UNCHANGED <<callerVars, toCallee, lost, reader, inflight, task, done, replies,
                   sent, available, canceled, credited, served, remover, revoked>>

-------------------------------------------------------------------------------
CallerStep(c) ==
    \/ Request(c) \/ CallReturns(c) \/ AbandonCall(c) \/ SendCancel(c)
    \/ PollNext(c) \/ DropStream(c)

CallerReader(c) == ReceiveReply(c) \/ ReceiveData(c) \/ ReceiveEnd(c)

CalleeReader(c) ==
    \/ HandleRequest(c) \/ Register(c) \/ HandleCancel(c) \/ HandleCredit(c)
    \/ HandleStreamCancel(c)

Task(c) ==
    \/ Dispatch(c) \/ Reply(c) \/ SendReply(c)
    \/ NextItem(c) \/ ItemsEnd(c) \/ ItemsFail(c) \/ SendItem(c) \/ AcquireFails(c)
    \/ CloseStream(c) \/ Finish(c) \/ Deregister(c)
    \/ Killed(c) \/ Panic(c)

Next ==
    \/ \E c \in Calls :
          \/ CallerStep(c) \/ CallerReader(c) \/ LoseChunk(c)
          \/ CalleeReader(c) \/ Task(c) \/ FailVictim(c) \/ SendError(c)
    \/ RemoveCapability
    \/ TakeVictims

Spec == Init /\ [][Next]_vars

-------------------------------------------------------------------------------
\* What the runtime guarantees: both readers are polled while frames arrive, a
\* thread inside a function finishes it, and an aborted task is dropped.
RuntimeFairness ==
    /\ \A c \in Calls :
          /\ WF_vars(CallerReader(c)) /\ WF_vars(CalleeReader(c))
          /\ WF_vars(CallReturns(c))
          /\ WF_vars(Reply(c)) /\ WF_vars(SendReply(c))
          /\ WF_vars(SendItem(c)) /\ WF_vars(AcquireFails(c))
          /\ WF_vars(CloseStream(c)) /\ WF_vars(Finish(c)) /\ WF_vars(Deregister(c))
          /\ WF_vars(Killed(c)) /\ WF_vars(FailVictim(c)) /\ WF_vars(SendError(c))
    /\ WF_vars(TakeVictims)

\* What the code on top must add: a capability finishes what it was asked to do
\* and an application reads the stream it opened.
ApplicationFairness ==
    \A c \in Calls :
        /\ WF_vars(Dispatch(c)) /\ WF_vars(NextItem(c) \/ ItemsEnd(c))
        /\ WF_vars(PollNext(c))

FairSpec == Spec /\ RuntimeFairness
LiveSpec == FairSpec /\ ApplicationFairness

-------------------------------------------------------------------------------
\* However the task, a cancel and a revocation race for a call, the callee sends
\* at most one res or err for it (reply_res, reply_err, revoke_inflight and
\* Cancel all go through the swap of replied).
AtMostOneReply == \A c \in Calls : replies[c] <= 1

\* The bytes of a stream that are on the wire or wait unread at the receiver
\* never exceed the window it granted: the only bound on buffering there is.
FlowControl == \A c \in Calls : Offset[c][sent[c]] <= Window + Offset[c][read[c]]

\* What the application reads next is the item after the one it read last: no
\* chunk is skipped, repeated or reordered, whatever was lost (handle_frame).
InOrder ==
    \A c \in Calls : \A i \in DOMAIN rx[c] :
        /\ i < Len(rx[c]) => rx[c][i].t = "data"
        /\ rx[c][i].t = "data" => rx[c][i].n = read[c] + i - 1

\* An entry of a task that ran to its end does not stay in inflight, in
\* whichever order the task's removal and the reader's insertion happen.
NoStaleInflight ==
    \A c \in inflight : task[c] # "gone"

\* A chunk lost on a relayed hop makes the stream fail; it never ends cleanly, as
\* if it had been complete ("Loss must surface, not silently truncate").
LossSurfaces == \A c \in lost : caller[c] # "ended"

\* Once a revocation has failed its victims, no other call of the capability
\* goes on running unanswered (revoke_inflight, called by Capabilities::remove).
RevocationReachesAll ==
    RevocationDone =>
        \A c \in Calls \ {remover} : task[c] = "dispatch" => replied[c]

Application == INSTANCE RemoteCall WITH state <- caller, delivered <- read

\* To the application a call behaves as RemoteCall says: in particular a stream
\* that ends cleanly has delivered every item, and none comes after its end.
ImplementsRemoteCall == Application!Spec

\* A canceled request is answered, even if its capability never returns or has
\* panicked, and whether the cancel arrives before or after the call is registered
\* in inflight (the Cancel arm of handle_control).
CanceledIsAnswered == \A c \in Calls : c \in cancels ~> replies[c] > 0

\* Every call the application waits for returns, whoever answers it: the task, a
\* cancel or a revocation (replied, pending and the oneshot of request).
CallsReturn == \A c \in Calls : caller[c] = "calling" ~> caller[c] # "calling"

===============================================================================
