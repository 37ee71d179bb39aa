------------------------------- MODULE Shutdown -------------------------------
(***************************************************************************)
(* How one end of a connection closes, from zyris-core/src/connection.rs.  *)
(* Three tasks may find the connection dead and run shutdown(): the reader *)
(* (end of the socket, malformed frame), the writer (a failed write) and   *)
(* the watchdog (silence).  shutdown() takes one lock after the other, so  *)
(* its steps interleave with a second shutdown, with the reader accepting  *)
(* a request, with tasks serving requests, and with the application        *)
(* issuing new ones.                                                       *)
(*                                                                         *)
(* The peer and the socket are external.  A socket breaks once and for     *)
(* all, and no frame arrives any more; it is either closed, which whoever  *)
(* uses it gets to see, or silent (half-open), where writes may fail or    *)
(* vanish and the reader may wait for ever.                                *)
(***************************************************************************)
EXTENDS Naturals, Sequences

CONSTANTS Calls,   \* streaming requests the application issues
          Serves,  \* streaming requests of the peer this end serves
          None

Threads == {"reader", "writer", "watchdog"}
Causes == {"Transport", "Protocol", "Heartbeat"}
Reasons == Causes \cup {"Graceful"}

ASSUME NoneAssumption == None \notin Calls \cup Serves \cup Reasons

VARIABLES
    socket,    \* "open", "closed" or "silent"
    call,      \* call[c]: where call_streaming_raw and its stream stand
    incoming,  \* Shared.incoming
    pending,   \* Shared.pending
    answered,  \* calls whose oneshot holds the peer's answer
    failed,    \* calls whose oneshot holds connection_lost
    cut,       \* calls whose stream queue holds connection_lost
    out,       \* the writer's queue
    wire,      \* requests that reached the peer
    serving,   \* serving[k]: where the task of a served request stands
    accepting, \* the request the reader has spawned and not yet registered
    inflight, credits, canceled, aborted,  \* as in module Calls
    graceful,  \* Shared.graceful: the peer announced that it is closing
    at,        \* at[t]: where thread t stands in shutdown()
    why,       \* why[t]: the reason it would publish
    late,      \* threads whose shutdown began after a reason was published
    reason     \* Shared.close_tx

appVars == <<call, incoming, pending, answered, failed, cut, wire>>
serveVars == <<serving, accepting, inflight, credits, canceled, aborted>>
closeVars == <<graceful, at, why, late, reason>>
vars == <<socket, out, appVars, serveVars, closeVars>>

Init ==
    /\ socket = "open"
    /\ call = [c \in Calls |-> "idle"]
    /\ incoming = {} /\ pending = {} /\ answered = {} /\ failed = {} /\ cut = {}
    /\ out = <<>>
    /\ wire = {}
    /\ serving = [k \in Serves |-> "none"]
    /\ accepting = None
    /\ inflight = {} /\ credits = {} /\ canceled = {} /\ aborted = {}
    /\ graceful = FALSE
    /\ at = [t \in Threads |-> "run"]
    /\ why = [t \in Threads |-> None]
    /\ late = {}
    /\ reason = None

\* The writer's receiver is alive; out.send fails otherwise.
OutOpen == at["writer"] # "done"

Queued == {out[i] : i \in DOMAIN out}

-------------------------------------------------------------------------------
(* call_streaming_raw() and request() *)

InsertIncoming(c) ==
    /\ call[c] = "idle"
    /\ call' = [call EXCEPT ![c] = "entered"]
    /\ incoming' = incoming \cup {c}
    /\ UNCHANGED <<socket, out, pending, answered, failed, cut, wire, serveVars,
                   closeVars>>

InsertPending(c) ==
    /\ call[c] = "entered"
    /\ call' = [call EXCEPT ![c] = "inserted"]
    /\ pending' = pending \cup {c}
    /\ UNCHANGED <<socket, out, incoming, answered, failed, cut, wire, serveVars,
                   closeVars>>

SendRequest(c) ==
    /\ call[c] = "inserted"
    /\ IF OutOpen
       THEN /\ out' = Append(out, c)
            /\ call' = [call EXCEPT ![c] = "waiting"]
            /\ UNCHANGED <<incoming, pending>>
       ELSE /\ pending' = pending \ {c}
            /\ incoming' = incoming \ {c}
            /\ call' = [call EXCEPT ![c] = "lost"]
            /\ UNCHANGED out
    /\ UNCHANGED <<socket, answered, failed, cut, wire, serveVars, closeVars>>

CallReturns(c) ==
    /\ call[c] = "waiting"
    /\ \/ /\ c \in answered
          /\ call' = [call EXCEPT ![c] = "open"]
          /\ UNCHANGED incoming
       \/ /\ c \in failed
          /\ call' = [call EXCEPT ![c] = "lost"]
          /\ incoming' = incoming \ {c}
    /\ UNCHANGED <<socket, out, pending, answered, failed, cut, wire, serveVars,
                   closeVars>>

\* poll_next finds StreamEvent::Failed.
StreamBreaks(c) ==
    /\ call[c] = "open" /\ c \in cut
    /\ call' = [call EXCEPT ![c] = "broken"]
    /\ UNCHANGED <<socket, out, incoming, pending, answered, failed, cut, wire,
                   serveVars, closeVars>>

\* Connection::close queues the closing note and Close for the writer.
CloseLocally ==
    /\ OutOpen
    /\ "close" \notin Queued
    /\ out' = Append(out, "close")
    /\ UNCHANGED <<socket, appVars, serveVars, closeVars>>

-------------------------------------------------------------------------------
(* The socket and the peer (external) *)

BreakSocket ==
    /\ socket = "open"
    /\ socket' \in {"closed", "silent"}
    /\ UNCHANGED <<out, appVars, serveVars, closeVars>>

-------------------------------------------------------------------------------
(* The reader *)

Reading == at["reader"] = "run" /\ accepting = None

ReadAnswer(c) ==
    /\ Reading /\ socket = "open" /\ c \in wire
    /\ wire' = wire \ {c}
    /\ pending' = pending \ {c}
    /\ answered' = answered \cup ({c} \cap pending)
    /\ UNCHANGED <<socket, out, call, incoming, failed, cut, serveVars, closeVars>>

ReadClosingNote ==
    /\ Reading /\ socket = "open" /\ ~graceful
    /\ graceful' = TRUE
    /\ UNCHANGED <<socket, out, appVars, serveVars, at, why, late, reason>>

\* handle_request up to the spawn, and the registration after it.
Accept(k) ==
    /\ Reading /\ socket = "open" /\ serving[k] = "none"
    /\ serving' = [serving EXCEPT ![k] = "dispatch"]
    /\ accepting' = k
    /\ UNCHANGED <<socket, out, appVars, inflight, credits, canceled, aborted, closeVars>>

Register(k) ==
    /\ accepting = k
    /\ inflight' = inflight \cup (IF serving[k] = "stopped" THEN {} ELSE {k})
    /\ accepting' = None
    /\ UNCHANGED <<socket, out, appVars, serving, credits, canceled, aborted, closeVars>>

-------------------------------------------------------------------------------
(* The task of a served request: it registers its gate, sends chunks, and     *)
(* waits in acquire when the peer's credit is used up.                        *)

OpenGate(k) ==
    /\ serving[k] = "dispatch"
    /\ serving' = [serving EXCEPT ![k] = "sending"]
    /\ credits' = credits \cup {k}
    /\ UNCHANGED <<socket, out, appVars, accepting, inflight, canceled, aborted, closeVars>>

SendChunk(k) ==
    /\ serving[k] = "sending" /\ OutOpen
    /\ serving' = [serving EXCEPT ![k] = "blocked"]
    /\ out' = Append(out, k)
    /\ UNCHANGED <<socket, appVars, accepting, inflight, credits, canceled, aborted,
                   closeVars>>

\* acquire succeeds on new credit, which comes over a working socket and for a
\* chunk that was written to it.
MoreCredit(k) ==
    /\ serving[k] = "blocked" /\ Reading /\ socket = "open"
    /\ k \in credits \ Queued
    /\ serving' = [serving EXCEPT ![k] = "sending"]
    /\ UNCHANGED <<socket, out, appVars, accepting, inflight, credits, canceled,
                   aborted, closeVars>>

\* out.send fails, or acquire fails on a canceled gate: the task cleans up.  An
\* aborted task is dropped where it waits and cleans nothing up.
StopTask(k) ==
    /\ \/ /\ \/ serving[k] = "sending" /\ ~OutOpen
             \/ serving[k] = "blocked" /\ k \in canceled
          /\ credits' = credits \ {k}
          /\ inflight' = inflight \ {k}
       \/ /\ serving[k] \in {"dispatch", "sending", "blocked"} /\ k \in aborted
          /\ UNCHANGED <<credits, inflight>>
    /\ serving' = [serving EXCEPT ![k] = "stopped"]
    /\ UNCHANGED <<socket, out, appVars, accepting, canceled, aborted, closeVars>>

-------------------------------------------------------------------------------
(* What makes a thread call shutdown() *)

BeginShutdown(t, cause) ==
    /\ at' = [at EXCEPT ![t] = "take"]
    /\ why' = [why EXCEPT ![t] = cause]
    /\ late' = IF reason = None THEN late ELSE late \cup {t}
    /\ UNCHANGED <<graceful, reason>>

\* stream.next() yields None or an error, or a frame does not decode.
ReaderEnds ==
    /\ Reading
    /\ \/ socket # "open" /\ BeginShutdown("reader", "Transport")
       \/ socket = "open" /\ BeginShutdown("reader", "Protocol")
    /\ UNCHANGED <<socket, out, appVars, serveVars>>

\* run_writer: a write reaches the peer, vanishes in a broken socket, or fails.
Write ==
    /\ at["writer"] = "run" /\ out # <<>> /\ Head(out) # "close"
    /\ out' = Tail(out)
    /\ \/ /\ wire' = IF socket = "open" THEN wire \cup ({Head(out)} \cap Calls) ELSE wire
          /\ UNCHANGED closeVars
       \/ /\ socket # "open"
          /\ BeginShutdown("writer", "Transport")
          /\ UNCHANGED wire
    /\ UNCHANGED <<socket, call, incoming, pending, answered, failed, cut, serveVars>>

\* run_writer takes Close: it closes its half of the socket and its receiver is
\* dropped.
WriterCloses ==
    /\ at["writer"] = "run" /\ out # <<>> /\ Head(out) = "close"
    /\ at' = [at EXCEPT !["writer"] = "done"]
    /\ out' = <<>>
    /\ UNCHANGED <<socket, appVars, serveVars, graceful, why, late, reason>>

\* The watchdog expects a peer that announced its closing to be quiet.
WatchdogTrustsClosing ==
    /\ at["watchdog"] = "run" /\ reason = None /\ ~graceful
    /\ BeginShutdown("watchdog", "Heartbeat")
    /\ UNCHANGED <<socket, out, appVars, serveVars>>

\* spawn_watchdog: nothing has arrived for timeout_s, from a peer that is gone or
\* only slow.
WatchdogFires ==
    /\ at["watchdog"] = "run" /\ reason = None
    /\ BeginShutdown("watchdog", "Heartbeat")
    /\ UNCHANGED <<socket, out, appVars, serveVars>>

-------------------------------------------------------------------------------
(* shutdown(), one lock region or atomic operation a step *)

Step(t, from, to) ==
    /\ at[t] = from
    /\ at' = [at EXCEPT ![t] = to]
    /\ UNCHANGED <<socket, late>>

TakeGraceful(t) ==
    /\ Step(t, "take", "pending")
    /\ why' = [why EXCEPT ![t] = IF graceful THEN "Graceful" ELSE @]
    /\ graceful' = FALSE
    /\ UNCHANGED <<out, appVars, serveVars, reason>>

DrainPending(t) ==
    /\ Step(t, "pending", "incoming")
    /\ failed' = failed \cup pending
    /\ pending' = {}
    /\ UNCHANGED <<out, call, incoming, answered, cut, wire, serveVars, graceful,
                   why, reason>>

\* Streams are left to the frames that no longer come.
DrainNoIncoming(t) ==
    /\ Step(t, "incoming", "credits")
    /\ UNCHANGED <<out, appVars, serveVars, graceful, why, reason>>

DrainIncoming(t) ==
    /\ Step(t, "incoming", "credits")
    /\ cut' = cut \cup incoming
    /\ incoming' = {}
    /\ UNCHANGED <<out, call, pending, answered, failed, wire, serveVars, graceful,
                   why, reason>>

DrainCredits(t) ==
    /\ Step(t, "credits", "inflight")
    /\ canceled' = canceled \cup credits
    /\ credits' = {}
    /\ UNCHANGED <<out, appVars, serving, accepting, inflight, aborted, graceful,
                   why, reason>>

\* Entries are dropped from the map without the tasks being told.
DrainInflightOnly(t) ==
    /\ Step(t, "inflight", "check")
    /\ inflight' = {}
    /\ UNCHANGED <<out, appVars, serving, accepting, credits, canceled, aborted,
                   graceful, why, reason>>

DrainInflight(t) ==
    /\ Step(t, "inflight", "check")
    /\ aborted' = aborted \cup inflight
    /\ inflight' = {}
    /\ UNCHANGED <<out, appVars, serving, accepting, credits, canceled, graceful,
                   why, reason>>

\* The reason is replaced whether or not there is one.
CheckNothing(t) ==
    /\ Step(t, "check", "publish")
    /\ UNCHANGED <<out, appVars, serveVars, graceful, why, reason>>

\* if closed.borrow().is_none()
CheckClosed(t) ==
    /\ Step(t, "check", IF reason = None THEN "publish" ELSE "close")
    /\ UNCHANGED <<out, appVars, serveVars, graceful, why, reason>>

Publish(t) ==
    /\ Step(t, "publish", "close")
    /\ reason' = why[t]
    /\ UNCHANGED <<out, appVars, serveVars, graceful, why>>

\* The writer that shuts down returns, and its receiver goes with it.
SendClose(t) ==
    /\ Step(t, "close", "done")
    /\ out' = IF t = "writer" THEN <<>>
              ELSE IF OutOpen THEN Append(out, "close") ELSE out
    /\ UNCHANGED <<appVars, serveVars, graceful, why, reason>>

ShutdownStep(t) ==
    \/ TakeGraceful(t) \/ DrainPending(t) \/ DrainIncoming(t)
    \/ DrainCredits(t) \/ DrainInflight(t) \/ CheckClosed(t) \/ Publish(t) \/ SendClose(t)

-------------------------------------------------------------------------------
Next ==
    \/ \E c \in Calls :
          \/ InsertIncoming(c) \/ InsertPending(c) \/ SendRequest(c)
          \/ ReadAnswer(c) \/ CallReturns(c) \/ StreamBreaks(c)
    \/ \E k \in Serves :
          \/ Accept(k) \/ Register(k)
          \/ OpenGate(k) \/ SendChunk(k) \/ MoreCredit(k) \/ StopTask(k)
    \/ CloseLocally \/ BreakSocket \/ ReadClosingNote
    \/ ReaderEnds \/ Write \/ WriterCloses \/ WatchdogFires
    \/ \E t \in Threads : ShutdownStep(t)

Spec == Init /\ [][Next]_vars

\* A thread inside a function finishes it, the writer is polled while its queue
\* holds something, a reader whose socket is closed gets to see it, the watchdog's
\* timer runs out when nothing can arrive, and a peer that is sent Close closes
\* too or is gone.  Nothing obliges the socket to break otherwise, the application
\* to call, or the peer to answer.
Fairness ==
    /\ \A t \in Threads : WF_vars(ShutdownStep(t))
    /\ \A c \in Calls :
          /\ WF_vars(InsertPending(c)) /\ WF_vars(SendRequest(c))
          /\ WF_vars(CallReturns(c)) /\ WF_vars(StreamBreaks(c))
    /\ \A k \in Serves :
          /\ WF_vars(Register(k)) /\ WF_vars(OpenGate(k)) /\ WF_vars(SendChunk(k))
          /\ WF_vars(StopTask(k))
    /\ WF_vars(Write) /\ WF_vars(WriterCloses)
    /\ WF_vars(ReaderEnds /\ socket = "closed")
    /\ WF_vars(WatchdogFires /\ socket # "open")
    /\ WF_vars(BreakSocket /\ ~OutOpen)

FairSpec == Spec /\ Fairness

-------------------------------------------------------------------------------
\* The reason the connection reports was given by a shutdown that began before
\* any reason was published: the errors that the teardown itself provokes do not
\* replace the cause (the is_none check of shutdown).
ReasonIsRootCause ==
    reason # None => \E t \in Threads \ late : why[t] = reason

\* A broken connection is reported to everyone waiting in closed(), also when
\* the socket is half-open and only the watchdog can tell (spawn_watchdog, which
\* establish calls when the heartbeat feature is agreed on).
BrokenIsReported == socket # "open" ~> reason # None

\* When the socket closes, a stream the application holds open ends with
\* connection_lost, whichever of the shutdowns its entry was made before or after.
OpenStreamsBreak ==
    \A c \in Calls : (socket = "closed" /\ call[c] = "open") ~> call[c] = "broken"

\* When the socket closes, every task serving a request of the peer stops: it is
\* aborted, its gate is canceled, or it cannot send any more, also one the reader
\* registers while another thread's shutdown is draining the maps.
ServingStops ==
    \A k \in Serves :
        (socket = "closed" /\ serving[k] # "none") ~> serving[k] = "stopped"

\* A request in flight when the connection closes fails locally with
\* connection_lost, unless its answer had arrived (the drain of pending).
CallsFail ==
    \A c \in Calls :
        (socket = "closed" /\ call[c] = "waiting") ~> call[c] # "waiting"
===============================================================================
