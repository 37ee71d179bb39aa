---------------------------- MODULE ShutdownProofs ----------------------------
(***************************************************************************)
(* The reason a connection reports is a root cause, for any calls and      *)
(* served requests that go on while reader, writer and watchdog shut it    *)
(* down at once.                                                           *)
(***************************************************************************)
EXTENDS Shutdown, TLAPS

Places == {"run", "take", "pending", "incoming", "credits", "inflight", "check", "publish",
           "close", "done"}

\* Why a late shutdown never gets to publish: it began when there was a reason, and
\* a reason is only ever replaced.  Whoever published last is past its publication
\* and was not late, so that why keeps what was published.
ReasonInv ==
    /\ at \in [Threads -> Places]
    /\ why \in [Threads -> Reasons \cup {None}]
    /\ reason \in Reasons \cup {None}
    /\ \A t \in Threads : at[t] \notin {"run", "done"} => why[t] # None
    /\ late # {} => reason # None
    /\ \A t \in late : at[t] # "publish"
    /\ reason # None =>
        \E t \in Threads \ late : at[t] \in {"close", "done"} /\ why[t] = reason

\* Initially nobody shuts down and there is no reason.
LEMMA ReasonInit == Init => ReasonInv
BY DEF Init, ReasonInv, Places

\* A thread that calls shutdown() was running before, so it is nobody's witness.
LEMMA BeginKeeps ==
    ASSUME ReasonInv, NEW t \in Threads, NEW cause \in Causes, at[t] = "run",
           BeginShutdown(t, cause)
    PROVE  ReasonInv'
<1>1. /\ at' = [at EXCEPT ![t] = "take"] /\ why' = [why EXCEPT ![t] = cause]
      /\ reason' = reason /\ late' = IF reason = None THEN late ELSE late \cup {t}
  BY DEF BeginShutdown
<1>2. cause \in Reasons /\ cause # None
  BY NoneAssumption DEF Reasons
<1>3. /\ at' \in [Threads -> Places] /\ why' \in [Threads -> Reasons \cup {None}]
      /\ reason' \in Reasons \cup {None}
  BY <1>1, <1>2 DEF ReasonInv, Places
<1>4. /\ \A u \in Threads : at'[u] \notin {"run", "done"} => why'[u] # None
      /\ late' # {} => reason' # None
      /\ \A u \in late' : at'[u] # "publish"
  BY <1>1, <1>2 DEF ReasonInv
<1>5. reason' # None =>
        \E u \in Threads \ late' : at'[u] \in {"close", "done"} /\ why'[u] = reason'
  BY <1>1 DEF ReasonInv
<1>6. QED
  BY <1>3, <1>4, <1>5 DEF ReasonInv

\* A step of shutdown() itself.
LEMMA ShutdownStepKeeps ==
    ASSUME ReasonInv, NEW t \in Threads, ShutdownStep(t)
    PROVE  ReasonInv'
<1>1. CASE TakeGraceful(t)
  <2>1. "Graceful" \in Reasons /\ "Graceful" # None
    BY NoneAssumption DEF Reasons
  <2>2. QED
    BY <1>1, <2>1 DEF TakeGraceful, Step, ReasonInv, Places
<1>2. CASE DrainPending(t) \/ DrainIncoming(t) \/ DrainCredits(t) \/ DrainInflight(t)
  <2>1. /\ why' = why /\ reason' = reason /\ late' = late
        /\ \E from, to \in Places \ {"run", "publish", "close", "done"} :
              at[t] = from /\ at' = [at EXCEPT ![t] = to]
    BY <1>2 DEF DrainPending, DrainIncoming, DrainCredits, DrainInflight, Step, Places
  <2>2. QED
    BY <2>1 DEF ReasonInv
<1>3. CASE CheckClosed(t)
  BY <1>3 DEF CheckClosed, Step, ReasonInv, Places
<1>4. CASE Publish(t)
  <2>1. at[t] = "publish" /\ why[t] # None /\ t \notin late
    BY <1>4 DEF Publish, Step, ReasonInv
  <2>2. QED
    BY <1>4, <2>1 DEF Publish, Step, ReasonInv, Places
<1>5. CASE SendClose(t)
  BY <1>5 DEF SendClose, Step, ReasonInv, Places
<1>6. QED
  BY <1>1, <1>2, <1>3, <1>4, <1>5 DEF ShutdownStep

\* Everything else leaves the shutdowns alone, or begins one, or ends the writer.
LEMMA ReasonStep == ReasonInv /\ [Next]_vars => ReasonInv'
<1> SUFFICES ASSUME ReasonInv, [Next]_vars PROVE ReasonInv'
  OBVIOUS
<1>1. ASSUME UNCHANGED <<at, why, late, reason>> PROVE ReasonInv'
  BY <1>1 DEF ReasonInv
<1>2. ASSUME NEW c \in Calls,
             \/ InsertIncoming(c) \/ InsertPending(c) \/ SendRequest(c)
             \/ ReadAnswer(c) \/ CallReturns(c) \/ StreamBreaks(c)
      PROVE  ReasonInv'
  BY <1>1, <1>2 DEF InsertIncoming, InsertPending, SendRequest, ReadAnswer, CallReturns,
     StreamBreaks, closeVars
<1>3. ASSUME NEW k \in Serves,
             \/ Accept(k) \/ Register(k)
             \/ OpenGate(k) \/ SendChunk(k) \/ MoreCredit(k) \/ StopTask(k)
      PROVE  ReasonInv'
  BY <1>1, <1>3 DEF Accept, Register, OpenGate, SendChunk, MoreCredit, StopTask, closeVars
<1>4. CASE CloseLocally \/ BreakSocket \/ ReadClosingNote \/ UNCHANGED vars
  BY <1>1, <1>4 DEF CloseLocally, BreakSocket, ReadClosingNote, vars, closeVars
<1>5. CASE ReaderEnds
  BY <1>5, BeginKeeps DEF ReaderEnds, Reading, Threads, Causes
<1>6. CASE Write
  <2>1. CASE UNCHANGED closeVars
    BY <1>1, <2>1 DEF closeVars
  <2>2. CASE BeginShutdown("writer", "Transport")
    BY <1>6, <2>2, BeginKeeps DEF Write, Threads, Causes
  <2>3. QED
    BY <1>6, <2>1, <2>2 DEF Write
<1>7. CASE WriterCloses
  BY <1>7 DEF WriterCloses, ReasonInv, Threads, Places
<1>8. CASE WatchdogFires
  BY <1>8, BeginKeeps DEF WatchdogFires, Threads, Causes
<1>9. ASSUME NEW t \in Threads, ShutdownStep(t) PROVE ReasonInv'
  BY <1>9, ShutdownStepKeeps
<1>10. QED
  BY <1>2, <1>3, <1>4, <1>5, <1>6, <1>7, <1>8, <1>9 DEF Next

\* In every reachable state the reason reported was given by a shutdown that began
\* before any reason was published, however the shutdowns overlap (shutdown,
\* connection.rs 1029-1031).
THEOREM ReasonIsCause == Spec => []ReasonIsRootCause
<1>1. ReasonInv => ReasonIsRootCause
  BY DEF ReasonInv, ReasonIsRootCause
<1>2. QED
  BY <1>1, ReasonInit, ReasonStep, PTL DEF Spec
===============================================================================
