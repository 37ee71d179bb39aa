--------------------------------- MODULE Link ---------------------------------
(***************************************************************************)
(* The link of zyris-core/src/node.rs: a task that keeps a connection up,  *)
(* and the application that waits for it to end, ends it or drops it.      *)
(*                                                                         *)
(* The server is external: a dial connects, is refused for good (Revoked,  *)
(* Unauthorized, VersionMismatch, NoTlsProvider) or finds nobody           *)
(* (Unreachable), and a connection may drop at any moment.  Of the time a  *)
(* connection was up the code asks only whether it reached STABLE_AFTER.   *)
(* wait_closed borrows the link, which disconnect and drop consume.        *)
(***************************************************************************)
EXTENDS Naturals

CONSTANTS Waiters,     \* tasks of the application that may call wait_closed
          BackoffMax   \* BACKOFF_MAX, in units of BACKOFF_MIN

ASSUME BackoffAssumption == BackoffMax \in Nat \ {0}

Endings == {"Asked", "Fatal"}

VARIABLES
    linkTask,     \* where maintain stands; "dialing" includes start's eager dial
    linkConn,     \* the connection: "none", "up", "closing" or "gone"
    linkBackoff,  \* backoff
    linkStreak,   \* history: waits since the start or the last stable connection
    linkStop,     \* the stop channel: "no", "asked" (true sent) or "dropped"
    linkDone,     \* the value the done channel holds
    linkEnding,   \* history: the ending the task sent on it
    linkWaiter,   \* linkWaiter[w]: where w stands in wait_closed
    linkLeave     \* where the application stands in disconnect

linkVars == <<linkTask, linkConn, linkBackoff, linkStreak, linkStop, linkDone,
              linkEnding, linkWaiter, linkLeave>>
appSide == <<linkStop, linkWaiter, linkLeave>>

LinkTypeOK ==
    /\ linkTask \in {"first", "waiting", "top", "dialing", "serving", "grace",
                     "ended", "refused"}
    /\ linkConn \in {"none", "up", "closing", "gone"}
    /\ linkBackoff \in 1 .. BackoffMax
    /\ linkStreak \in 0 .. BackoffMax
    /\ linkStop \in {"no", "asked", "dropped"}
    /\ linkDone \in Endings \cup {"none"}
    /\ linkEnding \in Endings \cup {"none"}
    /\ linkWaiter \in [Waiters -> {"idle", "subscribed", "returned"}]
    /\ linkLeave \in {"no", "stopping", "subscribed", "returned"}

LinkInit ==
    /\ linkTask = "first"
    /\ linkConn = "none"
    /\ linkBackoff = 1 /\ linkStreak = 0
    /\ linkStop = "no"
    /\ linkDone = "none" /\ linkEnding = "none"
    /\ linkWaiter = [w \in Waiters |-> "idle"]
    /\ linkLeave = "no"

Smaller(m, n) == IF m < n THEN m ELSE n
Started == linkTask \notin {"first", "refused"}

\* Somebody holds a receiver of the done channel.  start keeps none.
Listening == linkLeave = "subscribed" \/ \E w \in Waiters : linkWaiter[w] = "subscribed"

\* done.send(Some(e)): a watch channel stores a value only if it has a receiver.
Finish(e) ==
    /\ linkTask' = "ended"
    /\ linkEnding' = e
    /\ linkDone' = IF Listening THEN e ELSE linkDone

\* Entering wait_then_widen.
StartWaiting ==
    /\ linkTask' = "waiting"
    /\ linkStreak' = Smaller(linkStreak + 1, BackoffMax)

-------------------------------------------------------------------------------
(* start() and maintain() *)

\* The eager dial of start: a fatal refusal is connect's error and no link exists.
FirstDial ==
    /\ linkTask = "first"
    /\ \/ linkTask' = "top" /\ linkConn' = "up" /\ UNCHANGED linkStreak
       \/ linkTask' = "refused" /\ UNCHANGED <<linkConn, linkStreak>>
       \/ StartWaiting /\ UNCHANGED linkConn
    /\ UNCHANGED <<linkBackoff, linkDone, linkEnding, appSide>>

\* wait_then_widen when its sleep ends first.
WaitElapses ==
    /\ linkTask = "waiting"
    /\ linkTask' = "top"
    /\ linkBackoff' = Smaller(2 * linkBackoff, BackoffMax)
    /\ UNCHANGED <<linkConn, linkStreak, linkDone, linkEnding, appSide>>

\* wait_then_widen when stop.changed() resolves first: sent true, or link dropped.
WaitStopped ==
    /\ linkTask = "waiting" /\ linkStop # "no"
    /\ Finish("Asked")
    /\ linkBackoff' = Smaller(2 * linkBackoff, BackoffMax)
    /\ UNCHANGED <<linkConn, linkStreak, appSide>>

\* The top of the loop: stop.borrow() sees a value sent, not a dropped sender.  A
\* connection in hand (held) is served without a dial.
Top ==
    /\ linkTask = "top"
    /\ \/ linkStop = "asked" /\ Finish("Asked")
       \/ /\ linkStop # "asked"
          /\ linkTask' = IF linkConn = "none" THEN "dialing" ELSE "serving"
          /\ UNCHANGED <<linkDone, linkEnding>>
    /\ UNCHANGED <<linkConn, linkBackoff, linkStreak, appSide>>

Redial ==
    /\ linkTask = "dialing"
    /\ \/ /\ linkTask' = "serving" /\ linkConn' = "up"
          /\ UNCHANGED <<linkStreak, linkDone, linkEnding>>
       \/ Finish("Fatal") /\ UNCHANGED <<linkConn, linkStreak>>
       \/ StartWaiting /\ UNCHANGED <<linkConn, linkDone, linkEnding>>
    /\ UNCHANGED <<linkBackoff, appSide>>

\* Slip: any connection that came up starts the backoff over.
ConnectionDropsResetting(stable) ==
    /\ linkTask = "serving"
    /\ linkConn' = "none"
    /\ linkTask' = "waiting"
    /\ linkBackoff' = 1
    /\ linkStreak' = IF stable THEN 1 ELSE Smaller(linkStreak + 1, BackoffMax)
    /\ UNCHANGED <<linkDone, linkEnding, appSide>>

\* conn.closed() resolves first.
ConnectionDrops(stable) ==
    /\ linkTask = "serving"
    /\ linkConn' = "none"
    /\ linkTask' = "waiting"
    /\ linkBackoff' = IF stable THEN 1 ELSE linkBackoff
    /\ linkStreak' = IF stable THEN 1 ELSE Smaller(linkStreak + 1, BackoffMax)
    /\ UNCHANGED <<linkDone, linkEnding, appSide>>


\* stop.changed() resolves first: conn.close and the grace period.
ServingStopped ==
    /\ linkTask = "serving" /\ linkStop # "no"
    /\ linkTask' = "grace"
    /\ linkConn' = "closing"
    /\ UNCHANGED <<linkBackoff, linkStreak, linkDone, linkEnding, appSide>>

GraceEnds ==
    /\ linkTask = "grace"
    /\ Finish("Asked")
    /\ linkConn' = "gone"
    /\ UNCHANGED <<linkBackoff, linkStreak, appSide>>

NoticeStop == WaitStopped \/ ServingStopped

-------------------------------------------------------------------------------
(* The application *)

Owned == Started /\ linkStop = "no" /\ \A w \in Waiters : linkWaiter[w] # "subscribed"

taskSide == <<linkTask, linkConn, linkBackoff, linkStreak, linkDone, linkEnding>>

\* wait_closed subscribes, and returns at once or later when it sees a value.
WaitClosed(w) ==
    /\ Started /\ linkStop = "no" /\ linkWaiter[w] = "idle"
    /\ linkWaiter' = [linkWaiter EXCEPT ![w] = "subscribed"]
    /\ UNCHANGED <<linkStop, linkLeave, taskSide>>

WaitReturns(w) ==
    /\ linkWaiter[w] = "subscribed" /\ linkDone # "none"
    /\ linkWaiter' = [linkWaiter EXCEPT ![w] = "returned"]
    /\ UNCHANGED <<linkStop, linkLeave, taskSide>>

\* The application gives up waiting: the future is dropped, its receiver with it.
WaitGivenUp(w) ==
    /\ linkWaiter[w] = "subscribed"
    /\ linkWaiter' = [linkWaiter EXCEPT ![w] = "idle"]
    /\ UNCHANGED <<linkStop, linkLeave, taskSide>>

\* disconnect: stop.send(true), then done.subscribe(), then the loop.
Disconnect ==
    /\ Owned
    /\ linkStop' = "asked" /\ linkLeave' = "stopping"
    /\ UNCHANGED <<linkWaiter, taskSide>>

DisconnectSubscribes ==
    /\ linkLeave = "stopping"
    /\ linkLeave' = "subscribed"
    /\ UNCHANGED <<linkStop, linkWaiter, taskSide>>

DisconnectReturns ==
    /\ linkLeave = "subscribed" /\ linkDone # "none"
    /\ linkLeave' = "returned"
    /\ UNCHANGED <<linkStop, linkWaiter, taskSide>>

DropLink ==
    /\ Owned
    /\ linkStop' = "dropped"
    /\ UNCHANGED <<linkLeave, linkWaiter, taskSide>>

-------------------------------------------------------------------------------
LinkNext ==
    \/ FirstDial \/ WaitElapses \/ WaitStopped \/ Top \/ Redial
    \/ \E stable \in BOOLEAN : ConnectionDrops(stable)
    \/ ServingStopped \/ GraceEnds
    \/ \E w \in Waiters : WaitClosed(w) \/ WaitReturns(w) \/ WaitGivenUp(w)
    \/ Disconnect \/ DisconnectSubscribes \/ DisconnectReturns \/ DropLink

\* The task is scheduled, a dial settles and a sleep ends; a select! that finds
\* two branches ready picks one at random, so a pending stop is noticed in the end.
LinkFairness ==
    /\ WF_linkVars(Top) /\ WF_linkVars(Redial)
    /\ WF_linkVars(WaitElapses) /\ WF_linkVars(GraceEnds)
    /\ SF_linkVars(NoticeStop)
    /\ \A w \in Waiters : WF_linkVars(WaitReturns(w))
    /\ WF_linkVars(DisconnectSubscribes) /\ WF_linkVars(DisconnectReturns)

-------------------------------------------------------------------------------
\* The link ends only because it was asked to, was dropped, or was refused for
\* good, and then leaves no connection up: but for the one of the eager dial, which
\* a stop that comes before maintain's first turn drops without closing.  Until then
\* a server that accepts and drops, or is away, is not redialed at full speed: each
\* wait is twice the one before, up to the ceiling, and only a connection that stayed
\* up for STABLE_AFTER starts over (maintain, wait_then_widen).
LinkIsOrderly ==
    /\ LinkTypeOK
    /\ linkTask = "waiting" => linkBackoff = Smaller(2 ^ (linkStreak - 1), BackoffMax)
    /\ linkTask = "ended" =>
        /\ linkConn = "up" => linkStreak = 0 /\ linkStop = "asked"
        /\ linkEnding = "Asked" => linkStop # "no"


\* A task in wait_closed is told that the link has ended: "Resolves when the link
\* is finished" (node.rs:384).
EndingIsReported ==
    \A w \in Waiters :
        (linkWaiter[w] = "subscribed" /\ linkTask = "ended") ~> linkWaiter[w] # "subscribed"
===============================================================================
