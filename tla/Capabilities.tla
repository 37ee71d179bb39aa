----------------------------- MODULE Capabilities -----------------------------
(***************************************************************************)
(* What a node offers, changed while it is connected: CapabilitySet and    *)
(* Capabilities of zyris-core/src/capabilities.rs, with announce,          *)
(* handle_announce, wait_capability and the end of establish from          *)
(* connection.rs.                                                          *)
(*                                                                         *)
(* One task of the application changes the set (add, remove, replace) and  *)
(* re-announces it on every live connection, one after the other, while    *)
(* connections come up and announce for themselves, peers call and         *)
(* connections close.  An announcement reads the set in one step and is    *)
(* queued for the wire in a later one.  A queue is FIFO and reliable until *)
(* the connection closes, when whoever awaits an answer gets an error.     *)
(* How a call that has been accepted is registered, and how a request      *)
(* races with a shutdown, are in modules Calls and Shutdown.               *)
(***************************************************************************)
EXTENDS Naturals, Sequences, FiniteSets

CONSTANTS Conns,       \* connections of this node
          Busy,        \* those whose peers call and wait
          Caps,        \* capability names
          Reserved,    \* names the peers keep for themselves
          Wanted,      \* the capability the peers wait for
          MaxChanges   \* bound on the changes of the set

Changer == "changer"
Announcers == Conns \cup {Changer}
NoCaps == [set |-> {}, v |-> 0]

ASSUME CapAssumption == Changer \notin Conns /\ Busy \subseteq Conns /\ MaxChanges \in Nat

VARIABLES
    capServed,   \* CapabilitySet.served: the names, with the number of the change
    capLive,     \* CapabilitySet.live, in order of registration
    capConn,     \* "none", "registered", "open" or "closed"
    capStep,     \* where the announcer of a connection, or the changer, stands
    capSnap,     \* the set an announcer has read
    capRevoked,  \* names the change under way revokes
    capTodo,     \* connections propagate still has to visit
    capOut,      \* capOut[c]: announcements on their way to the peer
    capView,     \* capView[c]: the peer's peer_caps
    capSeen,     \* history: the latest change the peer has been told of
    capCalls,    \* capCalls[c]: capabilities with a call of the peer in flight
    capWaiter,   \* capWaiter[c]: where the peer stands in wait_capability
    capWoken     \* connections whose announced channel holds a change unseen

capVars == <<capServed, capLive, capConn, capStep, capSnap, capRevoked, capTodo,
             capOut, capView, capSeen, capCalls, capWaiter, capWoken>>
peerVars == <<capView, capSeen, capWaiter, capWoken>>

Sets == [set : SUBSET Caps, v : 0 .. MaxChanges]

CapTypeOK ==
    /\ capServed \in Sets
    /\ capConn \in [Conns -> {"none", "registered", "open", "closed"}]
    /\ capStep \in [Announcers -> {"idle", "live", "next", "snap", "send", "wait"}]
    /\ capSnap \in [Announcers -> Sets]
    /\ capRevoked \subseteq Caps
    /\ capLive \in Seq(Conns) /\ capTodo \in Seq(Conns)
    /\ capOut \in [Conns -> Seq([by : Announcers, caps : Sets])]
    /\ capView \in [Conns -> SUBSET Caps]
    /\ capSeen \in [Conns -> 0 .. MaxChanges]
    /\ capCalls \in [Conns -> SUBSET Caps]
    /\ capWaiter \in [Conns -> {"no", "check", "absent", "parked"}]
    /\ capWoken \subseteq Conns

CapInit ==
    /\ \E s \in SUBSET Caps : capServed = [set |-> s, v |-> 0]
    /\ capLive = <<>> /\ capTodo = <<>>
    /\ capConn = [c \in Conns |-> "none"]
    /\ capStep = [p \in Announcers |-> "idle"]
    /\ capSnap = [p \in Announcers |-> NoCaps]
    /\ capRevoked = {}
    /\ capOut = [c \in Conns |-> <<>>]
    /\ capView = [c \in Conns |-> {}]
    /\ capSeen = [c \in Conns |-> 0]
    /\ capCalls = [c \in Conns |-> {}]
    /\ capWaiter = [c \in Conns |-> "no"]
    /\ capWoken = {}

-------------------------------------------------------------------------------
(* The end of establish() *)

\* capabilities.register(&shared), before the writer and the reader exist.
RegisterConn(c) ==
    /\ capConn[c] = "none"
    /\ capConn' = [capConn EXCEPT ![c] = "registered"]
    /\ capLive' = Append(capLive, c)
    /\ UNCHANGED <<capServed, capStep, capSnap, capRevoked, capTodo, capOut, capCalls,
                   peerVars>>

\* The tasks are spawned, the announcer only if the set is not empty: a peer that
\* is told nothing takes it for empty.
OpenConn(c) ==
    /\ capConn[c] = "registered"
    /\ capConn' = [capConn EXCEPT ![c] = "open"]
    /\ IF capServed.set = {}
       THEN capSeen' = [capSeen EXCEPT ![c] = capServed.v] /\ UNCHANGED capStep
       ELSE capStep' = [capStep EXCEPT ![c] = "snap"] /\ UNCHANGED capSeen
    /\ UNCHANGED <<capServed, capLive, capSnap, capRevoked, capTodo, capOut, capView,
                   capCalls, capWaiter, capWoken>>

\* shutdown() of either end: calls in flight are aborted, announcers and waiters
\* get an error.
CloseConn(c) ==
    /\ capConn[c] = "open"
    /\ capConn' = [capConn EXCEPT ![c] = "closed"]
    /\ capOut' = [capOut EXCEPT ![c] = <<>>]
    /\ capCalls' = [capCalls EXCEPT ![c] = {}]
    /\ capView' = [capView EXCEPT ![c] = {}]
    /\ capSeen' = [capSeen EXCEPT ![c] = 0]
    /\ capWaiter' = [capWaiter EXCEPT ![c] = "no"]
    /\ capWoken' = capWoken \ {c}
    /\ UNCHANGED <<capServed, capLive, capStep, capSnap, capRevoked, capTodo>>

-------------------------------------------------------------------------------
(* announce() *)

Target(p) == IF p = Changer THEN Head(capTodo) ELSE p
Announced(p) == IF p = Changer THEN "next" ELSE "idle"

\* self.shared.caps.descriptors()
TakeSnapshot(p) ==
    /\ capStep[p] = "snap"
    /\ capSnap' = [capSnap EXCEPT ![p] = capServed]
    /\ capStep' = [capStep EXCEPT ![p] = "send"]
    /\ UNCHANGED <<capServed, capLive, capConn, capRevoked, capTodo, capOut, capCalls,
                   peerVars>>

\* call_raw queues the request, or fails on a connection that is gone.
SendAnnounce(p) ==
    /\ capStep[p] = "send"
    /\ IF capConn[Target(p)] = "closed"
       THEN /\ capStep' = [capStep EXCEPT ![p] = Announced(p)]
            /\ capTodo' = IF p = Changer THEN Tail(capTodo) ELSE capTodo
            /\ UNCHANGED capOut
       ELSE /\ capStep' = [capStep EXCEPT ![p] = "wait"]
            /\ capOut' = [capOut EXCEPT ![Target(p)] =
                              Append(@, [by |-> p, caps |-> capSnap[p]])]
            /\ UNCHANGED capTodo
    /\ capSnap' = [capSnap EXCEPT ![p] = NoCaps]
    /\ UNCHANGED <<capServed, capLive, capConn, capRevoked, capCalls, peerVars>>

\* rx.await fails because the connection is gone.
AnnounceFails(p) ==
    /\ capStep[p] = "wait" /\ capConn[Target(p)] = "closed"
    /\ capStep' = [capStep EXCEPT ![p] = Announced(p)]
    /\ capTodo' = IF p = Changer THEN Tail(capTodo) ELSE capTodo
    /\ UNCHANGED <<capServed, capLive, capConn, capSnap, capRevoked, capOut, capCalls,
                   peerVars>>

\* Slip: only a waiter that is parked already is notified.
HandleAnnounceNotifying(c) ==
    /\ capConn[c] = "open" /\ capOut[c] # <<>>
    /\ LET m == Head(capOut[c])
       IN /\ capView' = [capView EXCEPT ![c] = m.caps.set \ Reserved]
          /\ capSeen' = [capSeen EXCEPT ![c] = IF m.caps.v > @ THEN m.caps.v ELSE @]
          /\ capStep' = [capStep EXCEPT ![m.by] = Announced(m.by)]
          /\ capTodo' = IF m.by = Changer THEN Tail(capTodo) ELSE capTodo
    /\ capOut' = [capOut EXCEPT ![c] = Tail(@)]
    /\ capWoken' = IF capWaiter[c] # "parked" THEN capWoken ELSE capWoken \cup {c}
    /\ UNCHANGED <<capServed, capLive, capConn, capSnap, capRevoked, capCalls, capWaiter>>

\* handle_announce: the peer's view is replaced, reserved names left out, waiters
\* are notified and the answer ends the announcer's wait.
HandleAnnounce(c) ==
    /\ capConn[c] = "open" /\ capOut[c] # <<>>
    /\ LET m == Head(capOut[c])
       IN /\ capView' = [capView EXCEPT ![c] = m.caps.set \ Reserved]
          /\ capSeen' = [capSeen EXCEPT ![c] = IF m.caps.v > @ THEN m.caps.v ELSE @]
          /\ capStep' = [capStep EXCEPT ![m.by] = Announced(m.by)]
          /\ capTodo' = IF m.by = Changer THEN Tail(capTodo) ELSE capTodo
    /\ capOut' = [capOut EXCEPT ![c] = Tail(@)]
    /\ capWoken' = IF capWaiter[c] = "no" THEN capWoken ELSE capWoken \cup {c}
    /\ UNCHANGED <<capServed, capLive, capConn, capSnap, capRevoked, capCalls, capWaiter>>

-------------------------------------------------------------------------------
(* Capabilities::replace(), which add_arc and remove end in *)

\* Slip: the revoked names are worked out after the swap, and none are left.
SwapForgetting(s) ==
    /\ capStep[Changer] = "idle" /\ capServed.v < MaxChanges /\ s # capServed.set
    /\ capServed' = [set |-> s, v |-> capServed.v + 1]
    /\ capStep' = [capStep EXCEPT ![Changer] = "live"]
    /\ UNCHANGED <<capLive, capConn, capSnap, capRevoked, capTodo, capOut, capCalls, peerVars>>

\* The set is swapped and the revoked names are worked out under the write lock.
SwapServed(s) ==
    /\ capStep[Changer] = "idle" /\ capServed.v < MaxChanges /\ s # capServed.set
    /\ capServed' = [set |-> s, v |-> capServed.v + 1]
    /\ capRevoked' = capServed.set \ s
    /\ capStep' = [capStep EXCEPT ![Changer] = "live"]
    /\ UNCHANGED <<capLive, capConn, capSnap, capTodo, capOut, capCalls, peerVars>>

\* propagate: self.0.live()
TakeLive ==
    /\ capStep[Changer] = "live"
    /\ capTodo' = capLive
    /\ capStep' = [capStep EXCEPT ![Changer] = "next"]
    /\ UNCHANGED <<capServed, capLive, capConn, capSnap, capRevoked, capOut, capCalls,
                   peerVars>>

\* Slip: a closed connection ends the loop instead of being skipped.
NextConnStopping ==
    /\ capStep[Changer] = "next"
    /\ IF capTodo = <<>>
       THEN /\ capStep' = [capStep EXCEPT ![Changer] = "idle"]
            /\ capRevoked' = {}
            /\ UNCHANGED <<capTodo, capCalls>>
       ELSE IF capConn[Head(capTodo)] = "closed"
       THEN capTodo' = <<>> /\ UNCHANGED <<capStep, capRevoked, capCalls>>
       ELSE /\ capCalls' = [capCalls EXCEPT ![Head(capTodo)] = @ \ capRevoked]
            /\ capStep' = [capStep EXCEPT ![Changer] = "snap"]
            /\ UNCHANGED <<capTodo, capRevoked>>
    /\ UNCHANGED <<capServed, capLive, capConn, capSnap, capOut, peerVars>>

\* The loop of propagate: closed connections are skipped; on the others the calls
\* of revoked capabilities are failed, then the set is announced.
NextConn ==
    /\ capStep[Changer] = "next"
    /\ IF capTodo = <<>>
       THEN /\ capStep' = [capStep EXCEPT ![Changer] = "idle"]
            /\ capRevoked' = {}
            /\ UNCHANGED <<capTodo, capCalls>>
       ELSE IF capConn[Head(capTodo)] = "closed"
       THEN capTodo' = Tail(capTodo) /\ UNCHANGED <<capStep, capRevoked, capCalls>>
       ELSE /\ capCalls' = [capCalls EXCEPT ![Head(capTodo)] = @ \ capRevoked]
            /\ capStep' = [capStep EXCEPT ![Changer] = "snap"]
            /\ UNCHANGED <<capTodo, capRevoked>>
    /\ UNCHANGED <<capServed, capLive, capConn, capSnap, capOut, peerVars>>

-------------------------------------------------------------------------------
(* The peer *)

\* handle_request: a call is accepted by what is served now, not by what the peer
\* was told; one for any other name is answered with capability_not_announced.
PeerCalls(c, x) ==
    /\ capConn[c] = "open" /\ x \in capServed.set /\ x \notin capCalls[c]
    /\ capCalls' = [capCalls EXCEPT ![c] = @ \cup {x}]
    /\ UNCHANGED <<capServed, capLive, capConn, capStep, capSnap, capRevoked, capTodo,
                   capOut, peerVars>>

CallEnds(c, x) ==
    /\ x \in capCalls[c]
    /\ capCalls' = [capCalls EXCEPT ![c] = @ \ {x}]
    /\ UNCHANGED <<capServed, capLive, capConn, capStep, capSnap, capRevoked, capTodo,
                   capOut, peerVars>>

\* wait_capability subscribes to announced before it looks for the first time.
StartWait(c) ==
    /\ capConn[c] = "open" /\ capWaiter[c] = "no"
    /\ capWaiter' = [capWaiter EXCEPT ![c] = "check"]
    /\ UNCHANGED <<capServed, capLive, capConn, capStep, capSnap, capRevoked, capTodo,
                   capOut, capCalls, capView, capSeen, capWoken>>

CheckWanted(c) ==
    /\ capWaiter[c] = "check"
    /\ capWaiter' = [capWaiter EXCEPT ![c] =
                         IF Wanted \in capView[c] THEN "no" ELSE "absent"]
    /\ capWoken' = IF Wanted \in capView[c] THEN capWoken \ {c} ELSE capWoken
    /\ UNCHANGED <<capServed, capLive, capConn, capStep, capSnap, capRevoked, capTodo,
                   capOut, capCalls, capView, capSeen>>

\* The select! is polled: announced.changed() is pending or resolves at once.
Park(c) ==
    /\ capWaiter[c] = "absent"
    /\ capWaiter' = [capWaiter EXCEPT ![c] = "parked"]
    /\ UNCHANGED <<capServed, capLive, capConn, capStep, capSnap, capRevoked, capTodo,
                   capOut, capCalls, capView, capSeen, capWoken>>

\* announced.changed() resolves and marks the change seen.
WaiterWakes(c) ==
    /\ capWaiter[c] = "parked" /\ c \in capWoken
    /\ capWaiter' = [capWaiter EXCEPT ![c] = "check"]
    /\ capWoken' = capWoken \ {c}
    /\ UNCHANGED <<capServed, capLive, capConn, capStep, capSnap, capRevoked, capTodo,
                   capOut, capCalls, capView, capSeen>>

WaitDeadline(c) ==
    /\ capWaiter[c] = "parked"
    /\ capWaiter' = [capWaiter EXCEPT ![c] = "no"]
    /\ capWoken' = capWoken \ {c}
    /\ UNCHANGED <<capServed, capLive, capConn, capStep, capSnap, capRevoked, capTodo,
                   capOut, capCalls, capView, capSeen>>

-------------------------------------------------------------------------------
AnnouncerStep(p) == TakeSnapshot(p) \/ SendAnnounce(p) \/ AnnounceFails(p)

CapNext ==
    \/ \E c \in Conns : RegisterConn(c) \/ OpenConn(c) \/ CloseConn(c) \/ HandleAnnounce(c)
    \/ \E c \in Busy :
          \/ StartWait(c) \/ CheckWanted(c) \/ Park(c) \/ WaiterWakes(c) \/ WaitDeadline(c)
          \/ \E x \in Caps : PeerCalls(c, x) \/ CallEnds(c, x)
    \/ \E p \in Announcers : AnnouncerStep(p)
    \/ \E s \in SUBSET Caps : SwapServed(s)
    \/ TakeLive \/ NextConn

\* Tasks run, and a peer handles what reaches it or its connection closes (which
\* a peer that has gone silent is found out by only where heartbeats were agreed).
CapFairness ==
    /\ \A p \in Announcers : WF_capVars(AnnouncerStep(p))
    /\ WF_capVars(TakeLive \/ NextConn)
    /\ \A c \in Conns : WF_capVars(OpenConn(c) \/ HandleAnnounce(c))
    /\ \A c \in Busy : WF_capVars(CheckWanted(c) \/ Park(c) \/ WaiterWakes(c))

CapSpec == CapInit /\ [][CapNext]_capVars

-------------------------------------------------------------------------------
\* When replace returns, no call runs any more on a capability that is not
\* served, on any connection, whenever it came up (replace swaps before it
\* propagates, and handle_request looks the capability up in the new set): but for
\* one the reader was still registering, of which Calls!RevocationReachesAll tells.
RevokedCallsAreGone ==
    /\ CapTypeOK
    /\ capStep[Changer] = "idle" => \A c \in Conns : capCalls[c] \subseteq capServed.set

\* Every change reaches the peer of every connection that does not close, also of
\* one that comes up while the change is being announced (establish registers the
\* connection before its announcer reads the set).  That it is the last word is not
\* said: the announcer of establish may have read the set before the change and
\* send after it.
ChangeReachesPeers ==
    \A c \in Conns, v \in 1 .. MaxChanges :
        (capServed.v >= v /\ capConn[c] \in {"registered", "open"})
            ~> (capConn[c] = "closed" \/ capSeen[c] >= v)

\* A peer parked in wait_capability does not sleep through the announcement of
\* what it waits for (wait_capability subscribes before it checks).
WaiterIsWoken ==
    \A c \in Conns :
        (capWaiter[c] = "parked" /\ Wanted \in capView[c])
            ~> (capWaiter[c] = "no" \/ Wanted \notin capView[c])
===============================================================================
