-------------------------- MODULE CapabilitiesProofs --------------------------
(***************************************************************************)
(* No call survives the revocation of its capability, for any number of    *)
(* connections, capabilities and changes.                                  *)
(***************************************************************************)
EXTENDS Capabilities, TLAPS

Visiting == capStep[Changer] \in {"snap", "send", "wait"}

\* Propagate has a connection to visit, and a connection announces once it is open.
StepsInv ==
    /\ Visiting => capTodo # <<>>
    /\ \A c \in Conns : capStep[c] \notin {"live", "next"}
    /\ \A c \in Conns : capConn[c] \in {"none", "registered"} => capStep[c] = "idle"

\* An announcer waits for the one announcement it has on the wire, and a connection
\* that is gone carries none.
MailInv ==
    /\ \A c \in Conns : capConn[c] = "closed" => capOut[c] = <<>>
    /\ \A c \in Conns : \A i \in 1 .. Len(capOut[c]) :
          capStep[capOut[c][i].by] = "wait" /\ Target(capOut[c][i].by) = c
    /\ \A c \in Conns : \A i, j \in 1 .. Len(capOut[c]) :
          i # j => capOut[c][i].by # capOut[c][j].by

\* Connection c is among those propagate visits after the first n.
After(c, n) == \E i \in 1 .. Len(capTodo) : i > n /\ capTodo[i] = c

\* Calls run on open connections only, every one of which propagate finds among the
\* live ones.  While it is under way, calls of revoked capabilities are left only
\* where it has not been.
RevokeInv ==
    /\ \A c \in Conns : capConn[c] # "none" => \E i \in 1 .. Len(capLive) : capLive[i] = c
    /\ \A c \in Conns : capCalls[c] # {} => capConn[c] = "open"
    /\ \A c \in Conns : capCalls[c] \subseteq capServed.set \cup capRevoked
    /\ capStep[Changer] = "idle" => \A c \in Conns : capCalls[c] \subseteq capServed.set
    /\ capStep[Changer] = "next" =>
          \A c \in Conns : capCalls[c] \subseteq capServed.set \/ After(c, 0)
    /\ Visiting => \A c \in Conns : capCalls[c] \subseteq capServed.set \/ After(c, 1)

CapInv == CapTypeOK /\ StepsInv /\ MailInv /\ RevokeInv

-------------------------------------------------------------------------------
\* Initially nothing is connected and nothing under way.
LEMMA CapInvInit == CapInit => CapInv
<1> SUFFICES ASSUME CapInit PROVE CapInv
  OBVIOUS
<1>1. CapTypeOK
  BY CapAssumption DEF CapInit, CapTypeOK, Sets, NoCaps, Announcers
<1>2. StepsInv /\ MailInv
  BY CapAssumption DEF CapInit, StepsInv, MailInv, Visiting, Announcers
<1>3. RevokeInv
  BY CapAssumption DEF CapInit, RevokeInv, Visiting, Announcers
<1>4. QED
  BY <1>1, <1>2, <1>3 DEF CapInv

-------------------------------------------------------------------------------
(* Sequences *)

\* What remains of a queue when its head is taken, and what it is when one is added.
LEMMA QueueFacts ==
    ASSUME NEW S, NEW q \in Seq(S)
    PROVE  /\ \A x \in S : /\ Append(q, x) \in Seq(S) /\ Len(Append(q, x)) = Len(q) + 1
                            /\ Append(q, x)[Len(q) + 1] = x
                            /\ \A i \in 1 .. Len(q) : Append(q, x)[i] = q[i]
           /\ \A i \in 1 .. Len(q) : q[i] \in S
           /\ q # <<>> =>
                /\ Head(q) = q[1] /\ Head(q) \in S /\ Len(q) \in Nat \ {0}
                /\ Tail(q) \in Seq(S) /\ Len(Tail(q)) = Len(q) - 1
                /\ \A i \in 1 .. Len(q) - 1 : Tail(q)[i] = q[i + 1]
OBVIOUS

\* The head of a queue is its first element.
LEMMA QueueHead ==
    ASSUME NEW S, NEW q \in Seq(S), q # <<>>
    PROVE  Head(q) = q[1] /\ Head(q) \in S /\ Len(q) \in Nat \ {0}
OBVIOUS

\* The announcement at the head of a queue.
LEMMA HeadOfQueue ==
    ASSUME CapInv, NEW c \in Conns, capOut[c] # <<>>
    PROVE  /\ Head(capOut[c]) = capOut[c][1] /\ Len(capOut[c]) \in Nat \ {0}
           /\ Head(capOut[c]).by \in Announcers /\ Head(capOut[c]).caps \in Sets
           /\ capStep[Head(capOut[c]).by] = "wait" /\ Target(Head(capOut[c]).by) = c
<1>1. capOut[c] \in Seq([by : Announcers, caps : Sets])
  BY DEF CapInv, CapTypeOK
<1>2. /\ Head(capOut[c]) = capOut[c][1] /\ Len(capOut[c]) \in Nat \ {0}
      /\ Head(capOut[c]) \in [by : Announcers, caps : Sets]
  BY <1>1, QueueHead, Zenon
<1>3. 1 \in 1 .. Len(capOut[c])
  BY <1>2
<1>4. QED
  BY <1>2, <1>3 DEF CapInv, MailInv

\* An announcer that is visiting a connection has one.
LEMMA TargetIsConn ==
    ASSUME CapInv, NEW p \in Announcers, capStep[p] \in {"snap", "send", "wait"}
    PROVE  Target(p) \in Conns /\ (p = Changer => Tail(capTodo) \in Seq(Conns))
<1>1. capTodo \in Seq(Conns)
  BY DEF CapInv, CapTypeOK
<1>2. p = Changer => capTodo # <<>>
  BY DEF CapInv, StepsInv, Visiting
<1>3. QED
  BY <1>1, <1>2, QueueFacts DEF Target, Announcers

-------------------------------------------------------------------------------
(* Types *)

\* Every step keeps the types.
LEMMA CapTypeStep ==
    ASSUME CapInv, [CapNext]_capVars
    PROVE  CapTypeOK'
<1> USE CapAssumption
<1>1. CapTypeOK
  BY DEF CapInv
<1>2. ASSUME NEW c \in Conns, RegisterConn(c) PROVE CapTypeOK'
  <2>1. capLive' \in Seq(Conns)
    BY <1>1, <1>2, QueueFacts DEF RegisterConn, CapTypeOK
  <2>2. capConn' \in [Conns -> {"none", "registered", "open", "closed"}]
    BY <1>1, <1>2 DEF RegisterConn, CapTypeOK
  <2>3. UNCHANGED <<capServed, capStep, capSnap, capRevoked, capTodo, capOut, capCalls,
                    capView, capSeen, capWaiter, capWoken>>
    BY <1>2 DEF RegisterConn, peerVars
  <2>4. QED
    BY <1>1, <2>1, <2>2, <2>3 DEF CapTypeOK
<1>3. ASSUME NEW c \in Conns, OpenConn(c) PROVE CapTypeOK'
  BY <1>1, <1>3 DEF OpenConn, CapTypeOK, Sets, Announcers
<1>4. ASSUME NEW c \in Conns, CloseConn(c) PROVE CapTypeOK'
  <2>1. <<>> \in Seq([by : Announcers, caps : Sets])
    OBVIOUS
  <2>2. capOut' \in [Conns -> Seq([by : Announcers, caps : Sets])]
    BY <1>1, <1>4, <2>1 DEF CloseConn, CapTypeOK
  <2>3. /\ capConn' \in [Conns -> {"none", "registered", "open", "closed"}]
        /\ capCalls' \in [Conns -> SUBSET Caps] /\ capView' \in [Conns -> SUBSET Caps]
        /\ capSeen' \in [Conns -> 0 .. MaxChanges]
        /\ capWaiter' \in [Conns -> {"no", "check", "absent", "parked"}]
    BY <1>1, <1>4 DEF CloseConn, CapTypeOK
  <2>4. QED
    BY <1>1, <1>4, <2>2, <2>3 DEF CloseConn, CapTypeOK
<1>5. ASSUME NEW c \in Conns, HandleAnnounce(c) PROVE CapTypeOK'
  <2> DEFINE m == Head(capOut[c])
  <2>1. m.by \in Announcers /\ m.caps \in Sets /\ Announced(m.by) \in {"next", "idle"}
    BY <1>5, HeadOfQueue DEF HandleAnnounce, Announced
  <2>2. m.by = Changer => Tail(capTodo) \in Seq(Conns)
    BY <1>5, HeadOfQueue, TargetIsConn DEF HandleAnnounce
  <2>3. Tail(capOut[c]) \in Seq([by : Announcers, caps : Sets])
    BY <1>1, <1>5, QueueFacts DEF HandleAnnounce, CapTypeOK
  <2>4. /\ capView' = [capView EXCEPT ![c] = m.caps.set \ Reserved]
        /\ capSeen' = [capSeen EXCEPT ![c] = IF m.caps.v > @ THEN m.caps.v ELSE @]
        /\ capStep' = [capStep EXCEPT ![m.by] = Announced(m.by)]
        /\ capTodo' = (IF m.by = Changer THEN Tail(capTodo) ELSE capTodo)
        /\ capOut' = [capOut EXCEPT ![c] = Tail(@)]
        /\ capWoken' \subseteq capWoken \cup {c}
        /\ UNCHANGED <<capServed, capLive, capConn, capSnap, capRevoked, capCalls, capWaiter>>
    BY <1>5 DEF HandleAnnounce
  <2>5. m.caps.set \subseteq Caps /\ m.caps.v \in 0 .. MaxChanges
    BY <2>1 DEF Sets
  <2> HIDE DEF m
  <2>6. capOut' \in [Conns -> Seq([by : Announcers, caps : Sets])] /\ capTodo' \in Seq(Conns)
    BY <1>1, <2>2, <2>3, <2>4 DEF CapTypeOK
  <2>7. /\ capView' \in [Conns -> SUBSET Caps] /\ capSeen' \in [Conns -> 0 .. MaxChanges]
        /\ capStep' \in [Announcers -> {"idle", "live", "next", "snap", "send", "wait"}]
    BY <1>1, <2>1, <2>4, <2>5 DEF CapTypeOK
  <2>8. QED
    BY <1>1, <2>4, <2>6, <2>7 DEF CapTypeOK
<1>6. ASSUME NEW c \in Busy,
             StartWait(c) \/ CheckWanted(c) \/ Park(c) \/ WaiterWakes(c) \/ WaitDeadline(c)
      PROVE  CapTypeOK'
  BY <1>1, <1>6 DEF StartWait, CheckWanted, Park, WaiterWakes, WaitDeadline, CapTypeOK
<1>7. ASSUME NEW c \in Busy, NEW x \in Caps, PeerCalls(c, x) \/ CallEnds(c, x) PROVE CapTypeOK'
  <2>0. PICK d \in SUBSET Caps : capCalls' = [capCalls EXCEPT ![c] = d]
    <3>1. capCalls[c] \cup {x} \in SUBSET Caps /\ capCalls[c] \ {x} \in SUBSET Caps
      BY <1>1 DEF CapTypeOK
    <3>2. QED
      BY <1>7, <3>1, Zenon DEF PeerCalls, CallEnds
  <2>1. capCalls' \in [Conns -> SUBSET Caps]
    BY <1>1, <2>0 DEF CapTypeOK
  <2>2. UNCHANGED <<capServed, capLive, capConn, capStep, capSnap, capRevoked, capTodo, capOut,
                    capView, capSeen, capWaiter, capWoken>>
    BY <1>7 DEF PeerCalls, CallEnds, peerVars
  <2>3. QED
    BY <1>1, <2>1, <2>2 DEF CapTypeOK
<1>8. ASSUME NEW p \in Announcers, TakeSnapshot(p) PROVE CapTypeOK'
  BY <1>1, <1>8 DEF TakeSnapshot, CapTypeOK, peerVars
<1>9. ASSUME NEW p \in Announcers, SendAnnounce(p) PROVE CapTypeOK'
  <2>1. Target(p) \in Conns /\ (p = Changer => Tail(capTodo) \in Seq(Conns))
    BY <1>9, TargetIsConn DEF SendAnnounce
  <2>2. [by |-> p, caps |-> capSnap[p]] \in [by : Announcers, caps : Sets]
    BY <1>1 DEF CapTypeOK
  <2>3. Append(capOut[Target(p)], [by |-> p, caps |-> capSnap[p]])
            \in Seq([by : Announcers, caps : Sets])
    BY <1>1, <2>1, <2>2, QueueFacts DEF CapTypeOK
  <2>4. NoCaps \in Sets /\ Announced(p) \in {"next", "idle"}
    BY DEF NoCaps, Sets, Announced
  <2>5. capSnap' \in [Announcers -> Sets]
    BY <1>1, <1>9, <2>4 DEF SendAnnounce, CapTypeOK
  <2> DEFINE Messages == [by : Announcers, caps : Sets]
  <2>a. /\ capOut \in [Conns -> Seq(Messages)]
        /\ Append(capOut[Target(p)], [by |-> p, caps |-> capSnap[p]]) \in Seq(Messages)
    BY <1>1, <2>3 DEF CapTypeOK
  <2> HIDE DEF Messages
  <2>b. capOut' \in [Conns -> Seq(Messages)] /\ capTodo' \in Seq(Conns)
    <3>1. CASE capConn[Target(p)] = "closed"
      <4>1. capOut' = capOut /\ (capTodo' = capTodo \/ (p = Changer /\ capTodo' = Tail(capTodo)))
        BY <1>9, <3>1, Zenon DEF SendAnnounce
      <4>2. QED
        BY <1>1, <2>1, <2>a, <4>1, Zenon DEF CapTypeOK
    <3>2. CASE capConn[Target(p)] # "closed"
      <4> DEFINE q == Append(capOut[Target(p)], [by |-> p, caps |-> capSnap[p]])
      <4>1. capOut' = [capOut EXCEPT ![Target(p)] = q] /\ capTodo' = capTodo
        BY <1>9, <3>2, Zenon DEF SendAnnounce
      <4>2. q \in Seq(Messages) /\ capOut \in [Conns -> Seq(Messages)]
        BY <2>a, Zenon
      <4> HIDE DEF q
      <4>3. capOut' \in [Conns -> Seq(Messages)]
        BY <4>1, <4>2, Zenon
      <4>4. QED
        BY <1>1, <4>1, <4>3, Zenon DEF CapTypeOK
    <3>3. QED
      BY <3>1, <3>2
  <2>6. /\ capOut' \in [Conns -> Seq([by : Announcers, caps : Sets])] /\ capTodo' \in Seq(Conns)
        /\ capStep' \in [Announcers -> {"idle", "live", "next", "snap", "send", "wait"}]
    BY <1>1, <1>9, <2>b, <2>4 DEF SendAnnounce, CapTypeOK, Messages
  <2>7. QED
    BY <1>1, <1>9, <2>5, <2>6 DEF SendAnnounce, CapTypeOK, peerVars
<1>10. ASSUME NEW p \in Announcers, AnnounceFails(p) PROVE CapTypeOK'
  <2>1. p = Changer => Tail(capTodo) \in Seq(Conns)
    BY <1>10, TargetIsConn DEF AnnounceFails
  <2>2. QED
    BY <1>1, <1>10, <2>1 DEF AnnounceFails, Announced, CapTypeOK, peerVars
<1>11. ASSUME NEW s \in SUBSET Caps, SwapServed(s) PROVE CapTypeOK'
  <2>1. [set |-> s, v |-> capServed.v + 1] \in Sets
    BY <1>1, <1>11 DEF SwapServed, CapTypeOK, Sets
  <2>2. capServed.set \subseteq Caps
    BY <1>1 DEF CapTypeOK, Sets
  <2>3. QED
    BY <1>1, <1>11, <2>1, <2>2 DEF SwapServed, CapTypeOK, peerVars
<1>12. CASE TakeLive
  BY <1>1, <1>12 DEF TakeLive, CapTypeOK, peerVars
<1>13. CASE NextConn
  <2>1. capTodo' \in Seq(Conns)
    <3>1. capTodo # <<>> => Tail(capTodo) \in Seq(Conns)
      BY <1>1, QueueFacts DEF CapTypeOK
    <3>2. QED
      BY <1>1, <1>13, <3>1 DEF NextConn, CapTypeOK
  <2>2. capCalls' \in [Conns -> SUBSET Caps] /\ capRevoked' \subseteq Caps
    <3>1. CASE capTodo = <<>> \/ capConn[Head(capTodo)] = "closed"
      BY <1>1, <1>13, <3>1 DEF NextConn, CapTypeOK
    <3>2. CASE ~(capTodo = <<>> \/ capConn[Head(capTodo)] = "closed")
      <4>1. Head(capTodo) \in Conns
        BY <1>1, <3>2, QueueFacts DEF CapTypeOK
      <4>2. capCalls[Head(capTodo)] \ capRevoked \in SUBSET Caps
        BY <1>1, <4>1 DEF CapTypeOK
      <4>3. capCalls' = [capCalls EXCEPT ![Head(capTodo)] = capCalls[Head(capTodo)] \ capRevoked]
        BY <1>13, <3>2 DEF NextConn
      <4>4. capCalls' \in [Conns -> SUBSET Caps]
        BY <1>1, <4>2, <4>3 DEF CapTypeOK
      <4>5. QED
        BY <1>1, <1>13, <3>2, <4>4 DEF NextConn, CapTypeOK
    <3>3. QED
      BY <3>1, <3>2
  <2>3. capStep' \in [Announcers -> {"idle", "live", "next", "snap", "send", "wait"}]
    <3>1. \/ capStep' = capStep
          \/ \E x \in {"idle", "snap"} : capStep' = [capStep EXCEPT ![Changer] = x]
      BY <1>13, Zenon DEF NextConn
    <3>2. QED
      BY <1>1, <3>1 DEF CapTypeOK
  <2>4. UNCHANGED <<capServed, capLive, capConn, capSnap, capOut,
                    capView, capSeen, capWaiter, capWoken>>
    BY <1>13 DEF NextConn, peerVars
  <2>5. QED
    BY <1>1, <2>1, <2>2, <2>3, <2>4 DEF CapTypeOK
<1>14. CASE UNCHANGED capVars
  BY <1>1, <1>14 DEF capVars, CapTypeOK
<1>15. QED
  BY <1>2, <1>3, <1>4, <1>5, <1>6, <1>7, <1>8, <1>9, <1>10, <1>11, <1>12, <1>13, <1>14
  DEF CapNext, AnnouncerStep
-------------------------------------------------------------------------------
(* Announcers and their announcements *)

\* Every step leaves propagate a connection to visit, and every connection quiet
\* until it is open.
LEMMA StepsStep ==
    ASSUME CapInv, [CapNext]_capVars
    PROVE  StepsInv'
<1> USE CapAssumption
<1>1. CapTypeOK /\ StepsInv
  BY DEF CapInv
<1>2. ASSUME NEW c \in Conns, RegisterConn(c) \/ OpenConn(c) \/ CloseConn(c) PROVE StepsInv'
  <2>1. capTodo' = capTodo /\ capStep'[Changer] = capStep[Changer]
    BY <1>1, <1>2 DEF RegisterConn, OpenConn, CloseConn, CapTypeOK, Announcers
  <2>2. ASSUME NEW d \in Conns
        PROVE  /\ capStep'[d] \in {capStep[d], "snap"}
               /\ capConn'[d] \in {"none", "registered"} =>
                     capConn[d] \in {"none", "registered"} /\ capStep'[d] = capStep[d]
    <3>1. CASE RegisterConn(c)
      BY <1>1, <3>1 DEF RegisterConn, CapTypeOK, Announcers
    <3>2. CASE OpenConn(c)
      BY <1>1, <3>2 DEF OpenConn, CapTypeOK, Announcers
    <3>3. CASE CloseConn(c)
      BY <1>1, <3>3 DEF CloseConn, CapTypeOK, Announcers
    <3>4. QED
      BY <1>2, <3>1, <3>2, <3>3
  <2>3. QED
    BY <1>1, <2>1, <2>2 DEF StepsInv, Visiting
<1>3. ASSUME NEW c \in Conns, HandleAnnounce(c) PROVE StepsInv'
  <2> DEFINE p == Head(capOut[c]).by
  <2>1. p \in Announcers /\ capStep[p] = "wait"
    BY <1>3, HeadOfQueue DEF HandleAnnounce
  <2>2. /\ capStep' = [capStep EXCEPT ![p] = Announced(p)]
        /\ capTodo' = (IF p = Changer THEN Tail(capTodo) ELSE capTodo)
        /\ capConn' = capConn
    BY <1>3 DEF HandleAnnounce
  <2> HIDE DEF p
  <2>3. QED
    BY <1>1, <2>1, <2>2 DEF StepsInv, Visiting, CapTypeOK, Announcers, Announced
<1>4. ASSUME NEW p \in Announcers, AnnouncerStep(p) PROVE StepsInv'
  <2>1. /\ capStep[p] \in {"snap", "send", "wait"} /\ capConn' = capConn
        /\ \/ capTodo' = capTodo /\ \E k \in {"send", "wait"} : capStep' = [capStep EXCEPT ![p] = k]
           \/ /\ capTodo' = (IF p = Changer THEN Tail(capTodo) ELSE capTodo)
              /\ capStep' = [capStep EXCEPT ![p] = Announced(p)]
    BY <1>4 DEF AnnouncerStep, TakeSnapshot, SendAnnounce, AnnounceFails
  <2>2. QED
    BY <1>1, <2>1 DEF StepsInv, Visiting, CapTypeOK, Announcers, Announced
<1>5. ASSUME NEW s \in SUBSET Caps, SwapServed(s) PROVE StepsInv'
  BY <1>1, <1>5 DEF SwapServed, StepsInv, Visiting, CapTypeOK, Announcers
<1>6. CASE TakeLive \/ NextConn
  BY <1>1, <1>6 DEF TakeLive, NextConn, StepsInv, Visiting, CapTypeOK, Announcers
<1>7. ASSUME UNCHANGED <<capStep, capTodo, capConn>> PROVE StepsInv'
  BY <1>1, <1>7 DEF StepsInv, Visiting
<1>8. ASSUME NEW c \in Busy,
             \/ StartWait(c) \/ CheckWanted(c) \/ Park(c) \/ WaiterWakes(c) \/ WaitDeadline(c)
             \/ \E x \in Caps : PeerCalls(c, x) \/ CallEnds(c, x)
      PROVE  UNCHANGED <<capStep, capTodo, capConn>>
  BY <1>8 DEF StartWait, CheckWanted, Park, WaiterWakes, WaitDeadline, PeerCalls, CallEnds
<1>9. CASE UNCHANGED capVars
  BY <1>7, <1>9 DEF capVars
<1>10. QED
  BY <1>2, <1>3, <1>4, <1>5, <1>6, <1>7, <1>8, <1>9 DEF CapNext

\* An announcer with nothing on the wire may move, and propagate go on to another
\* connection, without losing an announcement of anyone else.
LEMMA MailKept ==
    ASSUME CapInv, NEW p \in Announcers, capStep[p] # "wait",
           capOut' = capOut, p = Changer \/ capTodo' = capTodo,
           \A q \in Announcers \ {p} : capStep'[q] = capStep[q],
           \A c \in Conns : capConn'[c] = "closed" => capConn[c] = "closed"
    PROVE  MailInv'
<1>1. MailInv /\ CapTypeOK
  BY DEF CapInv
<1>2. ASSUME NEW c \in Conns, NEW i \in 1 .. Len(capOut[c])
      PROVE  /\ capOut[c][i].by \in Announcers \ {p}
             /\ capStep[capOut[c][i].by] = "wait" /\ Target(capOut[c][i].by) = c
             /\ Target(capOut[c][i].by)' = c
  <2>1. capOut[c] \in Seq([by : Announcers, caps : Sets])
    BY <1>1 DEF CapTypeOK
  <2>2. capOut[c][i] \in [by : Announcers, caps : Sets]
    BY <2>1, QueueFacts
  <2>3. capStep[capOut[c][i].by] = "wait" /\ Target(capOut[c][i].by) = c
    BY <1>1 DEF MailInv
  <2>4. capOut[c][i].by \in Announcers \ {p}
    BY <2>2, <2>3
  <2>5. Target(capOut[c][i].by)' = c
    BY <2>3, <2>4 DEF Target
  <2>6. QED
    BY <2>3, <2>4, <2>5
<1>3. \A c \in Conns : \A i \in 1 .. Len(capOut'[c]) :
          capStep'[capOut'[c][i].by] = "wait" /\ Target(capOut[c][i].by)' = c
  BY <1>2
<1>4. QED
  BY <1>1, <1>3 DEF MailInv

\* The head of a queue is answered, and its announcer goes on: the rest of the mail
\* is of other announcers.
LEMMA MailAnswered ==
    ASSUME CapInv, NEW c \in Conns, HandleAnnounce(c)
    PROVE  MailInv'
<1> DEFINE p == Head(capOut[c]).by
<1>1. MailInv /\ CapTypeOK
  BY DEF CapInv
<1>2. capOut[c] \in Seq([by : Announcers, caps : Sets]) /\ capOut[c] # <<>>
  BY <1>1 DEF CapTypeOK, HandleAnnounce
<1>3. /\ p = capOut[c][1].by /\ Len(capOut[c]) \in Nat \ {0} /\ p \in Announcers
      /\ Target(p) = c
  BY <1>2, HeadOfQueue
<1>4. /\ Len(Tail(capOut[c])) = Len(capOut[c]) - 1
      /\ \A i \in 1 .. Len(capOut[c]) - 1 : Tail(capOut[c])[i] = capOut[c][i + 1]
  BY <1>2, QueueFacts
<1>5. /\ capOut' = [capOut EXCEPT ![c] = Tail(@)]
      /\ capStep' = [capStep EXCEPT ![p] = Announced(p)]
      /\ capTodo' = (IF p = Changer THEN Tail(capTodo) ELSE capTodo)
      /\ capConn' = capConn /\ capConn[c] = "open"
  BY DEF HandleAnnounce
<1> HIDE DEF p
<1>6. ASSUME NEW d \in Conns, NEW i \in 1 .. Len(capOut'[d])
      PROVE  \E j \in 1 .. Len(capOut[d]) :
                /\ capOut'[d][i] = capOut[d][j] /\ j = (IF d = c THEN i + 1 ELSE i)
                /\ capOut[d][j].by \in Announcers \ {p}
  <2> DEFINE j == IF d = c THEN i + 1 ELSE i
  <2>1. j \in 1 .. Len(capOut[d]) /\ capOut'[d][i] = capOut[d][j]
    <3>1. capOut'[d] = IF d = c THEN Tail(capOut[c]) ELSE capOut[d]
      BY <1>1, <1>5, Zenon DEF CapTypeOK
    <3>2. CASE d = c
      BY <1>3, <1>4, <3>1, <3>2
    <3>3. CASE d # c
      BY <3>1, <3>3, Zenon
    <3>4. QED
      BY <3>2, <3>3
  <2>2. capOut[d] \in Seq([by : Announcers, caps : Sets])
    BY <1>1 DEF CapTypeOK
  <2>3. capOut[d][j].by \in Announcers
    <3>1. capOut[d][j] \in [by : Announcers, caps : Sets]
      BY <2>1, <2>2, QueueFacts
    <3>2. QED
      BY <3>1
  <2>4. d = c => j # 1 /\ 1 \in 1 .. Len(capOut[d])
    BY <1>3
  <2>5. capOut[d][j].by # p
    BY <1>1, <1>3, <2>1, <2>4 DEF MailInv
  <2>6. QED
    BY <2>1, <2>3, <2>5
<1>7. ASSUME NEW d \in Conns, NEW i \in 1 .. Len(capOut'[d])
      PROVE  capStep'[capOut'[d][i].by] = "wait" /\ Target(capOut[d][i].by)' = d
  <2>1. PICK j \in 1 .. Len(capOut[d]) : /\ capOut'[d][i] = capOut[d][j]
                                         /\ capOut[d][j].by \in Announcers \ {p}
    BY <1>6
  <2>2. capStep[capOut[d][j].by] = "wait" /\ Target(capOut[d][j].by) = d
    BY <1>1 DEF MailInv
  <2>3. capStep'[capOut[d][j].by] = "wait"
    BY <1>1, <1>5, <2>1, <2>2 DEF CapTypeOK
  <2>4. (IF capOut[d][j].by = Changer THEN Head(capTodo') ELSE capOut[d][j].by) = d
    BY <1>5, <2>1, <2>2 DEF Target
  <2>5. QED
    BY <2>1, <2>3, <2>4 DEF Target
<1>8. ASSUME NEW d \in Conns, NEW i \in 1 .. Len(capOut'[d]), NEW k \in 1 .. Len(capOut'[d]), i # k
      PROVE  capOut'[d][i].by # capOut'[d][k].by
  <2>1. PICK j \in 1 .. Len(capOut[d]) : /\ capOut'[d][i] = capOut[d][j]
                                         /\ j = (IF d = c THEN i + 1 ELSE i)
    BY <1>6
  <2>2. PICK l \in 1 .. Len(capOut[d]) : /\ capOut'[d][k] = capOut[d][l]
                                         /\ l = (IF d = c THEN k + 1 ELSE k)
    BY <1>6
  <2>3. j # l
    BY <1>8, <2>1, <2>2
  <2>4. QED
    BY <1>1, <2>1, <2>2, <2>3 DEF MailInv
<1>9. ASSUME NEW d \in Conns, capConn'[d] = "closed" PROVE capOut'[d] = <<>>
  BY <1>1, <1>5, <1>9 DEF MailInv, CapTypeOK
<1>10. QED
  BY <1>7, <1>8, <1>9 DEF MailInv

\* An announcer with nothing on the wire sends its announcement: the only one of its.
LEMMA MailSent ==
    ASSUME CapInv, NEW p \in Announcers, SendAnnounce(p), capConn[Target(p)] # "closed"
    PROVE  MailInv'
<1> DEFINE c == Target(p)
           m == [by |-> p, caps |-> capSnap[p]]
<1>1. MailInv /\ CapTypeOK /\ c \in Conns
  BY TargetIsConn DEF CapInv, SendAnnounce
<1>2. capOut[c] \in Seq([by : Announcers, caps : Sets]) /\ m \in [by : Announcers, caps : Sets]
  BY <1>1 DEF CapTypeOK
<1>3. /\ Len(Append(capOut[c], m)) = Len(capOut[c]) + 1 /\ Len(capOut[c]) \in Nat
      /\ Append(capOut[c], m)[Len(capOut[c]) + 1] = m
      /\ \A i \in 1 .. Len(capOut[c]) : Append(capOut[c], m)[i] = capOut[c][i]
  BY <1>2, QueueFacts
<1>4. /\ capOut' = [capOut EXCEPT ![c] = Append(@, m)]
      /\ capStep' = [capStep EXCEPT ![p] = "wait"]
      /\ capTodo' = capTodo /\ capConn' = capConn /\ capConn[c] # "closed"
      /\ capStep[p] = "send"
  BY DEF SendAnnounce
<1>5. m.by = p
  OBVIOUS
<1> HIDE DEF m
<1>6. ASSUME NEW d \in Conns, NEW i \in 1 .. Len(capOut'[d])
      PROVE  \/ d = c /\ i = Len(capOut[c]) + 1 /\ capOut'[d][i] = m
             \/ i \in 1 .. Len(capOut[d]) /\ capOut'[d][i] = capOut[d][i]
  <2>1. capOut'[d] = IF d = c THEN Append(capOut[c], m) ELSE capOut[d]
    BY <1>1, <1>4, Zenon DEF CapTypeOK
  <2>2. CASE d = c
    <3>1. i \in 1 .. Len(capOut[c]) \/ i = Len(capOut[c]) + 1
      BY <1>3, <2>1, <2>2
    <3>2. QED
      BY <1>3, <2>1, <2>2, <3>1, Zenon
  <2>3. CASE d # c
    BY <2>1, <2>3, Zenon
  <2>4. QED
    BY <2>2, <2>3
<1>7. ASSUME NEW d \in Conns, NEW i \in 1 .. Len(capOut[d])
      PROVE  /\ capOut[d][i].by \in Announcers \ {p} /\ Target(capOut[d][i].by) = d
             /\ capStep'[capOut[d][i].by] = "wait"
  <2>1. capOut[d] \in Seq([by : Announcers, caps : Sets])
    BY <1>1 DEF CapTypeOK
  <2>2. capOut[d][i] \in [by : Announcers, caps : Sets]
    BY <2>1, QueueFacts
  <2>3. capStep[capOut[d][i].by] = "wait" /\ Target(capOut[d][i].by) = d
    BY <1>1 DEF MailInv
  <2>4. QED
    BY <1>1, <1>4, <2>2, <2>3 DEF CapTypeOK
<1>8. ASSUME NEW d \in Conns, NEW i \in 1 .. Len(capOut'[d])
      PROVE  capStep'[capOut'[d][i].by] = "wait" /\ Target(capOut[d][i].by)' = d
  <2>1. CASE d = c /\ capOut'[d][i] = m
    BY <1>1, <1>4, <1>5, <2>1 DEF Target, CapTypeOK
  <2>2. CASE i \in 1 .. Len(capOut[d]) /\ capOut'[d][i] = capOut[d][i]
    <3>1. Target(capOut[d][i].by) = d /\ capStep'[capOut[d][i].by] = "wait"
      BY <1>7, <2>2, Zenon
    <3>2. QED
      BY <1>4, <2>2, <3>1, Zenon DEF Target
  <2>3. QED
    BY <1>6, <2>1, <2>2
<1>9. ASSUME NEW d \in Conns, NEW i \in 1 .. Len(capOut'[d]), NEW k \in 1 .. Len(capOut'[d]), i # k
      PROVE  capOut'[d][i].by # capOut'[d][k].by
  <2>1. CASE i \in 1 .. Len(capOut[d]) /\ k \in 1 .. Len(capOut[d])
    <3>1. Len(capOut[c]) + 1 \notin 1 .. Len(capOut[c])
      BY <1>3
    <3>2. capOut'[d][i] = capOut[d][i] /\ capOut'[d][k] = capOut[d][k]
      BY <1>6, <2>1, <3>1, Zenon
    <3>3. \A a, b \in 1 .. Len(capOut[d]) : a # b => capOut[d][a].by # capOut[d][b].by
      BY <1>1, Zenon DEF MailInv
    <3>4. QED
      BY <1>9, <2>1, <3>2, <3>3, Zenon
  <2>2. CASE ~(i \in 1 .. Len(capOut[d]) /\ k \in 1 .. Len(capOut[d]))
    BY <1>5, <1>6, <1>7, <1>9, <2>2
  <2>3. QED
    BY <2>1, <2>2
<1>10. ASSUME NEW d \in Conns, capConn'[d] = "closed" PROVE capOut'[d] = <<>>
  BY <1>1, <1>4, <1>10 DEF MailInv, CapTypeOK
<1>11. QED
  BY <1>8, <1>9, <1>10 DEF MailInv

\* An announcer whose connection is gone has nothing on the wire, whether it waits
\* for an answer or not.
LEMMA MailLost ==
    ASSUME CapInv, NEW p \in Announcers, AnnounceFails(p)
    PROVE  MailInv'
<1>1. MailInv /\ CapTypeOK /\ Target(p) \in Conns
  BY TargetIsConn DEF CapInv, AnnounceFails
<1>2. /\ capOut' = capOut /\ capConn' = capConn /\ capOut[Target(p)] = <<>>
      /\ capStep' = [capStep EXCEPT ![p] = Announced(p)]
      /\ capTodo' = (IF p = Changer THEN Tail(capTodo) ELSE capTodo)
  BY <1>1 DEF AnnounceFails, MailInv
<1>3. ASSUME NEW d \in Conns, NEW i \in 1 .. Len(capOut[d])
      PROVE  capStep'[capOut[d][i].by] = "wait" /\ Target(capOut[d][i].by)' = d
  <2>1. capOut[d] \in Seq([by : Announcers, caps : Sets])
    BY <1>1 DEF CapTypeOK
  <2>2. capOut[d][i] \in [by : Announcers, caps : Sets]
    BY <2>1, QueueFacts
  <2>3. capStep[capOut[d][i].by] = "wait" /\ Target(capOut[d][i].by) = d
    BY <1>1 DEF MailInv
  <2>4. capOut[d][i].by # p
    BY <1>2, <2>3
  <2>5. QED
    BY <1>1, <1>2, <2>2, <2>3, <2>4 DEF Target, CapTypeOK
<1>4. QED
  BY <1>1, <1>2, <1>3 DEF MailInv

\* Every step keeps the announcements in order.
LEMMA MailStep ==
    ASSUME CapInv, [CapNext]_capVars
    PROVE  MailInv'
<1> USE CapAssumption
<1>1. CapTypeOK /\ StepsInv /\ MailInv
  BY DEF CapInv
<1>2. ASSUME NEW c \in Conns, RegisterConn(c) \/ OpenConn(c) PROVE MailInv'
  <2>1. c \in Announcers /\ capStep[c] # "wait"
    BY <1>1, <1>2 DEF RegisterConn, OpenConn, StepsInv, Announcers
  <2>2. /\ capOut' = capOut /\ capTodo' = capTodo
        /\ \A q \in Announcers \ {c} : capStep'[q] = capStep[q]
        /\ \A d \in Conns : capConn'[d] = "closed" => capConn[d] = "closed"
    BY <1>1, <1>2 DEF RegisterConn, OpenConn, CapTypeOK
  <2>3. QED
    BY <2>1, <2>2, MailKept
<1>3. ASSUME NEW c \in Conns, CloseConn(c) PROVE MailInv'
  <2>1. /\ capStep' = capStep /\ capTodo' = capTodo /\ Len(<<>>) = 0
        /\ \A d \in Conns : capOut'[d] = IF d = c THEN <<>> ELSE capOut[d]
        /\ \A d \in Conns \ {c} : capConn'[d] = capConn[d]
    BY <1>1, <1>3 DEF CloseConn, CapTypeOK
  <2>2. QED
    BY <1>1, <2>1 DEF MailInv, Target
<1>4. ASSUME NEW p \in Announcers, TakeSnapshot(p) PROVE MailInv'
  BY <1>1, <1>4, MailKept DEF TakeSnapshot, CapTypeOK
<1>5. ASSUME NEW p \in Announcers, SendAnnounce(p) PROVE MailInv'
  <2>1. CASE capConn[Target(p)] # "closed"
    BY <1>5, <2>1, MailSent
  <2>2. CASE capConn[Target(p)] = "closed"
    BY <1>1, <1>5, <2>2, MailKept DEF SendAnnounce, CapTypeOK
  <2>3. QED
    BY <2>1, <2>2
<1>6. Changer \in Announcers
  BY DEF Announcers
<1>7. ASSUME NEW s \in SUBSET Caps, SwapServed(s) PROVE MailInv'
  BY <1>1, <1>6, <1>7, MailKept DEF SwapServed, CapTypeOK
<1>8. CASE TakeLive \/ NextConn
  BY <1>1, <1>6, <1>8, MailKept DEF TakeLive, NextConn, CapTypeOK
<1>9. ASSUME UNCHANGED <<capStep, capTodo, capConn, capOut>> PROVE MailInv'
  <2>2. /\ \A c \in Conns : capConn'[c] = "closed" => capOut'[c] = <<>>
        /\ \A c \in Conns : \A i, j \in 1 .. Len(capOut'[c]) :
              i # j => capOut'[c][i].by # capOut'[c][j].by
    BY <1>1, <1>9 DEF MailInv
  <2>3. \A c \in Conns : \A i \in 1 .. Len(capOut'[c]) :
              capStep'[capOut'[c][i].by] = "wait" /\ Target(capOut[c][i].by)' = c
    <3> SUFFICES ASSUME NEW c \in Conns, NEW i \in 1 .. Len(capOut[c])
                 PROVE  capStep[capOut[c][i].by] = "wait" /\ Target(capOut[c][i].by)' = c
      BY <1>9
    <3>1. capStep[capOut[c][i].by] = "wait" /\ Target(capOut[c][i].by) = c
      BY <1>1 DEF MailInv
    <3>2. QED
      BY <1>9, <3>1 DEF Target
  <2>4. QED
    BY <2>2, <2>3, Zenon DEF MailInv
<1>10. ASSUME NEW c \in Busy,
              \/ StartWait(c) \/ CheckWanted(c) \/ Park(c) \/ WaiterWakes(c) \/ WaitDeadline(c)
              \/ \E x \in Caps : PeerCalls(c, x) \/ CallEnds(c, x)
       PROVE  UNCHANGED <<capStep, capTodo, capConn, capOut>>
  BY <1>10 DEF StartWait, CheckWanted, Park, WaiterWakes, WaitDeadline, PeerCalls, CallEnds
<1>11. CASE UNCHANGED capVars
  BY <1>9, <1>11 DEF capVars
<1>12. QED
  BY <1>2, <1>3, <1>4, <1>5, <1>7, <1>8, <1>9, <1>10, <1>11, MailAnswered, MailLost
  DEF CapNext, AnnouncerStep

-------------------------------------------------------------------------------
(* Calls and revocations *)

\* What a step does that neither changes the set nor moves propagate on: calls end,
\* or start on what is served.
LEMMA RevokeKept ==
    ASSUME CapInv, UNCHANGED <<capServed, capLive, capRevoked, capTodo>>,
           \A c \in Conns : capConn'[c] # "none" => capConn[c] # "none",
           \A c \in Conns : capCalls'[c] # {} => capConn'[c] = "open",
           \A c \in Conns : capCalls'[c] \subseteq capCalls[c] \cup capServed.set,
           capStep'[Changer] = capStep[Changer] \/ (Visiting /\ Visiting')
    PROVE  RevokeInv'
<1>1. RevokeInv
  BY DEF CapInv
<1>2. \A c \in Conns, n \in {0, 1} : After(c, n) => After(c, n)'
  BY DEF After
<1>3. \A c \in Conns : capCalls[c] \subseteq capServed.set => capCalls'[c] \subseteq capServed.set
  OBVIOUS
<1>4. \A c \in Conns : capCalls'[c] \subseteq capServed'.set \cup capRevoked'
  BY <1>1 DEF RevokeInv
<1>5. Visiting' => Visiting
  BY DEF Visiting
<1>6. capStep'[Changer] \in {"idle", "next"} => capStep'[Changer] = capStep[Changer]
  BY DEF Visiting
<1>7. QED
  BY <1>1, <1>2, <1>3, <1>4, <1>5, <1>6 DEF RevokeInv

\* Propagate is done with a connection, and what it has not been to is left of its list.
LEMMA RevokeOnward ==
    ASSUME CapInv, Visiting, capTodo' = Tail(capTodo), capStep'[Changer] = "next",
           UNCHANGED <<capServed, capLive, capRevoked, capConn, capCalls>>
    PROVE  RevokeInv'
<1>1. RevokeInv /\ capTodo \in Seq(Conns) /\ capTodo # <<>>
  BY DEF CapInv, StepsInv, CapTypeOK
<1>2. /\ Len(capTodo') = Len(capTodo) - 1 /\ Len(capTodo) \in Nat
      /\ \A i \in 1 .. Len(capTodo) - 1 : capTodo'[i] = capTodo[i + 1]
  BY <1>1, QueueFacts
<1>3. ASSUME NEW c \in Conns, After(c, 1) PROVE After(c, 0)'
  <2>1. PICK i \in 1 .. Len(capTodo) : i > 1 /\ capTodo[i] = c
    BY <1>3 DEF After
  <2>2. i - 1 \in 1 .. Len(capTodo') /\ i - 1 > 0 /\ capTodo'[i - 1] = c
    BY <1>2, <2>1
  <2>3. QED
    BY <2>2 DEF After
<1>4. QED
  BY <1>1, <1>3 DEF RevokeInv, Visiting

\* Propagate takes the live connections, fails the revoked calls of the next one, or
\* is done when none is left.
LEMMA RevokeLoop ==
    ASSUME CapInv, TakeLive \/ NextConn
    PROVE  RevokeInv'
<1>1. CapTypeOK /\ RevokeInv /\ Changer \in Announcers
  BY DEF CapInv, Announcers
<1>2. CASE TakeLive
  <2>1. ASSUME NEW c \in Conns, capCalls[c] # {} PROVE After(c, 0)'
    <3>1. PICK i \in 1 .. Len(capLive) : capLive[i] = c
      BY <1>1, <2>1 DEF RevokeInv
    <3>2. QED
      BY <1>1, <1>2, <3>1 DEF TakeLive, After
  <2>2. capStep'[Changer] = "next" /\ UNCHANGED <<capServed, capLive, capRevoked, capConn, capCalls>>
    BY <1>1, <1>2 DEF TakeLive, CapTypeOK
  <2>3. QED
    BY <1>1, <2>1, <2>2 DEF RevokeInv, Visiting
<1>3. CASE NextConn /\ capTodo = <<>>
  <2>1. \A c \in Conns : ~After(c, 0)
    BY <1>3 DEF After
  <2>2. /\ capStep[Changer] = "next" /\ capStep'[Changer] = "idle"
        /\ UNCHANGED <<capServed, capLive, capConn, capCalls>>
    BY <1>1, <1>3 DEF NextConn, CapTypeOK
  <2>3. QED
    BY <1>1, <2>1, <2>2 DEF RevokeInv, Visiting
<1>4. ASSUME capTodo # <<>>
      PROVE  /\ Head(capTodo) = capTodo[1] /\ Head(capTodo) \in Conns
             /\ Len(capTodo) \in Nat /\ Len(Tail(capTodo)) = Len(capTodo) - 1
             /\ \A i \in 1 .. Len(capTodo) - 1 : Tail(capTodo)[i] = capTodo[i + 1]
  BY <1>1, <1>4, QueueFacts DEF CapTypeOK
<1>5. ASSUME capTodo # <<>>, NEW c \in Conns, After(c, 0), c # Head(capTodo) PROVE After(c, 1)
  BY <1>4, <1>5 DEF After
<1>6. CASE NextConn /\ capTodo # <<>> /\ capConn[Head(capTodo)] = "closed"
  <2>1. /\ capStep[Changer] = "next" /\ capStep' = capStep /\ capTodo' = Tail(capTodo)
        /\ UNCHANGED <<capServed, capLive, capRevoked, capConn, capCalls>>
    BY <1>6 DEF NextConn
  <2>2. ASSUME NEW c \in Conns, ~(capCalls[c] \subseteq capServed.set) PROVE After(c, 0)'
    <3>1. c # Head(capTodo) /\ After(c, 0)
      BY <1>1, <1>6, <2>1, <2>2 DEF RevokeInv
    <3>2. PICK i \in 1 .. Len(capTodo) : i > 1 /\ capTodo[i] = c
      BY <1>5, <1>6, <3>1 DEF After
    <3>3. i - 1 \in 1 .. Len(capTodo') /\ i - 1 > 0 /\ capTodo'[i - 1] = c
      BY <1>4, <1>6, <2>1, <3>2
    <3>4. QED
      BY <3>3 DEF After
  <2>3. QED
    BY <1>1, <2>1, <2>2 DEF RevokeInv, Visiting
<1>7. CASE NextConn /\ capTodo # <<>> /\ capConn[Head(capTodo)] # "closed"
  <2>1. /\ capStep[Changer] = "next" /\ capStep'[Changer] = "snap"
        /\ UNCHANGED <<capServed, capLive, capRevoked, capConn, capTodo>>
        /\ capCalls' = [capCalls EXCEPT ![Head(capTodo)] = @ \ capRevoked]
    BY <1>1, <1>7 DEF NextConn, CapTypeOK
  <2>2. \A c \in Conns : capCalls'[c] = IF c = Head(capTodo) THEN capCalls[c] \ capRevoked
                                                            ELSE capCalls[c]
    BY <1>1, <2>1 DEF CapTypeOK
  <2>3. ASSUME NEW c \in Conns PROVE capCalls'[c] \subseteq capServed.set \/ After(c, 1)'
    <3>1. CASE c = Head(capTodo)
      BY <1>1, <2>2, <3>1 DEF RevokeInv
    <3>2. CASE c # Head(capTodo)
      BY <1>1, <1>5, <1>7, <2>1, <2>2, <3>2 DEF RevokeInv, After
    <3>3. QED
      BY <3>1, <3>2
  <2>4. \A c \in Conns : capCalls'[c] \subseteq capCalls[c]
    BY <2>2
  <2>5. \A c \in Conns : /\ capCalls'[c] # {} => capConn'[c] = "open"
                         /\ capCalls'[c] \subseteq capServed'.set \cup capRevoked'
    BY <1>1, <2>1, <2>4 DEF RevokeInv
  <2>6. QED
    BY <1>1, <2>1, <2>3, <2>5 DEF RevokeInv, Visiting
<1>8. QED
  BY <1>2, <1>3, <1>6, <1>7

\* Every step leaves calls of revoked capabilities only where propagate has still to go.
LEMMA RevokeStep ==
    ASSUME CapInv, [CapNext]_capVars
    PROVE  RevokeInv'
<1> USE CapAssumption
<1>1. CapTypeOK /\ StepsInv /\ RevokeInv /\ Changer \in Announcers
  BY DEF CapInv, Announcers
<1>2. ASSUME NEW c \in Conns, RegisterConn(c) PROVE RevokeInv'
  <2>1. /\ UNCHANGED <<capServed, capStep, capRevoked, capTodo, capCalls>>
        /\ capLive' = Append(capLive, c)
        /\ \A d \in Conns : capConn'[d] = IF d = c THEN "registered" ELSE capConn[d]
        /\ capConn[c] = "none"
    BY <1>1, <1>2 DEF RegisterConn, CapTypeOK
  <2>2. /\ Len(capLive') = Len(capLive) + 1 /\ Len(capLive) \in Nat
        /\ capLive'[Len(capLive) + 1] = c
        /\ \A i \in 1 .. Len(capLive) : capLive'[i] = capLive[i]
    <3>1. capLive \in Seq(Conns)
      BY <1>1, Zenon DEF CapTypeOK
    <3>2. /\ Len(Append(capLive, c)) = Len(capLive) + 1
          /\ Append(capLive, c)[Len(capLive) + 1] = c
          /\ \A i \in 1 .. Len(capLive) : Append(capLive, c)[i] = capLive[i]
      BY <3>1
    <3>3. Len(capLive) \in Nat
      BY <3>1
    <3>4. QED
      BY <2>1, <3>2, <3>3, Zenon
  <2>3. \A d \in Conns : capConn'[d] # "none" => \E i \in 1 .. Len(capLive') : capLive'[i] = d
    <3>1. SUFFICES ASSUME NEW d \in Conns, capConn'[d] # "none"
                   PROVE  \E i \in 1 .. Len(capLive') : capLive'[i] = d
      OBVIOUS
    <3>2. CASE d = c
      BY <2>2, <3>2
    <3>3. CASE d # c
      <4>1. PICK i \in 1 .. Len(capLive) : capLive[i] = d
        BY <1>1, <2>1, <3>1, <3>3 DEF RevokeInv
      <4>2. QED
        BY <2>2, <4>1
    <3>4. QED
      BY <3>2, <3>3
  <2>4. \A d \in Conns : capCalls[d] # {} => d # c /\ capConn'[d] = "open"
    <3>1. \A d \in Conns : capCalls[d] # {} => capConn[d] = "open"
      BY <1>1, Zenon DEF RevokeInv
    <3>2. QED
      BY <2>1, <3>1
  <2>5. (Visiting' <=> Visiting) /\ \A d, n : After(d, n)' <=> After(d, n)
    BY <2>1, Zenon DEF Visiting, After
  <2>6. QED
    BY <1>1, <2>1, <2>3, <2>4, <2>5, Zenon DEF RevokeInv
<1>3. ASSUME NEW c \in Conns, OpenConn(c) \/ CloseConn(c) PROVE RevokeInv'
  <2>1. /\ UNCHANGED <<capServed, capLive, capRevoked, capTodo>>
        /\ capStep'[Changer] = capStep[Changer] /\ capConn[c] # "none"
        /\ \A d \in Conns \ {c} : capConn'[d] = capConn[d] /\ capCalls'[d] = capCalls[d]
        /\ capCalls'[c] = {} \/ (capCalls'[c] = capCalls[c] /\ capConn'[c] = "open")
    <3>1. /\ capStep \in [Announcers -> {"idle", "live", "next", "snap", "send", "wait"}]
          /\ capConn \in [Conns -> {"none", "registered", "open", "closed"}]
          /\ capCalls \in [Conns -> SUBSET Caps] /\ Changer \notin Conns
      BY <1>1 DEF CapTypeOK
    <3>2. CASE OpenConn(c)
      BY <1>1, <3>1, <3>2 DEF OpenConn
    <3>3. CASE CloseConn(c)
      BY <1>1, <3>1, <3>3 DEF CloseConn
    <3>4. QED
      BY <1>3, <3>2, <3>3
  <2>2. /\ \A d \in Conns : capConn'[d] # "none" => capConn[d] # "none"
        /\ \A d \in Conns : capCalls'[d] # {} => capConn'[d] = "open"
        /\ \A d \in Conns : capCalls'[d] \subseteq capCalls[d] \cup capServed.set
    <3>1. \A d \in Conns : capCalls[d] # {} => capConn[d] = "open"
      BY <1>1, Zenon DEF RevokeInv
    <3>2. QED
      BY <2>1, <3>1
  <2>3. QED
    BY <2>1, <2>2, RevokeKept
<1>4. ASSUME UNCHANGED <<capServed, capLive, capRevoked, capTodo, capConn, capCalls>>,
             capStep'[Changer] = capStep[Changer] \/ (Visiting /\ Visiting')
      PROVE  RevokeInv'
  BY <1>1, <1>4, RevokeKept DEF RevokeInv
<1>5. ASSUME NEW p \in Announcers, capStep[p] \in {"snap", "send", "wait"},
             UNCHANGED <<capServed, capLive, capRevoked, capConn, capCalls>>,
             capTodo' = (IF p = Changer THEN Tail(capTodo) ELSE capTodo),
             capStep' = [capStep EXCEPT ![p] = Announced(p)]
      PROVE  RevokeInv'
  <2>1. CASE p = Changer
    BY <1>1, <1>5, <2>1, RevokeOnward DEF Visiting, Announced, CapTypeOK
  <2>2. CASE p # Changer
    BY <1>1, <1>4, <1>5, <2>2 DEF CapTypeOK
  <2>3. QED
    BY <2>1, <2>2
<1>6. ASSUME NEW c \in Conns, HandleAnnounce(c) PROVE RevokeInv'
  <2>1. Head(capOut[c]).by \in Announcers /\ capStep[Head(capOut[c]).by] = "wait"
    BY <1>6, HeadOfQueue DEF HandleAnnounce
  <2>2. QED
    BY <1>5, <1>6, <2>1 DEF HandleAnnounce
<1>7. ASSUME NEW p \in Announcers, AnnouncerStep(p) PROVE RevokeInv'
  <2>1. /\ capStep[p] \in {"snap", "send", "wait"}
        /\ UNCHANGED <<capServed, capLive, capRevoked, capConn, capCalls>>
        /\ \/ capTodo' = capTodo /\ \E k \in {"send", "wait"} : capStep' = [capStep EXCEPT ![p] = k]
           \/ /\ capTodo' = (IF p = Changer THEN Tail(capTodo) ELSE capTodo)
              /\ capStep' = [capStep EXCEPT ![p] = Announced(p)]
    BY <1>7 DEF AnnouncerStep, TakeSnapshot, SendAnnounce, AnnounceFails
  <2>2. ASSUME NEW k \in {"send", "wait"}, capTodo' = capTodo, capStep' = [capStep EXCEPT ![p] = k]
        PROVE  RevokeInv'
    BY <1>1, <1>4, <2>1, <2>2 DEF Visiting, CapTypeOK
  <2>3. QED
    BY <1>5, <2>1, <2>2
<1>8. ASSUME NEW s \in SUBSET Caps, SwapServed(s) PROVE RevokeInv'
  <2>1. /\ capServed'.set = s /\ capRevoked' = capServed.set \ s
        /\ capStep[Changer] = "idle" /\ capStep'[Changer] = "live"
        /\ UNCHANGED <<capLive, capConn, capCalls>>
    BY <1>1, <1>8 DEF SwapServed, CapTypeOK
  <2>2. \A c \in Conns : capCalls'[c] \subseteq capServed'.set \cup capRevoked'
    BY <1>1, <2>1 DEF RevokeInv
  <2>3. QED
    BY <1>1, <2>1, <2>2 DEF RevokeInv, Visiting
<1>9. ASSUME NEW c \in Busy, NEW x \in Caps, PeerCalls(c, x) \/ CallEnds(c, x) PROVE RevokeInv'
  <2>1. /\ UNCHANGED <<capServed, capLive, capRevoked, capTodo, capConn, capStep>>
        /\ \A d \in Conns \ {c} : capCalls'[d] = capCalls[d]
        /\ \/ capConn[c] = "open" /\ x \in capServed.set /\ capCalls'[c] = capCalls[c] \cup {x}
           \/ x \in capCalls[c] /\ capCalls'[c] = capCalls[c] \ {x}
    BY <1>1, <1>9 DEF PeerCalls, CallEnds, CapTypeOK
  <2>2. /\ \A d \in Conns : capCalls'[d] # {} => capConn'[d] = "open"
        /\ \A d \in Conns : capCalls'[d] \subseteq capCalls[d] \cup capServed.set
    <3>1. \A d \in Conns : capCalls[d] # {} => capConn[d] = "open"
      BY <1>1, Zenon DEF RevokeInv
    <3>2. QED
      BY <2>1, <3>1
  <2>3. QED
    BY <2>1, <2>2, RevokeKept
<1>10. ASSUME NEW c \in Busy,
              StartWait(c) \/ CheckWanted(c) \/ Park(c) \/ WaiterWakes(c) \/ WaitDeadline(c)
       PROVE  RevokeInv'
  BY <1>4, <1>10 DEF StartWait, CheckWanted, Park, WaiterWakes, WaitDeadline
<1>11. CASE UNCHANGED capVars
  BY <1>4, <1>11 DEF capVars
<1>12. QED
  BY <1>2, <1>3, <1>6, <1>7, <1>8, <1>9, <1>10, <1>11, RevokeLoop DEF CapNext

-------------------------------------------------------------------------------
\* When replace returns, no call runs on a capability that is not served, for any
\* number of connections, capabilities and changes: whatever connections came up,
\* closed or announced for themselves while the change was propagated.
THEOREM RevokedAreGone == CapSpec => []RevokedCallsAreGone
<1>1. CapInv /\ [CapNext]_capVars => CapInv'
  BY CapTypeStep, StepsStep, MailStep, RevokeStep DEF CapInv
<1>2. CapInv => RevokedCallsAreGone
  BY DEF CapInv, RevokeInv, RevokedCallsAreGone
<1>3. QED
  BY CapInvInit, <1>1, <1>2, PTL DEF CapSpec
===============================================================================
