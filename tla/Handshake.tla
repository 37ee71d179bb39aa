------------------------------- MODULE Handshake -------------------------------
(***************************************************************************)
(* How two ends open a connection, establish() of                          *)
(* zyris-core/src/connection.rs in both roles, and how they notice that    *)
(* the other has gone silent: spawn_heartbeat and spawn_watchdog.          *)
(*                                                                         *)
(* Time passes in ticks, Second of them to a second.  A frame takes at     *)
(* most MaxDelay; a timer fires in the tick it is due in.  The socket is   *)
(* external: it may be closed, or fall silent (half-open), at any moment.  *)
(* No other traffic than heartbeats is modelled: it could only make an end *)
(* look more alive.                                                        *)
(***************************************************************************)
EXTENDS Integers, Sequences, TLC

CONSTANTS AllFeatures,  \* what this code offers: cancel, attachments, heartbeat
          Second,       \* ticks in a second
          DogTick,      \* HEARTBEAT_WATCHDOG_TICK, in ticks
          MaxDelay,     \* bound on the time a frame takes, in ticks
          Heartbeats    \* the heartbeat settings an acceptor may answer, in seconds

Ends == {"dialer", "acceptor"}
Peer(e) == IF e = "dialer" THEN "acceptor" ELSE "dialer"
Nothing == [serialization |-> "none", features |-> {}, interval |-> 0, timeout |-> 0]

VARIABLES
    hsAt,       \* "idle", "reading", "up", "down" (was up) or "failed"
    hsMajor,    \* the protocol version each end was built with
    hsWire,     \* hsWire[e]: frames on their way to e, with their age
    hsSettled,  \* what each end has settled on
    hsError,    \* why establish failed or the connection closed
    hsSocket,   \* "open", "silent" or "closed"
    hsSilent,   \* history: the socket has been silent
    hsBeat,     \* time until e's next heartbeat
    hsIdle,     \* last_frame.elapsed()
    hsDog       \* time until e's watchdog looks again

hsVars == <<hsAt, hsMajor, hsWire, hsSettled, hsError, hsSocket, hsSilent, hsBeat, hsIdle, hsDog>>
hsTimers == <<hsBeat, hsIdle, hsDog>>

Larger(a, b) == IF a > b THEN a ELSE b

HsInit ==
    /\ hsAt = [e \in Ends |-> "idle"]
    /\ hsMajor \in [Ends -> {1, 2}]
    /\ hsWire = [e \in Ends |-> <<>>]
    /\ hsSettled = [e \in Ends |-> Nothing]
    /\ hsError = [e \in Ends |-> "none"]
    /\ hsSocket = "open" /\ hsSilent = FALSE
    /\ hsBeat = [e \in Ends |-> 0] /\ hsIdle = [e \in Ends |-> 0] /\ hsDog = [e \in Ends |-> 0]

-------------------------------------------------------------------------------
\* m is sent to e, and lost on a silent socket.
SendTo(e, m) ==
    hsWire' = IF hsSocket = "open" THEN [hsWire EXCEPT ![e] = Append(@, m @@ [age |-> 0])]
                                   ELSE hsWire

\* Slip: a feature the other side advertised is used whatever this side advertised.
AgreedByPeer(local, peer) == peer

Agreed(local, peer) == local \cap peer

\* Slip: the timeout that was configured is used as it is.
TimeoutAsConfigured(hb) == hb.timeout

Timeout(hb) == Larger(hb.timeout, hb.interval + 1)

\* The end of establish: shared state is built and the tasks are spawned.
Up(e, serialization, local, peer, hb) ==
    /\ hsAt' = [hsAt EXCEPT ![e] = "up"]
    /\ hsSettled' = [hsSettled EXCEPT ![e] =
           [serialization |-> serialization, features |-> Agreed(local, peer),
            interval |-> hb.interval, timeout |-> Timeout(hb)]]
    /\ hsBeat' = [hsBeat EXCEPT ![e] = hb.interval * Second]
    /\ hsIdle' = [hsIdle EXCEPT ![e] = 0]
    /\ hsDog' = [hsDog EXCEPT ![e] = DogTick]
    /\ UNCHANGED hsError

Fails(e, error) ==
    /\ hsAt' = [hsAt EXCEPT ![e] = IF @ = "up" THEN "down" ELSE "failed"]
    /\ hsError' = [hsError EXCEPT ![e] = error]
    /\ hsBeat' = [hsBeat EXCEPT ![e] = 0]
    /\ hsIdle' = [hsIdle EXCEPT ![e] = 0]
    /\ hsDog' = [hsDog EXCEPT ![e] = 0]
    /\ UNCHANGED hsSettled

\* Role::Dial up to send_handshake; the acceptor reads from the start.
DialHello ==
    /\ hsAt["dialer"] = "idle" /\ hsSocket # "closed"
    /\ hsAt' = [e \in Ends |-> "reading"]
    /\ SendTo("acceptor", [kind |-> "hello", major |-> hsMajor["dialer"],
                           serialization |-> <<"msgpack", "json">>, features |-> AllFeatures])
    /\ UNCHANGED <<hsMajor, hsSettled, hsError, hsSocket, hsSilent, hsTimers>>

Arrives(e, kind) == hsWire[e] # <<>> /\ Head(hsWire[e]).kind = kind

\* Role::Accept: a refusal is sent as an error frame, then the socket is closed.
\* (The dialer still reads what was sent before the close.)
Refuse(error) ==
    /\ hsWire' = [hsWire EXCEPT !["acceptor"] = Tail(@), !["dialer"] =
                      Append(@, [kind |-> "err", error |-> error, age |-> 0])]
    /\ hsSocket' = "closed"
    /\ Fails("acceptor", error)

AcceptHello ==
    /\ hsAt["acceptor"] = "reading" /\ Arrives("acceptor", "hello")
    /\ LET hello == Head(hsWire["acceptor"])
       IN \/ hello.major # hsMajor["acceptor"] /\ Refuse("unsupported_version")
          \/ hello.major = hsMajor["acceptor"] /\ Refuse("refused")
          \/ /\ hello.major = hsMajor["acceptor"]
             /\ \E features \in SUBSET AllFeatures, hb \in Heartbeats :
                   /\ Up("acceptor", Head(hello.serialization), features, hello.features, hb)
                   /\ hsWire' = [hsWire EXCEPT !["acceptor"] = Tail(@), !["dialer"] =
                          IF hsSocket = "silent" THEN @
                          ELSE Append(@, [kind |-> "ack", major |-> hsMajor["acceptor"],
                                   serialization |-> Head(hello.serialization),
                                   features |-> features, hb |-> hb, age |-> 0])]
             /\ UNCHANGED hsSocket
    /\ UNCHANGED <<hsMajor, hsSilent>>

\* Role::Dial from read_handshake on.
DialAck ==
    /\ hsAt["dialer"] = "reading" /\ hsWire["dialer"] # <<>>
    /\ LET m == Head(hsWire["dialer"])
       IN CASE m.kind = "err" -> Fails("dialer", m.error)
            [] m.kind = "ack" /\ m.major # hsMajor["dialer"] ->
                   Fails("dialer", "unsupported_version")
            [] m.kind = "ack" /\ m.major = hsMajor["dialer"] ->
                   Up("dialer", m.serialization, AllFeatures, m.features, m.hb)
            [] OTHER -> Fails("dialer", "parse_error")
    /\ hsWire' = [hsWire EXCEPT !["dialer"] = Tail(@)]
    /\ UNCHANGED <<hsMajor, hsSocket, hsSilent>>

\* run_reader takes a heartbeat: last_frame is now.
ReadBeat(e) ==
    /\ hsAt[e] = "up" /\ Arrives(e, "beat")
    /\ hsWire' = [hsWire EXCEPT ![e] = Tail(@)]
    /\ hsIdle' = [hsIdle EXCEPT ![e] = 0]
    /\ UNCHANGED <<hsAt, hsMajor, hsSettled, hsError, hsSocket, hsSilent, hsBeat, hsDog>>

\* read_handshake or run_reader finds the socket closed.
ReadClosed(e) ==
    /\ hsAt[e] \in {"reading", "up"} /\ hsSocket = "closed" /\ hsWire[e] = <<>>
    /\ Fails(e, "connection_lost")
    /\ UNCHANGED <<hsMajor, hsWire, hsSocket, hsSilent>>

-------------------------------------------------------------------------------
Beats(e) == hsAt[e] = "up" /\ "heartbeat" \in hsSettled[e].features

\* spawn_heartbeat: one note each interval.
SendBeat(e) ==
    /\ Beats(e) /\ hsBeat[e] = 0
    /\ SendTo(Peer(e), [kind |-> "beat"])
    /\ hsBeat' = [hsBeat EXCEPT ![e] = hsSettled[e].interval * Second]
    /\ UNCHANGED <<hsAt, hsMajor, hsSettled, hsError, hsSocket, hsSilent, hsIdle, hsDog>>

\* spawn_watchdog: sleeps a tick, looks, sleeps again or shuts down.
Watch(e) ==
    /\ Beats(e) /\ hsDog[e] = 0
    /\ IF hsIdle[e] > hsSettled[e].timeout * Second
       THEN Fails(e, "heartbeat") /\ hsSocket' = "closed"
       ELSE /\ hsDog' = [hsDog EXCEPT ![e] = DogTick]
            /\ UNCHANGED <<hsAt, hsSettled, hsError, hsSocket, hsBeat, hsIdle>>
    /\ UNCHANGED <<hsMajor, hsWire, hsSilent>>

\* A tick passes, when nothing is due in this one.
Tick ==
    /\ \E e \in Ends : Beats(e)
    /\ \A e \in Ends : Beats(e) => hsBeat[e] > 0 /\ hsDog[e] > 0 /\ hsSocket # "closed"
    /\ \A e \in Ends, i \in 1 .. 4 : i \in DOMAIN hsWire[e] => hsWire[e][i].age < MaxDelay
    /\ hsWire' = [e \in Ends |-> [i \in DOMAIN hsWire[e] |-> [hsWire[e][i] EXCEPT !.age = @ + 1]]]
    /\ hsBeat' = [e \in Ends |-> IF Beats(e) THEN hsBeat[e] - 1 ELSE hsBeat[e]]
    /\ hsIdle' = [e \in Ends |-> IF Beats(e) THEN hsIdle[e] + 1 ELSE hsIdle[e]]
    /\ hsDog' = [e \in Ends |-> IF Beats(e) THEN hsDog[e] - 1 ELSE hsDog[e]]
    /\ UNCHANGED <<hsAt, hsMajor, hsSettled, hsError, hsSocket, hsSilent>>

\* External: the socket falls silent and what is on it is lost, or it is closed.
FallSilent ==
    /\ hsSocket = "open"
    /\ hsSocket' = "silent" /\ hsSilent' = TRUE
    /\ hsWire' = [e \in Ends |-> <<>>]
    /\ UNCHANGED <<hsAt, hsMajor, hsSettled, hsError, hsTimers>>

SocketCloses ==
    /\ hsSocket # "closed" /\ hsAt["acceptor"] # "idle"
    /\ hsSocket' = "closed"
    /\ hsWire' = [e \in Ends |-> <<>>]
    /\ UNCHANGED <<hsAt, hsMajor, hsSettled, hsError, hsSilent, hsTimers>>

HsNext ==
    \/ DialHello \/ AcceptHello \/ DialAck \/ Tick \/ FallSilent \/ SocketCloses
    \/ \E e \in Ends : ReadBeat(e) \/ ReadClosed(e) \/ SendBeat(e) \/ Watch(e)

-------------------------------------------------------------------------------
HsTypeOK ==
    /\ hsAt \in [Ends -> {"idle", "reading", "up", "down", "failed"}]
    /\ hsError \in [Ends -> {"none", "unsupported_version", "refused", "connection_lost",
                             "heartbeat"}]
    /\ hsSocket \in {"open", "silent", "closed"}
    /\ \A e \in Ends : Len(hsWire[e]) <= 2

\* The state has its type, and two ends that are both up use the same encoding,
\* features and timeout, so neither sends what the other would not understand
\* (Features::agreed), and they were built for the same version of the protocol.
HandshakeAgrees ==
    /\ HsTypeOK
    /\ (\A e \in Ends : hsSettled[e] # Nothing) =>
        hsSettled["dialer"] = hsSettled["acceptor"] /\ hsMajor["dialer"] = hsMajor["acceptor"]

\* A socket that delivers in time is never given up for silent, however the
\* acceptor configured the two periods and though each end counts from its own
\* start (establish takes a timeout of at least the interval and a second); and an
\* end whose peer has gone silent finds out within the timeout and one turn of the
\* watchdog (spawn_watchdog).
SilenceIsTold ==
    /\ \A e \in Ends : hsError[e] = "heartbeat" => hsSilent
    /\ \A e \in Ends : Beats(e) => hsIdle[e] <= hsSettled[e].timeout * Second + DogTick
===============================================================================
