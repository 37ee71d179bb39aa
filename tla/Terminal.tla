------------------------------- MODULE Terminal -------------------------------
(***************************************************************************)
(* Interactive sessions: PtyTerminal of zyris-capkit/src/terminal/mod.rs   *)
(* with terminal/session.rs and terminal/buffer.rs.                        *)
(*                                                                         *)
(* A byte of output is its position in the session's output; some bytes    *)
(* start a character or an escape sequence that the next byte completes.   *)
(* The state under the lock of the session map changes in one step.  The   *)
(* settle window of read is time only: it may end whenever the session is  *)
(* still there.  screen and resize leave this state alone but for touch.   *)
(***************************************************************************)
EXTENDS Integers, Sequences, FiniteSets

CONSTANTS Ptys,         \* sessions, in the order of next_id
          Talkative,    \* the ones whose shell does anything, and that are read
          Openers,      \* tasks in open or open_stream
          Readers,      \* tasks in read
          MaxSessions,  \* MAX_SESSIONS
          RingMax,      \* RING_MAX
          ReadMax,      \* PTY_READ_MAX, and STREAM_CHUNK_MAX
          MaxBytes      \* bound on the output of a shell

Nowhere == 0

VARIABLES
    tmHeld,     \* the PtyTerminal exists
    tmOpener,   \* [Openers -> "idle" or "counted"], between the check and the insertion
    tmOpen,     \* keys of the session map
    tmUsed,     \* sessions ever opened
    tmShell,    \* [Ptys -> "none", "alive", "dead"]
    tmPipe,     \* [Ptys -> Nat], bytes the shell has written and nobody has read
    tmStarts,   \* [Ptys -> SUBSET Nat], the ones that need a next byte
    tmThread,   \* [Ptys -> "none", "reading", "done"], the reader thread
    tmRing, tmTotal,        \* OutputBuffer
    tmCursor, tmExited,     \* read_cursor, exited
    tmIdle,     \* [Ptys -> BOOLEAN], last_touch is idle_timeout ago
    tmReader,   \* [Readers -> the session whose settle window is open, or Nowhere]
    tmStream,   \* [Ptys -> "none", "on", "ended", "cut"], the subscriber
    tmSubCursor,
    tmText,     \* history: [Ptys -> Seq(Nat)], the bytes read has returned
    tmLost,     \* history: [Ptys -> Nat], the sum of dropped
    tmSplit     \* history: [Ptys -> SUBSET Nat], unfinished last bytes of a reply

mapVars == <<tmOpen, tmRing, tmTotal, tmCursor, tmExited, tmIdle>>
shellVars == <<tmShell, tmPipe, tmStarts>>
historyVars == <<tmText, tmLost, tmSplit>>
tmVars == <<tmHeld, tmOpener, tmUsed, shellVars, tmThread, mapVars, tmReader, tmStream,
            tmSubCursor, historyVars>>

TmTypeOK ==
    /\ tmOpen \subseteq tmUsed /\ tmUsed \subseteq Ptys
    /\ \A p \in Ptys : Len(tmRing[p]) <= RingMax /\ tmTotal[p] + tmPipe[p] <= MaxBytes
    /\ tmReader \in [Readers -> Ptys \cup {Nowhere}]

TmInit ==
    /\ tmHeld = TRUE /\ tmOpener = [o \in Openers |-> "idle"]
    /\ tmOpen = {} /\ tmUsed = {}
    /\ tmShell = [p \in Ptys |-> "none"] /\ tmPipe = [p \in Ptys |-> 0]
    /\ tmStarts = [p \in Ptys |-> {}]
    /\ tmThread = [p \in Ptys |-> "none"]
    /\ tmRing = [p \in Ptys |-> <<>>] /\ tmTotal = [p \in Ptys |-> 0]
    /\ tmCursor = [p \in Ptys |-> 0] /\ tmExited = [p \in Ptys |-> FALSE]
    /\ tmIdle = [p \in Ptys |-> FALSE]
    /\ tmReader = [r \in Readers |-> Nowhere]
    /\ tmStream = [p \in Ptys |-> "none"] /\ tmSubCursor = [p \in Ptys |-> 0]
    /\ tmText = [p \in Ptys |-> <<>>] /\ tmLost = [p \in Ptys |-> 0]
    /\ tmSplit = [p \in Ptys |-> {}]

-------------------------------------------------------------------------------
(* The ring *)

Last(ring, n) == IF Len(ring) <= n THEN ring ELSE SubSeq(ring, Len(ring) - n + 1, Len(ring))

\* OutputBuffer::push
Pushed(ring, bytes) == Last(ring \o Last(bytes, RingMax), RingMax)

RingStart(p) == tmTotal[p] - Len(tmRing[p])
Behind(p, cursor) == IF cursor < RingStart(p) THEN RingStart(p) - cursor ELSE 0

\* Slip: a cursor the ring has overtaken is left where it was.
ReadAtOvertaken(p, cursor) ==
    LET from == cursor + Behind(p, cursor) - RingStart(p)
        bytes == SubSeq(tmRing[p], from + 1,
                        IF from + ReadMax < Len(tmRing[p]) THEN from + ReadMax ELSE Len(tmRing[p]))
    IN  [bytes |-> bytes, dropped |-> Behind(p, cursor), cursor |-> cursor + Len(bytes)]

\* OutputBuffer::read_at
ReadAt(p, cursor) ==
    LET from == cursor + Behind(p, cursor) - RingStart(p)
        bytes == SubSeq(tmRing[p], from + 1,
                        IF from + ReadMax < Len(tmRing[p]) THEN from + ReadMax ELSE Len(tmRing[p]))
    IN  [bytes |-> bytes, dropped |-> Behind(p, cursor),
         cursor |-> cursor + Behind(p, cursor) + Len(bytes)]

-------------------------------------------------------------------------------
(* open and open_stream: new_session counts under the lock, lets go of it and
   inserts.  The first call starts the sweeper. *)

HasRoom == Cardinality(tmOpen) < MaxSessions

CountSessions(o) ==
    /\ tmHeld /\ tmOpener[o] = "idle" /\ HasRoom
    /\ tmOpener' = [tmOpener EXCEPT ![o] = "counted"]
    /\ UNCHANGED <<tmHeld, tmUsed, shellVars, tmThread, mapVars, tmReader, tmStream,
                   tmSubCursor, historyVars>>

\* spawn, and subscribe for open_stream.
Spawn(o, p, streamed) ==
    /\ tmOpener[o] = "counted" /\ p \notin tmUsed
    /\ streamed => p \in Talkative
    /\ \A q \in Ptys : q < p => q \in tmUsed
    /\ tmOpener' = [tmOpener EXCEPT ![o] = "idle"]
    /\ tmUsed' = tmUsed \cup {p} /\ tmOpen' = tmOpen \cup {p}
    /\ tmShell' = [tmShell EXCEPT ![p] = "alive"]
    /\ tmThread' = [tmThread EXCEPT ![p] = "reading"]
    /\ tmStream' = [tmStream EXCEPT ![p] = IF streamed THEN "on" ELSE "none"]
    /\ UNCHANGED <<tmHeld, tmPipe, tmStarts, tmRing, tmTotal, tmCursor, tmExited, tmIdle,
                   tmReader, tmSubCursor, historyVars>>

\* No pty, no shell, or no session left to the model.
SpawnFails(o) ==
    /\ tmOpener[o] = "counted"
    /\ tmOpener' = [tmOpener EXCEPT ![o] = "idle"]
    /\ UNCHANGED <<tmHeld, tmUsed, shellVars, tmThread, mapVars, tmReader, tmStream,
                   tmSubCursor, historyVars>>

-------------------------------------------------------------------------------
(* The shell, external, and the thread that copies its output *)

Made(p) == tmTotal[p] + tmPipe[p]

ShellWrites(p) ==
    /\ p \in Talkative /\ tmShell[p] = "alive" /\ tmThread[p] = "reading" /\ Made(p) < MaxBytes
    /\ tmPipe' = [tmPipe EXCEPT ![p] = @ + 1]
    /\ \/ /\ p \in tmOpen /\ Made(p) \notin tmStarts[p]
          /\ tmStarts' = [tmStarts EXCEPT ![p] = @ \cup {Made(p) + 1}]
       \/ UNCHANGED tmStarts
    /\ UNCHANGED <<tmHeld, tmOpener, tmUsed, tmShell, tmThread, mapVars, tmReader, tmStream,
                   tmSubCursor, historyVars>>

ShellExits(p) ==
    /\ p \in Talkative /\ tmShell[p] = "alive"
    /\ tmShell' = [tmShell EXCEPT ![p] = "dead"]
    /\ UNCHANGED <<tmHeld, tmOpener, tmUsed, tmPipe, tmStarts, tmThread, mapVars, tmReader,
                   tmStream, tmSubCursor, historyVars>>

Unread(p) == [i \in 1 .. tmPipe[p] |-> tmTotal[p] + i]

\* A read of the pty, pushed if the session is still there; else the thread stops.
ThreadReads(p) ==
    /\ tmThread[p] = "reading" /\ tmPipe[p] > 0
    /\ tmPipe' = [tmPipe EXCEPT ![p] = 0]
    /\ \/ /\ p \in tmOpen
          /\ tmRing' = [tmRing EXCEPT ![p] = Pushed(@, Unread(p))]
          /\ tmTotal' = [tmTotal EXCEPT ![p] = Made(p)]
          /\ UNCHANGED tmThread
       \/ /\ p \notin tmOpen
          /\ tmThread' = [tmThread EXCEPT ![p] = "done"]
          /\ UNCHANGED <<tmRing, tmTotal>>
    /\ UNCHANGED <<tmHeld, tmOpener, tmUsed, tmShell, tmStarts, tmOpen, tmCursor, tmExited, tmIdle,
                   tmReader, tmStream, tmSubCursor, historyVars>>

\* End of file, child.wait, and exited if the session is still there.
ThreadEnds(p) ==
    /\ tmThread[p] = "reading" /\ tmShell[p] = "dead" /\ tmPipe[p] = 0
    /\ tmThread' = [tmThread EXCEPT ![p] = "done"]
    /\ tmExited' = IF p \in tmOpen THEN [tmExited EXCEPT ![p] = TRUE] ELSE tmExited
    /\ UNCHANGED <<tmHeld, tmOpener, tmUsed, shellVars, tmOpen, tmRing, tmTotal, tmCursor,
                   tmIdle, tmReader, tmStream, tmSubCursor, historyVars>>

-------------------------------------------------------------------------------
(* read: settle opens its window under the lock, and later the reply is taken *)

StartRead(r, p) ==
    /\ tmHeld /\ tmReader[r] = Nowhere /\ p \in tmOpen \cap Talkative
    /\ tmReader' = [tmReader EXCEPT ![r] = p]
    /\ tmIdle' = [tmIdle EXCEPT ![p] = FALSE]
    /\ UNCHANGED <<tmHeld, tmOpener, tmUsed, shellVars, tmThread, tmOpen, tmRing, tmTotal,
                   tmCursor, tmExited, tmStream, tmSubCursor, historyVars>>

\* pty_gone, from settle or after it.
ReadGone(r) ==
    /\ tmReader[r] # Nowhere /\ tmReader[r] \notin tmOpen
    /\ tmReader' = [tmReader EXCEPT ![r] = Nowhere]
    /\ UNCHANGED <<tmHeld, tmOpener, tmUsed, shellVars, tmThread, mapVars, tmStream,
                   tmSubCursor, historyVars>>

\* trim_incomplete_tail and trim_incomplete_escape: what of bytes makes sense now.
Keep(p, bytes) ==
    IF bytes # <<>> /\ bytes[Len(bytes)] \in tmStarts[p] THEN Len(bytes) - 1 ELSE Len(bytes)

AtEnd(p, cursor) == tmExited[p] /\ cursor = tmTotal[p]

TakeReply(r) ==
    LET p == tmReader[r]
        got == ReadAt(p, tmCursor[p])
        keep == IF AtEnd(p, got.cursor) THEN Len(got.bytes) ELSE Keep(p, got.bytes)
    IN  /\ p # Nowhere /\ p \in tmOpen
        /\ tmCursor' = [tmCursor EXCEPT ![p] = got.cursor - (Len(got.bytes) - keep)]
        /\ tmReader' = [tmReader EXCEPT ![r] = Nowhere]
        /\ tmText' = [tmText EXCEPT ![p] = @ \o SubSeq(got.bytes, 1, keep)]
        /\ tmLost' = [tmLost EXCEPT ![p] = @ + got.dropped]
        /\ tmSplit' = [tmSplit EXCEPT ![p] =
                          IF keep > 0 /\ got.bytes[keep] \in tmStarts[p]
                          THEN @ \cup {got.bytes[keep]} ELSE @]
        /\ UNCHANGED <<tmHeld, tmOpener, tmUsed, shellVars, tmThread, tmOpen, tmRing, tmTotal,
                       tmExited, tmIdle, tmStream, tmSubCursor>>

-------------------------------------------------------------------------------
(* subscribe *)

StreamStep(p) ==
    LET got == ReadAt(p, tmSubCursor[p])
    IN  /\ tmStream[p] = "on"
        /\ \/ /\ p \notin tmOpen
              /\ tmStream' = [tmStream EXCEPT ![p] = "cut"]
              /\ tmSubCursor' = [tmSubCursor EXCEPT ![p] = 0]
           \/ /\ p \in tmOpen /\ got.bytes # <<>>
              /\ tmSubCursor' = [tmSubCursor EXCEPT ![p] = got.cursor]
              /\ UNCHANGED tmStream
           \/ /\ p \in tmOpen /\ got.bytes = <<>> /\ tmExited[p]
              /\ tmStream' = [tmStream EXCEPT ![p] = "ended"]
              /\ UNCHANGED tmSubCursor
        /\ UNCHANGED <<tmHeld, tmOpener, tmUsed, shellVars, tmThread, mapVars, tmReader,
                       historyVars>>

\* The caller lets go of the stream.
DropStream(p) ==
    /\ tmStream[p] = "on"
    /\ tmStream' = [tmStream EXCEPT ![p] = "none"]
    /\ tmSubCursor' = [tmSubCursor EXCEPT ![p] = 0]
    /\ UNCHANGED <<tmHeld, tmOpener, tmUsed, shellVars, tmThread, mapVars, tmReader,
                   historyVars>>

-------------------------------------------------------------------------------
(* The end of a session *)

\* Sessions drop out of the map, with their buffers.
Remove(gone) ==
    LET Fresh(f, zero) == [p \in Ptys |-> IF p \in gone THEN zero ELSE f[p]]
    IN  /\ tmOpen' = tmOpen \ gone
        /\ tmRing' = Fresh(tmRing, <<>>) /\ tmTotal' = Fresh(tmTotal, 0)
        /\ tmCursor' = Fresh(tmCursor, 0) /\ tmExited' = Fresh(tmExited, FALSE)
        /\ tmIdle' = Fresh(tmIdle, FALSE) /\ tmStarts' = Fresh(tmStarts, {})
        /\ tmText' = Fresh(tmText, <<>>) /\ tmLost' = Fresh(tmLost, 0)
        /\ tmSplit' = Fresh(tmSplit, {})
        /\ UNCHANGED <<tmHeld, tmOpener, tmUsed, tmShell, tmPipe, tmThread, tmReader, tmStream,
                       tmSubCursor>>

CloseSession(p) == tmHeld /\ p \in tmOpen /\ Remove({p})

GrowIdle(p) ==
    /\ p \in tmOpen /\ ~tmIdle[p]
    /\ tmIdle' = [tmIdle EXCEPT ![p] = TRUE]
    /\ UNCHANGED <<tmHeld, tmOpener, tmUsed, shellVars, tmThread, tmOpen, tmRing, tmTotal,
                   tmCursor, tmExited, tmReader, tmStream, tmSubCursor, historyVars>>

\* Slip: the sweeper stops with the terminal that started it.
SweepWhileHeld ==
    /\ tmHeld /\ \E p \in tmOpen : tmIdle[p]
    /\ Remove({p \in tmOpen : tmIdle[p]})

\* The strong references to the map: the terminal, a reader thread, a subscriber.
\* The sweeper's own is weak.
MapLives ==
    \/ tmHeld
    \/ \E p \in Ptys : tmThread[p] = "reading" \/ tmStream[p] = "on"

SweepIdle ==
    /\ MapLives /\ \E p \in tmOpen : tmIdle[p]
    /\ Remove({p \in tmOpen : tmIdle[p]})

\* A declaration replaces the terminal, once no call is in it.
DropTerminal ==
    /\ tmHeld /\ \A o \in Openers : tmOpener[o] = "idle"
    /\ \A r \in Readers : tmReader[r] = Nowhere
    /\ tmHeld' = FALSE
    /\ UNCHANGED <<tmOpener, tmUsed, shellVars, tmThread, mapVars, tmReader, tmStream,
                   tmSubCursor, historyVars>>

\* The last strong reference is gone, and every session with it.
MapDropped == ~MapLives /\ tmOpen # {} /\ Remove(tmOpen)

TmNext ==
    \/ \E o \in Openers : CountSessions(o) \/ SpawnFails(o)
    \/ \E o \in Openers, p \in Ptys, streamed \in BOOLEAN : Spawn(o, p, streamed)
    \/ \E p \in Ptys :
          \/ ShellWrites(p) \/ ShellExits(p) \/ ThreadReads(p) \/ ThreadEnds(p)
          \/ StreamStep(p) \/ DropStream(p) \/ CloseSession(p) \/ GrowIdle(p)
    \/ \E r \in Readers, p \in Ptys : StartRead(r, p)
    \/ \E r \in Readers : ReadGone(r) \/ TakeReply(r)
    \/ SweepIdle \/ DropTerminal \/ MapDropped

\* The sweeper wakes again and again, and a session nobody can touch grows idle.
TmFairness ==
    /\ WF_tmVars(SweepIdle) /\ WF_tmVars(MapDropped)
    /\ \A p \in Ptys : WF_tmVars(~tmHeld /\ GrowIdle(p))

-------------------------------------------------------------------------------
\* The replies of read are the shell's output in order, each byte once, and what is
\* missing from them was reported as dropped (read_at, read_cursor).  A character
\* cut by the end of a reply is the very last thing the shell wrote.  A subscriber's
\* stream that ends while its session is still there has delivered the shell's last
\* byte (the thread notes the exit after its last push).
OutputAccounts ==
    /\ TmTypeOK
    /\ \A p \in Ptys :
        /\ \A i, j \in 1 .. Len(tmText[p]) : i < j => tmText[p][i] < tmText[p][j]
        /\ \A i \in 1 .. Len(tmText[p]) : tmText[p][i] <= tmCursor[p]
        /\ Len(tmText[p]) + tmLost[p] = tmCursor[p]
        /\ tmSplit[p] \subseteq {Made(p)}
        /\ p \in tmOpen /\ tmStream[p] = "ended" => tmSubCursor[p] = Made(p)

\* The sessions of a terminal that was dropped all go, though the reader threads
\* keep the map alive (ensure_sweeper).
DroppedTerminalEmpties == ~tmHeld ~> tmOpen = {}
===============================================================================
