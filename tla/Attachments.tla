------------------------------ MODULE Attachments ------------------------------
(***************************************************************************)
(* A blob too large for its response travels on a stream of its own:       *)
(* reply_res and send_attachment on the callee's side, on the caller's     *)
(* register_attachments with its sweeper, attachment, collect_attachment   *)
(* and the reader of zyris-core/src/connection.rs.                         *)
(*                                                                         *)
(* One response with one blob of Chunks chunks, each of one unit of        *)
(* credit.  The caller may have given up on the call, may never claim the  *)
(* blob, may claim it late, refuse its size or stop reading.  A relay may  *)
(* lose up to MaxLost chunks.  The connection closes by its reader; a      *)
(* shutdown from another thread is in module Shutdown.                     *)
(***************************************************************************)
EXTENDS Integers, Sequences

CONSTANTS Chunks,    \* length of the blob
          Credit,    \* limits.initial_stream_credit, in chunks
          MaxLost    \* bound on the chunks a relay loses, less than Credit

\* A frame, or an event on the channel of a stream.
Is(kind) == [kind |-> kind, seq |-> 0]
Data(n) == [kind |-> "data", seq |-> n]
FirstIs(q, kind) == q # <<>> /\ Head(q).kind = kind

VARIABLES
    atSender,    \* the task in send_attachment: "none", "sending", "ended"
    atGate,      \* credit in the gate of the stream, or -1 without a gate
    atSent,      \* chunks sent
    atWire,      \* frames to the caller
    atBack,      \* frames to the callee
    atLost,      \* chunks lost so far
    atCall,      \* the caller's call: "waiting", "answered" or "abandoned"
    atEntry,     \* next_seq of the entry in incoming, or -1 without an entry
    atQueue,     \* the entry's channel
    atTable,     \* the attachments map: "none", "waiting", "claimed" or "swept"
    atRead,      \* chunks the collector has read, in order
    atResult,    \* what collect_attachment returned
    atOpen       \* the connection is up

atVars == <<atSender, atGate, atSent, atWire, atBack, atLost, atCall, atEntry, atQueue,
            atTable, atRead, atResult, atOpen>>
calleeVars == <<atSender, atGate, atSent>>
callerVars == <<atCall, atEntry, atQueue, atTable, atRead, atResult>>

AtTypeOK ==
    /\ atSender \in {"none", "sending", "ended"}
    /\ atGate \in -1 .. Credit
    /\ atSent \in 0 .. Chunks
    /\ atEntry \in -1 .. Chunks
    /\ atCall \in {"waiting", "answered", "abandoned"}
    /\ atTable \in {"none", "waiting", "claimed", "swept"}
    /\ Len(atRead) <= Chunks
    /\ atOpen \in BOOLEAN

AtInit ==
    /\ atSender = "none" /\ atGate = -1 /\ atSent = 0
    /\ atWire = <<>> /\ atBack = <<>> /\ atLost = 0
    /\ atCall = "waiting" /\ atEntry = -1 /\ atQueue = <<>>
    /\ atTable = "none" /\ atRead = <<>> /\ atResult = "none"
    /\ atOpen = TRUE

-------------------------------------------------------------------------------
(* The callee *)

\* reply_res: the gate is there before the response, the task after it.
ReplyWithBlob ==
    /\ atOpen /\ atSender = "none"
    /\ atGate' = Credit
    /\ atWire' = Append(atWire, Is("res"))
    /\ atSender' = "sending"
    /\ UNCHANGED <<atSent, atBack, atLost, callerVars, atOpen>>

\* send_attachment: a chunk for a unit of credit, or the end.
SendChunkOrEnd ==
    /\ atSender = "sending"
    /\ \/ /\ atSent < Chunks /\ atGate > 0 /\ atOpen
          /\ atGate' = atGate - 1
          /\ atSent' = atSent + 1
          /\ atWire' = Append(atWire, Data(atSent))
          /\ UNCHANGED atSender
       \/ /\ atSent = Chunks
          /\ atWire' = IF atOpen THEN Append(atWire, Is("end")) ELSE atWire
          /\ atSender' = "ended" /\ atGate' = -1
          /\ UNCHANGED atSent
       \/ /\ atSent < Chunks /\ atGate = -1   \* acquire finds the gate canceled
          /\ atSender' = "ended"
          /\ UNCHANGED <<atGate, atSent, atWire>>
    /\ UNCHANGED <<atBack, atLost, callerVars, atOpen>>

\* The callee's reader: s_credit adds to the gate, s_cancel removes and cancels it.
HandleBack ==
    /\ atOpen /\ atBack # <<>>
    /\ atGate' = IF Head(atBack) = "cancel" \/ atGate = -1 THEN -1 ELSE atGate + 1
    /\ atBack' = Tail(atBack)
    /\ UNCHANGED <<atSender, atSent, atWire, atLost, callerVars, atOpen>>

\* External: a relay drops a chunk.
LoseAttachmentChunk ==
    /\ atOpen /\ atLost < MaxLost
    /\ FirstIs(atWire, "data")
    /\ atWire' = Tail(atWire)
    /\ atLost' = atLost + 1
    /\ UNCHANGED <<calleeVars, atBack, callerVars, atOpen>>

-------------------------------------------------------------------------------
(* The caller's reader and the sweeper *)

\* The application drops the future of the call.
AbandonBlobCall ==
    /\ atCall = "waiting"
    /\ atCall' = "abandoned"
    /\ UNCHANGED <<calleeVars, atWire, atBack, atLost, atEntry, atQueue, atTable, atRead,
                   atResult, atOpen>>


\* Res: register_attachments, then the call is answered if it still waits.
HandleRes ==
    /\ atOpen /\ FirstIs(atWire, "res")
    /\ atWire' = Tail(atWire)
    /\ atEntry' = 0 /\ atTable' = "waiting"
    /\ atCall' = IF atCall = "waiting" THEN "answered" ELSE atCall
    /\ UNCHANGED <<calleeVars, atBack, atLost, atQueue, atRead, atResult, atOpen>>

\* Stream data: dropped without an entry, the next in order queued, a gap fails
\* the stream and cancels it.
HandleChunk ==
    /\ atOpen /\ FirstIs(atWire, "data")
    /\ atWire' = Tail(atWire)
    /\ CASE atEntry = -1 -> UNCHANGED <<atEntry, atQueue, atBack>>
         [] atEntry = Head(atWire).seq ->
               atQueue' = Append(atQueue, Head(atWire)) /\ atEntry' = atEntry + 1 /\ UNCHANGED atBack
         [] OTHER ->
               atQueue' = Append(atQueue, Is("lagged")) /\ atEntry' = -1 /\ atBack' = Append(atBack, "cancel")
    /\ UNCHANGED <<calleeVars, atLost, atCall, atTable, atRead, atResult, atOpen>>

\* s_end
HandleEnd ==
    /\ atOpen /\ FirstIs(atWire, "end")
    /\ atWire' = Tail(atWire)
    /\ atQueue' = IF atEntry = -1 THEN atQueue ELSE Append(atQueue, Is("end"))
    /\ atEntry' = -1
    /\ UNCHANGED <<calleeVars, atBack, atLost, atCall, atTable, atRead, atResult, atOpen>>

\* The sweeper wakes after ATTACHMENT_CLAIM_GRACE: the entry nobody claimed goes,
\* the receiver with it, and the sender is canceled.
Sweep ==
    /\ atTable = "waiting"
    /\ atTable' = "swept"
    /\ atEntry' = -1 /\ atQueue' = <<>>
    /\ atBack' = IF atOpen THEN Append(atBack, "cancel") ELSE atBack
    /\ UNCHANGED <<calleeVars, atWire, atLost, atCall, atRead, atResult, atOpen>>

\* The connection closes: entries are failed, gates canceled, the table cleared.
CloseBlobConn ==
    /\ atOpen
    /\ atOpen' = FALSE
    /\ atWire' = <<>> /\ atBack' = <<>>
    /\ atGate' = -1
    /\ atQueue' = IF atEntry = -1 THEN atQueue ELSE Append(atQueue, Is("connection_lost"))
    /\ atEntry' = -1
    /\ atTable' = IF atTable = "waiting" THEN "none" ELSE atTable
    /\ atCall' = IF atCall = "waiting" THEN "abandoned" ELSE atCall
    /\ UNCHANGED <<atSender, atSent, atLost, atRead, atResult>>

-------------------------------------------------------------------------------
(* The application: collect_attachment *)

\* attachment(stream) takes the receiver out of the table.
Claim ==
    /\ atCall = "answered" /\ atResult = "none" /\ atTable # "claimed"
    /\ IF atTable = "waiting" THEN atTable' = "claimed" /\ UNCHANGED atResult
                              ELSE atResult' = "attachment_gone" /\ UNCHANGED atTable
    /\ UNCHANGED <<calleeVars, atWire, atBack, atLost, atCall, atEntry, atQueue, atRead, atOpen>>

\* Drop for RawIncomingStream before its end: over max_bytes, or the future of
\* collect_attachment is dropped.
GiveUpBlob ==
    /\ atTable = "claimed" /\ atResult = "none"
    /\ atResult' = "gave_up"
    /\ atEntry' = -1 /\ atQueue' = <<>>
    /\ atBack' = IF atOpen THEN Append(atBack, "cancel") ELSE atBack
    /\ UNCHANGED <<calleeVars, atWire, atLost, atCall, atTable, atRead, atOpen>>

\* Slip: the length is not compared with the size of the reference.
WholeUnchecked == TRUE

\* buf.len() == reference.size (and then the digest).
Whole == Len(atRead) = Chunks

\* chunks.next(): data is credited and kept, the end is checked, a failure returned.
ReadBlob ==
    /\ atTable = "claimed" /\ atResult = "none" /\ atQueue # <<>>
    /\ LET event == Head(atQueue)
       IN IF event.kind = "data"
          THEN /\ atRead' = Append(atRead, event.seq)
               /\ atBack' = IF atOpen THEN Append(atBack, "credit") ELSE atBack
               /\ UNCHANGED atResult
          ELSE /\ atResult' = CASE event.kind = "end" /\ Whole -> "ok"
                                [] event.kind = "end" /\ ~Whole -> "attachment_truncated"
                                [] OTHER -> event.kind
               /\ UNCHANGED <<atRead, atBack>>
    /\ atQueue' = Tail(atQueue)
    /\ UNCHANGED <<calleeVars, atWire, atLost, atCall, atEntry, atTable, atOpen>>

-------------------------------------------------------------------------------
AtNext ==
    \/ ReplyWithBlob \/ SendChunkOrEnd \/ HandleBack \/ LoseAttachmentChunk
    \/ AbandonBlobCall \/ HandleRes \/ HandleChunk \/ HandleEnd \/ Sweep \/ CloseBlobConn
    \/ Claim \/ GiveUpBlob \/ ReadBlob

\* Tasks run, both readers take what arrives, the sweeper's sleep ends, and one who
\* has claimed a blob goes on reading it or drops it.
AtFairness ==
    /\ WF_atVars(SendChunkOrEnd) /\ WF_atVars(HandleBack)
    /\ WF_atVars(HandleRes \/ HandleChunk \/ HandleEnd)
    /\ WF_atVars(Sweep) /\ WF_atVars(ReadBlob)

-------------------------------------------------------------------------------
\* A blob that is handed over as complete is the whole blob in order, also when
\* chunks at its end were lost, which the stream itself does not notice
\* (collect_attachment compares the length with the reference).
CollectedIsWhole == AtTypeOK /\ (atResult = "ok" => atRead = [i \in 1 .. Chunks |-> i - 1])

===============================================================================
