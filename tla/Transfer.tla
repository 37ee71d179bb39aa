------------------------------- MODULE Transfer -------------------------------
(***************************************************************************)
(* Receiving a file: push_offer and pull of                                *)
(* zyris-capkit/src/transfer/peer.rs, with the undo store of               *)
(* transfer/undo.rs.                                                       *)
(*                                                                         *)
(* Every offer here is for the same destination.  A content is a sequence  *)
(* of chunks and its hash is itself.  The file at the sender may change    *)
(* after the offer, the stream may break, the receiving process may crash  *)
(* and restart, and another program may put a file at the destination.  A  *)
(* tokio file that is dropped unflushed may still write its last chunk     *)
(* later.                                                                  *)
(***************************************************************************)
EXTENDS Integers, Sequences

CONSTANTS Calls,       \* push_offer calls that may be under way at once
          Ids,         \* transfer ids
          Contents,    \* [Ids -> Seq(Nat)], what is offered
          Edits,       \* what an edit may leave in a sender's file
          Local,       \* the content of a file of another program
          MaxFaults    \* bound on broken streams and crashes together

Missing == <<-1>>      \* no such file
Appending == -1        \* the position of a file opened with append

VARIABLES
    trHeld,     \* InFlight
    trCall,     \* [Calls -> the state of the call]
    trPart,     \* [Ids -> the .part file]
    trDest,     \* the destination
    trUndo,     \* contents in the undo store
    trLate,     \* [Ids -> a write that has not reached its file, or NoWrite]
    trSource,   \* [Ids -> the sender's file]
    trFaults,   \* faults so far
    trTried,    \* history: ids offered so far
    trDone,     \* history: ids delivered
    trRefused,  \* history: ids refused because the destination exists
    trSpoilt,   \* history: a late write has reached a file that a later call has opened
    trLosses    \* history: files replaced without a copy, as [over, saw]

trVars == <<trHeld, trCall, trPart, trDest, trUndo, trLate, trSource, trFaults, trTried, trDone,
            trRefused, trSpoilt, trLosses>>
outside == <<trSource, trFaults>>
outcome == <<trTried, trDone, trRefused, trSpoilt, trLosses>>

NoWrite == [at |-> "none", pos |-> 0, chunk |-> 0]
NoCall == [at |-> "idle", id |-> 0, over |-> FALSE, off |-> 0, pos |-> 0, next |-> 0,
           hash |-> <<>>, buf |-> <<>>, saw |-> FALSE]

TrTypeOK ==
    /\ trHeld \subseteq Ids
    /\ \A c \in Calls : trCall[c].at # "idle" => trCall[c].id \in Ids
    /\ \A i \in Ids : trLate[i].at \in {"none", "part", "dest"}
    /\ trFaults \in 0 .. MaxFaults

TrInit ==
    /\ trHeld = {} /\ trCall = [c \in Calls |-> NoCall]
    /\ trPart = [i \in Ids |-> Missing] /\ trDest = Missing /\ trUndo = {}
    /\ trLate = [i \in Ids |-> NoWrite]
    /\ trSource = Contents /\ trFaults = 0
    /\ trTried = {} /\ trDone = {} /\ trRefused = {} /\ trSpoilt = FALSE /\ trLosses = {}

-------------------------------------------------------------------------------
(* Files *)

\* A chunk written at a position, or at the end of the file.
Write(file, pos, chunk) ==
    IF pos = Appending THEN Append(file, chunk)
    ELSE [k \in 1 .. (IF pos < Len(file) THEN Len(file) ELSE pos + 1) |->
             IF k = pos + 1 THEN chunk ELSE IF k <= Len(file) THEN file[k] ELSE 0]

\* The chunk write_all has taken and not yet written.
Flushed(c) ==
    LET call == trCall[c]
    IN  IF call.buf = <<>> THEN trPart[call.id]
        ELSE Write(trPart[call.id], call.pos, Head(call.buf))

\* The call is over: its claim is dropped, its result is with the sender.
End(c) ==
    /\ trCall' = [trCall EXCEPT ![c] = NoCall]
    /\ trHeld' = trHeld \ {trCall[c].id}

RemovePart(i) ==
    /\ trPart' = [trPart EXCEPT ![i] = Missing]
    /\ trLate' = [trLate EXCEPT ![i] = IF @.at = "part" THEN NoWrite ELSE @]

\* Slip: every offer goes through.
MayClaimAlways(i) == TRUE

\* InFlight::claim
MayClaim(i) == i \notin trHeld

Offer(c, i, over) ==
    /\ trCall[c].at = "idle" /\ i \notin trDone /\ MayClaim(i)
    /\ trHeld' = trHeld \cup {i}
    /\ trCall' = [trCall EXCEPT ![c] = [NoCall EXCEPT !.at = "claimed", !.id = i, !.over = over]]
    /\ trTried' = trTried \cup {i}
    /\ UNCHANGED <<trPart, trDest, trUndo, trLate, outside, trDone, trRefused, trSpoilt, trLosses>>

\* The quick check of the destination, and the offset to resume from.
Measure(c) ==
    LET call == trCall[c]
        part == trPart[call.id]
    IN  /\ call.at = "claimed"
        /\ \/ /\ trDest # Missing /\ ~call.over
              /\ End(c) /\ trRefused' = trRefused \cup {call.id}
           \/ /\ trDest = Missing \/ call.over
              /\ trCall' = [trCall EXCEPT ![c].at = "pulling", ![c].off =
                    IF part = Missing \/ Len(part) > Len(Contents[call.id]) THEN 0 ELSE Len(part)]
              /\ UNCHANGED <<trHeld, trRefused>>
        /\ UNCHANGED <<trPart, trDest, trUndo, trLate, outside, trTried, trDone, trSpoilt, trLosses>>

\* pull answers with a stream from the offset, and a leftover is read into the hash.
PullAndHash(c) ==
    LET call == trCall[c]
    IN  /\ call.at = "pulling"
        /\ trCall' = [trCall EXCEPT ![c].at = "hashed", ![c].next = call.off,
                          ![c].hash = IF call.off > 0 THEN trPart[call.id] ELSE <<>>]
        /\ UNCHANGED <<trHeld, trPart, trDest, trUndo, trLate, outside, outcome>>

\* Opened to append on a resume, else truncated.
OpenPart(c) ==
    LET call == trCall[c]
        resumes == call.off > 0 /\ trPart[call.id] # Missing
    IN  /\ call.at = "hashed"
        /\ trPart' = IF resumes THEN trPart ELSE [trPart EXCEPT ![call.id] = <<>>]
        /\ trCall' = [trCall EXCEPT ![c].at = "receiving",
                                    ![c].pos = IF resumes THEN Appending ELSE -2]
        /\ UNCHANGED <<trHeld, trDest, trUndo, trLate, outside, outcome>>

Receive(c) ==
    LET call == trCall[c]
        source == trSource[call.id]
        total == call.next + 1
    IN  /\ call.at = "receiving" /\ call.next < Len(source)
        /\ \/ /\ total > Len(Contents[call.id])
              /\ RemovePart(call.id) /\ End(c)
           \/ /\ total <= Len(Contents[call.id])
              /\ trPart' = [trPart EXCEPT ![call.id] = Flushed(c)]
              /\ trCall' = [trCall EXCEPT ![c].next = total,
                    ![c].hash = Append(@, source[total]), ![c].buf = <<source[total]>>,
                    ![c].pos = IF @ = Appending THEN @ ELSE IF @ < 0 THEN 0 ELSE @ + 1]
              /\ UNCHANGED <<trHeld, trLate>>
        /\ UNCHANGED <<trDest, trUndo, outside, outcome>>

\* The stream fails, and ? returns: the .part stays for the next offer.
StreamBreaks(c) ==
    LET call == trCall[c]
    IN  /\ call.at \in {"pulling", "receiving"} /\ trFaults < MaxFaults
        /\ trFaults' = trFaults + 1
        /\ trLate' = IF call.buf = <<>> THEN trLate
                     ELSE [trLate EXCEPT ![call.id] =
                              [at |-> "part", pos |-> call.pos, chunk |-> Head(call.buf)]]
        /\ End(c)
        /\ UNCHANGED <<trPart, trDest, trUndo, trSource, outcome>>

StreamEnds(c) ==
    LET call == trCall[c]
    IN  /\ call.at = "receiving" /\ call.next >= Len(trSource[call.id])
        /\ trPart' = [trPart EXCEPT ![call.id] = Flushed(c)]
        /\ trCall' = [trCall EXCEPT ![c].at = "received", ![c].buf = <<>>]
        /\ UNCHANGED <<trHeld, trDest, trUndo, trLate, outside, outcome>>

\* Slip: what does not match is left for the next offer.
RejectKeeping(c) == End(c) /\ UNCHANGED <<trPart, trLate>>

\* A .part that is not what was offered, or not wanted, is removed.
Reject(c) == RemovePart(trCall[c].id) /\ End(c)

VerifyHash(c) ==
    LET call == trCall[c]
    IN  /\ call.at = "received"
        /\ \/ call.hash # Contents[call.id] /\ Reject(c)
           \/ /\ call.hash = Contents[call.id]
              /\ trCall' = [trCall EXCEPT ![c].at = "verified"]
              /\ UNCHANGED <<trHeld, trPart, trLate>>
        /\ UNCHANGED <<trDest, trUndo, outside, outcome>>

VerifyLength(c) ==
    LET call == trCall[c]
    IN  /\ call.at = "verified"
        /\ \/ Len(trPart[call.id]) # Len(Contents[call.id]) /\ Reject(c)
           \/ /\ Len(trPart[call.id]) = Len(Contents[call.id])
              /\ trCall' = [trCall EXCEPT ![c].at = "whole"]
              /\ UNCHANGED <<trHeld, trPart, trLate>>
        /\ UNCHANGED <<trDest, trUndo, outside, outcome>>

Allowed(c) == trDest = Missing \/ trCall[c].over

Recheck(c) ==
    LET call == trCall[c]
    IN  /\ call.at = "whole"
        /\ \/ /\ ~Allowed(c) /\ Reject(c)
              /\ trRefused' = trRefused \cup {call.id}
           \/ /\ Allowed(c)
              /\ trCall' = [trCall EXCEPT ![c].at = IF trDest # Missing THEN "stashing" ELSE "renaming",
                                          ![c].saw = trDest # Missing]
              /\ UNCHANGED <<trHeld, trPart, trLate, trRefused>>
        /\ UNCHANGED <<trDest, trUndo, outside, trTried, trDone, trSpoilt, trLosses>>

\* A write under way goes with the file it is for.
Displaced(late) == [i \in Ids |-> IF late[i].at = "dest" THEN NoWrite ELSE late[i]]

\* UndoStore::stash: the original is moved, or there is no backup.
Stash(c) ==
    /\ trCall[c].at = "stashing"
    /\ \/ /\ trDest # Missing
          /\ trUndo' = trUndo \cup {trDest} /\ trDest' = Missing
          /\ trLate' = Displaced(trLate)
       \/ UNCHANGED <<trUndo, trDest, trLate>>
    /\ trCall' = [trCall EXCEPT ![c].at = "renaming"]
    /\ UNCHANGED <<trHeld, trPart, outside, outcome>>

Rename(c) ==
    LET call == trCall[c]
    IN  /\ call.at = "renaming" /\ trPart[call.id] # Missing
        /\ trDest' = trPart[call.id]
        /\ trPart' = [trPart EXCEPT ![call.id] = Missing]
        /\ trLate' = [Displaced(trLate) EXCEPT ![call.id] =
                         IF @.at = "part" THEN [@ EXCEPT !.at = "dest"] ELSE @]
        /\ trLosses' = IF trDest = Missing THEN trLosses
                       ELSE trLosses \cup {[over |-> call.over, saw |-> call.saw]}
        /\ trDone' = trDone \cup {call.id}
        /\ End(c)
        /\ UNCHANGED <<trUndo, outside, trTried, trRefused, trSpoilt>>

-------------------------------------------------------------------------------
(* External *)

\* A chunk of a call that has failed reaches the file it was written to.
LateWrite(i) ==
    LET late == trLate[i]
    IN  /\ late.at # "none"
        /\ trPart' = IF late.at = "part" /\ trPart[i] # Missing
                     THEN [trPart EXCEPT ![i] = Write(@, late.pos, late.chunk)] ELSE trPart
        /\ trDest' = IF late.at = "dest" THEN Write(trDest, late.pos, late.chunk) ELSE trDest
        /\ trLate' = [trLate EXCEPT ![i] = NoWrite]
        /\ trSpoilt' = (trSpoilt \/ late.at = "dest" \/ \E c \in Calls : trCall[c].id = i
                           /\ trCall[c].at \notin {"claimed", "pulling", "hashed"})
        /\ UNCHANGED <<trHeld, trCall, trUndo, outside, trTried, trDone, trRefused, trLosses>>

\* The receiving process dies and starts again.
Crash ==
    /\ trFaults < MaxFaults /\ trHeld # {}
    /\ trFaults' = trFaults + 1
    /\ trCall' = [c \in Calls |-> NoCall] /\ trHeld' = {}
    /\ trLate' = [i \in Ids |-> NoWrite]
    /\ UNCHANGED <<trPart, trDest, trUndo, trSource, outcome>>

\* The sender's file changes under the offer, or is put back.
SourceEdited(i) ==
    /\ i \in trTried \ (trDone \cup trRefused)
    /\ \E content \in Edits \cup {Contents[i]} :
          content # trSource[i] /\ trSource' = [trSource EXCEPT ![i] = content]
    /\ UNCHANGED <<trHeld, trCall, trPart, trDest, trUndo, trLate, trFaults, outcome>>

LocalFile ==
    /\ trDest = Missing /\ trHeld # {} /\ Local \notin trUndo
    /\ trDest' = Local
    /\ UNCHANGED <<trHeld, trCall, trPart, trUndo, trLate, outside, outcome>>

CallStep(c) ==
    \/ Measure(c) \/ PullAndHash(c) \/ OpenPart(c) \/ Receive(c) \/ StreamEnds(c)
    \/ VerifyHash(c) \/ VerifyLength(c) \/ Recheck(c) \/ Stash(c) \/ Rename(c)

TrNext ==
    \/ \E c \in Calls, i \in Ids, over \in BOOLEAN : Offer(c, i, over)
    \/ \E c \in Calls : CallStep(c) \/ StreamBreaks(c)
    \/ \E i \in Ids : LateWrite(i) \/ SourceEdited(i)
    \/ Crash \/ LocalFile

\* A sender offers again what was not delivered, and a call under way goes on.
OfferAgain(i) == i \in trTried \ trRefused /\ \E c \in Calls, over \in BOOLEAN : Offer(c, i, over)

TrFairness ==
    /\ \A c \in Calls : WF_trVars(CallStep(c))
    /\ \A i \in Ids : WF_trVars(OfferAgain(i))

-------------------------------------------------------------------------------
\* What is at the destination was put there by another program or is, chunk for
\* chunk, a content that was offered (the claim, the hash and the length of the
\* .part).  The exception: a write of an earlier, failed call that reaches the file
\* while a later one writes it.  The hash is of the chunks received, and a chunk
\* overwritten in place leaves the length as it was.  And a file is replaced without
\* a copy in the undo store only by a call that was allowed to and could not make
\* one, or if it appeared in the last moment, between the second check and the rename.
FilesAreSafe ==
    /\ TrTypeOK
    /\ trDest \in {Missing, Local} \cup {Contents[i] : i \in Ids} \/ trSpoilt
    /\ \A loss \in trLosses : ~loss.saw \/ loss.over

\* A file that is offered until it is taken arrives or is refused, whatever edits,
\* broken streams, crashes and late writes left in its .part, once the sender leaves
\* it as it was offered (a .part that does not match is removed).
ResumeDelivers ==
    \A i \in Ids :
        <>(i \in trTried) /\ <>[](trSource[i] = Contents[i]) => <>(i \in trDone \cup trRefused)
===============================================================================
