-------------------------------- MODULE FileIo --------------------------------
(***************************************************************************)
(* read, read_stream, write, edit, remove and mkdir of LocalFileIo         *)
(* (zyris-capkit/src/fs/file_io.rs), as concurrent calls about one path.   *)
(*                                                                         *)
(* A call looks at the path, and then opens it: others may come between.   *)
(* An open file is an inode, and outlives its name.  tokio::fs::write is   *)
(* an open that truncates, and then a write from the start.  A caller of   *)
(* read asks for page after page while the answer is truncated.  Bytes     *)
(* are numbers; 195 and 169 make one character.                            *)
(***************************************************************************)
EXTENDS Integers, Sequences

CONSTANTS FiCalls,     \* concurrent calls, each made once
          FiContents,  \* what the file holds at first
          FiDatas,     \* what is written
          FiEdits,     \* [old, new, all]
          Offsets, Lengths,   \* ranges asked for; Unlimited for no len
          Unlimited,
          PageMax,     \* READ_UNARY_MAX
          ChunkMax     \* READ_CHUNK

Absent == 0
Dir == -1

VARIABLES
    fiPath,      \* Absent, Dir or the inode the path names
    fiData,      \* the contents of the inodes so far
    fiVersion,   \* history: changes so far
    fiLost,      \* history: a create replaced a file that was there when it looked
    fiCall       \* call -> its state

fiVars == <<fiPath, fiData, fiVersion, fiLost, fiCall>>
disk == <<fiPath, fiData, fiVersion, fiLost>>

\* seen is the version the call's view of the path is of; got, text and split are what the
\* answers to a reader held, and whether one of them ended within a character.
NewCall ==
    [op |-> "none", at |-> "idle", ino |-> Absent, first |-> 0, len |-> 0, pos |-> 0, want |-> 0,
     size |-> 0, data |-> <<>>, seen |-> 0, got |-> <<>>, text |-> <<>>, split |-> FALSE]

Smaller(a, b) == IF a < b THEN a ELSE b
IsFile == fiPath \notin {Absent, Dir}
Slice(s, from, n) == SubSeq(s, from + 1, Smaller(from + n, Len(s)))
Settle(c, at) == fiCall' = [fiCall EXCEPT ![c].at = at]
Change == fiVersion' = fiVersion + 1 /\ UNCHANGED fiLost

\* str::from_utf8, and from_utf8_lossy with 0 for the replacement character.
Half(s, i) ==
    \/ s[i] = 195 /\ (i = Len(s) \/ s[i + 1] # 169)
    \/ s[i] = 169 /\ (i = 1 \/ s[i - 1] # 195)
Valid(s) == \A i \in DOMAIN s : ~Half(s, i)
Splits(s, end) == end \in 1 .. Len(s) - 1 /\ s[end] = 195 /\ s[end + 1] = 169
Lossy(s) == [i \in DOMAIN s |-> IF Half(s, i) THEN 0 ELSE s[i]]

\* Matches from the left that do not overlap: how many, and the text with them replaced.
RECURSIVE Matches(_, _)
Matches(s, old) ==
    IF Len(s) < Len(old) THEN 0
    ELSE IF SubSeq(s, 1, Len(old)) = old THEN 1 + Matches(SubSeq(s, Len(old) + 1, Len(s)), old)
    ELSE Matches(Tail(s), old)

RECURSIVE Replaced(_, _, _)
Replaced(s, old, new) ==
    IF Len(s) < Len(old) THEN s
    ELSE IF SubSeq(s, 1, Len(old)) = old THEN new \o Replaced(SubSeq(s, Len(old) + 1, Len(s)), old, new)
    ELSE <<Head(s)>> \o Replaced(Tail(s), old, new)

FiInit ==
    /\ fiPath \in {Absent, Dir, 1} /\ \E s \in FiContents : fiData = <<s>>
    /\ fiVersion = 0 /\ fiLost = FALSE
    /\ fiCall = [c \in FiCalls |-> NewCall]

-------------------------------------------------------------------------------
(* read and read_stream *)

\* stat_path; read refuses a directory, read_stream does not.
Look(c, op, off, len) ==
    /\ fiCall[c].at = "idle"
    /\ fiCall' = [fiCall EXCEPT ![c] =
        [NewCall EXCEPT !.op = op, !.first = off, !.len = len, !.pos = off, !.want = len, !.seen = fiVersion,
                        !.size = IF IsFile THEN Len(fiData[fiPath]) ELSE 0,
                        !.at = IF fiPath = Absent \/ (fiPath = Dir /\ op = "read") THEN "error" ELSE "stat"]]
    /\ UNCHANGED disk

\* Open, seek and read; the answer, with truncated from the size of before.
ReadPage(c) ==
    LET k == fiCall[c]
        want == IF k.want = Unlimited THEN PageMax ELSE Smaller(k.want, PageMax)
        bytes == Slice(fiData[fiPath], k.pos, want)
        end == k.pos + Len(bytes)
    IN  /\ k.op = "read" /\ k.at = "stat"
        /\ IF IsFile
           THEN fiCall' = [fiCall EXCEPT ![c].pos = end, ![c].got = @ \o bytes,
                            ![c].text = @ \o Lossy(bytes), ![c].split = @ \/ Splits(fiData[fiPath], end),
                            ![c].at = IF end < k.size THEN "page" ELSE "done"]
           ELSE Settle(c, "error")
        /\ UNCHANGED disk

\* External: the caller reads on, with offset + len of the answer.
ReadOn(c) ==
    /\ fiCall[c].op = "read" /\ fiCall[c].at = "page"
    /\ fiCall' = [fiCall EXCEPT ![c].size = IF IsFile THEN Len(fiData[fiPath]) ELSE 0,
                                ![c].at = IF IsFile THEN "stat" ELSE "error"]
    /\ UNCHANGED disk

\* A directory opens, and its first read is the error.
OpenStream(c) ==
    /\ fiCall[c].op = "stream" /\ fiCall[c].at = "stat"
    /\ fiCall' = [fiCall EXCEPT ![c].ino = fiPath, ![c].at = IF IsFile THEN "open" ELSE "error"]
    /\ UNCHANGED disk

\* Slip: a chunk is as long as the file allows, whatever remains of the range.
StreamChunkWhole(c) ==
    LET k == fiCall[c]
        bytes == Slice(fiData[k.ino], k.pos, IF k.want = 0 THEN 0 ELSE ChunkMax)
    IN  /\ k.op = "stream" /\ k.at = "open"
        /\ IF bytes = <<>> THEN Settle(c, "done")
           ELSE fiCall' = [fiCall EXCEPT ![c].pos = @ + Len(bytes), ![c].got = @ \o bytes,
                            ![c].want = IF @ = Unlimited THEN @ ELSE @ - Smaller(@, Len(bytes))]
        /\ UNCHANGED disk

\* The stream ends with the range or the file.
StreamChunk(c) ==
    LET k == fiCall[c]
        bytes == Slice(fiData[k.ino], k.pos, IF k.want = Unlimited THEN ChunkMax ELSE Smaller(k.want, ChunkMax))
    IN  /\ k.op = "stream" /\ k.at = "open"
        /\ IF bytes = <<>> THEN Settle(c, "done")
           ELSE fiCall' = [fiCall EXCEPT ![c].pos = @ + Len(bytes), ![c].got = @ \o bytes,
                            ![c].want = IF @ = Unlimited THEN @ ELSE @ - Len(bytes)]
        /\ UNCHANGED disk

-------------------------------------------------------------------------------
(* write, edit, remove and mkdir *)

\* The look at whether the file exists.
WriteLook(c, data, overwrite) ==
    /\ fiCall[c].at = "idle"
    /\ fiCall' = [fiCall EXCEPT ![c] =
        [NewCall EXCEPT !.op = IF overwrite THEN "write" ELSE "create", !.data = data, !.seen = fiVersion,
                        !.at = IF ~overwrite /\ fiPath # Absent THEN "refused" ELSE "checked"]]
    /\ UNCHANGED disk

\* An attachment, or an empty old_string: nothing is looked at.
RefusedAtOnce(c) ==
    /\ fiCall[c].at = "idle"
    /\ fiCall' = [fiCall EXCEPT ![c].op = "write", ![c].at = "refused"]
    /\ UNCHANGED disk

EditLook(c, e) ==
    LET s == fiData[fiPath]
        count == Matches(s, e.old)
    IN  /\ fiCall[c].at = "idle"
        /\ fiCall' = [fiCall EXCEPT ![c] =
            IF ~IsFile THEN [NewCall EXCEPT !.op = "edit", !.at = "error"]
            ELSE IF ~Valid(s) \/ count = 0 \/ (count > 1 /\ ~e.all)
            THEN [NewCall EXCEPT !.op = "edit", !.at = "refused"]
            ELSE [NewCall EXCEPT !.op = "edit", !.at = "checked", !.seen = fiVersion,
                                 !.data = Replaced(s, e.old, e.new)]]
        /\ UNCHANGED disk

\* The open of tokio::fs::write: a new file, or the old one emptied.
Truncate(c) ==
    /\ fiCall[c].at = "checked" /\ fiPath # Dir
    /\ fiData' = IF IsFile THEN [fiData EXCEPT ![fiPath] = <<>>] ELSE Append(fiData, <<>>)
    /\ fiPath' = IF IsFile THEN fiPath ELSE Len(fiData) + 1
    /\ fiVersion' = fiVersion + 1
    /\ fiLost' = (fiLost \/ (fiCall[c].op = "create" /\ IsFile /\ fiCall[c].seen = fiVersion))
    /\ fiCall' = [fiCall EXCEPT ![c].at = "open", ![c].ino = fiPath', ![c].seen = fiVersion + 1]

\* The rest of it, from the start of the file as it now is.
Fill(c) ==
    LET k == fiCall[c]
    IN  /\ k.op \in {"write", "create", "edit"} /\ k.at = "open"
        /\ fiData' = [fiData EXCEPT ![k.ino] = k.data \o SubSeq(@, Len(k.data) + 1, Len(@))]
        /\ Change /\ UNCHANGED fiPath
        /\ fiCall' = [fiCall EXCEPT ![c].at = "written",
                                    ![c].seen = IF @ = fiVersion THEN fiVersion + 1 ELSE @]

\* The stat that answers.
WriteAnswers(c) ==
    /\ fiCall[c].at = "written"
    /\ Settle(c, IF fiPath = Absent THEN "error" ELSE "done")
    /\ UNCHANGED disk

\* A directory is in the way, or the disk fails.
WriteFails(c) ==
    /\ fiCall[c].op \in {"write", "create", "edit"} /\ fiCall[c].at \in {"checked", "open"}
    /\ Settle(c, "error")
    /\ UNCHANGED disk

Remove(c) ==
    /\ fiCall[c].at = "idle"
    /\ \/ fiPath # Absent /\ fiPath' = Absent /\ Settle(c, "done") /\ Change
       \/ Settle(c, "error") /\ UNCHANGED <<fiPath, fiVersion, fiLost>>
    /\ UNCHANGED fiData

Mkdir(c) ==
    /\ fiCall[c].at = "idle"
    /\ IF fiPath = Absent THEN fiPath' = Dir /\ Change ELSE UNCHANGED <<fiPath, fiVersion, fiLost>>
    /\ Settle(c, IF IsFile THEN "error" ELSE "done")
    /\ UNCHANGED fiData

FiNext ==
    \E c \in FiCalls :
        \/ \E off \in Offsets, len \in Lengths :
            (len # 0 /\ Look(c, "read", off, len)) \/ Look(c, "stream", off, len)
        \/ ReadPage(c) \/ ReadOn(c) \/ OpenStream(c) \/ StreamChunk(c)
        \/ \E data \in FiDatas, overwrite \in BOOLEAN : WriteLook(c, data, overwrite)
        \/ RefusedAtOnce(c)
        \/ \E e \in FiEdits : EditLook(c, e)
        \/ Truncate(c) \/ Fill(c) \/ WriteAnswers(c) \/ WriteFails(c) \/ Remove(c) \/ Mkdir(c)

-------------------------------------------------------------------------------
FiTypeOK ==
    /\ fiPath \in {Absent, Dir} \cup DOMAIN fiData
    /\ \A c \in FiCalls : fiCall[c].ino \in {Absent, Dir} \cup DOMAIN fiData

\* The bytes of file s that call k asked for: a reader goes on to the end.
Asked(k, s) == Slice(s, k.first, IF k.op = "read" \/ k.len = Unlimited THEN Len(s) ELSE k.len)

\* What a finished call was told is so, unless another call changed the file meanwhile:
\*  - the pages of read are the file from the offset on, without a gap, and as text too
\*    unless a page ended within a character; the chunks of read_stream are its range;
\*  - write and edit leave exactly what they wrote;
\* and a write that may not overwrite replaces only a file that came after it had looked
\* (read, read_stream, write, edit).
FilesAreAsTold ==
    /\ FiTypeOK
    /\ ~fiLost
    /\ \A c \in FiCalls :
        LET k == fiCall[c]
        IN  k.at = "done" /\ k.seen = fiVersion /\ IsFile =>
            /\ k.op \in {"read", "stream"} => k.got = Asked(k, fiData[fiPath])
            /\ k.op = "read" => k.split \/ k.text = Lossy(k.got)
            /\ k.op \in {"write", "create", "edit"} => fiData[fiPath] = k.data
===============================================================================
