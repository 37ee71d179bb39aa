--------------------------------- MODULE Names ---------------------------------
(***************************************************************************)
(* Where a received file is put: safe_name, avoids_reserved_names and      *)
(* fits_length of zyris-capkit/src/transfer/name.rs, resolve of            *)
(* transfer/inbox.rs, and the way back in inbox_list of transfer/send.rs.  *)
(*                                                                         *)
(* A character stands for its class: "a" for an ordinary one, "w" for one  *)
(* of two bytes, "N" for a stem of RESERVED_NAMES, "c" for a control       *)
(* character; the others stand for themselves.                             *)
(***************************************************************************)
EXTENDS Naturals, Sequences, FiniteSets

CONSTANTS NameChars,     \* characters that occur in a proposed name
          MaxName,       \* bound on the characters of a proposed name
          MaxBytes,      \* MAX_BYTES
          MaxExtension   \* an extension from this length on is given up

\* As 255 and 16 do, they leave a cut stem longer than a reserved one.
ASSUME NameAssumption == MaxBytes >= MaxExtension + 2

Separators == {"/", "\\"}
Default == <<"a">>       \* "file"

Width(c) == IF c = "w" THEN 2 ELSE 1
RECURSIVE Bytes(_)
Bytes(name) == IF name = <<>> THEN 0 ELSE Width(Head(name)) + Bytes(Tail(name))

Has(name, C) == \E i \in DOMAIN name : name[i] \in C
RECURSIVE TrimEnd(_, _)
TrimEnd(name, C) ==
    IF name # <<>> /\ name[Len(name)] \in C THEN TrimEnd(SubSeq(name, 1, Len(name) - 1), C) ELSE name
RECURSIVE TrimStart(_, _)
TrimStart(name, C) == IF name # <<>> /\ Head(name) \in C THEN TrimStart(Tail(name), C) ELSE name

FirstAt(name, c) == CHOOSE i \in DOMAIN name : name[i] = c /\ \A j \in 1 .. i - 1 : name[j] # c
LastOf(name, C) ==
    IF Has(name, C) THEN CHOOSE i \in DOMAIN name : name[i] \in C /\ \A j \in i + 1 .. Len(name) : name[j] \notin C
    ELSE 0

Stem(name) == IF Has(name, {"."}) THEN SubSeq(name, 1, FirstAt(name, ".") - 1) ELSE name
Reserved(name) == Stem(name) = <<"N">>

avoids_reserved_names(name) ==
    IF Reserved(name) THEN <<"N", "_">> \o SubSeq(name, 2, Len(name)) ELSE name

\* The extension is kept if it is short, and the stem is cut at a character.
fits_length(name) ==
    LET dot == LastOf(name, {"."})
        all == IF dot = 0 THEN <<>> ELSE SubSeq(name, dot, Len(name))
        extension == IF Bytes(all) < MaxExtension THEN all ELSE <<>>
        fitting == {n \in 0 .. Len(name) : Bytes(SubSeq(name, 1, n)) <= MaxBytes - Bytes(extension)}
        most == CHOOSE n \in fitting : \A m \in fitting : m <= n
    IN  IF Bytes(name) <= MaxBytes THEN name ELSE SubSeq(name, 1, most) \o extension

Washed(proposed) ==
    LET chunk == SubSeq(proposed, LastOf(proposed, Separators) + 1, Len(proposed))
        kept == SelectSeq(chunk, LAMBDA c : c \notin {":", "c"})
    IN  TrimEnd(TrimEnd(TrimStart(kept, {" "}), {" "}), {".", " "})

\* Slip: the cut is not followed by another trim.
safe_name_untrimmed(proposed) ==
    LET washed == Washed(proposed)
    IN  IF washed = <<>> THEN Default ELSE fits_length(avoids_reserved_names(washed))

safe_name(proposed) ==
    LET washed == Washed(proposed)
        cut == TrimEnd(fits_length(avoids_reserved_names(washed)), {".", " "})
    IN  IF washed = <<>> \/ cut = <<>> THEN Default ELSE cut

Replace(name, from, to) == [i \in DOMAIN name |-> IF name[i] = from THEN to ELSE name[i]]

\* resolve: the directory of a peer below the inbox.
PeerDirectory(peer) == safe_name(Replace(peer, "/", "_"))

\* inbox_list: the peer a directory belongs to.
PeerOf(directory) == Replace(directory, "_", "/")

-------------------------------------------------------------------------------
VARIABLE proposedName
nameVars == <<proposedName>>
NameInit == proposedName = <<>>
NameNext ==
    /\ Len(proposedName) < MaxName
    /\ \E c \in NameChars : proposedName' = Append(proposedName, c)

-------------------------------------------------------------------------------
IsComponent(name) ==
    /\ name # <<>> /\ ~Has(name, Separators \cup {":", "c"})
    /\ Head(name) # " " /\ name[Len(name)] \notin {" ", "."}
    /\ Bytes(name) <= MaxBytes

\* A node path of slugs, which have none of these.
IsNodePath(name) ==
    /\ ~Has(name, {"_", "\\", ":", "c", " ", "."}) /\ name # <<>> /\ Bytes(name) <= MaxBytes
    /\ Has(name, {"/"})

\* Every proposed name becomes one path component that fits and is not reserved, unless a
\* cut and the trim after it bare a reserved stem; a name that is one already is left as it
\* is, so washing twice is washing once; and the directory of a node path leads back to
\* that path, so that no two nodes share one (safe_name, resolve, inbox_list).
NamesAreSafe ==
    /\ IsComponent(safe_name(proposedName))
    /\ Reserved(safe_name(proposedName)) => Bytes(Washed(proposedName)) > MaxBytes
    /\ IsComponent(proposedName) /\ ~Reserved(proposedName) =>
           safe_name(proposedName) = proposedName
    /\ IsNodePath(proposedName) => PeerOf(PeerDirectory(proposedName)) = proposedName
===============================================================================
