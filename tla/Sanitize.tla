------------------------------- MODULE Sanitize -------------------------------
(***************************************************************************)
(* The text of a terminal read: trim_incomplete_escape, scan_escape and    *)
(* strip_controls of zyris-capkit/src/terminal/sanitize.rs and             *)
(* trim_incomplete_tail of terminal/buffer.rs, as read of terminal/mod.rs  *)
(* uses them on what has arrived so far.                                   *)
(*                                                                         *)
(* Bytes are numbers.  Texts are UTF-8, and shorter than LOOKBACK.         *)
(***************************************************************************)
EXTENDS Integers, Sequences, FiniteSets

CONSTANTS Texts          \* what a shell writes, as sequences of bytes

ESC == 27
BEL == 7
CR == 13
LF == 10
Unfinished == 0          \* None of scan_escape; an end is never 0
Strings == {93, 80, 88, 94, 95}       \* ] P X ^ _
Final == 64 .. 126
Cont(c) == c >= 128 /\ c < 192

VARIABLES saText, saCursor, saOut, saPanic
saVars == <<saText, saCursor, saOut, saPanic>>

-------------------------------------------------------------------------------
(* sanitize.rs and buffer.rs; indexes are the code's, from 0 *)

Byte(b, i) == b[i + 1]

\* First index from j on with a byte of S, or the length.
FirstIn(b, j, S) ==
    LET hits == {k \in j .. Len(b) - 1 : Byte(b, k) \in S}
    IN  IF hits = {} THEN Len(b) ELSE CHOOSE k \in hits : \A l \in hits : k <= l

scan_escape(b, i) ==
    IF Len(b) <= i + 1 THEN Unfinished
    ELSE IF Byte(b, i + 1) = 91 THEN
        LET k == FirstIn(b, i + 2, Final) IN IF k = Len(b) THEN Unfinished ELSE k + 1
    ELSE IF Byte(b, i + 1) \in Strings THEN
        LET k == FirstIn(b, i + 2, {BEL, ESC})
        IN  IF k = Len(b) \/ (Byte(b, k) = ESC /\ Len(b) = k + 1) THEN Unfinished
            ELSE IF Byte(b, k) = ESC /\ Byte(b, k + 1) = 92 THEN k + 2 ELSE k + 1
    ELSE i + 2

\* Slip: an unfinished sequence is not held back.
trim_incomplete_escape_never(b) == Len(b)

trim_incomplete_escape(b) ==
    LET escapes == {k \in 0 .. Len(b) - 1 : Byte(b, k) = ESC}
        esc == CHOOSE k \in escapes : \A l \in escapes : l <= k
    IN  IF escapes = {} \/ scan_escape(b, esc) # Unfinished THEN Len(b) ELSE esc

Need(c) == IF c >= 240 THEN 4 ELSE IF c >= 224 THEN 3 ELSE 2

trim_incomplete_tail(b) ==
    LET backs == {n \in 1 .. 3 : n <= Len(b) /\ ~Cont(Byte(b, Len(b) - n))}
        back == CHOOSE n \in backs : \A m \in backs : n <= m
        c == Byte(b, Len(b) - back)
    IN  IF backs = {} \/ c < 128 \/ back >= Need(c) THEN Len(b) ELSE Len(b) - back

\* The character at i, where i is the start of one.
Char(b, i) == SubSeq(b, i + 1, i + (IF Byte(b, i) < 128 THEN 1 ELSE Need(Byte(b, i))))

\* The text left of b from i on, and whether an index within a character was taken for
\* the start of one.
RECURSIVE Strip(_, _)
Strip(b, i) ==
    LET then(out, j) == [Strip(b, j) EXCEPT !.out = out \o @]
    IN  IF i >= Len(b) THEN [out |-> <<>>, panic |-> FALSE]
        ELSE LET c == Byte(b, i)
             IN  CASE c = ESC -> IF scan_escape(b, i) = Unfinished THEN Strip(b, Len(b))
                                 ELSE Strip(b, scan_escape(b, i))
                   [] c = CR -> IF i + 1 < Len(b) /\ Byte(b, i + 1) = LF THEN then(<<LF>>, i + 2)
                                ELSE Strip(b, i + 1)
                   [] c = LF \/ c = 9 -> then(<<c>>, i + 1)
                   [] c = 127 \/ (c < 32 /\ c \notin {ESC, CR, LF, 9}) -> Strip(b, i + 1)
                   [] Cont(c) -> [out |-> <<>>, panic |-> TRUE]
                   [] OTHER -> then(Char(b, i), i + Len(Char(b, i)))

strip_controls(b) == Strip(b, 0)

-------------------------------------------------------------------------------
SaInit == saText \in Texts /\ saCursor = 0 /\ saOut = <<>> /\ saPanic = FALSE

\* A read when bytes up to n have arrived; the last one knows that the shell has exited.
ReadText ==
    /\ ~saPanic
    /\ \E n \in saCursor + 1 .. Len(saText) :
          LET bytes == SubSeq(saText, saCursor + 1, n)
              tail == trim_incomplete_tail(bytes)
              escape == trim_incomplete_escape(bytes)
              keep == IF n = Len(saText) THEN Len(bytes) ELSE IF tail < escape THEN tail ELSE escape
              text == strip_controls(SubSeq(bytes, 1, keep))
          IN  /\ saCursor' = saCursor + keep
              /\ saOut' = saOut \o text.out /\ saPanic' = text.panic
    /\ UNCHANGED saText

SaNext == ReadText

-------------------------------------------------------------------------------
\* Without an escape right before another one or before a character of several bytes, and
\* without a string sequence that another escape breaks off: scan_escape takes these apart
\* differently when a read ends within them.
Clean(b) ==
    \A i \in 1 .. Len(b) - 1 : b[i] = ESC =>
        /\ b[i + 1] < 128
        /\ b[i + 1] # ESC
        /\ b[i + 1] # 92 => \A j \in 1 .. i - 1 : ~(b[j] = ESC /\ b[j + 1] \in Strings)

\* However a text is cut by the moments at which it is read, the reads together give the
\* text that one read of it all would give: no half of an escape sequence or of a
\* character shows up (trim_incomplete_escape, trim_incomplete_tail).
ReadsAddUp ==
    saCursor = Len(saText) /\ Clean(saText) => saOut = strip_controls(saText).out

\* The characters strip_controls copies start where it says they do, "the boundary is
\* valid" (strip_controls).
BoundaryIsValid == ~saPanic
===============================================================================
