------------------------------- MODULE MCCalls --------------------------------
(***************************************************************************)
(* Instances of Calls: one streaming call s, or two unary calls u and v.   *)
(***************************************************************************)
EXTENDS Calls, SequencesExt

CONSTANTS s, u, v

\* Items of 1, 2, 0 and 1 bytes: one that fills a window of 2, an empty one, and
\* more bytes in all than the window holds.
StreamLength == s :> 4
StreamOffset == s :> [k \in 0 .. 4 |-> <<0, 1, 3, 3, 4>>[k + 1]]

\* Two unary calls, which nothing tells apart.
UnaryLength == u :> 0 @@ v :> 0
UnaryOffset == [c \in {u, v} |-> [k \in {0} |-> 0]]
UnarySymmetry == Permutations({u, v})

\* The bytes of the items that the frames of kind t in a queue are about.
BytesOf(c, queue, t) ==
    FoldLeft(LAMBDA sum, f : IF f.t = t THEN sum + ItemLen(c, f.n) ELSE sum, 0, queue)

\* Credit is neither created nor lost: while both ends hold on to the stream, the
\* window is the credit left plus the bytes on the wire, the bytes unread and the
\* credit on its way back (acquire, poll_next and SCredit of connection.rs).
CreditConserved ==
    \A c \in credits \cap incoming :
        (caller[c] \in {"calling", "open"} /\ c \notin lost) =>
            available[c] + BytesOf(c, toCaller[c], "data") + BytesOf(c, rx[c], "data")
                + BytesOf(c, toCallee[c], "s_credit") = Window
===============================================================================
