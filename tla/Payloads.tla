------------------------------- MODULE Payloads -------------------------------
(***************************************************************************)
(* Moving blobs out of a payload and back: detach, refs and splice of      *)
(* zyris-proto/src/attach.rs and hydrate of zyris-core/src/connection.rs.  *)
(*                                                                         *)
(* A value is a scalar, bytes, a reference to a stream, an array, or a     *)
(* map, of which only the entries that matter are kept: whether it is      *)
(* tagged as a datum (kind image or file), its blob and one more entry.    *)
(***************************************************************************)
EXTENDS Naturals, Sequences, FiniteSets

CONSTANTS Threshold,   \* INLINE_BLOB_MAX
          Blobs        \* the byte strings that occur

Scalar == [t |-> "scalar"]
Bin(b) == [t |-> "bin", bytes |-> b]
Ref(stream, b) == [t |-> "ref", stream |-> stream, size |-> Len(b), sha256 |-> b]
Map(datum, blob, rest) == [t |-> "map", datum |-> datum, blob |-> blob, rest |-> rest]
Arr(items) == [t |-> "arr", items |-> items]

Leaves == {Scalar} \cup {Bin(b) : b \in Blobs}
MapsOf(V) == {Map(d, b, r) : d \in BOOLEAN, b \in Leaves, r \in V}
ArraysOf(V) == {Arr(<<x, y>>) : x \in V, y \in V}
Nested == Leaves \cup MapsOf(Leaves) \cup ArraysOf(Leaves)

\* Slip: any map with large bytes under "blob" is taken for a datum.
MovesAnyBlob(v) == v.blob.t = "bin" /\ Len(v.blob.bytes) > Threshold

\* The blob of this map is moved to a stream.
Moves(v) == v.datum /\ v.blob.t = "bin" /\ Len(v.blob.bytes) > Threshold

\* walk_detach: the value with references in it, the blobs moved in walk order, and
\* the next stream id (they go up by two).
RECURSIVE Detach(_, _)
Detach(v, next) ==
    CASE v.t = "map" /\ Moves(v) ->
            [value |-> [v EXCEPT !.blob = Ref(next, v.blob.bytes)],
             out |-> <<[stream |-> next, bytes |-> v.blob.bytes]>>, next |-> next + 2]
      [] v.t = "map" /\ ~Moves(v) ->
            LET b == Detach(v.blob, next)  r == Detach(v.rest, b.next)
            IN [value |-> [v EXCEPT !.blob = b.value, !.rest = r.value],
                out |-> b.out \o r.out, next |-> r.next]
      [] v.t = "arr" ->
            LET x == Detach(v.items[1], next)  y == Detach(v.items[2], x.next)
            IN [value |-> Arr(<<x.value, y.value>>), out |-> x.out \o y.out, next |-> y.next]
      [] OTHER -> [value |-> v, out |-> <<>>, next |-> next]

\* walk_refs
RECURSIVE Refs(_)
Refs(v) ==
    CASE v.t = "map" /\ v.datum /\ v.blob.t = "ref" -> <<v.blob>>
      [] v.t = "map" /\ ~(v.datum /\ v.blob.t = "ref") -> Refs(v.blob) \o Refs(v.rest)
      [] v.t = "arr" -> Refs(v.items[1]) \o Refs(v.items[2])
      [] OTHER -> <<>>

\* splice: the bytes go in place of the first reference to the stream.
RECURSIVE Splice(_, _, _)
Splice(v, stream, b) ==
    LET first(x, y) ==
            LET s == Splice(x, stream, b)
            IN IF s.found THEN <<s, [value |-> y, found |-> TRUE]>> ELSE <<s, Splice(y, stream, b)>>
    IN CASE v.t = "map" /\ v.datum /\ v.blob.t = "ref" /\ v.blob.stream = stream ->
               [value |-> [v EXCEPT !.blob = Bin(b)], found |-> TRUE]
         [] v.t = "map" /\ ~(v.datum /\ v.blob.t = "ref" /\ v.blob.stream = stream) ->
               LET p == first(v.blob, v.rest)
               IN [value |-> [v EXCEPT !.blob = p[1].value, !.rest = p[2].value], found |-> p[2].found]
         [] v.t = "arr" ->
               LET p == first(v.items[1], v.items[2])
               IN [value |-> Arr(<<p[1].value, p[2].value>>), found |-> p[2].found]
         [] OTHER -> [value |-> v, found |-> FALSE]

\* hydrate, where collect_attachment returns the bytes sent on the stream.
RECURSIVE Hydrate(_, _, _)
Hydrate(v, references, sent) ==
    IF references = <<>> THEN v
    ELSE LET stream == Head(references).stream
             i == CHOOSE j \in DOMAIN sent : sent[j].stream = stream
         IN Hydrate(Splice(v, stream, sent[i].bytes).value, Tail(references), sent)

-------------------------------------------------------------------------------
VARIABLE payload
payloadVars == <<payload>>

PayloadInit == payload \in Nested \cup MapsOf(Nested)
PayloadNext == payload.t = "map" /\ \E y \in Leaves : payload' = Arr(<<payload, y>>)

\* What the receiver restores is the value the sender had, each blob in the place
\* it came from; the receiver opens exactly the streams the sender sends on, each
\* a stream of its own (detach and refs walk alike).
PayloadRoundTrips ==
    LET d == Detach(payload, 1)  r == Refs(d.value)
    IN /\ [i \in DOMAIN r |-> r[i].stream] = [i \in DOMAIN d.out |-> d.out[i].stream]
       /\ Cardinality({d.out[i].stream : i \in DOMAIN d.out}) = Len(d.out)
       /\ Hydrate(d.value, r, d.out) = payload
===============================================================================
