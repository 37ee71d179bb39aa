------------------------------ MODULE RemoteCall ------------------------------
(***************************************************************************)
(* What the application sees of its calls, whatever happens underneath: a  *)
(* call is issued, returns or is given up; the items of a streaming call   *)
(* then arrive one after the other, the stream ends only after the last of *)
(* them, and nothing arrives once it has ended, broken or been dropped.    *)
(* Module Calls implements this one on a hop that loses nothing.           *)
(***************************************************************************)
EXTENDS Naturals

CONSTANTS Calls, Streaming, Length

VARIABLES state,     \* state[c]: what the application knows of the call
          delivered  \* delivered[c]: how many items it has been given

vars == <<state, delivered>>

Init ==
    /\ state = [c \in Calls |-> "idle"]
    /\ delivered = [c \in Calls |-> 0]

Move(c, from, to) ==
    /\ state[c] = from
    /\ state' = [state EXCEPT ![c] = to]
    /\ UNCHANGED delivered

Issue(c) == Move(c, "idle", "calling")

Return(c) ==
    \/ Move(c, "calling", IF c \in Streaming THEN "open" ELSE "returned")
    \/ Move(c, "calling", "failed")

GiveUp(c) == Move(c, "calling", "abandoned") \/ Move(c, "open", "dropped")

Deliver(c) ==
    /\ state[c] = "open"
    /\ delivered[c] < Length[c]
    /\ delivered' = [delivered EXCEPT ![c] = @ + 1]
    /\ UNCHANGED state

End(c) == delivered[c] = Length[c] /\ Move(c, "open", "ended")

Break(c) == Move(c, "open", "broken")

Next ==
    \E c \in Calls : Issue(c) \/ Return(c) \/ GiveUp(c) \/ Deliver(c) \/ End(c) \/ Break(c)

Spec == Init /\ [][Next]_vars
===============================================================================
