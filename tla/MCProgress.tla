------------------------------ MODULE MCProgress ------------------------------
(***************************************************************************)
(* The components whose liveness is checked, side by side: the initial     *)
(* state picks the one that runs, and the others keep their initial state. *)
(* In those no action with a fairness condition is enabled, so that the    *)
(* fairness of the others asks nothing of the one that runs.               *)
(***************************************************************************)
EXTENDS Link, Capabilities, Attachments, Terminal, Transfer

MCContents == [i \in Ids |-> IF i = 1 THEN <<1, 2>> ELSE <<2>>]
MCEdits == {<<3>>, <<1>>, <<1, 2, 2>>}    \* another file, a cut one, a longer one
MCLocal == <<9>>

VARIABLE part

progressVars == <<part, linkVars, capVars, atVars, tmVars, trVars>>

Init ==
    /\ part \in {"link", "capabilities", "attachments", "terminal", "transfer"}
    /\ LinkInit /\ CapInit /\ AtInit /\ TmInit /\ TrInit

Next ==
    /\ UNCHANGED part
    /\ \/ part = "link" /\ LinkNext /\ UNCHANGED <<capVars, atVars, tmVars, trVars>>
       \/ part = "capabilities" /\ CapNext /\ UNCHANGED <<linkVars, atVars, tmVars, trVars>>
       \/ part = "attachments" /\ AtNext /\ UNCHANGED <<linkVars, capVars, tmVars, trVars>>
       \/ part = "terminal" /\ TmNext /\ UNCHANGED <<linkVars, capVars, atVars, trVars>>
       \/ part = "transfer" /\ TrNext /\ UNCHANGED <<linkVars, capVars, atVars, tmVars>>

Spec ==
    /\ Init /\ [][Next]_progressVars
    /\ LinkFairness /\ CapFairness /\ AtFairness /\ TmFairness /\ TrFairness
===============================================================================
