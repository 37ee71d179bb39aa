-------------------------------- MODULE Input --------------------------------
(***************************************************************************)
(* The input capability: parse_chord (zyris-capkit/src/input/chord.rs),    *)
(* and with and key of enigo_input.rs; move_to is in module Screen.        *)
(*                                                                         *)
(* Calls queue for the one mutex around the display connection and run on  *)
(* a blocking thread, so a caller that goes away stops nothing.  A chord   *)
(* is the segments between its + signs, and whether it ends in a literal   *)
(* plus.  Each event sent may fail, and the backend may panic.             *)
(***************************************************************************)
EXTENDS Naturals, Sequences

CONSTANTS InCalls,      \* concurrent calls
          Modifiers,    \* segments that modifier() knows
          KeyNames,     \* segments that named() knows
          Chords,       \* chords asked for: [segs, plus]
          NoCall

VARIABLES
    inAt,         \* call -> "idle", "queued", "running", "ok", "error"
    inChord,      \* call -> its parsed chord
    inHolder,     \* the call with the mutex
    inLeft,       \* modifiers still to press
    inHeld,       \* held
    inClicked,    \* the key itself was tried
    inErr,        \* result.is_err()
    inPoisoned,
    inDown,       \* modifiers the display server takes for pressed
    inStuck,      \* history: modifiers whose release failed
    inTyped       \* history: call -> the modifiers its key was pressed with

inVars == <<inAt, inChord, inHolder, inLeft, inHeld, inClicked, inErr, inPoisoned, inDown,
            inStuck, inTyped>>
chordState == <<inLeft, inHeld, inClicked, inErr>>

Bad == [ok |-> FALSE, mods |-> <<>>, key |-> ""]

-------------------------------------------------------------------------------
(* parse_chord *)

\* A body that is empty splits into one empty segment, and is skipped.
parse_chord(c) ==
    LET bodyEmpty == c.segs = <<"">>
        mods == SelectSeq(c.segs, LAMBDA s : s \in Modifiers)
        keys == SelectSeq(c.segs, LAMBDA s : s \notin Modifiers \cup {""})
                    \o (IF c.plus THEN <<"+">> ELSE <<>>)
    IN  CASE bodyEmpty /\ ~c.plus -> Bad
          [] ~bodyEmpty /\ (\E i \in DOMAIN c.segs : c.segs[i] = "") -> Bad
          [] \E i \in DOMAIN keys : keys[i] \notin KeyNames \cup {"+"} -> Bad
          [] Len(keys) > 1 -> Bad
          [] Len(keys) = 1 -> [ok |-> TRUE, mods |-> mods, key |-> keys[1]]
          [] Len(keys) = 0 /\ Len(mods) = 1 -> [ok |-> TRUE, mods |-> <<>>, key |-> mods[1]]
          [] OTHER -> Bad

InInit ==
    /\ inAt = [t \in InCalls |-> "idle"] /\ inChord = [t \in InCalls |-> Bad]
    /\ inHolder = NoCall /\ inLeft = <<>> /\ inHeld = <<>> /\ inClicked = FALSE /\ inErr = FALSE
    /\ inPoisoned = FALSE /\ inDown = {} /\ inStuck = {}
    /\ inTyped = [t \in InCalls |-> {}]

-------------------------------------------------------------------------------
(* key *)

KeyCall(t, c) ==
    /\ inAt[t] = "idle"
    /\ inChord' = [inChord EXCEPT ![t] = parse_chord(c)]
    /\ inAt' = [inAt EXCEPT ![t] = IF parse_chord(c).ok THEN "queued" ELSE "error"]
    /\ UNCHANGED <<inHolder, chordState, inPoisoned, inDown, inStuck, inTyped>>

\* with: the lock, refused once a call has panicked with it.
LockEnigo(t) ==
    /\ inAt[t] = "queued" /\ inHolder = NoCall
    /\ inAt' = [inAt EXCEPT ![t] = IF inPoisoned THEN "error" ELSE "running"]
    /\ inHolder' = IF inPoisoned THEN NoCall ELSE t
    /\ inLeft' = inChord[t].mods /\ inHeld' = <<>> /\ inClicked' = FALSE /\ inErr' = FALSE
    /\ UNCHANGED <<inChord, inPoisoned, inDown, inStuck, inTyped>>

PressModifier ==
    /\ inHolder # NoCall /\ inLeft # <<>> /\ ~inErr
    /\ \/ /\ inDown' = inDown \cup {Head(inLeft)} /\ inStuck' = inStuck \ {Head(inLeft)}
          /\ inHeld' = Append(inHeld, Head(inLeft)) /\ inLeft' = Tail(inLeft)
          /\ UNCHANGED inErr
       \/ inErr' = TRUE /\ UNCHANGED <<inDown, inStuck, inHeld, inLeft>>
    /\ UNCHANGED <<inAt, inChord, inHolder, inClicked, inPoisoned, inTyped>>

ClickKey ==
    /\ inHolder # NoCall /\ inLeft = <<>> /\ ~inErr /\ ~inClicked
    /\ inClicked' = TRUE
    /\ inErr' \in BOOLEAN
    /\ inTyped' = [inTyped EXCEPT ![inHolder] = inDown \ inStuck]
    /\ UNCHANGED <<inAt, inChord, inHolder, inLeft, inHeld, inPoisoned, inDown, inStuck>>

\* In reverse; a release that fails does not stop the others.
ReleaseModifier ==
    /\ inHolder # NoCall /\ (inErr \/ inClicked) /\ inHeld # <<>>
    /\ LET m == inHeld[Len(inHeld)]
       IN  /\ inHeld' = SubSeq(inHeld, 1, Len(inHeld) - 1)
           /\ \/ inDown' = inDown \ {m} /\ inStuck' = inStuck \ {m} /\ UNCHANGED inErr
              \/ inStuck' = inStuck \cup {m} /\ inErr' = TRUE /\ UNCHANGED inDown
    /\ UNCHANGED <<inAt, inChord, inHolder, inLeft, inClicked, inPoisoned, inTyped>>

\* Slip: an error returns at once, as a ? would.
KeyReturnsEarly ==
    /\ inHolder # NoCall /\ (inErr \/ (inClicked /\ inHeld = <<>>))
    /\ inAt' = [inAt EXCEPT ![inHolder] = IF inErr THEN "error" ELSE "ok"]
    /\ inHolder' = NoCall
    /\ UNCHANGED <<inChord, chordState, inPoisoned, inDown, inStuck, inTyped>>

KeyReturns ==
    /\ inHolder # NoCall /\ (inErr \/ inClicked) /\ inHeld = <<>>
    /\ inAt' = [inAt EXCEPT ![inHolder] = IF inErr THEN "error" ELSE "ok"]
    /\ inHolder' = NoCall
    /\ UNCHANGED <<inChord, chordState, inPoisoned, inDown, inStuck, inTyped>>

\* External: the backend panics, and the guard poisons the mutex.
EnigoPanics ==
    /\ inHolder # NoCall
    /\ inPoisoned' = TRUE /\ inHolder' = NoCall
    /\ inAt' = [inAt EXCEPT ![inHolder] = "error"]
    /\ UNCHANGED <<inChord, chordState, inDown, inStuck, inTyped>>

InNext ==
    \/ \E t \in InCalls :
        \/ \E c \in Chords : KeyCall(t, c)
        \/ LockEnigo(t)
    \/ PressModifier \/ ClickKey \/ ReleaseModifier \/ KeyReturns \/ EnigoPanics

-------------------------------------------------------------------------------
InTypeOK ==
    /\ inHolder \in InCalls \cup {NoCall}
    /\ inDown \subseteq Modifiers /\ inStuck \subseteq Modifiers
    /\ inHolder # NoCall => inAt[inHolder] = "running"

Pressed(t) == {inChord[t].mods[i] : i \in DOMAIN inChord[t].mods}

\* Between chords no modifier is down, other than one whose own release failed or one a
\* panic left, after which no chord is typed; and a chord that reports success was typed with
\* exactly its modifiers (key, with).
KeysComeUp ==
    /\ InTypeOK
    /\ inHolder = NoCall /\ ~inPoisoned => inDown \subseteq inStuck
    /\ \A t \in InCalls : inAt[t] = "ok" => Pressed(t) = inTyped[t]
===============================================================================
