----------------------------- MODULE MCComponents -----------------------------
(***************************************************************************)
(* The components whose safety is checked, side by side: the initial state *)
(* picks the one that runs, and the others keep one initial state.         *)
(***************************************************************************)
EXTENDS Handshake, Payloads, Enroll, Tofu, Exec, SendTo, Listen, Wire, Sanitize, Names, Input,
        Screen, FileIo

(* Handshake: the shortest periods, and a timeout that exceeds its minimum. *)
MCHeartbeats == {[interval |-> 1, timeout |-> 1], [interval |-> 1, timeout |-> 3]}

(* Payloads: one blob that stays inline, and two that do not. *)
MCBlobs == {<<1>>, <<1, 2>>, <<2, 1>>}

(* Wire: an empty body, a body of one byte, and one that is too long. *)
MCBodies == {<<>>, <<0>>, <<1, 0, 1>>}

(* Sanitize: texts of up to five, or four, characters and control sequences. *)
UpTo(U, n) == UNION {[1 .. k -> U] : k \in 1 .. n}
RECURSIVE Flat(_)
Flat(s) == IF s = <<>> THEN <<>> ELSE Head(s) \o Flat(Tail(s))
Few == {<<27>>, <<93>>, <<92>>, <<109>>, <<195, 169>>}
Many == {<<27>>, <<91>>, <<48>>, <<109>>, <<7>>, <<13>>, <<10>>, <<226, 130, 172>>}
MCTexts == {Flat(s) : s \in UpTo(Few, 5) \cup UpTo(Many, 4)}

(* Input *)
MCChords ==
    [segs : UpTo({"ctrl", "a", ""}, 2) \cup {<<"ctrl", "shift", "a">>, <<"ctrl", "ctrl", "a">>},
     plus : BOOLEAN]

(* Screen: a desk of each kind, one monitor whose id is the other's name, sizes at which  *)
(* the factor rounds up and the cut geometry loses a pixel, a monitor of three rows.      *)
OneMonitor(id, name, x, w, h, primary) ==
    [id |-> id, name |-> name, x |-> x, w |-> w, h |-> h, primary |-> primary]
MCMonitors ==
    {<<OneMonitor("1", "2", 0, 1366, 768, FALSE), OneMonitor("2", "1", 1366, 3840, 2160, TRUE)>>,
     <<OneMonitor("1", "3", 0, 1001, 3, FALSE)>>}
DesksOf(os, session, socket, screencopy, measurable) ==
    [os : {os}, session : {session}, socket : {socket}, screencopy : {screencopy},
     measurable : {measurable}, monitors : MCMonitors,
     scale : {[num |-> 0, den |-> 1], [num |-> 5, den |-> 4]}]
MCDesks ==
    DesksOf("windows", FALSE, "none", FALSE, FALSE) \cup DesksOf("linux", FALSE, "none", FALSE, FALSE)
    \cup DesksOf("linux", TRUE, "wayland", TRUE, TRUE) \cup DesksOf("linux", TRUE, "wayland", FALSE, TRUE)
    \cup DesksOf("linux", TRUE, "none", FALSE, FALSE) \cup DesksOf("linux", FALSE, "other", FALSE, TRUE)
MCRegions ==
    {NoRegion, [x |-> 0, y |-> 0, w |-> 0, h |-> 0], [x |-> 300, y |-> 1, w |-> 701, h |-> 2],
     [x |-> 7, y |-> 9, w |-> 1300, h |-> 755]}

(* FileIo: an empty file, one with three matches of which two overlap, one with a character *)
(* that a page may split, and one that is not text.                                         *)
MCFiles == {<<>>, <<1, 1, 1>>, <<1, 195, 169, 2>>, <<1, 195>>}
MCDatas == {<<2>>, <<1, 1>>}
MCFileEdits ==
    {[old |-> <<1>>, new |-> <<1, 2>>, all |-> TRUE], [old |-> <<1, 1>>, new |-> <<>>, all |-> FALSE],
     [old |-> <<1>>, new |-> <<2>>, all |-> FALSE]}

VARIABLE part

componentVars == <<part, hsVars, payloadVars, enVars, tfVars, exVars, stVars, lsVars, wrVars,
                   saVars, nameVars, inVars, scVars, fiVars>>

Init ==
    /\ part \in {"handshake", "payloads", "enroll", "tofu", "exec", "send",
                "listen", "wire", "sanitize", "names", "input", "screen", "files"}
    /\ EnInit /\ TfInit /\ NameInit /\ InInit
    /\ (part = "handshake" \/ hsMajor = [e \in Ends |-> 1]) /\ HsInit
    /\ (part = "payloads" \/ payload = Scalar) /\ PayloadInit
    /\ (part = "exec" \/ (exTool = "exec" /\ exBudget = None)) /\ ExInit
    /\ (part = "send" \/ (stHolder = (CHOOSE m \in Machines : TRUE) /\ stFile = 1)) /\ StInit
    /\ (part = "listen" \/ lsEnrolled = TRUE) /\ LsInit
    /\ (part = "wire" \/ wrKind = "quic") /\ WrInit
    /\ (part = "sanitize" \/ saText = <<27>>) /\ SaInit
    /\ (part = "screen" \/ scDesk = (CHOOSE d \in Desks : TRUE)) /\ ScInit
    /\ (part = "files" \/ (fiPath = Absent /\ fiData = <<<<>>>>)) /\ FiInit

Next ==
    /\ UNCHANGED part
    /\ \/ part = "handshake" /\ HsNext
          /\ UNCHANGED <<payloadVars, enVars, tfVars, exVars, stVars, lsVars, wrVars, saVars, nameVars, inVars, scVars, fiVars>>
       \/ part = "payloads" /\ PayloadNext
          /\ UNCHANGED <<hsVars, enVars, tfVars, exVars, stVars, lsVars, wrVars, saVars, nameVars, inVars, scVars, fiVars>>
       \/ part = "enroll" /\ EnNext
          /\ UNCHANGED <<hsVars, payloadVars, tfVars, exVars, stVars, lsVars, wrVars, saVars, nameVars, inVars, scVars, fiVars>>
       \/ part = "tofu" /\ TfNext
          /\ UNCHANGED <<hsVars, payloadVars, enVars, exVars, stVars, lsVars, wrVars, saVars, nameVars, inVars, scVars, fiVars>>
       \/ part = "exec" /\ ExNext
          /\ UNCHANGED <<hsVars, payloadVars, enVars, tfVars, stVars, lsVars, wrVars, saVars, nameVars, inVars, scVars, fiVars>>
       \/ part = "send" /\ StNext
          /\ UNCHANGED <<hsVars, payloadVars, enVars, tfVars, exVars, lsVars, wrVars, saVars, nameVars, inVars, scVars, fiVars>>
       \/ part = "listen" /\ LsNext
          /\ UNCHANGED <<hsVars, payloadVars, enVars, tfVars, exVars, stVars, wrVars, saVars, nameVars, inVars, scVars, fiVars>>
       \/ part = "wire" /\ WrNext
          /\ UNCHANGED <<hsVars, payloadVars, enVars, tfVars, exVars, stVars, lsVars, saVars, nameVars, inVars, scVars, fiVars>>
       \/ part = "sanitize" /\ SaNext
          /\ UNCHANGED <<hsVars, payloadVars, enVars, tfVars, exVars, stVars, lsVars, wrVars, nameVars, inVars, scVars, fiVars>>
       \/ part = "names" /\ NameNext
          /\ UNCHANGED <<hsVars, payloadVars, enVars, tfVars, exVars, stVars, lsVars, wrVars, saVars, inVars, scVars, fiVars>>
       \/ part = "input" /\ InNext
          /\ UNCHANGED <<hsVars, payloadVars, enVars, tfVars, exVars, stVars, lsVars, wrVars, saVars, nameVars, scVars, fiVars>>
       \/ part = "screen" /\ ScNext
          /\ UNCHANGED <<hsVars, payloadVars, enVars, tfVars, exVars, stVars, lsVars, wrVars, saVars, nameVars, inVars, fiVars>>
       \/ part = "files" /\ FiNext
          /\ UNCHANGED <<hsVars, payloadVars, enVars, tfVars, exVars, stVars, lsVars, wrVars, saVars, nameVars, inVars, scVars>>

Spec == Init /\ [][Next]_componentVars
===============================================================================
