-------------------------------- MODULE Screen --------------------------------
(***************************************************************************)
(* A picture of a display, and the pointer moved to a place seen in it:    *)
(* screenshot and list_displays (zyris-capkit/src/screen), then move_to    *)
(* (zyris-capkit/src/input/enigo_input.rs), by a caller who follows the    *)
(* description that came with the picture.                                 *)
(*                                                                         *)
(* A monitor has an id, a name, an origin and the size of its picture; the *)
(* origin is given in one dimension.  xcap reports geometry in a space of  *)
(* its own, and may know no scale.  The layout does not change between the *)
(* two calls.  macOS, which divides back, is left out, and so is where     *)
(* Xwayland puts a position that XTEST is given.  The lock of move_to is   *)
(* in module Input.                                                        *)
(***************************************************************************)
EXTENDS Integers, Sequences

CONSTANTS Desks,       \* [os, session, socket, screencopy, measurable, scale, monitors]:
                       \* XDG_SESSION_TYPE is wayland, the WAYLAND_DISPLAY ("none",
                       \* "wayland", "other"), what the compositor answers, xcap's scale
                       \* [num, den] (num 0 for none)
          Regions,     \* regions asked for, NoRegion for none
          NoRegion,
          MaxWidths,   \* max_width asked for, 0 for none
          Ratios,      \* percent: what one fit pass aims for
          MinAuto,     \* MIN_AUTO_WIDTH
          FitPasses    \* FIT_PASSES

VARIABLES
    scDesk,
    scAt,        \* "idle", "fitting", "sent", "moved", "refused", "error"
    scMonitor,   \* index of the monitor captured
    scWanted,    \* the display asked for, "" for none
    scRegion,
    scSize,      \* [w, h] of the picture
    scPasses,    \* fit passes
    scNote,      \* the description: [id, milli, x, y]
    scPoint,     \* the place in the picture the caller means
    scLocal,     \* the display-local position given to move_to
    scPointer    \* [on, x]: where the pointer was sent

scVars == <<scDesk, scAt, scMonitor, scWanted, scRegion, scSize, scPasses, scNote, scPoint,
            scLocal, scPointer>>

Most(a, b) == IF a > b THEN a ELSE b
Distance(a, b) == IF a > b THEN a - b ELSE b - a
Monitor(i) == scDesk.monitors[i]
NoNote == [id |-> "", milli |-> 1000, x |-> 0, y |-> 0]
NoPlace == [x |-> 0, y |-> 0]

-------------------------------------------------------------------------------
(* xcap_backend.rs and wayland_backend.rs *)

\* ScreenBackend::detect, and is_available.
detect == IF scDesk.socket # "none" /\ scDesk.screencopy THEN "Wayland" ELSE "Xcap"

looks_like_wayland == scDesk.session \/ scDesk.socket = "wayland"

rule_for ==
    IF scDesk.os = "windows" THEN "AsCaptured"
    ELSE IF looks_like_wayland THEN "Xwayland" ELSE "ScaledDown"

\* A display without a scale is not scaled.
display_scale(scale) == IF scale.num > 0 THEN scale ELSE [num |-> 1, den |-> 1]

\* Nearest integer to a * num / den; the origins that are multiplied are not negative.
Times(a, scale) == (2 * a * scale.num + scale.den) \div (2 * scale.den)
Cut(a, scale) == (a * scale.den) \div scale.num
Ceil(scale) == (scale.num + scale.den - 1) \div scale.den
Geometry(m, G(_)) == [m EXCEPT !.x = G(@), !.w = G(@), !.h = G(@)]

\* External: xcap divides the X screen's geometry by the scale and cuts it to an integer.
\* The X screen is the picture, or under Xwayland its logical size times a whole scale.
XcapReports(m) ==
    LET s == display_scale(scDesk.scale)
    IN  CASE rule_for = "AsCaptured" -> m
          [] rule_for = "ScaledDown" -> Geometry(m, LAMBDA a : Cut(a, s))
          [] rule_for = "Xwayland" -> Geometry(m, LAMBDA a : Cut(Cut(a, s) * Ceil(s), s))

\* wl_output: the mode is the picture's size, and the origin is a logical one scaled.
describe_output(m) ==
    LET s == display_scale(scDesk.scale) IN [m EXCEPT !.x = Times(Cut(@, s), s)]

\* What wl_output says of the same display, if it can be asked.
geometry_of(m) == IF scDesk.measurable THEN {describe_output(m)} ELSE {}


correct(display, geometry) ==
    IF rule_for = "AsCaptured" THEN display
    ELSE IF rule_for = "Xwayland" /\ geometry # {} THEN CHOOSE g \in geometry : TRUE
    ELSE Geometry(display, LAMBDA a : Times(a, display_scale(scDesk.scale)))

describe(m) == correct(XcapReports(m), geometry_of(m))

displays ==
    [i \in DOMAIN scDesk.monitors |->
        IF detect = "Wayland" THEN describe_output(Monitor(i)) ELSE describe(Monitor(i))]

\* A Wayland output is primary if it covers the origin.
is_primary(m) == IF detect = "Wayland" THEN m.x <= 0 /\ m.x + m.w > 0 ELSE m.primary

FirstOf(found) == {i \in found : \A j \in found : i <= j}

\* An id before a name; select also has an answer for no display.
resolve(ds, wanted) ==
    LET byId == {i \in DOMAIN ds : ds[i].id = wanted}
    IN  FirstOf(IF byId # {} THEN byId ELSE {i \in DOMAIN ds : ds[i].name = wanted})

select(ds, wanted) ==
    LET primary == {i \in DOMAIN ds : is_primary(ds[i])}
    IN  IF wanted # "" THEN resolve(ds, wanted)
        ELSE FirstOf(IF primary # {} THEN primary ELSE DOMAIN ds)

-------------------------------------------------------------------------------
(* screenshot *)

ScInit ==
    /\ scDesk \in Desks /\ scAt = "idle" /\ scMonitor = 0 /\ scWanted = "" /\ scRegion = NoRegion
    /\ scSize = [w |-> 0, h |-> 0] /\ scPasses = 0 /\ scNote = NoNote /\ scPoint = NoPlace
    /\ scLocal = NoPlace /\ scPointer = [on |-> 0, x |-> 0]

\* The rectangle captured, in pixels of monitor m.
Captured(m, region) == IF region = NoRegion THEN [x |-> 0, y |-> 0, w |-> m.w, h |-> m.h] ELSE region

Within(m, r) ==
    /\ r.x >= 0 /\ r.y >= 0 /\ r.w > 0 /\ r.h > 0
    /\ r.x + r.w <= m.w /\ r.y + r.h <= m.h

downscale(size, max) ==
    IF max = 0 \/ size.w <= max THEN size
    ELSE [w |-> max, h |-> Most((size.h * max) \div size.w, 1)]

Screenshot(wanted, region, max) ==
    /\ scAt = "idle"
    /\ \E i \in select(scDesk.monitors, wanted) :
        LET r == Captured(Monitor(i), region)
        IN  /\ Within(Monitor(i), r)
            /\ scMonitor' = i /\ scSize' = downscale([w |-> r.w, h |-> r.h], max)
    /\ scAt' = "fitting" /\ scWanted' = wanted /\ scRegion' = region
    /\ UNCHANGED <<scDesk, scPasses, scNote, scPoint, scLocal, scPointer>>

\* No such display, a region that is not within it, a capture or an encoder that fails.
ScreenshotFails ==
    /\ scAt \in {"idle", "fitting"}
    /\ scAt' = "error"
    /\ UNCHANGED <<scDesk, scMonitor, scWanted, scRegion, scSize, scPasses, scNote, scPoint, scLocal,
                   scPointer>>

\* A picture over the budget is made smaller.  The ratio is below 0.95, so of the clamp to
\* MIN_AUTO_WIDTH .. width - 1 only the lower end is met.
FitPass(ratio) ==
    /\ scAt = "fitting" /\ scPasses < FitPasses /\ scSize.w > MinAuto
    /\ scSize' = downscale(scSize, Most((scSize.w * ratio) \div 100, MinAuto))
    /\ scPasses' = scPasses + 1
    /\ UNCHANGED <<scDesk, scAt, scMonitor, scWanted, scRegion, scNote, scPoint, scLocal, scPointer>>

\* {scale:.3}: the nearest number of thousandths to a / b.
Thousandths(a, b) == {q \in (1000 * a) \div b .. (1000 * a) \div b + 1 : 2 * Distance(q * b, 1000 * a) <= b}

describe_capture(m, region, size) ==
    LET r == Captured(m, region)
    IN  {[id |-> m.id, milli |-> q, x |-> r.x, y |-> r.y] : q \in Thousandths(r.w, size.w)}

\* The picture fits, or is sent as it is.
SendPicture ==
    /\ scAt = "fitting"
    /\ scNote' \in describe_capture(Monitor(scMonitor), scRegion, scSize)
    /\ scAt' = "sent"
    /\ UNCHANGED <<scDesk, scMonitor, scWanted, scRegion, scSize, scPasses, scPoint, scLocal, scPointer>>

-------------------------------------------------------------------------------
(* move_to *)

\* External: image coordinates times the factor, then the origin; the result is rounded
\* down, or to the nearest.
Follow(p, how) ==
    [x |-> (p.x * scNote.milli + how) \div 1000 + scNote.x,
     y |-> (p.y * scNote.milli + how) \div 1000 + scNote.y]

local(d, at) == at.x \in 0 .. d.w - 1 /\ at.y \in 0 .. d.h - 1

\* target adds the display's origin; on wlroots move_on_output names the output instead,
\* and the compositor has the origin.
target(d, i, at) == [on |-> i, x |-> (IF detect = "Wayland" THEN Monitor(i).x ELSE d.x) + at.x]

MoveTo(p, how, wanted) ==
    /\ scAt = "sent"
    /\ scPoint' = p /\ scLocal' = Follow(p, how)
    /\ LET found == {i \in resolve(displays, wanted) : local(displays[i], Follow(p, how))}
       IN  IF found = {} THEN scAt' = "refused" /\ UNCHANGED scPointer
           ELSE /\ scAt' = "moved"
                /\ \E i \in found : scPointer' = target(displays[i], i, Follow(p, how))
    /\ UNCHANGED <<scDesk, scMonitor, scWanted, scRegion, scSize, scPasses, scNote>>

\* The layout cannot be read, or the event fails.
MoveFails ==
    /\ scAt = "sent"
    /\ scAt' = "error"
    /\ UNCHANGED <<scDesk, scMonitor, scWanted, scRegion, scSize, scPasses, scNote, scPoint, scLocal,
                   scPointer>>

\* Corners and the middle of the picture; the display as it was named, or as described.
ScNext ==
    \/ \E wanted \in {"", "1", "2", "3"}, region \in Regions, max \in MaxWidths :
            Screenshot(wanted, region, max)
    \/ \E ratio \in Ratios : FitPass(ratio)
    \/ SendPicture \/ ScreenshotFails \/ MoveFails
    \/ \E x \in {0, scSize.w \div 2, scSize.w - 1}, y \in {0, scSize.h - 1}, how \in {0, 500} :
        \E wanted \in {scNote.id, scWanted} \ {""} : MoveTo([x |-> x, y |-> y], how, wanted)

-------------------------------------------------------------------------------
ScTypeOK ==
    /\ scAt \in {"idle", "fitting", "sent", "moved", "refused", "error"}
    /\ scAt \notin {"idle", "error"} => scSize.w >= 1 /\ scSize.h >= 1
    /\ scPasses \in 0 .. FitPasses

\* Geometry known to the pixel, and geometry that lost what xcap cut off.
Exact == detect = "Wayland" \/ rule_for = "AsCaptured"
CutOnce == detect = "Xcap" /\ rule_for = "ScaledDown"
SizesMeasured == detect = "Xcap" /\ rule_for = "Xwayland" /\ scDesk.measurable

\* How far the note's three decimals, the caller's rounding and cut geometry may lead.
Slack == 2 + scSize.w \div 2000 + (IF CutOnce THEN Ceil(display_scale(scDesk.scale)) ELSE 0)

===============================================================================
