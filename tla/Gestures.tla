------------------------------ MODULE Gestures ------------------------------
(***************************************************************************)
(* The viewer's photograph on its stage, and what moves it: the pointers   *)
(* of Gestures (packages/web, recipient/gestures.ts), the zoom, fit and    *)
(* pan buttons of Viewer.svelte, and a stage that changes size under both. *)
(* The owner's viewer is the same component.                               *)
(*                                                                         *)
(* Lengths are measured from the centre of the stage, in a unit that taps  *)
(* and presses cannot tell from no movement or can (TapSlop,               *)
(* DoubleTapSlop).  Pointers keep to a diagonal of the stage: a spot is    *)
(* how far along, the same on both axes.  Floating point is rounded down.  *)
(* How long a press lasted, and how long ago the last tap was, is either   *)
(* short enough or not.  Drawing is left out.                              *)
(***************************************************************************)
EXTENDS Integers, Sequences, SequencesExt

CONSTANTS
    StageSides,     \* what a side of the stage may measure
    PictureSides,   \* and a side of a photograph
    NoPicture,      \* the photograph is still loading
    Pointers,       \* pointer ids
    Reach,          \* bound: how far from the centre a pointer may be, in two steps
    One,            \* MIN_SCALE: the photograph fitted to its stage
    ZOOM_LEVELS,    \* the buttons' steps, in the unit of One
    DOUBLE_TAP_SCALE,
    TapSlop, DoubleTapSlop

ASSUME GestureAssumption ==
    /\ StageSides \subseteq Nat
    /\ PictureSides \subseteq Nat \ {0}  \* a picture of no size is not decoded
    /\ NoPicture \notin [{"x", "y"} -> PictureSides]
    /\ One \in Nat \ {0}
    /\ ZOOM_LEVELS \subseteq Nat /\ One \in ZOOM_LEVELS
    /\ \E most \in ZOOM_LEVELS : \A l \in ZOOM_LEVELS : l <= most
    /\ Reach \in Nat /\ DOUBLE_TAP_SCALE \in Nat

VARIABLES
    stage, picture,
    view,      \* [scale, x, y]: zoom, and how far the photograph is off centre
    pointers,  \* those down, in the order they landed: <<[id, at]>>
    start,     \* [view, at]: both when a pointer last landed or was lifted
    press,     \* the one pointer whose press may be a tap
    lastTap,   \* where the last tap was
    steered,   \* ghost: a button or the stage moved the photograph since `start`
    turned     \* ghost: the stage changed, and the photograph was not moved since

touch == <<pointers, start, press, lastTap>>
gestureVars == <<stage, picture, view, touch, steered, turned>>

Axes == {"x", "y"}
Untouched == [none |-> TRUE]
FIT == [scale |-> One, x |-> 0, y |-> 0]
Stages == [Axes -> StageSides]
Pictures == [Axes -> PictureSides]
Spots == {-Reach, 0, Reach}
MAX_SCALE == Max(ZOOM_LEVELS)
Within(low, n, high) == IF n < low THEN low ELSE IF n > high THEN high ELSE n

(***************************************************************************)
(* Zoom and pan (render.ts).                                               *)
(***************************************************************************)
fitOf ==
    IF stage.x * picture.y <= stage.y * picture.x
    THEN [x |-> stage.x, y |-> (stage.x * picture.y) \div picture.x]
    ELSE [x |-> (stage.y * picture.x) \div picture.y, y |-> stage.y]

panLimits(scale) ==
    [a \in Axes |-> Max({0, ((fitOf[a] * scale) \div One - stage[a]) \div 2})]

clampScale(n) == Within(One, n, MAX_SCALE)

clampView(v) ==
    LET lim == panLimits(v.scale)
    IN [scale |-> v.scale, x |-> Within(-lim.x, v.x, lim.x), y |-> Within(-lim.y, v.y, lim.y)]

\* What of the photograph was at `from` comes to `to`.
moveView(v, scale, from, to) ==
    LET s == clampScale(scale)
        Off(n) == to - ((from - n) * s) \div v.scale
    IN clampView([scale |-> s, x |-> Off(v.x), y |-> Off(v.y)])

isFitted(v) == v.scale <= One
canZoom == [out |-> view.scale > One, in |-> view.scale < MAX_SCALE]
canPan ==
    LET lim == panLimits(view.scale)
    IN [up |-> view.y < lim.y, down |-> view.y > -lim.y,
        left |-> view.x < lim.x, right |-> view.x > -lim.x]

\* The arrows on screen: those of an axis that overflows the stage.
panArrows ==
    LET lim == panLimits(view.scale)
    IN {d \in {"up", "down"} : lim.y > 0} \cup {d \in {"left", "right"} : lim.x > 0}

zoomBy(dir) ==
    LET next == IF dir = "in" THEN Min({l \in ZOOM_LEVELS : l > view.scale})
                ELSE Max({l \in ZOOM_LEVELS : l < view.scale})
    IN moveView(view, next, 0, 0)

\* "Move up" shows more of the top: the photograph moves down.
panBy(dir) ==
    LET quarter == [a \in Axes |-> stage[a] \div 4]
    IN clampView(CASE dir = "up" -> [view EXCEPT !.y = @ + quarter.y]
                   [] dir = "down" -> [view EXCEPT !.y = @ - quarter.y]
                   [] dir = "left" -> [view EXCEPT !.x = @ + quarter.x]
                   [] dir = "right" -> [view EXCEPT !.x = @ - quarter.x])

doubleTap(at) == IF isFitted(view) THEN moveView(view, DOUBLE_TAP_SCALE, at, at) ELSE FIT

(***************************************************************************)
(* The pointers (gestures.ts).                                             *)
(***************************************************************************)
dist(a, b) == IF a > b THEN a - b ELSE b - a
mid(a, b) == (a + b) \div 2

Scene == picture # NoPicture
IsDown(p) == \E i \in 1..Len(pointers) : pointers[i].id = p
Put(p, at) == [i \in 1..Len(pointers) |-> IF pointers[i].id = p THEN [id |-> p, at |-> at] ELSE pointers[i]]
Lifted(p) == RemoveAt(pointers, CHOOSE i \in 1..Len(pointers) : pointers[i].id = p)

rebaseKept_Mutant(now) ==
    IF now = <<>> THEN Untouched
    ELSE [view |-> IF start = Untouched THEN view ELSE start.view, at |-> now]

rebase(now) == IF now = <<>> THEN Untouched ELSE [view |-> view, at |-> now]

\* One pointer drags; the first two pinch, and pan with the point between them.
Moved(from, now) ==
    LET v == from.view
        a0 == from.at[1].at  a1 == now[1].at
    IN IF Len(now) = 1 THEN moveView(v, v.scale, a0, a1)
       ELSE LET b0 == from.at[2].at  b1 == now[2].at
                d0 == dist(a0, b0)
                scale == IF d0 > 0 THEN (v.scale * dist(a1, b1)) \div d0 ELSE v.scale
            IN moveView(v, scale, mid(a0, b0), mid(a1, b1))

PointerDown(p, at) ==
    /\ Scene /\ ~IsDown(p)
    /\ pointers' = Append(pointers, [id |-> p, at |-> at])
    /\ start' = rebase(pointers') /\ steered' = FALSE
    /\ IF pointers = <<>>
       THEN press' = [id |-> p, at |-> at, moved |-> FALSE] /\ UNCHANGED lastTap
       ELSE press' = Untouched /\ lastTap' = Untouched
    /\ UNCHANGED <<stage, picture, view, turned>>

PointerMove(p, at) ==
    /\ Scene /\ IsDown(p)
    /\ pointers' = Put(p, at)
    /\ press' = IF press # Untouched /\ press.id = p /\ dist(press.at, at) > TapSlop
                THEN [press EXCEPT !.moved = TRUE] ELSE press
    /\ view' = Moved(start, pointers')
    /\ steered' = FALSE /\ turned' = FALSE
    /\ UNCHANGED <<stage, picture, start, lastTap>>

IsTap(p, at) == press # Untouched /\ press.id = p /\ ~press.moved /\ dist(press.at, at) <= TapSlop

PointerUp(p, at) ==
    /\ Scene /\ IsDown(p)
    /\ pointers' = Lifted(p)
    /\ start' = rebase(pointers') /\ steered' = FALSE
    /\ press' = Untouched
    /\ \/ UNCHANGED <<lastTap, view, turned>>    \* no tap, or a press too long for one
       \/ IsTap(p, at) /\ lastTap' = [at |-> at] /\ UNCHANGED <<view, turned>>
       \/ /\ IsTap(p, at) /\ lastTap # Untouched /\ dist(lastTap.at, at) <= DoubleTapSlop
          /\ lastTap' = Untouched /\ view' = doubleTap(at) /\ turned' = FALSE
    /\ UNCHANGED <<stage, picture>>

PointerCancel(p) ==
    /\ Scene /\ IsDown(p)
    /\ pointers' = Lifted(p)
    /\ start' = rebase(pointers') /\ steered' = FALSE
    /\ press' = IF press # Untouched /\ press.id = p THEN Untouched ELSE press
    /\ UNCHANGED <<stage, picture, view, lastTap, turned>>

(***************************************************************************)
(* The component (Viewer.svelte).                                          *)
(***************************************************************************)
Forgets == pointers' = <<>> /\ start' = Untouched /\ press' = Untouched /\ lastTap' = Untouched
           /\ steered' = FALSE /\ turned' = FALSE

\* The photograph has come, or the viewer is closed and another is opened.
Shown(pic) ==
    /\ pic # picture /\ (pic = NoPicture \/ ~Scene)
    /\ picture' = pic /\ view' = FIT /\ Forgets
    /\ UNCHANGED stage

\* The effect that fits a new photograph reads it out of the page's state, and
\* runs again whenever that is replaced, as by a thumbnail that arrives.
Replaced ==
    /\ Scene
    /\ view' = FIT /\ Forgets
    /\ UNCHANGED <<stage, picture>>

Button(to) ==
    /\ view' = to
    /\ steered' = (pointers # <<>>) /\ turned' = FALSE
    /\ UNCHANGED <<stage, picture, touch>>

Zoom(dir) == Scene /\ canZoom[dir] /\ Button(zoomBy(dir))
Pan(dir) == Scene /\ dir \in panArrows /\ canPan[dir] /\ Button(panBy(dir))
Fit == Scene /\ canZoom.out /\ Button(FIT)

\* The screen is turned, or the browser's bars come and go.
Measure(size) ==
    /\ size # stage /\ stage' = size
    /\ steered' = (pointers # <<>>) /\ turned' = TRUE
    /\ UNCHANGED <<picture, view, touch>>

GesturesInit ==
    /\ stage \in Stages /\ picture = NoPicture /\ view = FIT
    /\ pointers = <<>> /\ start = Untouched /\ press = Untouched /\ lastTap = Untouched
    /\ steered = FALSE /\ turned = FALSE

GesturesNext ==
    \/ \E p \in Pointers : PointerCancel(p) \/ \E at \in Spots : PointerDown(p, at) \/ PointerMove(p, at) \/ PointerUp(p, at)
    \/ Replaced \/ \E pic \in Pictures \cup {NoPicture} : Shown(pic)
    \/ \E dir \in {"in", "out"} : Zoom(dir)
    \/ \E dir \in {"up", "down", "left", "right"} : Pan(dir)
    \/ Fit \/ \E size \in Stages : Measure(size)

GesturesSpec == GesturesInit /\ [][GesturesNext]_gestureVars

-----------------------------------------------------------------------------
(***************************************************************************)
(* Properties.                                                             *)
(***************************************************************************)

\* The photograph is where the fingers put it: with any of them down it lies as
\* they have carried it from where it lay when the last one landed or was
\* lifted, so neither makes it jump (gestures.ts, rebase); unless a button or
\* the stage moved it meanwhile.  Its edge stops at the stage's edge (render.ts,
\* panLimits), until the stage changes and it is not moved after that.  And no
\* way of moving it, in any order, displaces it with "Fit" switched off.
PhotoInHand ==
    /\ pointers # <<>> /\ ~steered /\ view = clampView(view) => view = Moved(start, pointers)
    /\ Scene /\ ~turned => view = clampView(view)
    /\ view # FIT => canZoom.out

=============================================================================
