--------------------------- MODULE VelocityEditor ---------------------------
(***************************************************************************)
(* The velocity curve editor of the web UI (web/components/                *)
(* VelocityCard.tsx): a curve is staged with presets, a gamma slider, an   *)
(* output clamp or points dragged on a canvas, and reaches the daemon only *)
(* when it is applied or saved.                                            *)
(***************************************************************************)
EXTENDS Integers, Sequences

CONSTANTS
    Top,        \* the largest velocity, 127 on the wire
    MaxPoints,  \* the most control points a curve may have
    Reach,      \* how near to a point, in velocities, a press takes hold of it
    VelOps      \* bound on the edits and requests

ASSUME TopAssumption == Top \in Nat /\ Top >= 2
ASSUME MaxPointsAssumption == MaxPoints \in Nat /\ MaxPoints >= 3
ASSUME ReachAssumption == Reach \in Nat /\ VelOps \in Nat

VARIABLES
    velMode,    \* "gamma" or "points"
    preset,     \* a preset's name, or "custom" once the slider was touched
    points,     \* the control points, pairs of velocities
    grabbed,    \* the index of the point being dragged, 0 when idle
    outMin,     \* the output clamp, 0 for the daemon's default
    outMax,
    label,      \* the curve the page says is active
    applied,    \* the daemon's curve
    asked,      \* requests on their way to the daemon
    answers,    \* its answers, each waited for by the click that asked
    announced,  \* the curves the daemon has announced on the event stream
    outrun,     \* the page took an answer after the event of a later curve
    velOps

canvas == <<velMode, preset, points, grabbed, outMin, outMax>>
velWire == <<label, applied, asked, answers, announced, outrun>>
velVars == <<canvas, velWire, velOps>>

Presets == {"soft", "linear", "hard"}
Velocities == 0..Top
----------------------------------------------------------------------------
\* What the daemon accepts (NewFromPoints).
AcceptablePoints(ps) ==
    /\ Len(ps) >= 2 /\ Len(ps) <= MaxPoints
    /\ \A i \in 1..Len(ps) : ps[i] \in Velocities \X Velocities
    /\ ps[1] = <<0, 0>> /\ ps[Len(ps)][1] = Top
    /\ \A i \in 2..Len(ps) :
          ps[i - 1][1] < ps[i][1] /\ ps[i - 1][2] <= ps[i][2]

Floor == IF outMin = 0 THEN 1 ELSE outMin
Ceiling == IF outMax = 0 THEN Top ELSE outMax

\* velMap on the points: interpolated, rounded and clamped.
VelMap(v) ==
    LET i == CHOOSE j \in 2..Len(points) :
                points[j - 1][1] < v /\ v <= points[j][1]
        dx == points[i][1] - points[i - 1][1]
        dy == points[i][2] - points[i - 1][2]
        rise == (2 * dy * (v - points[i - 1][1]) + dx) \div (2 * dx)
        out == points[i - 1][2] + rise
        floored == IF out < Floor THEN Floor ELSE out
        capped == IF floored > Ceiling THEN Ceiling ELSE floored
    IN  IF v = 0 THEN 0 ELSE IF capped < 1 THEN 1 ELSE capped

----------------------------------------------------------------------------
VelInit ==
    /\ velMode = "gamma" /\ preset = "linear" /\ outMin = 0 /\ outMax = 0
    /\ points = <<<<0, 0>>, <<(Top + 1) \div 2, (Top + 1) \div 2>>, <<Top, Top>>>>
    /\ grabbed = 0
    /\ label = "linear" /\ applied = "linear"
    /\ asked = {} /\ answers = {} /\ announced = <<>> /\ outrun = FALSE
    /\ velOps = 0

VelSpend == velOps < VelOps /\ velOps' = velOps + 1

SetModeBoth ==
    /\ VelSpend
    /\ velMode' = "points"
    /\ UNCHANGED <<preset, points, grabbed, outMin, outMax, velWire>>

\* A preset, or the slider, which leaves the presets.
PickPreset(name) ==
    /\ VelSpend
    /\ preset' = name /\ velMode' = "gamma"
    /\ UNCHANGED <<points, grabbed, outMin, outMax, velWire>>

OnClamp(v) ==
    /\ VelSpend
    /\ \/ outMin' = v /\ UNCHANGED outMax
       \/ outMax' = v /\ UNCHANGED outMin
    /\ UNCHANGED <<velMode, preset, points, grabbed, velWire>>

----------------------------------------------------------------------------
\* The canvas. A press or a move is at a pair of velocities.

Near(p, q) ==
    /\ p[1] - q[1] \in -Reach..Reach
    /\ p[2] - q[2] \in -Reach..Reach

\* The first point within reach, 0 when there is none.
HitPoint(at) ==
    LET hits == {i \in 1..Len(points) : Near(points[i], at)}
    IN  IF hits = {} THEN 0 ELSE CHOOSE i \in hits : \A j \in hits : i <= j

Between(v, lo, hi) ==
    IF v < lo THEN (IF lo < hi THEN lo ELSE hi)
    ELSE IF v > hi THEN hi ELSE v

\* The first point that is not left of x.
Right(x) == CHOOSE i \in 1..Len(points) :
                points[i][1] >= x /\ \A j \in 1..(i - 1) : points[j][1] < x

Insert(i, p) ==
    [k \in 1..(Len(points) + 1) |->
        IF k < i THEN points[k] ELSE IF k = i THEN p ELSE points[k - 1]]
Remove(i) ==
    [k \in 1..(Len(points) - 1) |-> IF k < i THEN points[k] ELSE points[k + 1]]

Free(x) == x > 0 /\ \A i \in 1..Len(points) : points[i][1] # x

\* A press takes hold of a point, of a new one where there is none yet.
PressHit(at) ==
    /\ HitPoint(at) # 0
    /\ grabbed' = HitPoint(at)
    /\ UNCHANGED points

\* A PressMiss that leaves the new point at the height it was pressed.
PressMiss_AsPressed(at) ==
    /\ HitPoint(at) = 0 /\ Len(points) < MaxPoints /\ Free(at[1])
    /\ points' = Insert(Right(at[1]), at)
    /\ grabbed' = Right(at[1])

PressMiss(at) ==
    LET i == Right(at[1]) IN
    /\ HitPoint(at) = 0 /\ Len(points) < MaxPoints /\ Free(at[1])
    /\ points' = Insert(i, <<at[1],
                             Between(at[2], points[i - 1][2], points[i][2])>>)
    /\ grabbed' = i

VelPointerDown(at) ==
    /\ velMode = "points" /\ VelSpend
    /\ PressHit(at) \/ PressMiss(at)
    /\ UNCHANGED <<velMode, preset, outMin, outMax, velWire>>

\* Where a dragged point may go: the last one keeps its place, an inner one
\* stays between its neighbours.
MoveTo(i, at) ==
    IF i = Len(points)
    THEN <<Top, Between(at[2], points[i - 1][2], Top)>>
    ELSE <<Between(at[1], points[i - 1][1] + 1, points[i + 1][1] - 1),
           Between(at[2], points[i - 1][2], points[i + 1][2])>>

\* The first point is fixed; a point that is gone is not moved.
VelPointerMove(at) ==
    /\ velMode = "points" /\ grabbed > 1 /\ grabbed <= Len(points)
    /\ points' = [points EXCEPT ![grabbed] = MoveTo(grabbed, at)]
    /\ UNCHANGED <<velMode, preset, grabbed, outMin, outMax, velWire, velOps>>

\* Nothing is done when the browser cancels a press: the point stays in hand.
VelPointerUp ==
    /\ grabbed # 0
    /\ grabbed' = 0
    /\ UNCHANGED <<velMode, preset, points, outMin, outMax, velWire, velOps>>

\* A double click removes a point, but neither the first nor the last.
VelDoubleClick(at) ==
    /\ velMode = "points" /\ VelSpend
    /\ HitPoint(at) > 1 /\ HitPoint(at) < Len(points)
    /\ points' = Remove(HitPoint(at))
    /\ UNCHANGED <<velMode, preset, grabbed, outMin, outMax, velWire>>

----------------------------------------------------------------------------
\* Apply and Save.

\* Only what the daemon looks at: the curve's name in its answers and events,
\* and whether it accepts the curve.
Body ==
    [curve |-> IF velMode = "points" THEN "points" ELSE preset,
     valid |-> /\ Floor <= Ceiling
               /\ velMode = "points" => AcceptablePoints(points)]

SendCurve ==
    /\ VelSpend
    /\ asked' = asked \cup {Body}
    /\ UNCHANGED <<canvas, label, applied, answers, announced, outrun>>

TakeCurve(b) ==
    /\ b \in asked
    /\ asked' = asked \ {b}
    /\ IF b.valid
       THEN /\ applied' = b.curve
            /\ announced' = Append(announced, b.curve)
       ELSE UNCHANGED <<applied, announced>>
    /\ answers' = answers \cup {b}
    /\ UNCHANGED <<canvas, label, outrun, velOps>>

\* The answer is lost, or the daemon cannot write its config: nothing is
\* applied and the page shows an error only.
CurveFails(b) ==
    /\ b \in asked
    /\ asked' = asked \ {b}
    /\ UNCHANGED <<canvas, label, applied, answers, announced, outrun, velOps>>

\* An Answered that takes an error for an acceptance.
Answered_AnyStatus(b) ==
    /\ b \in answers
    /\ answers' = answers \ {b}
    /\ label' = b.curve
    /\ outrun' = (b.valid /\ b.curve # applied /\ announced = <<>>)
    /\ UNCHANGED <<canvas, applied, asked, announced, velOps>>

\* The page believes the answer, also one that a later curve's event outran.
Answered(b) ==
    /\ b \in answers
    /\ answers' = answers \ {b}
    /\ IF b.valid
       THEN /\ label' = b.curve
            /\ outrun' = (b.curve # applied /\ announced = <<>>)
       ELSE UNCHANGED <<label, outrun>>
    /\ UNCHANGED <<canvas, applied, asked, announced, velOps>>

HearCurve ==
    /\ announced # <<>>
    /\ label' = Head(announced) /\ announced' = Tail(announced)
    /\ outrun' = FALSE
    /\ UNCHANGED <<canvas, applied, asked, answers, velOps>>

\* A patch switch, from anywhere, resolves the curve anew from the config.
PatchResolves(name) ==
    /\ VelSpend
    /\ applied' = name /\ announced' = Append(announced, name)
    /\ UNCHANGED <<canvas, label, asked, answers, outrun>>

----------------------------------------------------------------------------
VelNext ==
    \/ SetModeBoth
    \/ \E name \in Presets \cup {"custom"} : PickPreset(name)
    \/ \E v \in {0, 1, Top} : OnClamp(v)
    \/ \E at \in Velocities \X Velocities :
          VelPointerDown(at) \/ VelPointerMove(at) \/ VelDoubleClick(at)
    \/ VelPointerUp
    \/ SendCurve
    \/ \E b \in asked : TakeCurve(b) \/ CurveFails(b)
    \/ \E b \in answers : Answered(b)
    \/ HearCurve
    \/ \E name \in Presets : PatchResolves(name)

VelSpec == VelInit /\ [][VelNext]_velVars

----------------------------------------------------------------------------
\* Whatever is pressed, dragged and removed on the canvas, with one finger or
\* several, the staged points are points the daemon accepts; and the curve
\* drawn from them and the clamp, which is the curve it would play, never falls
\* and never turns a played note into a release (velocity.go:59-66, 137-147).
CurveIsAcceptable ==
    /\ AcceptablePoints(points)
    /\ LET drawn == [v \in Velocities |-> VelMap(v)]
       IN  drawn[0] = 0 /\ \A v \in 1..Top : drawn[v] >= 1 /\ drawn[v - 1] <= drawn[v]

\* Once answers and events are through, the page names the curve that plays,
\* also after one that was refused, unless an answer was outrun.
LabelNamesCurve ==
    (asked = {} /\ answers = {} /\ announced = <<>> /\ ~outrun) =>
        label = applied
=============================================================================
