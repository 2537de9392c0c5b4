---------------------------- MODULE NyaTraceMap ----------------------------
(***************************************************************************)
(* The map window (nyatrace_map.qml, through the calls of nyatrace_map.cpp *)
(* that the main window makes in its own thread): points of located        *)
(* addresses, a line through the hops of a trace, and a tooltip.  A place  *)
(* is a tuple <<kind, run, city>>: a row of a lookup or a trace, and where *)
(* its address is said to be.  The map only looks at the city.             *)
(***************************************************************************)
EXTENDS Integers, Sequences, SequencesExt

CONSTANTS
  PathIsCopy, \* external: does reading `path' of a MapPolyline copy it?
  NoTip       \* a tooltip that is not visible

ASSUME MapAssumption == PathIsCopy \in BOOLEAN

VARIABLES
  drewPoints,  \* the cities that drawHopPoint remembers
  points,      \* the groups of items on the map, by place
  tracingLine, \* its path: hops and their places
  mapTooltip   \* the row whose texts it shows and the place it is at, or NoTip

mapVars == <<drewPoints, points, tracingLine, mapTooltip>>

City(place) == place[3]

MapInit ==
  /\ drewPoints = {}
  /\ points = {}
  /\ tracingLine = <<>>
  /\ mapTooltip = NoTip

\* drawHopPoint
DrawPoint(place) ==
  IF City(place) \in drewPoints
    THEN UNCHANGED <<drewPoints, points>>
    ELSE /\ drewPoints' = drewPoints \union {City(place)}
         /\ points' = points \union {place}

\* connectLine, of a path and the next hop
ConnectLine(path, hop, place) == Append(path, [hop |-> hop, place |-> place])

\* gotoCoordinate
SetTextAndGoto(row, place) == mapTooltip' = [row |-> row, place |-> place]

\* removeCoordinate: the last point of the path at that city.
WithoutLast(path, city) ==
  LET hits == {i \in DOMAIN path : City(path[i].place) = city}
  IN IF hits = {} THEN path ELSE RemoveAt(path, CHOOSE i \in hits : \A j \in hits : j <= i)

\* Faulty: a hop is left when the next lies in the same city.
UncutPath(path) ==
  SelectSeq(path, LAMBDA p : Len(SelectSeq(path, LAMBDA q : City(q.place) = City(p.place))) > 1)

\* One round of the loop over `path' that removes from it; `left' is what
\* the rounds before have left.
CutOnce(path, left, i) ==
  IF PathIsCopy THEN WithoutLast(left, City(path[i].place))
  ELSE IF i <= Len(left) THEN WithoutLast(left, City(left[i].place))
  ELSE left

\* The path after the loop.
CutPath(path) ==
  LET left[i \in 0 .. Len(path)] ==
        IF i = 0 THEN path ELSE CutOnce(path, left[i - 1], i)
  IN left[Len(path)]

\* Faulty: the cities stay marked as drawn.
ForgetNothing == drewPoints

ForgetDrawn == {}

\* Faulty: what the tooltip says stays on the cleared map.
KeepTooltip == mapTooltip

HideTooltip == NoTip

\* clearMap
ClearAll ==
  /\ points' = {}
  /\ tracingLine' = CutPath(tracingLine)
  /\ mapTooltip' = HideTooltip
  /\ drewPoints' = ForgetDrawn
=============================================================================
