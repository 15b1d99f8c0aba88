----------------------------- MODULE RouteSearch -----------------------------
(***************************************************************************)
(* Weather routing (orca_kernels/routing.py): A* over a grid from which    *)
(* geofenced and too shallow cells are removed.  One step of the machine   *)
(* is one turn of plan_route's loop: pop the cheapest entry of the heap,   *)
(* finish if it is the goal, relax its neighbours.                         *)
(*                                                                         *)
(* Costs are hundredths, waves, winds and currents tenths, lengths tenths  *)
(* of a cell.  Lengths are rounded up, everywhere alike: what is rounded up *)
(* keeps the triangle inequality that the exact lengths have.              *)
(***************************************************************************)
EXTENDS Integers, Sequences, FiniteSetsExt, Absent

CONSTANT Charts   \* [cells, minDepth, start, goal, costFn]: the searches that may be asked for

\* A cell's place in the grid is its key.
GridCell == [wave : Int, wind : Int, east : Int, north : Int, depth : Int \cup {None}, blocked : BOOLEAN]

ASSUME RoutesAssumption ==
    \* None is neither a reason nor a verdict
    /\ None \notin {"out_of_coverage", "constraint_violation"}
    /\ \A c \in Charts :
        /\ DOMAIN c.cells \subseteq Int \X Int /\ IsFiniteSet(DOMAIN c.cells)
        /\ \A p \in DOMAIN c.cells : c.cells[p] \in GridCell
        /\ c.minDepth \in Int \cup {None}
        /\ c.start \in Int \X Int /\ c.goal \in Int \X Int
        \* a cost function of the caller prices every leg, each at something
        /\ c.costFn = None \/ c.costFn \in [(DOMAIN c.cells) \X (DOMAIN c.cells) -> Nat \ {0}]
        /\ None \notin [reason : {None, "out_of_coverage", "constraint_violation"},
                        path : Seq(DOMAIN c.cells), cost : Nat \cup {None}]

VARIABLES chart, open, best, cameFrom, counter, route

routeVars == <<chart, open, best, cameFrom, counter, route>>

BaseCost == 10
NeighbourOffsets ==
    << <<-1, 0>>, <<1, 0>>, <<0, -1>>, <<0, 1>>, <<-1, -1>>, <<-1, 1>>, <<1, -1>>, <<1, 1>> >>

Magnitude(n) == IF n < 0 THEN -n ELSE n

Cells(c) == DOMAIN c.cells
Hypot(a, b) == Min({n \in 0..(10 * (Magnitude(a) + Magnitude(b))) : n * n >= 100 * (a * a + b * b)})
Between(p, q) == Hypot(q[1] - p[1], q[2] - p[2])

IsNavigable(c, p) ==
    /\ ~c.cells[p].blocked
    /\ c.minDepth = None \/ c.cells[p].depth = None \/ c.cells[p].depth >= c.minDepth

\* What a cell costs per unit of length, against a current gain in its favour.
\* It is floored so that no leg is free.
Rate(cell, gain) == LET r == BaseCost + 2 * cell.wave + (6 * cell.wind) \div 100 - gain
                    IN  IF r > 1 THEN r ELSE 1

\* The current of the target cell projected on the direction of travel.
ProjectedCurrent(cell, p, q) ==
    LET along == (q[2] - p[2]) * cell.east + (q[1] - p[1]) * cell.north
    IN  IF p[1] # q[1] /\ p[2] # q[2] THEN (7 * along) \div 10 ELSE along

TraverseCost(c, p, q) ==
    Rate(c.cells[q], ProjectedCurrent(c.cells[q], p, q)) * Between(p, q)

\* step_cost: what a leg costs, by the caller's function where there is one.
LegCost(c, costFn, p, q) == IF costFn = None THEN TraverseCost(c, p, q) ELSE costFn[<<p, q>>]
StepCost(c, p, q) == LegCost(c, c.costFn, p, q)

\* The floor of calm water, whatever the currents.
MutMinCostPerStepCalm(c) == BaseCost

\* min_cost_per_step: the best any navigable cell could offer.
MinCostPerStep(c) ==
    Min({BaseCost} \cup {Rate(c.cells[p], Hypot(c.cells[p].east, c.cells[p].north) \div 10) :
                            p \in {q \in Cells(c) : IsNavigable(c, q)}})

Heuristic(c, p) == Between(p, c.goal) * MinCostPerStep(c)

Step(p, offset) == <<p[1] + offset[1], p[2] + offset[2]>>

\* The places in NeighbourOffsets that lead to a cell that may be entered.
Ways(c, p) ==
    {i \in DOMAIN NeighbourOffsets :
        /\ Step(p, NeighbourOffsets[i]) \in Cells(c)
        /\ IsNavigable(c, Step(p, NeighbourOffsets[i]))}

Abstained(reason) == [reason |-> reason, path |-> <<>>, cost |-> None]

\* The path that came_from remembers, from the start to p.
Back(from, t) == IF t[1] \in DOMAIN from THEN <<from[t[1]]>> \o t ELSE t

Trail(from, p) ==
    LET back[n \in 0..Cardinality(DOMAIN from)] == IF n = 0 THEN <<p>> ELSE Back(from, back[n - 1])
    IN  back[Cardinality(DOMAIN from)]

RouteInit ==
    /\ chart \in Charts
    /\ counter = 0 /\ cameFrom = <<>>
    /\ IF ~({chart.start, chart.goal} \subseteq Cells(chart))
       THEN /\ route = Abstained("out_of_coverage")
            /\ open = {} /\ best = <<>>
       ELSE /\ route = IF IsNavigable(chart, chart.start) /\ IsNavigable(chart, chart.goal)
                       THEN None ELSE Abstained("constraint_violation")
            /\ open = {[f |-> Heuristic(chart, chart.start), at |-> 0, cell |-> chart.start]}
            /\ best = [p \in {chart.start} |-> 0]

Earlier(a, b) == a.f < b.f \/ (a.f = b.f /\ a.at <= b.at)
Cheapest == CHOOSE e \in open : \A o \in open : Earlier(e, o)

Exhausted ==
    /\ route = None /\ open = {}
    /\ route' = Abstained("constraint_violation")
    /\ UNCHANGED <<chart, open, best, cameFrom, counter>>

Arrive ==
    /\ route = None /\ open # {} /\ Cheapest.cell = chart.goal
    /\ route' = [reason |-> None, path |-> Trail(cameFrom, chart.goal), cost |-> best[chart.goal]]
    /\ UNCHANGED <<chart, open, best, cameFrom, counter>>

\* The neighbours that the popped cell reaches more cheaply than before.
Improved(p) ==
    {i \in Ways(chart, p) :
        LET q == Step(p, NeighbourOffsets[i]) IN
        q \notin DOMAIN best \/ best[p] + StepCost(chart, p, q) < best[q]}

Merge(new, old) == [q \in DOMAIN new \cup DOMAIN old |-> IF q \in DOMAIN new THEN new[q] ELSE old[q]]

Relax ==
    /\ route = None /\ open # {} /\ Cheapest.cell # chart.goal
    /\ LET p     == Cheapest.cell
           to    == {Step(p, NeighbourOffsets[i]) : i \in Improved(p)}
           costs == [q \in to |-> best[p] + StepCost(chart, p, q)]
           entry(i) == LET q == Step(p, NeighbourOffsets[i]) IN
                       [f    |-> costs[q] + Heuristic(chart, q),
                        at   |-> counter + Cardinality({j \in Improved(p) : j <= i}),
                        cell |-> q]
       IN  /\ best' = Merge(costs, best)
           /\ cameFrom' = Merge([q \in to |-> p], cameFrom)
           /\ open' = (open \ {Cheapest}) \cup {entry(i) : i \in Improved(p)}
           /\ counter' = counter + Cardinality(Improved(p))
    /\ UNCHANGED <<chart, route>>

RouteNext == Exhausted \/ Arrive \/ Relax

RouteSpec == RouteInit /\ [][RouteNext]_routeVars

\* What the legs of a path cost together.
CostAlong(c, costFn, path) ==
    LET upTo[n \in 0..(Len(path) - 1)] ==
            IF n = 0 THEN 0 ELSE upTo[n - 1] + LegCost(c, costFn, path[n], path[n + 1])
    IN  upTo[Len(path) - 1]

\* Python rounds halves to the even neighbour.
RoundHalfEven(n, d) ==
    LET q == n \div d   r == 2 * (n % d) IN
    IF r > d \/ (r = d /\ q % 2 = 1) THEN q + 1 ELSE q

Steps(c) == Max({Magnitude(c.goal[1] - c.start[1]), Magnitude(c.goal[2] - c.start[2])})

\* great_circle_baseline: what the straight line costs by the water alone, or
\* None when a cell it enters is not navigable.
OnTheLine(c, k) ==
    IF k = 0 THEN c.start
    ELSE <<c.start[1] + RoundHalfEven((c.goal[1] - c.start[1]) * k, Steps(c)),
           c.start[2] + RoundHalfEven((c.goal[2] - c.start[2]) * k, Steps(c))>>

GreatCircleBaseline(c) ==
    IF ~({c.start, c.goal} \subseteq Cells(c)) THEN None
    ELSE IF \E k \in 1..Steps(c) :
              OnTheLine(c, k) \notin Cells(c) \/ ~IsNavigable(c, OnTheLine(c, k)) THEN None
    ELSE CostAlong(c, None, [k \in 1..(Steps(c) + 1) |-> OnTheLine(c, k - 1)])

-----------------------------------------------------------------------------
\* The reference: <<cell, cost>> for every cell that can be reached in at most
\* n moves and the least cost of doing so.
Adjacent(p, q) == p # q /\ Magnitude(q[1] - p[1]) <= 1 /\ Magnitude(q[2] - p[2]) <= 1

Further(c, known) ==
    LET onward == UNION {{<<q, w[2] + StepCost(c, w[1], q)>> :
                          q \in {r \in Cells(c) : Adjacent(w[1], r) /\ IsNavigable(c, r)}} : w \in known}
        all    == known \cup onward
    IN  {w \in all : \A o \in all : o[1] = w[1] => w[2] <= o[2]}

Reached(c, n) ==
    LET within[k \in 0..n] == IF k = 0 THEN {<<c.start, 0>>} ELSE Further(c, within[k - 1])
    IN  within[n]

ReachableCosts(c) == {w[2] : w \in {v \in Reached(c, Cardinality(Cells(c)) - 1) : v[1] = c.goal}}

\* No leg undercuts the floor that the heuristic counts with, which is read off
\* the water and not off a cost function of the caller.
KeepsTheFloor(c) ==
    c.costFn = None \/
    LET floor == MinCostPerStep(c) IN
    \A p, q \in Cells(c) : (Adjacent(p, q) /\ IsNavigable(c, q)) => c.costFn[<<p, q>>] >= Between(p, q) * floor

\* "A* keeps its optimality guarantee" (routing.py:17) and a route is whole:
\* what is returned runs over navigable neighbouring cells from the start to
\* the goal and costs no less than its legs do, and a search that gives up had
\* no way at all, whatever prices the legs.  Where the legs keep the floor, a
\* route costs what its legs cost and no more than the cheapest way.
RouteIsCheapest ==
    /\ (route # None /\ route.reason = None) =>
         LET n == Len(route.path)  legs == CostAlong(chart, chart.costFn, route.path) IN
         /\ route.path[1] = chart.start /\ route.path[n] = chart.goal
         /\ \A i \in 1..n : IsNavigable(chart, route.path[i])
         /\ \A i \in 1..(n - 1) : Adjacent(route.path[i], route.path[i + 1])
         /\ legs <= route.cost
         /\ KeepsTheFloor(chart) => legs = route.cost /\ {route.cost} = ReachableCosts(chart)
    /\ (route # None /\ route.reason = "constraint_violation"
          /\ IsNavigable(chart, chart.start) /\ IsNavigable(chart, chart.goal)) => ReachableCosts(chart) = {}

\* The same guarantee whatever prices the legs: the heuristic's floor stays the
\* water's when the caller's function is cheaper.
AnyCostIsMinimised ==
    (route # None /\ route.reason = None) => {route.cost} = ReachableCosts(chart)

\* The naive line is a benchmark, never a better answer: where it can be sailed
\* from a navigable start, a search that prices legs as the line is priced finds
\* a route no dearer.
StraightLineNeverWins ==
    (/\ route # None /\ chart.costFn = None /\ GreatCircleBaseline(chart) # None
     /\ IsNavigable(chart, chart.start))
    => route.reason = None /\ route.cost <= GreatCircleBaseline(chart)

\* "Returns None when the straight line crosses a blocked cell" (routing.py:358):
\* there is no line where the search has no start.
LineObeysTheFences ==
    (route # None /\ GreatCircleBaseline(chart) # None) => route.reason = None

\* "Geofences are hard removals ... a route that crosses the line" is the
\* failure mode (routing.py:13): no leg squeezes between two blocked cells.
CornersAreNotCut ==
    (route # None /\ route.reason = None) =>
        \A i \in 1..(Len(route.path) - 1) :
            LET p == route.path[i]  q == route.path[i + 1] IN
            (p[1] # q[1] /\ p[2] # q[2]) =>
                ~(chart.cells[<<p[1], q[2]>>].blocked /\ chart.cells[<<q[1], p[2]>>].blocked)
=============================================================================
