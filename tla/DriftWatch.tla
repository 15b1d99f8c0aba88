----------------------------- MODULE DriftWatch -----------------------------
(***************************************************************************)
(* Time to the maritime boundary (orca_geo/drift.py over geofence.py): the *)
(* boat is advanced along its course over ground, its side of the line is  *)
(* sampled once a step, and the step in which the side first differs is    *)
(* bisected.                                                               *)
(*                                                                         *)
(* The geometry is what the boat meets along its course: the places at     *)
(* which its course crosses the line (the line has corners, so there may   *)
(* be more than one) and how far off the line it is abreast of none.       *)
(***************************************************************************)
EXTENDS Integers, Sequences, FiniteSetsExt, Absent

CONSTANTS Passages,   \* [speed, line, abreast, start, home]
          Horizon, StepSeconds, Tolerance,
          RedMetres, AmberMetres

ASSUME DriftAssumption ==
    /\ {Horizon, StepSeconds, Tolerance, RedMetres, AmberMetres} \subseteq Nat \ {0}
    /\ RedMetres < AmberMetres       \* BandThresholds.__post_init__

Sides == {"india", "sri_lanka"}

ASSUME PassagesAssumption ==
    /\ None \notin Nat \cup Sides /\ None \notin [low : Nat, high : Nat]
    /\ \A p \in Passages :
          /\ p.speed \in Nat /\ p.abreast \in Nat /\ p.line \subseteq Nat /\ IsFiniteSet(p.line)
          /\ p.start \in Sides /\ p.home \in Sides \cup {None}

VARIABLES passage, elapsed, track, span, crossing, done

driftVars == <<passage, elapsed, track, span, crossing, done>>

Opposite(side) == IF side = "india" THEN "sri_lanka" ELSE "india"

Moved(p, seconds) == p.speed * seconds

\* side_of at a moment: the starting side, flipped by every crossing passed.
SideAt(p, seconds) ==
    IF Cardinality({c \in p.line : c <= Moved(p, seconds)}) % 2 = 0
    THEN p.start ELSE Opposite(p.start)

Gap(a, b) == IF a >= b THEN a - b ELSE b - a

DistanceAt(p, seconds) == Min({p.abreast} \cup {Gap(c, Moved(p, seconds)) : c \in p.line})

\* project: "home_side defaults to the side the vessel starts on".
SideToKeep(p) == IF p.home = None THEN p.start ELSE p.home

WarningBand(distance, crossed) ==
    IF crossed THEN "crossed"
    ELSE IF distance <= RedMetres THEN "red"
    ELSE IF distance <= AmberMetres THEN "amber" ELSE "clear"

ProximityAt(p, seconds) ==
    [at   |-> seconds,
     side |-> SideAt(p, seconds),
     band |-> WarningBand(DistanceAt(p, seconds), SideAt(p, seconds) # SideToKeep(p))]

DriftInit ==
    /\ passage \in Passages
    /\ elapsed = 0 /\ track = <<>> /\ span = None /\ crossing = None /\ done = FALSE

\* The moment before which the boat was last seen on its side.
Before == IF track = <<>> THEN 0 ELSE track[Len(track)].at

\* One turn of project's loop; a flip opens the span to bisect before the
\* next sample is taken.
Sample ==
    /\ ~done /\ span = None /\ elapsed <= Horizon
    /\ track' = Append(track, ProximityAt(passage, elapsed))
    /\ span' = IF crossing = None /\ SideAt(passage, elapsed) # SideToKeep(passage)
               THEN [low |-> Before, high |-> elapsed] ELSE None
    /\ elapsed' = elapsed + StepSeconds
    /\ UNCHANGED <<passage, crossing, done>>

\* One turn of _bisect_crossing's loop.
Bisect ==
    /\ span # None /\ span.high - span.low > Tolerance
    /\ LET middle == (span.low + span.high) \div 2 IN
       span' = IF SideAt(passage, middle) = SideToKeep(passage)
               THEN [span EXCEPT !.low = middle] ELSE [span EXCEPT !.high = middle]
    /\ UNCHANGED <<passage, elapsed, track, crossing, done>>

Found ==
    /\ span # None /\ span.high - span.low <= Tolerance
    /\ crossing' = span.high
    /\ span' = None
    /\ UNCHANGED <<passage, elapsed, track, done>>

Report ==
    /\ ~done /\ span = None /\ elapsed > Horizon
    /\ done' = TRUE
    /\ UNCHANGED <<passage, elapsed, track, span, crossing>>

DriftNext == Sample \/ Bisect \/ Found \/ Report

DriftSpec == DriftInit /\ [][DriftNext]_driftVars

-----------------------------------------------------------------------------
Away(seconds) == SideAt(passage, seconds) # SideToKeep(passage)

\* A crossing that is reported is one: at that moment the boat is across, not
\* long before it was not (or it started across), and the sampled track and
\* the reported time tell the same story.
ReportedCrossingIsReal ==
    done =>
      /\ (crossing # None) <=> (\E i \in DOMAIN track : track[i].band = "crossed")
      /\ crossing # None =>
            /\ Away(crossing)
            /\ crossing = 0 \/ \E t \in Max({0, crossing - Tolerance})..crossing : ~Away(t)
            /\ \A i \in DOMAIN track : track[i].band = "crossed" => crossing <= track[i].at

\* A boat that holds its course across the line once, inside the horizon, is
\* told when, to within the tolerance and never after the sample that saw it.
SingleCrossingIsForeseen ==
    (done /\ passage.home = None /\ Cardinality(passage.line) = 1) =>
        LET first == {t \in 0..Horizon : Away(t)} IN
        IF first = {} THEN crossing = None
        ELSE crossing # None /\ Gap(crossing, Min(first)) <= Tolerance

\* "Warn before the crossing, not after" (drift.py:3), wherever the line turns.
EveryCrossingIsForeseen ==
    (done /\ passage.home = None /\ \E t \in 0..Horizon : Away(t)) => crossing # None
=============================================================================
