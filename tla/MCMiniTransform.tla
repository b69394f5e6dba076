--------------------------- MODULE MCMiniTransform ---------------------------
(***************************************************************************)
(* Small instances of MiniTransform for TLC: a calendar of two years whose *)
(* months have two days, the last one three, and rows that differ from a   *)
(* good one in their delivery period or in at most two other fields.       *)
(***************************************************************************)
EXTENDS MiniTransform, FiniteSets

\* Days 2, 4, ...: the first October begins with day 20, the last with day 44.
TwoDayMonths == [m \in 1..24 |-> 2 * m]

Good == [width |-> "whole", direction |-> "Exit", identity |-> "complete", point |-> "named",
         auction |-> 512, start |-> 534, end |-> 558,
         capacity |-> "enough", tariff |-> "given", surcharge |-> "none"]

Grid == [width: {"whole", "short"}, direction: {"Exit", "Exit/Entry", "other"},
         identity: {"complete", "missing"}, point: {"named", "blank"},
         auction: {BadTime, 48, 472, 512, 562}, start: {534}, end: {558},
         capacity: {"enough", "below", "unsupported", "huge"},
         tariff: {"given", "invalid", "unsupported", "huge"},
         surcharge: {"none", "given", "unsupported", "huge"}]

Differs(row) == {f \in DOMAIN row : row[f] # Good[f]}

\* Delivery periods around the gas-day boundary, the changes of the clock, and
\* the first days of months, quarters and years.
Starts == {BadTime, 486, 509, 510, 511, 530, 531, 534, 554, 558, 630}
Ends == {BadTime, 486, 510, 511, 531, 534, 535, 554, 558, 582, 630, 678, 774, 1062}

\* The first hours of the calendar, its last October and December, its last day.
Extremes == ({48, 49} \X {49, 54, 55}) \cup {<<49, 48>>, <<54, 78>>}
            \cup ({1062, 1158} \X {1110, 1158, 1182, 1206})
            \cup ({1206, 1207} \X {1207, 1208})

Periods == {[Good EXCEPT !.auction = 480, !.start = p[1], !.end = p[2]] :
              p \in (Starts \X Ends) \cup Extremes}

SomeRows == {row \in Grid : Cardinality(Differs(row)) <= 2} \cup Periods

=============================================================================
