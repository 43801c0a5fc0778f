------------------------------ MODULE MCIntake ------------------------------
(* Small instances of Intake for TLC. *)
EXTENDS Intake, TLC

CONSTANTS x1, x2

Utc(t) == [wall |-> t, offset |-> 0, zoned |-> TRUE]
East(t) == [wall |-> t, offset |-> 1, zoned |-> TRUE]
NoZone(t) == [wall |-> t, offset |-> 0, zoned |-> FALSE]

Item(id, start, end, number) ==
  [activityId |-> id, start |-> start, end |-> end, number |-> number, countries |-> "none"]

\* One payload of every kind: sound ones with and without an id; times without
\* zone, times with and without one, a stay that begins at the turn of the year
\* and one whose order only the zones reveal; a start in 2024; house numbers 0
\* and too large; an id and a list of countries of the wrong type.
MCItems ==
  {Item(x1, Utc(1), Utc(2), 1), Item(x2, Utc(1), Utc(3), 1),
   Item(EmptyId, NoZone(1), NoZone(2), 1), Item(x1, NoZone(1), Utc(2), 1),
   Item(x1, East(0), Utc(2), 1), Item(x1, Utc(1), East(2), 1), Item(x2, Utc(-1), Utc(3), 1),
   Item(NotText, Utc(1), Utc(2), 0), Item(x2, Utc(1), Utc(2), MaxInteger + 1),
   [Item(x1, Utc(1), Utc(2), 1) EXCEPT !.countries = "number"]}

MCFilenames ==
  {[length |-> 8, latin1 |-> TRUE], [length |-> 8, latin1 |-> FALSE],
   [length |-> MaxName + 1, latin1 |-> TRUE]}
=============================================================================
