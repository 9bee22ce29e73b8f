----------------------------- MODULE PlacementLogic -----------------------------
(***************************************************************************)
(* Where a placement puts a learner: laterStart and the placed unit of     *)
(* src/src/path-progress/placement.logic.ts.                               *)
(***************************************************************************)
EXTENDS UnitLogic

\* indexOf over the release's unit ids: null and unknown ids rank below all.
rank(units, unitId) == findUnit(units, unitId)

laterStart(units, current, placed) ==
    IF rank(units, placed) > rank(units, current) THEN placed ELSE current

\* gradePlacement's outcome when it places at position p: never past the last
\* unit, null at the first, and every unit before the placed one is skipped.
placedPositions(units) == 1 .. Later(1, Len(units))
placedUnit(units, p) == IF p > 1 THEN units[p].id ELSE None
skippedUnits(units, p) == {units[i].id : i \in 1 .. p - 1}
=============================================================================
