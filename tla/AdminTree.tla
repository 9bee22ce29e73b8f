-------------------------------- MODULE AdminTree --------------------------------
(***************************************************************************)
(* The working copy as admins see it: buildAdminTree of                    *)
(* src/src/admin-path/admin-path.logic.ts, on the rows AdminPathService    *)
(* overview reads, archived ones included.                                 *)
(***************************************************************************)
EXTENDS ImportPlans

Origins == {"seed", "edited", "admin"}

node(row) ==
    [slug |-> row.record.slug, status |-> row.status, origin |-> rowOrigin(row)]

\* The rows of a kind, and those of them under a unit.
rowsOf(all, kind) == {row \in all : row.record.kind = kind}
inUnitRows(all, kind, unit) == {row \in rowsOf(all, kind) : row.record.unit = unit}

\* Rows in the order of their records.
sortedRows(some, before(_, _)) ==
    sorted(some, LAMBDA a, b : before(a.record, b.record))
nodes(some, before(_, _)) ==
    LET list == sortedRows(some, before)
    IN  [i \in DOMAIN list |-> node(list[i])]

unitNode(all, unit) ==
    LET under(kind) == inUnitRows(all, kind, unit.record.slug)
        items == under("item")
    IN  [node |-> node(unit),
         lessons |-> nodes(under("lesson"), byOrder),
         items |-> [total |-> Cardinality(items),
                    draft |-> Cardinality({i \in items : i.status = "DRAFT"}),
                    edited |-> Cardinality({i \in items : rowOrigin(i) # "seed"})],
         itemList |-> nodes(items, bySlug),
         dialogues |-> {node(d) : d \in under("dialogue")},
         dialogueCount |-> Cardinality(under("dialogue")),
         \* a Map by unit: one checkpoint of it, or none
         checkpoint |-> {node(c) : c \in {theOne(under("checkpoint"))} \ {None}}]

stageNode(all, stage) ==
    LET units == sortedRows({u \in rowsOf(all, "unit") :
                                u.record.stage = stage.record.slug}, byOrder)
    IN  [node |-> node(stage),
         units |-> [i \in DOMAIN units |-> unitNode(all, units[i])]]

totals(all) ==
    [t \in Statuses \union Origins |->
        Cardinality({row \in all : row.status = t \/ rowOrigin(row) = t})]

buildAdminTree(all) ==
    LET stages == sortedRows(rowsOf(all, "stage"), byOrder)
    IN  [stages |-> [s \in DOMAIN stages |-> stageNode(all, stages[s])],
         placements |-> nodes(rowsOf(all, "placement"), bySlug),
         totals |-> totals(all)]

-----------------------------------------------------------------------------
(* What the tree shows.                                                     *)

nodesOfUnit(unit) ==
    {unit.node} \union ToSet(unit.lessons) \union ToSet(unit.itemList)
        \union unit.dialogues \union unit.checkpoint

nodesOfTree(tree) ==
    ToSet(tree.placements) \union
    UNION {{tree.stages[s].node} \union
           UNION {nodesOfUnit(tree.stages[s].units[i]) :
                      i \in DOMAIN tree.stages[s].units} : s \in DOMAIN tree.stages}
=============================================================================
