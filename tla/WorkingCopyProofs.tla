---------------------------- MODULE WorkingCopyProofs ----------------------------
(***************************************************************************)
(* What the working copy keeps, for every content, set of requests and     *)
(* number of processes: the tree admins see shows every row, a move can be *)
(* undone, what is published is in the newest release, and what imports    *)
(* keep and complete.  The last three hold when nobody commits in between: *)
(* each says what it asks of the others.                                   *)
(***************************************************************************)
EXTENDS PublishedContent, AuthoringProofs

-----------------------------------------------------------------------------
(* The tree admins see.                                                     *)

\* An order by a number, then by another one that tells all apart.
LEMMA TwoNumbersOrder ==
    ASSUME NEW S, NEW R, NEW first, NEW second,
           \A a \in S : first[a] \in Nat /\ second[a] \in Nat,
           \A a, b \in S : second[a] = second[b] => a = b,
           \A a, b \in S : <<a, b>> \in R <=>
               \/ first[a] < first[b]
               \/ first[a] = first[b] /\ second[a] < second[b]
    PROVE  Orders(R, S)
<1>1. \A a \in S : <<a, a>> \notin R
  OBVIOUS
<1>2. \A a, b \in S : a # b => <<a, b>> \in R \/ <<b, a>> \in R
  OBVIOUS
<1>3. ASSUME NEW a \in S, NEW b \in S, NEW c \in S, <<a, b>> \in R, <<b, c>> \in R
      PROVE  <<a, c>> \in R
  <2>1. /\ first[a] \in Nat /\ first[b] \in Nat /\ first[c] \in Nat
        /\ second[a] \in Nat /\ second[b] \in Nat /\ second[c] \in Nat
    OBVIOUS
  <2>2. /\ \/ first[a] < first[b]
           \/ first[a] = first[b] /\ second[a] < second[b]
        /\ \/ first[b] < first[c]
           \/ first[b] = first[c] /\ second[b] < second[c]
    BY <1>3
  <2> QED  BY <2>1, <2>2
<1> QED  BY <1>1, <1>2, <1>3 DEF Orders

\* Rows of the working copy, or of a table of it.
SomeRows(some) ==
    /\ IsFiniteSet(some) /\ some \subseteq Row
    /\ \A row \in some : row.record.slug \in ToSet(Slugs)
    /\ \A a, b \in some : a.record.slug = b.record.slug => a = b

\* Sorted by slug they are all there, each once.
LEMMA RowsBySlug ==
    ASSUME NEW some, SomeRows(some)
    PROVE  ToSet(sortedRows(some, bySlug)) = some
<1> DEFINE R == {pair \in some \X some : bySlug(pair[1].record, pair[2].record)}
           seq == [i \in 1 .. Cardinality(some) |-> CHOOSE r \in some : RankIn(r, some, R) = i]
           placed(i) == CHOOSE r \in some : RankIn(r, some, R) = i
           counted(i) == CHOOSE r \in some :
               1 + Cardinality({q \in some : bySlug(q.record, r.record)}) = i
<1>1. PICK at : /\ \A s \in ToSet(Slugs) :
                      at[s] \in Nat /\ at[s] \in DOMAIN Slugs /\ Slugs[at[s]] = s
                /\ \A a, b : a.slug \in ToSet(Slugs) /\ b.slug \in ToSet(Slugs) =>
                      (bySlug(a, b) <=> at[a.slug] < at[b.slug])
  BY SlugPlaces
<1>2. Orders(R, some)
  <2> DEFINE first == [r \in some |-> 0]
             second == [r \in some |-> at[r.record.slug]]
  <2>1. \A a, b \in some : <<a, b>> \in R <=> bySlug(a.record, b.record)
    OBVIOUS
  <2>2. \A a, b \in some : <<a, b>> \in R <=> second[a] < second[b]
    <3> HIDE DEF R
    <3> QED  BY <1>1, <2>1 DEF SomeRows
  <2>3. \A a \in some : first[a] = 0 /\ second[a] \in Nat
    BY <1>1 DEF SomeRows
  <2>4. \A a, b \in some : second[a] = second[b] => a = b
    <3> SUFFICES ASSUME NEW a \in some, NEW b \in some, second[a] = second[b] PROVE a = b
      OBVIOUS
    <3>1. a.record.slug = b.record.slug
      BY <1>1 DEF SomeRows
    <3> QED  BY <3>1 DEF SomeRows
  <2> HIDE DEF R, first, second
  <2> QED  BY <2>2, <2>3, <2>4, TwoNumbersOrder
<1>3. Enumerates(seq, some, R)
  <2> HIDE DEF R
  <2> QED  BY <1>2, PlacesEnumerate DEF SomeRows
<1>4. \A r \in some : RankIn(r, some, R)
          = 1 + Cardinality({q \in some : bySlug(q.record, r.record)})
  <2> SUFFICES ASSUME NEW r \in some
               PROVE  RankIn(r, some, R)
                          = 1 + Cardinality({q \in some : bySlug(q.record, r.record)})
    OBVIOUS
  <2>1. {q \in some : <<q, r>> \in R} = {q \in some : bySlug(q.record, r.record)}
    OBVIOUS
  <2> QED  BY <2>1 DEF RankIn
<1>5. \A i : placed(i) = counted(i)
  <2> HIDE DEF R
  <2> QED  BY <1>4
<1>6. sortedRows(some, bySlug) = [i \in 1 .. Cardinality(some) |-> counted(i)]
  BY DEF sortedRows, sorted
<1>7. seq = [i \in 1 .. Cardinality(some) |-> placed(i)]
  OBVIOUS
<1> HIDE DEF placed, counted, seq, R
<1>8. sortedRows(some, bySlug) = seq
  BY <1>5, <1>6, <1>7
<1> QED  BY <1>3, <1>8 DEF Enumerates, ToSet

\* So they are sorted by position.
LEMMA RowsByOrder ==
    ASSUME NEW some, SomeRows(some), \A row \in some : row.record.order \in Nat
    PROVE  ToSet(sortedRows(some, byOrder)) = some
<1> DEFINE R == {pair \in some \X some : byOrder(pair[1].record, pair[2].record)}
           seq == [i \in 1 .. Cardinality(some) |-> CHOOSE r \in some : RankIn(r, some, R) = i]
           placed(i) == CHOOSE r \in some : RankIn(r, some, R) = i
           counted(i) == CHOOSE r \in some :
               1 + Cardinality({q \in some : byOrder(q.record, r.record)}) = i
<1>1. PICK at : /\ \A s \in ToSet(Slugs) :
                      at[s] \in Nat /\ at[s] \in DOMAIN Slugs /\ Slugs[at[s]] = s
                /\ \A a, b : a.slug \in ToSet(Slugs) /\ b.slug \in ToSet(Slugs) =>
                      (bySlug(a, b) <=> at[a.slug] < at[b.slug])
  BY SlugPlaces
<1>2. Orders(R, some)
  <2> DEFINE first == [r \in some |-> r.record.order]
             second == [r \in some |-> at[r.record.slug]]
  <2>1. \A a, b \in some : <<a, b>> \in R <=> byOrder(a.record, b.record)
    OBVIOUS
  <2>2. \A a, b \in some : <<a, b>> \in R <=>
            \/ first[a] < first[b]
            \/ first[a] = first[b] /\ second[a] < second[b]
    <3> HIDE DEF R
    <3> QED  BY <1>1, <2>1 DEF SomeRows, byOrder
  <2>3. \A a \in some : first[a] \in Nat /\ second[a] \in Nat
    BY <1>1 DEF SomeRows
  <2>4. \A a, b \in some : second[a] = second[b] => a = b
    <3> SUFFICES ASSUME NEW a \in some, NEW b \in some, second[a] = second[b] PROVE a = b
      OBVIOUS
    <3>1. a.record.slug = b.record.slug
      BY <1>1 DEF SomeRows
    <3> QED  BY <3>1 DEF SomeRows
  <2> HIDE DEF R, first, second
  <2> QED  BY <2>2, <2>3, <2>4, TwoNumbersOrder
<1>3. Enumerates(seq, some, R)
  <2> HIDE DEF R
  <2> QED  BY <1>2, PlacesEnumerate DEF SomeRows
<1>4. \A r \in some : RankIn(r, some, R)
          = 1 + Cardinality({q \in some : byOrder(q.record, r.record)})
  <2> SUFFICES ASSUME NEW r \in some
               PROVE  RankIn(r, some, R)
                          = 1 + Cardinality({q \in some : byOrder(q.record, r.record)})
    OBVIOUS
  <2>1. {q \in some : <<q, r>> \in R} = {q \in some : byOrder(q.record, r.record)}
    OBVIOUS
  <2> QED  BY <2>1 DEF RankIn
<1>5. \A i : placed(i) = counted(i)
  <2> HIDE DEF R
  <2> QED  BY <1>4
<1>6. sortedRows(some, byOrder) = [i \in 1 .. Cardinality(some) |-> counted(i)]
  BY DEF sortedRows, sorted
<1>7. seq = [i \in 1 .. Cardinality(some) |-> placed(i)]
  OBVIOUS
<1> HIDE DEF placed, counted, seq, R
<1>8. sortedRows(some, byOrder) = seq
  BY <1>5, <1>6, <1>7
<1> QED  BY <1>3, <1>8 DEF Enumerates, ToSet

\* So they are as nodes of the tree.
LEMMA NodesOfAll ==
    ASSUME NEW some, SomeRows(some)
    PROVE  /\ ToSet(nodes(some, bySlug)) = {node(row) : row \in some}
           /\ (\A row \in some : row.record.order \in Nat) =>
                 ToSet(nodes(some, byOrder)) = {node(row) : row \in some}
<1>1. ASSUME NEW list, NEW shown, shown = [i \in DOMAIN list |-> node(list[i])]
      PROVE  ToSet(shown) = {node(row) : row \in ToSet(list)}
  BY <1>1 DEF ToSet
<1>2. ToSet(nodes(some, bySlug)) = {node(row) : row \in ToSet(sortedRows(some, bySlug))}
  BY <1>1 DEF nodes
<1>3. ToSet(nodes(some, byOrder)) = {node(row) : row \in ToSet(sortedRows(some, byOrder))}
  BY <1>1 DEF nodes
<1> QED  BY <1>2, <1>3, RowsBySlug, RowsByOrder

\* The rows of a table.
allRows(table) == {table[s] : s \in {t \in Slug : table[t] # None}}

\* Every row's parents are there.
InTable(table, kind, slug) ==
    slug \in Slug /\ table[slug] # None /\ table[slug].record.kind = kind
Rooted(table) ==
    \A s \in Slug : table[s] # None =>
        LET record == table[s].record
        IN  /\ record.kind \in ChildKinds => InTable(table, "unit", record.unit)
            /\ record.kind = "unit" => InTable(table, "stage", record.stage)

\* What the argument takes of the rows.
LEMMA AllRowsAre ==
    ASSUME NEW table, Sound(table), Rooted(table)
    PROVE  LET all == allRows(table)
           IN  /\ \A some \in SUBSET all : SomeRows(some)
               /\ \A row \in all : row.record.kind \in Kinds /\ parseAdminRecord(row.record)
               /\ \A row \in all : row.record.kind \in ChildKinds =>
                     \E u \in rowsOf(all, "unit") : u.record.slug = row.record.unit
               /\ \A u \in rowsOf(all, "unit") :
                     \E s \in rowsOf(all, "stage") : s.record.slug = u.record.stage
               /\ \A a, b \in rowsOf(all, "checkpoint") :
                     a.record.unit = b.record.unit => a = b
<1> DEFINE there == {t \in Slug : table[t] # None}
           rowAt == [s \in there |-> table[s]]
           all == allRows(table)
<1>1. ASSUME NEW s \in there
      PROVE  /\ s \in Slug /\ table[s] \in Row /\ table[s].record.slug = s
             /\ table[s].record \in Record /\ parseAdminRecord(table[s].record)
             /\ table[s].record.kind \in Kinds
  <2>1. s \in Slug /\ table[s] \in Row /\ table[s].record.slug = s
    BY DEF Sound
  <2>2. table[s].record \in Record
    BY <2>1 DEF Row
  <2> QED  BY <2>1, <2>2, RecordIs
<1>2. all = {table[s] : s \in there}
  BY DEF allRows
<1>3. IsFiniteSet(all)
  <2>1. IsFiniteSet(there)
    BY SlugFinite
  <2>2. DOMAIN rowAt = there /\ all = {rowAt[s] : s \in DOMAIN rowAt}
    BY <1>2
  <2> HIDE DEF rowAt, all, there
  <2> QED  BY <2>1, <2>2, FiniteImage
<1> HIDE DEF all
<1>4. ASSUME NEW row \in all
      PROVE  \E s \in there : row = table[s] /\ row.record.slug = s
  BY <1>1, <1>2
<1>5. ASSUME NEW s \in Slug, table[s] # None PROVE table[s] \in all
  BY <1>2, <1>5
<1>6. ASSUME NEW some \in SUBSET all PROVE SomeRows(some)
  <2>1. IsFiniteSet(some)
    BY <1>3, FS_Subset
  <2>2. \A row \in some : row \in Row /\ row.record.slug \in Slug
    BY <1>1, <1>4
  <2>3. \A a, b \in some : a.record.slug = b.record.slug => a = b
    BY <1>4
  <2> QED  BY <2>1, <2>2, <2>3 DEF SomeRows, Slug
<1>7. \A row \in all : row.record.kind \in Kinds /\ parseAdminRecord(row.record)
  BY <1>1, <1>4
<1>8. ASSUME NEW row \in all, row.record.kind \in ChildKinds
      PROVE  \E u \in rowsOf(all, "unit") : u.record.slug = row.record.unit
  <2>1. PICK s \in there : row = table[s]
    BY <1>4
  <2>2. InTable(table, "unit", row.record.unit)
    BY <1>8, <2>1 DEF Rooted
  <2>3. row.record.unit \in there /\ table[row.record.unit] \in all
    BY <2>2, <1>5 DEF InTable
  <2> QED  BY <1>1, <2>2, <2>3 DEF rowsOf, InTable
<1>9. ASSUME NEW u \in rowsOf(all, "unit")
      PROVE  \E s \in rowsOf(all, "stage") : s.record.slug = u.record.stage
  <2>0. u \in all /\ u.record.kind = "unit"
    BY DEF rowsOf
  <2>1. PICK s \in there : u = table[s]
    BY <2>0, <1>4
  <2>2. InTable(table, "stage", u.record.stage)
    BY <2>0, <2>1 DEF Rooted
  <2>3. u.record.stage \in there /\ table[u.record.stage] \in all
    BY <2>2, <1>5 DEF InTable
  <2> QED  BY <1>1, <2>2, <2>3 DEF rowsOf, InTable
<1>10. ASSUME NEW a \in rowsOf(all, "checkpoint"), NEW b \in rowsOf(all, "checkpoint"),
              a.record.unit = b.record.unit
       PROVE  a = b
  <2>1. a \in all /\ b \in all /\ a.record.kind = "checkpoint" /\ b.record.kind = "checkpoint"
    BY DEF rowsOf
  <2>2. PICK s \in there, t \in there : a = table[s] /\ b = table[t]
    BY <2>1, <1>4
  <2> QED  BY <1>10, <2>1, <2>2 DEF Sound, oneCheckpointEach
<1> QED  BY <1>6, <1>7, <1>8, <1>9, <1>10 DEF all

\* A unit is shown with all its children.
LEMMA UnitShown ==
    ASSUME NEW table, Sound(table), Rooted(table), NEW unit \in rowsOf(allRows(table), "unit")
    PROVE  nodesOfUnit(unitNode(allRows(table), unit)) =
               {node(row) : row \in {unit} \union
                   {r \in allRows(table) : /\ r.record.kind \in ChildKinds
                                           /\ r.record.unit = unit.record.slug}}
<1> DEFINE all == allRows(table)
           below(kind) == inUnitRows(all, kind, unit.record.slug)
           it == unitNode(all, unit)
<1>1. \A kind : SomeRows(below(kind)) /\ below(kind) \subseteq rowsOf(all, kind)
  BY AllRowsAre DEF inUnitRows, rowsOf
<1>2. \A row \in below("lesson") : row.record.order \in Nat
  BY AllRowsAre DEF inUnitRows, rowsOf, parseAdminRecord
<1>3. /\ it.node = node(unit) /\ it.lessons = nodes(below("lesson"), byOrder)
      /\ it.itemList = nodes(below("item"), bySlug)
      /\ it.dialogues = {node(d) : d \in below("dialogue")}
      /\ it.checkpoint = {node(c) : c \in {theOne(below("checkpoint"))} \ {None}}
  BY DEF unitNode
<1>4. /\ ToSet(it.lessons) = {node(row) : row \in below("lesson")}
      /\ ToSet(it.itemList) = {node(row) : row \in below("item")}
  <2> HIDE DEF it, below
  <2> QED  BY <1>1, <1>2, <1>3, NodesOfAll
<1>5. {theOne(below("checkpoint"))} \ {None} = below("checkpoint")
  <2> DEFINE some == below("checkpoint")
  <2>1. \A a, b \in some : a = b
    BY AllRowsAre DEF inUnitRows, rowsOf
  <2>2. \A a \in some : a # None
    BY <1>1, RowIsSome DEF SomeRows
  <2> HIDE DEF some
  <2>3. ASSUME some = {} PROVE {theOne(some)} \ {None} = some
    BY <2>3 DEF theOne
  <2>4. ASSUME some # {} PROVE {theOne(some)} \ {None} = some
    BY <2>1, <2>2, <2>4 DEF theOne
  <2>5. {theOne(some)} \ {None} = some
    BY <2>3, <2>4
  <2> QED  BY <2>5 DEF some
<1>6. nodesOfUnit(it) = {node(unit)} \union {node(row) : row \in below("lesson")}
          \union {node(row) : row \in below("item")}
          \union {node(row) : row \in below("dialogue")}
          \union {node(row) : row \in below("checkpoint")}
  <2> HIDE DEF it, below
  <2> QED  BY <1>3, <1>4, <1>5 DEF nodesOfUnit
<1>7. {r \in all : r.record.kind \in ChildKinds /\ r.record.unit = unit.record.slug}
          = below("lesson") \union below("item") \union below("dialogue")
                \union below("checkpoint")
  <2> HIDE DEF all
  <2> QED  BY DEF inUnitRows, rowsOf, ChildKinds
<1> HIDE DEF below, it, all
<1>8. nodesOfUnit(it) =
          {node(row) : row \in {unit} \union
              {r \in all : r.record.kind \in ChildKinds /\ r.record.unit = unit.record.slug}}
  BY <1>6, <1>7
<1> QED  BY <1>8 DEF all, it

\* The tree shows the units of a stage.
LEMMA StageShown ==
    ASSUME NEW table, Sound(table), Rooted(table), NEW stage
    PROVE  LET all == allRows(table)
               shown == stageNode(all, stage)
               those == {u \in rowsOf(all, "unit") : u.record.stage = stage.record.slug}
           IN  /\ shown.node = node(stage)
               /\ {shown.units[i] : i \in DOMAIN shown.units}
                      = {unitNode(all, u) : u \in those}
<1> DEFINE all == allRows(table)
           those == {u \in rowsOf(all, "unit") : u.record.stage = stage.record.slug}
           list == sortedRows(those, byOrder)
<1>1. those \subseteq all /\ \A u \in those : u \in all /\ u.record.kind = "unit"
  BY DEF rowsOf
<1>2. SomeRows(those)
  BY <1>1, AllRowsAre
<1>3. \A u \in those : u.record.order \in Nat
  BY <1>1, AllRowsAre DEF parseAdminRecord, unitRecordSchema
<1>4. ToSet(list) = those
  <2> HIDE DEF those
  <2> QED  BY <1>2, <1>3, RowsByOrder
<1>5. stageNode(all, stage).node = node(stage)
      /\ stageNode(all, stage).units = [i \in DOMAIN list |-> unitNode(all, list[i])]
  BY DEF stageNode
<1> HIDE DEF list, those, all
<1>6. {stageNode(all, stage).units[i] : i \in DOMAIN stageNode(all, stage).units}
          = {unitNode(all, u) : u \in those}
  BY <1>4, <1>5 DEF ToSet
<1> QED  BY <1>5, <1>6 DEF those, all

\* The tree shows every row.
LEMMA TreeShowsAll ==
    ASSUME NEW table, Sound(table), Rooted(table)
    PROVE  nodesOfTree(buildAdminTree(allRows(table))) = {node(row) : row \in allRows(table)}
<1> DEFINE all == allRows(table)
           tree == buildAdminTree(all)
           list == sortedRows(rowsOf(all, "stage"), byOrder)
           unitsIn(s) == {u \in rowsOf(all, "unit") : u.record.stage = s.record.slug}
           inUnit0(u) == {u} \union {r \in all : /\ r.record.kind \in ChildKinds
                                                 /\ r.record.unit = u.record.slug}
<1>0. \A kind : SomeRows(rowsOf(all, kind)) /\ \A r \in rowsOf(all, kind) : r \in all /\ r.record.kind = kind
  BY AllRowsAre DEF rowsOf
<1>1. ToSet(list) = rowsOf(all, "stage")
  <2>1. \A r \in rowsOf(all, "stage") : r.record.order \in Nat
    BY <1>0, AllRowsAre DEF parseAdminRecord, stageSchema
  <2> HIDE DEF all
  <2> QED  BY <1>0, <2>1, RowsByOrder
<1>2. ToSet(tree.placements) = {node(row) : row \in rowsOf(all, "placement")}
  <2>1. tree.placements = nodes(rowsOf(all, "placement"), bySlug)
    BY DEF buildAdminTree
  <2> HIDE DEF all, tree
  <2> QED  BY <1>0, <2>1, NodesOfAll
<1>3. tree.stages = [i \in DOMAIN list |-> stageNode(all, list[i])]
  BY DEF buildAdminTree
<1>4. ASSUME NEW s
      PROVE  /\ stageNode(all, s).node = node(s)
             /\ {stageNode(all, s).units[i] : i \in DOMAIN stageNode(all, s).units}
                    = {unitNode(all, u) : u \in unitsIn(s)}
  BY StageShown
<1>5. ASSUME NEW s, NEW u \in unitsIn(s)
      PROVE  nodesOfUnit(unitNode(all, u)) = {node(row) : row \in inUnit0(u)}
  BY UnitShown
<1>6. nodesOfTree(tree) = ToSet(tree.placements) \union
          (UNION {{tree.stages[s].node} \union
             (UNION {nodesOfUnit(tree.stages[s].units[i]) :
                      i \in DOMAIN tree.stages[s].units}) : s \in DOMAIN tree.stages})
  BY DEF nodesOfTree
<1>7. \A row \in all : row.record.kind \in {"stage", "unit", "placement"} \union ChildKinds
  BY AllRowsAre DEF Kinds, IMPORT_ORDER, ToSet, ChildKinds
<1>8. /\ \A row \in all : row.record.kind \in ChildKinds =>
            \E u \in rowsOf(all, "unit") : u.record.slug = row.record.unit
      /\ \A u \in rowsOf(all, "unit") :
            \E s \in rowsOf(all, "stage") : s.record.slug = u.record.stage
  BY AllRowsAre
<1>9. \A kind : \A row : row \in rowsOf(all, kind) <=> row \in all /\ row.record.kind = kind
  BY DEF rowsOf
<1> DEFINE below(s) == UNION {{node(row) : row \in inUnit0(u)} : u \in unitsIn(s)}
<1>10. ASSUME NEW s
       PROVE  UNION {nodesOfUnit(stageNode(all, s).units[i]) :
                        i \in DOMAIN stageNode(all, s).units} = below(s)
  <2> HIDE DEF all, unitsIn, inUnit0
  <2>1. PICK units : units = stageNode(all, s).units
    OBVIOUS
  <2>2. {nodesOfUnit(units[i]) : i \in DOMAIN units}
            = {nodesOfUnit(unitNode(all, u)) : u \in unitsIn(s)}
    <3>1. \A i \in DOMAIN units : \E u \in unitsIn(s) : units[i] = unitNode(all, u)
      BY <1>4, <2>1
    <3>2. \A u \in unitsIn(s) : \E i \in DOMAIN units : units[i] = unitNode(all, u)
      BY <1>4, <2>1
    <3> QED  BY <3>1, <3>2
  <2>3. {nodesOfUnit(unitNode(all, u)) : u \in unitsIn(s)}
            = {{node(row) : row \in inUnit0(u)} : u \in unitsIn(s)}
    BY <1>5
  <2> QED  BY <2>1, <2>2, <2>3
<1>11. UNION {{tree.stages[k].node} \union
          (UNION {nodesOfUnit(tree.stages[k].units[i]) :
                      i \in DOMAIN tree.stages[k].units}) : k \in DOMAIN tree.stages}
       = UNION {{node(s)} \union below(s) : s \in rowsOf(all, "stage")}
  <2> HIDE DEF all, unitsIn, inUnit0, tree, list, below
  <2>1. ASSUME NEW k \in DOMAIN list
        PROVE  {tree.stages[k].node} \union
                  (UNION {nodesOfUnit(tree.stages[k].units[i]) :
                      i \in DOMAIN tree.stages[k].units}) = {node(list[k])} \union below(list[k])
    BY <1>3, <1>4, <1>10
  <2>2. DOMAIN tree.stages = DOMAIN list
    BY <1>3
  <2>3. {{tree.stages[k].node} \union
          (UNION {nodesOfUnit(tree.stages[k].units[i]) :
                      i \in DOMAIN tree.stages[k].units}) : k \in DOMAIN tree.stages}
        = {{node(list[k])} \union below(list[k]) : k \in DOMAIN list}
    BY <2>1, <2>2
  <2>4. {{node(list[k])} \union below(list[k]) : k \in DOMAIN list}
        = {{node(s)} \union below(s) : s \in ToSet(list)}
    BY DEF ToSet
  <2> QED  BY <1>1, <2>3, <2>4
<1> DEFINE shown == {node(row) : row \in rowsOf(all, "placement")} \union
                    (UNION {{node(s)} \union below(s) : s \in rowsOf(all, "stage")})
<1>12. nodesOfTree(tree) = shown
  <2> HIDE DEF all, tree, below, shown, list
  <2> QED  BY <1>2, <1>6, <1>11 DEF shown
<1>13. \A s : \A x : x \in below(s) <=> \E u \in unitsIn(s) : \E row \in inUnit0(u) : x = node(row)
  <2> HIDE DEF all, unitsIn, inUnit0
  <2> QED  OBVIOUS
<1>14. \A s : \A u : u \in unitsIn(s) <=> u \in rowsOf(all, "unit") /\ u.record.stage = s.record.slug
  OBVIOUS
<1>15. \A u : \A r : r \in inUnit0(u) <=>
          r = u \/ (r \in all /\ r.record.kind \in ChildKinds /\ r.record.unit = u.record.slug)
  OBVIOUS
<1> HIDE DEF all, tree, below, unitsIn, inUnit0, list
<1>16. shown \subseteq {node(row) : row \in all}
  BY <1>9, <1>13, <1>14, <1>15
<1>17. ASSUME NEW row \in all PROVE node(row) \in shown
  <2>1. CASE row.record.kind = "placement"
    BY <2>1, <1>9
  <2>2. CASE row.record.kind = "stage"
    BY <2>2, <1>9
  <2>3. ASSUME NEW u \in rowsOf(all, "unit"), row \in inUnit0(u) PROVE node(row) \in shown
    <3>1. PICK s \in rowsOf(all, "stage") : s.record.slug = u.record.stage
      BY <1>8
    <3>2. node(row) \in below(s)
      BY <2>3, <3>1, <1>13, <1>14
    <3> QED  BY <3>1, <3>2
  <2>4. CASE row.record.kind = "unit"
    BY <2>3, <2>4, <1>9, <1>15
  <2>5. CASE row.record.kind \in ChildKinds
    <3>1. PICK u \in rowsOf(all, "unit") : u.record.slug = row.record.unit
      BY <2>5, <1>8
    <3> QED  BY <2>3, <2>5, <3>1, <1>15
  <2> QED  BY <2>1, <2>2, <2>4, <2>5, <1>7
<1>18. {node(row) : row \in all} \subseteq shown
  <2> HIDE DEF shown
  <2> QED  BY <1>17
<1> HIDE DEF shown
<1>19. nodesOfTree(tree) = {node(row) : row \in all}
  BY <1>12, <1>16, <1>18
<1> QED  BY <1>19 DEF tree, all

\* The totals count every row once.
LEMMA TotalsAdd ==
    ASSUME NEW all \in SUBSET Row, IsFiniteSet(all)
    PROVE  LET total == buildAdminTree(all).totals
           IN  /\ total["DRAFT"] + total["PUBLISHED"] + total["ARCHIVED"] = Cardinality(all)
               /\ total["seed"] + total["edited"] + total["admin"] = Cardinality(all)
<1> DEFINE with(s) == {row \in all : row.status = s}
           from(o) == {row \in all : rowOrigin(row) = o}
           total == buildAdminTree(all).totals
<1>1. \A row \in all : row.status \in Statuses /\ rowOrigin(row) \in Origins
  BY DEF Row, rowOrigin, Origins
<1>2. \A s \in Statuses, o \in Origins : s # o
  BY DEF Statuses, Origins
<1>3. total = [t \in Statuses \union Origins |->
          Cardinality({row \in all : row.status = t \/ rowOrigin(row) = t})]
  BY DEF buildAdminTree, totals
<1>4. ASSUME NEW s \in Statuses PROVE total[s] = Cardinality(with(s))
  <2>1. {row \in all : row.status = s \/ rowOrigin(row) = s} = with(s)
    BY <1>1, <1>2
  <2> HIDE DEF total, with
  <2> QED  BY <1>3, <2>1
<1>5. ASSUME NEW o \in Origins PROVE total[o] = Cardinality(from(o))
  <2>1. {row \in all : row.status = o \/ rowOrigin(row) = o} = from(o)
    BY <1>1, <1>2
  <2> HIDE DEF total, from
  <2> QED  BY <1>3, <2>1
<1>6. ASSUME NEW a \in SUBSET all, NEW b \in SUBSET all, NEW c \in SUBSET all,
             a \intersect b = {}, a \intersect c = {}, b \intersect c = {},
             all = a \union b \union c
      PROVE  Cardinality(a) + Cardinality(b) + Cardinality(c) = Cardinality(all)
  <2>1. IsFiniteSet(a) /\ IsFiniteSet(b) /\ IsFiniteSet(c)
    BY FS_Subset
  <2>2. /\ IsFiniteSet(a \union b)
        /\ Cardinality(a \union b) = Cardinality(a) + Cardinality(b) - Cardinality(a \intersect b)
    BY <2>1, FS_Union
  <2>3. (a \union b) \intersect c = {}
    BY <1>6
  <2>4. Cardinality((a \union b) \union c)
            = Cardinality(a \union b) + Cardinality(c) - Cardinality((a \union b) \intersect c)
    BY <2>1, <2>2, FS_Union
  <2>5. Cardinality(a) \in Nat /\ Cardinality(b) \in Nat /\ Cardinality(c) \in Nat
    BY <2>1, FS_CardinalityType
  <2>6. \A e : e = {} => Cardinality(e) = 0
    BY FS_EmptySet
  <2>7. /\ Cardinality(a \union b) = Cardinality(a) + Cardinality(b)
        /\ Cardinality((a \union b) \union c) = Cardinality(a \union b) + Cardinality(c)
    BY <2>2, <2>3, <2>4, <2>5, <2>6, <1>6
  <2> QED  BY <2>5, <2>7, <1>6
<1>7. Cardinality(with("DRAFT")) + Cardinality(with("PUBLISHED"))
          + Cardinality(with("ARCHIVED")) = Cardinality(all)
  <2>1. all = with("DRAFT") \union with("PUBLISHED") \union with("ARCHIVED")
    BY <1>1 DEF Statuses
  <2>2. /\ with("DRAFT") \intersect with("PUBLISHED") = {}
        /\ with("DRAFT") \intersect with("ARCHIVED") = {}
        /\ with("PUBLISHED") \intersect with("ARCHIVED") = {}
    OBVIOUS
  <2>3. with("DRAFT") \in SUBSET all /\ with("PUBLISHED") \in SUBSET all
        /\ with("ARCHIVED") \in SUBSET all
    OBVIOUS
  <2> HIDE DEF with
  <2> QED  BY <2>1, <2>2, <2>3, <1>6
<1>8. Cardinality(from("seed")) + Cardinality(from("edited"))
          + Cardinality(from("admin")) = Cardinality(all)
  <2>1. all = from("seed") \union from("edited") \union from("admin")
    BY <1>1 DEF Origins
  <2>2. /\ from("seed") \intersect from("edited") = {}
        /\ from("seed") \intersect from("admin") = {}
        /\ from("edited") \intersect from("admin") = {}
    OBVIOUS
  <2>3. from("seed") \in SUBSET all /\ from("edited") \in SUBSET all
        /\ from("admin") \in SUBSET all
    OBVIOUS
  <2> HIDE DEF from
  <2> QED  BY <2>1, <2>2, <2>3, <1>6
<1>9. {"DRAFT", "PUBLISHED", "ARCHIVED"} \subseteq Statuses
      /\ {"seed", "edited", "admin"} \subseteq Origins
  BY DEF Statuses, Origins
<1> HIDE DEF total, with, from
<1>10. /\ total["DRAFT"] + total["PUBLISHED"] + total["ARCHIVED"] = Cardinality(all)
       /\ total["seed"] + total["edited"] + total["admin"] = Cardinality(all)
  BY <1>4, <1>5, <1>7, <1>8, <1>9
<1> QED  BY <1>10 DEF total

\* Rows whose parents are there are all shown and counted.
LEMMA RootedShown ==
    ASSUME Sound(rows), Rooted(rows)
    PROVE  EveryRowShown
<1> DEFINE all == allRows(rows)
<1>1. all = {rows[s] : s \in {t \in Slug : rows[t] # None}}
  BY DEF allRows
<1>2. IsFiniteSet(all) /\ all \in SUBSET Row
  BY AllRowsAre DEF SomeRows
<1>3. nodesOfTree(buildAdminTree(all)) = {node(row) : row \in all}
  BY TreeShowsAll
<1> HIDE DEF all
<1>4. LET total == buildAdminTree(all).totals
      IN  /\ total["DRAFT"] + total["PUBLISHED"] + total["ARCHIVED"] = Cardinality(all)
          /\ total["seed"] + total["edited"] + total["admin"] = Cardinality(all)
  BY <1>2, TotalsAdd
<1> QED  BY <1>1, <1>3, <1>4 DEF EveryRowShown

-----------------------------------------------------------------------------
(* No step leaves a row without its parents: the database has the row a     *)
(* record points at when it is written, and rows do not go away.            *)

RootedAll == Rooted(rows) /\ \A p \in Process : Rooted(over(job[p].written, rows))

\* Parents that are there stay parents: a slug is of one kind.
LEMMA ParentStays ==
    ASSUME NEW before, Sound(before), NEW after, Sound(after),
           NEW kind, NEW s, InTable(before, kind, s), after[s] # None
    PROVE  InTable(after, kind, s)
<1>1. s \in Slug /\ before[s] \in Row /\ after[s] \in Row
  BY DEF InTable, Sound
<1>2. /\ before[s].record \in Record /\ after[s].record \in Record
      /\ before[s].record.slug = s /\ after[s].record.slug = s
  BY <1>1, RowIsSome DEF Sound, Row
<1>3. before[s].record.kind = after[s].record.kind
  BY <1>2, SameKind
<1> QED  BY <1>1, <1>3 DEF InTable

\* A table with rows of rooted tables, and all of theirs, is rooted.
LEMMA RootedFrom ==
    ASSUME NEW after, Sound(after),
           \A s \in Slug : after[s] # None =>
               \E before : /\ Sound(before) /\ Rooted(before)
                           /\ before[s] # None /\ before[s].record = after[s].record
                           /\ \A t \in Slug : before[t] # None => after[t] # None
    PROVE  Rooted(after)
<1> SUFFICES ASSUME NEW s \in Slug, after[s] # None
             PROVE  /\ after[s].record.kind \in ChildKinds =>
                          InTable(after, "unit", after[s].record.unit)
                    /\ after[s].record.kind = "unit" =>
                          InTable(after, "stage", after[s].record.stage)
  BY DEF Rooted
<1>1. PICK before : /\ Sound(before) /\ Rooted(before)
                    /\ before[s] # None /\ before[s].record = after[s].record
                    /\ \A t \in Slug : before[t] # None => after[t] # None
  OBVIOUS
<1>2. /\ after[s].record.kind \in ChildKinds => InTable(before, "unit", after[s].record.unit)
      /\ after[s].record.kind = "unit" => InTable(before, "stage", after[s].record.stage)
  BY <1>1 DEF Rooted
<1>3. ASSUME NEW kind, NEW t, InTable(before, kind, t) PROVE InTable(after, kind, t)
  <2>1. after[t] # None
    BY <1>1, <1>3 DEF InTable
  <2> QED  BY <1>1, <1>3, <2>1, ParentStays
<1> QED  BY <1>2, <1>3

\* What a transaction has not written shows through.
LEMMA OverIs ==
    ASSUME NEW written, NEW table
    PROVE  /\ \A s \in Slug : over(written, table)[s] =
                 IF s \in DOMAIN written THEN written[s] ELSE table[s]
           /\ Written(written) => \A s \in Slug : table[s] # None => over(written, table)[s] # None
BY RowIsSome DEF over, Written

\* Giving up, or writing nothing.
LEMMA WritesNothingRooted ==
    ASSUME Steady, RootedAll, NEW p \in Process, WritesNothing(p),
           \A q \in Process \ {p} : job'[q] = job[q]
    PROVE  RootedAll'
<1>1. over(<<>>, rows) = rows
  BY NothingWritten DEF Steady
<1>2. \A q \in Process : job'[q].written \in {job[q].written, <<>>}
  BY DEF WritesNothing
<1>3. rows' = rows
  BY DEF WritesNothing
<1>4. ASSUME NEW q \in Process PROVE Rooted(over(job'[q].written, rows'))
  BY <1>1, <1>2, <1>3 DEF RootedAll
<1> QED  BY <1>3, <1>4 DEF RootedAll

\* A commit.
LEMMA CommitsRooted ==
    ASSUME Steady, Steady', RootedAll, NEW p \in Process, Commits(p),
           \A q \in Process \ {p} : job'[q] = job[q]
    PROVE  RootedAll'
<1> DEFINE was == job[p].written
<1>1. rows' = over(was, rows) /\ job'[p].written = <<>>
  BY ViewIs DEF Commits
<1>2. /\ Sound(rows) /\ Rooted(rows) /\ Written(was) /\ Sound(over(was, rows))
      /\ Rooted(over(was, rows))
  BY DEF Steady, RootedAll
<1>3. Rooted(rows')
  BY <1>1, <1>2
<1>4. ASSUME NEW q \in Process PROVE Rooted(over(job'[q].written, rows'))
  <2>1. CASE q = p
    BY <2>1, <1>1, <1>2, NothingWritten
  <2>2. CASE q # p
    <3>1. PICK other : other = job[q].written
      OBVIOUS
    <3>2. /\ Written(other) /\ Sound(over(other, rows)) /\ Rooted(over(other, rows))
      BY <3>1 DEF Steady, RootedAll
    <3>3. PICK after : after = over(other, over(was, rows))
      OBVIOUS
    <3>4. job'[q].written = other
      BY <2>2, <3>1
    <3>5. Sound(after)
      <4>1. Sound(over(job'[q].written, rows'))
        BY DEF Steady
      <4> QED  BY <4>1, <3>3, <3>4, <1>1
    <3> HIDE DEF was
    <3>6. /\ \A s \in Slug : after[s] = IF s \in DOMAIN other THEN other[s] ELSE over(was, rows)[s]
          /\ \A s \in Slug : over(was, rows)[s] # None => after[s] # None
      BY <3>2, <3>3, OverIs
    <3>7. /\ \A s \in Slug : over(other, rows)[s] = IF s \in DOMAIN other THEN other[s] ELSE rows[s]
          /\ \A s \in Slug : rows[s] # None => over(was, rows)[s] # None
      BY <1>2, OverIs
    <3>8. \A s \in Slug : over(other, rows)[s] # None => after[s] # None
      BY <3>6, <3>7
    <3>9. ASSUME NEW s \in Slug, after[s] # None
          PROVE  \E before : /\ Sound(before) /\ Rooted(before)
                             /\ before[s] # None /\ before[s].record = after[s].record
                             /\ \A t \in Slug : before[t] # None => after[t] # None
      <4>1. CASE s \in DOMAIN other
        <5>1. over(other, rows)[s] = after[s]
          BY <4>1, <3>6, <3>7
        <5> QED  BY <5>1, <3>2, <3>8, <3>9
      <4>2. CASE s \notin DOMAIN other
        <5>1. over(was, rows)[s] = after[s]
          BY <4>2, <3>6
        <5> QED  BY <5>1, <1>2, <3>6, <3>9
      <4> QED  BY <4>1, <4>2
    <3>10. Rooted(after)
      BY <3>5, <3>9, RootedFrom
    <3> QED  BY <1>1, <3>3, <3>4, <3>10
  <2> QED  BY <2>1, <2>2
<1> QED  BY <1>3, <1>4 DEF RootedAll

\* A write of a row whose parents the process sees.
LEMMA WritesRooted ==
    ASSUME Steady, Steady', RootedAll, NEW p \in Process, NEW row, Writes(p, row),
           row.record.kind \in ChildKinds => InTable(view(p), "unit", row.record.unit),
           row.record.kind = "unit" => InTable(view(p), "stage", row.record.stage),
           \A q \in Process \ {p} : job'[q] = job[q]
    PROVE  RootedAll'
<1>1. PICK before : before = view(p)
  OBVIOUS
<1>2. PICK after : after = over(job'[p].written, rows')
  OBVIOUS
<1>3. Sound(before) /\ Rooted(before)
  BY <1>1, ViewIs DEF Steady, RootedAll
<1>4. Sound(after)
  BY <1>2 DEF Steady
<1>5. row \in Row /\ row.record.slug \in Slug /\ rows' = rows
  BY RecordIs DEF Writes, Row
<1>6. \A s \in Slug : after[s] = IF s = row.record.slug THEN row ELSE before[s]
  <2>1. job'[p].written = withRow(job[p].written, row.record.slug, row)
    BY DEF Writes
  <2>2. DOMAIN job'[p].written = DOMAIN job[p].written \union {row.record.slug}
    BY <2>1 DEF withRow
  <2>3. \A s \in DOMAIN job'[p].written : job'[p].written[s] =
            IF s = row.record.slug THEN row ELSE job[p].written[s]
    BY <2>1 DEF withRow
  <2>4. \A s \in Slug : after[s] = IF s \in DOMAIN job'[p].written THEN job'[p].written[s] ELSE rows[s]
    BY <1>2, <1>5 DEF over
  <2>5. \A s \in Slug : before[s] = IF s \in DOMAIN job[p].written THEN job[p].written[s] ELSE rows[s]
    BY <1>1, ViewIs
  <2> QED  BY <2>2, <2>3, <2>4, <2>5
<1>7. \A t \in Slug : before[t] # None => after[t] # None
  BY <1>5, <1>6, RowIsSome
<1>8. ASSUME NEW kind, NEW t, InTable(before, kind, t) PROVE InTable(after, kind, t)
  <2>1. after[t] # None
    BY <1>7, <1>8 DEF InTable
  <2> QED  BY <1>3, <1>4, <1>8, <2>1, ParentStays
<1>9. Rooted(after)
  <2> SUFFICES ASSUME NEW s \in Slug, after[s] # None
               PROVE  /\ after[s].record.kind \in ChildKinds =>
                            InTable(after, "unit", after[s].record.unit)
                      /\ after[s].record.kind = "unit" =>
                            InTable(after, "stage", after[s].record.stage)
    BY DEF Rooted
  <2>1. CASE s = row.record.slug
    BY <2>1, <1>1, <1>6, <1>8
  <2>2. CASE s # row.record.slug
    BY <2>2, <1>3, <1>6, <1>8 DEF Rooted
  <2> QED  BY <2>1, <2>2
<1>10. ASSUME NEW q \in Process PROVE Rooted(over(job'[q].written, rows'))
  <2>1. CASE q = p
    BY <2>1, <1>2, <1>9
  <2>2. CASE q # p
    BY <2>2, <1>5 DEF RootedAll
  <2> QED  BY <2>1, <2>2
<1>11. Rooted(rows')
  BY <1>5 DEF RootedAll
<1> QED  BY <1>10, <1>11 DEF RootedAll

\* Marking drafts.
LEMMA FlipsRooted ==
    ASSUME Steady, Steady', RootedAll, NEW p \in Process, NEW those, Flips(p, those),
           \A q \in Process \ {p} : job'[q] = job[q]
    PROVE  RootedAll'
<1>1. rows' = rows /\ Sound(rows) /\ Rooted(rows)
  BY DEF Flips, Steady, RootedAll
<1>2. PICK after : after = over(job'[p].written, rows')
  OBVIOUS
<1>3. Sound(after)
  BY <1>2 DEF Steady
<1>4. ASSUME NEW s \in Slug
      PROVE  /\ rows[s] # None => after[s] # None
             /\ after[s] # None => rows[s] # None /\ after[s].record = rows[s].record
  <2>1. after[s] = IF s \in DOMAIN job'[p].written THEN job'[p].written[s] ELSE rows[s]
    BY <1>1, <1>2 DEF over
  <2>2. s \in DOMAIN job'[p].written =>
            /\ job'[p].written[s] \in Row
            /\ rows[s] # None /\ job'[p].written[s].record = rows[s].record
    <3>1. Written(job'[p].written)
      BY DEF Steady
    <3>2. /\ those \subseteq {t \in Slug : rows[t] # None}
          /\ DOMAIN job'[p].written = DOMAIN job[p].written \union those
          /\ \A t \in DOMAIN job'[p].written : job'[p].written[t] =
                IF t \in those THEN [rows[t] EXCEPT !.status = "PUBLISHED"]
                ELSE job[p].written[t]
      BY DEF Flips
    <3>3. \A t \in those : [rows[t] EXCEPT !.status = "PUBLISHED"].record = rows[t].record
      BY <3>2, <1>1 DEF Sound, Row
    <3>4. \A t \in DOMAIN job[p].written : rows[t] # None /\ job[p].written[t].record = rows[t].record
      BY DEF Steady, Flips
    <3> QED  BY <3>1, <3>2, <3>3, <3>4 DEF Written
  <2> QED  BY <2>1, <2>2, RowIsSome
<1>5. Rooted(after)
  BY <1>1, <1>3, <1>4, RootedFrom
<1>6. ASSUME NEW q \in Process PROVE Rooted(over(job'[q].written, rows'))
  <2>1. CASE q = p
    BY <2>1, <1>2, <1>5
  <2>2. CASE q # p
    BY <2>2, <1>1 DEF RootedAll
  <2> QED  BY <2>1, <2>2
<1> QED  BY <1>1, <1>6 DEF RootedAll

\* What the database lets in points at rows that are there.
LEMMA AcceptedIsRooted ==
    ASSUME NEW p, NEW plan, dbAccepts(p, plan)
    PROVE  /\ plan.record.kind \in ChildKinds => InTable(view(p), "unit", plan.record.unit)
           /\ plan.record.kind = "unit" => InTable(view(p), "stage", plan.record.stage)
<1>1. ASSUME NEW kind, NEW s, rowIn(p, kind, s) # None PROVE InTable(view(p), kind, s)
  <2>1. {view(p)[t] : t \in {u \in Slug \intersect {s} :
            view(p)[u] # None /\ view(p)[u].record.kind = kind}} # {}
    BY <1>1 DEF rowIn, theOne
  <2> QED  BY <2>1 DEF InTable
<1> QED  BY <1>1 DEF dbAccepts

\* No step does.
LEMMA StepRooted ==
    ASSUME Steady, Steady', RootedAll, NEW p \in Process, RowStep(p),
           \A q \in Process \ {p} : job'[q] = job[q]
    PROVE  RootedAll'
<1>1. CASE SetStatus(p) /\ Writes(p, statusRow(p)) /\ target(p) \in Slug /\ view(p)[target(p)] \in Row
  <2>1. statusRow(p).record = view(p)[target(p)].record
    BY <1>1 DEF statusRow, Row
  <2>2. Rooted(view(p)) /\ view(p)[target(p)] # None
    BY <1>1, ViewIs, RowIsSome DEF RootedAll
  <2>3. LET record == view(p)[target(p)].record
        IN  /\ record.kind \in ChildKinds => InTable(view(p), "unit", record.unit)
            /\ record.kind = "unit" => InTable(view(p), "stage", record.stage)
    BY <1>1, <2>2 DEF Rooted
  <2> QED  BY <1>1, <2>1, <2>3, WritesRooted
<1>2. CASE /\ Write(p) /\ dbAccepts(p, Head(job[p].todo))
           /\ Writes(p, writeRecord(p, Head(job[p].todo).record))
  <2>1. writeRecord(p, Head(job[p].todo).record).record = Head(job[p].todo).record
    BY DEF writeRecord
  <2> QED  BY <1>2, <2>1, AcceptedIsRooted, WritesRooted
<1> QED  BY <1>1, <1>2, WritesNothingRooted, CommitsRooted, FlipsRooted DEF RowStep

\* The step of a process leaves the other jobs, any other step rows and jobs.
LEMMA NextRowStep ==
    ASSUME Correct, [Next]_vars
    PROVE  \/ \E p \in Process : RowStep(p) /\ \A q \in Process \ {p} : job'[q] = job[q]
           \/ UNCHANGED <<rows, job>>
<1>1. /\ Fields /\ Steady /\ \A p \in Process : Facts(p)
  BY DEF Correct
<1>2. \/ \E p \in Process :
            \/ Quiet(p) \/ Validate(p) \/ Flip(p) \/ CreateRelease(p)
            \/ CommitPublish(p) \/ Activate(p) \/ DropPointer(p) \/ SendRetired(p)
      \/ Expire \/ SaveContent \/ UNCHANGED vars
  BY DEF Next, Step, Quiet
<1>3. CASE Expire \/ SaveContent \/ UNCHANGED vars
  BY <1>3 DEF Expire, SaveContent, vars
<1> QED  BY <1>1, <1>2, <1>3, StepEffect, OwnJob

\* Every row a step leaves has its parents.
LEMMA NextRooted == Correct /\ Correct' /\ RootedAll /\ [Next]_vars => RootedAll'
<1> SUFFICES ASSUME Correct, Correct', RootedAll, [Next]_vars PROVE RootedAll'
  OBVIOUS
<1>1. Steady /\ Steady'
  BY DEF Correct
<1>2. CASE UNCHANGED <<rows, job>>
  BY <1>2 DEF RootedAll
<1> QED  BY <1>1, <1>2, NextRowStep, StepRooted

\* The rows admins can have made of a seed: its records and theirs, each in the
\* row of its slug.
LEMMA EditedIs ==
    ASSUME NEW released \in DOMAIN Seeds, NEW copy \in DOMAIN Seeds,
           Seeds[released] \subseteq Record, Seeds[copy] \subseteq Record,
           Seeds[released] \in Corpora, Seeds[copy] \in Corpora,
           NEW s \in Slug
    PROVE  LET row == Edited(released, copy)[s]
               both == Seeds[released] \union Seeds[copy]
           IN  /\ row # None => row.record \in both
               /\ row = None => \A r \in both : r.slug # s
               /\ row # None /\ row.status = "PUBLISHED" => row.record = row.seed
<1> DEFINE before == recordOf(released, s)
           now == recordOf(copy, s)
           row == Edited(released, copy)[s]
<1>1. /\ before # None => before \in Seeds[released]
      /\ now # None => now \in Seeds[copy]
  BY DEF recordOf, theOne
<1>2. /\ before = None => \A r \in Seeds[released] : r.slug # s
      /\ now = None => \A r \in Seeds[copy] : r.slug # s
  <2>1. ASSUME NEW d \in DOMAIN Seeds, Seeds[d] \subseteq Sources,
               NEW r \in Seeds[d], r.slug = s
        PROVE  recordOf(d, s) # None
    <3>1. recordOf(d, s) \in Sources
      BY <2>1 DEF recordOf, theOne
    <3> QED  BY <3>1, AuthoringAssumption
  <2> QED  BY <2>1, CorpusIs
<1>3. row = CASE now = None /\ before = None -> None
              [] now = None /\ before # None ->
                    [record |-> before, seed |-> before, status |-> "ARCHIVED"]
              [] OTHER ->
                    [record |-> now, seed |-> before,
                     status |-> IF now = before THEN "PUBLISHED" ELSE "DRAFT"]
  BY DEF Edited
<1> HIDE DEF before, now, row
<1>4. CASE now = None /\ before = None
  BY <1>2, <1>3, <1>4 DEF row
<1>5. CASE now = None /\ before # None
  <2>1. row = [record |-> before, seed |-> before, status |-> "ARCHIVED"]
    BY <1>3, <1>5
  <2>2. row \in Row
    BY <1>1, <1>5, <2>1 DEF Row, Statuses
  <2>3. row # None /\ row.record = before /\ row.status = "ARCHIVED"
    BY <2>1, <2>2, RowIsSome
  <2> QED  BY <1>1, <1>5, <2>3 DEF row
<1>6. CASE now # None
  <2>1. row = [record |-> now, seed |-> before,
               status |-> IF now = before THEN "PUBLISHED" ELSE "DRAFT"]
    BY <1>3, <1>6
  <2>2. row \in Row
    BY <1>1, <1>6, <2>1 DEF Row, Statuses
  <2>3. /\ row # None /\ row.record = now /\ row.seed = before
        /\ row.status = "PUBLISHED" => now = before
    BY <2>1, <2>2, RowIsSome
  <2> QED  BY <1>1, <1>6, <2>3 DEF row
<1> QED  BY <1>4, <1>5, <1>6

\* They have their parents.
LEMMA EditedRooted ==
    ASSUME NEW released \in DOMAIN Seeds, NEW copy \in DOMAIN Seeds,
           Seeds[released] \subseteq Record, Seeds[copy] \subseteq Record,
           oneCheckpointEach(Edited(released, copy)), UniqueOrders(Seeds[released]),
           \A u \in of(Seeds[copy], "unit") :
               u.stage \in slugsOf(Seeds[released] \union Seeds[copy], "stage")
    PROVE  Rooted(Edited(released, copy))
<1>1. Seeds[released] \in Corpora /\ Seeds[copy] \in Corpora
  BY DEF Corpora
<1>2. PICK table : table = Edited(released, copy)
  OBVIOUS
<1>3. PICK both : both = Seeds[released] \union Seeds[copy]
  OBVIOUS
<1>4. /\ inFiles(Seeds[released]) /\ inFiles(Seeds[copy])
      /\ \A r \in both : r.slug \in Slug /\ r \in Record
  BY <1>1, <1>3, CorpusIs
<1>5. Sound(table)
  BY <1>2, EditedSound
<1>6. ASSUME NEW s \in Slug, table[s] # None
      PROVE  table[s].record \in both /\ table[s].record.slug = s
  BY <1>1, <1>2, <1>3, <1>5, <1>6, EditedIs DEF Sound
<1>7. ASSUME NEW r \in both PROVE InTable(table, r.kind, r.slug)
  <2>1. table[r.slug] # None
    BY <1>1, <1>2, <1>3, <1>4, EditedIs
  <2>2. table[r.slug].record \in Record /\ table[r.slug].record.slug = r.slug
    BY <1>4, <1>6, <2>1
  <2>3. table[r.slug].record.kind = r.kind
    BY <1>4, <2>2, SameKind
  <2> QED  BY <1>4, <2>1, <2>3 DEF InTable
<1>8. ASSUME NEW r \in both, r.kind \in ChildKinds PROVE InTable(table, "unit", r.unit)
  <2>1. PICK u \in both : u.kind = "unit" /\ u.slug = r.unit
    BY <1>3, <1>4, <1>8 DEF inFiles, slugsOf, of
  <2> QED  BY <1>7, <2>1
<1>9. ASSUME NEW r \in both, r.kind = "unit" PROVE InTable(table, "stage", r.stage)
  <2>1. PICK u \in both : u.kind = "stage" /\ u.slug = r.stage
    BY <1>3, <1>9 DEF UniqueOrders, slugsOf, of
  <2> QED  BY <1>7, <2>1
<1>10. Rooted(table)
  BY <1>6, <1>8, <1>9 DEF Rooted
<1> QED  BY <1>2, <1>10

\* What the invariants take of the start: nothing is written, nothing runs, and
\* the rows are none or such as admins can have left them.
LEMMA StartIs ==
    ASSUME Init
    PROVE  /\ \A p \in Process : job[p].pc = "idle" /\ job[p].written = <<>>
           /\ \/ rows = [s \in Slug |-> None]
              \/ \E released, copy \in DOMAIN Seeds :
                    /\ rows = Edited(released, copy)
                    /\ Seeds[released] \subseteq Record /\ Seeds[copy] \subseteq Record
                    /\ oneCheckpointEach(Edited(released, copy))
                    /\ UniqueOrders(Seeds[released])
                    /\ \A u \in of(Seeds[copy], "unit") :
                          u.stage \in slugsOf(Seeds[released] \union Seeds[copy], "stage")
<1>1. \A p \in Process : job[p].pc = "idle" /\ job[p].written = <<>>
  BY DEF Init, Idle
<1>2. PICK start \in Starts :
          IF start.released = "nothing" THEN rows = [s \in Slug |-> None]
          ELSE rows = Edited(start.released, start.copy)
  BY DEF Init
<1>3. /\ start.released \in DOMAIN Seeds \union {"nothing"} /\ start.copy \in DOMAIN Seeds
      /\ start.released # "nothing" =>
            /\ loadContent(Seeds[start.released])
            /\ \A r \in Seeds[start.copy] : parseAdminRecord(r)
            /\ \A u \in of(Seeds[start.copy], "unit") :
                  u.stage \in slugsOf(Seeds[start.released] \union Seeds[start.copy],
                                     "stage")
            /\ oneCheckpointEach(Edited(start.released, start.copy))
  BY AuthoringAssumption
<1>4. CASE start.released # "nothing"
  <2>1. start.released \in DOMAIN Seeds /\ rows = Edited(start.released, start.copy)
    BY <1>2, <1>3, <1>4
  <2>2. Seeds[start.released] \in Corpora /\ Seeds[start.copy] \in Corpora
    BY <1>3, <2>1 DEF Corpora
  <2>3. Seeds[start.released] \subseteq Record /\ Seeds[start.copy] \subseteq Record
    BY <1>3, <1>4, <2>2, LoadedRecords, CorpusIs, SourceRecord
  <2>4. UniqueOrders(Seeds[start.released])
    BY <1>3, <1>4 DEF loadContent, checkContentRefs
  <2> QED  BY <1>1, <1>3, <1>4, <2>1, <2>3, <2>4
<1> QED  BY <1>1, <1>2, <1>4

\* It holds at the start.
LEMMA InitRooted == Init => RootedAll
<1> SUFFICES ASSUME Init PROVE RootedAll
  OBVIOUS
<1>1. Sound(rows) /\ \A p \in Process : job[p].written = <<>>
  BY InitCorrect, StartIs DEF Correct, Steady
<1>2. Rooted(rows)
  <2>1. CASE rows = [s \in Slug |-> None]
    BY <2>1 DEF Rooted
  <2>2. ASSUME rows # [s \in Slug |-> None] PROVE Rooted(rows)
    BY <2>2, StartIs, EditedRooted
  <2> QED  BY <2>1, <2>2
<1>3. over(<<>>, rows) = rows
  BY <1>1, NothingWritten
<1> QED  BY <1>1, <1>2, <1>3 DEF RootedAll

\* Whatever is written, imported, archived or refused, by however many requests
\* at once, the tree admins see shows every row of the working copy and nothing
\* else, and its totals add up.
THEOREM EveryRowShownHolds == Spec => []EveryRowShown
<1>1. Init => Inductive /\ Correct /\ RootedAll
  BY InitInductive, InitCorrect, InitRooted
<1>2. Inductive /\ Correct /\ RootedAll /\ [Next]_vars
          => Inductive' /\ Correct' /\ RootedAll'
  BY NextInductive, NextCorrect, NextRooted
<1>3. Correct /\ RootedAll => EveryRowShown
  BY RootedShown DEF Correct, Steady, RootedAll
<1> QED  BY <1>1, <1>2, <1>3, PTL DEF Spec

-----------------------------------------------------------------------------
(* Moving rows and moving them back.                                        *)

\* An element of a list in order is at its place.
LEMMA EnumerationRank ==
    ASSUME NEW S, IsFiniteSet(S), NEW R, Orders(R, S), NEW seq, Enumerates(seq, S, R)
    PROVE  /\ Len(seq) = Cardinality(S)
           /\ \A i \in DOMAIN seq : RankIn(seq[i], S, R) = i
<1>1. /\ seq \in Seq(S) /\ Len(seq) \in Nat /\ DOMAIN seq = 1 .. Len(seq)
      /\ \A r \in S : \E i \in DOMAIN seq : seq[i] = r
      /\ \A i, j \in DOMAIN seq : i < j => <<seq[i], seq[j]>> \in R
      /\ \A i \in DOMAIN seq : seq[i] \in S /\ i \in Nat
  BY DEF Enumerates
<1>2. /\ \A a \in S : <<a, a>> \notin R
      /\ \A a, b \in S : <<a, b>> \in R => <<b, a>> \notin R
  BY DEF Orders
<1>3. \A i, j \in DOMAIN seq : seq[i] = seq[j] => i = j
  <2> SUFFICES ASSUME NEW i \in DOMAIN seq, NEW j \in DOMAIN seq, i # j
               PROVE  seq[i] # seq[j]
    OBVIOUS
  <2>1. i < j \/ j < i
    BY <1>1
  <2> QED  BY <1>1, <1>2, <2>1
<1>4. \A i, j \in DOMAIN seq : <<seq[i], seq[j]>> \in R => i < j
  <2> SUFFICES ASSUME NEW i \in DOMAIN seq, NEW j \in DOMAIN seq, <<seq[i], seq[j]>> \in R
               PROVE  i < j
    OBVIOUS
  <2>1. i < j \/ j < i \/ i = j
    BY <1>1
  <2> QED  BY <1>1, <1>2, <2>1
<1>5. ASSUME NEW n \in 0 .. Len(seq), NEW T, \A r : r \in T <=> \E i \in 1 .. n : r = seq[i]
      PROVE  Cardinality(T) = n
  <2> DEFINE f == [i \in 1 .. n |-> seq[i]]
  <2>1. n \in Nat /\ 1 .. n \subseteq DOMAIN seq
    BY <1>1
  <2>2. IsFiniteSet(1 .. n) /\ Cardinality(1 .. n) = n
    <3>1. 1 \in Int /\ n \in Int /\ (1 > n => n = 0) /\ n - 1 + 1 = n
      BY <2>1
    <3> QED  BY <3>1, FS_Interval
  <2>3. f \in [1 .. n -> T]
    BY <1>5
  <2>4. \A i, j \in 1 .. n : f[i] = f[j] => i = j
    BY <1>3, <2>1
  <2>5. \A r \in T : \E i \in 1 .. n : f[i] = r
    BY <1>5
  <2> HIDE DEF f
  <2>6. f \in Bijection(1 .. n, T)
    BY <2>3, <2>4, <2>5 DEF Bijection, Injection, Surjection, IsInjective
  <2>7. ExistsBijection(1 .. n, T)
    BY <2>6 DEF ExistsBijection
  <2> QED  BY <2>2, <2>7, FS_Bijection
<1>6. Cardinality(S) = Len(seq)
  <2>1. \A r : r \in S <=> \E i \in 1 .. Len(seq) : r = seq[i]
    BY <1>1
  <2>2. Len(seq) \in 0 .. Len(seq)
    BY <1>1
  <2> QED  BY <1>5, <2>1, <2>2
<1>7. ASSUME NEW i \in DOMAIN seq PROVE RankIn(seq[i], S, R) = i
  <2>1. i - 1 \in 0 .. Len(seq) /\ 1 + (i - 1) = i
    BY <1>1
  <2>2. \A r : r \in {q \in S : <<q, seq[i]>> \in R} <=> \E j \in 1 .. (i - 1) : r = seq[j]
    <3>1. ASSUME NEW r \in S, <<r, seq[i]>> \in R PROVE \E j \in 1 .. (i - 1) : r = seq[j]
      <4>1. PICK j \in DOMAIN seq : seq[j] = r
        BY <1>1
      <4>2. j < i
        BY <1>4, <3>1, <4>1
      <4>3. j \in 1 .. (i - 1)
        BY <1>1, <4>2
      <4> QED  BY <4>1, <4>3
    <3>2. ASSUME NEW j \in 1 .. (i - 1) PROVE seq[j] \in S /\ <<seq[j], seq[i]>> \in R
      <4>1. j \in DOMAIN seq /\ j < i
        BY <1>1
      <4> QED  BY <1>1, <4>1
    <3> QED  BY <3>1, <3>2
  <2>3. Cardinality({q \in S : <<q, seq[i]>> \in R}) = i - 1
    BY <1>5, <2>1, <2>2
  <2> QED  BY <2>1, <2>3 DEF RankIn
<1> QED  BY <1>6, <1>7

\* There is one list in an order.
LEMMA OneEnumeration ==
    ASSUME NEW S, IsFiniteSet(S), NEW R, Orders(R, S),
           NEW a, Enumerates(a, S, R), NEW b, Enumerates(b, S, R)
    PROVE  a = b
<1>1. /\ a \in Seq(S) /\ b \in Seq(S) /\ Len(a) = Cardinality(S) /\ Len(b) = Cardinality(S)
      /\ \A i \in DOMAIN a : RankIn(a[i], S, R) = i
      /\ \A i \in DOMAIN b : RankIn(b[i], S, R) = i
  BY EnumerationRank DEF Enumerates
<1>2. \A r \in S : RankIn(r, S, R) \in 1 .. Cardinality(S)
  BY RankType
<1>3. ASSUME NEW r \in S, NEW q \in S, RankIn(r, S, R) = RankIn(q, S, R) PROVE r = q
  <2>1. r # q => <<r, q>> \in R \/ <<q, r>> \in R
    BY DEF Orders
  <2>2. r # q => RankIn(r, S, R) < RankIn(q, S, R) \/ RankIn(q, S, R) < RankIn(r, S, R)
    BY <2>1, PlaceGrows
  <2>3. Cardinality(S) \in Nat
    BY FS_CardinalityType
  <2> QED  BY <1>2, <1>3, <2>2, <2>3
<1>4. DOMAIN a = DOMAIN b
  BY <1>1
<1>5. ASSUME NEW i \in DOMAIN a PROVE a[i] = b[i]
  <2>1. a[i] \in S /\ b[i] \in S
    BY <1>1, <1>4
  <2> QED  BY <1>1, <1>3, <1>4, <2>1
<1> QED  BY <1>1, <1>4, <1>5

\* A row at another position, and where a list of slugs has one.
put(r, n) == [r EXCEPT !.order = n]
placeIn(asked, slug) == CHOOSE i \in DOMAIN asked : asked[i] = slug

\* What a move leaves.
LEMMA MovedRows ==
    ASSUME NEW current, NEW asked, NEW r
    PROVE  r \in moved(current, asked) <=>
               \E q \in current : r = put(q, newOrder(current, asked)[placeIn(asked, q.slug)])
BY DEF moved, put, placeIn

\* A record is a function of its fields: to give it the position it has is to
\* leave it as it is.
LEMMA PutBack ==
    ASSUME NEW r \in Record, r.kind \in {"unit", "lesson"}, NEW n
    PROVE  /\ put(put(r, n), r.order) = r
           /\ put(r, n).order = n /\ put(r, n).slug = r.slug
<1>1. r = [field \in DOMAIN r |-> r[field]]
  <2>1. CASE r \in Sources
    BY <2>1, AuthoringAssumption
  <2>2. CASE r \in Reordered
    <3>1. PICK was, m : r = [was EXCEPT !.order = m]
      BY <2>2 DEF Reordered
    <3> QED  BY <3>1
  <2>3. CASE r \in Mixed
    <3>1. PICK l, n1, a, b : r = lessonOf(l, n1, a, b)
      BY <2>3 DEF Mixed
    <3> QED  BY <3>1 DEF lessonOf
  <2> QED  BY <2>1, <2>2, <2>3 DEF Record
<1>2. parseAdminRecord(r)
  BY RecordIs
<1>3. {"slug", "order"} \subseteq DOMAIN r
  BY <1>2 DEF parseAdminRecord, unitRecordSchema, lessonSchema
<1>4. PICK away : away = put(r, n)
  OBVIOUS
<1>5. /\ away = [field \in DOMAIN r |-> IF field = "order" THEN n ELSE r[field]]
      /\ away.order = n /\ away.slug = r.slug
  BY <1>1, <1>3, <1>4 DEF put
<1>6. put(away, r.order) = [field \in DOMAIN r |-> r[field]]
  BY <1>3, <1>5 DEF put
<1> QED  BY <1>1, <1>4, <1>5, <1>6

\* Rows of one parent: each with a slug and a position of its own.
Siblings(current) ==
    /\ current \in SUBSET Record /\ IsFiniteSet(current)
    /\ \A r \in current : r.kind \in {"unit", "lesson"}
    /\ \A a, b \in current : a.slug = b.slug => a = b
    /\ \A a, b \in current : a.order = b.order => a = b

\* The positions they hold, sorted.
ordersOf(current) == {r.order : r \in current}
held(current) == sorted(ordersOf(current), <)

\* They are in increasing order.
LEMMA HeldIs ==
    ASSUME NEW current, ordersOf(current) \in SUBSET Nat, IsFiniteSet(ordersOf(current))
    PROVE  /\ Enumerates(held(current), ordersOf(current), Below(ordersOf(current)))
           /\ Orders(Below(ordersOf(current)), ordersOf(current))
BY SortedNumbers DEF held

\* They are handed out anew when they are as many as the slugs.
LEMMA HandsOut ==
    ASSUME NEW current, NEW slugs, Len(held(current)) = Len(slugs)
    PROVE  newOrder(current, slugs) = held(current)
BY DEF newOrder, held, ordersOf

\* They are the same of siblings that share them.
LEMMA SameHeld ==
    ASSUME NEW current, NEW other, ordersOf(current) = ordersOf(other)
    PROVE  held(current) = held(other)
BY DEF held

\* The positions of siblings, sorted, are those of the siblings in their order.
LEMMA PositionsInOrder ==
    ASSUME NEW current, Siblings(current)
    PROVE  LET now == sorted(current, byOrder)
           IN  /\ InOrder(now, current)
               /\ held(current) = [k \in DOMAIN now |-> now[k].order]
<1> DEFINE now == sorted(current, byOrder)
           O == ordersOf(current)
           orderOf == [r \in current |-> r.order]
           inOrder == [k \in DOMAIN now |-> now[k].order]
<1>1. \A r \in current : r.order \in Nat \ {0} /\ r.slug \in Slug
  BY MovedRecord, PositionsArePositive, RecordIs DEF Siblings
<1>2. O \in SUBSET Nat /\ IsFiniteSet(O)
  <2>1. DOMAIN orderOf = current /\ O = {orderOf[r] : r \in DOMAIN orderOf}
    BY DEF ordersOf
  <2>2. IsFiniteSet(O)
    <3> HIDE DEF orderOf, O
    <3> QED  BY <2>1, FiniteImage DEF Siblings
  <2> QED  BY <1>1, <2>2 DEF ordersOf
<1>3. InOrder(now, current)
  BY <1>1, SortedInOrder DEF Ranked, Siblings, Slug
<1>4. Enumerates(held(current), O, Below(O)) /\ Orders(Below(O), O)
  BY <1>2, HeldIs
<1> HIDE DEF now
<1>5. /\ now \in Seq(current) /\ \A k \in DOMAIN now : now[k] \in current
      /\ \A r \in current : \E k \in DOMAIN now : now[k] = r
  BY <1>3 DEF InOrder
<1>6. Enumerates(inOrder, O, Below(O))
  <2>1. inOrder \in Seq(O)
    BY <1>5 DEF ordersOf
  <2>2. ASSUME NEW n \in O PROVE \E k \in DOMAIN inOrder : inOrder[k] = n
    BY <1>5 DEF ordersOf
  <2>3. ASSUME NEW j \in DOMAIN inOrder, NEW k \in DOMAIN inOrder, j < k
        PROVE  <<inOrder[j], inOrder[k]>> \in Below(O)
    <3>1. byOrder(now[j], now[k]) /\ now[j] \in current /\ now[k] \in current
      BY <1>3, <1>5, <2>3 DEF InOrder
    <3>2. now[j] # now[k]
      <4>1. j # k
        BY <1>5, <2>3
      <4> QED  BY <1>3, <4>1 DEF InOrder
    <3>3. now[j].order # now[k].order
      BY <3>1, <3>2 DEF Siblings
    <3>4. now[j].order < now[k].order
      BY <3>1, <3>3 DEF byOrder
    <3>5. now[j].order \in O /\ now[k].order \in O
      BY <3>1 DEF ordersOf
    <3> HIDE DEF O
    <3> QED  BY <3>4, <3>5 DEF Below
  <2> HIDE DEF inOrder, O
  <2> QED  BY <2>1, <2>2, <2>3 DEF Enumerates
<1> HIDE DEF inOrder, O
<1>7. held(current) = inOrder
  BY <1>2, <1>4, <1>6, OneEnumeration
<1> QED  BY <1>3, <1>7 DEF now, inOrder, O

\* What a move to a list of the siblings' slugs leaves: "list" has the rows, each
\* asked for at the place "to" says.
Move(current, asked, n, list, to, positions) ==
    /\ asked \in Seq(Slug) /\ DOMAIN asked = 1 .. n
    /\ \A r : r \in current <=> \E k \in 1 .. n : r = list[k]
    /\ \A k \in 1 .. n : to[k] \in 1 .. n /\ asked[to[k]] = list[k].slug
    /\ \A i, j \in 1 .. n : asked[i] = asked[j] => i = j
    /\ held(current) = positions /\ Len(positions) = Len(asked)

\* What a move makes of its siblings, row by row.
LEMMA MoveIs ==
    ASSUME NEW current, NEW asked, NEW n, NEW list, NEW to, NEW positions,
           Move(current, asked, n, list, to, positions),
           NEW r
    PROVE  r \in moved(current, asked) <=> \E k \in 1 .. n : r = put(list[k], positions[to[k]])
<1>1. newOrder(current, asked) = positions
  BY HandsOut DEF Move
<1>2. ASSUME NEW k \in 1 .. n PROVE placeIn(asked, list[k].slug) = to[k]
  BY DEF placeIn, Move
<1>3. r \in moved(current, asked) <=>
          \E q \in current : r = put(q, positions[placeIn(asked, q.slug)])
  BY <1>1, MovedRows
<1>4. (\E q \in current : r = put(q, positions[placeIn(asked, q.slug)])) <=>
          \E k \in 1 .. n : r = put(list[k], positions[placeIn(asked, list[k].slug)])
  BY DEF Move
<1>5. (\E k \in 1 .. n : r = put(list[k], positions[placeIn(asked, list[k].slug)])) <=>
          \E k \in 1 .. n : r = put(list[k], positions[to[k]])
  BY <1>2
<1> QED  BY <1>3, <1>4, <1>5

\* The slugs of siblings in their order, which hold the positions handed out.
InPlace(slugs, now, current) ==
    /\ InOrder(now, current)
    /\ held(current) = [k \in DOMAIN now |-> now[k].order]
    /\ slugs = [k \in DOMAIN now |-> now[k].slug]

\* Siblings moved to any order and back again are where they were.
LEMMA ListMovesBack ==
    ASSUME NEW current, Siblings(current), NEW now, NEW slugs,
           InPlace(slugs, now, current),
           NEW f \in Bijection(DOMAIN slugs, DOMAIN slugs)
    PROVE  moved(moved(current, [i \in DOMAIN slugs |-> slugs[f[i]]]), slugs) = current
<1>2. /\ now \in Seq(current)
      /\ \A r \in current : \E k \in DOMAIN now : now[k] = r
      /\ \A i, j \in DOMAIN now : now[i] = now[j] => i = j
  BY DEF InPlace, InOrder
<1>3. PICK n \in Nat : DOMAIN now = 1 .. n /\ Len(now) = n
  BY <1>2
<1>4. /\ \A k \in 1 .. n : now[k] \in current
      /\ \A r : r \in current <=> \E k \in 1 .. n : r = now[k]
      /\ \A i, j \in 1 .. n : now[i] = now[j] => i = j
  BY <1>2, <1>3
<1>5. PICK positions : /\ positions = held(current)
                       /\ DOMAIN positions = 1 .. n /\ Len(positions) = n
                       /\ \A k \in 1 .. n : positions[k] = now[k].order
  BY <1>3 DEF InPlace
<1>6. /\ slugs \in Seq(Slug) /\ DOMAIN slugs = 1 .. n /\ Len(slugs) = n
      /\ \A k \in 1 .. n : slugs[k] = now[k].slug
  <2>1. \A k \in 1 .. n : now[k].slug \in Slug
    BY <1>4, RecordIs DEF Siblings
  <2> QED  BY <1>3, <2>1 DEF InPlace
<1>7. \A i, j \in 1 .. n : slugs[i] = slugs[j] => i = j
  <2>1. \A a, b \in current : a.slug = b.slug => a = b
    BY DEF Siblings
  <2> QED  BY <1>4, <1>6, <2>1
<1>8. \A k \in 1 .. n : now[k] \in Record /\ now[k].kind \in {"unit", "lesson"}
  BY <1>4 DEF Siblings
<1>9. /\ \A i \in 1 .. n : f[i] \in 1 .. n
      /\ \A i, j \in 1 .. n : f[i] = f[j] => i = j
      /\ \A k \in 1 .. n : \E i \in 1 .. n : f[i] = k
  <2>1. f \in Bijection(1 .. n, 1 .. n)
    BY <1>6
  <2> QED  BY <2>1 DEF Bijection, Injection, Surjection, IsInjective
<1>10. PICK asked : /\ asked = [i \in DOMAIN slugs |-> slugs[f[i]]]
                    /\ asked = [i \in 1 .. n |-> slugs[f[i]]]
  BY <1>6
<1>11. PICK to : \A k \in 1 .. n : to[k] \in 1 .. n /\ f[to[k]] = k
  <2> DEFINE g == [k \in 1 .. n |-> CHOOSE i \in 1 .. n : f[i] = k]
  <2>1. \A k \in 1 .. n : g[k] \in 1 .. n /\ f[g[k]] = k
    BY <1>9
  <2> HIDE DEF g
  <2> QED  BY <2>1
<1>12. /\ asked \in Seq(Slug) /\ DOMAIN asked = 1 .. n /\ Len(asked) = n
       /\ \A i \in 1 .. n : asked[i] = slugs[f[i]]
  BY <1>3, <1>6, <1>9, <1>10
<1>13. \A i, j \in 1 .. n : asked[i] = asked[j] => i = j
  <2> SUFFICES ASSUME NEW i \in 1 .. n, NEW j \in 1 .. n, asked[i] = asked[j]
               PROVE  i = j
    OBVIOUS
  <2>1. slugs[f[i]] = slugs[f[j]] /\ f[i] \in 1 .. n /\ f[j] \in 1 .. n
    BY <1>9, <1>12
  <2>2. f[i] = f[j]
    BY <1>7, <2>1
  <2> QED  BY <1>9, <2>2
<1>14. \A k \in 1 .. n : asked[to[k]] = now[k].slug
  BY <1>6, <1>11, <1>12
<1>15. PICK list : \A k \in 1 .. n : list[k] = put(now[k], positions[to[k]])
  <2> DEFINE g == [k \in 1 .. n |-> put(now[k], positions[to[k]])]
  <2>1. \A k \in 1 .. n : g[k] = put(now[k], positions[to[k]])
    OBVIOUS
  <2> HIDE DEF g
  <2> QED  BY <2>1
<1>16. PICK after : after = moved(current, asked)
  OBVIOUS
<1>17. \A r : r \in after <=> \E k \in 1 .. n : r = list[k]
  <2>1. ASSUME NEW r
        PROVE  r \in after <=> \E k \in 1 .. n : r = put(now[k], positions[to[k]])
    <3>1. Move(current, asked, n, now, to, positions)
      BY <1>4, <1>5, <1>11, <1>12, <1>13, <1>14 DEF Move
    <3> QED  BY <1>16, <3>1, MoveIs
  <2> QED  BY <1>15, <2>1
<1>18. \A k \in 1 .. n : /\ list[k].slug = slugs[k] /\ list[k].order = positions[to[k]]
                         /\ put(list[k], positions[k]) = now[k]
  <2> SUFFICES ASSUME NEW k \in 1 .. n
               PROVE  /\ list[k].slug = slugs[k] /\ list[k].order = positions[to[k]]
                      /\ put(list[k], positions[k]) = now[k]
    OBVIOUS
  <2>1. /\ list[k] = put(now[k], positions[to[k]])
        /\ positions[k] = now[k].order /\ slugs[k] = now[k].slug
        /\ now[k] \in Record /\ now[k].kind \in {"unit", "lesson"}
    BY <1>5, <1>6, <1>8, <1>15
  <2> QED  BY <2>1, PutBack
<1>19. ordersOf(after) = ordersOf(current)
  <2>1. \A o : o \in ordersOf(after) <=> \E k \in 1 .. n : o = positions[to[k]]
    BY <1>17, <1>18 DEF ordersOf
  <2>2. \A o : o \in ordersOf(current) <=> \E k \in 1 .. n : o = positions[k]
    BY <1>4, <1>5 DEF ordersOf
  <2>3. \A k \in 1 .. n : \E j \in 1 .. n : to[j] = k
    <3> SUFFICES ASSUME NEW k \in 1 .. n PROVE \E j \in 1 .. n : to[j] = k
      OBVIOUS
    <3>1. f[k] \in 1 .. n /\ to[f[k]] \in 1 .. n /\ f[to[f[k]]] = f[k]
      BY <1>9, <1>11
    <3>2. to[f[k]] = k
      BY <1>9, <3>1
    <3> QED  BY <3>1, <3>2
  <2>4. \A o : o \in ordersOf(after) <=> o \in ordersOf(current)
    <3>1. ASSUME NEW o, o \in ordersOf(after) PROVE o \in ordersOf(current)
      BY <1>11, <2>1, <2>2, <3>1
    <3>2. ASSUME NEW o, o \in ordersOf(current) PROVE o \in ordersOf(after)
      <4>1. PICK k \in 1 .. n : o = positions[k]
        BY <2>2, <3>2
      <4>2. PICK j \in 1 .. n : to[j] = k
        BY <2>3
      <4> QED  BY <2>1, <4>1, <4>2
    <3> QED  BY <3>1, <3>2
  <2> QED  BY <2>4
<1>20. ASSUME NEW r
       PROVE  r \in moved(after, slugs) <=> \E k \in 1 .. n : r = put(list[k], positions[k])
  <2>1. PICK same : \A k \in 1 .. n : same[k] = k
    <3>1. \A k \in 1 .. n : [j \in 1 .. n |-> j][k] = k
      OBVIOUS
    <3> QED  BY <3>1
  <2>2. \A k \in 1 .. n : same[k] \in 1 .. n /\ slugs[same[k]] = list[k].slug
    BY <1>18, <2>1
  <2>3. held(after) = positions /\ Len(positions) = Len(slugs)
    BY <1>5, <1>6, <1>19, SameHeld
  <2>4. r \in moved(after, slugs) <=> \E k \in 1 .. n : r = put(list[k], positions[same[k]])
    <3>1. Move(after, slugs, n, list, same, positions)
      BY <1>6, <1>7, <1>17, <2>2, <2>3 DEF Move
    <3> QED  BY <3>1, MoveIs
  <2> QED  BY <2>1, <2>4
<1>21. \A r : r \in moved(after, slugs) <=> r \in current
  BY <1>4, <1>18, <1>20
<1>22. moved(after, slugs) = current
  BY <1>21
<1> QED  BY <1>10, <1>16, <1>22

\* Siblings put in any order and back are as before.
LEMMA SiblingsMoveBack ==
    ASSUME NEW current, Siblings(current), NEW slugs, slugs = slugsInOrder(current),
           NEW f \in Bijection(DOMAIN slugs, DOMAIN slugs)
    PROVE  moved(moved(current, [i \in DOMAIN slugs |-> slugs[f[i]]]), slugs) = current
<1> DEFINE now == sorted(current, byOrder)
<1>1. slugs = [k \in DOMAIN now |-> now[k].slug]
  BY DEF slugsInOrder
<1>2. InOrder(now, current) /\ held(current) = [k \in DOMAIN now |-> now[k].order]
  BY PositionsInOrder
<1>3. InPlace(slugs, now, current)
  BY <1>1, <1>2 DEF InPlace
<1> HIDE DEF now
<1>4. SUFFICES ASSUME NEW s, s = slugs
               PROVE  moved(moved(current, [i \in DOMAIN s |-> s[f[i]]]), s) = current
  OBVIOUS
<1> QED  BY <1>3, <1>4, ListMovesBack

\* Whatever has been written: a stage's units and a unit's lessons, moved to any
\* order and back, hold the positions they held, unless two share one.
LEMMA SoundMovesBack ==
    ASSUME Sound(rows)
    PROVE  MoveBackRestores
<1> DEFINE kindUnder(parent) ==
               IF rows[parent].record.kind = "stage" THEN "unit" ELSE "lesson"
           siblings(parent) ==
               {r \in {rows[s].record : s \in {t \in Slug : live(rows[t])}} :
                   /\ r.kind = kindUnder(parent)
                   /\ parent = IF kindUnder(parent) = "unit" THEN r.stage ELSE r.unit}
<1>1. \A s \in Slug : live(rows[s]) =>
          rows[s].record \in Record /\ rows[s].record.slug = s
  BY RowIsSome DEF Sound, live, Row
<1>2. ASSUME NEW parent \in Slug,
             Cardinality({r.order : r \in siblings(parent)}) = Cardinality(siblings(parent))
      PROVE  Siblings(siblings(parent))
  <2>1. PICK current : current = siblings(parent)
    OBVIOUS
  <2>2. PICK g : g = [s \in {t \in Slug : live(rows[t])} |-> rows[s].record]
    OBVIOUS
  <2>3. \A r \in current : r.kind \in {"unit", "lesson"} /\ \E s \in DOMAIN g : r = g[s]
    BY <2>1, <2>2
  <2>4. DOMAIN g \subseteq Slug /\ \A s \in DOMAIN g : g[s] \in Record /\ g[s].slug = s
    BY <1>1, <2>2
  <2>5. Cardinality({r.order : r \in current}) = Cardinality(current)
    BY <1>2, <2>1
  <2> HIDE DEF siblings
  <2>6. current \in SUBSET Record /\ \A a, b \in current : a.slug = b.slug => a = b
    BY <2>3, <2>4
  <2>7. IsFiniteSet(current)
    <3>1. IsFiniteSet(DOMAIN g)
      BY <2>4, SlugFinite
    <3>2. IsFiniteSet({g[s] : s \in DOMAIN g})
      BY <3>1, FiniteImage
    <3>3. current \in SUBSET {g[s] : s \in DOMAIN g}
      BY <2>3
    <3> QED  BY <3>2, <3>3, FS_Subset
  <2>8. \A a, b \in current : a.order = b.order => a = b
    <3>1. PICK h : h = [r \in current |-> r.order]
      OBVIOUS
    <3>2. h \in Surjection(current, {r.order : r \in current})
      BY <3>1 DEF Surjection
    <3>3. h \in Injection(current, {r.order : r \in current})
      <4>1. PICK O : O = {r.order : r \in current}
        OBVIOUS
      <4>2. h \in Surjection(current, O) /\ Cardinality(O) = Cardinality(current)
        BY <2>5, <3>2, <4>1
      <4>3. h \in Injection(current, O)
        BY <2>7, <4>2, FS_SurjSameCardinalityImpliesInj
      <4> QED  BY <4>1, <4>3
    <3>4. \A a, b \in current : h[a] = h[b] => a = b
      BY <3>3 DEF Injection, IsInjective
    <3> QED  BY <3>1, <3>4
  <2>9. Siblings(current)
    BY <2>3, <2>6, <2>7, <2>8 DEF Siblings
  <2> QED  BY <2>1, <2>9
<1>3. ASSUME NEW parent \in Slug,
             Cardinality({r.order : r \in siblings(parent)}) = Cardinality(siblings(parent)),
             NEW slugs, slugs = slugsInOrder(siblings(parent)),
             NEW f \in Bijection(DOMAIN slugs, DOMAIN slugs)
      PROVE  moved(moved(siblings(parent), [i \in DOMAIN slugs |-> slugs[f[i]]]), slugs)
                 = siblings(parent)
  <2>1. Siblings(siblings(parent))
    BY <1>2, <1>3
  <2> HIDE DEF siblings
  <2> QED  BY <1>3, <2>1, SiblingsMoveBack
<1>4. ASSUME NEW parent \in Slug,
             Cardinality({r.order : r \in siblings(parent)}) = Cardinality(siblings(parent)),
             NEW f \in Bijection(DOMAIN slugsInOrder(siblings(parent)),
                                 DOMAIN slugsInOrder(siblings(parent)))
      PROVE  moved(moved(siblings(parent),
                         [i \in DOMAIN slugsInOrder(siblings(parent)) |->
                             slugsInOrder(siblings(parent))[f[i]]]),
                   slugsInOrder(siblings(parent)))
                 = siblings(parent)
  <2> HIDE DEF siblings
  <2> QED  BY <1>3, <1>4
<1> QED  BY <1>4 DEF MoveBackRestores

\* Whatever is written, imported or reordered, by however many requests at once:
\* rows moved and moved back hold the positions they held, unless two share one.
THEOREM MoveBackRestoresHolds == Spec => []MoveBackRestores
<1>1. Init => Inductive /\ Correct
  BY InitInductive, InitCorrect
<1>2. Inductive /\ Correct /\ [Next]_vars => Inductive' /\ Correct'
  BY NextInductive, NextCorrect
<1>3. Correct => MoveBackRestores
  BY SoundMovesBack DEF Correct, Steady
<1> QED  BY <1>1, <1>2, <1>3, PTL DEF Spec
-----------------------------------------------------------------------------
(* What publishes write, and what edits and imports do.                     *)

\* A publish marks drafts and writes nothing else; what others write as published
\* is what the last import wrote.
MarkedRow(publishes, written, row) ==
    IF publishes
    THEN row # None /\ row.status = "DRAFT" /\ written = [row EXCEPT !.status = "PUBLISHED"]
    ELSE written.status = "PUBLISHED" => ~adminEdited(written)

\* Every written row of every process is one of those.
Marked ==
    \A p \in Process : \A s \in DOMAIN job[p].written :
        MarkedRow(job[p].pc \in Publishes, job[p].written[s], rows[s])

\* A step marks what it writes.
LEMMA WritesMarked ==
    ASSUME Marked, NEW p \in Process, NEW row, Writes(p, row),
           job[p].pc \notin Publishes,
           row.status = "PUBLISHED" => ~adminEdited(row)
    PROVE  \A s \in DOMAIN job'[p].written :
               MarkedRow(job'[p].pc \in Publishes, job'[p].written[s], rows'[s])
<1>1. job'[p].pc \notin Publishes
  BY DEF Writes
<1>2. job'[p].written = withRow(job[p].written, row.record.slug, row)
  BY DEF Writes
<1>3. ASSUME NEW s \in DOMAIN job'[p].written
      PROVE  job'[p].written[s].status = "PUBLISHED" => ~adminEdited(job'[p].written[s])
  <2>1. \/ s = row.record.slug /\ job'[p].written[s] = row
        \/ s \in DOMAIN job[p].written /\ job'[p].written[s] = job[p].written[s]
    BY <1>2, <1>3 DEF withRow
  <2>2. ASSUME NEW t \in DOMAIN job[p].written
        PROVE  job[p].written[t].status = "PUBLISHED" => ~adminEdited(job[p].written[t])
    BY DEF Marked, MarkedRow
  <2> QED  BY <2>1, <2>2
<1> QED  BY <1>1, <1>3 DEF MarkedRow

\* Drafts marked as published are.
LEMMA FlipsMarked ==
    ASSUME Fields, Marked, NEW p \in Process, Flip(p),
           Flips(p, drafts(Head(job[p].left)))
    PROVE  \A s \in DOMAIN job'[p].written :
               MarkedRow(job'[p].pc \in Publishes, job'[p].written[s], rows'[s])
<1> DEFINE those == drafts(Head(job[p].left))
<1>0. DOMAIN job[p] = {"pc", "request", "seen", "left",
          "todo", "written", "refused", "against", "built"}
  BY DEF Fields, Idle
<1>1. job[p].pc \in Publishes /\ job'[p].pc \in Publishes
  BY <1>0 DEF Flip, Go, Fields, At, Publishes
<1>2. \A s \in those : rows[s] # None /\ rows[s].status = "DRAFT"
  BY DEF drafts
<1>3. /\ rows' = rows
      /\ DOMAIN job'[p].written = DOMAIN job[p].written \union those
      /\ \A s \in DOMAIN job'[p].written : job'[p].written[s] =
            IF s \in those THEN [rows[s] EXCEPT !.status = "PUBLISHED"]
            ELSE job[p].written[s]
  BY DEF Flips
<1> HIDE DEF those
<1>4. ASSUME NEW s \in DOMAIN job'[p].written
      PROVE  MarkedRow(TRUE, job'[p].written[s], rows[s])
  <2>1. CASE s \in those
    BY <1>2, <1>3, <2>1 DEF MarkedRow
  <2>2. CASE s \notin those
    <3>1. s \in DOMAIN job[p].written /\ job'[p].written[s] = job[p].written[s]
      BY <1>3, <2>2
    <3>2. MarkedRow(job[p].pc \in Publishes, job[p].written[s], rows[s])
      BY <3>1 DEF Marked
    <3> QED  BY <1>1, <3>1, <3>2 DEF MarkedRow
  <2> QED  BY <2>1, <2>2
<1>5. ASSUME NEW s \in DOMAIN job'[p].written
      PROVE  MarkedRow(job'[p].pc \in Publishes, job'[p].written[s], rows'[s])
  BY <1>1, <1>3, <1>4 DEF MarkedRow
<1> QED  BY <1>5

\* No step does otherwise.
LEMMA StepMarked ==
    ASSUME Fields, Steady, Marked, NEW p \in Process, RowStep(p),
           \A q \in Process \ {p} : job'[q] = job[q]
    PROVE  Marked'
<1>1. ASSUME NEW q \in Process \ {p}, NEW s \in DOMAIN job[q].written
      PROVE  rows'[s] = rows[s]
  <2>1. CASE Commits(p)
    <3>1. s \in Slug /\ s \notin DOMAIN job[p].written
      BY <1>1 DEF Steady, Written, Apart
    <3> QED  BY <2>1, <3>1, ViewIs DEF Commits
  <2>2. CASE rows' = rows
    BY <2>2
  <2> QED  BY <2>1, <2>2 DEF RowStep, WritesNothing, Writes, Flips
<1>2. \A s \in DOMAIN job'[p].written :
          MarkedRow(job'[p].pc \in Publishes, job'[p].written[s], rows'[s])
  <2>1. CASE WritesNothing(p)
    <3> SUFFICES ASSUME NEW s \in DOMAIN job'[p].written
                 PROVE  MarkedRow(job'[p].pc \in Publishes, job'[p].written[s], rows'[s])
      OBVIOUS
    <3>1. job'[p].written # <<>>
      BY NothingWritten
    <3>2. /\ job'[p].written = job[p].written /\ rows' = rows
          /\ job'[p].pc \in Publishes <=> job[p].pc \in Publishes
      BY <2>1, <3>1 DEF WritesNothing
    <3>3. MarkedRow(job[p].pc \in Publishes, job[p].written[s], rows[s])
      BY <3>2 DEF Marked
    <3> QED  BY <3>2, <3>3 DEF MarkedRow
  <2>2. CASE Commits(p)
    BY <2>2, NothingWritten DEF Commits
  <2>3. CASE /\ SetStatus(p) /\ Writes(p, statusRow(p))
             /\ target(p) \in Slug /\ view(p)[target(p)] \in Row
    <3>1. statusRow(p).status # "PUBLISHED"
      BY <2>3 DEF statusRow, Row
    <3>2. job[p].pc \notin Publishes
      BY <2>3 DEF SetStatus, At, Publishes
    <3> QED  BY <2>3, <3>1, <3>2, WritesMarked
  <2>4. CASE /\ Write(p) /\ dbAccepts(p, Head(job[p].todo))
             /\ Writes(p, writeRecord(p, Head(job[p].todo).record))
    <3>1. PICK row : row = writeRecord(p, Head(job[p].todo).record)
      OBVIOUS
    <3>2. row.status = "PUBLISHED" => ~adminEdited(row)
      BY <3>1 DEF writeRecord, adminEdited
    <3>3. job[p].pc \notin Publishes
      BY <2>4 DEF Write, At, Publishes
    <3> QED  BY <2>4, <3>1, <3>2, <3>3, WritesMarked
  <2>5. CASE Flip(p) /\ Flips(p, drafts(Head(job[p].left)))
    BY <2>5, FlipsMarked
  <2> QED  BY <2>1, <2>2, <2>3, <2>4, <2>5 DEF RowStep
<1>3. ASSUME NEW q \in Process, NEW s \in DOMAIN job'[q].written
      PROVE  MarkedRow(job'[q].pc \in Publishes, job'[q].written[s], rows'[s])
  <2>1. CASE q = p
    BY <1>2, <1>3, <2>1
  <2>2. CASE q # p
    <3>1. job'[q] = job[q] /\ s \in DOMAIN job[q].written
      BY <1>3, <2>2
    <3>2. rows'[s] = rows[s]
      BY <1>1, <2>2, <3>1
    <3>3. MarkedRow(job[q].pc \in Publishes, job[q].written[s], rows[s])
      BY <3>1 DEF Marked
    <3> QED  BY <3>1, <3>2, <3>3 DEF MarkedRow
  <2> QED  BY <2>1, <2>2
<1> QED  BY <1>3 DEF Marked

\* Every step keeps it.
LEMMA NextMarked == Correct /\ Marked /\ [Next]_vars => Marked'
<1> SUFFICES ASSUME Correct, Marked, [Next]_vars PROVE Marked'
  OBVIOUS
<1>1. Fields /\ Steady
  BY DEF Correct
<1>2. CASE \E p \in Process : RowStep(p) /\ \A q \in Process \ {p} : job'[q] = job[q]
  BY <1>1, <1>2, StepMarked
<1>3. CASE UNCHANGED <<rows, job>>
  BY <1>3 DEF Marked
<1> QED  BY <1>2, <1>3, NextRowStep

\* Two versions of a row that differ at most in being published.
Same(a, b) ==
    \/ a = None /\ b = None
    \/ /\ a # None /\ b # None
       /\ a.record = b.record /\ a.seed = b.seed /\ (live(a) <=> live(b))

\* Only a commit changes rows, and that of a publish only publishes some.
LEMMA RowsChange ==
    ASSUME Fields, Steady, Marked, NEW p \in Process, RowStep(p)
    PROVE  \/ rows' = rows
           \/ Commit(p) /\ job[p].pc = "commit" /\ rows' = view(p)
           \/ /\ CommitPublish(p) /\ job[p].pc = "point" /\ rows' = view(p)
              /\ \A s \in Slug : Same(rows[s], rows'[s])
<1>1. CASE Commit(p) /\ Commits(p)
  BY <1>1 DEF Commit, At, Commits
<1>2. CASE CommitPublish(p) /\ Commits(p)
  <2>1. job[p].pc = "point" /\ rows' = view(p)
    BY <1>2 DEF CommitPublish, At, Commits
  <2>2. ASSUME NEW s \in Slug PROVE Same(rows[s], rows'[s])
    <3>1. CASE s \notin DOMAIN job[p].written
      <4>1. rows'[s] = rows[s]
        BY <2>1, <3>1, ViewIs
      <4> QED  BY <4>1 DEF Same
    <3>2. CASE s \in DOMAIN job[p].written
      <4>1. rows'[s] = job[p].written[s]
        BY <2>1, <3>2, ViewIs
      <4>2. MarkedRow(TRUE, job[p].written[s], rows[s])
        BY <2>1, <3>2 DEF Marked, Publishes
      <4>3. rows[s] \in Row \union {None}
        BY DEF Steady, Sound
      <4>4. PICK row \in Row : row = rows[s] /\ row.status = "DRAFT"
                               /\ rows'[s] = [row EXCEPT !.status = "PUBLISHED"]
        BY <4>1, <4>2, <4>3 DEF MarkedRow
      <4>5. /\ rows'[s] \in Row /\ rows'[s].record = row.record
            /\ rows'[s].seed = row.seed /\ rows'[s].status = "PUBLISHED"
        BY <4>4 DEF Row, Statuses
      <4> QED  BY <4>4, <4>5, RowIsSome DEF Same, live
    <3> QED  BY <3>1, <3>2
  <2> QED  BY <1>2, <2>1, <2>2
<1>3. CASE rows' = rows
  BY <1>3
<1> QED  BY <1>1, <1>2, <1>3 DEF RowStep, WritesNothing, Writes, Flips

-----------------------------------------------------------------------------
(* Where a step leaves its process.                                         *)

\* Steps at which a process may start to read.
Beginning == {"load", "read", "lock", "copy"}
Blank == \A p \in Process : job[p].pc \in Beginning => job[p].written = <<>>

\* A step leaves its process at none of those, nor in a publish.
Elsewhere(p) == job'[p].pc \notin Beginning \union LockedSteps

\* A step that goes on to another place.
LEMMA GoesTo ==
    ASSUME Fields, NEW p \in Process, NEW j, Go(p, j), j.pc \notin Beginning \union LockedSteps
    PROVE  Elsewhere(p)
BY DEF Go, Fields, Elsewhere

\* A request that ends, which has written nothing then.
LEMMA EndsAt ==
    ASSUME Fields, NEW p \in Process, End(p)
    PROVE  Elsewhere(p) /\ job'[p].written = <<>>
BY DEF End, Go, Fields, Idle, Elsewhere, Beginning, LockedSteps

\* The steps that go on with neither.
LEMMA GoesElsewhere ==
    ASSUME Fields, NEW p \in Process,
           \/ FindForCreate(p) \/ FindForUpdate(p) \/ FindForArchive(p)
           \/ FindForRestore(p) \/ FindParent(p) \/ CheckEmpty(p) \/ SetStatus(p)
           \/ FindChildren(p) \/ Reread(p) \/ RereadPart(p)
           \/ CheckParent(p) \/ CheckOthers(p) \/ Write(p) \/ PlanUnitImport(p) \/ PlanImport(p) \/ ActivateNone(p)
           \/ PointerMiss(p) \/ TimeOut(p) \/ Stop(p)
           \/ CommitPublish(p) \/ Activate(p) \/ DropPointer(p) \/ SendRetired(p)
    PROVE  Elsewhere(p)
<1> USE DEF Beginning, LockedSteps
<1>0. DOMAIN job[p] = {"pc", "request", "seen", "left",
          "todo", "written", "refused", "against", "built"}
  BY DEF Fields, Idle
<1>1. CASE FindForCreate(p) \/ FindForUpdate(p) \/ FindForArchive(p)
  BY <1>0, <1>1, GoesTo, EndsAt DEF FindForCreate, FindForUpdate, FindForArchive
<1>2. CASE FindForRestore(p) \/ FindParent(p) \/ CheckEmpty(p)
  BY <1>0, <1>2, GoesTo, EndsAt DEF FindForRestore, FindParent, CheckEmpty
<1>3. CASE SetStatus(p) \/ FindChildren(p) \/ Reread(p) \/ RereadPart(p)
  BY <1>0, <1>3, GoesTo, EndsAt DEF SetStatus, FindChildren, Reread, RereadPart
<1>4. CASE CheckParent(p) \/ CheckOthers(p)
  <2>1. Refuse(p) => Elsewhere(p)
    BY <1>0, GoesTo, EndsAt, NextStepIsQuiet DEF Refuse
  <2>2. ASSUME NEW pc \in {"write", "checkOthers"}, Go(p, [job[p] EXCEPT !.pc = pc])
        PROVE  Elsewhere(p)
    BY <1>0, <2>2, GoesTo, EndsAt
  <2> QED  BY <1>4, <2>1, <2>2 DEF CheckParent, CheckOthers
<1>5. CASE Write(p) \/ PlanUnitImport(p) \/ PlanImport(p)
  <2>1. CASE Write(p)
    BY <1>0, <2>1, GoesTo, EndsAt, NextStepIsQuiet DEF Write
  <2>2. CASE PlanUnitImport(p)
    BY <1>0, <2>2, GoesTo, EndsAt, NextStepIsQuiet DEF PlanUnitImport
  <2>3. CASE PlanImport(p)
    BY <1>0, <2>3, GoesTo, EndsAt, NextStepIsQuiet DEF PlanImport
  <2> QED  BY <1>5, <2>1, <2>2, <2>3
<1>6. CASE ActivateNone(p) \/ PointerMiss(p) \/ TimeOut(p) \/ Stop(p)
  BY <1>0, <1>6, GoesTo, EndsAt DEF ActivateNone, PointerMiss, TimeOut, Stop
<1>7. CASE CommitPublish(p) \/ Activate(p) \/ DropPointer(p) \/ SendRetired(p)
  BY <1>0, <1>7, GoesTo, EndsAt DEF CommitPublish, Activate, DropPointer, SendRetired
<1> QED  BY <1>1, <1>2, <1>3, <1>4, <1>5, <1>6, <1>7

\* Those that begin.
LEMMA Begins ==
    ASSUME Fields, NEW p \in Process,
           \/ \E q \in RequestName : Receive(p, q) \/ CheckForChanges(p, q)
           \/ Commit(p) \/ PointerHit(p) \/ FillPointer(p)
    PROVE  job'[p].written = <<>> /\ job'[p].pc \notin LockedSteps
<1> USE DEF LockedSteps
<1>1. ASSUME NEW j, Go(p, j) PROVE job'[p] = j
  BY <1>1 DEF Go, Fields
<1>2. End(p) => job'[p].written = <<>> /\ job'[p].pc = "idle"
  BY <1>1 DEF End, Idle
<1>3. ASSUME NEW q \in RequestName, Receive(p, q)
      PROVE  job'[p].written = <<>> /\ job'[p].pc \notin LockedSteps
  <2>1. job'[p].written = <<>> /\ job'[p].pc = firstStep(Requests[q].op)
    BY <1>1, <1>3 DEF Receive, Idle
  <2>2. Requests[q].op # "watch"
    BY <1>3 DEF Receive
  <2> QED  BY <2>1, <2>2, FirstStepIsQuiet
<1>4. ASSUME NEW q \in RequestName, CheckForChanges(p, q)
      PROVE  job'[p].written = <<>> /\ job'[p].pc \notin LockedSteps
  BY <1>1, <1>4 DEF CheckForChanges, Idle
<1>5. CASE Commit(p)
  BY <1>1, <1>2, <1>5, AfterCommitIsQuiet DEF Commit, Idle
<1>6. CASE PointerHit(p) \/ FillPointer(p)
  <2>1. \E found : Decide(p, found)
    BY <1>6 DEF PointerHit, FillPointer
  <2> QED  BY <1>1, <1>2, <2>1 DEF Decide, Idle
<1> QED  BY <1>3, <1>4, <1>5, <1>6

\* And those that read, and publish, keep what was written.
LEMMA GoesOnReading ==
    ASSUME Fields, NEW p \in Process,
           LoadContent(p) \/ ReadTable(p) \/ ReadPart(p) \/ TakeLock(p)
    PROVE  /\ job[p].pc \in Beginning
           /\ job'[p].written \in {job[p].written, <<>>}
           /\ LoadContent(p) => job'[p].pc \notin LockedSteps
<1>0. DOMAIN job[p] = {"pc", "request", "seen", "left",
          "todo", "written", "refused", "against", "built"}
  BY DEF Fields, Idle
<1>1. ASSUME NEW j, Go(p, j) PROVE job'[p] = j
  BY <1>1 DEF Go, Fields
<1>2. CASE LoadContent(p)
  <2>1. End(p) => job'[p].pc \notin LockedSteps /\ job'[p].written = <<>>
    BY EndsAt DEF Elsewhere
  <2>2. ASSUME NEW j, Go(p, j), j.pc = "read", j.written = job[p].written
        PROVE  job'[p].pc \notin LockedSteps /\ job'[p].written = job[p].written
    BY <2>2 DEF Go, Fields, LockedSteps
  <2>3. job[p].pc \in Beginning
    BY <1>2 DEF LoadContent, At, Beginning
  <2> QED  BY <1>0, <1>2, <2>1, <2>2, <2>3 DEF LoadContent
<1>3. CASE ReadTable(p) \/ ReadPart(p)
  BY <1>0, <1>1, <1>3 DEF ReadTable, ReadPart, At, Beginning, LockedSteps, LoadContent
<1>4. CASE TakeLock(p)
  BY <1>0, <1>1, <1>4 DEF TakeLock, At, Beginning, LockedSteps, LoadContent
<1> QED  BY <1>2, <1>3, <1>4

\* A publish that has read the copy does not begin again.
LEMMA GoesOnPublishing ==
    ASSUME Fields, NEW p \in Process, Validate(p) \/ Flip(p) \/ CreateRelease(p)
    PROVE  job'[p].pc \notin Beginning
<1>0. DOMAIN job[p] = {"pc", "request", "seen", "left",
          "todo", "written", "refused", "against", "built"}
  BY DEF Fields, Idle
<1>1. End(p) => job'[p].pc \notin Beginning
  BY EndsAt DEF Elsewhere
<1>2. ASSUME NEW j, Go(p, j), j.pc \in {"flip", "create", "point"}
      PROVE  job'[p].pc \notin Beginning
  BY <1>2 DEF Go, Fields, Beginning
<1>3. CASE Validate(p)
  BY <1>0, <1>1, <1>2, <1>3 DEF Validate
<1>4. CASE Flip(p)
  BY <1>0, <1>2, <1>4 DEF Flip
<1>5. CASE CreateRelease(p)
  BY <1>0, <1>2, <1>5 DEF CreateRelease
<1> QED  BY <1>3, <1>4, <1>5

\* What a process is about to read it has not written to.
LEMMA StepBlank ==
    ASSUME Fields, Blank, NEW p \in Process,
           \/ Quiet(p) \/ Validate(p) \/ Flip(p) \/ CreateRelease(p)
           \/ CommitPublish(p) \/ Activate(p) \/ DropPointer(p) \/ SendRetired(p)
    PROVE  /\ job'[p].pc \in Beginning => job'[p].written = <<>>
           /\ job'[p].pc \in LockedSteps =>
                 \/ TakeLock(p) \/ ReadTable(p) \/ ReadPart(p)
                 \/ Validate(p) \/ Flip(p) \/ CreateRelease(p)
<1>1. CASE LoadContent(p) \/ ReadTable(p) \/ ReadPart(p) \/ TakeLock(p)
  BY <1>1, GoesOnReading DEF Blank
<1>2. CASE Validate(p) \/ Flip(p) \/ CreateRelease(p)
  BY <1>2, GoesOnPublishing
<1>3. CASE \/ \E q \in RequestName : Receive(p, q) \/ CheckForChanges(p, q)
           \/ Commit(p) \/ PointerHit(p) \/ FillPointer(p)
  BY <1>3, Begins
<1>4. CASE \/ FindForCreate(p) \/ FindForUpdate(p) \/ FindForArchive(p)
           \/ FindForRestore(p) \/ FindParent(p) \/ CheckEmpty(p) \/ SetStatus(p)
           \/ FindChildren(p) \/ Reread(p) \/ RereadPart(p)
           \/ CheckParent(p) \/ CheckOthers(p) \/ Write(p) \/ PlanUnitImport(p) \/ PlanImport(p) \/ ActivateNone(p)
           \/ PointerMiss(p) \/ TimeOut(p) \/ Stop(p)
           \/ CommitPublish(p) \/ Activate(p) \/ DropPointer(p) \/ SendRetired(p)
  BY <1>4, GoesElsewhere DEF Elsewhere
<1> QED  BY <1>1, <1>2, <1>3, <1>4 DEF Quiet

-----------------------------------------------------------------------------
(* What a publish has read is still there, and its release is made of it,   *)
(* while no edit and no import commits.                                     *)

\* While a publish is at work no edit and no import gets to its commit.
NoCommitWhilePublishing ==
    \A p, q \in Process : job[p].pc \in LockedSteps => job[q].pc # "commit"

\* A row was read as it is, or its table is still to be read.
Current(seen, row, left) ==
    seen = row \/ (seen = None /\ row # None /\ row.record.kind \in ToSet(left))

\* A release is the one built of a corpus, but for its number.
Snapshot(release, corpus) ==
    \A k \in DOMAIN buildRelease(corpus) :
        k \in DOMAIN release /\ release[k] = buildRelease(corpus)[k]

\* What is read: the tables, and those of a lesson's parts.
Read == Kinds \union ToSet(LessonParts)

\* What a publish has read, or built, is what the rows are.
Faithful(p) ==
    /\ job[p].pc = "copy" =>
          /\ job[p].left \in Seq(Read)
          /\ \A s \in Slug : Current(job[p].seen[s], rows[s], job[p].left)
    /\ job[p].pc \in {"flip", "create", "point"} =>
          /\ rowsToCorpus(copyOf(rows))
          /\ Snapshot(job[p].built, corpusOf(copyOf(rows)))

\* Reading a table leaves one less to read.
LEMMA TableRead ==
    ASSUME NEW S, NEW left \in Seq(S), left # <<>>, NEW kind, kind \in ToSet(left)
    PROVE  kind = Head(left) \/ kind \in ToSet(Tail(left))
<1>1. PICK i \in DOMAIN left : left[i] = kind
  BY DEF ToSet
<1>2. i = 1 \/ (i - 1 \in DOMAIN Tail(left) /\ Tail(left)[i - 1] = left[i])
  BY <1>1
<1> QED  BY <1>1, <1>2 DEF ToSet

\* What is in a sequence is in it after another one.
LEMMA StillThere ==
    ASSUME NEW T, NEW flat \in Seq(T), NEW s \in Seq(T), NEW x \in ToSet(s)
    PROVE  x \in ToSet(flat \o s)
<1>1. /\ Len(s) \in Nat /\ Len(flat) \in Nat
      /\ DOMAIN (flat \o s) = 1 .. (Len(flat) + Len(s))
      /\ \A i \in 1 .. Len(s) : (flat \o s)[Len(flat) + i] = s[i]
  OBVIOUS
<1>2. PICK i \in 1 .. Len(s) : s[i] = x
  BY DEF ToSet
<1> QED  BY <1>1, <1>2 DEF ToSet

\* Reading lessons leaves their parts to read, which are no kind of row.
LEMMA PartsRead ==
    ASSUME NEW rest, rest \in Seq(Read)
    PROVE  /\ LessonParts \o rest \in Seq(Read)
           /\ \A kind \in ToSet(rest) : kind \in ToSet(LessonParts \o rest)
           /\ ToSet(LessonParts) \intersect Kinds = {}
<1>1. LessonParts \in Seq(Read) /\ ToSet(LessonParts) = {"steps", "items"}
  <2>1. /\ LessonParts \in Seq({"steps", "items"}) /\ DOMAIN LessonParts = {1, 2}
        /\ LessonParts[1] = "steps" /\ LessonParts[2] = "items"
    BY DEF LessonParts
  <2>2. ToSet(LessonParts) = {"steps", "items"}
    BY <2>1 DEF ToSet
  <2> QED  BY <2>1, <2>2 DEF Read
<1>3. \A kind \in ToSet(rest) : kind \in ToSet(LessonParts \o rest)
  BY <1>1, StillThere
<1>4. LessonParts \o rest \in Seq(Read)
  BY <1>1
<1>5. ToSet(LessonParts) \intersect Kinds = {}
  <2>1. "steps" \notin Kinds /\ "items" \notin Kinds
    BY DEF Kinds, IMPORT_ORDER, ToSet
  <2> QED  BY <1>1, <2>1
<1> QED  BY <1>3, <1>4, <1>5

\* While a publish is at work nobody else commits.
LEMMA RowsHeld ==
    ASSUME Fields, Steady, Locked, Marked, NoCommitWhilePublishing,
           NEW p \in Process, RowStep(p), NEW q \in Process \ {p},
           job[q].pc \in LockedSteps
    PROVE  rows' = rows
<1>1. job[p].pc # "commit"
  BY DEF NoCommitWhilePublishing
<1>2. job[p].pc # "point"
  BY DEF Locked, LockedSteps
<1> QED  BY <1>1, <1>2, RowsChange

\* Every row is in a table.
LEMMA RowsInTables ==
    ASSUME Steady, NEW s \in Slug, rows[s] # None
    PROVE  rows[s].record.kind \in ToSet(Tables)
BY RecordIs DEF Steady, Sound, Row

\* What the process of a step has read is still there.
LEMMA ReadingFaithful ==
    ASSUME Fields, Steady, Blank, NEW p \in Process, Faithful(p), rows' = rows,
           TakeLock(p) \/ ReadTable(p) \/ ReadPart(p), job'[p].pc \in LockedSteps
    PROVE  Faithful(p)'
<1>0. DOMAIN job[p] = {"pc", "request", "seen", "left",
          "todo", "written", "refused", "against", "built"}
  BY DEF Fields, Idle
<1>1. CASE TakeLock(p)
  <2>1. /\ job'[p].pc = "copy" /\ job'[p].left = Tables
        /\ job'[p].seen = [s \in Slug |-> None]
    BY <1>0, <1>1 DEF TakeLock, Go, Fields
  <2>2. Tables \in Seq(Read)
    BY AuthoringAssumption DEF Read
  <2>3. \A s \in Slug : Current(job'[p].seen[s], rows[s], Tables)
    BY <2>1, RowsInTables DEF Current
  <2> QED  BY <2>1, <2>2, <2>3 DEF Faithful
<1>2. ASSUME ReadTable(p) \/ ReadPart(p)
      PROVE  /\ job[p].pc = "copy" /\ job[p].written = <<>> /\ job[p].left # <<>>
             /\ job[p].left \in Seq(Read) /\ Tail(job[p].left) \in Seq(Read)
             /\ \A s \in Slug : view(p)[s] = rows[s]
             /\ \A s \in Slug : Current(job[p].seen[s], rows[s], job[p].left)
             /\ \A kind \in ToSet(job[p].left) :
                    kind = Head(job[p].left) \/ kind \in ToSet(Tail(job[p].left))
  <2>1. job'[p].pc = job[p].pc /\ job[p].left # <<>> /\ job[p].pc \in {"read", "copy"}
    BY <1>0, <1>2 DEF ReadTable, ReadPart, At, Go, Fields
  <2>2. job[p].pc = "copy" /\ job[p].written = <<>>
    BY <2>1 DEF LockedSteps, Blank, Beginning
  <2>3. \A s \in Slug : view(p)[s] = rows[s]
    BY <2>2, NothingWritten, ViewIs
  <2>4. /\ job[p].left \in Seq(Read)
        /\ \A s \in Slug : Current(job[p].seen[s], rows[s], job[p].left)
    BY <2>2 DEF Faithful
  <2>5. Tail(job[p].left) \in Seq(Read)
    BY <2>1, <2>4
  <2> QED  BY <2>1, <2>2, <2>3, <2>4, <2>5, TableRead
<1>3. CASE ReadTable(p)
  <2>1. PICK seen : seen = [s \in Slug |->
            IF view(p)[s] # None /\ view(p)[s].record.kind = Head(job[p].left)
            THEN view(p)[s] ELSE job[p].seen[s]]
    OBVIOUS
  <2>2. PICK rest : rest = Tail(job[p].left)
    OBVIOUS
  <2>3. PICK left : left = IF Head(job[p].left) = "lesson" THEN LessonParts \o rest ELSE rest
    OBVIOUS
  <2>4. job'[p].pc = "copy" /\ job'[p].left = left /\ job'[p].seen = seen
    BY <1>0, <1>2, <1>3, <2>1, <2>2, <2>3 DEF ReadTable, At, Go, Fields
  <2>5. rest \in Seq(Read)
    BY <1>2, <1>3, <2>2
  <2>6. left \in Seq(Read) /\ \A kind \in ToSet(rest) : kind \in ToSet(left)
    BY <2>3, <2>5, PartsRead
  <2>7. ASSUME NEW s \in Slug PROVE Current(seen[s], rows[s], left)
    <3>1. Current(job[p].seen[s], rows[s], job[p].left)
      BY <1>2, <1>3
    <3>2. seen[s] = IF rows[s] # None /\ rows[s].record.kind = Head(job[p].left)
                    THEN rows[s] ELSE job[p].seen[s]
      BY <1>2, <1>3, <2>1
    <3>3. \A kind \in ToSet(job[p].left) : kind = Head(job[p].left) \/ kind \in ToSet(rest)
      BY <1>2, <1>3, <2>2
    <3> QED  BY <3>1, <3>2, <3>3, <2>6 DEF Current
  <2> QED  BY <2>4, <2>6, <2>7 DEF Faithful
<1>4. CASE ReadPart(p)
  <2>1. PICK part : part = Head(job[p].left)
    OBVIOUS
  <2>2. PICK was : was = job[p].seen
    OBVIOUS
  <2>3. PICK seen : seen = [s \in Slug |->
            IF was[s] # None /\ was[s].record.kind = "lesson"
            THEN [was[s] EXCEPT !.record = withPart(@, part, view(p)[s].record)]
            ELSE was[s]]
    OBVIOUS
  <2>4. PICK rest : rest = Tail(job[p].left)
    OBVIOUS
  <2>5. /\ job'[p].pc = "copy" /\ job'[p].left = rest /\ job'[p].seen = seen
        /\ part \in ToSet(LessonParts)
    BY <1>0, <1>4, <2>1, <2>2, <2>3, <2>4 DEF ReadPart, At, Go, Fields
  <2>6. rest \in Seq(Read)
    BY <1>2, <1>4, <2>4
  <2>7. ASSUME NEW s \in Slug PROVE Current(seen[s], rows[s], rest)
    <3>1. Current(was[s], rows[s], job[p].left)
      BY <1>2, <1>4, <2>2
    <3>2. rows[s] # None => rows[s] \in Row /\ rows[s].record \in Record
      BY DEF Steady, Sound, Row
    <3>3. CASE was[s] = None
      <4>1. seen[s] = None
        BY <2>3, <3>3
      <4>2. CASE rows[s] = None
        BY <4>1, <4>2 DEF Current
      <4>3. CASE rows[s] # None
        <5>1. rows[s].record.kind \in Kinds
          BY <3>2, <4>3, RecordIs
        <5>2. rows[s].record.kind # part
          BY <2>5, <2>6, <5>1, PartsRead
        <5>3. rows[s].record.kind \in ToSet(job[p].left)
          BY <3>1, <3>3, <4>3 DEF Current
        <5>4. rows[s].record.kind \in ToSet(rest)
          BY <1>2, <1>4, <2>1, <2>4, <5>2, <5>3
        <5> QED  BY <4>1, <4>3, <5>4 DEF Current
      <4> QED  BY <4>2, <4>3
    <3>4. CASE was[s] # None
      <4>1. was[s] = rows[s]
        BY <3>1, <3>4 DEF Current
      <4>2. CASE rows[s].record.kind = "lesson"
        <5>1. PICK r \in Record : r = rows[s].record
          BY <3>2, <3>4, <4>1
        <5>2. withPart(r, part, r) = r
          BY <4>2, <5>1, PartOfAnother
        <5>3. seen[s] = [was[s] EXCEPT !.record = withPart(was[s].record, part, rows[s].record)]
          BY <1>2, <1>4, <2>3, <3>4, <4>1, <4>2
        <5>4. seen[s] = [rows[s] EXCEPT !.record = r]
          BY <4>1, <5>1, <5>2, <5>3
        <5>5. seen[s] = rows[s]
          BY <3>2, <3>4, <4>1, <5>1, <5>4 DEF Row
        <5> QED  BY <5>5 DEF Current
      <4>3. CASE rows[s].record.kind # "lesson"
        BY <2>3, <4>1, <4>3 DEF Current
      <4> QED  BY <4>2, <4>3
    <3> QED  BY <3>3, <3>4
  <2> QED  BY <2>5, <2>6, <2>7 DEF Faithful
<1> QED  BY <1>1, <1>3, <1>4

\* What it has built of it stays.
LEMMA BuildingFaithful ==
    ASSUME Fields, NEW p \in Process, Faithful(p), Reading(p), rows' = rows,
           Validate(p) \/ Flip(p) \/ CreateRelease(p), job'[p].pc \in LockedSteps
    PROVE  Faithful(p)'
<1>0. DOMAIN job[p] = {"pc", "request", "seen", "left",
          "todo", "written", "refused", "against", "built"}
  BY DEF Fields, Idle
<1>1. CASE Validate(p)
  <2>1. job[p].pc = "copy" /\ job[p].left = <<>>
    BY <1>1 DEF Validate, At
  <2>2. ToSet(<<>>) = {}
    BY DEF ToSet
  <2>3. \A s \in Slug : job[p].seen[s] = rows[s]
    BY <2>1, <2>2 DEF Faithful, Current
  <2>4. copyOf(job[p].seen) = copyOf(rows)
    BY <2>3 DEF copyOf
  <2>5. PICK release : release = buildRelease(corpusOf(copyOf(rows)))
    OBVIOUS
  <2>6. CASE rowsToCorpus(copyOf(rows))
    <3>1. Go(p, [job[p] EXCEPT !.pc = "flip", !.left = Tables, !.seen = None,
                               !.built = release, !.against = active])
      BY <1>1, <2>4, <2>5, <2>6 DEF Validate
    <3>2. job'[p].pc = "flip" /\ job'[p].built = release
      BY <1>0, <3>1 DEF Go, Fields
    <3>3. Snapshot(release, corpusOf(copyOf(rows)))
      BY <2>5 DEF Snapshot
    <3> QED  BY <2>6, <3>2, <3>3 DEF Faithful
  <2>7. CASE ~rowsToCorpus(copyOf(rows))
    <3>1. End(p)
      BY <1>1, <2>4, <2>7 DEF Validate
    <3> QED  BY <3>1, EndsAt DEF Elsewhere
  <2> QED  BY <2>6, <2>7
<1>2. CASE Flip(p)
  <2>1. /\ job[p].pc = "flip" /\ job'[p].pc \in {"flip", "create"}
        /\ job'[p].built = job[p].built
    BY <1>0, <1>2 DEF Flip, At, Go, Fields
  <2> QED  BY <2>1 DEF Faithful
<1>3. CASE CreateRelease(p)
  <2>1. PICK release : release = numbered(job[p].built, version + 1)
    OBVIOUS
  <2>2. job[p].pc = "create" /\ job'[p].pc = "point" /\ job'[p].built = release
    BY <1>0, <1>3, <2>1 DEF CreateRelease, At, Go, Fields
  <2>3. PICK corpus : corpus = corpusOf(copyOf(rows))
    OBVIOUS
  <2>4. rowsToCorpus(copyOf(rows)) /\ Snapshot(job[p].built, corpus)
    BY <2>2, <2>3 DEF Faithful
  <2>5. "version" \notin DOMAIN buildRelease(corpus)
    BY DEF buildRelease
  <2>6. Snapshot(release, corpus)
    BY <2>1, <2>4, <2>5 DEF Snapshot, numbered
  <2> QED  BY <2>2, <2>3, <2>4, <2>6 DEF Faithful
<1> QED  BY <1>1, <1>2, <1>3

\* Every step a process takes.
StepsAre(p) ==
    \/ Quiet(p) \/ Validate(p) \/ Flip(p) \/ CreateRelease(p)
    \/ CommitPublish(p) \/ Activate(p) \/ DropPointer(p) \/ SendRetired(p)

\* What Next does, by process.
LEMMA NextIs ==
    ASSUME Correct, [Next]_vars
    PROVE  \/ \E p \in Process : /\ StepsAre(p) /\ RowStep(p)
                                 /\ \A q \in Process \ {p} : job'[q] = job[q]
           \/ UNCHANGED <<rows, job, releases>>
<1>1. /\ Fields /\ Steady /\ \A p \in Process : Facts(p)
  BY DEF Correct
<1>2. (\E p \in Process : StepsAre(p)) \/ Expire \/ SaveContent \/ UNCHANGED vars
  BY DEF Next, Step, Quiet, StepsAre
<1>3. CASE Expire \/ SaveContent \/ UNCHANGED vars
  BY <1>3 DEF Expire, SaveContent, vars, releaseRows
<1> QED  BY <1>1, <1>2, <1>3, StepEffect, OwnJob DEF StepsAre

\* Every step keeps it: who begins has written nothing.
LEMMA NextBlank == Correct /\ Blank /\ [Next]_vars => Blank'
<1> SUFFICES ASSUME Correct, Blank, [Next]_vars PROVE Blank'
  OBVIOUS
<1>1. ASSUME NEW p \in Process, StepsAre(p), \A q \in Process \ {p} : job'[q] = job[q]
      PROVE  Blank'
  <2>1. job'[p].pc \in Beginning => job'[p].written = <<>>
    BY <1>1, StepBlank DEF Correct, StepsAre
  <2> QED  BY <1>1, <2>1 DEF Blank
<1>2. CASE UNCHANGED <<rows, job, releases>>
  BY <1>2 DEF Blank
<1> QED  BY <1>1, <1>2, NextIs

\* Every step keeps it, when nobody commits while a publish is at work.
LEMMA NextFaithful ==
    ASSUME Inductive, Correct, Blank, Marked, NoCommitWhilePublishing,
           \A p \in Process : Faithful(p), [Next]_vars
    PROVE  \A p \in Process : Faithful(p)'
<1>1. Fields /\ Steady /\ Locked
  BY DEF Inductive, Correct
<1>2. ASSUME NEW p \in Process, StepsAre(p), RowStep(p),
             \A q \in Process \ {p} : job'[q] = job[q], NEW q \in Process
      PROVE  Faithful(q)'
  <2>1. CASE q # p
    <3>1. job'[q] = job[q]
      BY <1>2, <2>1
    <3>2. CASE job[q].pc \in LockedSteps
      <4>1. rows' = rows
        BY <1>1, <1>2, <2>1, <3>2, RowsHeld
      <4> QED  BY <3>1, <4>1 DEF Faithful
    <3>3. CASE job[q].pc \notin LockedSteps
      BY <3>1, <3>3 DEF Faithful, LockedSteps
    <3> QED  BY <3>2, <3>3
  <2>2. CASE q = p
    <3>1. CASE job'[p].pc \in LockedSteps
      <4>1. \/ TakeLock(p) \/ ReadTable(p) \/ ReadPart(p)
            \/ Validate(p) \/ Flip(p) \/ CreateRelease(p)
        BY <1>1, <1>2, <3>1, StepBlank DEF StepsAre
      <4>2. rows' = rows
        BY <4>1 DEF TakeLock, ReadTable, ReadPart, Validate, Flip, CreateRelease
      <4>3. Reading(p)
        BY DEF Correct, Facts
      <4> QED  BY <1>1, <2>2, <3>1, <4>1, <4>2, <4>3, ReadingFaithful, BuildingFaithful
    <3>2. CASE job'[p].pc \notin LockedSteps
      BY <2>2, <3>2 DEF Faithful, LockedSteps
    <3> QED  BY <3>1, <3>2
  <2> QED  BY <2>1, <2>2
<1>3. CASE UNCHANGED <<rows, job, releases>>
  BY <1>3 DEF Faithful
<1> QED  BY <1>2, <1>3, NextIs

-----------------------------------------------------------------------------
(* What is published is in the newest release.                              *)

\* The units of the tree are those of the corpus.
LEMMA TreeUnits ==
    ASSUME NEW corpus, Publishable(corpus)
    PROVE  ToSet(Path!unitsInOrder(buildTree(corpus)))
               = {treeUnit(corpus, u) : u \in AllUnits(corpus)}
<1> DEFINE units == Path!unitsInOrder(buildTree(corpus))
           all == {treeUnit(corpus, u) : u \in AllUnits(corpus)}
<1>1. PICK at : Listed(corpus, units, at)
  BY TreeListed
<1> HIDE DEF units
<1>2. \A m \in DOMAIN units :
          at[m] \in AllUnits(corpus) /\ units[m] = treeUnit(corpus, at[m])
  BY <1>1 DEF Listed
<1>3. \A u \in AllUnits(corpus) : \E m \in DOMAIN units : at[m] = u
  BY <1>1 DEF Listed
<1>4. \A x : x \in ToSet(units) <=> \E m \in DOMAIN units : x = units[m]
  BY DEF ToSet
<1>5. \A x : x \in all <=> \E u \in AllUnits(corpus) : x = treeUnit(corpus, u)
  OBVIOUS
<1> HIDE DEF all
<1>6. \A x : x \in ToSet(units) <=> x \in all
  BY <1>2, <1>3, <1>4, <1>5
<1>7. ToSet(units) = all
  BY <1>6
<1> QED  BY <1>7 DEF all, units

\* The snapshot of a lesson says what its record says.
LEMMA SnapshotTells ==
    ASSUME NEW corpus, Publishable(corpus), NEW l \in Lessons(corpus), NEW position
    PROVE  TellsLesson(lessonSnapshot(corpus, l, position), l)
<1> DEFINE stored == lessonSnapshot(corpus, l, position)
<1>1. /\ stored.lessonId = l.slug /\ stored.unitId = l.unit
      /\ DOMAIN stored.items = DOMAIN l.items /\ DOMAIN stored.steps = DOMAIN l.steps
      /\ \A k \in DOMAIN l.items : stored.items[k].role = l.items[k].role
      /\ \A k \in DOMAIN l.items : stored.items[k].item = itemView(corpus, l.items[k].item)
      /\ \A k \in DOMAIN l.steps : stored.steps[k] = stepView(corpus, l, l.steps[k])
  BY DEF lessonSnapshot
<1> HIDE DEF stored
<1>2. \A k \in DOMAIN l.items : stored.items[k].item.slug = l.items[k].item
  BY <1>1, LinkedItem
<1>3. ASSUME NEW k \in DOMAIN l.steps, l.steps[k].type = "DIALOGUE"
      PROVE  /\ stored.steps[k].type = "DIALOGUE"
             /\ stored.steps[k].mode = l.steps[k].mode
             /\ stored.steps[k].dialogue.slug = l.steps[k].dialogue
  <2> DEFINE found == {d \in inUnit(corpus, "dialogue", l.unit) : d.slug = l.steps[k].dialogue}
             made == [type |-> "DIALOGUE", mode |-> l.steps[k].mode, dialogue |-> theOne(found)]
  <2>1. stored.steps[k] = made
    BY <1>1, <1>3 DEF stepView
  <2>2. made.type = "DIALOGUE" /\ made.mode = l.steps[k].mode /\ made.dialogue = theOne(found)
    OBVIOUS
  <2>3. checkSteps(corpus, l)
    BY DEF Publishable, checkContentRefs, Lessons
  <2>4. PICK d \in inUnit(corpus, "dialogue", l.unit) : d.slug = l.steps[k].dialogue
    BY <1>3, <2>3 DEF checkSteps
  <2>5. d \in found
    BY <2>4
  <2>6. theOne(found) \in found
    <3> HIDE DEF found
    <3> QED  BY <2>5 DEF theOne
  <2>7. theOne(found).slug = l.steps[k].dialogue
    BY <2>6
  <2> HIDE DEF made, found
  <2> QED  BY <2>1, <2>2, <2>7
<1>4. \A k \in DOMAIN l.steps : l.steps[k].type # "DIALOGUE" => stored.steps[k] = l.steps[k]
  BY <1>1 DEF stepView
<1>5. TellsLesson(stored, l)
  BY <1>1, <1>2, <1>3, <1>4 DEF TellsLesson
<1> QED  BY <1>5 DEF stored

\* A stored step that tells a dialogue of a slug tells the one of the corpus.
LEMMA StoredDialogue ==
    ASSUME NEW corpus, Publishable(corpus), NEW record \in of(corpus, "dialogue"),
           NEW l \in Lessons(corpus), NEW k \in DOMAIN l.steps,
           NEW step, step = stepView(corpus, l, l.steps[k]),
           step.type = "DIALOGUE", step.dialogue.slug = record.slug
    PROVE  step.dialogue = record
<1> DEFINE found == {d \in inUnit(corpus, "dialogue", l.unit) : d.slug = l.steps[k].dialogue}
           made == [type |-> "DIALOGUE", mode |-> l.steps[k].mode, dialogue |-> theOne(found)]
<1>1. l.steps[k].type = "DIALOGUE"
  <2>1. l.steps[k].type # "DIALOGUE" => step = l.steps[k]
    BY DEF stepView
  <2> QED  BY <2>1
<1>2. step = made
  BY <1>1 DEF stepView
<1>3. made.dialogue = theOne(found)
  OBVIOUS
<1>4. checkSteps(corpus, l)
  BY DEF Publishable, checkContentRefs, Lessons
<1>5. PICK d \in inUnit(corpus, "dialogue", l.unit) : d.slug = l.steps[k].dialogue
  BY <1>1, <1>4 DEF checkSteps
<1>6. theOne(found) \in found
  <2>1. d \in found
    BY <1>5
  <2> HIDE DEF found
  <2> QED  BY <2>1 DEF theOne
<1>7. theOne(found) \in of(corpus, "dialogue")
  BY <1>6 DEF inUnit
<1> HIDE DEF made, found
<1> QED  BY <1>2, <1>3, <1>7, OneSlugEach

\* So has the release built of a corpus.
LEMMA BuiltHolds ==
    ASSUME NEW corpus, Publishable(corpus), NEW record \in corpus,
           Cardinality(of(corpus, "placement")) <= 1, IsFiniteSet(corpus)
    PROVE  HoldsRecord(buildRelease(corpus), record)
<1>0. PICK release : release = buildRelease(corpus)
  OBVIOUS
<1> SUFFICES HoldsRecord(release, record)
  BY <1>0
<1>1. /\ release.tree = buildTree(corpus) /\ release.items = of(corpus, "item")
      /\ release.checkpoints = {checkpointSnapshot(c) : c \in of(corpus, "checkpoint")}
      /\ release.placement = theOne(of(corpus, "placement"))
  BY <1>0 DEF buildRelease
<1>2. PICK units : units = ToSet(Path!unitsInOrder(release.tree))
  OBVIOUS
<1>3. \A x : x \in units <=> \E u \in AllUnits(corpus) : x = treeUnit(corpus, u)
  BY <1>1, <1>2, TreeUnits
<1>4. CASE record.kind = "item"
  BY <1>1, <1>4 DEF HoldsRecord, of
<1>5. CASE record.kind = "unit"
  <2>1. record \in AllUnits(corpus)
    BY <1>5 DEF AllUnits, of
  <2>2. treeUnit(corpus, record) \in units /\ treeUnit(corpus, record).id = record.slug
    BY <1>3, <2>1, TreeUnitIs
  <2> QED  BY <1>2, <1>5, <2>2 DEF HoldsRecord
<1>6. CASE record.kind = "lesson"
  <2>1. record \in Lessons(corpus)
    BY <1>6 DEF Lessons, of
  <2>2. PICK u \in AllUnits(corpus) : u.slug = record.unit /\
            \E m \in DOMAIN lessonsOf(corpus, u) : lessonsOf(corpus, u)[m] = record
    BY <2>1, LessonPlaced
  <2>3. PICK m \in DOMAIN lessonsOf(corpus, u) : lessonsOf(corpus, u)[m] = record
    BY <2>2
  <2>4. PICK stored : stored = lessonSnapshot(corpus, record, m)
    OBVIOUS
  <2>5. stored \in release.lessons
    BY <1>0, <2>3, <2>4, StoredLessonsAre
  <2>6. TellsLesson(stored, record)
    BY <2>1, <2>4, SnapshotTells
  <2>7. stored.order = m
    BY <2>4 DEF lessonSnapshot
  <2>8. PICK x : x = treeUnit(corpus, u)
    OBVIOUS
  <2>9. /\ x \in units /\ x.id = record.unit
        /\ m \in DOMAIN x.lessons /\ x.lessons[m] = record.slug
    BY <1>3, <2>2, <2>3, <2>8, TreeUnitIs
  <2> QED  BY <1>2, <1>6, <2>5, <2>6, <2>7, <2>9 DEF HoldsRecord
<1>7. CASE record.kind = "dialogue"
  <2>1. record \in of(corpus, "dialogue")
    BY <1>7 DEF of
  <2>2. ASSUME NEW stored \in release.lessons, NEW k \in DOMAIN stored.steps,
               stored.steps[k].type = "DIALOGUE", stored.steps[k].dialogue.slug = record.slug
        PROVE  stored.steps[k].dialogue = record
    <3>1. PICK u \in AllUnits(corpus) : \E m \in DOMAIN lessonsOf(corpus, u) :
              stored = lessonSnapshot(corpus, lessonsOf(corpus, u)[m], m)
      BY <1>0, StoredLessonsAre
    <3>2. PICK m \in DOMAIN lessonsOf(corpus, u) :
              stored = lessonSnapshot(corpus, lessonsOf(corpus, u)[m], m)
      BY <3>1
    <3>3. PICK l \in Lessons(corpus) : l = lessonsOf(corpus, u)[m]
      BY LessonPlace
    <3>4. stored = lessonSnapshot(corpus, l, m)
      BY <3>2, <3>3
    <3>5. stored.steps = [n \in DOMAIN l.steps |-> stepView(corpus, l, l.steps[n])]
      BY <3>4 DEF lessonSnapshot
    <3>6. k \in DOMAIN l.steps /\ stored.steps[k] = stepView(corpus, l, l.steps[k])
      BY <3>5
    <3> QED  BY <2>1, <2>2, <3>6, StoredDialogue
  <2> QED  BY <1>7, <2>2 DEF HoldsRecord
<1>8. CASE record.kind = "checkpoint"
  <2>1. record \in of(corpus, "checkpoint")
    BY <1>8 DEF of
  <2>2. checkpointSnapshot(record) \in release.checkpoints
    BY <1>1, <2>1
  <2>3. ASSUME NEW x \in units, x.id = record.unit
        PROVE  x.checkpointId = record.slug
    <3>1. PICK u \in AllUnits(corpus) : x = treeUnit(corpus, u)
      BY <1>3
    <3> DEFINE own == inUnit(corpus, "checkpoint", u.slug)
    <3>2. u.slug = record.unit
      BY <2>3, <3>1, TreeUnitIs
    <3>3. record \in own /\ \A c \in own : c = record
      BY <2>1, <3>2 DEF Publishable, inFiles, inUnit
    <3>4. x.checkpointId = IF own = {} THEN None ELSE theOne(own).slug
      BY <3>1, TreeUnitCheckpoint
    <3> HIDE DEF own
    <3>5. theOne(own) = record
      BY <3>3 DEF theOne
    <3> QED  BY <3>3, <3>4, <3>5
  <2> QED  BY <1>2, <1>8, <2>2, <2>3 DEF HoldsRecord
<1>9. CASE record.kind = "placement"
  <2>1. record \in of(corpus, "placement")
    BY <1>9 DEF of
  <2>2. \A r \in of(corpus, "placement") : r = record
    <3> SUFFICES ASSUME NEW r \in of(corpus, "placement"), r # record PROVE FALSE
      OBVIOUS
    <3>1. IsFiniteSet(of(corpus, "placement")) /\ {r, record} \subseteq of(corpus, "placement")
      BY <2>1, FS_Subset DEF of
    <3>2. Cardinality({r, record}) <= Cardinality(of(corpus, "placement"))
      BY <3>1, FS_Subset
    <3>3. Cardinality({r, record}) = 2
      <4>1. IsFiniteSet({record}) /\ Cardinality({record}) = 1
        BY FS_Singleton
      <4>2. {r, record} = {record} \union {r} /\ r \notin {record}
        OBVIOUS
      <4> QED  BY <4>1, <4>2, FS_AddElement
    <3>4. Cardinality(of(corpus, "placement")) \in Nat
      BY <3>1, FS_CardinalityType
    <3> QED  BY <3>2, <3>3, <3>4
  <2>3. theOne(of(corpus, "placement")) = record
    BY <2>1, <2>2 DEF theOne
  <2> QED  BY <1>1, <1>9, <2>3 DEF HoldsRecord
<1>10. CASE record.kind \notin {"item", "unit", "lesson", "dialogue", "checkpoint", "placement"}
  BY <1>10 DEF HoldsRecord
<1> QED  BY <1>4, <1>5, <1>6, <1>7, <1>8, <1>9, <1>10

\* In a list by position what comes before is earlier.
LEMMA EarlierInOrder ==
    ASSUME NEW records, Ranked(records), NEW list, InOrder(list, records),
           NEW i \in DOMAIN list, NEW j \in DOMAIN list, byOrder(list[i], list[j])
    PROVE  i < j
<1>1. i \in Nat /\ j \in Nat /\ list[i] \in records /\ list[j] \in records
  BY DEF InOrder
<1>2. ~byOrder(list[j], list[i])
  BY <1>1, ByOrderOneWay
<1>3. ~(j < i)
  BY <1>2 DEF InOrder
<1>4. i # j
  BY <1>2
<1> QED  BY <1>1, <1>3, <1>4

\* And it has them in their places.
LEMMA BuiltInPlaces ==
    ASSUME NEW corpus, Publishable(corpus)
    PROVE  InPlaces(buildRelease(corpus), corpus)
<1>0. PICK release : release = buildRelease(corpus)
  OBVIOUS
<1>1. PICK tree : tree = release.tree
  OBVIOUS
<1>2. PICK stages : stages = stagesOf(corpus)
  OBVIOUS
<1>3. /\ Ranked(Stages(corpus)) /\ InOrder(stages, Stages(corpus))
      /\ \A k \in DOMAIN stages : stages[k] \in Stages(corpus)
  <2>1. InOrder(stages, Stages(corpus))
    BY <1>2, PartsInOrder
  <2> QED  BY <2>1, AllRanked DEF InOrder
<1>4. tree = [s \in DOMAIN stages |->
                 [i \in DOMAIN unitsOf(corpus, stages[s]) |->
                     treeUnit(corpus, unitsOf(corpus, stages[s])[i])]]
  BY <1>0, <1>1, <1>2 DEF buildRelease, buildTree
<1>5. ASSUME NEW a \in of(corpus, "unit"), NEW s \in DOMAIN tree, NEW i \in DOMAIN tree[s],
             tree[s][i].id = a.slug
      PROVE  /\ s \in DOMAIN stages /\ stages[s] \in Stages(corpus)
             /\ a.stage = stages[s].slug
             /\ i \in DOMAIN unitsOf(corpus, stages[s])
             /\ unitsOf(corpus, stages[s])[i] = a
  <2>1. s \in DOMAIN stages /\ stages[s] \in Stages(corpus)
    BY <1>3, <1>4
  <2>2. PICK list : list = unitsOf(corpus, stages[s])
    OBVIOUS
  <2>3. InOrder(list, UnitsIn(corpus, stages[s]))
    BY <2>1, <2>2, PartsInOrder
  <2>4. i \in DOMAIN list /\ tree[s][i] = treeUnit(corpus, list[i])
    BY <1>4, <2>1, <2>2
  <2>5. /\ list[i] \in UnitsIn(corpus, stages[s])
        /\ list[i] \in AllUnits(corpus) /\ list[i].stage = stages[s].slug
    BY <2>3, <2>4 DEF InOrder, UnitsIn, AllUnits
  <2>6. list[i].slug = a.slug
    BY <1>5, <2>4, <2>5, TreeUnitIs
  <2>7. list[i] = a
    BY <2>5, <2>6, OneSlugEach DEF AllUnits
  <2> QED  BY <2>1, <2>2, <2>4, <2>5, <2>7
<1>6. ASSUME NEW a \in of(corpus, "lesson"), NEW b \in of(corpus, "lesson"),
             NEW l \in release.lessons, NEW m \in release.lessons,
             l.lessonId = a.slug, m.lessonId = b.slug, a.unit = b.unit, byOrder(a, b)
      PROVE  l.order < m.order
  <2>1. ASSUME NEW c \in of(corpus, "lesson"), NEW stored \in release.lessons,
               stored.lessonId = c.slug
        PROVE  \E u \in AllUnits(corpus) : /\ u.slug = c.unit
                                           /\ stored.order \in DOMAIN lessonsOf(corpus, u)
                                           /\ lessonsOf(corpus, u)[stored.order] = c
    <3>1. PICK u \in AllUnits(corpus) : \E k \in DOMAIN lessonsOf(corpus, u) :
              stored = lessonSnapshot(corpus, lessonsOf(corpus, u)[k], k)
      BY <1>0, StoredLessonsAre
    <3>2. PICK k \in DOMAIN lessonsOf(corpus, u) :
              stored = lessonSnapshot(corpus, lessonsOf(corpus, u)[k], k)
      BY <3>1
    <3>3. PICK found : found = lessonsOf(corpus, u)[k]
      OBVIOUS
    <3>4. stored = lessonSnapshot(corpus, found, k)
      BY <3>2, <3>3
    <3>5. stored.lessonId = found.slug /\ stored.order = k
      BY <3>4 DEF lessonSnapshot
    <3>6. found \in of(corpus, "lesson") /\ found.unit = u.slug
      BY <3>3, LessonPlace DEF Lessons
    <3>7. found = c
      BY <2>1, <3>5, <3>6, OneSlugEach
    <3> QED  BY <3>3, <3>5, <3>6, <3>7
  <2>2. PICK u \in AllUnits(corpus) : /\ u.slug = a.unit
                                      /\ l.order \in DOMAIN lessonsOf(corpus, u)
                                      /\ lessonsOf(corpus, u)[l.order] = a
    BY <1>6, <2>1
  <2>3. PICK v \in AllUnits(corpus) : /\ v.slug = b.unit
                                      /\ m.order \in DOMAIN lessonsOf(corpus, v)
                                      /\ lessonsOf(corpus, v)[m.order] = b
    BY <1>6, <2>1
  <2>4. u = v
    BY <1>6, <2>2, <2>3, OneSlugEach DEF AllUnits
  <2>5. Ranked(LessonsIn(corpus, u)) /\ InOrder(lessonsOf(corpus, u), LessonsIn(corpus, u))
    BY AllRanked, PartsInOrder
  <2> HIDE DEF byOrder
  <2> QED  BY <1>6, <2>2, <2>3, <2>4, <2>5, EarlierInOrder
<1>7. ASSUME NEW a \in of(corpus, "unit"), NEW b \in of(corpus, "unit"),
             NEW s \in DOMAIN tree, NEW t \in DOMAIN tree,
             NEW i \in DOMAIN tree[s], NEW j \in DOMAIN tree[t],
             tree[s][i].id = a.slug, tree[t][j].id = b.slug
      PROVE  /\ s = t <=> a.stage = b.stage
             /\ a.stage = b.stage /\ byOrder(a, b) => i < j
             /\ \A x, y \in of(corpus, "stage") :
                   a.stage = x.slug /\ b.stage = y.slug /\ byOrder(x, y) => s < t
  <2>1. /\ s \in DOMAIN stages /\ stages[s] \in Stages(corpus) /\ a.stage = stages[s].slug
        /\ i \in DOMAIN unitsOf(corpus, stages[s]) /\ unitsOf(corpus, stages[s])[i] = a
    BY <1>5, <1>7
  <2>2. /\ t \in DOMAIN stages /\ stages[t] \in Stages(corpus) /\ b.stage = stages[t].slug
        /\ j \in DOMAIN unitsOf(corpus, stages[t]) /\ unitsOf(corpus, stages[t])[j] = b
    BY <1>5, <1>7
  <2>3. s = t <=> a.stage = b.stage
    <3>1. ASSUME a.stage = b.stage PROVE s = t
      <4>1. stages[s] = stages[t]
        BY <2>1, <2>2, <3>1, OneSlugEach DEF Stages
      <4> QED  BY <1>3, <2>1, <2>2, <4>1 DEF InOrder
    <3> QED  BY <2>1, <2>2, <3>1
  <2>4. ASSUME a.stage = b.stage, byOrder(a, b) PROVE i < j
    <3>1. s = t
      BY <2>3, <2>4
    <3>2. /\ Ranked(UnitsIn(corpus, stages[s]))
          /\ InOrder(unitsOf(corpus, stages[s]), UnitsIn(corpus, stages[s]))
      BY <2>1, AllRanked, PartsInOrder
    <3> HIDE DEF byOrder
    <3> QED  BY <2>1, <2>2, <2>4, <3>1, <3>2, EarlierInOrder
  <2>5. ASSUME NEW x \in of(corpus, "stage"), NEW y \in of(corpus, "stage"),
               a.stage = x.slug, b.stage = y.slug, byOrder(x, y)
        PROVE  s < t
    <3>1. x = stages[s] /\ y = stages[t]
      BY <2>1, <2>2, <2>5, OneSlugEach DEF Stages
    <3> HIDE DEF byOrder
    <3> QED  BY <1>3, <2>1, <2>2, <2>5, <3>1, EarlierInOrder
  <2> QED  BY <2>3, <2>4, <2>5
<1> HIDE DEF byOrder
<1>8. InPlaces(release, corpus)
  BY <1>1, <1>6, <1>7 DEF InPlaces
<1> QED  BY <1>0, <1>8

\* Of fewer records it says less.
LEMMA FewerInPlaces ==
    ASSUME NEW release, NEW all, InPlaces(release, all), NEW some,
           of(some, "stage") \subseteq all, of(some, "unit") \subseteq all,
           of(some, "lesson") \subseteq all
    PROVE  InPlaces(release, some)
<1>1. /\ of(some, "stage") \subseteq of(all, "stage")
      /\ of(some, "unit") \subseteq of(all, "unit")
      /\ of(some, "lesson") \subseteq of(all, "lesson")
  BY DEF of
<1> HIDE DEF byOrder
<1>2. PICK S, U, L : /\ S = of(some, "stage") /\ U = of(some, "unit") /\ L = of(some, "lesson")
                     /\ S \subseteq of(all, "stage") /\ U \subseteq of(all, "unit")
                     /\ L \subseteq of(all, "lesson")
  BY <1>1
<1> QED  BY <1>2 DEF InPlaces

\* And the one a publish stores has every live row, in its place.
LEMMA SnapshotHolds ==
    ASSUME NEW table, Sound(table), rowsToCorpus(copyOf(table)),
           NEW release, Snapshot(release, corpusOf(copyOf(table)))
    PROVE  /\ \A record \in copyOf(table) : HoldsRecord(release, record)
           /\ InPlaces(release, copyOf(table))
<1>1. PICK copy : copy = copyOf(table)
  OBVIOUS
<1>2. PICK corpus : corpus = corpusOf(copy)
  OBVIOUS
<1>3. /\ IsFiniteSet(copy) /\ Publishable(corpus) /\ rowsToCorpus(copy)
      /\ Snapshot(release, corpus)
  BY <1>1, <1>2, CopyPublishable
<1>4. corpus \in SUBSET copy /\ \A r \in copy :
          r \in corpus \/ (r.kind = "checkpoint" /\ r.unit \notin slugsOf(copy, "unit"))
  BY <1>2 DEF corpusOf, orphanCheckpoints, of
<1>5. IsFiniteSet(corpus)
  BY <1>3, <1>4, FS_Subset
<1>6. of(corpus, "placement") = of(copy, "placement") /\ slugsOf(corpus, "unit") = slugsOf(copy, "unit")
  <2>1. \A r : r \in of(corpus, "placement") <=> r \in of(copy, "placement")
    BY <1>4 DEF of
  <2>2. \A r : r \in of(corpus, "unit") <=> r \in of(copy, "unit")
    BY <1>4 DEF of
  <2> QED  BY <2>1, <2>2 DEF slugsOf
<1>7. Cardinality(of(corpus, "placement")) <= 1
  BY <1>3, <1>6 DEF rowsToCorpus, rowsFit
<1>8. PICK built : built = buildRelease(corpus)
  OBVIOUS
<1>9. /\ release.tree = built.tree /\ release.lessons = built.lessons
      /\ release.items = built.items /\ release.checkpoints = built.checkpoints
      /\ release.placement = built.placement
  <2>1. {"tree", "lessons", "items", "checkpoints", "placement"} \subseteq DOMAIN built
    BY <1>8 DEF buildRelease
  <2> QED  BY <1>3, <1>8, <2>1 DEF Snapshot
<1>10. ASSUME NEW record \in copy PROVE HoldsRecord(release, record)
  <2>1. CASE record \in corpus
    <3>1. HoldsRecord(built, record)
      BY <1>3, <1>5, <1>7, <1>8, <2>1, BuiltHolds
    <3> QED  BY <1>9, <3>1 DEF HoldsRecord
  <2>2. CASE record \notin corpus
    <3>1. record.kind = "checkpoint" /\ record.unit \notin slugsOf(corpus, "unit")
      BY <1>4, <1>6, <2>2
    <3>2. built.tree = buildTree(corpus)
      BY <1>8 DEF buildRelease
    <3>3. PICK units : units = ToSet(Path!unitsInOrder(release.tree))
      OBVIOUS
    <3>4. \A x \in units : \E u \in AllUnits(corpus) : x = treeUnit(corpus, u)
      BY <1>3, <1>9, <3>2, <3>3, TreeUnits
    <3>5. ASSUME NEW x \in units PROVE x.id # record.unit
      <4>1. PICK u \in AllUnits(corpus) : x = treeUnit(corpus, u)
        BY <3>4
      <4>2. x.id = u.slug /\ u.slug \in slugsOf(corpus, "unit")
        BY <1>3, <4>1, TreeUnitIs DEF AllUnits, slugsOf
      <4> QED  BY <3>1, <4>2
    <3> QED  BY <3>1, <3>3, <3>5 DEF HoldsRecord
  <2> QED  BY <2>1, <2>2
<1>11. InPlaces(release, copy)
  <2>1. InPlaces(built, corpus)
    BY <1>3, <1>8, BuiltInPlaces
  <2>2. InPlaces(release, corpus)
    BY <1>9, <2>1 DEF InPlaces
  <2>3. /\ of(copy, "stage") \subseteq corpus /\ of(copy, "unit") \subseteq corpus
        /\ of(copy, "lesson") \subseteq corpus
    BY <1>4 DEF of
  <2> QED  BY <2>2, <2>3, FewerInPlaces
<1> QED  BY <1>1, <1>10, <1>11

\* With no new release and no further edit published, nothing new is said.
LEMMA EditsKept ==
    ASSUME PublishedRowsAreReleased, releases' = releases,
           \A record \in publishedEdits' : record \in publishedEdits
    PROVE  PublishedRowsAreReleased'
<1>1. PICK last : last = releases[Len(releases)]
  OBVIOUS
<1>2. PICK all : all = publishedEdits
  OBVIOUS
<1>3. PICK some : some = publishedEdits'
  OBVIOUS
<1>4. some \subseteq all /\ InPlaces(last, all) /\ \A record \in all : HoldsRecord(last, record)
  BY <1>1, <1>2, <1>3 DEF PublishedRowsAreReleased
<1>5. InPlaces(last, some)
  BY <1>4, FewerInPlaces DEF of
<1>6. last = (releases[Len(releases)])'
  BY <1>1
<1> QED  BY <1>3, <1>4, <1>5, <1>6 DEF PublishedRowsAreReleased

\* The steps that leave the releases alone.
LEMMA ReleasesStay ==
    ASSUME NEW p \in Process, StepsAre(p), ~CommitPublish(p)
    PROVE  releases' = releases
<1>1. CASE Quiet(p)
  BY <1>1, QuietLeavesReleases
<1>2. CASE ~Quiet(p)
  BY <1>2 DEF StepsAre, Validate, Flip, CreateRelease, Activate, DropPointer, SendRetired,
              releaseRows
<1> QED  BY <1>1, <1>2

\* Every step keeps it.
LEMMA NextReleased ==
    ASSUME Correct, Correct', Inductive, Marked, \A p \in Process : Faithful(p),
           PublishedRowsAreReleased, [Next]_vars
    PROVE  PublishedRowsAreReleased'
<1>1. Fields /\ Steady /\ Sound(rows)'
  BY DEF Correct, Steady
<1>2. ASSUME NEW p \in Process, StepsAre(p), RowStep(p)
      PROVE  PublishedRowsAreReleased'
  <2>1. \/ rows' = rows
        \/ Commit(p) /\ job[p].pc = "commit" /\ rows' = view(p)
        \/ /\ CommitPublish(p) /\ job[p].pc = "point" /\ rows' = view(p)
           /\ \A t \in Slug : Same(rows[t], rows'[t])
    BY <1>1, <1>2, RowsChange
  <2>2. CASE CommitPublish(p)
    <3>1. job[p].pc = "point" /\ releases' = Append(releases, job[p].built)
      BY <2>2 DEF CommitPublish, At
    <3>2. \A t \in Slug : Same(rows[t], rows'[t])
      BY <2>1, <3>1 DEF Same
    <3>3. copyOf(rows') = copyOf(rows)
      <4>1. \A t \in Slug : live(rows'[t]) <=> live(rows[t])
        BY <3>2 DEF Same, live
      <4>2. \A t \in Slug : live(rows[t]) => rows'[t].record = rows[t].record
        BY <3>2 DEF Same, live
      <4> QED  BY <4>1, <4>2 DEF copyOf
    <3>4. PICK table, last : table = rows' /\ last = job[p].built
      OBVIOUS
    <3>5. /\ Sound(table) /\ rowsToCorpus(copyOf(table))
          /\ Snapshot(last, corpusOf(copyOf(table)))
      BY <1>1, <3>1, <3>3, <3>4 DEF Faithful, Sound
    <3>6. (\A record \in copyOf(table) : HoldsRecord(last, record)) /\ InPlaces(last, copyOf(table))
      BY <3>5, SnapshotHolds
    <3>7. releases'[Len(releases')] = last
      BY <3>1, <3>4 DEF Inductive, Stored
    <3>8. PICK edits : edits = publishedEdits'
      OBVIOUS
    <3>9. edits \subseteq copyOf(table)
      BY <3>4, <3>8 DEF publishedEdits, copyOf, live
    <3>10. InPlaces(last, edits)
      BY <3>6, <3>9, FewerInPlaces DEF of
    <3> QED  BY <3>6, <3>7, <3>8, <3>9, <3>10 DEF PublishedRowsAreReleased
  <2>3. CASE ~CommitPublish(p)
    <3>1. releases' = releases
      BY <1>2, <2>3, ReleasesStay
    <3>2. ASSUME NEW s \in Slug, rows'[s] # rows[s], rows'[s] # None,
                 rows'[s].status = "PUBLISHED"
          PROVE  ~adminEdited(rows'[s])
      <4>1. job[p].pc = "commit" /\ rows' = view(p)
        BY <2>1, <2>3, <3>2
      <4>2. s \in DOMAIN job[p].written /\ rows'[s] = job[p].written[s]
        BY <3>2, <4>1, ViewIs
      <4>3. MarkedRow(job[p].pc \in Publishes, job[p].written[s], rows[s])
        BY <4>2 DEF Marked
      <4>4. job[p].pc \notin Publishes
        BY <4>1 DEF Publishes
      <4> QED  BY <3>2, <4>2, <4>3, <4>4 DEF MarkedRow
    <3>3. \A record \in publishedEdits' : record \in publishedEdits
      BY <3>2 DEF publishedEdits
    <3> QED  BY <3>1, <3>3, EditsKept
  <2> QED  BY <2>2, <2>3
<1>3. CASE UNCHANGED <<rows, job, releases>>
  <2>1. publishedEdits' = publishedEdits
    BY <1>3 DEF publishedEdits
  <2> QED  BY <1>3, <2>1, EditsKept
<1> QED  BY <1>2, <1>3, NextIs

\* At the start nothing runs, and no published row was edited.
LEMMA InitReleased ==
    Init => /\ Marked /\ Blank /\ PublishedRowsAreReleased
            /\ \A p \in Process : Faithful(p)
<1> SUFFICES ASSUME Init
             PROVE  /\ Marked /\ Blank /\ PublishedRowsAreReleased
                    /\ \A p \in Process : Faithful(p)
  OBVIOUS
<1>1. Steady /\ \A p \in Process : job[p].pc = "idle" /\ job[p].written = <<>>
  BY InitCorrect, StartIs DEF Correct
<1>2. Marked /\ Blank /\ \A p \in Process : Faithful(p)
  BY <1>1 DEF Marked, Blank, Faithful
<1>3. ASSUME NEW s \in Slug, rows[s] # None, rows[s].status = "PUBLISHED"
      PROVE  ~adminEdited(rows[s])
  <2>1. CASE rows = [t \in Slug |-> None]
    BY <1>3, <2>1
  <2>2. ASSUME rows # [t \in Slug |-> None] PROVE ~adminEdited(rows[s])
    <3>1. PICK released \in DOMAIN Seeds, copy \in DOMAIN Seeds :
              /\ rows = Edited(released, copy)
              /\ Seeds[released] \subseteq Record /\ Seeds[copy] \subseteq Record
      BY <2>2, StartIs
    <3>2. Seeds[released] \in Corpora /\ Seeds[copy] \in Corpora
      BY DEF Corpora
    <3>3. rows[s].record = rows[s].seed
      BY <1>3, <3>1, <3>2, EditedIs
    <3> QED  BY <3>3 DEF adminEdited
  <2> QED  BY <2>1, <2>2
<1>4. publishedEdits = {}
  BY <1>3 DEF publishedEdits
<1>5. InPlaces(releases[Len(releases)], {})
  BY DEF InPlaces, of
<1> QED  BY <1>2, <1>4, <1>5 DEF PublishedRowsAreReleased

\* When no edit and no import commits while a publish is at work, what an admin
\* wrote is published as it stands, whatever came before and whoever gives up.
THEOREM PublishedRowsAreReleasedHolds ==
    Spec /\ []NoCommitWhilePublishing => []PublishedRowsAreReleased
<1>1. Init => /\ Inductive /\ Correct /\ Marked /\ Blank
              /\ \A p \in Process : Faithful(p)
              /\ PublishedRowsAreReleased
  BY InitInductive, InitCorrect, InitReleased
<1>2. /\ Inductive /\ Correct /\ Marked /\ Blank /\ NoCommitWhilePublishing
      /\ \A p \in Process : Faithful(p)
      /\ PublishedRowsAreReleased /\ [Next]_vars
      => /\ Inductive' /\ Correct' /\ Marked' /\ Blank'
         /\ (\A p \in Process : Faithful(p))'
         /\ PublishedRowsAreReleased'
  BY NextInductive, NextCorrect, NextMarked, NextBlank, NextFaithful, NextReleased
<1> QED  BY <1>1, <1>2, PTL DEF Spec

-----------------------------------------------------------------------------
(* The cached pointer.                                                      *)

\* No reader has loaded the pointer, and not stored it yet, while another request
\* is at the statement that moves it.
ReadersApart == \A p, q \in Process : At(p, "fill") => ~At(q, "point") /\ ~At(q, "activate")

\* The cached pointer is the active release's, or about to be dropped; and what a
\* reader is about to store is active.
PointerKept ==
    /\ pointer \in {None, active} \/ \E p \in Process : At(p, "drop")
    /\ \A p \in Process : At(p, "fill") => job[p].against = active

\* Steps that have nothing to do with it.
LeavesPointer(p) ==
    /\ UNCHANGED <<pointer, active>>
    /\ job[p].pc # "drop" /\ job'[p].pc \notin {"drop", "fill"}

\* The steps that move the pointer, load it, store it or drop it.
MovesPointer(p) ==
    CommitPublish(p) \/ Activate(p) \/ PointerMiss(p) \/ FillPointer(p) \/ DropPointer(p)

\* All the others leave it, when nothing fails.
LEMMA PointerLeft ==
    ASSUME Fields, ~Faults, NEW p \in Process, StepsAre(p), ~MovesPointer(p)
    PROVE  LeavesPointer(p)
<1> USE DEF LeavesPointer, At, outside, releaseRows
<1>0. DOMAIN job[p] = {"pc", "request", "seen", "left",
          "todo", "written", "refused", "against", "built"}
  BY DEF Fields, Idle
<1>1. ASSUME NEW j, Go(p, j) PROVE job'[p] = j
  BY <1>1 DEF Go, Fields
<1>2. End(p) => job'[p].pc = "idle"
  BY <1>1 DEF End, Idle
<1>3. ASSUME NEW j, NEW todo, Go(p, j), j.pc = nextStep(p, todo)
       PROVE  job'[p].pc \notin {"drop", "fill"}
  BY <1>1, <1>3, NextStepIsQuiet
<1>4. ASSUME NEW q \in RequestName, Receive(p, q) \/ CheckForChanges(p, q)
      PROVE  LeavesPointer(p)
  <2>1. CASE Receive(p, q)
    <3>1. job'[p].pc = firstStep(Requests[q].op)
      BY <1>1, <2>1 DEF Receive, Idle
    <3>2. Requests[q].op # "watch" /\ job[p].pc = "idle"
      BY <2>1 DEF Receive
    <3> QED  BY <2>1, <3>1, <3>2, FirstStepIsQuiet DEF Receive
  <2>2. CASE CheckForChanges(p, q)
    BY <1>1, <2>2 DEF CheckForChanges, Idle
  <2> QED  BY <1>4, <2>1, <2>2
<1>5. CASE FindForCreate(p) \/ FindForUpdate(p) \/ FindForArchive(p)
  BY <1>0, <1>1, <1>2, <1>5 DEF FindForCreate, FindForUpdate, FindForArchive
<1>6. CASE FindForRestore(p) \/ FindParent(p) \/ CheckEmpty(p)
  BY <1>0, <1>1, <1>2, <1>6 DEF FindForRestore, FindParent, CheckEmpty
<1>7. CASE SetStatus(p) \/ FindChildren(p) \/ Reread(p) \/ RereadPart(p)
  BY <1>0, <1>1, <1>2, <1>7 DEF SetStatus, FindChildren, Reread, RereadPart
<1>8. CASE CheckParent(p) \/ CheckOthers(p)
  <2>1. Refuse(p) => job'[p].pc \notin {"drop", "fill"}
    BY <1>0, <1>1, <1>2, <1>3 DEF Refuse
  <2>2. ASSUME NEW pc \in {"write", "checkOthers"}, Go(p, [job[p] EXCEPT !.pc = pc])
        PROVE  job'[p].pc \notin {"drop", "fill"}
    BY <1>0, <1>1, <2>2
  <2> QED  BY <1>8, <2>1, <2>2 DEF CheckParent, CheckOthers
<1>9. CASE Write(p) \/ PlanUnitImport(p) \/ PlanImport(p)
  <2>1. CASE Write(p)
    BY <1>0, <1>1, <1>2, <2>1, <1>3 DEF Write
  <2>2. CASE PlanUnitImport(p)
    BY <1>0, <1>1, <1>2, <2>2, <1>3 DEF PlanUnitImport
  <2>3. CASE PlanImport(p)
    BY <1>0, <1>1, <1>2, <2>3, <1>3 DEF PlanImport
  <2> QED  BY <1>9, <2>1, <2>2, <2>3
<1>10. CASE ReadTable(p) \/ ReadPart(p) \/ LoadContent(p) \/ TakeLock(p)
  BY <1>0, <1>1, <1>2, <1>10 DEF ReadTable, ReadPart, LoadContent, TakeLock
<1>11. CASE Commit(p)
  BY <1>1, <1>2, <1>11, AfterCommitIsQuiet DEF Commit, Idle
<1>12. CASE ActivateNone(p) \/ SendRetired(p)
  BY <1>2, <1>12 DEF ActivateNone, SendRetired
<1>13. CASE PointerHit(p)
  <2>1. PICK found : Decide(p, found)
    BY <1>13 DEF PointerHit
  <2>2. job'[p].pc \in {"lock", "idle"}
    BY <1>1, <1>2, <2>1 DEF Decide, Idle
  <2> QED  BY <1>13, <2>2 DEF PointerHit
<1>14. CASE TimeOut(p)
  BY <1>2, <1>14 DEF TimeOut, Waits
<1>15. CASE Stop(p)
  BY <1>15 DEF Stop
<1>16. CASE Validate(p) \/ Flip(p) \/ CreateRelease(p)
  <2>1. CASE Validate(p)
    BY <1>0, <1>1, <1>2, <2>1 DEF Validate
  <2>2. CASE Flip(p)
    BY <1>0, <1>1, <2>2 DEF Flip
  <2>3. CASE CreateRelease(p)
    BY <1>0, <1>1, <2>3 DEF CreateRelease
  <2> QED  BY <1>16, <2>1, <2>2, <2>3
<1> QED  BY <1>4, <1>5, <1>6, <1>7, <1>8, <1>9, <1>10, <1>11, <1>12, <1>13, <1>14, <1>15,
            <1>16 DEF StepsAre, Quiet, MovesPointer

\* Every step keeps it, while readers are apart from those who move the pointer.
LEMMA NextPointerKept ==
    ASSUME Correct, ~Faults, ReadersApart, PointerKept, [Next]_vars
    PROVE  PointerKept'
<1> USE DEF At
<1>0. Fields
  BY DEF Correct
<1>1. ASSUME NEW p \in Process, StepsAre(p), \A q \in Process \ {p} : job'[q] = job[q]
      PROVE  PointerKept'
  <2>0. DOMAIN job[p] = {"pc", "request", "seen", "left",
            "todo", "written", "refused", "against", "built"}
    BY <1>0 DEF Fields, Idle
  <2>1. ASSUME NEW j, Go(p, j) PROVE job'[p] = j
    BY <1>0, <2>1 DEF Go, Fields
  <2>2. CASE ~MovesPointer(p)
    <3>1. LeavesPointer(p)
      BY <1>0, <1>1, <2>2, PointerLeft
    <3> QED  BY <1>1, <3>1 DEF LeavesPointer, PointerKept
  <2>3. CASE CommitPublish(p) \/ Activate(p)
    <3>1. job[p].pc \in {"point", "activate"} /\ job'[p].pc = "drop"
      BY <2>0, <2>1, <2>3 DEF CommitPublish, Activate
    <3>2. \A q \in Process : job[q].pc # "fill"
      BY <3>1 DEF ReadersApart
    <3> QED  BY <1>1, <3>1, <3>2 DEF PointerKept
  <2>4. CASE PointerMiss(p)
    <3>1. /\ job'[p].pc = "fill" /\ job'[p].against = active
          /\ UNCHANGED <<pointer, active>> /\ pointer = None
      BY <2>0, <2>1, <2>4 DEF PointerMiss, outside, releaseRows
    <3> QED  BY <1>1, <3>1 DEF PointerKept
  <2>5. CASE FillPointer(p)
    <3>1. pointer' = job[p].against /\ active' = active /\ job[p].pc = "fill"
      BY <2>5 DEF FillPointer, releaseRows
    <3>2. PICK found : Decide(p, found)
      BY <2>5 DEF FillPointer
    <3>3. End(p) => job'[p].pc = "idle"
      BY <2>1 DEF End, Idle
    <3>4. job'[p].pc \in {"lock", "idle"}
      BY <2>1, <3>2, <3>3 DEF Decide, Idle
    <3> QED  BY <1>1, <3>1, <3>4 DEF PointerKept
  <2>6. CASE DropPointer(p)
    <3>1. pointer' = None /\ active' = active
      BY <2>6 DEF DropPointer, releaseRows
    <3>2. job'[p].pc \in {"send", "idle"}
      BY <2>0, <2>1, <2>6 DEF DropPointer, End, Idle
    <3> QED  BY <1>1, <3>1, <3>2 DEF PointerKept
  <2> QED  BY <2>2, <2>3, <2>4, <2>5, <2>6 DEF MovesPointer
<1>2. CASE Expire \/ SaveContent \/ UNCHANGED vars
  BY <1>2 DEF Expire, SaveContent, vars, releaseRows, PointerKept
<1>3. (\E p \in Process : StepsAre(p)) \/ Expire \/ SaveContent \/ UNCHANGED vars
  BY DEF Next, Step, Quiet, StepsAre
<1>4. \A p \in Process : StepsAre(p) => \A q \in Process \ {p} : job'[q] = job[q]
  BY <1>0, OwnJob DEF StepsAre
<1> QED  BY <1>1, <1>2, <1>3, <1>4

\* For any number of processes, writers and readers: when nothing fails and no
\* reader stores a pointer it loaded before another request moved it, a service at
\* rest has nothing cached but the active release.
THEOREM PointerIsCurrentHolds ==
    Spec /\ ~Faults /\ []ReadersApart => []PointerIsCurrent
<1>1. Init => Inductive /\ Correct /\ PointerKept
  <2>1. Init => \A p \in Process : job[p].pc = "idle"
    BY DEF Init, Idle
  <2> QED  BY <2>1, InitInductive, InitCorrect DEF Init, PointerKept, At
<1>2. ~Faults /\ Inductive /\ Correct /\ PointerKept /\ ReadersApart /\ [Next]_vars
      => Inductive' /\ Correct' /\ PointerKept'
  BY NextInductive, NextCorrect, NextPointerKept
<1>3. PointerKept => PointerIsCurrent
  BY DEF PointerKept, PointerIsCurrent, At
<1>4. CASE Faults
  BY <1>4, PTL
<1>5. CASE ~Faults
  BY <1>1, <1>2, <1>3, <1>5, PTL DEF Spec
<1> QED  BY <1>4, <1>5

-----------------------------------------------------------------------------
(* Imports, while nobody else commits an edit or an import.                 *)

\* The operations that import, and where they have a plan or rows in hand.
Importers == {"import", "watch", "unitImport"}
ImportSteps == {"load", "read", "check", "checkOthers", "write", "commit"}

\* Between its first read and its commit nobody else is at the commit of an edit
\* or an import; others edit up to there, publish and serve learners.
NoCommitWhileImporting ==
    \A p \in Process : \A q \in Process \ {p} :
        job[p].pc \in ImportSteps \ {"load"} /\ op(p) \in Importers =>
            job[q].pc # "commit"

\* A row was read as it is, or its table is still to be read, or not read at all.
Behind(seen, row, left, operation) ==
    \/ Same(seen, row)
    \/ /\ seen = None /\ row # None
       /\ \/ row.record.kind \in ToSet(left)
          \/ operation = "unitImport" /\ row.record.kind \in {"stage", "placement"}

\* Who goes through these steps.
Watches(j) ==
    /\ j.pc = "load" => Requests[j.request].op = "watch"
    /\ j.pc \in {"check", "checkOthers"} => Requests[j.request].op \notin {"import", "watch"}

\* What a job that reads has read is still there.
ReadsOn(j, table) ==
    j.pc = "read" =>
        /\ Requests[j.request].op \in Importers
        /\ j.left \in Seq(Kinds)
        /\ Requests[j.request].op = "unitImport" =>
              j.todo = toSeedRecords(Requests[j.request].corpus)
        /\ \A s \in Slug : Behind(j.seen[s], table[s], j.left, Requests[j.request].op)

\* An import may write a record over a row.
Allowed(table, force, record) ==
    /\ record.slug \in Slug
    /\ table[record.slug] # None /\ adminEdited(table[record.slug]) =>
          record.slug \in force \/ record = table[record.slug].record

\* What an import of files has written, and has to write, it may write.
KeepsEdits(j, table) ==
    j.pc \in {"write", "commit"} /\ Requests[j.request].op \in {"import", "watch"} =>
        /\ \A i \in DOMAIN j.todo : Allowed(table, Requests[j.request].force, j.todo[i].record)
        /\ \A s \in DOMAIN j.written :
              Allowed(table, Requests[j.request].force, j.written[s].record)

\* A row has a record and is live.
Has(row, record) == live(row) /\ row.record = record

\* A record of a unit's file is written, or there and left as it is.
Done(j, table, record) ==
    /\ record.slug \in Slug
    /\ IF record.slug \in DOMAIN j.written THEN Has(j.written[record.slug], record)
       ELSE Has(table[record.slug], record)

\* A record is still to be written.
ToDo(j, record) == \E i \in DOMAIN j.todo : j.todo[i].record = record

\* What a unit's file holds is written, was there, or is still to be written.
Completes(j, table) ==
    /\ j.pc \in {"check", "checkOthers", "write", "commit"}
    /\ Requests[j.request].op = "unitImport"
    => /\ \A i \in DOMAIN j.todo : j.todo[i].record \in Requests[j.request].corpus
       /\ j.pc = "commit" => j.todo = <<>>
       /\ ~j.refused =>
             \A record \in Requests[j.request].corpus :
                 ToDo(j, record) \/ Done(j, table, record)

\* What an import knows of the rows.
Importing(j, table) ==
    Watches(j) /\ ReadsOn(j, table) /\ KeepsEdits(j, table) /\ Completes(j, table)

\* It does not matter to an import that rows are published.
LEMMA PublishingKeeps ==
    ASSUME NEW j, NEW before, NEW after, \A s \in Slug : Same(before[s], after[s]),
           Importing(j, before)
    PROVE  Importing(j, after)
<1>1. \A s \in Slug : \A seen, left, operation :
          Behind(seen, before[s], left, operation) => Behind(seen, after[s], left, operation)
  BY DEF Behind, Same
<1>2. \A force, record : Allowed(before, force, record) => Allowed(after, force, record)
  BY DEF Allowed, Same, adminEdited
<1>3. \A record : Done(j, before, record) => Done(j, after, record)
  BY DEF Done, Has, Same, live
<1>4. Watches(j)
  BY DEF Importing
<1>5. ReadsOn(j, after)
  BY <1>1 DEF Importing, ReadsOn
<1>6. KeepsEdits(j, after)
  BY <1>2 DEF Importing, KeepsEdits
<1>7. Completes(j, after)
  BY <1>3 DEF Importing, Completes
<1> QED  BY <1>4, <1>5, <1>6, <1>7 DEF Importing

\* What is no import.
LEMMA NoImport ==
    ASSUME NEW j, NEW table,
           \/ j.pc \notin ImportSteps
           \/ j.pc \notin {"load", "read"} /\ Requests[j.request].op \notin Importers
    PROVE  Importing(j, table)
BY DEF Importing, ImportSteps, Importers, Watches, ReadsOn, KeepsEdits, Completes

\* A request that ends has nothing to keep.
LEMMA EndsNoImport ==
    ASSUME Fields, NEW p \in Process, End(p)
    PROVE  Importing(job'[p], rows')
<1>1. job'[p].pc \notin ImportSteps
  BY DEF End, Go, Fields, Idle, ImportSteps
<1> QED  BY <1>1, NoImport

-----------------------------------------------------------------------------
(* Its reads.                                                               *)

\* An import reads the tables of its records.
LEMMA TablesToRead ==
    ASSUME NEW operation
    PROVE  /\ tablesRead(operation) \in Seq(Kinds)
           /\ \A kind \in ToSet(Tables) :
                 \/ kind \in ToSet(tablesRead(operation))
                 \/ operation = "unitImport" /\ kind \in {"stage", "placement"}
<1>1. Tables \in Seq(Kinds)
  BY AuthoringAssumption
<1>2. CASE operation # "unitImport"
  BY <1>1, <1>2 DEF tablesRead
<1>3. CASE operation = "unitImport"
  <2> DEFINE those == {i \in DOMAIN Tables : Tables[i] \notin {"stage", "placement"}}
  <2>1. those \in SUBSET DOMAIN Tables /\ tablesRead(operation) = chosen(Tables, those)
    BY <1>3 DEF tablesRead
  <2>2. \A i \in DOMAIN Tables : i \in those \/ Tables[i] \in {"stage", "placement"}
    OBVIOUS
  <2> HIDE DEF those
  <2>3. /\ chosen(Tables, those) \in Seq(Kinds)
        /\ \A i \in those : \E k \in DOMAIN chosen(Tables, those) :
              chosen(Tables, those)[k] = Tables[i]
    BY <1>1, <2>1, ChosenIs
  <2>4. ASSUME NEW kind \in ToSet(Tables), kind \notin {"stage", "placement"}
        PROVE  kind \in ToSet(tablesRead(operation))
    <3>1. PICK i \in DOMAIN Tables : Tables[i] = kind
      BY DEF ToSet
    <3>2. PICK k \in DOMAIN chosen(Tables, those) : chosen(Tables, those)[k] = kind
      BY <2>2, <2>3, <2>4, <3>1
    <3> QED  BY <2>1, <3>2 DEF ToSet
  <2> QED  BY <1>3, <2>1, <2>3, <2>4
<1> QED  BY <1>2, <1>3

\* An import that begins has read nothing.
LEMMA ReceiveImports ==
    ASSUME Fields, Steady, NEW p \in Process, NEW q \in RequestName,
           Receive(p, q) \/ CheckForChanges(p, q)
    PROVE  Importing(job'[p], rows')
<1> DEFINE operation == Requests[q].op
<1>0. rows' = rows
  BY DEF Receive, CheckForChanges
<1>1. CASE CheckForChanges(p, q)
  <2>1. job'[p].pc = "load" /\ job'[p].request = q /\ Requests[q].op = "watch"
    BY <1>1 DEF CheckForChanges, Go, Fields, Idle
  <2> QED  BY <2>1 DEF Importing, Watches, ReadsOn, KeepsEdits, Completes
<1>2. CASE Receive(p, q)
  <2>1. PICK seen : seen = [s \in Slug |-> None]
    OBVIOUS
  <2>2. PICK todo : todo = IF operation \in {"unitImport", "import"}
                           THEN toSeedRecords(Requests[q].corpus) ELSE <<>>
    OBVIOUS
  <2>3. /\ job'[p].pc = firstStep(operation) /\ job'[p].request = q
        /\ job'[p].left = tablesRead(operation) /\ job'[p].seen = seen
        /\ job'[p].todo = todo
    BY <1>2, <2>1, <2>2 DEF Receive, Go, Fields, Idle
  <2>4. /\ operation \in Operation /\ operation # "watch"
        /\ firstStep(operation) = CASE operation \in AdminWrites -> "find"
              [] operation \in {"unitImport", "import"} -> "read"
              [] operation = "publish" -> "lock"
              [] OTHER -> operation
    BY <1>2, AuthoringAssumption DEF Receive, firstStep
  <2>5. CASE operation \in {"unitImport", "import"}
    <3>1. job'[p].pc = "read"
      BY <2>3, <2>4, <2>5 DEF AdminWrites
    <3>2. ASSUME NEW s \in Slug
          PROVE  Behind(seen[s], rows[s], tablesRead(operation), operation)
      <4>1. rows[s] = None \/ rows[s].record.kind \in ToSet(Tables)
        BY RowsInTables
      <4> QED  BY <2>1, <4>1, TablesToRead DEF Behind, Same
    <3>3. ReadsOn(job'[p], rows')
      BY <1>0, <2>2, <2>3, <2>5, <3>2, TablesToRead DEF ReadsOn, Importers
    <3> QED  BY <3>1, <3>3 DEF Importing, Watches, KeepsEdits, Completes
  <2>6. CASE operation \notin {"unitImport", "import"}
    <3>1. job'[p].pc \notin ImportSteps
      BY <2>3, <2>4, <2>6 DEF AdminWrites, Operation, ImportSteps
    <3> QED  BY <3>1, NoImport
  <2> QED  BY <2>5, <2>6
<1> QED  BY <1>1, <1>2

\* Nor has the watcher that loads its files.
LEMMA LoadImports ==
    ASSUME Fields, Steady, NEW p \in Process, Watches(job[p]), LoadContent(p)
    PROVE  Importing(job'[p], rows')
<1>0. DOMAIN job[p] = {"pc", "request", "seen", "left",
          "todo", "written", "refused", "against", "built"}
  BY DEF Fields, Idle
<1>1. rows' = rows /\ Requests[job[p].request].op = "watch"
  BY DEF LoadContent, At, Watches
<1>2. CASE End(p)
  BY <1>2, EndsNoImport
<1>3. CASE ~End(p)
  <2>1. PICK seen : seen = [s \in Slug |-> None]
    OBVIOUS
  <2>2. /\ job'[p].pc = "read" /\ job'[p].left = Tables /\ job'[p].seen = seen
        /\ job'[p].request = job[p].request
    BY <1>0, <1>3, <2>1 DEF LoadContent, Go, Fields
  <2>3. Tables \in Seq(Kinds)
    BY AuthoringAssumption
  <2>4. \A s \in Slug : Behind(seen[s], rows[s], Tables, "watch")
    BY <2>1, RowsInTables DEF Behind, Same
  <2>5. ReadsOn(job'[p], rows')
    BY <1>1, <2>2, <2>3, <2>4 DEF ReadsOn, Importers
  <2> QED  BY <2>2, <2>5 DEF Importing, Watches, KeepsEdits, Completes
<1> QED  BY <1>2, <1>3

\* A table read is as the rows are; only a publish goes on to a lesson's parts.
LEMMA ReadImports ==
    ASSUME Fields, Steady, Blank, NEW p \in Process, ReadsOn(job[p], rows),
           ReadTable(p) \/ ReadPart(p)
    PROVE  Importing(job'[p], rows')
<1>0. DOMAIN job[p] = {"pc", "request", "seen", "left",
          "todo", "written", "refused", "against", "built"}
  BY DEF Fields, Idle
<1>1. PICK seen : seen = [s \in Slug |->
          IF view(p)[s] # None /\ view(p)[s].record.kind = Head(job[p].left)
          THEN view(p)[s] ELSE job[p].seen[s]]
  OBVIOUS
<1>2. /\ job'[p].pc = job[p].pc /\ job[p].left # <<>>
      /\ job'[p].request = job[p].request /\ job'[p].todo = job[p].todo
      /\ job[p].pc \in {"read", "copy"} /\ rows' = rows
      /\ job[p].pc = "read" => job'[p].left = Tail(job[p].left) /\ job'[p].seen = seen
  BY <1>0, <1>1 DEF ReadTable, ReadPart, At, Go, Fields
<1>3. CASE job[p].pc = "copy"
  BY <1>2, <1>3, NoImport DEF ImportSteps
<1>4. CASE job[p].pc = "read"
  <2>1. \A s \in Slug : view(p)[s] = rows[s]
    BY <1>4, NothingWritten, ViewIs DEF Blank, Beginning
  <2>2. /\ job[p].left \in Seq(Kinds)
        /\ \A s \in Slug : Behind(job[p].seen[s], rows[s], job[p].left,
                                  Requests[job[p].request].op)
    BY <1>4 DEF ReadsOn
  <2>3. PICK operation : operation = Requests[job[p].request].op
    OBVIOUS
  <2>4. ASSUME NEW s \in Slug
        PROVE  Behind(seen[s], rows[s], Tail(job[p].left), operation)
    <3>1. Behind(job[p].seen[s], rows[s], job[p].left, operation)
      BY <2>2, <2>3
    <3>2. seen[s] = IF rows[s] # None /\ rows[s].record.kind = Head(job[p].left)
                    THEN rows[s] ELSE job[p].seen[s]
      BY <1>1, <2>1
    <3>3. \A kind \in ToSet(job[p].left) :
              kind = Head(job[p].left) \/ kind \in ToSet(Tail(job[p].left))
      BY <1>2, <2>2, TableRead
    <3> QED  BY <3>1, <3>2, <3>3 DEF Behind, Same
  <2>5. Tail(job[p].left) \in Seq(Kinds)
    BY <1>2, <2>2
  <2>6. ReadsOn(job'[p], rows')
    BY <1>2, <1>4, <2>3, <2>4, <2>5 DEF ReadsOn
  <2> QED  BY <1>2, <1>4, <2>6 DEF Importing, Watches, KeepsEdits, Completes
<1> QED  BY <1>2, <1>3, <1>4

-----------------------------------------------------------------------------
(* Its plans.                                                               *)


\* What is left to write of a plan: its inserts and updates.
LEMMA ChangesAre ==
    ASSUME NEW T, NEW plan \in Seq(T)
    PROVE  /\ \A k \in DOMAIN changes(plan) :
                 \E i \in DOMAIN plan : /\ plan[i].action \in {"insert", "update"}
                                        /\ changes(plan)[k] = plan[i]
           /\ \A i \in DOMAIN plan : plan[i].action \in {"insert", "update"} =>
                 \E k \in DOMAIN changes(plan) : changes(plan)[k] = plan[i]
<1> DEFINE those == {i \in DOMAIN plan : plan[i].action \in {"insert", "update"}}
<1>1. those \in SUBSET DOMAIN plan
  OBVIOUS
<1>2. changes(plan) = chosen(plan, those)
  BY DEF changes
<1>3. \A i \in DOMAIN plan : plan[i].action \in {"insert", "update"} <=> i \in those
  OBVIOUS
<1> HIDE DEF those
<1>4. /\ \A k \in DOMAIN chosen(plan, those) :
            \E i \in those : chosen(plan, those)[k] = plan[i]
      /\ \A i \in those : \E k \in DOMAIN chosen(plan, those) :
            chosen(plan, those)[k] = plan[i]
  BY <1>1, ChosenIs
<1> QED  BY <1>1, <1>2, <1>3, <1>4

\* A forced slug apart, what an import writes over an edited row is what it holds.
LEMMA WrittenIsAllowed ==
    ASSUME NEW row, NEW seen, Same(seen, row), NEW record, NEW force,
           importAction(seen, record, force).action \in {"insert", "update"},
           row # None, adminEdited(row)
    PROVE  record.slug \in force \/ record = row.record
<1>1. seen # None /\ seen.record = row.record /\ adminEdited(seen)
  BY DEF Same, adminEdited
<1> QED  BY <1>1 DEF importAction, Plan

\* What the import of a unit neither writes nor refuses is there.
LEMMA SkippedIsThere ==
    ASSUME NEW row, NEW seen, seen = None \/ Same(seen, row), NEW record,
           adminImportAction(seen, record).action \notin {"insert", "update", "conflict"}
    PROVE  Has(row, record)
<1>1. /\ seen # None /\ seen.status # "ARCHIVED" /\ seen.record = record
  BY DEF adminImportAction, Plan
<1> QED  BY <1>1 DEF Same, Has, live

\* After the last table everything that was there is read.
LEMMA AllRead ==
    ASSUME NEW j, NEW table, ReadsOn(j, table), j.pc = "read", j.left = <<>>
    PROVE  \A s \in Slug :
               \/ Same(j.seen[s], table[s])
               \/ Requests[j.request].op = "unitImport" /\ j.seen[s] = None
<1>1. ToSet(<<>>) = {}
  BY DEF ToSet
<1> QED  BY <1>1 DEF ReadsOn, Behind

\* The plan of the files overwrites no edit that is not forced.
LEMMA PlanImports ==
    ASSUME Fields, Blank, NEW p \in Process, Facts(p), ReadsOn(job[p], rows), PlanImport(p)
    PROVE  Importing(job'[p], rows')
<1>0. DOMAIN job[p] = {"pc", "request", "seen", "left",
          "todo", "written", "refused", "against", "built"}
  BY DEF Fields, Idle
<1>1. CASE End(p)
  BY <1>1, EndsNoImport
<1>2. CASE ~End(p)
  <2>1. PICK seeds : seeds = job[p].todo
    OBVIOUS
  <2>2. PICK force : force = Requests[job[p].request].force
    OBVIOUS
  <2>3. PICK plan : plan = planImport(seeds, job[p].seen, force)
    OBVIOUS
  <2>4. PICK todo : todo = changes(plan)
    OBVIOUS
  <2>5. /\ job[p].pc = "read" /\ job[p].left = <<>> /\ rows' = rows
        /\ Requests[job[p].request].op \in {"import", "watch"}
        /\ job'[p].pc = nextStep(p, todo) /\ job'[p].todo = todo
        /\ job'[p].written = job[p].written /\ job'[p].request = job[p].request
    BY <1>0, <1>2, <2>1, <2>2, <2>3, <2>4
       DEF PlanImport, At, Go, Fields, op, request
  <2>6. job'[p].pc \in {"commit", "write"}
    BY <2>5 DEF nextStep, op, request
  <2>7. job'[p].written = <<>>
    BY <2>5 DEF Blank, Beginning
  <2>8. seeds \in Seq(Record)
    BY <2>1, <2>5 DEF Facts, Reading
  <2>9. /\ DOMAIN plan = DOMAIN seeds /\ \E T : plan \in Seq(T)
        /\ \A i \in DOMAIN seeds : plan[i] =
              importAction(job[p].seen[seeds[i].slug], seeds[i], force)
    <3>1. plan \in [DOMAIN seeds -> {plan[i] : i \in DOMAIN seeds}]
      BY <2>3 DEF planImport
    <3>2. DOMAIN seeds = 1 .. Len(seeds) /\ Len(seeds) \in Nat
      BY <2>8
    <3>3. plan \in Seq({plan[i] : i \in DOMAIN seeds})
      BY <3>1, <3>2
    <3> QED  BY <2>3, <3>1, <3>3 DEF planImport
  <2>10. \A row, record : importAction(row, record, force).record = record
    BY DEF importAction, Plan
  <2>11. ASSUME NEW k \in DOMAIN todo PROVE Allowed(rows, force, todo[k].record)
    <3>1. PICK i \in DOMAIN seeds : plan[i].action \in {"insert", "update"} /\ todo[k] = plan[i]
      BY <2>4, <2>9, ChangesAre
    <3>2. PICK record \in Record : record = seeds[i]
      BY <2>8
    <3>3. todo[k].record = record /\ record.slug \in Slug
      BY <2>9, <2>10, <3>1, <3>2, RecordIs
    <3>4. Same(job[p].seen[record.slug], rows[record.slug])
      BY <2>5, <3>3, AllRead
    <3>5. importAction(job[p].seen[record.slug], record, force).action \in {"insert", "update"}
      BY <2>9, <3>1, <3>2
    <3> QED  BY <3>3, <3>4, <3>5, WrittenIsAllowed DEF Allowed
  <2>12. KeepsEdits(job'[p], rows')
    BY <2>2, <2>5, <2>7, <2>11 DEF KeepsEdits
  <2> QED  BY <2>5, <2>6, <2>12 DEF Importing, Watches, ReadsOn, Completes
<1> QED  BY <1>1, <1>2

\* The plan of a unit's file leaves out only what is there already.
LEMMA PlanUnitImports ==
    ASSUME Fields, Blank, NEW p \in Process, Facts(p), ReadsOn(job[p], rows), PlanUnitImport(p)
    PROVE  Importing(job'[p], rows')
<1>0. DOMAIN job[p] = {"pc", "request", "seen", "left",
          "todo", "written", "refused", "against", "built"}
  BY DEF Fields, Idle
<1>1. PICK seeds : seeds = job[p].todo
  OBVIOUS
<1>2. PICK corpus : corpus = Requests[job[p].request].corpus
  OBVIOUS
<1>3. PICK plan : plan = planAdminImport(seeds, job[p].seen)
  OBVIOUS
<1>4. PICK todo : todo = changes(plan)
  OBVIOUS
<1>5. PICK refused : refused = \E i \in DOMAIN plan : plan[i].action = "conflict"
  OBVIOUS
<1>6. /\ job[p].pc = "read" /\ job[p].left = <<>> /\ rows' = rows
      /\ Requests[job[p].request].op = "unitImport"
      /\ job'[p].pc = nextStep(p, todo) /\ job'[p].todo = todo
      /\ job'[p].refused = refused
      /\ job'[p].written = job[p].written /\ job'[p].request = job[p].request
  BY <1>0, <1>1, <1>3, <1>4, <1>5 DEF PlanUnitImport, At, Go, Fields, op, request
<1>7. /\ job'[p].pc \in {"commit", "check"}
      /\ job'[p].pc = "commit" => todo = <<>>
  BY <1>6 DEF nextStep, op, request
<1>8. job'[p].written = <<>>
  BY <1>6 DEF Blank, Beginning
<1>9. job[p].request \in RequestName /\ corpus \in Corpora /\ seeds = toSeedRecords(corpus)
  BY <1>1, <1>2, <1>6 DEF Facts, Asked, Corpora, Asking, ReadsOn
<1>10. /\ seeds \in Seq(corpus)
       /\ \A r \in corpus : \E i \in DOMAIN seeds : seeds[i] = r
       /\ \A r \in corpus : r.slug \in Slug
  BY <1>9, SeedRecordsAre, CorpusIs
<1>11. /\ DOMAIN plan = DOMAIN seeds /\ \E T : plan \in Seq(T)
       /\ \A i \in DOMAIN seeds : plan[i] =
             adminImportAction(job[p].seen[seeds[i].slug], seeds[i])
  <2>1. plan \in [DOMAIN seeds -> {plan[i] : i \in DOMAIN seeds}]
    BY <1>3 DEF planAdminImport
  <2>2. DOMAIN seeds = 1 .. Len(seeds) /\ Len(seeds) \in Nat
    BY <1>10
  <2>3. plan \in Seq({plan[i] : i \in DOMAIN seeds})
    BY <2>1, <2>2
  <2> QED  BY <1>3, <2>1, <2>3 DEF planAdminImport
<1>12. \A row, record : adminImportAction(row, record).record = record
  BY DEF adminImportAction, Plan
<1>13. /\ \A k \in DOMAIN todo : \E i \in DOMAIN seeds : todo[k] = plan[i]
       /\ \A i \in DOMAIN seeds : plan[i].action \in {"insert", "update"} =>
             \E k \in DOMAIN todo : todo[k] = plan[i]
  BY <1>4, <1>11, ChangesAre
<1>14. ASSUME NEW k \in DOMAIN todo PROVE todo[k].record \in corpus
  <2>1. PICK i \in DOMAIN seeds : todo[k] = plan[i]
    BY <1>13
  <2>2. seeds[i] \in corpus
    BY <1>10
  <2> QED  BY <1>11, <1>12, <2>1, <2>2
<1>15. ASSUME ~refused, NEW record \in corpus
       PROVE  ToDo(job'[p], record) \/ Done(job'[p], rows, record)
  <2>1. PICK i \in DOMAIN seeds : seeds[i] = record
    BY <1>10
  <2>2. plan[i] = adminImportAction(job[p].seen[record.slug], record)
    BY <1>11, <2>1
  <2>3. CASE plan[i].action \in {"insert", "update"}
    BY <1>6, <1>12, <1>13, <2>2, <2>3 DEF ToDo
  <2>4. CASE plan[i].action \notin {"insert", "update"}
    <3>1. plan[i].action # "conflict"
      BY <1>5, <1>11, <1>15
    <3>2. job[p].seen[record.slug] = None \/ Same(job[p].seen[record.slug], rows[record.slug])
      BY <1>6, <1>10, AllRead
    <3>3. Has(rows[record.slug], record)
      BY <2>2, <2>4, <3>1, <3>2, SkippedIsThere
    <3> QED  BY <1>8, <1>10, <3>3 DEF Done
  <2> QED  BY <2>3, <2>4
<1>16. Completes(job'[p], rows')
  BY <1>2, <1>6, <1>7, <1>14, <1>15 DEF Completes
<1> QED  BY <1>6, <1>7, <1>16 DEF Importing, Watches, ReadsOn, KeepsEdits

-----------------------------------------------------------------------------
(* Its checks and its writes.                                               *)

\* What a job goes through is what its process was asked for.
LEMMA AskedOf ==
    ASSUME NEW p \in Process
    PROVE  op(p) = Requests[job[p].request].op /\ request(p) = Requests[job[p].request]
BY DEF op, request

\* A check that passes changes nothing of it.
LEMMA CheckedImports ==
    ASSUME Fields, NEW p \in Process, job[p].pc \in {"check", "checkOthers"},
           Importing(job[p], rows), rows' = rows,
           NEW pc \in {"write", "checkOthers"}, Go(p, [job[p] EXCEPT !.pc = pc])
    PROVE  Importing(job'[p], rows')
<1>0. DOMAIN job[p] = {"pc", "request", "seen", "left",
          "todo", "written", "refused", "against", "built"}
  BY DEF Fields, Idle
<1>1. /\ job'[p].pc = pc /\ job'[p].request = job[p].request
      /\ job'[p].todo = job[p].todo /\ job'[p].written = job[p].written
      /\ job'[p].refused = job[p].refused
  BY <1>0 DEF Go, Fields
<1>2. Requests[job[p].request].op \notin {"import", "watch"}
  BY DEF Importing, Watches
<1>3. Completes(job'[p], rows')
  <2>1. \A record : ToDo(job[p], record) => ToDo(job'[p], record)
    BY <1>1 DEF ToDo
  <2>2. \A record : Done(job[p], rows, record) => Done(job'[p], rows', record)
    BY <1>1 DEF Done
  <2> QED  BY <1>1, <2>1, <2>2 DEF Importing, Completes
<1> QED  BY <1>1, <1>2, <1>3 DEF Importing, Watches, ReadsOn, KeepsEdits

\* A record that is refused makes the whole file refused.
LEMMA RefusedImports ==
    ASSUME Fields, NEW p \in Process, job[p].pc \in {"check", "checkOthers"},
           Facts(p), Importing(job[p], rows), rows' = rows, Refuse(p)
    PROVE  Importing(job'[p], rows')
<1>0. DOMAIN job[p] = {"pc", "request", "seen", "left",
          "todo", "written", "refused", "against", "built"}
  BY DEF Fields, Idle
<1>1. CASE op(p) # "unitImport"
  BY <1>1, EndsNoImport DEF Refuse
<1>2. CASE op(p) = "unitImport"
  <2>1. PICK rest : rest = Tail(job[p].todo)
    OBVIOUS
  <2>2. /\ job'[p].pc = nextStep(p, rest) /\ job'[p].request = job[p].request
        /\ job'[p].todo = rest /\ job'[p].refused = TRUE
    BY <1>0, <1>2, <2>1 DEF Refuse, Go, Fields
  <2>3. job'[p].pc \in {"commit", "check"} /\ (job'[p].pc = "commit" => rest = <<>>)
    BY <1>2, <2>2 DEF nextStep
  <2>4. \A i \in DOMAIN rest : i + 1 \in DOMAIN job[p].todo /\ rest[i] = job[p].todo[i + 1]
    BY <2>1, TailIs DEF Facts, Writing, WritingSteps
  <2>5. Completes(job'[p], rows')
    BY <1>2, <2>2, <2>3, <2>4, AskedOf DEF Importing, Completes
  <2> QED  BY <1>2, <2>2, <2>3, <2>5, AskedOf DEF Importing, Watches, ReadsOn, KeepsEdits
<1> QED  BY <1>1, <1>2

\* So every check keeps it.
LEMMA CheckImports ==
    ASSUME Fields, NEW p \in Process, Facts(p), Importing(job[p], rows),
           CheckParent(p) \/ CheckOthers(p)
    PROVE  Importing(job'[p], rows')
<1>1. rows' = rows /\ job[p].pc \in {"check", "checkOthers"}
  BY DEF CheckParent, CheckOthers, At
<1>2. \/ Refuse(p)
      \/ \E pc \in {"write", "checkOthers"} : Go(p, [job[p] EXCEPT !.pc = pc])
  BY DEF CheckParent, CheckOthers
<1> QED  BY <1>1, <1>2, CheckedImports, RefusedImports

\* What a write leaves: the rest to do, and one more row.
Wrote(p, record) ==
    /\ rows' = rows
    /\ job'[p].pc = nextStep(p, Tail(job[p].todo))
    /\ job'[p].request = job[p].request /\ job'[p].refused = job[p].refused
    /\ job'[p].todo = Tail(job[p].todo)
    /\ DOMAIN job'[p].written = DOMAIN job[p].written \union {record.slug}
    /\ \A s \in DOMAIN job'[p].written : job'[p].written[s] =
          IF s = record.slug THEN writeRecord(p, record) ELSE job[p].written[s]

\* A write ends the request, or does that.
LEMMA WriteLeaves ==
    ASSUME Fields, NEW p \in Process, Facts(p), Write(p)
    PROVE  End(p) \/ Wrote(p, Head(job[p].todo).record)
<1>0. DOMAIN job[p] = {"pc", "request", "seen", "left",
          "todo", "written", "refused", "against", "built"}
  BY DEF Fields, Idle
<1>1. CASE dbAccepts(p, Head(job[p].todo))
  <2>1. PICK record : record = Head(job[p].todo).record
    OBVIOUS
  <2>2. PICK written : written = withRow(job[p].written, record.slug, writeRecord(p, record))
    OBVIOUS
  <2>3. /\ rows' = rows /\ job'[p].pc = nextStep(p, Tail(job[p].todo))
        /\ job'[p].request = job[p].request /\ job'[p].refused = job[p].refused
        /\ job'[p].todo = Tail(job[p].todo) /\ job'[p].written = written
    BY <1>0, <1>1, <2>1, <2>2 DEF Write, Go, Fields
  <2> QED  BY <2>1, <2>2, <2>3 DEF Wrote, withRow
<1>2. CASE ~dbAccepts(p, Head(job[p].todo))
  BY <1>2 DEF Write
<1> QED  BY <1>1, <1>2

\* A write of the files' import keeps it.
LEMMA WroteKeepsEdits ==
    ASSUME NEW p \in Process, job[p].pc = "write", Facts(p), KeepsEdits(job[p], rows),
           op(p) \in {"import", "watch"}, Wrote(p, Head(job[p].todo).record)
    PROVE  Importing(job'[p], rows')
<1>1. PICK record : record = Head(job[p].todo).record
  OBVIOUS
<1>2. PICK force : force = Requests[job[p].request].force
  OBVIOUS
<1>3. /\ \A i \in DOMAIN job[p].todo : Allowed(rows, force, job[p].todo[i].record)
      /\ \A s \in DOMAIN job[p].written : Allowed(rows, force, job[p].written[s].record)
  BY <1>2, AskedOf DEF KeepsEdits
<1>4. /\ 1 \in DOMAIN job[p].todo /\ Head(job[p].todo) = job[p].todo[1]
      /\ \A i \in DOMAIN Tail(job[p].todo) :
            i + 1 \in DOMAIN job[p].todo /\ Tail(job[p].todo)[i] = job[p].todo[i + 1]
  BY TailIs DEF Facts, Writing, WritingSteps
<1>5. Allowed(rows, force, record)
  BY <1>1, <1>3, <1>4
<1>6. writeRecord(p, record).record = record
  BY DEF writeRecord
<1>7. ASSUME NEW s \in DOMAIN job'[p].written
      PROVE  Allowed(rows, force, job'[p].written[s].record)
  BY <1>1, <1>3, <1>5, <1>6, <1>7 DEF Wrote
<1>8. ASSUME NEW i \in DOMAIN job'[p].todo
      PROVE  Allowed(rows, force, job'[p].todo[i].record)
  BY <1>3, <1>4, <1>8 DEF Wrote
<1>9. job'[p].request = job[p].request /\ rows' = rows
  BY DEF Wrote
<1>10. KeepsEdits(job'[p], rows')
  BY <1>2, <1>7, <1>8, <1>9 DEF KeepsEdits
<1>11. job'[p].pc \in {"write", "commit"}
  BY DEF Wrote, nextStep
<1> QED  BY <1>9, <1>10, <1>11, AskedOf DEF Importing, Watches, ReadsOn, Completes

\* A write of a unit's import keeps it.
LEMMA WroteCompletes ==
    ASSUME Steady, NEW p \in Process, job[p].pc = "write", Facts(p), Completes(job[p], rows),
           op(p) = "unitImport", Wrote(p, Head(job[p].todo).record)
    PROVE  Importing(job'[p], rows')
<1>1. PICK head : head = Head(job[p].todo).record
  OBVIOUS
<1>2. PICK corpus : corpus = Requests[job[p].request].corpus
  OBVIOUS
<1>3. corpus \in Corpora
  BY <1>2, AskedOf DEF Facts, Asked, Corpora, Asking
<1>4. /\ \A r \in corpus : r.slug \in Slug
      /\ \A a, b \in corpus : a.slug = b.slug => a = b
  BY <1>3, CorpusIs
<1>5. /\ \A i \in DOMAIN job[p].todo : job[p].todo[i].record \in corpus
      /\ ~job[p].refused => \A record \in corpus :
            ToDo(job[p], record) \/ Done(job[p], rows, record)
  BY <1>2, AskedOf DEF Completes
<1>6. /\ 1 \in DOMAIN job[p].todo /\ Head(job[p].todo) = job[p].todo[1]
      /\ job[p].todo # <<>> /\ \E S : job[p].todo \in Seq(S)
      /\ \A i \in DOMAIN Tail(job[p].todo) :
            i + 1 \in DOMAIN job[p].todo /\ Tail(job[p].todo)[i] = job[p].todo[i + 1]
  BY TailIs DEF Facts, Writing, WritingSteps
<1>7. head \in corpus
  BY <1>1, <1>5, <1>6
<1>8. Has(writeRecord(p, head), head)
  <2>1. PICK row : row = writeRecord(p, head)
    OBVIOUS
  <2>2. row.record = head /\ row.status = "DRAFT"
    BY <2>1 DEF writeRecord
  <2>3. head \in Record
    BY <1>1, <1>6 DEF Facts, Writing, WritingSteps
  <2>4. row # None
    <3>1. head.slug \in Slug /\ Sound(view(p))
      BY <2>3, RecordIs, ViewIs DEF Steady
    <3>2. row \in Row
      BY <2>1, <2>3, <3>1 DEF writeRecord, Sound, Row, Statuses
    <3> QED  BY <3>2, RowIsSome
  <2> QED  BY <2>1, <2>2, <2>4 DEF Has, live
<1>9. ASSUME NEW record \in corpus, ToDo(job[p], record) \/ Done(job[p], rows, record)
      PROVE  ToDo(job'[p], record) \/ Done(job'[p], rows', record)
  <2>1. CASE record.slug = head.slug
    <3>1. record = head
      BY <1>4, <1>7, <2>1
    <3> QED  BY <1>1, <1>4, <1>8, <3>1 DEF Wrote, Done
  <2>2. CASE record.slug # head.slug /\ Done(job[p], rows, record)
    BY <1>1, <2>2 DEF Wrote, Done
  <2>3. CASE record.slug # head.slug /\ ToDo(job[p], record)
    <3>1. PICK i \in DOMAIN job[p].todo : job[p].todo[i].record = record
      BY <2>3 DEF ToDo
    <3>2. i # 1
      BY <1>1, <1>6, <2>3, <3>1
    <3>3. i - 1 \in DOMAIN Tail(job[p].todo) /\ Tail(job[p].todo)[i - 1] = job[p].todo[i]
      BY <1>6, <3>2
    <3> QED  BY <3>1, <3>3 DEF Wrote, ToDo
  <2> QED  BY <1>9, <2>1, <2>2, <2>3
<1>10. /\ job'[p].request = job[p].request /\ rows' = rows
       /\ job'[p].refused = job[p].refused /\ job'[p].todo = Tail(job[p].todo)
       /\ job'[p].pc \in {"check", "commit"}
       /\ job'[p].pc = "commit" => job'[p].todo = <<>>
  BY DEF Wrote, nextStep
<1>11. \A i \in DOMAIN job'[p].todo : job'[p].todo[i].record \in corpus
  BY <1>5, <1>6, <1>10
<1>12. Completes(job'[p], rows')
  BY <1>2, <1>5, <1>9, <1>10, <1>11 DEF Completes
<1> QED  BY <1>10, <1>12, AskedOf DEF Importing, Watches, ReadsOn, KeepsEdits

\* So every write keeps it.
LEMMA WriteImports ==
    ASSUME Fields, Steady, NEW p \in Process, Facts(p), Importing(job[p], rows), Write(p)
    PROVE  Importing(job'[p], rows')
<1>1. job[p].pc = "write" /\ KeepsEdits(job[p], rows) /\ Completes(job[p], rows)
  BY DEF Write, At, Importing
<1>2. CASE End(p)
  BY <1>2, EndsNoImport
<1>3. CASE Wrote(p, Head(job[p].todo).record) /\ op(p) \notin Importers
  <2>1. job'[p].pc \notin {"load", "read"} /\ job'[p].request = job[p].request
    BY <1>3 DEF Wrote, nextStep
  <2> QED  BY <1>3, <2>1, AskedOf, NoImport
<1>4. CASE Wrote(p, Head(job[p].todo).record) /\ op(p) \in Importers
  BY <1>1, <1>4, WroteKeepsEdits, WroteCompletes DEF Importers
<1> QED  BY <1>2, <1>3, <1>4, WriteLeaves

-----------------------------------------------------------------------------
(* Every other step, and the two properties.                                *)

\* A handler goes on with its request or ends.
LEMMA GoesOnOrEnds ==
    ASSUME Fields, NEW p \in Process,
           \/ FindForCreate(p) \/ FindForUpdate(p) \/ FindForArchive(p)
           \/ FindForRestore(p) \/ FindParent(p) \/ CheckEmpty(p) \/ SetStatus(p)
           \/ FindChildren(p) \/ Reread(p) \/ RereadPart(p)
    PROVE  job'[p].pc = "idle" \/ job'[p].request = job[p].request
<1>0. DOMAIN job[p] = {"pc", "request", "seen", "left",
          "todo", "written", "refused", "against", "built"}
  BY DEF Fields, Idle
<1>1. ASSUME NEW j, Go(p, j), j.request = job[p].request
      PROVE  job'[p].request = job[p].request
  BY <1>1 DEF Go, Fields
<1>2. End(p) => job'[p].pc = "idle"
  BY DEF End, Go, Fields, Idle
<1>3. CASE FindForCreate(p) \/ FindForUpdate(p) \/ FindForArchive(p)
  BY <1>0, <1>1, <1>2, <1>3 DEF FindForCreate, FindForUpdate, FindForArchive
<1>4. CASE FindForRestore(p) \/ FindParent(p) \/ CheckEmpty(p)
  BY <1>0, <1>1, <1>2, <1>4 DEF FindForRestore, FindParent, CheckEmpty
<1>5. CASE SetStatus(p) \/ FindChildren(p) \/ Reread(p) \/ RereadPart(p)
  BY <1>0, <1>1, <1>2, <1>5 DEF SetStatus, FindChildren, Reread, RereadPart
<1> QED  BY <1>3, <1>4, <1>5

\* Who edits does not import.
LEMMA AdminIsNoImport ==
    ASSUME Fields, NEW p \in Process, Facts(p),
           \/ FindForCreate(p) \/ FindForUpdate(p) \/ FindForArchive(p)
           \/ FindForRestore(p) \/ FindParent(p) \/ CheckEmpty(p) \/ SetStatus(p)
           \/ FindChildren(p) \/ Reread(p) \/ RereadPart(p)
    PROVE  Importing(job'[p], rows')
<1>1. op(p) \notin Importers
  <2> USE DEF Importers, At
  <2>1. CASE FindForCreate(p) \/ FindForUpdate(p) \/ FindForArchive(p)
             \/ FindForRestore(p) \/ FindParent(p)
    BY <2>1 DEF FindForCreate, FindForUpdate, FindForArchive, FindForRestore, FindParent
  <2>2. CASE CheckEmpty(p) \/ SetStatus(p) \/ FindChildren(p)
    BY <2>2 DEF CheckEmpty, SetStatus, FindChildren, Facts, Marking
  <2>3. CASE Reread(p) \/ RereadPart(p)
    BY <2>3 DEF Reread, RereadPart, Facts, Writing, WritingSteps
  <2> QED  BY <2>1, <2>2, <2>3
<1>2. job'[p].pc \notin {"load", "read"}
  BY GoesElsewhere DEF Elsewhere, Beginning
<1>3. CASE job'[p].pc = "idle"
  BY <1>3, NoImport DEF ImportSteps
<1>4. CASE job'[p].request = job[p].request
  BY <1>1, <1>2, <1>4, AskedOf, NoImport
<1> QED  BY <1>3, <1>4, GoesOnOrEnds

\* Serving and publishing.
LEMMA ServesElsewhere ==
    ASSUME Fields, NEW p \in Process,
           \/ Commit(p) \/ TakeLock(p) \/ Validate(p) \/ Flip(p)
           \/ CreateRelease(p) \/ CommitPublish(p) \/ Activate(p) \/ ActivateNone(p)
           \/ DropPointer(p) \/ SendRetired(p) \/ PointerHit(p) \/ PointerMiss(p)
           \/ FillPointer(p) \/ TimeOut(p) \/ Stop(p)
    PROVE  job'[p].pc \notin ImportSteps
<1>0. DOMAIN job[p] = {"pc", "request", "seen", "left",
          "todo", "written", "refused", "against", "built"}
  BY DEF Fields, Idle
<1>1. ASSUME NEW j, Go(p, j), j.pc \notin ImportSteps
      PROVE  job'[p].pc \notin ImportSteps
  BY <1>1 DEF Go, Fields
<1>2. End(p) => job'[p].pc \notin ImportSteps
  BY DEF End, Go, Fields, Idle, ImportSteps
<1> USE DEF ImportSteps
<1>3. CASE Commit(p)
  <2>1. afterCommit(p) \in {"idle", "lock", "pointer"}
    BY DEF afterCommit
  <2> QED  BY <1>1, <1>2, <1>3, <2>1 DEF Commit, Idle
<1>4. CASE TakeLock(p) \/ Validate(p) \/ Flip(p)
  BY <1>0, <1>1, <1>2, <1>4 DEF TakeLock, Validate, Flip
<1>5. CASE CreateRelease(p) \/ CommitPublish(p) \/ Activate(p) \/ ActivateNone(p)
  BY <1>0, <1>1, <1>2, <1>5 DEF CreateRelease, CommitPublish, Activate, ActivateNone
<1>6. CASE DropPointer(p) \/ SendRetired(p) \/ PointerMiss(p) \/ TimeOut(p) \/ Stop(p)
  BY <1>0, <1>1, <1>2, <1>6 DEF DropPointer, SendRetired, PointerMiss, TimeOut, Stop
<1>7. CASE PointerHit(p) \/ FillPointer(p)
  <2>1. \E found : Decide(p, found)
    BY <1>7 DEF PointerHit, FillPointer
  <2> QED  BY <1>1, <1>2, <2>1 DEF Decide, Idle
<1> QED  BY <1>3, <1>4, <1>5, <1>6, <1>7

\* What an import goes on with is still true after its step.
LEMMA OwnImports ==
    ASSUME Fields, Steady, Blank, NEW p \in Process, Facts(p),
           Importing(job[p], rows), StepsAre(p)
    PROVE  Importing(job'[p], rows')
<1>1. Watches(job[p]) /\ ReadsOn(job[p], rows)
  BY DEF Importing
<1>2. CASE \/ FindForCreate(p) \/ FindForUpdate(p) \/ FindForArchive(p)
           \/ FindForRestore(p) \/ FindParent(p) \/ CheckEmpty(p) \/ SetStatus(p)
           \/ FindChildren(p) \/ Reread(p) \/ RereadPart(p)
  BY <1>2, AdminIsNoImport
<1>3. CASE \/ Commit(p) \/ TakeLock(p) \/ Validate(p) \/ Flip(p)
           \/ CreateRelease(p) \/ CommitPublish(p) \/ Activate(p) \/ ActivateNone(p)
           \/ DropPointer(p) \/ SendRetired(p) \/ PointerHit(p) \/ PointerMiss(p)
           \/ FillPointer(p) \/ TimeOut(p) \/ Stop(p)
  BY <1>3, ServesElsewhere, NoImport
<1>4. CASE CheckParent(p) \/ CheckOthers(p) \/ Write(p)
  BY <1>4, CheckImports, WriteImports
<1>5. CASE \/ ReadTable(p) \/ ReadPart(p) \/ LoadContent(p)
           \/ PlanImport(p) \/ PlanUnitImport(p)
  BY <1>1, <1>5, ReadImports, LoadImports, PlanImports, PlanUnitImports
<1>6. CASE \E q \in RequestName : Receive(p, q) \/ CheckForChanges(p, q)
  BY <1>6, ReceiveImports
<1> QED  BY <1>2, <1>3, <1>4, <1>5, <1>6 DEF StepsAre, Quiet

\* What every import knows of the rows is true.
Undisturbed == \A p \in Process : Importing(job[p], rows)

\* Nobody commits while another process imports, unless it publishes.
LEMMA NextUndisturbed ==
    ASSUME Correct, Marked, Blank, NoCommitWhileImporting, Undisturbed, [Next]_vars
    PROVE  Undisturbed'
<1>1. Fields /\ Steady /\ \A p \in Process : Facts(p)
  BY DEF Correct
<1>2. ASSUME NEW p \in Process, StepsAre(p), RowStep(p),
             \A q \in Process \ {p} : job'[q] = job[q], NEW q \in Process
      PROVE  Importing(job'[q], rows')
  <2>1. CASE q = p
    BY <1>1, <1>2, <2>1, OwnImports DEF Undisturbed
  <2>2. CASE q # p
    <3>1. job'[q] = job[q] /\ Importing(job[q], rows)
      BY <1>2, <2>2 DEF Undisturbed
    <3>2. \/ rows' = rows
          \/ job[p].pc = "commit"
          \/ \A s \in Slug : Same(rows[s], rows'[s])
      BY <1>1, <1>2, RowsChange
    <3>3. CASE job[p].pc = "commit"
      <4>1. job[q].pc \notin ImportSteps \ {"load"} \/ op(q) \notin Importers
        BY <2>2, <3>3 DEF NoCommitWhileImporting
      <4>2. CASE job[q].pc = "load"
        BY <3>1, <4>2 DEF Importing, Watches, ReadsOn, KeepsEdits, Completes
      <4>3. CASE job[q].pc \notin ImportSteps
        BY <3>1, <4>3, NoImport
      <4>4. CASE job[q].pc \in ImportSteps \ {"load"} /\ op(q) \notin Importers
        <5>1. job[q].pc # "read"
          BY <3>1, <4>4, AskedOf DEF Importing, ReadsOn
        <5> QED  BY <3>1, <4>4, <5>1, AskedOf, NoImport
      <4> QED  BY <4>1, <4>2, <4>3, <4>4
    <3>4. CASE rows' = rows
      BY <3>1, <3>4
    <3>5. CASE \A s \in Slug : Same(rows[s], rows'[s])
      BY <3>1, <3>5, PublishingKeeps
    <3> QED  BY <3>2, <3>3, <3>4, <3>5
  <2> QED  BY <2>1, <2>2
<1>3. CASE UNCHANGED <<rows, job, releases>>
  BY <1>3 DEF Undisturbed
<1>4. \A q \in Process : Importing(job'[q], rows')
  <2>1. CASE UNCHANGED <<rows, job, releases>>
    BY <2>1 DEF Undisturbed
  <2> QED  BY <1>2, <2>1, NextIs
<1> QED  BY <1>4 DEF Undisturbed

\* At first nobody imports.
LEMMA InitUndisturbed == Init => Undisturbed
<1> SUFFICES ASSUME Init, NEW p \in Process PROVE Importing(job[p], rows)
  BY DEF Undisturbed
<1>1. job[p].pc \notin ImportSteps
  BY StartIs DEF ImportSteps
<1> QED  BY <1>1, NoImport

\* The commit of an import, when it changes anything.
LEMMA CommitIs ==
    ASSUME Correct, Marked, [Next]_vars, rows' # rows,
           NEW p \in Process, At(p, "commit"), job'[p] # job[p]
    PROVE  Commit(p) /\ rows' = view(p)
<1>1. Fields /\ Steady
  BY DEF Correct
<1>2. PICK q \in Process : RowStep(q) /\ \A o \in Process \ {q} : job'[o] = job[o]
  BY NextIs
<1>3. q = p
  BY <1>2
<1>4. job[p].pc = "commit"
  BY DEF At
<1> QED  BY <1>1, <1>2, <1>3, <1>4, RowsChange

\* When nobody else commits an edit or an import between its first read and its
\* commit, the importer keeps what an admin edited, whatever is published, served
\* and given up meanwhile.
THEOREM ImportKeepsEditsHolds == Spec /\ []NoCommitWhileImporting => ImportKeepsEdits
<1>1. ASSUME Correct, Marked, Undisturbed, [Next]_vars, rows' # rows,
             NEW p \in Process, NEW s \in Slug,
             At(p, "commit"), job'[p] # job[p], op(p) \in {"import", "watch"},
             rows[s] # None, adminEdited(rows[s]), s \notin request(p).force
      PROVE  rows'[s] = rows[s] \/ rows'[s].record = rows[s].record
  <2>1. rows' = view(p) /\ job[p].pc = "commit"
    BY <1>1, CommitIs DEF At
  <2>2. CASE s \notin DOMAIN job[p].written
    BY <2>1, <2>2, ViewIs
  <2>3. CASE s \in DOMAIN job[p].written
    <3>1. rows'[s] = job[p].written[s] /\ job[p].written[s].record.slug = s
      BY <1>1, <2>1, <2>3, ViewIs DEF Correct, Steady, Written
    <3>2. Allowed(rows, request(p).force, job[p].written[s].record)
      BY <1>1, <2>1, <2>3, AskedOf DEF Undisturbed, Importing, KeepsEdits
    <3> QED  BY <1>1, <3>1, <3>2 DEF Allowed
  <2> QED  BY <2>2, <2>3
<1>2. Init => Inductive /\ Correct /\ Marked /\ Blank /\ Undisturbed
  BY InitInductive, InitCorrect, InitReleased, InitUndisturbed
<1>3. Inductive /\ Correct /\ Marked /\ Blank /\ Undisturbed /\ NoCommitWhileImporting /\ [Next]_vars
      => Inductive' /\ Correct' /\ Marked' /\ Blank' /\ Undisturbed'
  BY NextInductive, NextCorrect, NextMarked, NextBlank, NextUndisturbed
<1>4. Correct /\ Marked /\ Undisturbed /\ [Next]_vars
      => [\A p \in Process, s \in Slug :
             /\ At(p, "commit") /\ job'[p] # job[p] /\ op(p) \in {"import", "watch"}
             /\ rows[s] # None /\ adminEdited(rows[s])
             /\ s \notin request(p).force
             => rows'[s] = rows[s] \/ (rows'[s].record = rows[s].record)]_rows
  BY <1>1
<1> QED  BY <1>2, <1>3, <1>4, PTL DEF Spec, ImportKeepsEdits

\* Under the same condition the import of a unit is all or nothing.
THEOREM UnitImportIsWholeHolds == Spec /\ []NoCommitWhileImporting => UnitImportIsWhole
<1>1. ASSUME Correct, Marked, Undisturbed, [Next]_vars, rows' # rows,
             NEW p \in Process, At(p, "commit"), job'[p] # job[p], op(p) = "unitImport",
             NEW record \in request(p).corpus
      PROVE  live(rows'[record.slug]) /\ rows'[record.slug].record = record
  <2>1. Commit(p) /\ rows' = view(p) /\ job[p].pc = "commit"
    BY <1>1, CommitIs DEF At
  <2>2. ~job[p].refused
    BY <1>1, <2>1 DEF Commit
  <2>3. /\ job[p].todo = <<>>
        /\ ToDo(job[p], record) \/ Done(job[p], rows, record)
    BY <1>1, <2>1, <2>2, AskedOf DEF Undisturbed, Importing, Completes
  <2>4. Done(job[p], rows, record)
    BY <2>3 DEF ToDo
  <2> QED  BY <2>1, <2>4, ViewIs DEF Done, Has
<1>2. Init => Inductive /\ Correct /\ Marked /\ Blank /\ Undisturbed
  BY InitInductive, InitCorrect, InitReleased, InitUndisturbed
<1>3. Inductive /\ Correct /\ Marked /\ Blank /\ Undisturbed /\ NoCommitWhileImporting /\ [Next]_vars
      => Inductive' /\ Correct' /\ Marked' /\ Blank' /\ Undisturbed'
  BY NextInductive, NextCorrect, NextMarked, NextBlank, NextUndisturbed
<1>4. Correct /\ Marked /\ Undisturbed /\ [Next]_vars
      => [\A p \in Process :
             At(p, "commit") /\ job'[p] # job[p] /\ op(p) = "unitImport" =>
                 \A record \in request(p).corpus :
                     live(rows'[record.slug]) /\ rows'[record.slug].record = record]_rows
  BY <1>1
<1> QED  BY <1>2, <1>3, <1>4, PTL DEF Spec, UnitImportIsWhole

\* With one process, as the run that checks the last four has it, nobody else
\* commits or reads: the conditions of their theorems hold of every state.
LEMMA OneProcessAlone ==
    ASSUME \A p, q \in Process : p = q
    PROVE  NoCommitWhilePublishing /\ NoCommitWhileImporting /\ ReadersApart
<1>1. \A p \in Process : job[p].pc \in LockedSteps => job[p].pc # "commit"
  BY DEF LockedSteps
<1>2. ReadersApart
  BY DEF ReadersApart, At
<1> QED  BY <1>1, <1>2 DEF NoCommitWhilePublishing, NoCommitWhileImporting

=============================================================================
