------------------------------- MODULE ImportPlans -------------------------------
(***************************************************************************)
(* What a write does to the rows of the working copy, decided before it    *)
(* writes: planImport (src/src/content-import/content-import.logic.ts),    *)
(* planAdminImport (src/src/admin-path/admin-import.logic.ts) and          *)
(* planReorder (admin-reorder.logic.ts).                                   *)
(*                                                                         *)
(* A row is [record, seed, status].  contentHash and seedHash are          *)
(* SHA-256 sums of canonical JSON, only ever compared for equality: the    *)
(* record stands for the first, the record the last import wrote (None for *)
(* none) for the second.                                                   *)
(***************************************************************************)
EXTENDS ReleaseLogic

Statuses == {"DRAFT", "PUBLISHED", "ARCHIVED"}

live(row) == row # None /\ row.status # "ARCHIVED"

rowOrigin(row) == IF row.seed = None THEN "admin"
                  ELSE IF row.record = row.seed THEN "seed" ELSE "edited"

adminEdited(row) == row.record # row.seed

-----------------------------------------------------------------------------
(* planImport: one action and its reason for each record of the seed.       *)

Plan(action, reason, record) ==
    [action |-> action, reason |-> reason, record |-> record]

\* Mutant: a record whose seed moved on is written over an admin's edit.
importActionSeedWins(row, record, force) ==
    IF row = None THEN Plan("insert", "new", record)
    ELSE IF record = row.record
         THEN IF row.seed = record THEN Plan("skip", "unchanged", record)
                                   ELSE Plan("update", "adopt", record)
    ELSE IF record = row.seed /\ record.slug \notin force
         THEN Plan("skip", "admin-edit-kept", record)
    ELSE Plan("update", "seed-changed", record)

importAction(row, record, force) ==
    CASE row = None -> Plan("insert", "new", record)
      [] row # None /\ record = row.record /\ row.seed = record ->
            Plan("skip", "unchanged", record)
      [] row # None /\ record = row.record /\ row.seed # record ->
            Plan("update", "adopt", record)
      [] row # None /\ record # row.record /\ ~adminEdited(row) ->
            Plan("update", "seed-changed", record)
      [] OTHER ->
            IF record.slug \in force THEN Plan("update", "forced", record)
            ELSE IF record = row.seed THEN Plan("skip", "admin-edit-kept", record)
            ELSE Plan("conflict", "admin-edited", record)

planImport(seeds, rows, force) ==
    [i \in DOMAIN seeds |-> importAction(rows[seeds[i].slug], seeds[i], force)]

\* The elements of a sequence at some of its positions, in its order.
chosen(seq, positions) ==
    LET at == sorted(positions, <) IN [k \in DOMAIN at |-> seq[at[k]]]

changes(plan) ==
    chosen(plan, {i \in DOMAIN plan : plan[i].action \in {"insert", "update"}})

-----------------------------------------------------------------------------
(* planAdminImport: the file wins over what is there, but for rows that are *)
(* archived or another unit's.                                              *)

adminImportAction(row, record) ==
    IF row = None THEN Plan("insert", "new", record)
    ELSE IF record.kind # "unit" /\ row.record.unit # record.unit
         THEN Plan("conflict", "other-unit", record)
    ELSE IF row.status = "ARCHIVED" THEN Plan("conflict", "archived", record)
    ELSE IF row.record = record THEN Plan("skip", "unchanged", record)
    ELSE Plan("update", IF adminEdited(row) THEN "replaces-edit" ELSE "changed",
              record)

planAdminImport(seeds, rows) ==
    [i \in DOMAIN seeds |-> adminImportAction(rows[seeds[i].slug], seeds[i])]

-----------------------------------------------------------------------------
(* planReorder: "current" holds the live children, "slugs" the order asked  *)
(* for.  The children keep the positions they hold, handed out anew.        *)

reorderOk(current, slugs) ==
    /\ Cardinality(ToSet(slugs)) = Len(slugs)
    /\ ToSet(slugs) = {r.slug : r \in current}

\* Mutant: the positions are handed out from 1, whatever they were.
newOrderFromOne(current, slugs) ==
    [i \in DOMAIN slugs |-> i]

\* Mutant: the positions are numbered from 0.
newOrderFromZero(current, slugs) ==
    [i \in DOMAIN slugs |-> i - 1]

newOrder(current, slugs) ==
    LET positions == sorted({r.order : r \in current}, <)
    IN  IF Len(positions) = Len(slugs) THEN positions
        ELSE [i \in DOMAIN slugs |-> i]

\* The rows that move, with their new order.
planReorder(current, slugs) ==
    LET order == newOrder(current, slugs)
    IN  chosen([i \in DOMAIN slugs |-> [slug |-> slugs[i], order |-> order[i]]],
               {i \in DOMAIN slugs : \A r \in current :
                    r.slug = slugs[i] => r.order # order[i]})
=============================================================================
