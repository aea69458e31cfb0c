----------------------------- MODULE BulkInsert -----------------------------
(***************************************************************************)
(* BulkInsert, "to use when using UPSERT", next to UnnestInsert, which the *)
(* refresh uses for its upsert: a slice of objects becomes one INSERT with *)
(* an ON CONFLICT clause, and the rows it returns are scanned back into    *)
(* the slice.  As operators, applied to the counts a job is about to write *)
(* and to the cache it finds.                                              *)
(***************************************************************************)
EXTENDS PackageCache, SequencesExt

\* The clauses parseClause can render; updates is the list of DoUpdates.
DoNothing == [doNothing |-> TRUE]
DoUpdates(columns) == [doNothing |-> FALSE, updates |-> columns]

-----------------------------------------------------------------------------
(* The statement                                                           *)

(***************************************************************************)
(* The fields of PackageAccountData, with what objectToMap asks of them.   *)
(***************************************************************************)
Plain(name) ==
    [name |-> name, DBName |-> name, PrimaryKey |-> FALSE,
     settings |-> {}, HasDefaultValue |-> FALSE]

Key(name) == [Plain(name) EXCEPT !.PrimaryKey = TRUE]

Schema ==
    {Key("AccID"), Key("PkgNameID"), Plain("SysInstalled"),
     Plain("SysInstallable"), Plain("SysApplicable")}

\* Relations, ignored fields, defaults of the database and blank ids.
Skipped(field) ==
    \/ "FOREIGNKEY" \in field.settings
    \/ "-" \in field.settings
    \/ field.HasDefaultValue /\ "DEFAULT" \in field.settings
    \/ field.DBName = "id" /\ field.PrimaryKey

Columns(schema) == { f.name : f \in { g \in schema : ~Skipped(g) } }

objectToMap(schema, object) == [c \in Columns(schema) |-> object[c]]

\* One group of values per object, with the columns of the first.
statementFromObjects(objects, clause) ==
    [groups |-> [i \in DOMAIN objects |-> objectToMap(Schema, objects[i])],
     clause |-> clause]

-----------------------------------------------------------------------------
(* Its execution: the rows of a table and the ones returned so far         *)

Found(table, group) == { r \in table : CacheKey(r) = CacheKey(group) }

Overwritten(row, group, columns) ==
    [c \in DOMAIN row |-> IF c \in columns THEN group[c] ELSE row[c]]

\* INSERT of one group; with DO NOTHING a row that is there is not returned.
InsertGroup(state, group, clause) ==
    LET found == Found(state.table, group)
        row == IF found = {} THEN group
               ELSE Overwritten(CHOOSE r \in found : TRUE, group,
                                clause.updates)
    IN  IF clause.doNothing /\ found # {} THEN state
        ELSE [table |-> (state.table \ found) \cup {row},
              returned |-> Append(state.returned, row)]

\* The groups are inserted in their order.
Executed(table, statement) ==
    LET groups == statement.groups
        state[n \in 0..Len(groups)] ==
            IF n = 0 THEN [table |-> table, returned |-> <<>>]
            ELSE InsertGroup(state[n - 1], groups[n], statement.clause)
    IN  state[Len(groups)]

\* The i-th returned row is scanned into the i-th object.
ScannedLate(objects, returned) ==
    [i \in DOMAIN objects |->
       IF i - 1 \in DOMAIN returned THEN returned[i - 1] ELSE objects[i]]

Scanned(objects, returned) ==
    [i \in DOMAIN objects |->
       IF i \in DOMAIN returned THEN returned[i] ELSE objects[i]]

\* No objects, no statement.
bulkExec(table, objects, clause) ==
    IF objects = <<>> THEN [table |-> table, objects |-> objects]
    ELSE LET result == Executed(table, statementFromObjects(objects, clause))
         IN  [table |-> result.table,
              objects |-> Scanned(objects, result.returned)]

-----------------------------------------------------------------------------
(* Properties                                                              *)

Values == {"SysInstalled", "SysInstallable", "SysApplicable"}

(***************************************************************************)
(* With ON CONFLICT DO UPDATE of the counts, BulkInsert has the effect of  *)
(* UnnestInsert on whatever cache a refresh finds, in whatever order the   *)
(* counts come, and every object is the row it stands for afterwards; with *)
(* DO NOTHING an object may hold the row of another one, but only if a row *)
(* before it was there already.                                            *)
(***************************************************************************)
UpsertIs(table, objects) ==
    bulkExec(table, objects, DoUpdates(Values)) =
        [table |-> UnnestInsert(table, ToSet(objects)), objects |-> objects]

OwnRows(table, objects) ==
    LET after == bulkExec(table, objects, DoNothing).objects
    IN  \A i \in DOMAIN objects :
           (\A k \in 1..i : Found(table, objects[k]) = {}) =>
               after[i] = objects[i]

BulkInsertUpserts ==
    \A j \in Jobs : pc[j] = "upsert" =>
        \A objects \in SetToSeqs(pkgSysCounts[j]) :
            /\ UpsertIs(package_account_data, objects)
            /\ OwnRows(package_account_data, objects)

=============================================================================
