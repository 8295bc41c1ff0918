-------------------------- MODULE SchemaMigration --------------------------
(***************************************************************************)
(* The migration of a MySQL database from the table and column names of    *)
(* old versions (app/common/common.go), which runs whenever the program    *)
(* starts, before Manager.Start adds what is missing.  No statement is     *)
(* undone when another fails, and the program may stop between any two.    *)
(*                                                                         *)
(* Tables do not depend on each other: one of them is modelled, with a row.*)
(***************************************************************************)
EXTENDS Naturals, FiniteSets

CONSTANTS
  Columns,  \* of legacyColumnRenames for this table, with an old and a new name each
  CellValues, \* of a cell
  Blanks,   \* those that are NULL, '' or 0 to MySQL
  Unset,    \* what a column that is added holds
  Absent,   \* there is no such column
  NoTable,  \* there is no such table
  MaxBoots  \* bound: starts of the program

Ages == {"old", "new"}

Cells == [Columns -> [Ages -> CellValues \cup {Absent}]]

ASSUME MigrationAssumption ==
  /\ Blanks \subseteq CellValues /\ Unset \in Blanks /\ Absent \notin CellValues
  /\ NoTable \notin Cells
  /\ MaxBoots \in Nat

VARIABLES
  table,    \* age of a table's name -> its row, the cells of old and new columns, or NoTable
  boot,     \* "down", "rename", "columns", "each column", "sync" or "up"
  boots,    \* number of starts
  seen,     \* the names of each column the loop has not looked at yet
  dropping, \* the columns whose old cell has been copied and is still there
  failed,   \* history: a statement has failed in this start
  apart,    \* history: Sync has made a second table while the first had its old name
  expected, \* history: what the row that the old version left should hold, by what the
            \* program has written to it since, in columns that are not in `unsure`
  unsure    \* history: columns that could not be copied, or were blanked by the program
            \* while they had two names

migrationVars == <<table, boot, boots, seen, dropping, failed, apart, expected, unsure>>

MigrationTypeOK ==
  /\ table \in [Ages -> Cells \cup {NoTable}]
  /\ boot \in {"down", "rename", "columns", "each column", "sync", "up"}
  /\ boots \in 0 .. MaxBoots
  /\ seen \in [Columns -> SUBSET Ages]
  /\ dropping \subseteq Columns /\ unsure \subseteq Columns
  /\ failed \in BOOLEAN /\ apart \in BOOLEAN
  /\ expected \in [Columns -> CellValues]

EmptyTable == [c \in Columns |-> [old |-> Absent, new |-> Unset]]

NothingSeen == [c \in Columns |-> {}]

\* A cell that has a value under both names counts by the new one.
Meant(cell) ==
  IF cell["new"] = Absent \/ (cell["new"] \in Blanks /\ cell["old"] # Absent)
  THEN cell["old"] ELSE cell["new"]

\* The database an old version has left: its table under either name, and each column
\* under one name or both.
MigrationInit ==
  \E age \in Ages, cells \in Cells :
    /\ \A c \in Columns : \E a \in Ages : cells[c][a] # Absent
    /\ table = [a \in Ages |-> IF a = age THEN cells ELSE NoTable]
    /\ boot = "down" /\ boots = 0
    /\ seen = NothingSeen /\ dropping = {}
    /\ failed = FALSE /\ apart = FALSE /\ unsure = {}
    /\ expected = [c \in Columns |-> Meant(cells[c])]

Boot ==
  /\ boot = "down" /\ boots < MaxBoots
  /\ boot' = "rename" /\ boots' = boots + 1
  /\ failed' = FALSE
  /\ UNCHANGED <<table, seen, dropping, expected, unsure, apart>>

\* The program ends, whatever it has been doing.
Crash ==
  /\ boot # "down"
  /\ boot' = "down"
  /\ seen' = NothingSeen /\ dropping' = {}
  /\ UNCHANGED <<table, boots, failed, expected, unsure, apart>>

\* RENAME TABLE, unless there is a table of the new name.
RenameTable ==
  /\ boot = "rename"
  /\ boot' = "columns"
  /\ \/ /\ table["old"] = NoTable \/ table["new"] # NoTable
        /\ UNCHANGED <<table, failed>>
     \/ /\ table["old"] # NoTable /\ table["new"] = NoTable
        /\ \/ /\ table' = [old |-> NoTable, new |-> table["old"]]
              /\ UNCHANGED failed
           \/ /\ failed' = TRUE
              /\ UNCHANGED table
  /\ UNCHANGED <<boots, seen, dropping, expected, unsure, apart>>

NamesOf(c) == {a \in Ages : table["new"][c][a] # Absent}

\* SHOW COLUMNS of a table that exists; the loop leaves it alone when that fails.
ShowColumns ==
  /\ boot = "columns"
  /\ \/ /\ table["new"] # NoTable
        /\ seen' = [c \in Columns |-> NamesOf(c)]
        /\ boot' = "each column"
        /\ UNCHANGED failed
     \/ /\ boot' = "sync"
        /\ failed' = (failed \/ table["new"] # NoTable)
        /\ UNCHANGED seen
  /\ UNCHANGED <<table, boots, dropping, expected, unsure, apart>>

\* One round of the loop over the columns is done with c.
LookedAt(c) == seen' = [seen EXCEPT ![c] = {}]

SetCell(c, cell) == table' = [table EXCEPT !["new"][c] = cell]

\* ALTER TABLE ... CHANGE.
RenameColumn(c) ==
  /\ boot = "each column" /\ dropping = {}
  /\ seen[c] = {"old"}
  /\ LookedAt(c)
  /\ \/ /\ SetCell(c, [old |-> Absent, new |-> table["new"][c]["old"]])
        /\ UNCHANGED failed
     \/ /\ failed' = TRUE
        /\ UNCHANGED table
  /\ UNCHANGED <<boot, boots, dropping, expected, unsure, apart>>

\* Mutant: the UPDATE has no condition.
CopyColumn_All(c) ==
  /\ boot = "each column" /\ dropping = {}
  /\ seen[c] = Ages
  /\ dropping' = {c}
  /\ SetCell(c, [table["new"][c] EXCEPT !["new"] = table["new"][c]["old"]])
  /\ UNCHANGED <<boot, boots, seen, failed, expected, unsure, apart>>

\* The UPDATE of what is blank under the new name.  The old column is dropped next,
\* also when the UPDATE has failed.
CopyColumn(c) ==
  /\ boot = "each column" /\ dropping = {}
  /\ seen[c] = Ages
  /\ dropping' = {c}
  /\ \/ /\ SetCell(c, [table["new"][c] EXCEPT !["new"] = Meant(table["new"][c])])
        /\ UNCHANGED <<failed, unsure>>
     \/ /\ failed' = TRUE /\ unsure' = unsure \cup {c}
        /\ UNCHANGED table
  /\ UNCHANGED <<boot, boots, seen, expected, apart>>

DropColumn(c) ==
  /\ dropping = {c}
  /\ dropping' = {}
  /\ LookedAt(c)
  /\ \/ /\ SetCell(c, [table["new"][c] EXCEPT !["old"] = Absent])
        /\ UNCHANGED failed
     \/ /\ failed' = TRUE
        /\ UNCHANGED table
  /\ UNCHANGED <<boot, boots, expected, unsure, apart>>

\* Mutant: the loop ends at the first column without an old name.
ColumnsDone_Break ==
  /\ boot = "each column" /\ dropping = {}
  /\ \E c \in Columns : "old" \notin seen[c]
  /\ boot' = "sync" /\ seen' = NothingSeen
  /\ UNCHANGED <<table, boots, dropping, failed, expected, unsure, apart>>

ColumnsDone ==
  /\ boot = "each column" /\ dropping = {}
  /\ \A c \in Columns : "old" \notin seen[c]
  /\ boot' = "sync" /\ seen' = NothingSeen
  /\ UNCHANGED <<table, boots, dropping, failed, expected, unsure, apart>>

\* A table to which those of `adds` it misses are added, or a new one.
Synced(cells, adds) ==
  IF cells = NoTable THEN EmptyTable
  ELSE [c \in Columns |->
         [cells[c] EXCEPT !["new"] = IF c \in adds /\ @ = Absent THEN Unset ELSE @]]

\* Sync2 of Manager.Start adds the table and the columns that are missing.  An error is
\* logged, whatever has been added by then, and the program starts.
Sync ==
  /\ boot = "sync"
  /\ boot' = "up"
  /\ \/ /\ table' = [table EXCEPT !["new"] = Synced(@, Columns)]
        /\ UNCHANGED failed
     \/ /\ \E adds \in SUBSET Columns : table' = [table EXCEPT !["new"] = Synced(@, adds)]
        /\ failed' = TRUE
     \/ /\ table["new"] = NoTable /\ failed' = TRUE
        /\ UNCHANGED table
  /\ apart' = (apart \/ (table["old"] # NoTable /\ table'["new"] # NoTable))
  /\ UNCHANGED <<boots, seen, dropping, expected, unsure>>

\* The program writes a column of its row, which is not the old version's when that has
\* been left in a table of the old name.
WriteCell(c, v) ==
  /\ boot = "up" /\ table["new"] # NoTable /\ table["new"][c]["new"] # Absent
  /\ SetCell(c, [table["new"][c] EXCEPT !["new"] = v])
  /\ expected' = IF table["old"] = NoTable THEN [expected EXCEPT ![c] = v] ELSE expected
  /\ unsure' = IF v \in Blanks /\ table["new"][c]["old"] # Absent
               THEN unsure \cup {c} ELSE unsure
  /\ UNCHANGED <<boot, boots, seen, dropping, failed, apart>>

MigrationNext ==
  \/ Boot \/ Crash \/ RenameTable \/ ShowColumns \/ ColumnsDone \/ Sync
  \/ \E c \in Columns : RenameColumn(c) \/ CopyColumn(c) \/ DropColumn(c)
  \/ \E c \in Columns, v \in CellValues : WriteCell(c, v)

MigrationSpec == MigrationInit /\ [][MigrationNext]_migrationVars
-----------------------------------------------------------------------------
\* common.go:168: the row an old version left keeps its values, in the table of the old
\* name for as long as there is one, and then in that of the new name, wherever a start
\* was interrupted and whatever statement failed before, except for columns whose UPDATE
\* failed (common.go:222 drops them all the same) and for those the program has blanked
\* since (the old value comes back).
NoValueLost ==
  \A c \in Columns \ unsure :
    Meant(table[IF table["old"] # NoTable THEN "old" ELSE "new"][c]) = expected[c]

\* A start none of whose statements fail leaves nothing under an old name, unless one
\* before it could not rename the table and yet came to Sync2, which made a second one:
\* the two stay apart for good (common.go:178).
OneStartIsEnough ==
  boot = "up" /\ ~failed =>
    /\ table["old"] # NoTable => apart
    /\ \A c \in Columns : table["new"][c]["old"] = Absent
=============================================================================
