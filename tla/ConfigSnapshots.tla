-------------------------- MODULE ConfigSnapshots --------------------------
(***************************************************************************)
(* Snapshots of the configuration (app/api/config_snapshot.go): Create     *)
(* reads one table after another, Restore replaces their rows in one       *)
(* transaction and does not tell the manager, so that what was running     *)
(* runs on under the keys it had.                                          *)
(*                                                                         *)
(* Parents and connections are modelled.  Rows of dispatchers and chains   *)
(* are treated like those of connections without a parent; scripts keep    *)
(* their key.  All rows are enabled, and each of the other requests is one *)
(* step: how these interleave is the subject of Connections.               *)
(***************************************************************************)
EXTENDS Naturals, Sequences, FiniteSets, Functions

CONSTANTS
  ParentNames,  \* the content of a row of a parent,
  ConnNames,    \* and of a connection
  MaxParents,   \* bounds: keys handed out
  MaxConns,
  Unsaved       \* there is no snapshot

NoParent == 0   \* the parent_id of a connection of its own

\* Tables by key, and what a snapshot holds of them.
Partial(S, T) == UNION {[R -> T] : R \in SUBSET S}
ConnContent == [name : ConnNames, parent : 0 .. MaxParents]
ParentRows == Partial(1 .. MaxParents, ParentNames)
ConnRows == Partial(1 .. MaxConns, ConnContent)
Saved == [parents : ParentRows, conns : ConnRows]

ASSUME SnapshotsAssumption ==
  MaxParents \in Nat /\ MaxConns \in Nat /\ Unsaved \notin Saved \cup ParentRows

VARIABLES
  parentTable,  \* listener_parent: key -> name
  connTable,    \* listener_conn: key -> [name, parent]
  lastParent,   \* the keys handed out last: the columns are auto-increment
  lastConn,
  parentRuns,   \* keys of m.parents
  connRuns,     \* m.listeners and m.cancels: key -> the row it was started with
  snapshot,     \* the row of config_snapshot, or Unsaved
  reading,      \* Create: what its first query has found, or Unsaved
  newParents,   \* history: parents created after a Create had read the parents and
                \* before it read the connections
  lostParents,  \* history: parents whose rows a Restore has deleted, or whose
                \* children it has put back
  restored      \* history: nothing has happened since a Restore, none of whose
                \* statements failed

tables == <<parentTable, connTable, lastParent, lastConn>>
runtime == <<parentRuns, connRuns>>
snapshotVars == <<tables, runtime, snapshot, reading, newParents, lostParents, restored>>

SnapshotsTypeOK ==
  /\ parentTable \in ParentRows
  /\ connTable \in ConnRows
  /\ lastParent \in 0 .. MaxParents /\ lastConn \in 0 .. MaxConns
  /\ parentRuns \subseteq 1 .. MaxParents
  /\ connRuns \in ConnRows
  /\ snapshot = Unsaved \/ snapshot \in Saved
  /\ reading = Unsaved \/ reading \in ParentRows
  /\ newParents \subseteq 1 .. MaxParents /\ lostParents \subseteq 1 .. MaxParents
  /\ restored \in BOOLEAN

Nothing == [k \in {} |-> 0]

SnapshotsInit ==
  /\ parentTable = Nothing /\ connTable = Nothing
  /\ lastParent = 0 /\ lastConn = 0
  /\ parentRuns = {} /\ connRuns = Nothing
  /\ snapshot = Unsaved /\ reading = Unsaved
  /\ newParents = {} /\ lostParents = {}
  /\ restored = FALSE

\* f with value v at k, and f without the keys of K.
With(f, k, v) == [x \in DOMAIN f \cup {k} |-> IF x = k THEN v ELSE f[x]]
Without(f, K) == Restrict(f, DOMAIN f \ K)
-----------------------------------------------------------------------------
\* The other requests

CreateListenerParent(name) ==
  /\ lastParent < MaxParents
  /\ lastParent' = lastParent + 1
  /\ parentTable' = With(parentTable, lastParent + 1, name)
  /\ parentRuns' = parentRuns \cup {lastParent + 1}
  /\ newParents' = IF reading = Unsaved THEN newParents ELSE newParents \cup {lastParent + 1}
  /\ restored' = FALSE
  /\ UNCHANGED <<connTable, lastConn, connRuns, snapshot, reading, lostParents>>

Children(p) == {c \in DOMAIN connTable : connTable[c].parent = p}

\* The children are those the table names.
DeleteListenerParent(p) ==
  /\ parentTable' = Without(parentTable, {p})
  /\ connTable' = Without(connTable, Children(p))
  /\ parentRuns' = parentRuns \ {p}
  /\ connRuns' = Without(connRuns, Children(p))
  /\ restored' = FALSE
  /\ UNCHANGED <<lastParent, lastConn, snapshot, reading, newParents, lostParents>>

\* StartConn does not start a child without its parent.
Started(c, row) ==
  IF row.parent = NoParent \/ row.parent \in parentRuns
  THEN With(connRuns, c, row) ELSE Without(connRuns, {c})

\* A form offers the parents of the table.
CreateListenerConn(name, p) ==
  /\ lastConn < MaxConns
  /\ p \in DOMAIN parentTable \cup {NoParent}
  /\ LET row == [name |-> name, parent |-> p]
     IN  /\ connTable' = With(connTable, lastConn + 1, row)
         /\ connRuns' = Started(lastConn + 1, row)
  /\ lastConn' = lastConn + 1
  /\ restored' = FALSE
  /\ UNCHANGED <<parentTable, lastParent, parentRuns, snapshot, reading, newParents, lostParents>>

\* Stopped, and started with what the request says, also when there is no such row.
UpdateListenerConn(c, name) ==
  /\ c \in DOMAIN connTable \cup DOMAIN connRuns
  /\ LET old == IF c \in DOMAIN connTable THEN connTable[c] ELSE connRuns[c]
         row == [old EXCEPT !.name = name]
     IN  /\ connTable' = IF c \in DOMAIN connTable THEN With(connTable, c, row) ELSE connTable
         /\ connRuns' = Started(c, row)
  /\ restored' = FALSE
  /\ UNCHANGED <<parentTable, lastParent, lastConn, parentRuns, snapshot, reading, newParents,
                 lostParents>>

DeleteListenerConn(c) ==
  /\ c \in DOMAIN connTable \cup DOMAIN connRuns
  /\ connTable' = Without(connTable, {c})
  /\ connRuns' = Without(connRuns, {c})
  /\ restored' = FALSE
  /\ UNCHANGED <<parentTable, lastParent, lastConn, parentRuns, snapshot, reading, newParents,
                 lostParents>>

\* The program ends and starts again: parents first, then connections.
Restart ==
  /\ parentRuns' = DOMAIN parentTable
  /\ connRuns' = Restrict(connTable,
       {c \in DOMAIN connTable : connTable[c].parent \in {NoParent} \cup DOMAIN parentTable})
  /\ reading' = Unsaved
  /\ restored' = FALSE
  /\ UNCHANGED <<tables, snapshot, newParents, lostParents>>
-----------------------------------------------------------------------------
\* Snapshots

\* Mutant: the connections are read first.
Create_ConnsFirst ==
  \/ /\ reading = Unsaved
     /\ reading' = connTable
     /\ UNCHANGED snapshot
  \/ /\ reading # Unsaved
     /\ snapshot' = [parents |-> parentTable, conns |-> reading]
     /\ reading' = Unsaved

\* Two of the queries of Create; the row is made of what they have found.
Create ==
  \/ /\ reading = Unsaved
     /\ reading' = parentTable
     /\ UNCHANGED snapshot
  \/ /\ reading # Unsaved
     /\ snapshot' = [parents |-> reading, conns |-> connTable]
     /\ reading' = Unsaved

CreateSnapshot == Create /\ UNCHANGED <<tables, runtime, newParents, lostParents, restored>>

\* The k-th smallest member of S is inserted as the k-th.
Place(S, x) == Cardinality({y \in S : y <= x})

\* Mutant: rows are inserted with the ID they had.
Inserted_SameID(table, rows, last) ==
  [k \in DOMAIN table \cup DOMAIN rows |-> IF k \in DOMAIN rows THEN rows[k] ELSE table[k]]

\* Rows inserted with ID 0 get new keys, in the order they are listed in.
Inserted(table, rows, last) ==
  [k \in DOMAIN table \cup {last + Place(DOMAIN rows, x) : x \in DOMAIN rows} |->
     IF k \in DOMAIN table THEN table[k]
     ELSE rows[CHOOSE x \in DOMAIN rows : last + Place(DOMAIN rows, x) = k]]

\* Restore, as others see it once it is committed.  The errors of its statements are
\* not looked at: rows may stay or be missing.
Restore ==
  /\ snapshot # Unsaved
  /\ \E parents \in SUBSET DOMAIN snapshot.parents, conns \in SUBSET DOMAIN snapshot.conns,
        keptParents \in {{}, DOMAIN parentTable}, keptConns \in {{}, DOMAIN connTable} :
       /\ lastParent + Cardinality(parents) <= MaxParents
       /\ lastConn + Cardinality(conns) <= MaxConns
       /\ parentTable' = Inserted(Restrict(parentTable, keptParents),
                                  Restrict(snapshot.parents, parents), lastParent)
       /\ connTable' = Inserted(Restrict(connTable, keptConns),
                                Restrict(snapshot.conns, conns), lastConn)
       /\ lastParent' = lastParent + Cardinality(parents)
       /\ lastConn' = lastConn + Cardinality(conns)
       /\ lostParents' = lostParents \cup (DOMAIN parentTable \ keptParents)
                         \cup ({snapshot.conns[c].parent : c \in conns} \ {NoParent})
       /\ restored' = (/\ parents = DOMAIN snapshot.parents /\ conns = DOMAIN snapshot.conns
                       /\ keptParents = {} /\ keptConns = {})
  /\ newParents' = IF reading = Unsaved THEN newParents
                    ELSE newParents \cup (lastParent + 1 .. lastParent')
  /\ UNCHANGED <<runtime, snapshot, reading>>

SnapshotsNext ==
  \/ \E name \in ParentNames : CreateListenerParent(name)
  \/ \E p \in DOMAIN parentTable : DeleteListenerParent(p)
  \/ \E name \in ConnNames, p \in 0 .. MaxParents : CreateListenerConn(name, p)
  \/ \E c \in 1 .. MaxConns :
       (\E name \in ConnNames : UpdateListenerConn(c, name)) \/ DeleteListenerConn(c)
  \/ Restart \/ CreateSnapshot \/ Restore

SnapshotsSpec == SnapshotsInit /\ [][SnapshotsNext]_snapshotVars
-----------------------------------------------------------------------------
\* Restore gives rows new keys and the manager goes by keys: what runs under the key
\* of a row runs what the row says, although nothing was stopped.
RunsWhatItsRowSays ==
  \A c \in DOMAIN connRuns \cap DOMAIN connTable : connRuns[c] = connTable[c]

\* Create reads the tables without a transaction, the parents first: a child it saves
\* without its parent belongs to one that was created meanwhile, or a Restore had
\* parted the two before.
TornByNewParentsOnly ==
  snapshot # Unsaved =>
    \A c \in DOMAIN snapshot.conns :
      snapshot.conns[c].parent \in
        {NoParent} \cup DOMAIN snapshot.parents \cup newParents \cup lostParents

\* What the rows of tables say of parents and children, the keys apart.
Tree(parents, conns) ==
  [parents |-> {parents[p] : p \in DOMAIN parents},
   conns |-> {[name |-> conns[c].name, alone |-> conns[c].parent = NoParent,
               under |-> {parents[p] : p \in DOMAIN parents \cap {conns[c].parent}}] :
              c \in DOMAIN conns}]

\* PROJECT_CONTEXT.md:339, "rollback": once a snapshot is restored, with no statement
\* failing, the configuration is the one it was taken of.
RestoreGivesItBack ==
  restored => Tree(parentTable, connTable) = Tree(snapshot.parents, snapshot.conns)
=============================================================================
