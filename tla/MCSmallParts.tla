---------------------------- MODULE MCSmallParts ----------------------------
(* Small instances, for TLC, of parts of the program that share nothing with    *)
(* each other: `part` says which one a behaviour is about, and the variables of *)
(* the others stay as they are.                                                  *)
EXTENDS RingBuffer, SlidingWindow, MCStreamFraming, ConfigSnapshots, SchemaMigration,
        ListenerRows

\* What the theorem about FramesAreTheMessages assumes.
ASSUME MessagesAssumption == (\A f \in Rules : Sendable(f)) /\ \A c, d \in Clients : c = d

VARIABLE part

allVars == <<vars, windowVars, streamVars, snapshotVars, migrationVars, row, part>>

\* What the parts a behaviour is not about are left at.
SomeStream == StreamInit /\ rule = FixedLength
SomeTable == MigrationInit /\ table["old"] = NoTable
             /\ \A c \in Columns : table["new"][c] = [old |-> Absent, new |-> Unset]

PartsInit ==
  /\ Init /\ WindowInit /\ SnapshotsInit /\ RowInit
  /\ part \in {"ring", "rates", "stream", "snapshots", "migration", "rows"}
  /\ IF part = "stream" THEN StreamInit ELSE SomeStream
  /\ IF part = "migration" THEN MigrationInit ELSE SomeTable

PartsNext ==
  /\ \/ /\ part = "ring" /\ Next
        /\ UNCHANGED <<windowVars, streamVars, snapshotVars, migrationVars, row>>
     \/ /\ part = "rates" /\ WindowNext
        /\ UNCHANGED <<vars, streamVars, snapshotVars, migrationVars, row>>
     \/ /\ part = "stream" /\ StreamNext
        /\ UNCHANGED <<vars, windowVars, snapshotVars, migrationVars, row>>
     \/ /\ part = "snapshots" /\ SnapshotsNext
        /\ UNCHANGED <<vars, windowVars, streamVars, migrationVars, row>>
     \/ /\ part = "migration" /\ MigrationNext
        /\ UNCHANGED <<vars, windowVars, streamVars, snapshotVars, row>>
     \/ /\ part = "rows" /\ RowNext
        /\ UNCHANGED <<vars, windowVars, streamVars, snapshotVars, migrationVars>>
  /\ UNCHANGED part

PartsSpec == PartsInit /\ [][PartsNext]_allVars

Symmetry == Permutations(ConnNames) \cup Permutations(Recorders)
=============================================================================
