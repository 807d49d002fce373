----------------------------- MODULE MCAdapter -----------------------------
(* Instances of Adapter and, under other engine options, of Store for TLC.    *)
EXTENDS Adapter

VARIABLE setting   \* which of them moves; never changes

\* A replica's engine with snapshots and compaction; the same with a snapshot
\* file that may be damaged; and the single-node command line.
Cluster == INSTANCE Store WITH
  CompactLog <- TRUE, SnapshotEvery <- 2, MaxIndex <- 3, MaxOffer <- 3
Damaged == INSTANCE Store WITH
  CompactLog <- TRUE, SnapshotEvery <- 2, MaxIndex <- 5, MaxTerm <- 1, MaxFaults <- 1,
  MaxOffer <- 0, MaxDamage <- 1
Local == INSTANCE Store WITH
  CommitOnAppend <- TRUE, SnapshotEvery <- 2, MaxIndex <- 4, MaxTerm <- 1, MaxFaults <- 3,
  MaxOffer <- 0

Settings ==
  /\ AdapterInit
  /\ setting \in {"adapter", "cluster", "damaged", "local"}
  /\ setting \in {"damaged", "local"} => disk = Empty

NextInSetting ==
  /\ UNCHANGED setting
  /\ \/ setting = "adapter" /\ AdapterNext
     \/ setting = "cluster" /\ Cluster!Next /\ UNCHANGED adapterVars
     \/ setting = "damaged" /\ Damaged!Next /\ UNCHANGED adapterVars
     \/ setting = "local" /\ Local!Next /\ UNCHANGED adapterVars

SettingsSpec == Settings /\ [][NextInSetting]_<<allVars, setting>>

===============================================================================
