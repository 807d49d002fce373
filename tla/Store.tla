-------------------------------- MODULE Store --------------------------------
(***************************************************************************)
(* FileEngine and the files under it: the write-ahead log, the metadata     *)
(* file, the snapshot files and the redo journal of a snapshot              *)
(* installation.  An operation is a plan of file writes, each with what the *)
(* engine's memory is once that write has succeeded; a crash or an I/O       *)
(* error can strike at every write, also while the store is being opened.   *)
(***************************************************************************)
EXTENDS Naturals, SequencesExt, FiniteSetsExt, TLC

CONSTANTS
  Command, Voter, Nil,
  Closed, Refused,  \* no engine is open; open refused the directory
  CommitOnAppend,   \* commit_on_append: the single-node command line
  CompactLog,       \* compact_log
  SnapshotEvery,    \* snapshot_every: 0 disables automatic snapshots
  MaxIndex, MaxTerm, MaxFaults,   \* bounds
  MaxOffer,         \* bound: the longest snapshot a leader offers, 0 for none
  MaxDamage         \* bound: damaged snapshot files at a time

ASSUME StoreAssumption ==
  /\ CommitOnAppend \in BOOLEAN /\ CompactLog \in BOOLEAN
  /\ {SnapshotEvery, MaxIndex, MaxTerm, MaxFaults, MaxOffer, MaxDamage} \subseteq Nat

VARIABLES
  disk,      \* the node directory
  mem,       \* the engine, or Closed, or Refused
  todo,      \* the writes the current operation still has to make
  faults     \* crashes and errors so far, for the bound

vars == <<disk, mem, todo, faults>>

\* An application state is the sequence of the entries applied to it.
Entry == [term : 1 .. MaxTerm, command : Command]
TermOf(state) == IF state = <<>> THEN 1 ELSE Last(state).term
Record(i, e) == [index |-> i, term |-> e.term, command |-> e.command]
Entries(wal) == [k \in DOMAIN wal |-> [term |-> wal[k].term, command |-> wal[k].command]]

-----------------------------------------------------------------------------
(* The directory. *)

\* loose[f] holds the content a crash can bring back when the directory
\* entry of a renamed or removed file was never synced; <<>> when it cannot.
Firm == [f \in {"meta", "wal", "txn", "snaps"} |-> <<>>]

Empty ==
  [wal |-> <<>>, torn |-> FALSE, meta |-> [term |-> 1, vote |-> Nil, commit |-> 0],
   snaps |-> <<>>, txn |-> Nil, loose |-> Firm]

\* sync_directory reaches the entries of the node directory, not those of
\* its snapshots folder.
SyncDirectory(d) == [d EXCEPT !.loose = [Firm EXCEPT !.snaps = d.loose.snaps]]

Kept(d, keep) == {i \in DOMAIN d.snaps : Cardinality({j \in DOMAIN d.snaps : j > i}) < keep}

File(w) ==
  CASE w.op \in {"meta", "wal"} -> w.op
    [] w.op \in {"journal", "clear"} -> "txn"
    [] w.op = "snapshot" -> "snaps"

\* The visible content of the file a write replaces.
Put(d, w) ==
  CASE w.op = "append"   -> [d EXCEPT !.wal = Append(@, w.record)]
    [] w.op = "truncate" -> [d EXCEPT !.wal = w.wal]
    [] w.op = "cut"      -> [d EXCEPT !.torn = FALSE]
    [] w.op = "wal"      -> [d EXCEPT !.wal = w.wal, !.torn = FALSE]
    [] w.op = "meta"     -> [d EXCEPT !.meta = w.meta]
    [] w.op = "snapshot" -> [d EXCEPT !.snaps =
                               (Len(w.state) :> [state |-> w.state, ok |-> TRUE]) @@ @]
    [] w.op = "journal"  -> [d EXCEPT !.txn = w.txn]
    [] w.op = "clear"    -> [d EXCEPT !.txn = Nil]
    [] w.op \in {"sync", "prune"} -> d

\* write_atomic stopped after the rename and before the directory sync.
Renamed(d, w) == [Put(d, w) EXCEPT !.loose[File(w)] = <<d[File(w)]>>]

\* What a write that succeeds can leave.  Removing old snapshots is best
\* effort, so any of the excess may stay.
Done(d, w) ==
  CASE w.op \in {"append", "truncate", "cut"} -> {Put(d, w)}
    [] w.op = "clear" -> {Renamed(d, w)}
    [] w.op \in {"sync", "meta", "wal", "journal"} -> {SyncDirectory(Put(d, w))}
    [] w.op = "snapshot" -> {[Put(d, w) EXCEPT !.loose = Firm]}
    [] w.op = "prune" ->
         {[d EXCEPT !.snaps = Restrict(@, kept)] :
            kept \in {k \in SUBSET DOMAIN d.snaps : Kept(d, w.keep) \subseteq k}}

\* What a write that fails can leave.  A short append is a torn tail.
Failed(d, w) ==
  CASE w.op = "append" -> {d, [d EXCEPT !.torn = TRUE], Put(d, w)}
    [] w.op \in {"truncate", "cut"} -> {d, Put(d, w)}
    [] w.op \in {"meta", "wal", "journal", "clear", "snapshot"} -> {d, Renamed(d, w)}
    [] w.op \in {"sync", "prune"} -> {d}

\* A crash may undo what is loose, file by file.
Survivors(d) ==
  {[[f \in DOMAIN d |-> IF f \in back THEN d.loose[f][1] ELSE d[f]] EXCEPT !.loose = Firm] :
     back \in SUBSET {f \in DOMAIN Firm : d.loose[f] # <<>>}}

-----------------------------------------------------------------------------
(* FileEngine::open. *)

\* Fault: the journal is removed before the log has been replaced.
EagerRedoPlan(txn) ==
  <<[op |-> "snapshot", state |-> txn.snapshot], [op |-> "meta", meta |-> txn.meta],
    [op |-> "clear"], [op |-> "sync"], [op |-> "wal", wal |-> txn.wal]>>

\* The journal, once it is there, decides: every replacement is made again.
RedoPlan(txn) ==
  <<[op |-> "snapshot", state |-> txn.snapshot], [op |-> "meta", meta |-> txn.meta],
    [op |-> "wal", wal |-> txn.wal], [op |-> "clear"], [op |-> "sync"]>>

Redone(d) ==
  IF d.txn = Nil THEN d
  ELSE [d EXCEPT !.snaps = (Len(d.txn.snapshot) :> [state |-> d.txn.snapshot, ok |-> TRUE]) @@ @,
                 !.meta = d.txn.meta, !.wal = d.txn.wal, !.torn = FALSE, !.txn = Nil]

\* load_latest_snapshot: the newest file that verifies; <<>> when none does.
LatestSnapshot(d) ==
  LET valid == {i \in DOMAIN d.snaps : d.snaps[i].ok}
  IN IF valid = {} THEN <<>> ELSE d.snaps[Max(valid)].state

Contiguous(wal) == \A k \in DOMAIN wal : wal[k].index = wal[1].index + k - 1

LogEntry(wal, i) ==
  IF wal = <<>> \/ i < wal[1].index \/ i > Last(wal).index THEN Nil
  ELSE wal[i - wal[1].index + 1]

\* The snapshot recovery starts from: one beyond the commit index is not used.
Base(d) ==
  LET s == LatestSnapshot(d)
  IN IF CommitOnAppend \/ Len(s) <= d.meta.commit THEN s ELSE <<>>

\* A log that ends before the snapshot is obsolete and is emptied.
Obsolete(d) == Base(d) # <<>> /\ d.wal # <<>> /\ Last(d.wal).index < Len(Base(d))

RetainedWal(d) == IF Obsolete(d) THEN <<>> ELSE d.wal

Replayed(d) ==
  Base(d) \o Entries(SelectSeq(RetainedWal(d), LAMBDA r :
                       r.index > Len(Base(d)) /\ (CommitOnAppend \/ r.index <= d.meta.commit)))

\* The checks open makes, each of which refuses the directory.
Recoverable(d) ==
  LET base == Base(d)
      anchor == LogEntry(RetainedWal(d), Len(base))
  IN /\ Contiguous(d.wal)
     /\ base = <<>> /\ d.wal # <<>> => d.wal[1].index = 1
     /\ Obsolete(d) => d.meta.commit = Len(base) /\ d.meta.term >= TermOf(base)
     /\ base # <<>> /\ RetainedWal(d) # <<>> => d.wal[1].index <= Len(base) + 1
     /\ base # <<>> /\ anchor # Nil => anchor.term = TermOf(base)
     /\ Len(Replayed(d)) >= d.meta.commit

\* On a single node every record in the log is committed.
RaisedMeta(d) ==
  IF ~CommitOnAppend THEN d.meta
  ELSE [d.meta EXCEPT !.commit = Len(Replayed(d)),
                      !.term = Max({@, TermOf(Replayed(d))})]

Engine(d) ==
  [wal |-> RetainedWal(d), state |-> Replayed(d), commit |-> RaisedMeta(d).commit,
   snap |-> Base(d), required |-> FALSE, opened |-> RaisedMeta(d).commit]

\* A plan is a sequence of writes, with the memory after each.
Plan(writes, m) == [k \in DOMAIN writes |-> [write |-> writes[k], mem |-> m]]
When(condition, plan) == IF condition THEN plan ELSE <<>>

\* Fault: what an earlier error left loose is not synced before new writes.
SettleNothing == <<[op |-> "cut"]>>

\* A removal or rename whose sync failed is made durable before anything else.
Settle == <<[op |-> "sync"]>>

OpenWrites(d, r) ==
  Settle
    \o When(d.txn # Nil, IF d.txn = Nil THEN <<>> ELSE RedoPlan(d.txn))
    \o When(d.torn /\ d.txn = Nil, <<[op |-> "cut"]>>)
    \o When(Recoverable(r) /\ Obsolete(r), <<[op |-> "wal", wal |-> <<>>]>>)
    \o When(Recoverable(r) /\ RaisedMeta(r) # r.meta, <<[op |-> "meta", meta |-> RaisedMeta(r)]>>)

OpenPlan(d) ==
  LET r == Redone(d)
      writes == OpenWrites(d, r)
      last == Len(writes)
  IN [Plan(writes, Closed) EXCEPT ![last].mem = IF Recoverable(r) THEN Engine(r) ELSE Refused]

Open ==
  /\ todo = <<>>
  /\ mem \in {Closed, Refused}
  /\ todo' = OpenPlan(disk)
  /\ mem' = Closed
  /\ UNCHANGED <<disk, faults>>

-----------------------------------------------------------------------------
(* The operations of an open store. *)

IsOpen == mem \notin {Closed, Refused}

\* require_writable_unlocked, under the mutex.
Writable == todo = <<>> /\ IsOpen /\ (IsOpen => ~mem.required)

Begin(plan) == todo' = plan /\ UNCHANGED <<disk, mem, faults>>

\* Without a log the applied index stands for the last one.
LastLogIndex(m) == IF m.wal = <<>> THEN Len(m.state) ELSE Last(m.wal).index

\* compact_unlocked keeps the record at the anchor.
CompactPlan(m, anchor) ==
  IF m.wal = <<>> \/ m.wal[1].index >= anchor \/ anchor > Last(m.wal).index THEN <<>>
  ELSE LET kept == SelectSeq(m.wal, LAMBDA r : r.index >= anchor)
       IN Plan(<<[op |-> "wal", wal |-> kept]>>, [m EXCEPT !.wal = kept])

\* take_snapshot_unlocked: save, prune to two, and compact back to the
\* fallback once there is one.
TakeSnapshot(d, m) ==
  LET saved == [m EXCEPT !.snap = m.state]
      files == Kept([d EXCEPT !.snaps = (Len(m.state) :> Nil) @@ @], 2)
  IN Plan(<<[op |-> "snapshot", state |-> m.state]>>, saved)
       \o Plan(<<[op |-> "prune", keep |-> 2]>>, saved)
       \o When(CompactLog /\ Cardinality(files) = 2, CompactPlan(saved, Min(files)))

\* maybe_snapshot_unlocked compares periods, so that a commit that jumps
\* over a multiple still takes its snapshot.
SnapshotDue(m) ==
  SnapshotEvery # 0 /\ Len(m.state) \div SnapshotEvery > Len(m.snap) \div SnapshotEvery

MaybeSnapshot(d, m) == When(SnapshotDue(m), TakeSnapshot(d, m))

\* Fault: the engine shows the new state before the metadata is written.
ShowFirst(meta, published) ==
  Plan(<<[op |-> "sync"], [op |-> "meta", meta |-> meta]>>, published)

\* The metadata is written before the engine shows the new state.
Show(meta, published) == Plan(<<[op |-> "meta", meta |-> meta]>>, published)

PublishPlan(d, m, index) ==
  LET batch == Entries(SelectSeq(m.wal, LAMBDA r : r.index > m.commit /\ r.index <= index))
      state == m.state \o batch
      published == [m EXCEPT !.state = state, !.commit = index]
      meta == [d.meta EXCEPT !.commit = index, !.term = Max({@, TermOf(state)})]
  IN Show(meta, published) \o MaybeSnapshot(d, published)

AppendPlan(m, e) ==
  LET record == Record(LastLogIndex(m) + 1, e)
  IN Plan(<<[op |-> "append", record |-> record]>>, [m EXCEPT !.wal = Append(@, record)])

\* submit: a new command of the single node, in the state's own term.
Submit(c) ==
  /\ CommitOnAppend /\ Writable
  /\ LastLogIndex(mem) < MaxIndex
  /\ LET appended == AppendPlan(mem, [term |-> TermOf(mem.state), command |-> c])
     IN Begin(appended \o PublishPlan(disk, appended[1].mem, LastLogIndex(mem) + 1))

AppendEvent(e) ==
  /\ ~CommitOnAppend /\ Writable
  /\ LastLogIndex(mem) < MaxIndex
  /\ Begin(AppendPlan(mem, e))

TruncatePlan(m, index) ==
  LET kept == SelectSeq(m.wal, LAMBDA r : r.index <= index)
  IN Plan(<<[op |-> "truncate", wal |-> kept]>>, [m EXCEPT !.wal = kept])

TruncateAfter(index) ==
  /\ ~CommitOnAppend /\ Writable
  /\ index >= mem.commit
  /\ Begin(TruncatePlan(mem, index))

\* A commit below the current one is accepted and does nothing; one the log
\* does not hold is refused.
CommitThrough(index) ==
  /\ ~CommitOnAppend /\ Writable
  /\ index >= mem.commit
  /\ index > mem.commit => LogEntry(mem.wal, index) # Nil
  /\ Begin(PublishPlan(disk, mem, index))

ConsensusPlan(d, m, t, v) ==
  Plan(<<[op |-> "meta", meta |-> [d.meta EXCEPT !.term = t, !.vote = v]]>>, m)

PersistConsensus(t, v) ==
  /\ ~CommitOnAppend /\ Writable
  /\ t >= disk.meta.term
  /\ Begin(ConsensusPlan(disk, mem, t, v))

\* The suffix beyond a snapshot is kept, with the snapshot's own record, when
\* the log agrees with the snapshot there.
InstalledWal(m, s) ==
  LET anchor == LogEntry(m.wal, Len(s))
  IN IF anchor # Nil /\ (anchor # Nil => anchor.term = Last(s).term)
     THEN SelectSeq(m.wal, LAMBDA r : r.index >= Len(s))
     ELSE <<>>

\* commit_snapshot_transaction: the decision is durable first.
Journal(txn) == <<[op |-> "sync"], [op |-> "journal", txn |-> txn], [op |-> "sync"]>>

InstallPlan(d, m, s) ==
  LET txn == [snapshot |-> s, wal |-> InstalledWal(m, s),
              meta |-> [d.meta EXCEPT !.commit = Len(s), !.term = Max({@, TermOf(s)})]]
      replaced == [m EXCEPT !.wal = txn.wal, !.state = s, !.snap = s, !.commit = Len(s)]
      writes == Journal(txn) \o RedoPlan(txn)
  IN [Plan(writes, m) EXCEPT ![Len(writes)].mem = replaced]
       \o Plan(<<[op |-> "prune", keep |-> 1]>>, replaced)

InstallSnapshot(s) ==
  /\ ~CommitOnAppend /\ Writable
  /\ Len(s) > mem.commit
  /\ Begin(InstallPlan(disk, mem, s))

\* Called by FileEngineAdapter::checkpoint only, whose engine takes no
\* snapshots of its own (snapshot_every = 0).
DiscardCompactedPrefix ==
  /\ SnapshotEvery = 0 /\ Writable
  /\ mem.snap # <<>>
  /\ LET plan == CompactPlan(mem, Len(mem.snap)) IN plan # <<>> /\ Begin(plan)

Checkpoint ==
  /\ Writable
  /\ Len(mem.state) > 0
  /\ Begin(TakeSnapshot(disk, mem))

-----------------------------------------------------------------------------
(* Writes, errors, crashes and damage. *)

Write ==
  /\ todo # <<>>
  /\ disk' \in Done(disk, Head(todo).write)
  /\ mem' = Head(todo).mem
  /\ todo' = Tail(todo)
  /\ UNCHANGED faults

\* An error ends the operation; only a reopen makes the store writable again.
Fail ==
  /\ todo # <<>> /\ faults < MaxFaults
  /\ disk' \in Failed(disk, Head(todo).write)
  /\ mem' = IF IsOpen THEN [mem EXCEPT !.required = TRUE] ELSE Closed
  /\ todo' = <<>>
  /\ faults' = faults + 1

\* A store that failed, or any other, is closed without a crash.
Close ==
  /\ todo = <<>> /\ IsOpen
  /\ mem' = Closed
  /\ UNCHANGED <<disk, todo, faults>>

Crash ==
  /\ faults < MaxFaults
  /\ disk' \in UNION {Survivors(d) :
       d \in {disk} \cup (IF todo = <<>> THEN {} ELSE
               Done(disk, Head(todo).write) \cup Failed(disk, Head(todo).write))}
  /\ mem' = Closed
  /\ todo' = <<>>
  /\ faults' = faults + 1

\* The newest snapshot is damaged while the store is closed.
Damage ==
  /\ mem = Closed /\ todo = <<>>
  /\ DOMAIN disk.snaps # {}
  /\ Cardinality({i \in DOMAIN disk.snaps : ~disk.snaps[i].ok}) < MaxDamage
  /\ disk' = [disk EXCEPT !.snaps[Max(DOMAIN disk.snaps)].ok = FALSE]
  /\ UNCHANGED <<mem, todo, faults>>

-----------------------------------------------------------------------------
(* What the directory stands for: the log it recovers to when everything    *)
(* loose is lost and a pending journal is redone.                            *)

Durable(d) ==
  Redone([[f \in DOMAIN d |-> IF f \in DOMAIN Firm /\ d.loose[f] # <<>> THEN d.loose[f][1] ELSE d[f]]
            EXCEPT !.loose = Firm])

FullLog(d) ==
  LET s == IF DOMAIN d.snaps = {} THEN <<>> ELSE d.snaps[Max(DOMAIN d.snaps)].state
  IN s \o Entries(SelectSeq(d.wal, LAMBDA r : r.index > Len(s)))

\* The log the open engine works with.
Working(m) == m.state \o Entries(SelectSeq(m.wal, LAMBDA r : r.index > Len(m.state)))

Agree(s, log) ==
  \A k \in DOMAIN s \cap DOMAIN log :
    s[k].term = log[k].term => SubSeq(s, 1, k) = SubSeq(log, 1, k)

\* Snapshots come from a leader, whose log agrees with this one wherever they
\* hold an entry of one term at one index.
Offered(m) ==
  {s \in UNION {[1 .. k -> Entry] : k \in (m.commit + 1) .. MaxOffer} :
     /\ SubSeq(s, 1, m.commit) = m.state
     /\ \A k \in 1 .. Len(s) - 1 : s[k].term <= s[k + 1].term
     /\ Agree(s, Working(m))}

\* Where snapshots are installed: what an older version left when it stopped
\* between the metadata and the log; the snapshot covers the whole log.
LegacyInstall ==
  LET e == [term |-> 1, command |-> CHOOSE c \in Command : TRUE]
  IN [Empty EXCEPT !.wal = <<Record(1, e)>>, !.meta.commit = 2,
                   !.snaps = 2 :> [state |-> <<e, e>>, ok |-> TRUE]]

Init ==
  /\ disk = Empty \/ (MaxOffer > 0 /\ disk = LegacyInstall)
  /\ mem = Closed
  /\ todo = <<>>
  /\ faults = 0

Next ==
  \/ Open \/ Write \/ Fail \/ Close \/ Crash \/ Damage
  \/ \E c \in Command : Submit(c)
  \/ Writable /\ \E e \in Entry :
       TermOf(Working(mem)) <= e.term /\ e.term <= disk.meta.term /\ AppendEvent(e)
  \/ \E i \in 0 .. MaxIndex : TruncateAfter(i) \/ CommitThrough(i)
  \/ \E t \in 1 .. MaxTerm, v \in Voter \cup {Nil} : PersistConsensus(t, v)
  \/ Writable /\ \E s \in Offered(mem) : InstallSnapshot(s)
  \/ DiscardCompactedPrefix
  \/ Checkpoint

Spec == Init /\ [][Next]_vars

-----------------------------------------------------------------------------
(* Properties. *)

\* Every directory that crashes, errors and interrupted recoveries can leave
\* behind is one that FileEngine::open accepts, as long as no file is damaged.
Reopens == mem # Refused

\* Nothing is shown before it is durable: what the engine reports as
\* committed and applied is a prefix of what a crash at this very moment
\* would recover to, also after an error and with a damaged snapshot.
ShownIsDurable ==
  LET d == Durable(disk)
  IN IsOpen =>
       /\ Len(mem.state) = mem.commit
       /\ mem.commit <= d.meta.commit
       /\ mem.state = SubSeq(FullLog(d), 1, mem.commit)

\* Whenever two snapshot files are kept, the store would still open if the
\* newest one were found damaged: the log reaches back to the fallback.
FallbackJoins ==
  LET damaged == [disk EXCEPT !.snaps[Max(DOMAIN disk.snaps)].ok = FALSE]
  IN Writable /\ Cardinality(DOMAIN disk.snaps) > 1 => Recoverable(damaged)

\* Written with a bound variable, which TLC evaluates once, also when primed.
Held ==
  CHOOSE h \in {[term |-> d.meta.term, vote |-> d.meta.vote, commit |-> d.meta.commit,
                 log |-> FullLog(d)] : d \in {Durable(disk)}} : TRUE

Promise == INSTANCE DurableLog WITH held <- Held, NoVote <- Nil

\* The directory implements the durable log across every fault, under
\* FileEngine alone as under the adapter.
ImplementsDurableLog == Promise!Spec

===============================================================================
