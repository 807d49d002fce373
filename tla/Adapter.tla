------------------------------- MODULE Adapter -------------------------------
(***************************************************************************)
(* FileEngineAdapter under RuntimeHost::persist: a write of the transition  *)
(* core becomes a sequence of FileEngine calls, the adapter keeps a cached   *)
(* projection of what is on disk, and any failure makes that projection      *)
(* uncertain until the directory has been recovered.                        *)
(***************************************************************************)
EXTENDS Store

VARIABLES
  current,    \* the projection the adapter reports, Nil before the first recovery
  uncertain,  \* the projection may differ from the disk
  calls,      \* the FileEngine calls the current operation still has to make
  write       \* the core's last write: what it started from and its target

adapterVars == <<current, uncertain, calls, write>>
allVars == <<vars, adapterVars>>

-----------------------------------------------------------------------------
(* The projection: the durable state of the transition core. *)

\* audit_recovered_domain_store on an engine m and its metadata.
Audit(meta, m) ==
  [term |-> meta.term, votedFor |-> meta.vote, commit |-> meta.commit, applied |-> Len(m.state),
   snapshot |-> m.snap,
   log |-> Entries(SelectSeq(m.wal, LAMBDA r : r.index > Len(m.snap)))]

\* What the audit insists on.
Auditable(d, m) ==
  /\ d.txn = Nil
  /\ d.meta.commit = m.commit
  /\ Contiguous(m.wal)
  /\ \A k \in DOMAIN m.wal :
       /\ m.wal[k].term <= d.meta.term
       /\ k > 1 => m.wal[k - 1].term <= m.wal[k].term
       /\ m.snap # <<>> /\ m.wal[k].index <= Len(m.snap) => m.wal[k].term <= TermOf(m.snap)
       /\ m.snap # <<>> /\ m.wal[k].index = Len(m.snap) => m.wal[k].term = TermOf(m.snap)
  /\ m.state = m.snap \o Entries(SelectSeq(m.wal, LAMBDA r :
                                   r.index > Len(m.snap) /\ r.index <= m.commit))

\* What recovering the directory now would report.
Recovers == LET d == Durable(disk) IN Audit(d.meta, Engine(d))

\* The cluster model's account of an interrupted write.
Core == INSTANCE Disk WITH Server <- Voter, MaxEntries <- MaxIndex

Common(a, b) ==
  Max({k \in 0 .. Len(a) : k <= Len(b) /\ SubSeq(a, 1, k) = SubSeq(b, 1, k)})

-----------------------------------------------------------------------------
(* Operations. *)

Idle == calls = <<>> /\ todo = <<>>
Ready == Idle /\ ~uncertain

Start(kind, target, sequence) ==
  /\ calls' = sequence
  /\ write' = [from |-> current, kind |-> kind, target |-> target]
  /\ UNCHANGED vars

\* Fault: the entries are appended before the vote is written.
DeltaCallsVoteLast(keep, target) ==
  LET entries == SubSeq(target.log, keep - Len(target.snapshot) + 1, Len(target.log))
  IN When(keep < LastLogIndex(mem), <<[op |-> "truncate", index |-> keep]>>)
       \o [k \in DOMAIN entries |-> [op |-> "append", entry |-> entries[k]]]
       \o <<[op |-> "consensus", term |-> target.term, vote |-> target.votedFor]>>
       \o When(target.commit > current.commit, <<[op |-> "commit", index |-> target.commit]>>)
       \o <<[op |-> "adopt", current |-> target]>>

\* persist_delta: metadata if it changed, cut, append, commit; the projection
\* is then advanced from the request and not read back.
DeltaCalls(keep, target) ==
  LET entries == SubSeq(target.log, keep - Len(target.snapshot) + 1, Len(target.log))
  IN When(target.term # current.term \/ target.votedFor # current.votedFor,
          <<[op |-> "consensus", term |-> target.term, vote |-> target.votedFor]>>)
       \o When(keep < LastLogIndex(mem), <<[op |-> "truncate", index |-> keep]>>)
       \o [k \in DOMAIN entries |-> [op |-> "append", entry |-> entries[k]]]
       \o When(target.commit > current.commit, <<[op |-> "commit", index |-> target.commit]>>)
       \o <<[op |-> "adopt", current |-> target]>>

KeepsVote(t, v) ==
  /\ t >= current.term
  /\ t = current.term /\ current.votedFor # Nil => v = current.votedFor

\* What persist_delta accepts of a target.
ValidDelta(target) ==
  LET keep == Len(current.snapshot) + Common(current.log, target.log)
      full == target.snapshot \o target.log
  IN /\ KeepsVote(target.term, target.votedFor)
     /\ target.snapshot = current.snapshot
     /\ current.commit <= keep
     /\ current.commit <= target.commit /\ target.commit <= Len(full)
     /\ \A k \in DOMAIN full : full[k].term <= target.term
     /\ \A k \in 1 .. Len(full) - 1 : full[k].term <= full[k + 1].term

\* RuntimeHost::persist of an ordinary update.
PersistDelta(target) ==
  /\ Ready
  /\ target # current /\ ValidDelta(target)
  /\ Start("StateUpdate", target,
           DeltaCalls(Len(current.snapshot) + Common(current.log, target.log), target))
  /\ UNCHANGED <<current, uncertain>>

\* checkpoint: snapshot the applied state and drop the log below it.
CheckpointAll ==
  /\ Ready /\ current.commit > 0
  /\ Start("LocalCompaction",
           [current EXCEPT !.snapshot = mem.state,
                           !.log = SubSeq(@, current.commit - Len(current.snapshot) + 1, Len(@))],
           <<[op |-> "checkpoint"], [op |-> "discard"], [op |-> "audit"]>>)
  /\ uncertain' = TRUE
  /\ UNCHANGED current

Install(s, t, v) ==
  /\ Ready
  /\ Len(s) > current.commit /\ TermOf(s) <= t /\ KeepsVote(t, v)
  /\ Start("SnapshotInstall",
           [term |-> t, votedFor |-> v, commit |-> Len(s), applied |-> Len(s), snapshot |-> s,
            log |-> Entries(SelectSeq(InstalledWal(mem, s), LAMBDA r : r.index > Len(s)))],
           When(t # current.term \/ v # current.votedFor,
                <<[op |-> "consensus", term |-> t, vote |-> v]>>)
             \o <<[op |-> "install", snapshot |-> s], [op |-> "audit"]>>)
  /\ uncertain' = TRUE
  /\ UNCHANGED current

\* recover: the store is closed and opened again from disk.
Recover ==
  /\ Idle
  /\ uncertain
  /\ mem' = Closed
  /\ todo' = OpenPlan(disk)
  /\ calls' = <<[op |-> "audit"]>>
  /\ UNCHANGED <<disk, faults, current, uncertain, write>>

-----------------------------------------------------------------------------
(* Carrying an operation out. *)

CallPlan(c) ==
  CASE c.op = "consensus"  -> ConsensusPlan(disk, mem, c.term, c.vote)
    [] c.op = "truncate"   -> TruncatePlan(mem, c.index)
    [] c.op = "append"     -> AppendPlan(mem, c.entry)
    [] c.op = "commit"     -> PublishPlan(disk, mem, c.index)
    [] c.op = "checkpoint" -> TakeSnapshot(disk, mem)
    [] c.op = "discard"    -> CompactPlan(mem, Len(mem.snap))
    [] c.op = "install"    -> InstallPlan(disk, mem, c.snapshot)

Call ==
  /\ todo = <<>> /\ calls # <<>>
  /\ Head(calls).op \notin {"audit", "adopt"}
  /\ todo' = CallPlan(Head(calls))
  /\ calls' = Tail(calls)
  /\ UNCHANGED <<disk, mem, faults, current, uncertain, write>>

\* The request was carried out and is taken as the new projection.
Adopt ==
  /\ todo = <<>> /\ calls # <<>> /\ Head(calls).op = "adopt"
  /\ current' = Head(calls).current
  /\ calls' = <<>>
  /\ UNCHANGED <<vars, uncertain, write>>

\* The projection is read back; what the audit refuses stays uncertain.
ReadBack ==
  /\ todo = <<>> /\ calls # <<>> /\ Head(calls).op = "audit"
  /\ IF IsOpen /\ (IsOpen => Auditable(disk, mem))
     THEN current' = Audit(disk.meta, mem) /\ uncertain' = FALSE
     ELSE UNCHANGED <<current, uncertain>>
  /\ calls' = <<>>
  /\ UNCHANGED <<vars, write>>

WriteFile == Write /\ UNCHANGED adapterVars

\* Fault: a failed call leaves the old projection in use.
FailCallTrusting ==
  /\ Fail
  /\ calls' = <<>>
  /\ UNCHANGED <<current, uncertain, write>>

FailCall ==
  /\ Fail
  /\ uncertain' = TRUE
  /\ calls' = <<>>
  /\ UNCHANGED <<current, write>>

\* An append refused before it reached the file does not stop the store, but
\* the operation is over.
RefuseAppend ==
  /\ todo = <<>> /\ calls # <<>> /\ Head(calls).op = "append"
  /\ faults < MaxFaults
  /\ faults' = faults + 1
  /\ uncertain' = TRUE
  /\ calls' = <<>>
  /\ UNCHANGED <<disk, mem, todo, current, write>>

CrashAdapter ==
  /\ Crash
  /\ current' = Nil
  /\ uncertain' = TRUE
  /\ calls' = <<>>
  /\ UNCHANGED write

\* The states a write of the core may ask for.
Targets ==
  {[current EXCEPT !.term = t, !.votedFor = v, !.log = l, !.commit = c, !.applied = c] :
     t \in 1 .. MaxTerm, v \in Voter \cup {Nil}, c \in current.commit .. MaxIndex,
     l \in UNION {[1 .. k -> Entry] : k \in 0 .. MaxIndex - Len(current.snapshot)}}

AdapterInit ==
  /\ Init
  /\ current = Nil
  /\ uncertain = TRUE
  /\ calls = <<>>
  /\ write = Nil

AdapterNext ==
  \/ Recover \/ Call \/ Adopt \/ ReadBack
  \/ WriteFile \/ FailCall \/ RefuseAppend \/ CrashAdapter
  \/ CheckpointAll
  \/ Ready /\ \E target \in Targets : PersistDelta(target)
  \/ Ready /\ \E s \in Offered(mem), t \in 1 .. MaxTerm, v \in Voter \cup {Nil} : Install(s, t, v)

-----------------------------------------------------------------------------
(* Properties. *)

\* What a projection stands for.  Where its log is cut is left out: a snapshot
\* whose folder was never synced may vanish in a crash, and the log is still
\* whole then.
Flat(d) == [term |-> d.term, votedFor |-> d.votedFor, commit |-> d.commit,
            applied |-> d.applied, log |-> d.snapshot \o d.log]

\* The projection the adapter hands to the core, which it advances without
\* reading the files back, is what opening the directory would report, and
\* stands for what a crash at this moment would recover to.
ProjectionIsDurable ==
  Ready => /\ current = Audit(disk.meta, Engine(disk))
           /\ Flat(current) = Flat(Recovers)

\* Wherever crashes and errors cut a write of the core short, the directory
\* recovers to one of the states the cluster model allows an interrupted
\* write to leave.
InterruptedAsModelled ==
  write # Nil => Flat(Recovers) \in {Flat(d) : d \in Core!Interrupted(write.from, write)}

===============================================================================
