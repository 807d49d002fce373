-------------------------------- MODULE Host --------------------------------
(***************************************************************************)
(* What one node of the transition backend does with an input: CoreReplica  *)
(* over RuntimeHost over the transition core, all on one strand.  The host  *)
(* persists what the core stages before it goes on, advances the commit     *)
(* index, applies what is committed and compacts, and only then are the     *)
(* messages released.                                                       *)
(***************************************************************************)
EXTENDS Disk

CONSTANTS
  NoOp,            \* the event a new leader appends
  SnapshotEvery    \* snapshot_every: 0 disables compaction

ASSUME HostAssumption == NoOp \in Command /\ SnapshotEvery \in 0 .. MaxEntries

-----------------------------------------------------------------------------
(* RuntimeHost.  An outcome holds the node and the effects gathered so far, *)
(* or the node as a crash in the middle of the input leaves it once it is   *)
(* reopened.  H stands for a set of outcomes, O for a core outcome in a     *)
(* set.                                                                     *)

Start(s) == {[node |-> s, send |-> {}, ready |-> {}, crashed |-> FALSE]}

\* Go on with what has neither crashed nor stopped.
Then(H, F(_)) ==
  UNION {IF h.crashed \/ h.node.halted THEN {h} ELSE F(h) : h \in H}

CrashedAt(n, d) ==
  [node |-> Restart(n, Recovered(d)).node, send |-> {}, ready |-> {},
   crashed |-> TRUE]

\* Collect the effects of a core step; when the core halts nothing leaves.
Gather(h, o) ==
  [h EXCEPT !.node = o.node,
            !.send = IF o.node.halted THEN {} ELSE @ \cup o.send,
            !.ready = IF o.node.halted THEN {} ELSE @ \cup o.ready]

\* The write the core staged is carried out and completed, or cut short.
Persist(n, g) ==
  IF g.node.pending = Nil THEN {g}
  ELSE {Gather(g, Checked(n, g.node, o)) : o \in {PersistCompleted(n, g.node)}}
         \cup {CrashedAt(n, d) : d \in Interrupted(g.node.durable, g.node.pending)}

\* RuntimeHost::advance: one core step, its write, and its completion.
Advance(n, h, O) ==
  Then({Gather(h, Checked(n, h.node, o)) : o \in O}, LAMBDA g : Persist(n, g))

\* ApplyCommitted until the application has caught up.  Applying writes
\* nothing: the store applies an entry when it commits it.
ApplyAll(h) ==
  {Gather(h, o) : o \in
     {CompleteRead(Emit([h.node EXCEPT !.durable.applied = h.node.durable.commit], {}))}}

MaintenanceDue(d) ==
  SnapshotEvery # 0 /\ d.commit - SnapshotIndex(d) >= SnapshotEvery

Maintain(n, h) ==
  IF MaintenanceDue(h.node.durable)
  THEN Advance(n, h, {CompactCommitted(h.node)})
  ELSE {h}

Dispatch(n, h, O) ==
  LET stepped   == Advance(n, h, O)
      committed == Then(stepped, LAMBDA g : Advance(n, g, {AdvanceCommit(n, g.node)}))
      applied   == Then(committed, ApplyAll)
  IN Then(applied, LAMBDA g : Maintain(n, g))

-----------------------------------------------------------------------------
(* CoreReplica. *)

\* drive: a node that has just become leader appends its no-op before its
\* messages leave; without room for it the node stops.
Drive(n, h, O) ==
  LET Led(g) ==
        IF g.node.role # "Leader" \/ h.node.role = "Leader" THEN {g}
        ELSE IF CanPropose(g.node)
        THEN Dispatch(n, g, {ClientPropose(n, g.node, NoOp)})
        ELSE {[g EXCEPT !.node.halted = TRUE, !.send = {}, !.ready = {}]}
  IN Then(Dispatch(n, h, O), Led)

\* An input the core takes from the host as it is.
Input(n, s, O) == Then(Start(s), LAMBDA h : Drive(n, h, O))

\* The messages handle shows to the core.  An append success that is not the
\* exact end of the outstanding request is dropped, and so is a snapshot that
\* contradicts what is committed.
Accepts(s, m) ==
  CASE m.type = "RequestVote" -> ValidRequestVote(m)
    [] m.type = "AppendEntries" -> ValidAppend(m)
    [] m.type = "AppendReply" ->
         m.term = s.durable.term /\ m.success =>
           /\ s.inFlight[m.from] # Nil
           /\ s.inFlight[m.from].id = m.id
           /\ Covered(s.inFlight[m.from]) = m.matched
    [] m.type = "InstallSnapshot" -> ValidSnapshot(m) /\ ~PredatesCommit(s.durable, m)
    [] OTHER -> TRUE

\* What the core makes of a message; of a snapshot of one chunk it is shown
\* the header first.
Observe(n, s, m) ==
  CASE m.type = "RequestVote" -> RecvRequestVote(n, s, m)
    [] m.type = "VoteReply" -> RecvVoteReply(n, s, m)
    [] m.type = "AppendEntries" -> RecvAppend(n, s, m)
    [] m.type = "AppendReply" -> RecvAppendReply(n, s, m)
    [] m.type = "InstallSnapshot" -> RecvSnapshot(n, s, m, FALSE)
    [] m.type = "SnapshotReply" -> RecvSnapshotReply(n, s, m)

\* The second input of the same handler, if any: the body of the snapshot,
\* which only a follower of the sender's term takes; or, after a reply that
\* made progress, the heartbeat that sends the next request at once.
FollowUp(n, s, m, t) ==
  LET p == m.from
      progress ==
        \/ t.durable.commit > s.durable.commit
        \/ /\ t.match[p] > s.match[p] \/ t.next[p] < s.next[p]
           /\ t.next[p] <= LastIndex(t.durable)
  IN CASE m.type = "InstallSnapshot" ->
            IF m.term = t.durable.term /\ t.role = "Follower"
            THEN {RecvSnapshot(n, t, m, TRUE)} ELSE {}
       [] m.type \in {"AppendReply", "SnapshotReply"} ->
            IF t.role = "Leader"
                 /\ IF m.type = "AppendReply" THEN progress
                    ELSE LastIndex(t.durable) > m.index
            THEN {HeartbeatTimeout(n, t)} ELSE {}
       [] OTHER -> {}

\* handle, on_snapshot and on_snapshot_reply.  A snapshot reply that is not
\* the answer awaited is dropped; a refusal sends the snapshot again and is
\* not shown to the core.
Process(n, s, m) ==
  LET unshown == m.type = "SnapshotReply" /\ m.term <= s.durable.term
      current == /\ s.role = "Leader"
                 /\ m.term = s.durable.term
                 /\ s.snapInFlight[m.from] # Nil
                 /\ s.snapInFlight[m.from].id = m.id
      Follow(h) ==
        LET O == FollowUp(n, s, m, h.node)
        IN IF O = {} THEN {h} ELSE Drive(n, h, O)
  IN IF unshown /\ ~current THEN Start(s)
     ELSE IF unshown /\ ~m.success
     THEN {[h EXCEPT !.send = {s.snapInFlight[m.from]}] : h \in Start(s)}
     ELSE Then(Input(n, s, {Observe(n, s, m)}), Follow)

===============================================================================
