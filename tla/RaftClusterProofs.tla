-------------------------- MODULE RaftClusterProofs --------------------------
(***************************************************************************)
(* The cluster of transition cores is type correct, for every membership,   *)
(* every set of commands and every bound.                                   *)
(***************************************************************************)
EXTENDS RaftCluster, TransitionProofs, FiniteSetTheorems

-----------------------------------------------------------------------------
(* Disks. *)

\* A finite set of naturals is bounded.
LEMMA FiniteIsBounded ==
  ASSUME NEW S \in SUBSET Nat, IsFiniteSet(S)
  PROVE  \E b \in Nat : \A y \in S : y <= b
<1> DEFINE Unbounded == {T \in SUBSET S : ~\E b \in Nat : \A y \in T : y <= b}
           Sizes == {Cardinality(T) : T \in Unbounded}
<1> SUFFICES ASSUME Unbounded # {} PROVE FALSE
  OBVIOUS
<1>1. \A T \in SUBSET S : IsFiniteSet(T) /\ Cardinality(T) \in Nat
  BY FS_Subset, FS_CardinalityType
<1>2. Sizes \in SUBSET Nat /\ Sizes # {}
  BY <1>1
<1>3. Min(Sizes) \in Sizes /\ \A y \in Sizes : Min(Sizes) <= y
  BY <1>2, LeastNatural
<1>4. PICK T \in Unbounded : Cardinality(T) = Min(Sizes)
  BY <1>3
<1>5. PICK x \in T : TRUE
  <2>1. T # {}
    <3>1. 0 \in Nat /\ \A y \in {} : y <= 0
      OBVIOUS
    <3> QED
      BY <1>4, <3>1
  <2> QED
    BY <2>1
<1>6. T \ {x} \in SUBSET S /\ x \in Nat /\ Cardinality(T) \in Nat
  BY <1>1, <1>4, <1>5
<1>7. Cardinality(T \ {x}) = Cardinality(T) - 1
  BY <1>1, <1>4, <1>5, FS_RemoveElement
<1>8. T \ {x} \notin Unbounded
  <2> SUFFICES ASSUME T \ {x} \in Unbounded PROVE FALSE
    OBVIOUS
  <2>1. Cardinality(T \ {x}) \in Sizes
    OBVIOUS
  <2>2. Cardinality(T) <= Cardinality(T \ {x})
    BY <1>3, <1>4, <2>1
  <2> QED
    BY <1>6, <1>7, <2>2
<1>9. PICK b \in Nat : \A y \in T \ {x} : y <= b
  BY <1>6, <1>8
<1>10. b + x \in Nat /\ \A y \in T : y <= b + x
  BY <1>4, <1>6, <1>9
<1> QED
  BY <1>4, <1>10

\* What recovery reports is a durable state.
LEMMA RecoveredType ==
  ASSUME NEW d \in Durable
  PROVE  Recovered(d) \in Durable
BY DEF Recovered, Durable

\* Whatever an interrupted write leaves is a durable state.
LEMMA InterruptedType ==
  ASSUME NEW d \in Durable, NEW w \in PendingWrite
  PROVE  Interrupted(d, w) \in SUBSET Durable
<1> DEFINE target == w.target
           meta == [d EXCEPT !.term = target.term, !.votedFor = target.votedFor]
           held == {k \in 0 .. Len(d.log) :
                      k <= Len(target.log)
                        /\ SubSeq(d.log, 1, k) = SubSeq(target.log, 1, k)}
           common == Max(held)
           cut(k) == [meta EXCEPT !.log = SubSeq(target.log, 1, k)]
<1>1. target \in Durable /\ w.kind \in PersistKind
  BY DEF PendingWrite
<1>2. target.log \in Seq(Entry) /\ d.log \in Seq(Entry)
      /\ Len(target.log) \in Nat /\ Len(d.log) \in Nat
  BY <1>1, LenProperties DEF Durable
<1>3. meta \in Durable
  BY <1>1 DEF Durable
<1>4. InterruptedUpdate(d, target) =
        {d, meta, target} \cup {cut(k) : k \in common .. Len(target.log)}
  BY DEF InterruptedUpdate
<1>5. Interrupted(d, w) \in SUBSET (InterruptedUpdate(d, target) \cup {d, target, meta})
  BY <1>1 DEF Interrupted, PersistKind
<1> HIDE DEF target, meta
<1>6. common \in Nat
  <2>1. \A e \in Seq(Entry) : SubSeq(e, 1, 0) = <<>>
    <3> TAKE e \in Seq(Entry)
    <3>1. SubSeq(e, 1, 0) \in Seq(Entry) /\ Len(SubSeq(e, 1, 0)) = 0
      BY PieceOfEntries, LenProperties
    <3> QED
      BY <3>1, EmptySeq
  <2>2. SubSeq(d.log, 1, 0) = SubSeq(target.log, 1, 0)
    BY <1>2, <2>1
  <2>3. 0 \in held
    BY <1>2, <2>2
  <2>4. held \in SUBSET Nat /\ \A y \in held : y <= Len(d.log)
    BY <1>2
  <2> HIDE DEF held
  <2> QED
    BY <1>2, <2>3, <2>4, GreatestNatural
<1> HIDE DEF common
<1>7. \A k \in common .. Len(target.log) : cut(k) \in Durable
  <2> TAKE k \in common .. Len(target.log)
  <2>1. k \in Int /\ k <= Len(target.log)
    BY <1>2, <1>6
  <2>2. SubSeq(target.log, 1, k) \in Seq(Entry)
    BY <1>2, <2>1, PieceOfEntries
  <2> QED
    BY <1>3, <2>2 DEF Durable
<1> HIDE DEF cut
<1> QED
  BY <1>1, <1>3, <1>4, <1>5, <1>7

-----------------------------------------------------------------------------
(* Type correctness. *)

\* A core that checks its state first has a well-formed outcome.
LEMMA CheckedType ==
  ASSUME NEW n \in Server, NEW s \in Node(n), NEW o,
         Sound(s) => o \in Outcome(n)
  PROVE  Checked(n, s, o) \in Outcome(n)
BY HaltType, EmitType DEF Checked

\* A step with a well-formed outcome leaves well-formed nodes, messages and
\* read results.
LEMMA StepType ==
  ASSUME TypeOK, NEW n \in Server, NEW outcome,
         Sound(node[n]) => outcome \in Outcome(n),
         floor' \in [Server -> Nat], Step(n, outcome)
  PROVE  /\ DOMAIN node' = Server
         /\ \A k \in Server : node'[k] \in Node(k)
         /\ msgs' \subseteq Message
         /\ reads' \subseteq ReadResult
<1> DEFINE o == Checked(n, node[n], outcome)
           answers == {[index |-> r.index, applied |-> r.applied,
                        floor |-> floor'[n]] : r \in o.ready}
<1>1. /\ node' = [node EXCEPT ![n] = o.node]
      /\ msgs' = msgs \cup o.send
      /\ reads' = reads \cup answers
  BY DEF Step
<1>2. o \in Outcome(n)
  BY CheckedType DEF TypeOK
<1> HIDE DEF o
<1>3. o.node \in Node(n) /\ o.send \in SUBSET Message
      /\ o.ready \in SUBSET ReadAnswer
  BY <1>2 DEF Outcome
<1>4. answers \subseteq ReadResult
  BY <1>3 DEF ReadAnswer, ReadResult
<1> QED
  BY <1>1, <1>3, <1>4 DEF TypeOK

\* The highest commit index in the cluster is a natural.
LEMMA HighestCommitType ==
  ASSUME TypeOK
  PROVE  HighestCommit \in Nat
<1> DEFINE S == {node[n].durable.commit : n \in Server}
<1>1. \A n \in Server : node[n].durable.commit \in Nat
  BY DEF TypeOK, Node, Durable
<1>2. S \in SUBSET Nat /\ S # {}
  BY <1>1, ServerAssumption
<1>3. IsFiniteSet(S)
  <2> DEFINE f == [n \in Server |-> node[n].durable.commit]
  <2>1. f \in Surjection(Server, S)
    BY DEF Surjection
  <2> QED
    BY <2>1, ServerAssumption, FS_Surjection
<1>4. PICK b \in Nat : \A y \in S : y <= b
  BY <1>2, <1>3, FiniteIsBounded
<1>5. Max(S) \in S
  BY <1>2, <1>4, GreatestNatural
<1> QED
  BY <1>2, <1>5 DEF HighestCommit

\* What a stop may leave on disk is a durable state.
LEMMA DiskOutcomesType ==
  ASSUME TypeOK, NEW n \in Server
  PROVE  DiskOutcomes(n) \in SUBSET Durable
<1>1. disk[n] \in Durable /\ node[n].pending \in PendingWrite \cup {Nil}
  BY DEF TypeOK, Node
<1>2. \A d \in Interrupted(disk[n], node[n].pending) :
        node[n].pending # Nil => Recovered(d) \in Durable
  BY <1>1, InterruptedType, RecoveredType
<1> QED
  BY <1>1, <1>2 DEF DiskOutcomes

\* o is what the core of n makes of an input it takes while no write is
\* outstanding.
Handled(n, o) ==
  \/ CanCampaign(node[n]) /\ o = ElectionTimeout(n, node[n])
  \/ \E command \in Command :
       CanPropose(node[n]) /\ o = ClientPropose(n, node[n], command)
  \/ o = HeartbeatTimeout(n, node[n])
  \/ o = AdvanceCommit(n, node[n])
  \/ o = ApplyCommitted(node[n])
  \/ o = CompactCommitted(node[n])
  \/ CanRead(node[n]) /\ o = BeginRead(n, node[n])
  \/ \E m \in msgs :
       /\ m.to = n
       /\ m.from \in Peers(n)
       /\ \/ m.type = "RequestVote" /\ o = RecvRequestVote(n, node[n], m)
          \/ m.type = "VoteReply" /\ o = RecvVoteReply(n, node[n], m)
          \/ m.type = "AppendEntries" /\ o = RecvAppend(n, node[n], m)
          \/ m.type = "AppendReply" /\ o = RecvAppendReply(n, node[n], m)
          \/ \E ready \in BOOLEAN :
               /\ m.type = "InstallSnapshot"
               /\ o = RecvSnapshot(n, node[n], m, ready)
          \/ m.type = "SnapshotReply" /\ o = RecvSnapshotReply(n, node[n], m)

\* A step of n that only takes an input.
Takes(n) ==
  /\ Ready(n)
  /\ UNCHANGED <<disk, crashes>>
  /\ \/ UNCHANGED <<floor, begun>>
     \/ floor' = [floor EXCEPT ![n] = HighestCommit] /\ begun' = begun + 1
  /\ \E o : Handled(n, o) /\ Step(n, o)

\* Every step of the cluster takes an input, or is about a write, a crash, a
\* restart or a cancelled read.
LEMMA StepCases ==
  ASSUME Next
  PROVE  \E n \in Server :
           \/ Takes(n)
           \/ StopRead(n)
           \/ FinishWrite(n)
           \/ FailWrite(n)
           \/ Crash(n)
           \/ Reopen(n)
<1>1. PICK n \in Server :
        \/ Campaign(n)
        \/ \E command \in Command : Propose(n, command)
        \/ Heartbeat(n)
        \/ Commit(n)
        \/ ApplyOne(n)
        \/ Compact(n)
        \/ StartRead(n)
        \/ StopRead(n)
        \/ \E m \in msgs : Receive(n, m)
        \/ FinishWrite(n)
        \/ FailWrite(n)
        \/ Crash(n)
        \/ Reopen(n)
  BY Zenon DEF Next
<1>2. Campaign(n) => Takes(n)
  BY Zenon DEF Campaign, Takes, Handled, Volatile
<1>3. (\E command \in Command : Propose(n, command)) => Takes(n)
  BY Zenon DEF Propose, Takes, Handled, Volatile
<1>4. Heartbeat(n) => Takes(n)
  BY Zenon DEF Heartbeat, Takes, Handled, Volatile
<1>5. Commit(n) => Takes(n)
  BY Zenon DEF Commit, Takes, Handled, Volatile
<1>6. ApplyOne(n) => Takes(n)
  BY Zenon DEF ApplyOne, Takes, Handled, Volatile
<1>7. Compact(n) => Takes(n)
  BY Zenon DEF Compact, Takes, Handled, Volatile
<1>8. StartRead(n) => Takes(n)
  BY Zenon DEF StartRead, Takes, Handled
<1>9. ASSUME NEW m \in msgs, Receive(n, m) PROVE Takes(n)
  <2>1. Ready(n) /\ UNCHANGED <<disk, crashes, floor, begun>>
        /\ m.to = n /\ m.from \in Peers(n)
    BY <1>9, Zenon DEF Receive, Volatile
  <2>2. PICK o : Step(n, o) /\
          \/ m.type = "RequestVote" /\ o = RecvRequestVote(n, node[n], m)
          \/ m.type = "VoteReply" /\ o = RecvVoteReply(n, node[n], m)
          \/ m.type = "AppendEntries" /\ o = RecvAppend(n, node[n], m)
          \/ m.type = "AppendReply" /\ o = RecvAppendReply(n, node[n], m)
          \/ \E ready \in BOOLEAN :
               /\ m.type = "InstallSnapshot"
               /\ o = RecvSnapshot(n, node[n], m, ready)
          \/ m.type = "SnapshotReply" /\ o = RecvSnapshotReply(n, node[n], m)
    BY <1>9, Zenon
    DEF Receive, ReceiveRequestVote, ReceiveVoteReply, ReceiveAppend,
        ReceiveAppendReply, ReceiveSnapshot, ReceiveSnapshotReply
  <2>3. Handled(n, o)
    BY <2>1, <2>2, Zenon DEF Handled
  <2> QED
    BY <2>1, <2>2, <2>3, Zenon DEF Takes
<1> QED
  BY <1>1, <1>2, <1>3, <1>4, <1>5, <1>6, <1>7, <1>8, <1>9, Zenon

\* A message of each type is in the set of that type.
LEMMA MessageOfType ==
  ASSUME NEW m \in Message
  PROVE  /\ m.type = "RequestVote" => m \in RequestVote
         /\ m.type = "VoteReply" => m \in VoteReply
         /\ m.type = "AppendEntries" => m \in AppendEntries
         /\ m.type = "AppendReply" => m \in AppendReply
         /\ m.type = "InstallSnapshot" => m \in InstallSnapshot
         /\ m.type = "SnapshotReply" => m \in SnapshotReply
BY DEF Message, RequestVote, VoteReply, AppendEntries, AppendReply,
       InstallSnapshot, SnapshotReply

\* Inputs have well-formed outcomes.
LEMMA HandledType ==
  ASSUME TypeOK, NEW n \in Server, NEW o, Handled(n, o), Sound(node[n])
  PROVE  o \in Outcome(n)
<1>1. node[n] \in Node(n) /\ ValidDurable(node[n].durable)
      /\ msgs \subseteq Message
  BY DEF TypeOK, Sound
<1>2. ASSUME NEW m \in msgs, m.from \in Peers(n),
             \/ m.type = "RequestVote" /\ o = RecvRequestVote(n, node[n], m)
             \/ m.type = "VoteReply" /\ o = RecvVoteReply(n, node[n], m)
             \/ m.type = "AppendEntries" /\ o = RecvAppend(n, node[n], m)
             \/ m.type = "AppendReply" /\ o = RecvAppendReply(n, node[n], m)
             \/ \E ready \in BOOLEAN :
                  /\ m.type = "InstallSnapshot"
                  /\ o = RecvSnapshot(n, node[n], m, ready)
             \/ m.type = "SnapshotReply" /\ o = RecvSnapshotReply(n, node[n], m)
      PROVE  o \in Outcome(n)
  <2>1. m \in Message
    BY <1>1
  <2> QED
    BY <1>1, <1>2, <2>1, MessageOfType, RecvRequestVoteType, RecvVoteReplyType,
       RecvAppendType, RecvAppendReplyType, RecvSnapshotType,
       RecvSnapshotReplyType
<1> QED
  BY <1>1, <1>2, ElectionTimeoutType, ClientProposeType, HeartbeatTimeoutType,
     AdvanceCommitType, ApplyCommittedType, CompactCommittedType, BeginReadType
  DEF Handled

\* The next-state relation preserves the type invariant.
LEMMA TypeStep ==
  ASSUME TypeOK, [Next]_vars
  PROVE  TypeOK'
<1>1. CASE UNCHANGED vars
  BY <1>1 DEF vars, TypeOK
<1>2. ASSUME Next PROVE TypeOK'
  <2>1. PICK n \in Server :
          \/ Takes(n)
          \/ StopRead(n)
          \/ FinishWrite(n)
          \/ FailWrite(n)
          \/ Crash(n)
          \/ Reopen(n)
    BY <1>2, StepCases, Zenon
  <2>2. node[n] \in Node(n) /\ crashes \in Nat /\ begun \in Nat
        /\ floor \in [Server -> Nat] /\ disk \in [Server -> Durable]
    BY DEF TypeOK
  <2>3. CASE Takes(n)
    <3>1. PICK o : Handled(n, o) /\ Step(n, o)
      BY <2>3 DEF Takes
    <3>2. floor' \in [Server -> Nat] /\ begun' \in Nat
      BY <2>2, <2>3, HighestCommitType DEF Takes
    <3>3. Sound(node[n]) => o \in Outcome(n)
      BY <3>1, HandledType
    <3> QED
      BY <2>2, <2>3, <3>1, <3>2, <3>3, StepType DEF Takes, TypeOK
  <2>4. CASE StopRead(n)
    <3>1. CancelRead(node[n]) \in Outcome(n)
      BY <2>2, CancelReadType
    <3> QED
      BY <2>2, <2>4, <3>1, StepType DEF StopRead, Volatile, TypeOK
  <2>5. CASE FinishWrite(n)
    <3>1. node[n].pending \in PendingWrite
      BY <2>2, <2>5 DEF FinishWrite, Node
    <3>2. Recovered(node[n].pending.target) \in Durable
      BY <3>1, RecoveredType DEF PendingWrite
    <3>3. PersistCompleted(n, node[n]) \in Outcome(n)
      BY <2>2, <2>5, PersistCompletedType DEF FinishWrite
    <3> QED
      BY <2>2, <2>5, <3>2, <3>3, StepType DEF FinishWrite, TypeOK
  <2>6. CASE FailWrite(n)
    <3>1. PersistFailed(n, node[n]) \in Outcome(n)
      BY <2>2, HaltType, EmitType DEF PersistFailed
    <3>2. disk' \in [Server -> Durable]
      BY <2>2, <2>6, DiskOutcomesType DEF FailWrite
    <3> QED
      BY <2>2, <2>6, <3>1, <3>2, StepType DEF FailWrite, TypeOK
  <2>7. CASE Crash(n)
    <3>1. PICK d \in DiskOutcomes(n) :
            /\ disk' = [disk EXCEPT ![n] = d]
            /\ node' = [node EXCEPT ![n] = Restart(n, d).node]
      BY <2>7 DEF Crash
    <3>2. d \in Durable
      BY DiskOutcomesType
    <3>3. Restart(n, d).node \in Node(n)
      BY <3>2, InitialType, EmitType DEF Restart
    <3> QED
      BY <2>2, <2>7, <3>1, <3>2, <3>3 DEF Crash, TypeOK
  <2>8. CASE Reopen(n)
    <3>1. Restart(n, disk[n]).node \in Node(n)
      BY <2>2, InitialType, EmitType DEF Restart
    <3> QED
      BY <2>8, <3>1 DEF Reopen, TypeOK
  <2> QED
    BY <2>1, <2>3, <2>4, <2>5, <2>6, <2>7, <2>8
<1> QED
  BY <1>1, <1>2

\* A cluster starts well-formed.
LEMMA TypeInit ==
  ASSUME Init
  PROVE  TypeOK
<1>1. EmptyDurable \in Durable
  BY DEF EmptyDurable, Durable
<1> QED
  BY <1>1, InitialType DEF Init, TypeOK

\* Every reachable state of every cluster is well-formed: whatever the
\* membership, the commands and the bounds, raft::step never leaves a node,
\* sends a message or answers a read outside its types.
THEOREM TypeCorrect == Spec => []TypeOK
BY TypeInit, TypeStep, PTL DEF Spec

===============================================================================
