---------------------------- MODULE ElectionProofs ----------------------------
(***************************************************************************)
(* A term has one leader, and votes outlive crashes: for every membership   *)
(* and every interleaving of steps, lost, repeated and late messages,       *)
(* interrupted writes and restarts.                                         *)
(***************************************************************************)
EXTENDS ElectionStepProofs

-----------------------------------------------------------------------------
(* The cluster. *)

\* Ballots are about servers and terms.
LEMMA BallotType ==
  ASSUME NEW M \in SUBSET Message
  PROVE  \A b \in Ballots(M) :
           b.voter \in Server /\ b.term \in Nat /\ b.for \in Server
BY DEF Ballots, Message, RequestVote, VoteReply, AppendEntries, AppendReply,
       InstallSnapshot, SnapshotReply

\* A quorum that elected stays one as ballots are added.
LEMMA ElectedGrows ==
  ASSUME NEW B, NEW C, B \subseteq C, NEW c, NEW t, ElectedBy(B, c, t)
  PROVE  ElectedBy(C, c, t)
BY DEF ElectedBy

\* A step of one server preserves the invariant if it leaves its core upright
\* and in agreement with the disk, keeps the vote on the disk, sends only what
\* the disk vouches for and counts only votes that were sent.
LEMMA ElectionStep ==
  ASSUME TypeOK, TypeOK', ElectionInv, NEW n \in Server, NEW S,
         \A k \in Server \ {n} : node'[k] = node[k] /\ disk'[k] = disk[k],
         msgs' = msgs \cup S,
         Upright(n, node'[n]),
         KeepsVote(disk[n], disk'[n]),
         ~node'[n].halted => /\ disk'[n].term = node'[n].durable.term
                             /\ disk'[n].votedFor = node'[n].durable.votedFor,
         node'[n].halted => S = {},
         Vouched(n, disk'[n], node'[n].role, S),
         Peers(n) # {} => \A v \in node'[n].votes :
           [voter |-> v, term |-> node'[n].durable.term, for |-> n]
             \in Ballots(msgs')
  PROVE  ElectionInv'
<1> DEFINE B == Ballots(msgs)
           N == Ballots(S)
<1>1. Ballots(msgs') = B \cup N
  BY BallotsGrow
<1>2. \A b \in B \cup N :
        b.voter \in Server /\ b.term \in Nat /\ b.for \in Server
  BY <1>1, BallotType DEF TypeOK
<1>3. \A b \in N :
        b.voter = n /\ b.term = disk'[n].term /\ b.for = disk'[n].votedFor
  BY VouchedBallots
<1>4. \A k \in Server : disk[k].term \in Nat /\ disk'[k].term \in Nat
  BY DEF TypeOK, Durable
<1>5. /\ \A b \in B :
           \/ disk[b.voter].term > b.term
           \/ disk[b.voter].term = b.term /\ disk[b.voter].votedFor = b.for
      /\ \A a, b \in B : a.voter = b.voter /\ a.term = b.term => a.for = b.for
  BY DEF ElectionInv
<1> HIDE DEF B, N
<1>6. \A b \in B \cup N :
        \/ disk'[b.voter].term > b.term
        \/ disk'[b.voter].term = b.term /\ disk'[b.voter].votedFor = b.for
  <2> SUFFICES ASSUME NEW b \in B \cup N
               PROVE  \/ disk'[b.voter].term > b.term
                      \/ /\ disk'[b.voter].term = b.term
                         /\ disk'[b.voter].votedFor = b.for
    OBVIOUS
  <2>1. CASE b \in N
    BY <1>3, <2>1
  <2>2. CASE b \in B /\ b.voter # n
    <3>1. disk'[b.voter] = disk[b.voter]
      BY <1>2, <2>2
    <3> QED
      BY <1>5, <2>2, <3>1
  <2>3. CASE b \in B /\ b.voter = n
    <3>1. b.term \in Nat /\ b.for # Nil
      BY <1>2, NilAssumption
    <3>2. /\ disk[n].term <= disk'[n].term
          /\ disk[n].term = disk'[n].term /\ disk[n].votedFor # Nil
               => disk'[n].votedFor = disk[n].votedFor
      BY DEF KeepsVote
    <3>3. \/ disk[n].term > b.term
          \/ disk[n].term = b.term /\ disk[n].votedFor = b.for
      BY <1>5, <2>3
    <3> QED
      BY <1>4, <2>3, <3>1, <3>2, <3>3
  <2> QED
    BY <2>1, <2>2, <2>3
<1>7. \A a, b \in B \cup N :
        a.voter = b.voter /\ a.term = b.term => a.for = b.for
  <2>1. ASSUME NEW a \in B \cup N, NEW b \in N, a.voter = b.voter, a.term = b.term
        PROVE  a.for = b.for
    <3>1. a.voter = n /\ a.term = disk'[n].term /\ b.for = disk'[n].votedFor
      BY <1>3, <2>1
    <3>2. ~(disk'[n].term > disk'[n].term)
      BY <1>4
    <3> QED
      BY <1>6, <3>1, <3>2
  <2> QED
    BY <1>5, <2>1
<1>8. \A k \in Server : Upright(k, node'[k])
  BY DEF ElectionInv
<1>9. \A k \in Server :
        ~node'[k].halted => /\ disk'[k].term = node'[k].durable.term
                            /\ disk'[k].votedFor = node'[k].durable.votedFor
  BY DEF ElectionInv
<1>10. \A k \in Server : Peers(k) # {} => \A v \in node'[k].votes :
         [voter |-> v, term |-> node'[k].durable.term, for |-> k] \in B \cup N
  BY <1>1 DEF ElectionInv, B
<1>11. \A m \in msgs' :
         m.type \in {"AppendEntries", "InstallSnapshot"} /\ Peers(m.from) # {}
           => ElectedBy(B \cup N, m.from, m.term)
  <2> SUFFICES ASSUME NEW m \in msgs', Peers(m.from) # {},
                      m.type \in {"AppendEntries", "InstallSnapshot"}
               PROVE  ElectedBy(B \cup N, m.from, m.term)
    OBVIOUS
  <2>1. CASE m \in msgs
    <3>1. ElectedBy(B, m.from, m.term)
      BY <2>1 DEF ElectionInv, B
    <3> QED
      BY <3>1, ElectedGrows
  <2>2. CASE m \in S
    <3>1. m.from = n /\ m.term = disk'[n].term /\ node'[n].role = "Leader"
      BY <2>2 DEF Vouched
    <3>2. m.term = node'[n].durable.term
      BY <2>2, <3>1
    <3>3. IsQuorum(node'[n].votes) /\ node'[n].votes \in SUBSET Server
      BY <3>1 DEF Upright, TypeOK, Node
    <3>4. \A v \in node'[n].votes :
            [voter |-> v, term |-> m.term, for |-> m.from] \in B \cup N
      BY <1>10, <3>1, <3>2
    <3> QED
      BY <3>3, <3>4 DEF ElectedBy
  <2> QED
    BY <2>1, <2>2
<1> QED
  BY <1>1, <1>6, <1>7, <1>8, <1>9, <1>10, <1>11 DEF ElectionInv

\* The servers whose votes for n in its term were sent.
Supporters(n) ==
  {v \in Server : [voter |-> v, term |-> node[n].durable.term, for |-> n]
                    \in Ballots(msgs)}

\* Every input a core takes is decent.
LEMMA HandledDecent ==
  ASSUME TypeOK, ElectionInv, NEW n \in Server, NEW o, Handled(n, o), Ready(n)
  PROVE  Decent(n, node[n], o, Supporters(n))
<1> DEFINE s == node[n]
           V == Supporters(n)
<1>1. /\ s \in Node(n) /\ Upright(n, s) /\ ~s.halted /\ s.pending = Nil
      /\ msgs \subseteq Message
  BY DEF TypeOK, ElectionInv, Ready
<1>2. ASSUME NEW m \in msgs, m.to = n, m.from \in Peers(n),
             \/ m.type = "RequestVote" /\ o = RecvRequestVote(n, s, m)
             \/ m.type = "VoteReply" /\ o = RecvVoteReply(n, s, m)
             \/ m.type = "AppendEntries" /\ o = RecvAppend(n, s, m)
             \/ m.type = "AppendReply" /\ o = RecvAppendReply(n, s, m)
             \/ \E ready \in BOOLEAN :
                  /\ m.type = "InstallSnapshot"
                  /\ o = RecvSnapshot(n, s, m, ready)
             \/ m.type = "SnapshotReply" /\ o = RecvSnapshotReply(n, s, m)
      PROVE  Decent(n, s, o, V)
  <2>1. m \in Message
    BY <1>1
  <2>2. m.type = "VoteReply" /\ m.granted /\ m.term = s.durable.term
          => m.from \in V
    BY <1>2 DEF Supporters, Ballots, Peers
  <2> HIDE DEF s, V
  <2> QED
    BY <1>1, <1>2, <2>1, <2>2, MessageOfType, RecvRequestVoteDecent,
       RecvVoteReplyDecent, RecvAppendDecent, RecvAppendReplyDecent,
       RecvSnapshotDecent, RecvSnapshotReplyDecent
<1>3. /\ CanPropose(s) => s.role = "Leader"
      /\ CanRead(s) => s.role = "Leader"
  BY DEF CanPropose, CanRead
<1>4. \/ o = ElectionTimeout(n, s)
      \/ \E command \in Command : CanPropose(s) /\ o = ClientPropose(n, s, command)
      \/ o = HeartbeatTimeout(n, s)
      \/ o = AdvanceCommit(n, s)
      \/ o = ApplyCommitted(s)
      \/ o = CompactCommitted(s)
      \/ CanRead(s) /\ o = BeginRead(n, s)
      \/ Decent(n, s, o, V)
  BY <1>2, Zenon DEF Handled
<1> HIDE DEF s, V
<1>5. Decent(n, s, o, V)
  BY <1>1, <1>3, <1>4, ElectionTimeoutDecent, ClientProposeDecent,
     HeartbeatTimeoutDecent, MaintenanceDecent, BeginReadDecent
<1> QED
  BY <1>5 DEF s, V

\* A decent outcome, checked, preserves the invariant.
LEMMA DecentStep ==
  ASSUME TypeOK, TypeOK', ElectionInv, NEW n \in Server, NEW outcome,
         ~node[n].halted, disk' = disk, Step(n, outcome),
         Decent(n, node[n], outcome, Supporters(n))
  PROVE  ElectionInv'
<1> DEFINE s == node[n]
           o == Checked(n, s, outcome)
<1>1. node' = [node EXCEPT ![n] = o.node] /\ msgs' = msgs \cup o.send
  BY DEF Step
<1>2. s \in Node(n)
  BY DEF TypeOK
<1>3. Decent(n, s, o, Supporters(n))
  BY <1>2, DecentHalt DEF Checked
<1> HIDE DEF o
<1>4. node'[n] = o.node /\ \A k \in Server \ {n} : node'[k] = node[k]
  BY <1>1 DEF TypeOK
<1>5. disk[n].term = s.durable.term /\ disk[n].votedFor = s.durable.votedFor
  BY DEF ElectionInv
<1>6. /\ Upright(n, node'[n]) /\ node'[n].durable = s.durable
      /\ Vouched(n, s.durable, node'[n].role, o.send)
      /\ node'[n].halted => o.send = {}
      /\ node'[n].votes \subseteq s.votes \cup Supporters(n)
  BY <1>3, <1>4 DEF Decent
<1>7. Vouched(n, disk'[n], node'[n].role, o.send)
  BY <1>5, <1>6, VouchedSame
<1>8. KeepsVote(disk[n], disk'[n])
  BY DEF KeepsVote, TypeOK, Durable
<1>9. Peers(n) # {} => \A v \in node'[n].votes :
        [voter |-> v, term |-> node'[n].durable.term, for |-> n]
          \in Ballots(msgs')
  <2>1. Peers(n) # {} => \A v \in s.votes \cup Supporters(n) :
          [voter |-> v, term |-> s.durable.term, for |-> n] \in Ballots(msgs)
    BY DEF ElectionInv, Supporters
  <2> QED
    BY <1>1, <1>6, <2>1, BallotsGrow
<1> QED
  BY <1>1, <1>4, <1>5, <1>6, <1>7, <1>8, <1>9, ElectionStep

\* Whatever a stop leaves on a disk keeps the vote, and is what the disk held
\* if nothing was staged.
LEMMA DiskKeepsVote ==
  ASSUME TypeOK, ElectionInv, NEW n \in Server, NEW d \in DiskOutcomes(n)
  PROVE  KeepsVote(disk[n], d)
<1> DEFINE w == node[n].pending
           old == disk[n]
<1>1. old \in Durable /\ node[n] \in Node(n) /\ Upright(n, node[n])
  BY DEF TypeOK, ElectionInv
<1>2. KeepsVote(old, old)
  BY <1>1 DEF KeepsVote, Durable
<1>3. CASE w = Nil
  BY <1>2, <1>3 DEF DiskOutcomes
<1>4. CASE w # Nil
  <2>1. w \in PendingWrite /\ StagedWell(n, node[n]) /\ ~node[n].halted
    BY <1>1, <1>4 DEF Node, Upright
  <2>2. old.term = node[n].durable.term /\ old.votedFor = node[n].durable.votedFor
    BY <2>1 DEF ElectionInv
  <2>3. KeepsVote(old, w.target)
    BY <2>1, <2>2 DEF StagedWell, KeepsVote
  <2>4. PICK e \in Interrupted(old, w) : d = Recovered(e)
    BY <1>4 DEF DiskOutcomes
  <2> HIDE DEF w, old
  <2>5. w.target \in Durable /\ w.kind \in PersistKind
    BY <2>1 DEF PendingWrite
  <2>6. \/ e.term = old.term /\ e.votedFor = old.votedFor
        \/ e.term = w.target.term /\ e.votedFor = w.target.votedFor
    BY <1>1, <2>4, <2>5
    DEF Interrupted, InterruptedUpdate, PersistKind, Durable
  <2>7. e \in Durable
    BY <1>1, <2>1, <2>4, InterruptedType
  <2>8. d.term = e.term /\ d.votedFor = e.votedFor
    BY <2>4, <2>7 DEF Recovered, Durable
  <2>9. KeepsVote(old, d)
    BY <1>2, <2>3, <2>6, <2>8 DEF KeepsVote
  <2> QED
    BY <2>9 DEF old
<1> QED
  BY <1>3, <1>4

\* A restarted core is upright.
LEMMA RestartUpright ==
  ASSUME NEW n \in Server, NEW d \in Durable
  PROVE  LET s == Restart(n, d).node
         IN /\ Upright(n, s)
            /\ s.durable = d
            /\ s.votes = {}
<1> DEFINE s == Initial(n, d)
<1>1. /\ s.durable = d /\ s.votes = {} /\ s.role = "Follower"
      /\ s.pending = Nil /\ s.inFlight = [p \in Peers(n) |-> Nil]
      /\ s.snapInFlight = [p \in Peers(n) |-> Nil]
  BY DEF Initial
<1> HIDE DEF s
<1>2. Outstanding(n, s) = {}
  BY <1>1 DEF Outstanding
<1>3. Upright(n, s)
  BY <1>1, <1>2 DEF Upright, Vouched
<1>4. Restart(n, d).node = s
  BY DEF Restart, Emit, s
<1> QED
  BY <1>1, <1>3, <1>4

\* A completed write preserves the invariant, also when the core finds the
\* state it staged invalid and halts.
LEMMA FinishWriteElection ==
  ASSUME TypeOK, TypeOK', ElectionInv, NEW n \in Server, FinishWrite(n)
  PROVE  ElectionInv' /\ KeepsVote(disk[n], disk'[n])
<1> DEFINE s == node[n]
           target == s.pending.target
           p == PersistCompleted(n, s)
           o == Checked(n, s, p)
<1>1. s \in Node(n) /\ Upright(n, s) /\ s.pending # Nil
  BY DEF TypeOK, ElectionInv, FinishWrite
<1>2. ~s.halted /\ StagedWell(n, s) /\ target \in Durable
  BY <1>1 DEF Upright, Node, PendingWrite
<1>3. /\ node' = [node EXCEPT ![n] = o.node] /\ msgs' = msgs \cup o.send
      /\ disk' = [disk EXCEPT ![n] = Recovered(target)]
  BY DEF FinishWrite, Step
<1>4. /\ node'[n] = o.node /\ disk'[n] = Recovered(target)
      /\ \A k \in Server \ {n} : node'[k] = node[k] /\ disk'[k] = disk[k]
  BY <1>3 DEF TypeOK
<1>5. disk[n].term = s.durable.term /\ disk[n].votedFor = s.durable.votedFor
  BY <1>2 DEF ElectionInv
<1>6. disk'[n].term = target.term /\ disk'[n].votedFor = target.votedFor
  BY <1>2, <1>4 DEF Recovered, Durable
<1>7. KeepsVote(disk[n], disk'[n])
  BY <1>2, <1>5, <1>6 DEF StagedWell, KeepsVote
<1>8. CASE Sound(s)
  <2>1. o = p
    BY <1>8 DEF Checked
  <2>2. /\ Upright(n, p.node) /\ ~p.node.halted /\ p.node.durable = target
        /\ Vouched(n, target, p.node.role, p.send)
        /\ \A v \in p.node.votes :
             \/ v \in s.votes /\ target.term = s.durable.term
             \/ /\ v = n
                /\ Peers(n) # {} =>
                     [voter |-> n, term |-> target.term, for |-> n]
                       \in Ballots(p.send)
    BY <1>1, PersistCompletedDecent
  <2> HIDE DEF p, o
  <2>3. Vouched(n, disk'[n], node'[n].role, p.send)
    <3>1. node'[n].role = p.node.role
      BY <1>4, <2>1, Zenon
    <3>2. Vouched(n, target, node'[n].role, p.send)
      BY <2>2, <3>1, Zenon
    <3> QED
      BY <1>6, <3>2, VouchedSame, Zenon
  <2>4. Peers(n) # {} => \A v \in s.votes :
          [voter |-> v, term |-> s.durable.term, for |-> n] \in Ballots(msgs)
    BY DEF ElectionInv
  <2>5. Ballots(msgs') = Ballots(msgs) \cup Ballots(p.send)
    BY <1>3, <2>1, BallotsGrow
  <2>6. Peers(n) # {} => \A v \in node'[n].votes :
          [voter |-> v, term |-> node'[n].durable.term, for |-> n]
            \in Ballots(msgs')
    BY <1>4, <2>1, <2>2, <2>4, <2>5
  <2>7. msgs' = msgs \cup p.send
    BY <1>3, <2>1, Zenon
  <2>8. Upright(n, node'[n]) /\ ~node'[n].halted
    BY <1>4, <2>1, <2>2, Zenon
  <2>9. /\ disk'[n].term = node'[n].durable.term
        /\ disk'[n].votedFor = node'[n].durable.votedFor
    BY <1>4, <1>6, <2>1, <2>2, Zenon
  <2> QED
    BY <1>4, <1>7, <2>3, <2>6, <2>7, <2>8, <2>9, ElectionStep, Zenon
<1>9. CASE ~Sound(s)
  <2>1. o = Emit(Halt(n, s), {})
    BY <1>9 DEF Checked
  <2>2. /\ Upright(n, o.node) /\ o.send = {} /\ o.node.halted
        /\ o.node.votes = {}
    <3>1. Decent(n, s, o, {})
      BY <1>1, <2>1, DecentHalt
    <3>2. o.node = Halt(n, s) /\ o.send = {}
      BY <2>1 DEF Emit
    <3>3. Halt(n, s).halted /\ Halt(n, s).votes = {}
      BY <1>1, DownIsQuiet, StepDownType DEF Halt, Node
    <3> QED
      BY <3>1, <3>2, <3>3 DEF Decent
  <2> HIDE DEF o
  <2>3. Vouched(n, disk'[n], node'[n].role, {})
    BY DEF Vouched
  <2> QED
    BY <1>3, <1>4, <1>7, <2>2, <2>3, ElectionStep
<1> QED
  BY <1>8, <1>9

\* A step of the cluster preserves the invariant and every vote on disk.
LEMMA ElectionNext ==
  ASSUME TypeOK, ElectionInv, Next
  PROVE  ElectionInv' /\ \A k \in Server : KeepsVote(disk[k], disk'[k])
<1>1. TypeOK'
  BY TypeStep
<1>2. \A k \in Server : KeepsVote(disk[k], disk[k])
  BY DEF KeepsVote, TypeOK, Durable
<1>3. PICK n \in Server :
        \/ Takes(n)
        \/ StopRead(n)
        \/ FinishWrite(n)
        \/ FailWrite(n)
        \/ Crash(n)
        \/ Reopen(n)
  BY StepCases, Zenon
<1>4. /\ node[n] \in Node(n) /\ Upright(n, node[n]) /\ disk[n] \in Durable
      /\ DOMAIN node = Server /\ DOMAIN disk = Server
  BY DEF TypeOK, ElectionInv
<1>5. CASE Takes(n)
  <2>1. PICK o : Handled(n, o) /\ Step(n, o)
    BY <1>5 DEF Takes
  <2>2. disk' = disk /\ Ready(n) /\ ~node[n].halted
    BY <1>5 DEF Takes, Ready
  <2>3. Decent(n, node[n], o, Supporters(n))
    BY <2>1, <2>2, HandledDecent
  <2> QED
    BY <1>1, <1>2, <2>1, <2>2, <2>3, DecentStep
<1>6. CASE StopRead(n)
  <2>1. disk' = disk /\ Step(n, CancelRead(node[n]))
    BY <1>6 DEF StopRead, Volatile
  <2>2. CASE ~node[n].halted
    <3>1. Decent(n, node[n], CancelRead(node[n]), Supporters(n))
      BY <1>4, <2>2, CancelReadDecent
    <3> QED
      BY <1>1, <1>2, <2>1, <2>2, <3>1, DecentStep
  <2>3. CASE node[n].halted
    <3> DEFINE t == [node[n] EXCEPT !.read = Nil]
               o == Checked(n, node[n], CancelRead(node[n]))
    <3>1. /\ t.halted = node[n].halted /\ t.role = node[n].role
          /\ t.votes = node[n].votes /\ t.durable = node[n].durable
          /\ t.pending = node[n].pending /\ t.inFlight = node[n].inFlight
          /\ t.snapInFlight = node[n].snapInFlight
      BY <1>4 DEF Node
    <3>2. CancelRead(node[n]).node = t /\ CancelRead(node[n]).send = {}
      BY DEF CancelRead, Emit
    <3> HIDE DEF t
    <3>3. Outstanding(n, t) = Outstanding(n, node[n])
      BY <3>1 DEF Outstanding
    <3>4. Upright(n, t)
      BY <1>4, <3>1, <3>3, UprightKept DEF Upright
    <3>5. /\ Upright(n, o.node) /\ o.send = {}
          /\ o.node.halted /\ o.node.votes \subseteq node[n].votes
          /\ o.node.durable = node[n].durable
      <4>1. CASE Sound(node[n])
        BY <2>3, <3>1, <3>2, <3>4, <4>1 DEF Checked
      <4>2. CASE ~Sound(node[n])
        <5>1. o = Emit(Halt(n, node[n]), {})
          BY <4>2 DEF Checked
        <5>2. Decent(n, node[n], o, {})
          BY <1>4, <5>1, DecentHalt
        <5>3. o.node = Halt(n, node[n]) /\ o.send = {}
          BY <5>1 DEF Emit
        <5>4. Halt(n, node[n]).halted
          BY <1>4, StepDownType DEF Halt, Node
        <5> QED
          BY <5>2, <5>3, <5>4 DEF Decent
      <4> QED
        BY <4>1, <4>2
    <3>6. node' = [node EXCEPT ![n] = o.node] /\ msgs' = msgs \cup o.send
      BY <2>1 DEF Step
    <3> HIDE DEF o
    <3>7. node'[n] = o.node /\ \A k \in Server \ {n} : node'[k] = node[k]
      BY <1>4, <3>6
    <3>8. Vouched(n, disk'[n], node'[n].role, {})
      BY DEF Vouched
    <3>9. Peers(n) # {} => \A v \in node'[n].votes :
            [voter |-> v, term |-> node'[n].durable.term, for |-> n]
              \in Ballots(msgs')
      <4>1. msgs' = msgs
        BY <3>5, <3>6
      <4> QED
        BY <3>5, <3>7, <4>1 DEF ElectionInv
    <3>10. KeepsVote(disk[n], disk'[n])
      BY <1>2, <2>1
    <3> QED
      BY <1>1, <1>2, <2>1, <3>5, <3>6, <3>7, <3>8, <3>9, <3>10, ElectionStep
  <2> QED
    BY <2>2, <2>3
<1>7. CASE FinishWrite(n)
  <2>1. ElectionInv' /\ KeepsVote(disk[n], disk'[n])
    BY <1>1, <1>7, FinishWriteElection
  <2>2. \A k \in Server \ {n} : disk'[k] = disk[k]
    BY <1>4, <1>7 DEF FinishWrite
  <2> QED
    BY <1>2, <2>1, <2>2
<1>8. CASE FailWrite(n)
  <2> DEFINE o == Checked(n, node[n], PersistFailed(n, node[n]))
  <2>1. PICK d \in DiskOutcomes(n) : disk' = [disk EXCEPT ![n] = d]
    BY <1>8 DEF FailWrite
  <2>2. KeepsVote(disk[n], d)
    BY DiskKeepsVote
  <2>3. o = Emit(Halt(n, node[n]), {})
    BY DEF Checked, PersistFailed
  <2>4. node' = [node EXCEPT ![n] = o.node] /\ msgs' = msgs \cup o.send
    BY <1>8 DEF FailWrite, Step
  <2> HIDE DEF o
  <2>5. Decent(n, node[n], o, {})
    BY <1>4, <2>3, DecentHalt
  <2>6. o.node = Halt(n, node[n]) /\ o.send = {}
    BY <2>3 DEF Emit
  <2>7. o.node.halted /\ o.node.votes = {}
    BY <1>4, <2>6, DownIsQuiet, StepDownType DEF Halt, Node
  <2>8. /\ node'[n] = o.node /\ disk'[n] = d
        /\ \A k \in Server \ {n} : node'[k] = node[k] /\ disk'[k] = disk[k]
    BY <1>4, <2>1, <2>4
  <2>9. Upright(n, node'[n]) /\ Vouched(n, disk'[n], node'[n].role, {})
    BY <2>5, <2>8 DEF Decent, Vouched
  <2>10. ElectionInv'
    BY <1>1, <2>2, <2>4, <2>6, <2>7, <2>8, <2>9, ElectionStep
  <2> QED
    BY <1>2, <2>2, <2>8, <2>10
<1>9. ASSUME NEW d \in DiskOutcomes(n),
             disk' = [disk EXCEPT ![n] = d],
             node' = [node EXCEPT ![n] = Restart(n, d).node], msgs' = msgs
      PROVE  ElectionInv' /\ \A k \in Server : KeepsVote(disk[k], disk'[k])
  <2>1. KeepsVote(disk[n], d) /\ d \in Durable
    BY DiskKeepsVote, DiskOutcomesType
  <2>2. /\ node'[n] = Restart(n, d).node /\ disk'[n] = d
        /\ \A k \in Server \ {n} : node'[k] = node[k] /\ disk'[k] = disk[k]
    BY <1>4, <1>9
  <2>3. /\ Upright(n, node'[n]) /\ node'[n].durable = d
        /\ node'[n].votes = {}
    BY <2>1, <2>2, RestartUpright
  <2>4. Vouched(n, disk'[n], node'[n].role, {}) /\ msgs' = msgs \cup {}
    BY <1>9 DEF Vouched
  <2>5. ElectionInv'
    BY <1>1, <2>1, <2>2, <2>3, <2>4, ElectionStep
  <2> QED
    BY <1>2, <2>1, <2>2, <2>5
<1>10. CASE Crash(n)
  BY <1>9, <1>10 DEF Crash
<1>11. CASE Reopen(n)
  <2>1. /\ node[n].halted /\ node' = [node EXCEPT ![n] = Restart(n, disk[n]).node]
        /\ disk' = disk /\ msgs' = msgs
    BY <1>11 DEF Reopen
  <2>2. node[n].pending = Nil
    BY <1>4, <2>1 DEF Upright
  <2>3. disk[n] \in DiskOutcomes(n)
    BY <2>2 DEF DiskOutcomes
  <2>4. disk' = [disk EXCEPT ![n] = disk[n]]
    BY <1>4, <2>1 DEF TypeOK
  <2> QED
    BY <1>9, <2>1, <2>3, <2>4
<1> QED
  BY <1>3, <1>5, <1>6, <1>7, <1>8, <1>10, <1>11

-----------------------------------------------------------------------------
(* The theorems. *)

\* The invariant holds when a cluster starts.
LEMMA ElectionInit ==
  ASSUME Init
  PROVE  ElectionInv
<1>1. EmptyDurable \in Durable
  BY DEF EmptyDurable, Durable
<1>2. \A n \in Server : node[n] = Restart(n, EmptyDurable).node
  BY DEF Init, Restart, Emit
<1>3. \A n \in Server : /\ Upright(n, node[n]) /\ node[n].votes = {}
                        /\ node[n].durable = EmptyDurable
  BY <1>1, <1>2, RestartUpright
<1>4. msgs = {} /\ \A n \in Server : disk[n] = EmptyDurable
  BY DEF Init
<1>5. Ballots(msgs) = {}
  BY <1>4 DEF Ballots
<1> QED
  BY <1>3, <1>4, <1>5 DEF ElectionInv

\* The invariant is inductive, next to the type invariant.
LEMMA ElectionInvariance == Spec => [](TypeOK /\ ElectionInv)
<1>1. Init => TypeOK /\ ElectionInv
  BY TypeInit, ElectionInit
<1>2. TypeOK /\ ElectionInv /\ [Next]_vars => (TypeOK /\ ElectionInv)'
  <2> SUFFICES ASSUME TypeOK, ElectionInv, [Next]_vars
               PROVE  (TypeOK /\ ElectionInv)'
    OBVIOUS
  <2>1. TypeOK'
    BY TypeStep
  <2>2. CASE Next
    BY <2>1, <2>2, ElectionNext
  <2>3. CASE UNCHANGED vars
    BY <2>1, <2>3 DEF vars, ElectionInv
  <2> QED
    BY <2>2, <2>3
<1> QED
  BY <1>1, <1>2, PTL DEF Spec

\* Two leaders of one term are one server: their quorums share a voter, and a
\* voter has one vote per term.
LEMMA OneLeader ==
  ASSUME TypeOK, ElectionInv
  PROVE  ElectionSafety
<1> DEFINE L == Leaders(node, msgs)
<1>1. \A a \in L : a[1] \in Server
  BY DEF Leaders, TypeOK, Message, RequestVote, VoteReply, AppendEntries,
         AppendReply, InstallSnapshot, SnapshotReply
<1>2. \A a \in L : Peers(a[1]) # {} => ElectedBy(Ballots(msgs), a[1], a[2])
  <2> SUFFICES ASSUME NEW a \in L, Peers(a[1]) # {}
               PROVE  ElectedBy(Ballots(msgs), a[1], a[2])
    OBVIOUS
  <2>1. CASE \E n \in Server :
               node[n].role = "Leader" /\ a = <<n, node[n].durable.term>>
    <3>1. PICK n \in Server :
            node[n].role = "Leader" /\ a = <<n, node[n].durable.term>>
      BY <2>1
    <3>2. IsQuorum(node[n].votes) /\ node[n].votes \in SUBSET Server
      BY <3>1 DEF ElectionInv, Upright, TypeOK, Node
    <3>3. \A v \in node[n].votes :
            [voter |-> v, term |-> a[2], for |-> a[1]] \in Ballots(msgs)
      BY <3>1 DEF ElectionInv
    <3> QED
      BY <3>2, <3>3 DEF ElectedBy
  <2>2. CASE \E m \in msgs :
               /\ m.type \in {"AppendEntries", "InstallSnapshot"}
               /\ a = <<m.from, m.term>>
    <3>1. PICK m \in msgs :
            /\ m.type \in {"AppendEntries", "InstallSnapshot"}
            /\ a = <<m.from, m.term>>
      BY <2>2
    <3>2. a[1] = m.from /\ a[2] = m.term
      BY <3>1
    <3>3. Peers(m.from) # {}
      BY <3>2, Zenon
    <3>4. ElectedBy(Ballots(msgs), m.from, m.term)
      BY <3>1, <3>3, Zenon DEF ElectionInv
    <3> QED
      BY <3>2, <3>4, Zenon
  <2> QED
    BY <2>1, <2>2 DEF Leaders
<1> HIDE DEF L
<1>3. ASSUME NEW a \in L, NEW b \in L, a[2] = b[2]
      PROVE  a[1] = b[1]
  <2>1. CASE Peers(a[1]) = {} \/ Peers(b[1]) = {}
    BY <1>1, <2>1 DEF Peers
  <2>2. CASE Peers(a[1]) # {} /\ Peers(b[1]) # {}
    <3>1. PICK P \in SUBSET Server : IsQuorum(P) /\ \A v \in P :
            [voter |-> v, term |-> a[2], for |-> a[1]] \in Ballots(msgs)
      BY <1>2, <2>2 DEF ElectedBy
    <3>2. PICK Q \in SUBSET Server : IsQuorum(Q) /\ \A v \in Q :
            [voter |-> v, term |-> b[2], for |-> b[1]] \in Ballots(msgs)
      BY <1>2, <2>2 DEF ElectedBy
    <3>3. PICK v \in Server : v \in P /\ v \in Q
      BY <3>1, <3>2, QuorumsMeet
    <3> DEFINE x == [voter |-> v, term |-> a[2], for |-> a[1]]
               y == [voter |-> v, term |-> b[2], for |-> b[1]]
    <3>4. x \in Ballots(msgs) /\ y \in Ballots(msgs)
      BY <3>1, <3>2, <3>3
    <3>5. x.voter = y.voter /\ x.term = y.term
      BY <1>3
    <3>6. x.for = y.for
      BY <3>4, <3>5 DEF ElectionInv
    <3> QED
      BY <3>6
  <2> QED
    BY <2>1, <2>2
<1> QED
  BY <1>3 DEF ElectionSafety, OneLeaderPerTerm, L

\* No term ever has two leaders, for any number of servers and crashes
\* (become_leader and begin_write in transition.cpp).
THEOREM ElectionSafe == Spec => []ElectionSafety
BY ElectionInvariance, OneLeader, PTL

\* A granted vote that left a server is on its disk, or superseded by a later
\* term, whatever crash came between (Respond waits for the write).
THEOREM VotesDurable == Spec => []VotesAreDurable
<1>1. ASSUME ElectionInv PROVE VotesAreDurable
  <2> SUFFICES ASSUME NEW m \in msgs, m.type = "VoteReply", m.granted
               PROVE  \/ disk[m.from].term > m.term
                      \/ /\ disk[m.from].term = m.term
                         /\ disk[m.from].votedFor = m.to
    BY DEF VotesAreDurable, GrantedVotesHeld
  <2> DEFINE b == [voter |-> m.from, term |-> m.term, for |-> m.to]
  <2>1. b \in Ballots(msgs)
    BY DEF Ballots
  <2> QED
    BY <1>1, <2>1 DEF ElectionInv
<1> QED
  BY <1>1, ElectionInvariance, PTL

\* No step, crash or restart lowers the term on a disk or changes the vote
\* cast in it.
THEOREM VotesKept == Spec => VotesStand
<1>1. ASSUME TypeOK, ElectionInv, [Next]_vars
      PROVE  [\A n \in Server : KeepsVote(disk[n], disk'[n])]_vars
  BY <1>1, ElectionNext DEF vars
<1> QED
  BY <1>1, ElectionInvariance, PTL DEF Spec, VotesStand

===============================================================================
