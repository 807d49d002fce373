-------------------------- MODULE TransitionProofs --------------------------
(***************************************************************************)
(* Every operator of the transition core maps well-formed nodes and inputs  *)
(* to well-formed outcomes.                                                 *)
(***************************************************************************)
EXTENDS Transition, SequenceTheorems, WellFoundedInduction, TLAPS

ReadAnswer == [index : Nat, applied : Nat]

Outcome(n) ==
  [node : Node(n), send : SUBSET Message, ready : SUBSET ReadAnswer]

-----------------------------------------------------------------------------
(* Sequences and extrema. *)

\* A piece of a log or of a snapshot holds entries.
LEMMA PieceOfEntries ==
  ASSUME NEW e \in Seq(Entry), NEW a \in Nat \ {0}, NEW b \in Int, b <= Len(e)
  PROVE  /\ SubSeq(e, a, b) \in Seq(Entry)
         /\ Len(SubSeq(e, a, b)) = IF a <= b THEN b - a + 1 ELSE 0
<1>1. \A i \in a .. b : e[i] \in Entry
  BY ElementOfSeq, LenProperties
<1>2. a \in Int
  OBVIOUS
<1> QED
  BY <1>1, <1>2, SubSeqProperties

\* A non-empty set of naturals has a least element, the one Min chooses.
LEMMA LeastNatural ==
  ASSUME NEW S \in SUBSET Nat, S # {}
  PROVE  Min(S) \in S /\ \A y \in S : Min(S) <= y
<1>1. PICK x \in S : \A y \in S : ~(<<y, x>> \in OpToRel(<, Nat))
  BY NatLessThanWellFounded, WFMin
<1>2. ASSUME NEW y \in S PROVE x <= y
  <2>1. <<y, x>> \in Nat \X Nat /\ <<y, x>>[1] = y /\ <<y, x>>[2] = x
    OBVIOUS
  <2>2. y < x => <<y, x>> \in OpToRel(<, Nat)
    BY <2>1, Zenon DEF OpToRel
  <2>3. ~(y < x)
    BY <1>1, <2>2, Zenon
  <2> QED
    BY <2>3
<1> QED
  BY <1>2 DEF Min

\* A bounded non-empty set of naturals has a greatest element, the one Max
\* chooses.
LEMMA GreatestNatural ==
  ASSUME NEW S \in SUBSET Nat, S # {}, NEW b \in Nat, \A y \in S : y <= b
  PROVE  Max(S) \in S /\ \A y \in S : y <= Max(S)
<1> DEFINE R == {b - y : y \in S}
<1>1. R \in SUBSET Nat /\ R # {}
  <2>1. ASSUME NEW y \in S PROVE b - y \in Nat
    OBVIOUS
  <2>2. R \in SUBSET Nat
    BY <2>1, Zenon
  <2>3. PICK y \in S : TRUE
    OBVIOUS
  <2>4. b - y \in R
    BY Zenon
  <2> QED
    BY <2>2, <2>4, Zenon
<1>2. Min(R) \in R /\ \A z \in R : Min(R) <= z
  BY <1>1, LeastNatural
<1>3. PICK x \in S : b - x = Min(R)
  BY <1>2
<1>4. \A y \in S : b - y \in R
  OBVIOUS
<1>5. \A y \in S : b - x <= b - y
  BY <1>2, <1>3, <1>4
<1>6. \A y \in S : y <= x
  BY <1>5
<1> QED
  BY <1>6 DEF Max

-----------------------------------------------------------------------------
(* Durable states. *)

\* The indices and terms of a durable state are naturals.
LEMMA DurableType ==
  ASSUME NEW d \in Durable
  PROVE  /\ SnapshotIndex(d) \in Nat
         /\ SnapshotTerm(d) \in Nat
         /\ Len(d.log) \in Nat
         /\ LastIndex(d) = SnapshotIndex(d) + Len(d.log)
         /\ LastIndex(d) \in Nat
         /\ LastTerm(d) \in Nat
         /\ \A e \in Seq(Entry) : TermOfLast(e) \in Nat
<1>1. d.snapshot \in Seq(Entry) /\ d.log \in Seq(Entry)
  BY DEF Durable
<1>2. \A e \in Seq(Entry) : TermOfLast(e) \in Nat
  <2>1. ASSUME NEW e \in Seq(Entry), e # <<>> PROVE e[Len(e)] \in Entry
    <3>1. Len(e) \in 1 .. Len(e)
      BY <2>1, EmptySeq
    <3> QED
      BY <3>1, ElementOfSeq
  <2> QED
    BY <2>1 DEF TermOfLast, Entry
<1>3. Len(d.snapshot) \in Nat /\ Len(d.log) \in Nat
  BY <1>1, LenProperties
<1>4. SnapshotTerm(d) \in Nat /\ LastTerm(d) \in Nat
  BY <1>1, <1>2, Zenon DEF SnapshotTerm, LastTerm
<1>5. SnapshotIndex(d) \in Nat
  BY <1>3, Zenon DEF SnapshotIndex
<1>6. SnapshotIndex(d) + Len(d.log) \in Nat
  BY <1>3, <1>5
<1>7. LastIndex(d) \in Nat
  BY <1>6, Zenon DEF LastIndex
<1> QED
  BY <1>2, <1>3, <1>4, <1>5, <1>7, Zenon DEF LastIndex

\* Between the boundary and the end of the log every index has an entry, and
\* a term; elsewhere the term is a natural or Nil.
LEMMA TermAtType ==
  ASSUME NEW d \in Durable, NEW i \in Int
  PROVE  /\ SnapshotIndex(d) < i /\ i <= LastIndex(d) => EntryAt(d, i) \in Entry
         /\ TermAt(d, i) \in Nat \cup {Nil}
         /\ TermAt(d, i) # Nil <=> SnapshotIndex(d) <= i /\ i <= LastIndex(d)
<1>1. d.log \in Seq(Entry)
  BY DEF Durable
<1>2. ASSUME SnapshotIndex(d) < i, i <= LastIndex(d)
      PROVE  EntryAt(d, i) \in Entry
  <2>1. i - SnapshotIndex(d) \in 1 .. Len(d.log)
    BY <1>2, DurableType
  <2> QED
    BY <1>1, <2>1, ElementOfSeq DEF EntryAt
<1>3. \A e \in Entry : e.term \in Nat
  BY DEF Entry
<1> QED
  BY <1>2, <1>3, DurableType, NilAssumption DEF TermAt

\* Adopting a term keeps a durable state well-formed.
LEMMA AdoptTermType ==
  ASSUME NEW d \in Durable, NEW t \in Nat
  PROVE  /\ AdoptTerm(d, t) \in Durable
         /\ AdoptTerm(d, t).log = d.log
         /\ AdoptTerm(d, t).snapshot = d.snapshot
         /\ AdoptTerm(d, t).commit = d.commit
         /\ AdoptTerm(d, t).applied = d.applied
BY DEF AdoptTerm, Durable

\* A vote cast in a new term.
LEMMA NewVoteType ==
  ASSUME NEW d \in Durable, NEW t \in Nat, NEW v \in Server
  PROVE  [d EXCEPT !.term = t, !.votedFor = v] \in Durable
BY DEF Durable

-----------------------------------------------------------------------------
(* Nodes and outcomes. *)

\* A write may be staged on any node.
LEMMA BeginWriteType ==
  ASSUME NEW n \in Server, NEW s \in Node(n), NEW target \in Durable,
         NEW after \in SUBSET Message, NEW kind \in PersistKind
  PROVE  BeginWrite(s, target, after, kind) \in Node(n)
<1> DEFINE w == [target |-> target, after |-> after, selfVote |-> FALSE, kind |-> kind]
<1>1. w \in PendingWrite
  BY DEF PendingWrite
<1> HIDE DEF w
<1>2. [s EXCEPT !.pending = w] \in Node(n)
  BY <1>1 DEF Node
<1> QED
  BY <1>2 DEF BeginWrite, w

\* Stepping down clears what only candidates and leaders have.
LEMMA StepDownType ==
  ASSUME NEW n \in Server, NEW s \in Node(n)
  PROVE  /\ StepDown(n, s) \in Node(n)
         /\ StepDown(n, s).durable = s.durable
         /\ StepDown(n, s).pending = s.pending
         /\ StepDown(n, s).halted = s.halted
<1>1. NoProbe(n) \in [Peers(n) -> AppendEntries \cup {Nil}]
      /\ NoProbe(n) \in [Peers(n) -> InstallSnapshot \cup {Nil}]
  BY DEF NoProbe
<1> QED
  BY <1>1 DEF StepDown, Node, Role

\* A halted node is well-formed.
LEMMA HaltType ==
  ASSUME NEW n \in Server, NEW s \in Node(n)
  PROVE  Halt(n, s) \in Node(n)
BY StepDownType DEF Halt, Node

\* An outcome without answered reads.
LEMMA EmitType ==
  ASSUME NEW n \in Server, NEW s \in Node(n), NEW out \in SUBSET Message
  PROVE  /\ Emit(s, out) \in Outcome(n)
         /\ Emit(s, out).node = s
         /\ Emit(s, out).send = out
BY DEF Emit, Outcome

\* Replies leave at once or with the write they wait for.
LEMMA RespondType ==
  ASSUME NEW n \in Server, NEW s \in Node(n), NEW target \in Durable,
         NEW reply \in Message, NEW kind \in PersistKind
  PROVE  Respond(s, target, reply, kind) \in Outcome(n)
BY BeginWriteType, EmitType DEF Respond

\* A higher term is staged on a node that stepped down.
LEMMA AdoptHigherTermType ==
  ASSUME NEW n \in Server, NEW s \in Node(n), NEW t \in Nat
  PROVE  AdoptHigherTerm(n, s, t) \in Outcome(n)
<1>1. s.durable \in Durable /\ "StateUpdate" \in PersistKind
  BY DEF Node, PersistKind
<1> QED
  BY <1>1, AdoptTermType, StepDownType, BeginWriteType, EmitType
  DEF AdoptHigherTerm

-----------------------------------------------------------------------------
(* Requests of a leader. *)

\* A probe to a peer that is neither outstanding nor behind the boundary.
LEMMA AppendRequestType ==
  ASSUME NEW n \in Server, NEW s \in Node(n), NEW d \in Durable,
         NEW p \in Peers(n),
         SnapshotIndex(d) < s.next[p], s.next[p] <= LastIndex(d) + 1
  PROVE  AppendRequest(n, s, d, p) \in AppendEntries
<1>1. s.next[p] \in Nat /\ s.nextId[p] \in Nat /\ p \in Server
  BY DEF Node, Peers
<1>2. s.next[p] - 1 \in Nat /\ TermAt(d, s.next[p] - 1) \in Nat
  <2> DEFINE i == s.next[p] - 1
  <2>1. SnapshotIndex(d) \in Nat /\ LastIndex(d) \in Nat
    BY DurableType
  <2>2. i \in Nat /\ SnapshotIndex(d) <= i /\ i <= LastIndex(d)
    BY <1>1, <2>1
  <2> HIDE DEF i
  <2>3. TermAt(d, i) \in Nat
    BY <2>2, TermAtType
  <2> QED
    BY <2>2, <2>3 DEF i
<1>3. (IF s.next[p] <= LastIndex(d) THEN <<EntryAt(d, s.next[p])>> ELSE <<>>)
        \in Seq(Entry)
  BY <1>1, TermAtType
<1>4. d.term \in Nat /\ d.commit \in Nat
  BY DEF Durable
<1> QED
  BY <1>1, <1>2, <1>3, <1>4 DEF AppendRequest, AppendEntries

\* A request to install the current snapshot.
LEMMA SnapshotNeededType ==
  ASSUME NEW n \in Server, NEW s \in Node(n), NEW d \in Durable,
         NEW p \in Peers(n)
  PROVE  SnapshotNeeded(n, s, d, p) \in InstallSnapshot
BY DEF SnapshotNeeded, InstallSnapshot, Node, Durable, Peers

\* What send_append leaves and sends, field by field.
LEMMA SendAppendsType ==
  ASSUME NEW n \in Server, NEW s \in Node(n), NEW d \in Durable
  PROVE  /\ SendAppends(n, s, d) \in Outcome(n)
         /\ SendAppends(n, s, d).node.durable = s.durable
         /\ SendAppends(n, s, d).node.role = s.role
         /\ SendAppends(n, s, d).node.votes = s.votes
         /\ SendAppends(n, s, d).node.pending = s.pending
         /\ SendAppends(n, s, d).node.halted = s.halted
<1> DEFINE idle    == {p \in Peers(n) : s.inFlight[p] = Nil}
           resent  == {p \in idle : s.snapInFlight[p] # Nil}
           behind  == {p \in idle \ resent : s.next[p] <= SnapshotIndex(d)}
           probed  == {p \in idle \ (resent \cup behind) :
                         s.next[p] <= LastIndex(d) + 1}
           probes  == [p \in Peers(n) |->
                         IF p \in probed THEN AppendRequest(n, s, d, p)
                         ELSE s.inFlight[p]]
           installs == [p \in Peers(n) |->
                          IF p \in behind THEN SnapshotNeeded(n, s, d, p)
                          ELSE s.snapInFlight[p]]
           ids == [p \in Peers(n) |->
                     IF p \in probed \cup behind THEN s.nextId[p] + 1
                     ELSE s.nextId[p]]
           round == IF s.read = Nil THEN Nil
                    ELSE [s.read EXCEPT !.probes =
                            [p \in Peers(n) |->
                               IF p \in probed THEN s.nextId[p]
                               ELSE s.read.probes[p]]]
           sent == {AppendRequest(n, s, d, p) : p \in probed}
                     \cup {SnapshotNeeded(n, s, d, p) : p \in behind}
                     \cup {s.snapInFlight[p] : p \in resent}
           node == [s EXCEPT !.inFlight = probes, !.snapInFlight = installs,
                             !.nextId = ids, !.read = round]
<1>1. \A p \in probed : AppendRequest(n, s, d, p) \in AppendEntries
  <2> SUFFICES ASSUME NEW p \in probed
               PROVE  AppendRequest(n, s, d, p) \in AppendEntries
    OBVIOUS
  <2>1. SnapshotIndex(d) \in Nat /\ LastIndex(d) \in Nat
    BY DurableType
  <2>2. p \in Peers(n) /\ s.next[p] \in Nat
    BY DEF Node
  <2>3. SnapshotIndex(d) < s.next[p] /\ s.next[p] <= LastIndex(d) + 1
    BY <2>1, <2>2
  <2> QED
    BY <2>2, <2>3, AppendRequestType
<1>2. \A p \in behind : SnapshotNeeded(n, s, d, p) \in InstallSnapshot
  BY SnapshotNeededType
<1>3. probes \in [Peers(n) -> AppendEntries \cup {Nil}]
  BY <1>1 DEF Node
<1>4. installs \in [Peers(n) -> InstallSnapshot \cup {Nil}]
  BY <1>2 DEF Node
<1>5. ids \in [Peers(n) -> Nat]
  BY DEF Node
<1>6. round \in ReadBarrier(n) \cup {Nil}
  BY DEF Node, ReadBarrier
<1>7. sent \in SUBSET Message
  BY <1>1, <1>2 DEF Message, Node
<1>8. SendAppends(n, s, d) = [node |-> node, send |-> sent, ready |-> {}]
  BY DEF SendAppends, Node
<1> HIDE DEF idle, resent, behind, probed, probes, installs, ids, round, sent
<1>9. node \in Node(n)
  BY <1>3, <1>4, <1>5, <1>6 DEF Node
<1>10. /\ node.durable = s.durable /\ node.role = s.role /\ node.votes = s.votes
       /\ node.pending = s.pending /\ node.halted = s.halted
  BY DEF Node
<1> HIDE DEF node
<1>11. [node |-> node, send |-> sent, ready |-> {}] \in Outcome(n)
  BY <1>7, <1>9 DEF Outcome
<1>12. [node |-> node, send |-> sent, ready |-> {}].node = node
  OBVIOUS
<1> QED
  BY <1>8, <1>10, <1>11, <1>12

\* A new leader starts from a clean slate for every peer.
LEMMA BecomeLeaderType ==
  ASSUME NEW n \in Server, NEW s \in Node(n)
  PROVE  BecomeLeader(n, s) \in Outcome(n)
<1> DEFINE fresh ==
      [s EXCEPT !.role = "Leader",
                !.next = [p \in Peers(n) |-> LastIndex(s.durable) + 1],
                !.match = [p \in Peers(n) |-> 0],
                !.inFlight = NoProbe(n), !.snapInFlight = NoProbe(n)]
<1>1. s.durable \in Durable
  BY DEF Node
<1>2. [p \in Peers(n) |-> LastIndex(s.durable) + 1] \in [Peers(n) -> Nat]
  BY <1>1, DurableType
<1>3. fresh \in Node(n)
  BY <1>2 DEF Node, Role, NoProbe
<1> QED
  BY <1>1, <1>3, SendAppendsType DEF BecomeLeader

\* Counting a vote.
LEMMA CountVoteType ==
  ASSUME NEW n \in Server, NEW s \in Node(n), NEW v \in Server
  PROVE  CountVote(n, s, v) \in Outcome(n)
<1>1. [s EXCEPT !.votes = @ \cup {v}] \in Node(n)
  BY DEF Node
<1> QED
  BY <1>1, BecomeLeaderType, EmitType DEF CountVote

\* Answering a read that is covered.
LEMMA CompleteReadType ==
  ASSUME NEW n \in Server, NEW o \in Outcome(n)
  PROVE  /\ CompleteRead(o) \in Outcome(n)
         /\ CompleteRead(o).send = o.send
<1>1. o.node \in Node(n) /\ o.send \in SUBSET Message
  BY DEF Outcome
<1>2. [o.node EXCEPT !.read = Nil] \in Node(n)
  BY <1>1 DEF Node
<1>3. ASSUME o.node.read # Nil
      PROVE  [index |-> o.node.read.index, applied |-> o.node.durable.applied]
               \in ReadAnswer
  BY <1>1, <1>3 DEF Node, ReadBarrier, Durable, ReadAnswer
<1>4. CASE ReadCovered(o.node)
  <2>1. o.node.read # Nil
    BY <1>4 DEF ReadCovered
  <2> QED
    BY <1>1, <1>2, <1>3, <1>4, <2>1 DEF CompleteRead, Outcome
<1>5. CASE ~ReadCovered(o.node)
  BY <1>5 DEF CompleteRead
<1> QED
  BY <1>4, <1>5

-----------------------------------------------------------------------------
(* The inputs of the core. *)

\* A completed write.
LEMMA PersistCompletedType ==
  ASSUME NEW n \in Server, NEW s \in Node(n), s.pending # Nil
  PROVE  PersistCompleted(n, s) \in Outcome(n)
<1> DEFINE write == s.pending
           stored == [s EXCEPT !.pending = Nil, !.durable = write.target]
           done == CompleteRead(Emit(stored, write.after))
           voted == CountVote(n, done.node, n)
<1>1. write \in PendingWrite
  BY DEF Node
<1>2. write.target \in Durable /\ write.after \in SUBSET Message
  BY <1>1 DEF PendingWrite
<1>3. stored \in Node(n)
  BY <1>2 DEF Node
<1> HIDE DEF stored
<1>4. done \in Outcome(n)
  BY <1>2, <1>3, EmitType, CompleteReadType
<1> HIDE DEF done
<1>5. voted \in Outcome(n)
  BY <1>4, CountVoteType DEF Outcome
<1> HIDE DEF voted
<1>6. [voted EXCEPT !.send = @ \cup done.send, !.ready = done.ready]
        \in Outcome(n)
  BY <1>4, <1>5 DEF Outcome
<1>7. PersistCompleted(n, s) =
        IF write.selfVote
        THEN [voted EXCEPT !.send = @ \cup done.send, !.ready = done.ready]
        ELSE done
  BY DEF PersistCompleted, stored, done, voted
<1> QED
  BY <1>4, <1>6, <1>7

\* A restarted node.
LEMMA InitialType ==
  ASSUME NEW n \in Server, NEW d \in Durable
  PROVE  Initial(n, d) \in Node(n)
BY DEF Initial, Node, Role

\* An election timer.
LEMMA ElectionTimeoutType ==
  ASSUME NEW n \in Server, NEW s \in Node(n)
  PROVE  ElectionTimeout(n, s) \in Outcome(n)
<1> DEFINE target == [s.durable EXCEPT !.term = @ + 1, !.votedFor = n]
           ballot(p) == [type |-> "RequestVote", from |-> n, to |-> p,
                         term |-> target.term, lastIndex |-> LastIndex(target),
                         lastTerm |-> LastTerm(target)]
           after == {ballot(p) : p \in Peers(n)}
           write == [target |-> target, after |-> after, selfVote |-> TRUE,
                     kind |-> "StateUpdate"]
           node == [StepDown(n, s) EXCEPT !.role = "Candidate",
                                          !.pending = write]
<1>0. s.durable \in Durable /\ s.durable.term + 1 \in Nat
  BY DEF Node, Durable
<1>1. target \in Durable
  BY <1>0, NewVoteType
<1>2. target.term \in Nat
  BY <1>1 DEF Durable
<1>3. ElectionTimeout(n, s) = Emit(node, {})
  BY DEF ElectionTimeout
<1> HIDE DEF target
<1>4. \A p \in Peers(n) : ballot(p) \in RequestVote
  BY <1>1, <1>2, DurableType DEF RequestVote, Peers
<1> HIDE DEF ballot
<1>5. after \in SUBSET Message
  BY <1>4 DEF Message
<1> HIDE DEF after
<1>6. write \in PendingWrite
  BY <1>1, <1>5 DEF PendingWrite, PersistKind
<1> HIDE DEF write
<1>7. node \in Node(n)
  BY <1>6, StepDownType DEF Node, Role
<1> HIDE DEF node
<1> QED
  BY <1>3, <1>7, EmitType

\* A vote request.
LEMMA RecvRequestVoteType ==
  ASSUME NEW n \in Server, NEW s \in Node(n), NEW m \in RequestVote
  PROVE  RecvRequestVote(n, s, m) \in Outcome(n)
<1> DEFINE adopted == AdoptTerm(s.durable, m.term)
           grant   == MayGrant(adopted, m)
           target  == IF grant THEN [adopted EXCEPT !.votedFor = m.from]
                      ELSE adopted
           heard   == IF m.term > s.durable.term THEN StepDown(n, s) ELSE s
           reply(term, granted) ==
             [type |-> "VoteReply", from |-> n, to |-> m.from, term |-> term,
              granted |-> granted]
<1>1. m.from \in Server /\ m.term \in Nat /\ s.durable \in Durable
  BY DEF RequestVote, Node
<1>2. s.durable.term \in Nat
  BY <1>1 DEF Durable
<1>3. adopted \in Durable
  BY <1>1, AdoptTermType
<1>4. RecvRequestVote(n, s, m) =
        IF m.term < s.durable.term
        THEN Emit(s, {reply(s.durable.term, FALSE)})
        ELSE Respond(heard, target, reply(target.term, grant), "StateUpdate")
  BY DEF RecvRequestVote
<1> HIDE DEF adopted
<1>5. grant \in BOOLEAN
  BY DEF MayGrant
<1> HIDE DEF grant
<1>6. target \in Durable
  BY <1>1, <1>3 DEF Durable
<1>7. target.term \in Nat
  BY <1>6 DEF Durable
<1> HIDE DEF target
<1>8. reply(s.durable.term, FALSE) \in Message
      /\ reply(target.term, grant) \in Message
  BY <1>1, <1>2, <1>5, <1>7 DEF VoteReply, Message
<1> HIDE DEF reply
<1>9. heard \in Node(n) /\ "StateUpdate" \in PersistKind
  BY StepDownType DEF PersistKind
<1> HIDE DEF heard
<1>10. Emit(s, {reply(s.durable.term, FALSE)}) \in Outcome(n)
  <2>1. {reply(s.durable.term, FALSE)} \in SUBSET Message
    BY <1>8, Zenon
  <2> QED
    BY <2>1, EmitType, Zenon
<1>11. Respond(heard, target, reply(target.term, grant), "StateUpdate")
         \in Outcome(n)
  BY <1>6, <1>8, <1>9, RespondType
<1> QED
  BY <1>4, <1>10, <1>11, Zenon

\* A vote reply.
LEMMA RecvVoteReplyType ==
  ASSUME NEW n \in Server, NEW s \in Node(n), NEW m \in VoteReply
  PROVE  RecvVoteReply(n, s, m) \in Outcome(n)
<1>1. m.term \in Nat /\ m.from \in Server
  BY DEF VoteReply
<1> QED
  BY <1>1, AdoptHigherTermType, CountVoteType, EmitType DEF RecvVoteReply

\* A client's command.
LEMMA ClientProposeType ==
  ASSUME NEW n \in Server, NEW s \in Node(n), NEW command \in Command
  PROVE  ClientPropose(n, s, command) \in Outcome(n)
<1> DEFINE e == [term |-> s.durable.term, command |-> command]
           target == [s.durable EXCEPT !.log = Append(@, e)]
           sent == SendAppends(n, s, target)
<1>1. s.durable \in Durable
  BY DEF Node
<1>2. e \in Entry
  BY <1>1 DEF Durable, Entry
<1>3. ClientPropose(n, s, command) =
        Emit(BeginWrite(sent.node, target, sent.send, "StateUpdate"), {})
  BY DEF ClientPropose
<1> HIDE DEF e
<1>4. Append(s.durable.log, e) \in Seq(Entry)
  BY <1>1, <1>2, AppendProperties DEF Durable
<1>5. target \in Durable
  BY <1>1, <1>4 DEF Durable
<1> HIDE DEF target
<1>6. sent.node \in Node(n) /\ sent.send \in SUBSET Message
  BY <1>5, SendAppendsType DEF Outcome
<1> HIDE DEF sent
<1> QED
  BY <1>3, <1>5, <1>6, BeginWriteType, EmitType DEF PersistKind

\* A heartbeat timer.
LEMMA HeartbeatTimeoutType ==
  ASSUME NEW n \in Server, NEW s \in Node(n)
  PROVE  HeartbeatTimeout(n, s) \in Outcome(n)
<1> DEFINE sent == SendAppends(n, s, s.durable)
           again == {s.inFlight[p] : p \in {q \in Peers(n) : s.inFlight[q] # Nil}}
<1>1. again \in SUBSET Message
  BY DEF Message, Node
<1>2. sent \in Outcome(n)
  BY SendAppendsType DEF Node
<1>3. HeartbeatTimeout(n, s) =
        IF s.role = "Leader" THEN [sent EXCEPT !.send = @ \cup again]
        ELSE Emit(s, {})
  BY DEF HeartbeatTimeout
<1> HIDE DEF sent, again
<1>4. [sent EXCEPT !.send = @ \cup again] \in Outcome(n)
  BY <1>1, <1>2 DEF Outcome
<1> QED
  BY <1>3, <1>4, EmitType

\* The merged log holds entries.
LEMMA MergedLogType ==
  ASSUME NEW d \in Durable, NEW m \in AppendEntries, PrevMatches(d, m)
  PROVE  MergedLog(d, m) \in Seq(Entry)
<1> DEFINE C == Conflicts(d, m)
           keep == IF C = {} THEN Len(d.log)
                   ELSE m.prevIndex + Min(C) - 1 - SnapshotIndex(d)
           held == SnapshotIndex(d) + keep - m.prevIndex
<1>1. /\ m.prevIndex \in Nat /\ m.prevTerm \in Nat /\ m.entries \in Seq(Entry)
      /\ d.log \in Seq(Entry)
  BY DEF AppendEntries, Durable
<1>2. SnapshotIndex(d) <= m.prevIndex /\ m.prevIndex <= LastIndex(d)
  BY <1>1, TermAtType, NilAssumption DEF PrevMatches
<1>3. /\ SnapshotIndex(d) \in Nat /\ LastIndex(d) = SnapshotIndex(d) + Len(d.log)
      /\ Len(d.log) \in Nat /\ Len(m.entries) \in Nat
      /\ DOMAIN m.entries = 1 .. Len(m.entries)
  BY <1>1, DurableType, LenProperties
<1>4. C \in SUBSET (1 .. Len(m.entries))
      /\ \A k \in C : m.prevIndex + k <= LastIndex(d)
  BY <1>3 DEF Conflicts
<1>5. MergedLog(d, m) =
        SubSeq(d.log, 1, keep) \o SubSeq(m.entries, held + 1, Len(m.entries))
  BY DEF MergedLog
<1> HIDE DEF C
<1>6. C # {} => Min(C) \in C
  <2>1. C \in SUBSET Nat
    BY <1>3, <1>4
  <2> QED
    BY <2>1, LeastNatural
<1>7. keep \in Nat /\ keep <= Len(d.log) /\ held \in Nat
  <2>1. CASE C = {}
    BY <1>1, <1>2, <1>3, <2>1
  <2>2. CASE C # {}
    <3> DEFINE k == Min(C)
    <3>1. k \in 1 .. Len(m.entries) /\ m.prevIndex + k <= LastIndex(d)
      BY <1>4, <1>6, <2>2
    <3> HIDE DEF k
    <3>2. keep = m.prevIndex + k - 1 - SnapshotIndex(d)
      BY <2>2 DEF k
    <3>3. /\ m.prevIndex + k - 1 - SnapshotIndex(d) \in Nat
          /\ m.prevIndex + k - 1 - SnapshotIndex(d) <= Len(d.log)
      BY <1>1, <1>2, <1>3, <3>1
    <3>4. SnapshotIndex(d) + (m.prevIndex + k - 1 - SnapshotIndex(d))
            - m.prevIndex \in Nat
      BY <1>1, <1>3, <3>1
    <3> QED
      BY <3>2, <3>3, <3>4
  <2> QED
    BY <2>1, <2>2
<1> HIDE DEF keep, held
<1>8. SubSeq(d.log, 1, keep) \in Seq(Entry)
  BY <1>1, <1>7, PieceOfEntries
<1>9. SubSeq(m.entries, held + 1, Len(m.entries)) \in Seq(Entry)
  <2> DEFINE a == held + 1
  <2>1. a \in Nat \ {0}
    BY <1>7
  <2> HIDE DEF a
  <2>2. SubSeq(m.entries, a, Len(m.entries)) \in Seq(Entry)
    BY <1>1, <1>3, <2>1, PieceOfEntries
  <2> QED
    BY <2>2 DEF a
<1> QED
  BY <1>5, <1>8, <1>9, ConcatProperties

\* An append request.
LEMMA RecvAppendType ==
  ASSUME NEW n \in Server, NEW s \in Node(n), NEW m \in AppendEntries
  PROVE  RecvAppend(n, s, m) \in Outcome(n)
<1> DEFINE d       == AdoptTerm(s.durable, m.term)
           prevOk  == PrevMatches(d, m)
           full    == prevOk /\ Overflows(d, m)
           success == prevOk /\ ~full /\ ~CommittedConflict(d, m)
           limit   == [d EXCEPT !.commit = CommitThrough(d, m, m.prevIndex)]
           merged  == [d EXCEPT !.log = MergedLog(d, m),
                                !.commit = CommitThrough(d, m, Covered(m))]
           target  == IF full THEN limit ELSE IF success THEN merged ELSE d
           hint    == IF full \/ success THEN LastIndex(d)
                      ELSE Hint(d, m, prevOk)
           reply(term, ok, next) ==
             [type |-> "AppendReply", from |-> n, to |-> m.from, term |-> term,
              success |-> ok, hint |-> next, id |-> m.id,
              matched |-> IF ok THEN Covered(m) ELSE 0]
<1>1. /\ m.from \in Server /\ m.term \in Nat /\ m.prevIndex \in Nat
      /\ m.id \in Nat /\ m.leaderCommit \in Nat /\ m.entries \in Seq(Entry)
      /\ s.durable \in Durable
  BY DEF AppendEntries, Node
<1>2. s.durable.term \in Nat /\ LastIndex(s.durable) \in Nat
  BY <1>1, DurableType DEF Durable
<1>3. d \in Durable
  BY <1>1, AdoptTermType
<1>4. RecvAppend(n, s, m) =
        IF m.term < s.durable.term
        THEN Emit(s, {reply(s.durable.term, FALSE, LastIndex(s.durable))})
        ELSE Respond(StepDown(n, s), target,
                     reply(target.term, success, hint), "StateUpdate")
  BY DEF RecvAppend
<1> HIDE DEF d
<1>5. Covered(m) \in Nat
  BY <1>1, LenProperties DEF Covered
<1>6. /\ CommitThrough(d, m, m.prevIndex) \in Nat
      /\ CommitThrough(d, m, Covered(m)) \in Nat
  BY <1>1, <1>3, <1>5 DEF CommitThrough, Durable
<1>7. prevOk => MergedLog(d, m) \in Seq(Entry)
  BY <1>3, MergedLogType
<1>8. limit \in Durable
  BY <1>3, <1>6 DEF Durable
<1>9. prevOk => merged \in Durable
  BY <1>3, <1>6, <1>7 DEF Durable
<1>10. target \in Durable
  BY <1>3, <1>8, <1>9
<1>11. hint \in Nat
  <2>1. d.commit \in Nat /\ SnapshotIndex(d) \in Nat /\ LastIndex(d) \in Nat
    BY <1>3, DurableType DEF Durable
  <2> QED
    BY <1>1, <2>1 DEF Hint
<1>12. target.term \in Nat
  BY <1>10 DEF Durable
<1>13. success \in BOOLEAN
  OBVIOUS
<1> HIDE DEF prevOk, full, success, limit, merged, target, hint
<1>14. /\ reply(s.durable.term, FALSE, LastIndex(s.durable)) \in Message
       /\ reply(target.term, success, hint) \in Message
  BY <1>1, <1>2, <1>5, <1>11, <1>12, <1>13 DEF AppendReply, Message
<1> HIDE DEF reply
<1>15. Emit(s, {reply(s.durable.term, FALSE, LastIndex(s.durable))})
         \in Outcome(n)
  <2>1. {reply(s.durable.term, FALSE, LastIndex(s.durable))} \in SUBSET Message
    BY <1>14, Zenon
  <2> QED
    BY <2>1, EmitType, Zenon
<1>16. Respond(StepDown(n, s), target, reply(target.term, success, hint),
               "StateUpdate") \in Outcome(n)
  BY <1>10, <1>14, StepDownType, RespondType DEF PersistKind
<1> QED
  BY <1>4, <1>15, <1>16, Zenon

\* A refusal moves next to a natural.
LEMMA BackOffType ==
  ASSUME NEW next \in Nat, NEW match \in Nat, NEW hint \in Nat
  PROVE  BackOff(next, match, hint) \in Nat
BY DEF BackOff

\* An acknowledged round is a round.
LEMMA AcknowledgeReadType ==
  ASSUME NEW n \in Server, NEW r \in ReadBarrier(n) \cup {Nil},
         NEW m \in AppendReply, NEW probe
  PROVE  AcknowledgeRead(r, m, probe) \in ReadBarrier(n) \cup {Nil}
<1>1. m.from \in Server
  BY DEF AppendReply
<1> QED
  BY <1>1 DEF AcknowledgeRead, ReadBarrier

\* The greater of two naturals is a natural.
LEMMA GreaterType ==
  ASSUME NEW a \in Nat, NEW b \in Nat
  PROVE  Max({a, b}) \in Nat /\ Max({a, b}) >= a /\ Max({a, b}) >= b
<1>1. {a, b} \in SUBSET Nat /\ {a, b} # {} /\ \A y \in {a, b} : y <= a + b
  OBVIOUS
<1>2. a + b \in Nat
  OBVIOUS
<1>3. Max({a, b}) \in {a, b} /\ \A y \in {a, b} : y <= Max({a, b})
  BY <1>1, <1>2, GreatestNatural
<1> QED
  BY <1>3

\* The end of a request is an index.
LEMMA CoveredType ==
  ASSUME NEW m \in AppendEntries
  PROVE  Covered(m) \in Nat
<1>1. m.prevIndex \in Nat /\ m.entries \in Seq(Entry)
  BY DEF AppendEntries
<1>2. Len(m.entries) \in Nat
  BY <1>1, LenProperties
<1> QED
  BY <1>1, <1>2 DEF Covered

\* An answered request.
LEMMA SettledType ==
  ASSUME NEW n \in Server, NEW s \in Node(n), NEW m \in AppendReply,
         m.from \in Peers(n), s.inFlight[m.from] # Nil
  PROVE  /\ Settled(s, m) \in Node(n)
         /\ Settled(s, m).halted = s.halted
         /\ Settled(s, m).role = s.role
         /\ Settled(s, m).votes = s.votes
         /\ Settled(s, m).durable = s.durable
         /\ Settled(s, m).pending = s.pending
         /\ Settled(s, m).inFlight = [s.inFlight EXCEPT ![m.from] = Nil]
         /\ Settled(s, m).snapInFlight = s.snapInFlight
<1> DEFINE p     == m.from
           probe == s.inFlight[p]
           match == Max({s.match[p], Covered(probe)})
           r     == AcknowledgeRead(s.read, m, probe)
           reach == Max({s.next[p], match + 1})
           back  == BackOff(s.next[p], s.match[p], m.hint)
           won   == [s EXCEPT !.inFlight[p] = Nil, !.read = r,
                              !.match[p] = match, !.next[p] = reach]
           lost  == [s EXCEPT !.inFlight[p] = Nil, !.next[p] = back]
<1>1. Settled(s, m) = IF m.success THEN won ELSE lost
  BY DEF Settled
<1>2. m.hint \in Nat /\ p \in Peers(n)
  BY DEF AppendReply
<1>3. s.match[p] \in Nat /\ s.next[p] \in Nat /\ probe \in AppendEntries
  BY <1>2 DEF Node
<1>4. Covered(probe) \in Nat
  BY <1>3, CoveredType, Zenon
<1>5. match \in Nat
  BY <1>3, <1>4, GreaterType
<1>6. r \in ReadBarrier(n) \cup {Nil}
  BY AcknowledgeReadType DEF Node
<1> HIDE DEF match
<1>7. reach \in Nat
  <2> DEFINE next == match + 1
  <2>1. next \in Nat
    BY <1>5
  <2> HIDE DEF next
  <2>2. Max({s.next[p], next}) \in Nat
    BY <1>3, <2>1, GreaterType
  <2> QED
    BY <2>2 DEF next
<1>8. back \in Nat
  BY <1>2, <1>3, BackOffType
<1> HIDE DEF r, reach, back
<1>9. won \in Node(n) /\ lost \in Node(n)
  BY <1>2, <1>5, <1>6, <1>7, <1>8 DEF Node
<1> DEFINE Kept(t) ==
             /\ t.halted = s.halted /\ t.role = s.role /\ t.votes = s.votes
             /\ t.durable = s.durable /\ t.pending = s.pending
             /\ t.inFlight = [s.inFlight EXCEPT ![m.from] = Nil]
             /\ t.snapInFlight = s.snapInFlight
<1>10. Kept(won) /\ Kept(lost)
  <2>1. Kept(won)
    BY DEF Node
  <2>2. Kept(lost)
    BY DEF Node
  <2> QED
    BY <2>1, <2>2, Zenon
<1> HIDE DEF won, lost
<1>11. Settled(s, m) \in {won, lost}
  BY <1>1
<1> QED
  BY <1>9, <1>10, <1>11

\* The reply to an append request.
LEMMA RecvAppendReplyType ==
  ASSUME NEW n \in Server, NEW s \in Node(n), NEW m \in AppendReply,
         m.from \in Peers(n)
  PROVE  RecvAppendReply(n, s, m) \in Outcome(n)
<1>1. AdoptHigherTerm(n, s, m.term) \in Outcome(n) /\ Emit(s, {}) \in Outcome(n)
  BY AdoptHigherTermType, EmitType DEF AppendReply
<1>2. CompleteRead(Emit(s, {})) \in Outcome(n)
  BY <1>1, CompleteReadType
<1>3. s.inFlight[m.from] # Nil =>
        CompleteRead(Emit(Settled(s, m), {})) \in Outcome(n)
  BY SettledType, EmitType, CompleteReadType
<1> QED
  BY <1>1, <1>2, <1>3, Zenon DEF RecvAppendReply

\* A leader's commit index.
LEMMA AdvanceCommitType ==
  ASSUME NEW n \in Server, NEW s \in Node(n)
  PROVE  AdvanceCommit(n, s) \in Outcome(n)
<1> DEFINE S == {s.durable.commit} \cup Committable(n, s)
<1>1. s.durable \in Durable
  BY DEF Node
<1>2. s.durable.commit \in Nat /\ LastIndex(s.durable) \in Nat
  BY <1>1, DurableType DEF Durable
<1>3. S \in SUBSET Nat /\ S # {}
      /\ \A y \in S : y <= s.durable.commit + LastIndex(s.durable)
  BY <1>2 DEF Committable
<1>4. s.durable.commit + LastIndex(s.durable) \in Nat
  BY <1>2
<1>5. HighestCommittable(n, s) \in Nat
  <2> HIDE DEF S
  <2>1. Max(S) \in S
    BY <1>3, <1>4, GreatestNatural
  <2> QED
    BY <1>3, <2>1 DEF HighestCommittable, S
<1>6. [s.durable EXCEPT !.commit = HighestCommittable(n, s)] \in Durable
  BY <1>1, <1>5 DEF Durable
<1> QED
  BY <1>6, BeginWriteType, EmitType DEF AdvanceCommit, PersistKind

\* One more applied entry.
LEMMA ApplyCommittedType ==
  ASSUME NEW n \in Server, NEW s \in Node(n)
  PROVE  ApplyCommitted(s) \in Outcome(n)
<1>1. s.durable \in Durable /\ s.durable.applied + 1 \in Nat
  BY DEF Node, Durable
<1>2. [s.durable EXCEPT !.applied = s.durable.applied + 1] \in Durable
  BY <1>1 DEF Durable
<1> QED
  BY <1>2, BeginWriteType, EmitType DEF ApplyCommitted, PersistKind

\* The committed prefix moved into the snapshot.
LEMMA CompactCommittedType ==
  ASSUME NEW n \in Server, NEW s \in Node(n), ValidDurable(s.durable)
  PROVE  CompactCommitted(s) \in Outcome(n)
<1> DEFINE d == s.durable
           removed == d.commit - SnapshotIndex(d)
<1>1. d \in Durable
  BY DEF Node
<1>2. /\ d.log \in Seq(Entry) /\ d.snapshot \in Seq(Entry) /\ d.commit \in Nat
      /\ d.applied \in Nat /\ SnapshotIndex(d) \in Nat /\ Len(d.log) \in Nat
      /\ LastIndex(d) = SnapshotIndex(d) + Len(d.log)
  BY <1>1, DurableType DEF Durable
<1>3. SnapshotIndex(d) <= d.applied /\ d.applied <= d.commit
      /\ d.commit <= LastIndex(d)
  BY DEF ValidDurable
<1> HIDE DEF d
<1>4. removed \in Nat /\ removed <= Len(d.log)
  BY <1>2, <1>3
<1>5. removed + 1 \in Nat \ {0} /\ removed \in Int
  BY <1>4
<1> HIDE DEF removed
<1>6. SubSeq(d.log, 1, removed) \in Seq(Entry)
  BY <1>2, <1>4, <1>5, PieceOfEntries
<1>7. SubSeq(d.log, removed + 1, Len(d.log)) \in Seq(Entry)
  <2> DEFINE a == removed + 1
  <2> HIDE DEF a
  <2>1. a \in Nat \ {0}
    BY <1>5 DEF a
  <2>2. SubSeq(d.log, a, Len(d.log)) \in Seq(Entry)
    BY <1>2, <2>1, PieceOfEntries
  <2> QED
    BY <2>2 DEF a
<1>8. d.snapshot \o SubSeq(d.log, 1, removed) \in Seq(Entry)
  BY <1>2, <1>6, ConcatProperties
<1>9. Compacted(d) \in Durable
  BY <1>1, <1>7, <1>8 DEF Compacted, Durable, removed
<1> QED
  BY <1>9, BeginWriteType, EmitType DEF CompactCommitted, PersistKind, d

\* The state an installed snapshot leaves.
LEMMA InstalledType ==
  ASSUME NEW d \in Durable, NEW m \in InstallSnapshot
  PROVE  Installed(d, m) \in Durable
<1> DEFINE index  == Len(m.snapshot)
           agrees == TermAt(d, index) = TermOfLast(m.snapshot)
           first  == index - SnapshotIndex(d) + 1
           rest   == IF agrees THEN SubSeq(d.log, first, Len(d.log)) ELSE <<>>
<1>1. m.snapshot \in Seq(Entry) /\ d.log \in Seq(Entry)
  BY DEF InstallSnapshot, Durable
<1>2. index \in Nat /\ SnapshotIndex(d) \in Nat /\ Len(d.log) \in Nat
      /\ TermOfLast(m.snapshot) \in Nat
  BY <1>1, DurableType, LenProperties
<1>3. Installed(d, m) = [d EXCEPT !.snapshot = m.snapshot, !.commit = index,
                                  !.applied = index, !.log = rest]
  BY DEF Installed
<1> HIDE DEF index
<1>4. agrees => SnapshotIndex(d) <= index
  <2>1. agrees => TermAt(d, index) # Nil
    BY <1>2, NilAssumption
  <2> QED
    BY <1>2, <2>1, TermAtType
<1>5. agrees => first \in Nat \ {0}
  BY <1>2, <1>4
<1> HIDE DEF first, agrees
<1>6. rest \in Seq(Entry)
  BY <1>1, <1>2, <1>5, PieceOfEntries
<1> HIDE DEF rest
<1> QED
  BY <1>1, <1>2, <1>3, <1>6 DEF Durable

\* A snapshot request, before and after the host verified the snapshot.
LEMMA RecvSnapshotType ==
  ASSUME NEW n \in Server, NEW s \in Node(n), NEW m \in InstallSnapshot,
         NEW ready \in BOOLEAN
  PROVE  RecvSnapshot(n, s, m, ready) \in Outcome(n)
<1> DEFINE d       == AdoptTerm(s.durable, m.term)
           index   == Len(m.snapshot)
           install == index > d.commit
           target  == IF install THEN Installed(d, m) ELSE d
           success == TermAt(target, index) = TermOfLast(m.snapshot)
           kind    == IF install THEN "SnapshotInstall" ELSE "StateUpdate"
           reply(term, ok) ==
             [type |-> "SnapshotReply", from |-> n, to |-> m.from,
              term |-> term, success |-> ok,
              index |-> IF ok THEN index ELSE 0, id |-> m.id]
<1>1. /\ m.from \in Server /\ m.term \in Nat /\ m.id \in Nat
      /\ m.snapshot \in Seq(Entry) /\ s.durable \in Durable
  BY DEF InstallSnapshot, Node
<1>2. s.durable.term \in Nat /\ index \in Nat
  BY <1>1, LenProperties DEF Durable
<1>3. d \in Durable
  BY <1>1, AdoptTermType
<1>4. RecvSnapshot(n, s, m, ready) =
        IF PredatesCommit(s.durable, m) THEN Emit(s, {})
        ELSE IF m.term < s.durable.term
        THEN Emit(s, {reply(s.durable.term, FALSE)})
        ELSE IF ready
        THEN Respond(StepDown(n, s), target, reply(target.term, success), kind)
        ELSE IF d # s.durable
        THEN Emit(BeginWrite(StepDown(n, s), d, {}, "StateUpdate"), {})
        ELSE Emit(StepDown(n, s), {})
  BY DEF RecvSnapshot
<1> HIDE DEF d
<1>5. target \in Durable
  BY <1>3, InstalledType
<1>6. target.term \in Nat
  BY <1>5 DEF Durable
<1>7. success \in BOOLEAN
  OBVIOUS
<1>8. kind \in PersistKind /\ "StateUpdate" \in PersistKind
  BY DEF PersistKind
<1> HIDE DEF install, target, success, kind, index
<1>9. /\ reply(s.durable.term, FALSE) \in Message
      /\ reply(target.term, success) \in Message
  BY <1>1, <1>2, <1>6, <1>7 DEF SnapshotReply, Message
<1> HIDE DEF reply
<1>10. /\ Emit(s, {}) \in Outcome(n)
       /\ Emit(s, {reply(s.durable.term, FALSE)}) \in Outcome(n)
       /\ Emit(StepDown(n, s), {}) \in Outcome(n)
  <2>1. {} \in SUBSET Message /\ {reply(s.durable.term, FALSE)} \in SUBSET Message
    BY <1>9, Zenon
  <2>2. StepDown(n, s) \in Node(n)
    BY StepDownType, Zenon
  <2> QED
    BY <2>1, <2>2, EmitType, Zenon
<1>11. Emit(BeginWrite(StepDown(n, s), d, {}, "StateUpdate"), {}) \in Outcome(n)
  BY <1>3, <1>8, StepDownType, BeginWriteType, EmitType
<1>12. Respond(StepDown(n, s), target, reply(target.term, success), kind)
         \in Outcome(n)
  BY <1>5, <1>8, <1>9, StepDownType, RespondType
<1> QED
  BY <1>4, <1>10, <1>11, <1>12, Zenon

\* The reply to a snapshot.
LEMMA RecvSnapshotReplyType ==
  ASSUME NEW n \in Server, NEW s \in Node(n), NEW m \in SnapshotReply,
         m.from \in Peers(n)
  PROVE  RecvSnapshotReply(n, s, m) \in Outcome(n)
<1> DEFINE p     == m.from
           probe == s.snapInFlight[p]
           match == Max({s.match[p], Len(probe.snapshot)})
           answers == /\ probe.id = m.id
                      /\ m.success => Len(probe.snapshot) = m.index
           moved == [s EXCEPT !.snapInFlight[p] = Nil, !.match[p] = match,
                              !.next[p] = match + 1]
           cleared == [s EXCEPT !.snapInFlight[p] = Nil]
<1>1. m.term \in Nat /\ p \in Peers(n)
  BY DEF SnapshotReply
<1>2. RecvSnapshotReply(n, s, m) =
        IF m.term > s.durable.term THEN AdoptHigherTerm(n, s, m.term)
        ELSE IF m.term # s.durable.term \/ s.role # "Leader" \/ probe = Nil
        THEN Emit(s, {})
        ELSE IF ~answers THEN Emit(s, {})
        ELSE IF m.success THEN Emit(moved, {})
        ELSE Emit(cleared, {})
  BY DEF RecvSnapshotReply
<1>3. AdoptHigherTerm(n, s, m.term) \in Outcome(n) /\ Emit(s, {}) \in Outcome(n)
  BY <1>1, AdoptHigherTermType, EmitType
<1>4. cleared \in Node(n)
  BY <1>1 DEF Node
<1>5. ASSUME probe # Nil PROVE moved \in Node(n)
  <2>1. probe \in InstallSnapshot /\ s.match[p] \in Nat
    BY <1>1, <1>5 DEF Node
  <2>2. Len(probe.snapshot) \in Nat
    BY <2>1, LenProperties DEF InstallSnapshot
  <2>3. match \in Nat
    BY <2>1, <2>2, GreaterType
  <2> HIDE DEF match
  <2>4. match + 1 \in Nat
    BY <2>3
  <2> QED
    BY <1>1, <2>3, <2>4 DEF Node
<1> HIDE DEF moved, cleared, answers
<1>6. Emit(cleared, {}) \in Outcome(n)
      /\ (probe # Nil => Emit(moved, {}) \in Outcome(n))
  BY <1>4, <1>5, EmitType
<1> QED
  BY <1>2, <1>3, <1>6, Zenon

\* A read round.
LEMMA BeginReadType ==
  ASSUME NEW n \in Server, NEW s \in Node(n)
  PROVE  BeginRead(n, s) \in Outcome(n)
<1> DEFINE round == [term |-> s.durable.term, index |-> s.durable.commit,
                     acks |-> {n}, probes |-> [p \in Peers(n) |-> 0]]
           node == [s EXCEPT !.read = round]
<1>1. s.durable \in Durable
  BY DEF Node
<1>2. round \in ReadBarrier(n)
  BY <1>1 DEF ReadBarrier, Durable
<1>3. BeginRead(n, s) = CompleteRead(SendAppends(n, node, s.durable))
  BY DEF BeginRead
<1> HIDE DEF round
<1>4. node \in Node(n)
  BY <1>2 DEF Node
<1> HIDE DEF node
<1> QED
  BY <1>1, <1>3, <1>4, SendAppendsType, CompleteReadType

\* A cancelled round.
LEMMA CancelReadType ==
  ASSUME NEW n \in Server, NEW s \in Node(n)
  PROVE  CancelRead(s) \in Outcome(n)
<1>1. [s EXCEPT !.read = Nil] \in Node(n)
  BY DEF Node
<1> QED
  BY <1>1, EmitType DEF CancelRead

===============================================================================
