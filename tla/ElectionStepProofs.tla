------------------------- MODULE ElectionStepProofs -------------------------
(***************************************************************************)
(* What each input of the transition core does to the vote, the leadership  *)
(* and the messages of its server.                                          *)
(***************************************************************************)
EXTENDS ElectionInvariant, RaftClusterProofs

-----------------------------------------------------------------------------
(* Ballots and the messages a server may send. *)

\* New messages only add ballots.
LEMMA BallotsGrow ==
  ASSUME NEW M, NEW S
  PROVE  Ballots(M \cup S) = Ballots(M) \cup Ballots(S)
BY DEF Ballots

\* The ballots in messages a server vouches for are its own vote.
LEMMA VouchedBallots ==
  ASSUME NEW n, NEW d, NEW role, NEW S, Vouched(n, d, role, S)
  PROVE  \A b \in Ballots(S) :
           b.voter = n /\ b.term = d.term /\ b.for = d.votedFor
BY DEF Vouched, Ballots

\* Only the term and the vote of the durable state matter.
LEMMA VouchedSame ==
  ASSUME NEW n, NEW d, NEW e, NEW role, NEW S, Vouched(n, d, role, S),
         e.term = d.term, e.votedFor = d.votedFor
  PROVE  Vouched(n, e, role, S)
BY DEF Vouched

\* Any two quorums share a server.
LEMMA QuorumsMeet ==
  ASSUME NEW P \in SUBSET Server, NEW Q \in SUBSET Server,
         IsQuorum(P), IsQuorum(Q)
  PROVE  P \cap Q # {}
<1>1. /\ Cardinality(Server) \in Nat
      /\ Cardinality(P) \in Nat
      /\ Cardinality(Q) \in Nat
  BY ServerAssumption, FS_Subset, FS_CardinalityType
<1>2. Cardinality(P) + Cardinality(Q) > Cardinality(Server)
  BY <1>1 DEF IsQuorum
<1> QED
  BY <1>2, ServerAssumption, FS_MajoritiesIntersect

-----------------------------------------------------------------------------
(* One core. *)

\* o is an outcome of an input of s that stays upright, sends only what the
\* unchanged term and vote vouch for, and counts no votes but those of V.
Decent(n, s, o, V) ==
  /\ Upright(n, o.node)
  /\ Vouched(n, s.durable, o.node.role, o.send)
  /\ o.node.durable = s.durable
  /\ o.node.votes \subseteq s.votes \cup V
  /\ o.node.halted => o.send = {}

\* A change of progress, of a read round or of request ids, or the end of a
\* request, leaves a core upright.
LEMMA UprightKept ==
  ASSUME NEW n, NEW s, NEW t, Upright(n, s),
         t.halted = s.halted, t.role = s.role, t.votes = s.votes,
         t.durable = s.durable, t.pending = s.pending,
         Vouched(n, s.durable, s.role, Outstanding(n, t))
  PROVE  Upright(n, t)
BY DEF Upright, StagedWell

\* A core that stepped down has nothing outstanding.
LEMMA DownIsQuiet ==
  ASSUME NEW n \in Server, NEW s \in Node(n)
  PROVE  /\ Outstanding(n, StepDown(n, s)) = {}
         /\ StepDown(n, s).role = "Follower"
         /\ StepDown(n, s).votes = {}
<1>1. /\ StepDown(n, s).inFlight = NoProbe(n)
      /\ StepDown(n, s).snapInFlight = NoProbe(n)
      /\ StepDown(n, s).role = "Follower"
      /\ StepDown(n, s).votes = {}
  BY DEF StepDown, Node
<1> QED
  BY <1>1 DEF Outstanding, NoProbe

\* Stepping down leaves a core upright.
LEMMA UprightDown ==
  ASSUME NEW n \in Server, NEW s \in Node(n), Upright(n, s), s.pending = Nil
  PROVE  Upright(n, StepDown(n, s))
<1>1. Vouched(n, s.durable, "Follower", {})
  BY DEF Vouched
<1> QED
  BY <1>1, DownIsQuiet, StepDownType DEF Upright

\* So does halting, whatever was staged.
LEMMA DecentHalt ==
  ASSUME NEW n \in Server, NEW s \in Node(n), NEW V
  PROVE  Decent(n, s, Emit(Halt(n, s), {}), V)
<1> DEFINE t == Halt(n, s)
           x == StepDown(n, s)
<1>1. x \in Node(n) /\ x.role = "Follower" /\ x.votes = {}
      /\ Outstanding(n, x) = {} /\ x.durable = s.durable
  BY DownIsQuiet, StepDownType
<1> HIDE DEF x
<1>2. t = [x EXCEPT !.pending = Nil, !.halted = TRUE]
  BY DEF Halt, x
<1>3. /\ t.role = "Follower" /\ t.votes = {} /\ t.pending = Nil
      /\ t.durable = s.durable
      /\ t.inFlight = x.inFlight /\ t.snapInFlight = x.snapInFlight
  BY <1>1, <1>2 DEF Node
<1> HIDE DEF t
<1>4. Outstanding(n, t) = {}
  BY <1>1, <1>3 DEF Outstanding
<1>5. Upright(n, t) /\ Vouched(n, s.durable, t.role, {})
  BY <1>3, <1>4 DEF Upright, Vouched
<1>6. Emit(t, {}).node = t /\ Emit(t, {}).send = {}
  BY DEF Emit
<1> QED
  BY <1>3, <1>5, <1>6 DEF Decent, t

\* Staging a write that keeps the vote.
LEMMA UprightWrite ==
  ASSUME NEW n \in Server, NEW s \in Node(n), Upright(n, s), ~s.halted,
         NEW target, NEW after, NEW kind,
         KeepsVote(s.durable, target), Vouched(n, target, s.role, after),
         target.term # s.durable.term => s.votes = {} /\ s.role # "Leader"
  PROVE  Upright(n, BeginWrite(s, target, after, kind))
<1> DEFINE w == [target |-> target, after |-> after, selfVote |-> FALSE,
                 kind |-> kind]
           t == BeginWrite(s, target, after, kind)
<1>1. /\ w.target = target /\ w.after = after /\ w.selfVote = FALSE
  OBVIOUS
<1>2. t = [s EXCEPT !.pending = w]
  BY DEF BeginWrite
<1> HIDE DEF w, t
<1>3. /\ t.pending = w /\ t.halted = s.halted /\ t.role = s.role
      /\ t.votes = s.votes /\ t.durable = s.durable
      /\ t.inFlight = s.inFlight /\ t.snapInFlight = s.snapInFlight
  BY <1>2 DEF Node
<1>4. StagedWell(n, t)
  BY <1>1, <1>3 DEF StagedWell
<1>5. Outstanding(n, t) = Outstanding(n, s)
  BY <1>3 DEF Outstanding
<1> QED
  BY <1>3, <1>4, <1>5 DEF Upright, t

\* Staging a write without counting votes is decent.
LEMMA DecentWrite ==
  ASSUME NEW n \in Server, NEW s \in Node(n), Upright(n, s), ~s.halted,
         NEW target, NEW after, NEW kind, NEW V,
         KeepsVote(s.durable, target), Vouched(n, target, s.role, after),
         target.term # s.durable.term => s.votes = {} /\ s.role # "Leader"
  PROVE  Decent(n, s, Emit(BeginWrite(s, target, after, kind), {}), V)
<1> DEFINE t == BeginWrite(s, target, after, kind)
<1>1. Upright(n, t)
  BY UprightWrite
<1>2. t.durable = s.durable /\ t.votes = s.votes
  BY DEF BeginWrite, Node
<1>3. Vouched(n, s.durable, t.role, {})
  BY DEF Vouched
<1> HIDE DEF t
<1>4. Emit(t, {}).node = t /\ Emit(t, {}).send = {}
  BY DEF Emit
<1> QED
  BY <1>1, <1>2, <1>3, <1>4 DEF Decent, t

\* So is sending nothing or a reply the durable state vouches for.
LEMMA DecentEmit ==
  ASSUME NEW n \in Server, NEW s \in Node(n), Upright(n, s), ~s.halted,
         NEW out, NEW V, Vouched(n, s.durable, s.role, out)
  PROVE  Decent(n, s, Emit(s, out), V)
BY DEF Decent, Emit

\* A reply that waits for its write.
LEMMA DecentRespond ==
  ASSUME NEW n \in Server, NEW s \in Node(n), Upright(n, s), ~s.halted,
         NEW target, NEW reply, NEW kind, NEW V,
         KeepsVote(s.durable, target), Vouched(n, target, s.role, {reply}),
         target.term # s.durable.term => s.votes = {} /\ s.role # "Leader"
  PROVE  Decent(n, s, Respond(s, target, reply, kind), V)
BY DecentWrite, DecentEmit DEF Respond

\* The outcome of a core that stepped down first.
LEMMA DecentDown ==
  ASSUME NEW n \in Server, NEW s \in Node(n), NEW o, NEW V,
         Decent(n, StepDown(n, s), o, {})
  PROVE  Decent(n, s, o, V)
BY DownIsQuiet, StepDownType DEF Decent

\* A term is adopted without a vote.
LEMMA AdoptKeepsVote ==
  ASSUME NEW d \in Durable, NEW t \in Nat
  PROVE  /\ KeepsVote(d, AdoptTerm(d, t))
         /\ AdoptTerm(d, t).term >= t
         /\ AdoptTerm(d, t).term >= d.term
         /\ t = d.term => AdoptTerm(d, t) = d
         /\ t <= d.term => AdoptTerm(d, t) = d
         /\ t > d.term => AdoptTerm(d, t).term = t /\ AdoptTerm(d, t).votedFor = Nil
BY DEF AdoptTerm, KeepsVote, Durable

\* A higher term heard in a reply.
LEMMA AdoptHigherTermDecent ==
  ASSUME NEW n \in Server, NEW s \in Node(n), Upright(n, s), ~s.halted,
         s.pending = Nil, NEW t \in Nat, NEW V
  PROVE  Decent(n, s, AdoptHigherTerm(n, s, t), V)
<1> DEFINE x == StepDown(n, s)
           target == AdoptTerm(s.durable, t)
<1>1. /\ x \in Node(n) /\ Upright(n, x) /\ ~x.halted /\ x.durable = s.durable
      /\ x.votes = {} /\ x.role = "Follower"
  BY StepDownType, UprightDown, DownIsQuiet
<1>2. KeepsVote(x.durable, target)
  BY <1>1, AdoptKeepsVote DEF Node
<1>3. AdoptHigherTerm(n, s, t) = Emit(BeginWrite(x, target, {}, "StateUpdate"), {})
  BY DEF AdoptHigherTerm
<1>4. Vouched(n, target, x.role, {})
  BY DEF Vouched
<1> HIDE DEF x, target
<1>5. Decent(n, x, AdoptHigherTerm(n, s, t), {})
  BY <1>1, <1>2, <1>3, <1>4, DecentWrite
<1> QED
  BY <1>5, DecentDown DEF x

\* What send_append sends or leaves outstanding is outstanding already, or is
\* a request of this server's in the term of d.
LEMMA SendAppendsSpeak ==
  ASSUME NEW n \in Server, NEW s \in Node(n), NEW d \in Durable
  PROVE  \A m \in SendAppends(n, s, d).send
                    \cup Outstanding(n, SendAppends(n, s, d).node) :
           \/ m \in Outstanding(n, s)
           \/ /\ m.type \in {"AppendEntries", "InstallSnapshot"}
              /\ m.from = n /\ m.term = d.term
<1> DEFINE o == SendAppends(n, s, d)
           request(p) == AppendRequest(n, s, d, p)
           install(p) == SnapshotNeeded(n, s, d, p)
<1>1. \A p \in Peers(n) :
        /\ request(p).type = "AppendEntries"
        /\ request(p).from = n /\ request(p).term = d.term
        /\ install(p).type = "InstallSnapshot"
        /\ install(p).from = n /\ install(p).term = d.term
  BY DEF AppendRequest, SnapshotNeeded
<1>2. \A m \in o.send :
        \/ \E p \in Peers(n) : m = request(p) \/ m = install(p)
        \/ \E p \in Peers(n) : m = s.snapInFlight[p] /\ m # Nil
  BY DEF SendAppends
<1>3. \A p \in Peers(n) :
        /\ o.node.inFlight[p] \in {request(p), s.inFlight[p]}
        /\ o.node.snapInFlight[p] \in {install(p), s.snapInFlight[p]}
  BY DEF SendAppends, Node
<1> HIDE DEF o, request, install
<1>4. \A p \in Peers(n) :
        /\ s.snapInFlight[p] # Nil => s.snapInFlight[p] \in Outstanding(n, s)
        /\ s.inFlight[p] # Nil => s.inFlight[p] \in Outstanding(n, s)
  BY DEF Outstanding
<1>5. \A m \in o.send :
        \/ m \in Outstanding(n, s)
        \/ /\ m.type \in {"AppendEntries", "InstallSnapshot"}
           /\ m.from = n /\ m.term = d.term
  BY <1>1, <1>2, <1>4
<1>6. \A m \in Outstanding(n, o.node) :
        \/ m \in Outstanding(n, s)
        \/ /\ m.type \in {"AppendEntries", "InstallSnapshot"}
           /\ m.from = n /\ m.term = d.term
  <2> SUFFICES ASSUME NEW m \in Outstanding(n, o.node)
               PROVE  \/ m \in Outstanding(n, s)
                      \/ /\ m.type \in {"AppendEntries", "InstallSnapshot"}
                         /\ m.from = n /\ m.term = d.term
    OBVIOUS
  <2>1. PICK p \in Peers(n) :
          m # Nil /\ (m = o.node.inFlight[p] \/ m = o.node.snapInFlight[p])
    BY DEF Outstanding
  <2> QED
    BY <1>1, <1>3, <1>4, <2>1
<1> QED
  BY <1>5, <1>6 DEF o

\* A leader's send_append: the same term, the same role, its own requests.
LEMMA SendAppendsVouched ==
  ASSUME NEW n \in Server, NEW s \in Node(n), NEW d \in Durable,
         s.role = "Leader", d.term = s.durable.term,
         Vouched(n, s.durable, s.role, Outstanding(n, s))
  PROVE  /\ Vouched(n, s.durable, s.role, SendAppends(n, s, d).send)
         /\ Vouched(n, s.durable, s.role,
                    Outstanding(n, SendAppends(n, s, d).node))
<1> DEFINE o == SendAppends(n, s, d)
           S == o.send \cup Outstanding(n, o.node)
<1>1. \A m \in S : \/ m \in Outstanding(n, s)
                   \/ /\ m.type \in {"AppendEntries", "InstallSnapshot"}
                      /\ m.from = n /\ m.term = d.term
  BY SendAppendsSpeak
<1> HIDE DEF o
<1>2. Vouched(n, s.durable, s.role, S)
  BY <1>1 DEF Vouched
<1> QED
  BY <1>2 DEF Vouched, o

\* A decent outcome of send_append on a leader.
LEMMA SendAppendsDecent ==
  ASSUME NEW n \in Server, NEW s \in Node(n), Upright(n, s), ~s.halted,
         s.role = "Leader", NEW V
  PROVE  Decent(n, s, SendAppends(n, s, s.durable), V)
<1> DEFINE o == SendAppends(n, s, s.durable)
<1>1. s.durable \in Durable
  BY DEF Node
<1>2. /\ Vouched(n, s.durable, s.role, o.send)
      /\ Vouched(n, s.durable, s.role, Outstanding(n, o.node))
  BY <1>1, SendAppendsVouched DEF Upright
<1>3. /\ o.node.durable = s.durable /\ o.node.role = s.role
      /\ o.node.votes = s.votes /\ o.node.pending = s.pending
      /\ o.node.halted = s.halted
  BY <1>1, SendAppendsType
<1> HIDE DEF o
<1>4. Upright(n, o.node)
  BY <1>2, <1>3, UprightKept
<1> QED
  BY <1>2, <1>3, <1>4 DEF Decent, o

\* A core that a quorum voted for becomes a leader.
LEMMA BecomeLeaderDecent ==
  ASSUME NEW n \in Server, NEW s \in Node(n), ~s.halted, s.pending = Nil,
         IsQuorum(s.votes), NEW V
  PROVE  Decent(n, s, BecomeLeader(n, s), V)
<1> DEFINE next == [p \in Peers(n) |-> LastIndex(s.durable) + 1]
           match == [p \in Peers(n) |-> 0]
           t == [s EXCEPT !.role = "Leader", !.next = next, !.match = match,
                          !.inFlight = NoProbe(n), !.snapInFlight = NoProbe(n)]
<1>1. s.durable \in Durable
  BY DEF Node
<1>2. next \in [Peers(n) -> Nat] /\ match \in [Peers(n) -> Nat]
  BY <1>1, DurableType
<1>3. BecomeLeader(n, s) = SendAppends(n, t, s.durable)
  BY DEF BecomeLeader
<1> HIDE DEF next, match
<1>4. t \in Node(n)
  BY <1>2 DEF Node, Role, NoProbe
<1>5. /\ t.role = "Leader" /\ t.votes = s.votes /\ t.pending = Nil
      /\ t.halted = s.halted /\ t.durable = s.durable
      /\ t.inFlight = NoProbe(n) /\ t.snapInFlight = NoProbe(n)
  BY DEF Node
<1> HIDE DEF t
<1>6. Outstanding(n, t) = {}
  BY <1>5 DEF Outstanding, NoProbe
<1>7. Upright(n, t)
  BY <1>5, <1>6 DEF Upright, Vouched
<1>8. Decent(n, t, SendAppends(n, t, t.durable), V)
  BY <1>4, <1>5, <1>7, SendAppendsDecent
<1> QED
  BY <1>3, <1>5, <1>8 DEF Decent

\* Becoming a leader does not halt.
LEMMA BecomeLeaderAwake ==
  ASSUME NEW n \in Server, NEW s \in Node(n), ~s.halted
  PROVE  ~BecomeLeader(n, s).node.halted
<1> DEFINE next == [p \in Peers(n) |-> LastIndex(s.durable) + 1]
           match == [p \in Peers(n) |-> 0]
           t == [s EXCEPT !.role = "Leader", !.next = next, !.match = match,
                          !.inFlight = NoProbe(n), !.snapInFlight = NoProbe(n)]
<1>1. s.durable \in Durable
  BY DEF Node
<1>2. next \in [Peers(n) -> Nat] /\ match \in [Peers(n) -> Nat]
  BY <1>1, DurableType
<1>3. BecomeLeader(n, s) = SendAppends(n, t, s.durable)
  BY DEF BecomeLeader
<1> HIDE DEF next, match
<1>4. t \in Node(n) /\ t.halted = s.halted
  BY <1>2 DEF Node, Role, NoProbe
<1> HIDE DEF t
<1> QED
  BY <1>1, <1>3, <1>4, SendAppendsType

\* A candidate counts a vote.
LEMMA CountVoteDecent ==
  ASSUME NEW n \in Server, NEW s \in Node(n), Upright(n, s), ~s.halted,
         s.pending = Nil, s.role = "Candidate", NEW v \in Server
  PROVE  Decent(n, s, CountVote(n, s, v), {v})
<1> DEFINE t == [s EXCEPT !.votes = s.votes \cup {v}]
<1>1. t \in Node(n)
  BY DEF Node
<1>2. /\ t.votes = s.votes \cup {v} /\ t.role = s.role /\ t.pending = s.pending
      /\ t.halted = s.halted /\ t.durable = s.durable
      /\ t.inFlight = s.inFlight /\ t.snapInFlight = s.snapInFlight
  BY DEF Node
<1>3. CountVote(n, s, v) =
        IF IsQuorum(t.votes) THEN BecomeLeader(n, t) ELSE Emit(t, {})
  BY DEF CountVote
<1> HIDE DEF t
<1>4. Outstanding(n, t) = Outstanding(n, s)
  BY <1>2 DEF Outstanding
<1>5. Upright(n, t)
  BY <1>2, <1>4 DEF Upright
<1>6. Vouched(n, t.durable, t.role, {})
  BY DEF Vouched
<1>7. Decent(n, t, CountVote(n, s, v), {})
  BY <1>1, <1>2, <1>3, <1>5, <1>6, BecomeLeaderDecent, DecentEmit
<1> QED
  BY <1>2, <1>7 DEF Decent

\* Answering a read is decent.
LEMMA CompleteReadDecent ==
  ASSUME NEW n \in Server, NEW s, NEW o \in Outcome(n), NEW V,
         Decent(n, s, o, V)
  PROVE  Decent(n, s, CompleteRead(o), V)
<1> DEFINE t == [o.node EXCEPT !.read = Nil]
<1>1. o.node \in Node(n)
  BY DEF Outcome
<1>2. /\ t.votes = o.node.votes /\ t.role = o.node.role
      /\ t.pending = o.node.pending /\ t.halted = o.node.halted
      /\ t.durable = o.node.durable
      /\ t.inFlight = o.node.inFlight /\ t.snapInFlight = o.node.snapInFlight
  BY <1>1 DEF Node
<1>3. ReadCovered(o.node) =>
        CompleteRead(o).node = t /\ CompleteRead(o).send = o.send
  BY DEF CompleteRead
<1> HIDE DEF t
<1>4. Outstanding(n, t) = Outstanding(n, o.node)
  BY <1>2 DEF Outstanding
<1>5. Upright(n, t)
  BY <1>2, <1>4, UprightKept DEF Decent, Upright
<1>6. CASE ReadCovered(o.node)
  BY <1>2, <1>3, <1>5, <1>6 DEF Decent
<1>7. CASE ~ReadCovered(o.node)
  BY <1>7 DEF CompleteRead
<1> QED
  BY <1>6, <1>7

-----------------------------------------------------------------------------
(* The inputs of a core. *)

\* A campaign stages a higher term, its own vote and the requests that tell.
LEMMA ElectionTimeoutDecent ==
  ASSUME NEW n \in Server, NEW s \in Node(n), Upright(n, s), ~s.halted,
         s.pending = Nil, NEW V
  PROVE  Decent(n, s, ElectionTimeout(n, s), V)
<1> DEFINE target == [s.durable EXCEPT !.term = @ + 1, !.votedFor = n]
           ballot(p) == [type |-> "RequestVote", from |-> n, to |-> p,
                         term |-> target.term, lastIndex |-> LastIndex(target),
                         lastTerm |-> LastTerm(target)]
           after == {ballot(p) : p \in Peers(n)}
           w == [target |-> target, after |-> after, selfVote |-> TRUE,
                 kind |-> "StateUpdate"]
           x == StepDown(n, s)
           t == [x EXCEPT !.role = "Candidate", !.pending = w]
<1>1. s.durable \in Durable
  BY DEF Node
<1>2. /\ target.term = s.durable.term + 1 /\ target.votedFor = n
      /\ s.durable.term \in Nat
  BY <1>1 DEF Durable
<1>3. ElectionTimeout(n, s) = Emit(t, {})
  BY DEF ElectionTimeout
<1> HIDE DEF target
<1>4. \A m \in after : m.type = "RequestVote" /\ m.from = n /\ m.term = target.term
  OBVIOUS
<1>5. Peers(n) # {} => after # {}
  OBVIOUS
<1> HIDE DEF after
<1>6. w.target = target /\ w.after = after /\ w.selfVote
  OBVIOUS
<1>7. /\ x \in Node(n) /\ Outstanding(n, x) = {} /\ x.votes = {}
      /\ x.durable = s.durable /\ x.halted = s.halted
  BY DownIsQuiet, StepDownType
<1> HIDE DEF w, x
<1>8. /\ t.role = "Candidate" /\ t.pending = w /\ t.votes = {}
      /\ t.durable = s.durable /\ t.halted = s.halted
      /\ t.inFlight = x.inFlight /\ t.snapInFlight = x.snapInFlight
  BY <1>7 DEF Node
<1> HIDE DEF t
<1>9. Outstanding(n, t) = {}
  BY <1>7, <1>8 DEF Outstanding
<1>10. KeepsVote(t.durable, w.target)
  BY <1>2, <1>6, <1>8 DEF KeepsVote
<1>11. Vouched(n, w.target, t.role, w.after)
  BY <1>2, <1>4, <1>6 DEF Vouched
<1>12. Peers(n) # {} => \E m \in w.after : m.type = "RequestVote"
  BY <1>4, <1>5, <1>6
<1>13. StagedWell(n, t)
  BY <1>2, <1>6, <1>8, <1>10, <1>11, <1>12 DEF StagedWell
<1>14. Upright(n, t)
  BY <1>8, <1>9, <1>13 DEF Upright, Vouched
<1>15. Vouched(n, s.durable, t.role, {})
  BY DEF Vouched
<1>16. Emit(t, {}).node = t /\ Emit(t, {}).send = {}
  BY DEF Emit
<1> QED
  BY <1>3, <1>8, <1>14, <1>15, <1>16 DEF Decent

\* A vote is granted only where it does not contradict the one cast.
LEMMA RecvRequestVoteDecent ==
  ASSUME NEW n \in Server, NEW s \in Node(n), Upright(n, s), ~s.halted,
         s.pending = Nil, NEW m \in RequestVote, NEW V
  PROVE  Decent(n, s, RecvRequestVote(n, s, m), V)
<1> DEFINE adopted == AdoptTerm(s.durable, m.term)
           grant   == MayGrant(adopted, m)
           target  == IF grant THEN [adopted EXCEPT !.votedFor = m.from]
                      ELSE adopted
           heard   == IF m.term > s.durable.term THEN StepDown(n, s) ELSE s
           reply(term, granted) ==
             [type |-> "VoteReply", from |-> n, to |-> m.from, term |-> term,
              granted |-> granted]
           answer == reply(target.term, grant)
           refusal == reply(s.durable.term, FALSE)
<1>1. m.from \in Server /\ m.term \in Nat /\ s.durable \in Durable
  BY DEF RequestVote, Node
<1>2. s.durable.term \in Nat /\ adopted \in Durable
  BY <1>1, AdoptTermType DEF Durable
<1>3. RecvRequestVote(n, s, m) =
        IF m.term < s.durable.term THEN Emit(s, {refusal})
        ELSE Respond(heard, target, answer, "StateUpdate")
  BY DEF RecvRequestVote
<1>4. KeepsVote(s.durable, adopted) /\ adopted.term >= s.durable.term
      /\ (m.term <= s.durable.term => adopted = s.durable)
  BY <1>1, <1>2, AdoptKeepsVote
<1>5. grant => adopted.votedFor \in {Nil, m.from}
  BY DEF MayGrant
<1> HIDE DEF adopted, grant
<1>6. target.term = adopted.term
      /\ target.votedFor = IF grant THEN m.from ELSE adopted.votedFor
  BY <1>2 DEF Durable
<1>7. Vouched(n, s.durable, s.role, {refusal})
  BY DEF Vouched
<1>8. \A role : Vouched(n, target, role, {answer})
  BY <1>6 DEF Vouched
<1> HIDE DEF target, answer, refusal
<1>9. KeepsVote(s.durable, target)
  BY <1>4, <1>5, <1>6 DEF KeepsVote
<1>10. CASE m.term < s.durable.term
  BY <1>3, <1>7, <1>10, DecentEmit
<1>11. CASE m.term = s.durable.term
  <2>1. heard = s /\ target.term = s.durable.term
    BY <1>1, <1>2, <1>4, <1>6, <1>11
  <2>2. Decent(n, s, Respond(s, target, answer, "StateUpdate"), V)
    BY <1>8, <1>9, <2>1, DecentRespond
  <2> QED
    BY <1>1, <1>2, <1>3, <1>11, <2>1, <2>2
<1>12. CASE m.term > s.durable.term
  <2> DEFINE x == StepDown(n, s)
  <2>1. heard = x
    BY <1>12
  <2>2. /\ x \in Node(n) /\ Upright(n, x) /\ ~x.halted
        /\ x.durable = s.durable /\ x.votes = {} /\ x.role = "Follower"
    BY StepDownType, UprightDown, DownIsQuiet
  <2> HIDE DEF x, heard
  <2>3. Decent(n, x, Respond(x, target, answer, "StateUpdate"), {})
    BY <1>8, <1>9, <2>2, DecentRespond
  <2>4. Decent(n, s, Respond(x, target, answer, "StateUpdate"), V)
    BY <2>3, DecentDown DEF x
  <2> QED
    BY <1>1, <1>2, <1>3, <1>12, <2>1, <2>4
<1> QED
  BY <1>1, <1>2, <1>10, <1>11, <1>12

\* A granted reply of the current term may be counted.
LEMMA RecvVoteReplyDecent ==
  ASSUME NEW n \in Server, NEW s \in Node(n), Upright(n, s), ~s.halted,
         s.pending = Nil, NEW m \in VoteReply, NEW V,
         m.granted /\ m.term = s.durable.term => m.from \in V
  PROVE  Decent(n, s, RecvVoteReply(n, s, m), V)
<1>1. m.term \in Nat /\ m.from \in Server
  BY DEF VoteReply
<1>2. Decent(n, s, AdoptHigherTerm(n, s, m.term), V)
  BY <1>1, AdoptHigherTermDecent
<1>3. Decent(n, s, Emit(s, {}), V)
  BY DecentEmit DEF Vouched
<1>4. ASSUME m.term = s.durable.term /\ m.granted /\ s.role = "Candidate"
      PROVE  Decent(n, s, CountVote(n, s, m.from), V)
  <2>1. Decent(n, s, CountVote(n, s, m.from), {m.from})
    BY <1>1, <1>4, CountVoteDecent
  <2> QED
    BY <1>4, <2>1 DEF Decent
<1> QED
  BY <1>2, <1>3, <1>4, Zenon DEF RecvVoteReply

\* A leader's proposal keeps term and vote.
LEMMA ClientProposeDecent ==
  ASSUME NEW n \in Server, NEW s \in Node(n), Upright(n, s), ~s.halted,
         s.pending = Nil, s.role = "Leader", NEW command \in Command, NEW V
  PROVE  Decent(n, s, ClientPropose(n, s, command), V)
<1> DEFINE e == [term |-> s.durable.term, command |-> command]
           target == [s.durable EXCEPT !.log = Append(@, e)]
           sent == SendAppends(n, s, target)
           x == sent.node
<1>1. s.durable \in Durable
  BY DEF Node
<1>2. e \in Entry
  BY <1>1 DEF Durable, Entry
<1>3. ClientPropose(n, s, command) =
        Emit(BeginWrite(x, target, sent.send, "StateUpdate"), {})
  BY DEF ClientPropose
<1> HIDE DEF e
<1>4. Append(s.durable.log, e) \in Seq(Entry)
  BY <1>1, <1>2, AppendProperties DEF Durable
<1>5. /\ target \in Durable /\ target.term = s.durable.term
      /\ target.votedFor = s.durable.votedFor
  BY <1>1, <1>4 DEF Durable
<1> HIDE DEF target
<1>6. /\ x \in Node(n) /\ x.durable = s.durable /\ x.role = s.role
      /\ x.votes = s.votes /\ x.pending = s.pending /\ x.halted = s.halted
  BY <1>5, SendAppendsType DEF Outcome
<1>7. /\ Vouched(n, s.durable, s.role, sent.send)
      /\ Vouched(n, s.durable, s.role, Outstanding(n, x))
  BY <1>5, SendAppendsVouched DEF Upright
<1> HIDE DEF sent, x
<1>8. Upright(n, x)
  BY <1>6, <1>7, UprightKept
<1>9. Vouched(n, target, x.role, sent.send)
  BY <1>5, <1>6, <1>7, VouchedSame
<1>10. KeepsVote(x.durable, target)
  BY <1>1, <1>5, <1>6 DEF KeepsVote, Durable
<1>11. Decent(n, x, ClientPropose(n, s, command), V)
  BY <1>3, <1>5, <1>6, <1>8, <1>9, <1>10, DecentWrite
<1> QED
  BY <1>6, <1>11 DEF Decent

\* A heartbeat repeats what is outstanding.
LEMMA HeartbeatTimeoutDecent ==
  ASSUME NEW n \in Server, NEW s \in Node(n), Upright(n, s), ~s.halted, NEW V
  PROVE  Decent(n, s, HeartbeatTimeout(n, s), V)
<1> DEFINE sent == SendAppends(n, s, s.durable)
           again == {s.inFlight[p] : p \in {q \in Peers(n) : s.inFlight[q] # Nil}}
           o == [sent EXCEPT !.send = @ \cup again]
<1>1. HeartbeatTimeout(n, s) = IF s.role = "Leader" THEN o ELSE Emit(s, {})
  BY DEF HeartbeatTimeout
<1>2. Decent(n, s, Emit(s, {}), V)
  BY DecentEmit DEF Vouched
<1>3. ASSUME s.role = "Leader" PROVE Decent(n, s, o, V)
  <2>1. sent \in Outcome(n)
    BY SendAppendsType DEF Node
  <2>2. Decent(n, s, sent, V)
    BY <1>3, SendAppendsDecent
  <2>3. again \subseteq Outstanding(n, s)
    BY DEF Outstanding
  <2>4. sent.node.role = s.role /\ sent.node.halted = s.halted
    BY SendAppendsType DEF Node
  <2> HIDE DEF sent, again
  <2>5. o.node = sent.node /\ o.send = sent.send \cup again
    BY <2>1 DEF Outcome
  <2>6. Vouched(n, s.durable, sent.node.role, sent.send \cup again)
    BY <2>2, <2>3, <2>4 DEF Decent, Upright, Vouched
  <2> QED
    BY <2>2, <2>4, <2>5, <2>6 DEF Decent
<1> QED
  BY <1>1, <1>2, <1>3, Zenon

\* A follower answers an append request, or any reply that is not a vote,
\* after adopting the leader's term.
LEMMA FollowDecent ==
  ASSUME NEW n \in Server, NEW s \in Node(n), Upright(n, s), ~s.halted,
         s.pending = Nil, NEW t \in Nat, NEW target, NEW reply, NEW kind, NEW V,
         target.term = AdoptTerm(s.durable, t).term,
         target.votedFor = AdoptTerm(s.durable, t).votedFor,
         reply.type \in {"AppendReply", "SnapshotReply"}
  PROVE  Decent(n, s, Respond(StepDown(n, s), target, reply, kind), V)
<1> DEFINE x == StepDown(n, s)
<1>1. /\ x \in Node(n) /\ Upright(n, x) /\ ~x.halted
      /\ x.durable = s.durable /\ x.votes = {} /\ x.role = "Follower"
  BY StepDownType, UprightDown, DownIsQuiet
<1>2. KeepsVote(s.durable, target)
  BY AdoptKeepsVote DEF Node, KeepsVote
<1>3. Vouched(n, target, x.role, {reply})
  BY DEF Vouched
<1> HIDE DEF x
<1>4. Decent(n, x, Respond(x, target, reply, kind), {})
  BY <1>1, <1>2, <1>3, DecentRespond
<1> QED
  BY <1>4, DecentDown DEF x

\* An append request changes the log and the term, never the vote of a term.
LEMMA RecvAppendDecent ==
  ASSUME NEW n \in Server, NEW s \in Node(n), Upright(n, s), ~s.halted,
         s.pending = Nil, NEW m \in AppendEntries, NEW V
  PROVE  Decent(n, s, RecvAppend(n, s, m), V)
<1> DEFINE d       == AdoptTerm(s.durable, m.term)
           prevOk  == PrevMatches(d, m)
           full    == prevOk /\ Overflows(d, m)
           success == prevOk /\ ~full /\ ~CommittedConflict(d, m)
           limit   == [d EXCEPT !.commit = CommitThrough(d, m, m.prevIndex)]
           merged  == [d EXCEPT !.log = MergedLog(d, m),
                                !.commit = CommitThrough(d, m, Covered(m))]
           target  == IF full THEN limit ELSE IF success THEN merged ELSE d
           hint    == IF full \/ success THEN LastIndex(d)
                      ELSE Hint(d, m, prevOk)
           reply(term, ok, next) ==
             [type |-> "AppendReply", from |-> n, to |-> m.from, term |-> term,
              success |-> ok, hint |-> next, id |-> m.id,
              matched |-> IF ok THEN Covered(m) ELSE 0]
           answer == reply(target.term, success, hint)
           refusal == reply(s.durable.term, FALSE, LastIndex(s.durable))
<1>1. m.term \in Nat /\ s.durable \in Durable
  BY DEF AppendEntries, Node
<1>2. RecvAppend(n, s, m) =
        IF m.term < s.durable.term THEN Emit(s, {refusal})
        ELSE Respond(StepDown(n, s), target, answer, "StateUpdate")
  BY DEF RecvAppend
<1>3. d \in Durable
  BY <1>1, AdoptTermType
<1>4. target.term = d.term /\ target.votedFor = d.votedFor
  <2> HIDE DEF d, full, success
  <2> QED
    BY <1>3 DEF Durable
<1>5. answer.type = "AppendReply" /\ refusal.type = "AppendReply"
  OBVIOUS
<1> HIDE DEF target, answer, refusal
<1>6. Vouched(n, s.durable, s.role, {refusal})
  BY <1>5 DEF Vouched
<1>7. Decent(n, s, Emit(s, {refusal}), V)
  BY <1>6, DecentEmit
<1>8. Decent(n, s, Respond(StepDown(n, s), target, answer, "StateUpdate"), V)
  BY <1>1, <1>4, <1>5, FollowDecent
<1> QED
  BY <1>2, <1>7, <1>8, Zenon

\* A write of the commit index, the applied index or the snapshot keeps term
\* and vote.
LEMMA DecentUpdate ==
  ASSUME NEW n \in Server, NEW s \in Node(n), Upright(n, s), ~s.halted,
         NEW target, NEW kind, NEW V,
         target.term = s.durable.term, target.votedFor = s.durable.votedFor
  PROVE  Decent(n, s, Emit(BeginWrite(s, target, {}, kind), {}), V)
<1>1. KeepsVote(s.durable, target)
  BY DEF KeepsVote, Node, Durable
<1>2. Vouched(n, target, s.role, {})
  BY DEF Vouched
<1> QED
  BY <1>1, <1>2, DecentWrite

\* Committing, applying and compacting are such writes.
LEMMA MaintenanceDecent ==
  ASSUME NEW n \in Server, NEW s \in Node(n), Upright(n, s), ~s.halted, NEW V
  PROVE  /\ Decent(n, s, AdvanceCommit(n, s), V)
         /\ Decent(n, s, ApplyCommitted(s), V)
         /\ Decent(n, s, CompactCommitted(s), V)
<1>1. Decent(n, s, Emit(s, {}), V)
  BY DecentEmit DEF Vouched
<1> DEFINE d == s.durable
           committed == [d EXCEPT !.commit = HighestCommittable(n, s)]
           applied == [d EXCEPT !.applied = @ + 1]
           compacted == Compacted(d)
<1>2. d \in Durable
  BY DEF Node
<1>3. /\ committed.term = d.term /\ committed.votedFor = d.votedFor
      /\ applied.term = d.term /\ applied.votedFor = d.votedFor
      /\ compacted.term = d.term /\ compacted.votedFor = d.votedFor
  BY <1>2 DEF Durable, Compacted
<1>4. AdvanceCommit(n, s) =
        IF s.role = "Leader" /\ HighestCommittable(n, s) > d.commit
        THEN Emit(BeginWrite(s, committed, {}, "StateUpdate"), {})
        ELSE Emit(s, {})
  BY DEF AdvanceCommit
<1>5. ApplyCommitted(s) =
        IF d.applied < d.commit
        THEN Emit(BeginWrite(s, applied, {}, "StateUpdate"), {})
        ELSE Emit(s, {})
  BY DEF ApplyCommitted
<1>6. CompactCommitted(s) =
        IF d.applied = d.commit /\ d.commit # SnapshotIndex(d)
        THEN Emit(BeginWrite(s, compacted, {}, "LocalCompaction"), {})
        ELSE Emit(s, {})
  BY DEF CompactCommitted
<1> HIDE DEF committed, applied, compacted
<1>7. /\ Decent(n, s, Emit(BeginWrite(s, committed, {}, "StateUpdate"), {}), V)
      /\ Decent(n, s, Emit(BeginWrite(s, applied, {}, "StateUpdate"), {}), V)
      /\ Decent(n, s, Emit(BeginWrite(s, compacted, {}, "LocalCompaction"), {}), V)
  BY <1>3, DecentUpdate
<1> QED
  BY <1>1, <1>4, <1>5, <1>6, <1>7, Zenon

\* A request that was answered is no longer outstanding.
LEMMA SettledUpright ==
  ASSUME NEW n \in Server, NEW s \in Node(n), Upright(n, s), ~s.halted,
         NEW t, NEW V,
         t.halted = s.halted, t.role = s.role, t.votes = s.votes,
         t.durable = s.durable, t.pending = s.pending,
         \A p \in Peers(n) : /\ t.inFlight[p] \in {s.inFlight[p], Nil}
                             /\ t.snapInFlight[p] \in {s.snapInFlight[p], Nil}
  PROVE  Decent(n, s, Emit(t, {}), V)
<1>1. Outstanding(n, t) \subseteq Outstanding(n, s)
  BY DEF Outstanding
<1>2. Vouched(n, s.durable, s.role, Outstanding(n, t))
  BY <1>1 DEF Upright, Vouched
<1>3. Upright(n, t)
  BY <1>2, UprightKept
<1>4. Vouched(n, s.durable, t.role, {})
  BY DEF Vouched
<1> QED
  BY <1>3, <1>4 DEF Decent, Emit

\* The reply to an append request.
LEMMA RecvAppendReplyDecent ==
  ASSUME NEW n \in Server, NEW s \in Node(n), Upright(n, s), ~s.halted,
         s.pending = Nil, NEW m \in AppendReply, m.from \in Peers(n), NEW V
  PROVE  Decent(n, s, RecvAppendReply(n, s, m), V)
<1>1. Decent(n, s, Emit(s, {}), V) /\ Emit(s, {}) \in Outcome(n)
  BY DecentEmit, EmitType DEF Vouched
<1>2. Decent(n, s, AdoptHigherTerm(n, s, m.term), V)
  BY AdoptHigherTermDecent DEF AppendReply
<1>3. Decent(n, s, CompleteRead(Emit(s, {})), V)
  BY <1>1, CompleteReadDecent
<1>4. ASSUME s.inFlight[m.from] # Nil
      PROVE  Decent(n, s, CompleteRead(Emit(Settled(s, m), {})), V)
  <2> DEFINE t == Settled(s, m)
  <2>1. /\ t \in Node(n) /\ t.halted = s.halted /\ t.role = s.role
        /\ t.votes = s.votes /\ t.durable = s.durable /\ t.pending = s.pending
        /\ t.inFlight = [s.inFlight EXCEPT ![m.from] = Nil]
        /\ t.snapInFlight = s.snapInFlight
    BY <1>4, SettledType
  <2> HIDE DEF t
  <2>2. \A q \in Peers(n) : /\ t.inFlight[q] \in {s.inFlight[q], Nil}
                            /\ t.snapInFlight[q] \in {s.snapInFlight[q], Nil}
    BY <2>1 DEF Node
  <2>3. Decent(n, s, Emit(t, {}), V)
    BY <2>1, <2>2, SettledUpright
  <2>4. Emit(t, {}) \in Outcome(n)
    BY <2>1, EmitType
  <2> QED
    BY <2>3, <2>4, CompleteReadDecent DEF t
<1> QED
  BY <1>1, <1>2, <1>3, <1>4, Zenon DEF RecvAppendReply

\* A snapshot request, before and after the host verified the snapshot.
LEMMA RecvSnapshotDecent ==
  ASSUME NEW n \in Server, NEW s \in Node(n), Upright(n, s), ~s.halted,
         s.pending = Nil, NEW m \in InstallSnapshot, NEW ready \in BOOLEAN, NEW V
  PROVE  Decent(n, s, RecvSnapshot(n, s, m, ready), V)
<1> DEFINE d       == AdoptTerm(s.durable, m.term)
           index   == Len(m.snapshot)
           install == index > d.commit
           target  == IF install THEN Installed(d, m) ELSE d
           success == TermAt(target, index) = TermOfLast(m.snapshot)
           kind    == IF install THEN "SnapshotInstall" ELSE "StateUpdate"
           reply(term, ok) ==
             [type |-> "SnapshotReply", from |-> n, to |-> m.from,
              term |-> term, success |-> ok,
              index |-> IF ok THEN index ELSE 0, id |-> m.id]
           answer  == reply(target.term, success)
           refusal == reply(s.durable.term, FALSE)
           x       == StepDown(n, s)
<1>1. m.term \in Nat /\ s.durable \in Durable
  BY DEF InstallSnapshot, Node
<1>2. d \in Durable
  BY <1>1, AdoptTermType
<1>3. RecvSnapshot(n, s, m, ready) =
        IF PredatesCommit(s.durable, m) THEN Emit(s, {})
        ELSE IF m.term < s.durable.term THEN Emit(s, {refusal})
        ELSE IF ready THEN Respond(x, target, answer, kind)
        ELSE IF d # s.durable THEN Emit(BeginWrite(x, d, {}, "StateUpdate"), {})
        ELSE Emit(x, {})
  BY DEF RecvSnapshot
<1>4. target.term = d.term /\ target.votedFor = d.votedFor
  <2> HIDE DEF d, install
  <2> QED
    BY <1>2 DEF Durable, Installed
<1>5. answer.type = "SnapshotReply" /\ refusal.type = "SnapshotReply"
  OBVIOUS
<1>6. KeepsVote(s.durable, d)
  BY <1>1, AdoptKeepsVote
<1> HIDE DEF target, answer, refusal, kind
<1>7. Decent(n, s, Emit(s, {}), V) /\ Decent(n, s, Emit(s, {refusal}), V)
  <2>1. Vouched(n, s.durable, s.role, {}) /\ Vouched(n, s.durable, s.role, {refusal})
    BY <1>5 DEF Vouched
  <2> QED
    BY <2>1, DecentEmit
<1>8. Decent(n, s, Respond(x, target, answer, kind), V)
  BY <1>1, <1>4, <1>5, FollowDecent
<1> HIDE DEF d
<1>9. /\ x \in Node(n) /\ Upright(n, x) /\ ~x.halted
      /\ x.durable = s.durable /\ x.votes = {} /\ x.role = "Follower"
  BY StepDownType, UprightDown, DownIsQuiet
<1>10. Vouched(n, d, x.role, {}) /\ Vouched(n, x.durable, x.role, {})
  BY DEF Vouched
<1> HIDE DEF x
<1>11. /\ Decent(n, x, Emit(BeginWrite(x, d, {}, "StateUpdate"), {}), {})
       /\ Decent(n, x, Emit(x, {}), {})
  BY <1>6, <1>9, <1>10, DecentWrite, DecentEmit
<1>12. /\ Decent(n, s, Emit(BeginWrite(x, d, {}, "StateUpdate"), {}), V)
       /\ Decent(n, s, Emit(x, {}), V)
  BY <1>11, DecentDown DEF x
<1> QED
  BY <1>3, <1>7, <1>8, <1>12, Zenon

\* The reply to a snapshot.
LEMMA RecvSnapshotReplyDecent ==
  ASSUME NEW n \in Server, NEW s \in Node(n), Upright(n, s), ~s.halted,
         s.pending = Nil, NEW m \in SnapshotReply, m.from \in Peers(n), NEW V
  PROVE  Decent(n, s, RecvSnapshotReply(n, s, m), V)
<1> DEFINE p     == m.from
           probe == s.snapInFlight[p]
           match == Max({s.match[p], Len(probe.snapshot)})
           answers == /\ probe.id = m.id
                      /\ m.success => Len(probe.snapshot) = m.index
           moved == [s EXCEPT !.snapInFlight[p] = Nil, !.match[p] = match,
                              !.next[p] = match + 1]
           cleared == [s EXCEPT !.snapInFlight[p] = Nil]
<1>1. m.term \in Nat
  BY DEF SnapshotReply
<1>2. RecvSnapshotReply(n, s, m) =
        IF m.term > s.durable.term THEN AdoptHigherTerm(n, s, m.term)
        ELSE IF m.term # s.durable.term \/ s.role # "Leader" \/ probe = Nil
        THEN Emit(s, {})
        ELSE IF ~answers THEN Emit(s, {})
        ELSE IF m.success THEN Emit(moved, {})
        ELSE Emit(cleared, {})
  BY DEF RecvSnapshotReply
<1> HIDE DEF match, answers
<1>3. \A t \in {moved, cleared} :
        /\ t.halted = s.halted /\ t.role = s.role /\ t.votes = s.votes
        /\ t.durable = s.durable /\ t.pending = s.pending
        /\ t.inFlight = s.inFlight
        /\ t.snapInFlight = [s.snapInFlight EXCEPT ![p] = Nil]
  BY DEF Node
<1> HIDE DEF moved, cleared
<1>4. \A t \in {moved, cleared} : \A q \in Peers(n) :
        /\ t.inFlight[q] \in {s.inFlight[q], Nil}
        /\ t.snapInFlight[q] \in {s.snapInFlight[q], Nil}
  BY <1>3 DEF Node
<1>5. \A t \in {moved, cleared} : Decent(n, s, Emit(t, {}), V)
  BY <1>3, <1>4, SettledUpright
<1>6. Decent(n, s, Emit(s, {}), V)
  BY DecentEmit DEF Vouched
<1>7. Decent(n, s, AdoptHigherTerm(n, s, m.term), V)
  BY <1>1, AdoptHigherTermDecent
<1> QED
  BY <1>2, <1>5, <1>6, <1>7, Zenon

\* A read round of a leader.
LEMMA BeginReadDecent ==
  ASSUME NEW n \in Server, NEW s \in Node(n), Upright(n, s), ~s.halted,
         s.role = "Leader", NEW V
  PROVE  Decent(n, s, BeginRead(n, s), V)
<1> DEFINE round == [term |-> s.durable.term, index |-> s.durable.commit,
                     acks |-> {n}, probes |-> [p \in Peers(n) |-> 0]]
           t == [s EXCEPT !.read = round]
<1>1. s.durable \in Durable
  BY DEF Node
<1>2. round \in ReadBarrier(n)
  BY <1>1 DEF ReadBarrier, Durable
<1>3. BeginRead(n, s) = CompleteRead(SendAppends(n, t, s.durable))
  BY DEF BeginRead
<1> HIDE DEF round
<1>4. /\ t \in Node(n) /\ t.halted = s.halted /\ t.role = s.role
      /\ t.votes = s.votes /\ t.durable = s.durable /\ t.pending = s.pending
      /\ t.inFlight = s.inFlight /\ t.snapInFlight = s.snapInFlight
  BY <1>2 DEF Node
<1> HIDE DEF t
<1>5. Outstanding(n, t) = Outstanding(n, s)
  BY <1>4 DEF Outstanding
<1>6. Upright(n, t)
  BY <1>4, <1>5, UprightKept DEF Upright
<1>7. Decent(n, t, SendAppends(n, t, t.durable), V)
  BY <1>4, <1>6, SendAppendsDecent
<1>8. Decent(n, t, BeginRead(n, s), V)
  BY <1>1, <1>3, <1>4, <1>7, SendAppendsType, CompleteReadDecent
<1> QED
  BY <1>4, <1>8 DEF Decent

\* A cancelled read.
LEMMA CancelReadDecent ==
  ASSUME NEW n \in Server, NEW s \in Node(n), Upright(n, s), ~s.halted, NEW V
  PROVE  Decent(n, s, CancelRead(s), V)
<1> DEFINE t == [s EXCEPT !.read = Nil]
<1>1. /\ t.halted = s.halted /\ t.role = s.role /\ t.votes = s.votes
      /\ t.durable = s.durable /\ t.pending = s.pending
      /\ t.inFlight = s.inFlight /\ t.snapInFlight = s.snapInFlight
  BY DEF Node
<1> HIDE DEF t
<1>2. Decent(n, s, Emit(t, {}), V)
  BY <1>1, SettledUpright
<1> QED
  BY <1>2 DEF CancelRead, t

\* A completed write: what was staged is durable, what waited for it is sent,
\* and only a vote for itself is newly counted.
LEMMA PersistCompletedDecent ==
  ASSUME NEW n \in Server, NEW s \in Node(n), Upright(n, s), s.pending # Nil
  PROVE  LET o == PersistCompleted(n, s)
             target == s.pending.target
         IN /\ Upright(n, o.node)
            /\ ~o.node.halted
            /\ o.node.durable = target
            /\ Vouched(n, target, o.node.role, o.send)
            /\ \A v \in o.node.votes :
                 \/ v \in s.votes /\ target.term = s.durable.term
                 \/ /\ v = n
                    /\ Peers(n) # {} =>
                         [voter |-> n, term |-> target.term, for |-> n]
                           \in Ballots(o.send)
<1> DEFINE w == s.pending
           target == w.target
           stored == [s EXCEPT !.pending = Nil, !.durable = target]
           sent == Emit(stored, w.after)
           done == CompleteRead(sent)
           voted == CountVote(n, done.node, n)
           o == PersistCompleted(n, s)
<1>1. w \in PendingWrite /\ ~s.halted /\ StagedWell(n, s)
  BY DEF Node, Upright
<1>2. target \in Durable /\ w.after \in SUBSET Message
  BY <1>1 DEF PendingWrite
<1>3. o = IF w.selfVote
          THEN [voted EXCEPT !.send = @ \cup done.send, !.ready = done.ready]
          ELSE done
  BY DEF PersistCompleted
<1>4. /\ KeepsVote(s.durable, target)
      /\ Vouched(n, target, s.role, w.after)
      /\ target.term # s.durable.term => s.votes = {} /\ s.role # "Leader"
      /\ w.selfVote =>
           /\ s.votes = {}
           /\ s.role = "Candidate"
           /\ target.votedFor = n
           /\ Peers(n) # {} => \E m \in w.after : m.type = "RequestVote"
  BY <1>1 DEF StagedWell
<1> HIDE DEF target
<1>5. /\ stored \in Node(n) /\ stored.role = s.role /\ stored.votes = s.votes
      /\ stored.halted = s.halted /\ stored.pending = Nil
      /\ stored.durable = target
      /\ stored.inFlight = s.inFlight /\ stored.snapInFlight = s.snapInFlight
  BY <1>2 DEF Node
<1>6. Vouched(n, target, s.role, Outstanding(n, s))
  <2>1. \A m \in Outstanding(n, s) : m.type \in {"AppendEntries", "InstallSnapshot"}
    BY DEF Outstanding, Node, AppendEntries, InstallSnapshot
  <2>2. \A m \in Outstanding(n, s) :
          m.from = n /\ m.term = s.durable.term /\ s.role = "Leader"
    BY <2>1 DEF Upright, Vouched
  <2> QED
    BY <1>4, <2>1, <2>2 DEF Vouched
<1> HIDE DEF stored
<1>7. Outstanding(n, stored) = Outstanding(n, s)
  BY <1>5 DEF Outstanding
<1>8. Upright(n, stored)
  BY <1>1, <1>5, <1>6, <1>7 DEF Upright
<1>9. Decent(n, stored, sent, {}) /\ sent \in Outcome(n)
      /\ sent.node = stored /\ sent.send = w.after
  BY <1>1, <1>2, <1>4, <1>5, <1>8, DecentEmit, EmitType
<1> HIDE DEF sent
<1>10. Decent(n, stored, done, {}) /\ done \in Outcome(n) /\ done.send = w.after
  BY <1>9, CompleteReadDecent, CompleteReadType
<1>11. ~done.node.halted
  BY <1>1, <1>5, <1>9 DEF CompleteRead, Outcome, Node
<1>12. CASE ~w.selfVote
  <2>1. o = done
    BY <1>3, <1>12
  <2>2. \A v \in done.node.votes : v \in s.votes /\ target.term = s.durable.term
    BY <1>4, <1>5, <1>10 DEF Decent
  <2> HIDE DEF o
  <2> QED
    BY <1>5, <1>10, <1>11, <2>1, <2>2 DEF Decent, o, target
<1>13. CASE w.selfVote
  <2> HIDE DEF done
  <2>1. done = sent
    BY <1>4, <1>5, <1>9, <1>13 DEF CompleteRead, ReadCovered, done
  <2> DEFINE count == CountVote(n, stored, n)
  <2>2. Decent(n, stored, count, {n}) /\ count \in Outcome(n)
    BY <1>1, <1>4, <1>5, <1>8, <1>13, CountVoteDecent, CountVoteType
  <2>3. ~count.node.halted
    <3>1. ~[stored EXCEPT !.votes = @ \cup {n}].halted
          /\ [stored EXCEPT !.votes = @ \cup {n}] \in Node(n)
      BY <1>1, <1>5 DEF Node
    <3> QED
      BY <3>1, BecomeLeaderAwake DEF CountVote, Emit
  <2>4. o.node = count.node /\ o.send = count.send \cup w.after
    BY <1>3, <1>9, <1>13, <2>1, <2>2 DEF Outcome
  <2>5. Vouched(n, target, count.node.role, count.send \cup w.after)
    BY <1>4, <1>5, <1>13, <2>2 DEF Decent, Vouched
  <2>6. Peers(n) # {} =>
          [voter |-> n, term |-> target.term, for |-> n] \in Ballots(w.after)
    BY <1>4, <1>13 DEF Vouched, Ballots
  <2>7. \A v \in count.node.votes : v = n
    BY <1>4, <1>5, <1>13, <2>2 DEF Decent
  <2>8. Upright(n, count.node) /\ count.node.durable = target
    BY <1>5, <2>2 DEF Decent
  <2> HIDE DEF o, count
  <2>9. Ballots(o.send) = Ballots(count.send) \cup Ballots(w.after)
    BY <2>4, BallotsGrow
  <2> QED
    BY <2>3, <2>4, <2>5, <2>6, <2>7, <2>8, <2>9 DEF o, target
<1> QED
  BY <1>12, <1>13

===============================================================================
