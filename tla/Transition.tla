------------------------------ MODULE Transition ------------------------------
(***************************************************************************)
(* The pure transition core, raft::step (src/raft/transition.cpp): one      *)
(* operator per input of the core.  Each takes the local server n, its node *)
(* s and the input, and returns the node after the step with the effects    *)
(* the core hands to its host.  The cluster modules turn these operators    *)
(* into actions.                                                            *)
(*                                                                          *)
(* Data abstractions.  A command is a model value.  An application snapshot *)
(* is the sequence of entries whose effect it holds, so snapshot_index is   *)
(* its length and snapshot_term the term of its last entry.  Request ids    *)
(* are only ever compared with ids sent to the same peer, so each peer has  *)
(* a counter of its own.  A vote reply's id is never compared and is left   *)
(* out.  One write is outstanding at a time, so tokens are left out: a      *)
(* completion with another token changes nothing.                           *)
(***************************************************************************)
EXTENDS Integers, Sequences, FiniteSets, FiniteSetsExt

CONSTANTS
  Server,      \* the fixed membership: config.self and config.peers
  Command,     \* the commands clients propose
  Nil,         \* std::nullopt
  MaxEntries   \* EntryLog::kMaximumEntries, the retained window

ASSUME ServerAssumption == IsFiniteSet(Server) /\ Server # {}
ASSUME NilAssumption == Nil \notin Server /\ Nil \notin Nat
ASSUME MaxEntriesAssumption == MaxEntries \in Nat \ {0}

-----------------------------------------------------------------------------
(* The data of the core. *)

Role == {"Follower", "Candidate", "Leader"}

Entry == [term : Nat, command : Command]

Durable ==
  [term : Nat, votedFor : Server \cup {Nil}, log : Seq(Entry),
   commit : Nat, applied : Nat, snapshot : Seq(Entry)]

RequestVote ==
  [type : {"RequestVote"}, from : Server, to : Server, term : Nat,
   lastIndex : Nat, lastTerm : Nat]

VoteReply ==
  [type : {"VoteReply"}, from : Server, to : Server, term : Nat,
   granted : BOOLEAN]

AppendEntries ==
  [type : {"AppendEntries"}, from : Server, to : Server, term : Nat,
   prevIndex : Nat, prevTerm : Nat, entries : Seq(Entry),
   leaderCommit : Nat, id : Nat]

AppendReply ==
  [type : {"AppendReply"}, from : Server, to : Server, term : Nat,
   success : BOOLEAN, hint : Nat, id : Nat, matched : Nat]

InstallSnapshot ==
  [type : {"InstallSnapshot"}, from : Server, to : Server, term : Nat,
   snapshot : Seq(Entry), id : Nat]

SnapshotReply ==
  [type : {"SnapshotReply"}, from : Server, to : Server, term : Nat,
   success : BOOLEAN, index : Nat, id : Nat]

Message ==
  RequestVote \cup VoteReply \cup AppendEntries \cup AppendReply
    \cup InstallSnapshot \cup SnapshotReply

PersistKind == {"StateUpdate", "LocalCompaction", "SnapshotInstall"}

PendingWrite ==
  [target : Durable, after : SUBSET Message, selfVote : BOOLEAN,
   kind : PersistKind]

Peers(n) == Server \ {n}

\* A read round.  probes[p] is the id of the eligible probe to p, 0 for none.
ReadBarrier(n) ==
  [term : Nat, index : Nat, acks : SUBSET Server, probes : [Peers(n) -> Nat]]

Node(n) ==
  [durable : Durable, role : Role, votes : SUBSET Server,
   next : [Peers(n) -> Nat], match : [Peers(n) -> Nat],
   inFlight : [Peers(n) -> AppendEntries \cup {Nil}],
   snapInFlight : [Peers(n) -> InstallSnapshot \cup {Nil}],
   read : ReadBarrier(n) \cup {Nil}, pending : PendingWrite \cup {Nil},
   nextId : [Peers(n) -> Nat], halted : BOOLEAN]

EmptyDurable ==
  [term |-> 0, votedFor |-> Nil, log |-> <<>>, commit |-> 0, applied |-> 0,
   snapshot |-> <<>>]

\* initial(config), with the durable state the host recovered.
Initial(n, d) ==
  [durable |-> d, role |-> "Follower", votes |-> {},
   next |-> [p \in Peers(n) |-> 1], match |-> [p \in Peers(n) |-> 0],
   inFlight |-> [p \in Peers(n) |-> Nil],
   snapInFlight |-> [p \in Peers(n) |-> Nil],
   read |-> Nil, pending |-> Nil, nextId |-> [p \in Peers(n) |-> 1],
   halted |-> FALSE]

-----------------------------------------------------------------------------
(* Helpers on durable states. *)

\* Fault: half of the servers are enough.
HalfQuorum(Q) == Cardinality(Q) >= Cardinality(Server) \div 2

IsQuorum(Q) == Cardinality(Q) >= (Cardinality(Server) \div 2) + 1

TermOfLast(entries) ==
  IF entries = <<>> THEN 0 ELSE entries[Len(entries)].term

SnapshotIndex(d) == Len(d.snapshot)

SnapshotTerm(d) == TermOfLast(d.snapshot)

LastIndex(d) == SnapshotIndex(d) + Len(d.log)

LastTerm(d) == IF d.log = <<>> THEN SnapshotTerm(d) ELSE TermOfLast(d.log)

EntryAt(d, i) == d.log[i - SnapshotIndex(d)]

TermAt(d, i) ==
  IF i = SnapshotIndex(d) THEN SnapshotTerm(d)
  ELSE IF i < SnapshotIndex(d) \/ i > LastIndex(d) THEN Nil
  ELSE EntryAt(d, i).term

\* Fault: the logs are not compared.
AlwaysUpToDate(d, term, index) == TRUE

UpToDate(d, term, index) ==
  \/ term > LastTerm(d)
  \/ term = LastTerm(d) /\ index >= LastIndex(d)

ValidDurable(d) ==
  /\ SnapshotTerm(d) <= d.term
  /\ SnapshotIndex(d) = 0 <=> SnapshotTerm(d) = 0
  /\ SnapshotIndex(d) <= d.applied
  /\ d.applied <= d.commit
  /\ d.commit <= LastIndex(d)
  /\ Len(d.log) <= MaxEntries
  /\ \A i \in DOMAIN d.log :
       /\ d.log[i].term \in 1 .. d.term
       /\ d.log[i].term >= IF i = 1 THEN SnapshotTerm(d) ELSE d.log[i-1].term

AdoptTerm(d, term) ==
  IF term > d.term THEN [d EXCEPT !.term = term, !.votedFor = Nil] ELSE d

-----------------------------------------------------------------------------
(* Effects.  send holds the messages released now, ready the read rounds    *)
(* answered Ready with the index they cover and the applied index seen.     *)

Emit(s, out) == [node |-> s, send |-> out, ready |-> {}]

BeginWrite(s, target, after, kind) ==
  [s EXCEPT !.pending = [target |-> target, after |-> after,
                         selfVote |-> FALSE, kind |-> kind]]

\* Fault: the reply does not wait for the write.
EarlyRespond(s, target, reply, kind) ==
  IF target # s.durable
  THEN Emit(BeginWrite(s, target, {}, kind), {reply})
  ELSE Emit(s, {reply})

\* Persist a changed target before the reply leaves; reply at once otherwise.
Respond(s, target, reply, kind) ==
  IF target # s.durable
  THEN Emit(BeginWrite(s, target, {reply}, kind), {})
  ELSE Emit(s, {reply})

NoProbe(n) == [p \in Peers(n) |-> Nil]

StepDown(n, s) ==
  [s EXCEPT !.role = "Follower", !.votes = {}, !.read = Nil,
            !.inFlight = NoProbe(n), !.snapInFlight = NoProbe(n)]

AdoptHigherTerm(n, s, term) ==
  Emit(BeginWrite(StepDown(n, s), AdoptTerm(s.durable, term), {},
                  "StateUpdate"), {})

Halt(n, s) == [StepDown(n, s) EXCEPT !.pending = Nil, !.halted = TRUE]

\* A core that finds its own state invalid halts instead of stepping.
Sound(s) ==
  /\ ValidDurable(s.durable)
  /\ s.pending # Nil => ValidDurable(s.pending.target)

Checked(n, s, o) == IF Sound(s) THEN o ELSE Emit(Halt(n, s), {})

AppendRequest(n, s, d, p) ==
  [type |-> "AppendEntries", from |-> n, to |-> p, term |-> d.term,
   prevIndex |-> s.next[p] - 1, prevTerm |-> TermAt(d, s.next[p] - 1),
   entries |-> IF s.next[p] <= LastIndex(d)
               THEN <<EntryAt(d, s.next[p])>> ELSE <<>>,
   leaderCommit |-> d.commit, id |-> s.nextId[p]]

SnapshotNeeded(n, s, d, p) ==
  [type |-> "InstallSnapshot", from |-> n, to |-> p, term |-> d.term,
   snapshot |-> d.snapshot, id |-> s.nextId[p]]

\* send_append for every peer, on the durable log or on the staged one.  A
\* peer with a probe outstanding is skipped, an outstanding snapshot is sent
\* again, and a peer behind the retained log is sent the snapshot.
SendAppends(n, s, d) ==
  LET idle    == {p \in Peers(n) : s.inFlight[p] = Nil}
      resent  == {p \in idle : s.snapInFlight[p] # Nil}
      behind  == {p \in idle \ resent : s.next[p] <= SnapshotIndex(d)}
      probed  == {p \in idle \ (resent \cup behind) :
                    s.next[p] <= LastIndex(d) + 1}
      probe(p) == AppendRequest(n, s, d, p)
      install(p) == SnapshotNeeded(n, s, d, p)
      round == IF s.read = Nil THEN Nil
               ELSE [s.read EXCEPT !.probes =
                       [p \in Peers(n) |-> IF p \in probed THEN s.nextId[p]
                                           ELSE s.read.probes[p]]]
  IN [node |->
        [s EXCEPT
           !.inFlight = [p \in Peers(n) |->
                           IF p \in probed THEN probe(p) ELSE s.inFlight[p]],
           !.snapInFlight = [p \in Peers(n) |->
                               IF p \in behind THEN install(p)
                               ELSE s.snapInFlight[p]],
           !.nextId = [p \in Peers(n) |->
                         IF p \in probed \cup behind THEN s.nextId[p] + 1
                         ELSE s.nextId[p]],
           !.read = round],
      send |-> {probe(p) : p \in probed} \cup {install(p) : p \in behind}
                 \cup {s.snapInFlight[p] : p \in resent},
      ready |-> {}]

BecomeLeader(n, s) ==
  SendAppends(n,
    [s EXCEPT !.role = "Leader",
              !.next = [p \in Peers(n) |-> LastIndex(s.durable) + 1],
              !.match = [p \in Peers(n) |-> 0],
              !.inFlight = NoProbe(n), !.snapInFlight = NoProbe(n)],
    s.durable)

\* Count a vote; the vote that completes a quorum makes the leader.
CountVote(n, s, voter) ==
  LET counted == [s EXCEPT !.votes = @ \cup {voter}]
  IN IF IsQuorum(counted.votes) THEN BecomeLeader(n, counted)
     ELSE Emit(counted, {})

\* Fault: entries of earlier terms are committed by counting.
AnyTermCommittable(n, s) ==
  {i \in s.durable.commit + 1 .. LastIndex(s.durable) :
     IsQuorum({n} \cup {p \in Peers(n) : s.match[p] >= i})}

\* The entries a leader may commit: replicated on a quorum, of its own term.
Committable(n, s) ==
  {i \in s.durable.commit + 1 .. LastIndex(s.durable) :
     /\ EntryAt(s.durable, i).term = s.durable.term
     /\ IsQuorum({n} \cup {p \in Peers(n) : s.match[p] >= i})}

HighestCommittable(n, s) == Max({s.durable.commit} \cup Committable(n, s))

\* Fault: the read does not wait until the index is applied.
ReadAcknowledged(s) ==
  s.read # Nil /\ s.role = "Leader" /\ s.read.term = s.durable.term
    /\ IsQuorum(s.read.acks)

ReadCovered(s) ==
  /\ s.read # Nil
  /\ s.role = "Leader"
  /\ s.read.term = s.durable.term
  /\ IsQuorum(s.read.acks)
  /\ s.durable.applied >= s.read.index

CompleteRead(o) ==
  IF ReadCovered(o.node)
  THEN [node |-> [o.node EXCEPT !.read = Nil], send |-> o.send,
        ready |-> {[index |-> o.node.read.index,
                    applied |-> o.node.durable.applied]}]
  ELSE o

-----------------------------------------------------------------------------
(* Persistence. *)

\* The staged state becomes the durable one and the effects that waited for
\* it are released; the durable self-vote is counted only now.
PersistCompleted(n, s) ==
  LET write == s.pending
      done  == CompleteRead(Emit([s EXCEPT !.pending = Nil,
                                           !.durable = write.target],
                                 write.after))
      voted == CountVote(n, done.node, n)
  IN IF write.selfVote
     THEN [voted EXCEPT !.send = @ \cup done.send, !.ready = done.ready]
     ELSE done

PersistFailed(n, s) == Emit(Halt(n, s), {})

\* The host re-creates the node from what it recovered: ids start over.
Restart(n, d) == Emit(Initial(n, d), {})

-----------------------------------------------------------------------------
(* Elections. *)

CanCampaign(s) == s.role # "Leader"

ElectionTimeout(n, s) ==
  LET target == [s.durable EXCEPT !.term = @ + 1, !.votedFor = n]
      ballot(p) == [type |-> "RequestVote", from |-> n, to |-> p,
                    term |-> target.term, lastIndex |-> LastIndex(target),
                    lastTerm |-> LastTerm(target)]
  IN Emit([StepDown(n, s) EXCEPT
             !.role = "Candidate",
             !.pending = [target |-> target,
                          after |-> {ballot(p) : p \in Peers(n)},
                          selfVote |-> TRUE, kind |-> "StateUpdate"]], {})

ValidRequestVote(m) ==
  /\ m.term # 0
  /\ m.lastTerm <= m.term
  /\ m.lastIndex = 0 <=> m.lastTerm = 0

\* Fault: the vote already cast is forgotten.
GrantAgain(d, m) == UpToDate(d, m.lastTerm, m.lastIndex)

MayGrant(d, m) ==
  /\ d.votedFor \in {Nil, m.from}
  /\ UpToDate(d, m.lastTerm, m.lastIndex)

RecvRequestVote(n, s, m) ==
  LET adopted == AdoptTerm(s.durable, m.term)
      grant   == MayGrant(adopted, m)
      target  == IF grant THEN [adopted EXCEPT !.votedFor = m.from] ELSE adopted
      heard   == IF m.term > s.durable.term THEN StepDown(n, s) ELSE s
      reply(term, granted) ==
        [type |-> "VoteReply", from |-> n, to |-> m.from, term |-> term,
         granted |-> granted]
  IN IF m.term < s.durable.term
     THEN Emit(s, {reply(s.durable.term, FALSE)})
     ELSE Respond(heard, target, reply(target.term, grant), "StateUpdate")

RecvVoteReply(n, s, m) ==
  IF m.term > s.durable.term THEN AdoptHigherTerm(n, s, m.term)
  ELSE IF m.term = s.durable.term /\ m.granted /\ s.role = "Candidate"
  THEN CountVote(n, s, m.from)
  ELSE Emit(s, {})

-----------------------------------------------------------------------------
(* Replication. *)

\* A leader with a full window refuses and reports capacity pressure.
CanPropose(s) == s.role = "Leader" /\ Len(s.durable.log) < MaxEntries

\* The entry is staged and its requests leave once it is durable.
ClientPropose(n, s, command) ==
  LET d      == s.durable
      target == [d EXCEPT !.log = Append(@, [term |-> d.term,
                                             command |-> command])]
      sent   == SendAppends(n, s, target)
  IN Emit(BeginWrite(sent.node, target, sent.send, "StateUpdate"), {})

\* Outstanding requests are repeated verbatim; idle peers get a new one.
HeartbeatTimeout(n, s) ==
  LET waiting == {p \in Peers(n) : s.inFlight[p] # Nil}
      sent    == SendAppends(n, s, s.durable)
  IN IF s.role = "Leader"
     THEN [sent EXCEPT !.send = @ \cup {s.inFlight[p] : p \in waiting}]
     ELSE Emit(s, {})

ValidAppend(m) ==
  /\ m.term # 0
  /\ m.prevTerm <= m.term
  /\ m.prevIndex = 0 <=> m.prevTerm = 0
  /\ \A k \in DOMAIN m.entries :
       /\ m.entries[k].term \in 1 .. m.term
       /\ m.entries[k].term >= IF k = 1 THEN m.prevTerm
                                        ELSE m.entries[k-1].term

Covered(m) == m.prevIndex + Len(m.entries)

\* Fault: only the length of the log is compared.
PrevHeld(d, m) == m.prevIndex \in SnapshotIndex(d) .. LastIndex(d)

PrevMatches(d, m) == TermAt(d, m.prevIndex) = m.prevTerm

\* The offsets of a request whose entry differs from the one held here.
Conflicts(d, m) ==
  {k \in DOMAIN m.entries :
     /\ m.prevIndex + k <= LastIndex(d)
     /\ EntryAt(d, m.prevIndex + k) # m.entries[k]}

\* A conflict inside the committed prefix refuses the request.
CommittedConflict(d, m) ==
  Conflicts(d, m) # {} /\ m.prevIndex + Min(Conflicts(d, m)) <= d.commit

\* The log after the entry loop: cut at the first conflict, then extended
\* with what it does not hold yet.
MergedLog(d, m) ==
  LET keep == IF Conflicts(d, m) = {} THEN Len(d.log)
              ELSE m.prevIndex + Min(Conflicts(d, m)) - 1 - SnapshotIndex(d)
      held == SnapshotIndex(d) + keep - m.prevIndex
  IN SubSeq(d.log, 1, keep) \o SubSeq(m.entries, held + 1, Len(m.entries))

\* A follower commits no further than the prefix the request proves.
CommitThrough(d, m, proved) ==
  LET reached == IF m.leaderCommit <= proved THEN m.leaderCommit ELSE proved
  IN IF reached > d.commit THEN reached ELSE d.commit

\* Fault: the window may grow by one entry too many.
OverflowsLate(d, m) == Covered(m) - SnapshotIndex(d) > MaxEntries + 1

Overflows(d, m) == Covered(m) - SnapshotIndex(d) > MaxEntries

\* Where a refused leader should look next.
Hint(d, m, prevOk) ==
  IF m.prevIndex < SnapshotIndex(d) THEN SnapshotIndex(d)
  ELSE IF prevOk THEN d.commit
  ELSE IF m.prevIndex > SnapshotIndex(d) /\ m.prevIndex <= LastIndex(d)
  THEN m.prevIndex - 1
  ELSE LastIndex(d)

RecvAppend(n, s, m) ==
  LET d       == AdoptTerm(s.durable, m.term)
      prevOk  == PrevMatches(d, m)
      full    == prevOk /\ Overflows(d, m)
      success == prevOk /\ ~full /\ ~CommittedConflict(d, m)
      target  ==
        IF full
        THEN [d EXCEPT !.commit = CommitThrough(d, m, m.prevIndex)]
        ELSE IF success
        THEN [d EXCEPT !.log = MergedLog(d, m),
                       !.commit = CommitThrough(d, m, Covered(m))]
        ELSE d
      hint    == IF full \/ success THEN LastIndex(d) ELSE Hint(d, m, prevOk)
      reply(term, ok, next) ==
        [type |-> "AppendReply", from |-> n, to |-> m.from, term |-> term,
         success |-> ok, hint |-> next, id |-> m.id,
         matched |-> IF ok THEN Covered(m) ELSE 0]
  IN IF m.term < s.durable.term
     THEN Emit(s, {reply(s.durable.term, FALSE, LastIndex(s.durable))})
     ELSE Respond(StepDown(n, s), target, reply(target.term, success, hint),
                  "StateUpdate")

\* Fault: a refusal leaves next where it is.
NoBackOff(next, match, hint) == next

\* A refused probe moves next back, never to or below the proved match.
BackOff(next, match, hint) ==
  IF next <= 1 THEN next
  ELSE LET back == IF hint + 1 < next - 1 THEN hint + 1 ELSE next - 1
       IN IF back > match + 1 THEN back ELSE match + 1

\* Fault: any success counts for the round.
AnyAcknowledgement(read, m, probe) ==
  IF read # Nil THEN [read EXCEPT !.acks = @ \cup {m.from}] ELSE read

\* A success is a read acknowledgement only when it answers the round's
\* eligible probe.
AcknowledgeRead(read, m, probe) ==
  IF read # Nil /\ read.probes[m.from] = m.id /\ m.matched = Covered(probe)
  THEN [read EXCEPT !.acks = @ \cup {m.from}]
  ELSE read

\* The outstanding request is answered: a success moves match to the end of
\* the request that was sent, a refusal moves next back.
Settled(s, m) ==
  LET p     == m.from
      probe == s.inFlight[p]
      match == Max({s.match[p], Covered(probe)})
  IN IF m.success
     THEN [s EXCEPT !.inFlight[p] = Nil,
                    !.read = AcknowledgeRead(@, m, probe),
                    !.match[p] = match,
                    !.next[p] = Max({@, match + 1})]
     ELSE [s EXCEPT !.inFlight[p] = Nil,
                    !.next[p] = BackOff(@, s.match[p], m.hint)]

RecvAppendReply(n, s, m) ==
  LET probe == s.inFlight[m.from]
  IN IF m.term > s.durable.term THEN AdoptHigherTerm(n, s, m.term)
     ELSE IF s.role # "Leader" \/ m.term # s.durable.term
     THEN CompleteRead(Emit(s, {}))
     ELSE IF probe = Nil THEN Emit(s, {})
     ELSE IF probe.id # m.id \/ probe.term # m.term THEN Emit(s, {})
     ELSE CompleteRead(Emit(Settled(s, m), {}))

AdvanceCommit(n, s) ==
  LET reached == HighestCommittable(n, s)
  IN IF s.role = "Leader" /\ reached > s.durable.commit
     THEN Emit(BeginWrite(s, [s.durable EXCEPT !.commit = reached], {},
                          "StateUpdate"), {})
     ELSE Emit(s, {})

ApplyCommitted(s) ==
  IF s.durable.applied < s.durable.commit
  THEN Emit(BeginWrite(s, [s.durable EXCEPT !.applied = @ + 1], {},
                       "StateUpdate"), {})
  ELSE Emit(s, {})

-----------------------------------------------------------------------------
(* Snapshots. *)

\* Fault: the first entry cut from the log does not enter the snapshot.
CompactedShort(d) ==
  LET removed == d.commit - SnapshotIndex(d)
  IN [d EXCEPT !.snapshot = @ \o SubSeq(d.log, 2, removed),
               !.log = SubSeq(@, removed + 1, Len(@))]

\* The applied prefix moves from the log into the snapshot.
Compacted(d) ==
  LET removed == d.commit - SnapshotIndex(d)
  IN [d EXCEPT !.snapshot = @ \o SubSeq(d.log, 1, removed),
               !.log = SubSeq(@, removed + 1, Len(@))]

CompactCommitted(s) ==
  IF s.durable.applied = s.durable.commit
       /\ s.durable.commit # SnapshotIndex(s.durable)
  THEN Emit(BeginWrite(s, Compacted(s.durable), {}, "LocalCompaction"), {})
  ELSE Emit(s, {})

ValidSnapshot(m) ==
  /\ m.term # 0
  /\ m.snapshot # <<>>
  /\ TermOfLast(m.snapshot) \in 1 .. m.term

\* A new boundary older than the committed truth is ignored.
PredatesCommit(d, m) ==
  Len(m.snapshot) > d.commit /\ TermOfLast(m.snapshot) < TermAt(d, d.commit)

\* Installing keeps the entries after the boundary only if the entry at the
\* boundary has the snapshot's term.
Installed(d, m) ==
  LET index  == Len(m.snapshot)
      agrees == TermAt(d, index) = TermOfLast(m.snapshot)
  IN [d EXCEPT !.snapshot = m.snapshot, !.commit = index, !.applied = index,
               !.log = IF agrees
                       THEN SubSeq(@, index - SnapshotIndex(d) + 1, Len(@))
                       ELSE <<>>]

\* Until the host has verified the whole snapshot, ready is FALSE and only
\* the term and the leadership are taken from the request.
RecvSnapshot(n, s, m, ready) ==
  LET d       == AdoptTerm(s.durable, m.term)
      index   == Len(m.snapshot)
      install == index > d.commit
      target  == IF install THEN Installed(d, m) ELSE d
      success == TermAt(target, index) = TermOfLast(m.snapshot)
      follow  == StepDown(n, s)
      reply(term, ok) ==
        [type |-> "SnapshotReply", from |-> n, to |-> m.from, term |-> term,
         success |-> ok, index |-> IF ok THEN index ELSE 0, id |-> m.id]
  IN IF PredatesCommit(s.durable, m) THEN Emit(s, {})
     ELSE IF m.term < s.durable.term
     THEN Emit(s, {reply(s.durable.term, FALSE)})
     ELSE IF ready
     THEN Respond(follow, target, reply(target.term, success),
                  IF install THEN "SnapshotInstall" ELSE "StateUpdate")
     ELSE IF d # s.durable
     THEN Emit(BeginWrite(follow, d, {}, "StateUpdate"), {})
     ELSE Emit(follow, {})

\* Only the reply to the outstanding snapshot moves match.
RecvSnapshotReply(n, s, m) ==
  LET p     == m.from
      probe == s.snapInFlight[p]
      match == Max({s.match[p], Len(probe.snapshot)})
      answers == /\ probe.id = m.id
                 /\ m.success => Len(probe.snapshot) = m.index
  IN IF m.term > s.durable.term THEN AdoptHigherTerm(n, s, m.term)
     ELSE IF m.term # s.durable.term \/ s.role # "Leader" \/ probe = Nil
     THEN Emit(s, {})
     ELSE IF ~answers THEN Emit(s, {})
     ELSE IF m.success
     THEN Emit([s EXCEPT !.snapInFlight[p] = Nil, !.match[p] = match,
                         !.next[p] = match + 1], {})
     ELSE Emit([s EXCEPT !.snapInFlight[p] = Nil], {})

-----------------------------------------------------------------------------
(* Read barriers. *)

\* A read is admitted by a leader that has committed in its own term and has
\* neither a write nor another read outstanding.
CanRead(s) ==
  /\ s.role = "Leader"
  /\ s.read = Nil
  /\ s.durable.commit # 0
  /\ TermAt(s.durable, s.durable.commit) = s.durable.term

BeginRead(n, s) ==
  LET round == [term |-> s.durable.term, index |-> s.durable.commit,
                acks |-> {n}, probes |-> [p \in Peers(n) |-> 0]]
  IN CompleteRead(SendAppends(n, [s EXCEPT !.read = round], s.durable))

CancelRead(s) == Emit([s EXCEPT !.read = Nil], {})

===============================================================================
