------------------------------- MODULE Replica -------------------------------
(***************************************************************************)
(* The first replication engine, replication/replica.cpp: a fixed leader or *)
(* an election, one request in flight to each peer that is retried verbatim *)
(* until it is answered, snapshots sent in chunks, and a replica that halts *)
(* at the first storage error and is reopened from its files.              *)
(*                                                                          *)
(* A handler runs to its end or to the storage operation that fails or that *)
(* a crash interrupts, so it is a set of outcomes.  The network keeps every  *)
(* message: a message may be lost, delayed, reordered or delivered again.   *)
(***************************************************************************)
EXTENDS Naturals, SequencesExt, FiniteSetsExt

CONSTANTS
  Server, Command, Noop, Nil,
  Elections,     \* config.elections
  FixedLeader,   \* config.leader_id, used without elections
  SnapshotEvery, \* config.snapshot_every, 0 for never
  MaxBatch,      \* config.max_append_entries
  Chunks,        \* chunks a snapshot is sent in
  MaxTerm, MaxLog, MaxRequests, MaxFaults   \* bounds

ASSUME ReplicaAssumption ==
  /\ Elections \in BOOLEAN /\ FixedLeader \in Server
  /\ MaxBatch \in Nat \ {0} /\ Chunks \in Nat \ {0}
  /\ {SnapshotEvery, MaxTerm, MaxLog, MaxRequests, MaxFaults} \subseteq Nat

VARIABLES
  node,      \* node[s]: a replica and its store
  net,       \* every message sent so far
  faults     \* storage errors and crashes so far, for the bound

vars == <<node, net, faults>>

Peers(s) == Server \ {s}
Majority == Cardinality(Server) \div 2 + 1

-----------------------------------------------------------------------------
(* The store: the whole history, of which the log file holds the part from   *)
(* first on, and the lengths of the snapshots it keeps.                      *)

EmptyStore == [term |-> 1, vote |-> Nil, log |-> <<>>, first |-> 1, commit |-> 0, snaps |-> {}]

Newest(st) == IF st.snaps = {} THEN 0 ELSE Max(st.snaps)

\* log_term_at: from the log, or from the newest snapshot.
TermAt(st, i) ==
  IF i = 0 THEN 0
  ELSE IF (st.first <= i /\ i <= Len(st.log)) \/ i = Newest(st) THEN st.log[i].term
  ELSE Nil

LastTerm(st) == TermAt(st, Len(st.log))

\* The files commit_through writes, in order: the metadata, then a snapshot
\* when a period is complete, then the log cut back to the older of two.
CommitStores(st, index) ==
  LET committed == [st EXCEPT !.commit = index]
      due   == SnapshotEvery # 0 /\ index \div SnapshotEvery > Newest(st) \div SnapshotEvery
      snaps == {index, Newest(st)} \ {0}
      saved == [committed EXCEPT !.snaps = snaps]
      cut   == Cardinality(snaps) = 2 /\ st.first < Min(snaps)
  IN IF ~due THEN <<committed>>
     ELSE IF ~cut THEN <<committed, saved>>
     ELSE <<committed, saved, [saved EXCEPT !.first = Min(snaps)]>>

\* install_snapshot: one journalled replacement.  The suffix is kept when the
\* log agrees with the snapshot's last entry.
InstallStores(st, s) ==
  LET agrees == Len(s) >= st.first /\ Len(s) <= Len(st.log)
                  /\ (Len(s) <= Len(st.log) => st.log[Len(s)].term = Last(s).term)
      log    == IF agrees THEN s \o SubSeq(st.log, Len(s) + 1, Len(st.log)) ELSE s
  IN IF Len(s) <= st.commit THEN <<>>
     ELSE <<[st EXCEPT !.log = log, !.commit = Len(s), !.snaps = {Len(s)},
                       !.first = IF agrees THEN Len(s) ELSE Len(s) + 1]>>

-----------------------------------------------------------------------------
(* A replica: its store, its volatile state and what it has sent in the     *)
(* current handler.  spec is the speculative state, Nil when it is stale.    *)

FreshPeer(st) ==
  [next |-> Len(st.log) + 1, match |-> 0, snapIndex |-> 0, offset |-> 0, sent |-> FALSE,
   probe |-> Nil, corr |-> 0]

\* Replica::open: correlations start again from one.
Opened(s, st) ==
  [store |-> st, spec |-> st.log, halted |-> FALSE,
   role |-> IF ~Elections /\ s = FixedLeader THEN "Leader" ELSE "Follower",
   leader |-> IF Elections THEN Nil ELSE FixedLeader,
   votes |-> {}, incoming |-> Nil, peer |-> [p \in Peers(s) |-> FreshPeer(st)], out |-> {}]

Halt(n) == [n EXCEPT !.halted = TRUE, !.role = "Follower", !.votes = {}, !.leader = Nil]

\* Storage operations in sequence.  An error or a crash leaves what was
\* written so far, and the failed write itself either way.
Saved(n, stores) ==
  LET all == <<n.store>> \o stores
  IN {[n EXCEPT !.store = Last(all)]} \cup
       IF stores # <<>> /\ faults < MaxFaults
       THEN {Halt([n EXCEPT !.store = st]) : st \in Range(all)}
       ELSE {}

\* The rest of a handler runs where the storage operation succeeded.
Then(N, F(_)) == UNION {IF n.halted THEN {n} ELSE F(n) : n \in N}

Send(n, m) == [n EXCEPT !.out = @ \cup {m}]

-----------------------------------------------------------------------------
(* The leader's side. *)

\* send_snapshot_chunk.  A newer snapshot restarts the transfer; a chunk is
\* sent once between two ticks unless the peer has just acknowledged one.
SnapshotChunk(n, s, p, force) ==
  LET peer  == n.peer[p]
      index == Newest(n.store)
      at    == IF peer.snapIndex = index THEN peer.offset ELSE 0
      aimed == [peer EXCEPT !.snapIndex = index, !.offset = at, !.probe = Nil]
  IN IF ~force /\ peer.sent THEN aimed
     ELSE [aimed EXCEPT !.sent = TRUE, !.corr = @ + 1,
             !.probe = [type |-> "InstallSnapshot", from |-> s, to |-> p, corr |-> peer.corr + 1,
                        term |-> n.store.term, snapshot |-> SubSeq(n.store.log, 1, index),
                        offset |-> at, more |-> at + 1 < Chunks]]

AppendProbe(n, s, p) ==
  LET st   == n.store
      peer == n.peer[p]
      prev == IF TermAt(st, peer.next - 1) = Nil THEN 0 ELSE peer.next - 1
      upto == Min({Len(st.log), peer.next + MaxBatch - 1})
  IN [peer EXCEPT !.corr = @ + 1,
        !.probe = [type |-> "AppendEntries", from |-> s, to |-> p, corr |-> peer.corr + 1,
                   term |-> st.term, prev |-> prev, prevTerm |-> TermAt(st, prev),
                   entries |-> IF peer.next < st.first THEN <<>> ELSE SubSeq(st.log, peer.next, upto),
                   commit |-> st.commit]]

\* Fault: a peer that holds nothing is always served from the log.
ReplicatedFromLog(n, s, p, force) ==
  LET peer == n.peer[p]
      prev == peer.next - 1
      canAppend == IF prev = 0 THEN TRUE ELSE TermAt(n.store, prev) # Nil
  IN IF peer.probe # Nil /\ (peer.probe # Nil => peer.probe.term = n.store.term) THEN peer
     ELSE IF ~canAppend /\ n.store.snaps # {} THEN SnapshotChunk(n, s, p, force)
     ELSE AppendProbe(n, s, p)

\* replicate: retry the outstanding probe, or make a new one from the log, or
\* from the snapshot for a peer behind the log.
Replicated(n, s, p, force) ==
  LET peer == n.peer[p]
      prev == peer.next - 1
      canAppend == IF prev = 0 THEN n.store.first <= 1 ELSE TermAt(n.store, prev) # Nil
  IN IF peer.probe # Nil /\ (peer.probe # Nil => peer.probe.term = n.store.term) THEN peer
     ELSE IF ~canAppend /\ n.store.snaps # {} THEN SnapshotChunk(n, s, p, force)
     ELSE AppendProbe(n, s, p)

Replicate(n, s, P, force) ==
  LET peers == [p \in Peers(s) |-> IF p \in P THEN Replicated(n, s, p, force) ELSE n.peer[p]]
  IN [n EXCEPT !.peer = peers, !.out = @ \cup ({peers[p].probe : p \in P} \ {Nil})]

\* Fault: an entry of an earlier term is committed by counting copies.
CommittableOfAnyTerm(n) ==
  {i \in n.store.commit + 1 .. Len(n.store.log) :
     /\ i >= n.store.first
     /\ Cardinality({p \in DOMAIN n.peer : n.peer[p].match >= i}) + 1 >= Majority}

\* Fault: a peer is taken to hold the entry after the ones it acknowledged.
CommittableEarly(n) ==
  {i \in n.store.commit + 1 .. Len(n.store.log) :
     /\ i >= n.store.first
     /\ n.store.log[i].term = n.store.term
     /\ Cardinality({p \in DOMAIN n.peer : n.peer[p].match + 1 >= i}) + 1 >= Majority}

\* Only an entry of the current term moves the commit index.
Committable(n) ==
  {i \in n.store.commit + 1 .. Len(n.store.log) :
     /\ i >= n.store.first
     /\ n.store.log[i].term = n.store.term
     /\ Cardinality({p \in DOMAIN n.peer : n.peer[p].match >= i}) + 1 >= Majority}

AdvanceCommit(n, s) ==
  IF n.role # "Leader" \/ Committable(n) = {} THEN {n}
  ELSE Then(Saved(n, CommitStores(n.store, Max(Committable(n)))),
            LAMBDA x : {Replicate(x, s, Peers(s), FALSE)})

\* An entry goes to the log and to the speculative state, then to the peers.
AppendOwn(n, s, command) ==
  LET e == [term |-> n.store.term, command |-> command]
  IN Then(Saved(n, <<[n.store EXCEPT !.log = Append(@, e)]>>),
          LAMBDA x : AdvanceCommit(Replicate([x EXCEPT !.spec = Append(@, e)], s, Peers(s), FALSE), s))

\* ensure_speculative.
Speculative(n) == IF n.spec = Nil THEN n.store.log ELSE n.spec

BecomeLeader(n, s) ==
  AppendOwn([n EXCEPT !.spec = Speculative(n), !.role = "Leader", !.leader = s,
               !.peer = [p \in Peers(s) |-> [n.peer[p] EXCEPT
                           !.next = Len(n.store.log) + 1, !.match = 0, !.snapIndex = 0, !.probe = Nil]]],
            s, Noop)

StartElection(n, s) ==
  Then(Saved(n, <<[n.store EXCEPT !.term = @ + 1, !.vote = s]>>), LAMBDA x :
    LET c == [x EXCEPT !.role = "Candidate", !.votes = {s}, !.leader = Nil]
    IN IF Majority = 1 THEN BecomeLeader(c, s)
       ELSE {[c EXCEPT !.out = @ \cup
                {[type |-> "RequestVote", from |-> s, to |-> p, term |-> x.store.term,
                  lastTerm |-> LastTerm(x.store), lastIndex |-> Len(x.store.log)] : p \in Peers(s)}]})

\* step_down to a higher term.
StepDown(n, term) ==
  Saved([n EXCEPT !.role = "Follower", !.votes = {}, !.leader = Nil],
        <<[n.store EXCEPT !.term = term, !.vote = Nil]>>)

StepDownFirst(n, m, F(_)) ==
  IF m.term > n.store.term THEN Then(StepDown(n, m.term), F) ELSE F(n)

-----------------------------------------------------------------------------
(* AppendEntries. *)

\* The shape on_append insists on before it does anything else.
WellFormed(m) ==
  LET terms == <<m.prevTerm>> \o [k \in DOMAIN m.entries |-> m.entries[k].term] \o <<m.term>>
  IN /\ (m.prev = 0) = (m.prevTerm = 0)
     /\ \A k \in 1 .. Len(terms) - 1 : terms[k] <= terms[k + 1]

\* An entry below the log was compacted, so committed, so the same.
PrevMatches(st, m) ==
  \/ m.prev = 0
  \/ /\ m.prev <= Len(st.log)
     /\ \/ TermAt(st, m.prev) = m.prevTerm
        \/ TermAt(st, m.prev) = Nil /\ m.prev < st.first

\* The entries the log does not hold yet, by index.
Unknown(st, m) ==
  {i \in m.prev + 1 .. m.prev + Len(m.entries) :
     i >= st.first /\ (i <= Len(st.log) => st.log[i] # m.entries[i - m.prev])}

\* From the first unknown entry on, the log is cut and then extended one
\* entry at a time.
AppendStores(st, m) ==
  IF Unknown(st, m) = {} THEN <<>>
  ELSE LET from == Min(Unknown(st, m))
           kept == SubSeq(st.log, 1, from - 1)
           cut  == IF from <= Len(st.log) THEN <<[st EXCEPT !.log = kept]>> ELSE <<>>
           news == SubSeq(m.entries, from - m.prev, Len(m.entries))
       IN cut \o [k \in DOMAIN news |-> [st EXCEPT !.log = kept \o SubSeq(news, 1, k)]]

\* A leader that would change a committed entry, or leave a gap, is refused.
Refuses(st, m) ==
  Unknown(st, m) # {} /\ (Min(Unknown(st, m)) <= st.commit \/ Min(Unknown(st, m)) > Len(st.log) + 1)

AppendReply(n, m, success, match, hint) ==
  Send(n, [type |-> "AppendEntriesResponse", from |-> m.to, to |-> m.from, corr |-> m.corr,
           term |-> n.store.term, success |-> success, match |-> match, hint |-> hint])

\* A follower acknowledges what this message proved, not what it holds beyond.
Covered(m) == m.prev + Len(m.entries)

\* Fault: the follower's own entries do not mark its speculative state stale.
NeverStale(n, m) == n.spec

StaleAfter(n, m) == IF AppendStores(n.store, m) = <<>> THEN n.spec ELSE Nil

TakeEntries(n, m) ==
  Then(Saved([n EXCEPT !.spec = StaleAfter(n, m)], AppendStores(n.store, m)), LAMBDA x :
    LET covered == Min({m.commit, Covered(m)})
    IN Then(Saved(x, IF covered > x.store.commit THEN CommitStores(x.store, covered) ELSE <<>>),
            LAMBDA y : {AppendReply(y, m, TRUE, Covered(m), Len(y.store.log))}))

OnAppend(n, m) ==
  LET stale == Elections /\ m.term < n.store.term
      alien == ~Elections /\ (m.from # n.leader \/ n.role = "Leader")
      Follow(x) == IF Elections THEN [x EXCEPT !.role = "Follower", !.leader = m.from] ELSE x
      Take(x) ==
        LET y == Follow(x)
            st == y.store
        IN IF ~PrevMatches(st, m)
           THEN {AppendReply(y, m, FALSE, 0, Min({m.prev - 1, Len(st.log)}))}
           ELSE IF Refuses(st, m)
           THEN {AppendReply(y, m, FALSE, 0,
                   IF Min(Unknown(st, m)) <= st.commit THEN st.commit ELSE Len(st.log))}
           ELSE TakeEntries(y, m)
  IN IF ~WellFormed(m) THEN {n}
     ELSE IF stale \/ alien THEN {AppendReply(n, m, FALSE, 0, Len(n.store.log))}
     ELSE IF Elections THEN StepDownFirst(n, m, Take) ELSE Take(n)

\* An answer counts only for the probe it answers.
Answers(n, m, type) ==
  LET probe == n.peer[m.from].probe
  IN probe # Nil /\ (probe # Nil =>
       probe.type = type /\ probe.corr = m.corr /\ probe.term = m.term)

OnAppendResponse(n, m) ==
  LET p == m.from
      peer == [n.peer[p] EXCEPT !.probe = Nil]
      hinted == Min({m.hint, Len(n.store.log)}) + 1
      back == IF hinted < peer.next THEN hinted ELSE Max({peer.next - 1, 1})
      match == Max({peer.match, m.match})
      Again(x) == IF x.role = "Leader" /\ x.peer[p].next <= Len(x.store.log)
                  THEN {Replicate(x, m.to, {p}, FALSE)} ELSE {x}
  IN IF Elections /\ m.term > n.store.term THEN StepDown(n, m.term)
     ELSE IF (Elections /\ m.term < n.store.term) \/ n.role # "Leader"
               \/ ~Answers(n, m, "AppendEntries") THEN {n}
     ELSE IF m.success /\ m.match # Covered(n.peer[p].probe) THEN {n}
     ELSE IF ~m.success
     THEN LET x == [n EXCEPT !.peer[p] = [peer EXCEPT !.next = back]]
          IN {IF back < peer.next THEN Replicate(x, m.to, {p}, FALSE) ELSE x}
     ELSE IF m.match > Len(n.store.log) THEN {[n EXCEPT !.peer[p] = peer]}
     ELSE Then(AdvanceCommit([n EXCEPT !.peer[p] = [peer EXCEPT !.match = match, !.next = match + 1]],
                             m.to), Again)

-----------------------------------------------------------------------------
(* Votes. *)

VoteFree(st, m) == st.vote \in {Nil, m.from}

UpToDate(st, m) ==
  \/ m.lastTerm > LastTerm(st)
  \/ m.lastTerm = LastTerm(st) /\ m.lastIndex >= Len(st.log)

VoteReply(n, m, granted) ==
  Send(n, [type |-> "RequestVoteResponse", from |-> m.to, to |-> m.from,
           term |-> n.store.term, granted |-> granted])

\* The vote is durable before it is sent.
OnVote(n, m) ==
  LET Decide(x) ==
        IF m.term = x.store.term /\ VoteFree(x.store, m) /\ UpToDate(x.store, m)
        THEN Then(Saved(x, <<[x.store EXCEPT !.vote = m.from]>>), LAMBDA y : {VoteReply(y, m, TRUE)})
        ELSE {VoteReply(x, m, FALSE)}
  IN IF Elections THEN StepDownFirst(n, m, Decide) ELSE {VoteReply(n, m, FALSE)}

OnVoteResponse(n, m) ==
  LET x == [n EXCEPT !.votes = @ \cup {m.from}]
  IN IF ~Elections THEN {n}
     ELSE IF m.term > n.store.term THEN StepDown(n, m.term)
     ELSE IF n.role # "Candidate" \/ m.term # n.store.term \/ ~m.granted THEN {n}
     ELSE IF Cardinality(x.votes) >= Majority THEN BecomeLeader(x, m.to)
     ELSE {x}

-----------------------------------------------------------------------------
(* InstallSnapshot. *)

InstallReply(n, m, success, offset) ==
  Send(n, [type |-> "InstallSnapshotResponse", from |-> m.to, to |-> m.from, corr |-> m.corr,
           term |-> n.store.term, success |-> success, offset |-> offset])

\* The first chunk starts a transfer over; any other one continues the
\* transfer of the same snapshot.
Assembled(n, m) ==
  LET started == IF m.offset = 0 THEN [snapshot |-> m.snapshot, size |-> 0] ELSE n.incoming
  IN IF started # Nil /\ (started # Nil => started.snapshot = m.snapshot /\ m.offset <= started.size)
     THEN started ELSE Nil

OnInstall(n, m) ==
  LET stale == Elections /\ m.term < n.store.term
      alien == ~Elections /\ (m.from # n.leader \/ n.role = "Leader")
      Whole(x) ==
        Then(Saved([x EXCEPT !.incoming = Nil, !.spec = Nil], InstallStores(x.store, m.snapshot)),
             LAMBDA y : {InstallReply([y EXCEPT !.spec = y.store.log], m, TRUE, Chunks)})
      Take(x) ==
        LET y == IF Elections THEN [x EXCEPT !.role = "Follower", !.leader = m.from] ELSE x
            now == Assembled(y, m)
        IN IF now = Nil THEN {InstallReply([y EXCEPT !.incoming = Nil], m, FALSE, 0)}
           ELSE IF m.offset < now.size
           THEN {InstallReply([y EXCEPT !.incoming = now], m, TRUE, now.size)}
           ELSE IF m.more
           THEN {InstallReply([y EXCEPT !.incoming = [now EXCEPT !.size = @ + 1]], m, TRUE, now.size + 1)}
           ELSE Whole(y)
  IN IF stale \/ alien THEN {InstallReply(n, m, FALSE, 0)}
     ELSE IF Elections THEN StepDownFirst(n, m, Take) ELSE Take(n)

Transferred(m) == m.offset >= Chunks

OnInstallResponse(n, m) ==
  LET p == m.from
      peer == [n.peer[p] EXCEPT !.probe = Nil]
      restart == [n EXCEPT !.peer[p] = [peer EXCEPT !.offset = 0]]
      onward == [n EXCEPT !.peer[p] = [peer EXCEPT !.offset = m.offset]]
      match == Max({peer.match, peer.snapIndex})
  IN IF Elections /\ m.term > n.store.term THEN StepDown(n, m.term)
     ELSE IF n.role # "Leader" \/ ~Answers(n, m, "InstallSnapshot") THEN {n}
     ELSE IF m.success /\ m.offset # n.peer[p].probe.offset + 1 THEN {n}
     ELSE IF ~m.success \/ peer.snapIndex # Newest(n.store) THEN {restart}
     ELSE IF ~Transferred(m)
     THEN LET next == SnapshotChunk(onward, m.to, p, TRUE)
          IN {Send([onward EXCEPT !.peer[p] = next], next.probe)}
     ELSE Then(AdvanceCommit([restart EXCEPT !.peer[p].match = match, !.peer[p].next = match + 1], m.to),
               LAMBDA x : {Replicate(x, m.to, {p}, TRUE)})

-----------------------------------------------------------------------------
(* Steps. *)

\* What the replicas in n can still react to.  Not kept are an answer to one
\* that has left its term, or its role in that term, a request of a past term
\* that can no longer depose its sender, and one for a vote already given.
Readable(n, m) ==
  LET to == n[m.to]
      from == n[m.from]
      current == m.term = to.store.term
  IN \/ ~Elections
     \/ m.term > to.store.term
     \/ /\ m.type \in {"AppendEntries", "InstallSnapshot"}
        /\ current \/ to.store.term > from.store.term \/ from.role = "Leader"
     \/ /\ m.type = "RequestVote"
        /\ \/ to.store.term > from.store.term
           \/ current /\ VoteFree(to.store, m) /\ to.role = "Follower" /\ from.role = "Candidate"
     \/ /\ m.type = "RequestVoteResponse"
        /\ current /\ m.granted /\ to.role = "Candidate"
     \/ /\ m.type \in {"AppendEntriesResponse", "InstallSnapshotResponse"}
        /\ current /\ to.role = "Leader"

\* A handler's outcome becomes the node's state and its messages are sent.
\* The bounds: terms, log lengths and requests to one peer.
Becomes(s, outcomes) ==
  \E n \in outcomes :
    /\ n.store.term <= MaxTerm /\ Len(n.store.log) <= MaxLog
    /\ \A p \in Peers(s) : n.peer[p].corr <= MaxRequests
    /\ node' = [node EXCEPT ![s] = [n EXCEPT !.out = {}]]
    /\ net' = {m \in net \cup n.out : Readable(node', m)}
    /\ faults' = IF n.halted THEN faults + 1 ELSE faults

Handled(n, m) ==
  CASE m.type = "AppendEntries" -> OnAppend(n, m)
    [] m.type = "AppendEntriesResponse" -> OnAppendResponse(n, m)
    [] m.type = "RequestVote" -> OnVote(n, m)
    [] m.type = "RequestVoteResponse" -> OnVoteResponse(n, m)
    [] m.type = "InstallSnapshot" -> OnInstall(n, m)
    [] m.type = "InstallSnapshotResponse" -> OnInstallResponse(n, m)

Handle(m) == ~node[m.to].halted /\ Becomes(m.to, Handled(node[m.to], m))

\* A tick: leaders replicate, and the others wait.
Tick(s) ==
  LET n == node[s]
      ticked == [n EXCEPT !.peer = [p \in Peers(s) |-> [n.peer[p] EXCEPT !.sent = FALSE]]]
  IN /\ ~n.halted
     /\ \/ n.role = "Leader" /\ Becomes(s, {Replicate(ticked, s, Peers(s), FALSE)})
        \/ n.role # "Leader" /\ UNCHANGED vars

\* A tick on which the election timeout of another replica expires.
Campaign(s) ==
  /\ Elections /\ ~node[s].halted /\ node[s].role # "Leader"
  /\ Becomes(s, StartElection(node[s], s))

\* Fault: a command whose entry was compacted is forgotten.
HoldsInLog(n, c) == \E k \in n.store.first .. Len(n.store.log) : n.store.log[k].command = c

\* The receipts of the applied state and the index of the log together.
Holds(n, c) == \E k \in DOMAIN n.store.log : n.store.log[k].command = c

\* A retry of a command the leader holds changes nothing.
Enqueue(s, c) ==
  /\ ~node[s].halted /\ node[s].role = "Leader"
  /\ ~Holds(node[s], c)
  /\ Becomes(s, AppendOwn([node[s] EXCEPT !.spec = Speculative(node[s])], s, c))

\* A halted replica is opened again; any other one crashes first.
Reopen(s) ==
  /\ node[s].halted \/ faults < MaxFaults
  /\ node' = [node EXCEPT ![s] = Opened(s, node[s].store)]
  /\ faults' = IF node[s].halted THEN faults ELSE faults + 1
  /\ UNCHANGED net

Init ==
  /\ node = [s \in Server |-> Opened(s, EmptyStore)]
  /\ net = {}
  /\ faults = 0

Next ==
  \/ \E m \in net : Handle(m)
  \/ \E s \in Server : Tick(s) \/ Campaign(s) \/ Reopen(s)
  \/ \E s \in Server, c \in Command : Enqueue(s, c)

Spec == Init /\ [][Next]_vars

\* A request is retried until it is answered, so on a link that delivers
\* again and again both it and its answer arrive in the end.
ReceiveProbe(s, p) == \E m \in net \cap {node[s].peer[p].probe} : Handle(m)
ReceiveAnswer(s, p) ==
  \E m \in net : m.from = p /\ m.to = s /\ m.type \in {"AppendEntriesResponse", "InstallSnapshotResponse"}
                    /\ (\E q \in {node[s].peer[p].probe} \ {Nil} : q.corr = m.corr) /\ Handle(m)

-----------------------------------------------------------------------------
(* Properties. *)

Leads(s) == node[s].role = "Leader" /\ ~node[s].halted
Log(s) == node[s].store.log
Commit(s) == node[s].store.commit

\* What two replicas have committed agrees: commits, follower commits through
\* leader_commit, and installed snapshots produce one history.
OneHistory ==
  \A s, t \in Server :
    LET common == Min({Commit(s), Commit(t)})
    IN SubSeq(Log(s), 1, common) = SubSeq(Log(t), 1, common)

\* An entry is committed only once a majority of the replicas stores it.  A
\* reopened fixed leader uses the correlations of its last incarnation again
\* and can take an old snapshot answer for a new one, so that it believes a
\* copy that is not there; but never one beyond what is already committed.
MajorityStores ==
  \A s \in Server :
    Cardinality({t \in Server : IsPrefix(SubSeq(Log(s), 1, Commit(s)), Log(t))}) >= Majority

\* A leader proposes against exactly its log: the speculative state is never
\* a stale one, after elections, truncations and snapshots.
SpeculativeIsLog == \A s \in Server : Leads(s) => Speculative(node[s]) = Log(s)

\* No log holds a command twice, however clients retry it at old and new
\* leaders; apply would refuse the second.
CommandsOnce ==
  \A s \in Server : \A i, j \in DOMAIN Log(s) :
    Log(s)[i].command = Log(s)[j].command => i = j \/ Log(s)[i].command = Noop

\* A replica behind the leader's log is brought up to what was committed, by
\* snapshot chunks and then by entries, however often messages repeat.
CatchesUp == \A s \in Server : <>(Commit(s) >= Commit(FixedLeader))

===============================================================================
