-------------------------- MODULE ElectionInvariant --------------------------
(***************************************************************************)
(* Why a term has one leader: an inductive strengthening of ElectionSafety, *)
(* VotesAreDurable and VotesStand.                                          *)
(***************************************************************************)
EXTENDS RaftCluster

\* The votes the messages M speak of: a granted reply is its sender's vote, a
\* request is its sender's vote for itself.
Ballots(M) ==
  {[voter |-> m.from, term |-> m.term, for |-> m.to] :
     m \in {k \in M : k.type = "VoteReply" /\ k.granted}}
    \cup {[voter |-> m.from, term |-> m.term, for |-> m.from] :
            m \in {k \in M : k.type = "RequestVote"}}

\* Server n may send S once d is on its disk: a vote is the one d holds, and
\* requests to followers are sent by the leader of d's term.
Vouched(n, d, role, S) ==
  \A m \in S :
    /\ m.type = "VoteReply" /\ m.granted =>
         m.from = n /\ m.term = d.term /\ m.to = d.votedFor
    /\ m.type = "RequestVote" =>
         m.from = n /\ m.term = d.term /\ d.votedFor = n
    /\ m.type \in {"AppendEntries", "InstallSnapshot"} =>
         m.from = n /\ m.term = d.term /\ role = "Leader"

\* The requests a server may send again.
Outstanding(n, s) ==
  ({s.inFlight[p] : p \in Peers(n)} \cup {s.snapInFlight[p] : p \in Peers(n)})
    \ {Nil}

\* What a staged write promises: it keeps the vote, the messages waiting for
\* it speak of the state it stores, a new term finds no candidate or leader of
\* the old one, and a vote for itself comes with the requests that tell.
StagedWell(n, s) ==
  LET write == s.pending
  IN /\ KeepsVote(s.durable, write.target)
     /\ Vouched(n, write.target, s.role, write.after)
     /\ write.target.term # s.durable.term =>
          s.votes = {} /\ s.role # "Leader"
     /\ write.selfVote =>
          /\ s.votes = {}
          /\ s.role = "Candidate"
          /\ write.target.votedFor = n
          /\ Peers(n) # {} => \E m \in write.after : m.type = "RequestVote"

\* What holds inside one core.
Upright(n, s) ==
  /\ s.halted => s.pending = Nil
  /\ s.role = "Leader" => IsQuorum(s.votes)
  /\ Vouched(n, s.durable, s.role, Outstanding(n, s))
  /\ s.pending # Nil => StagedWell(n, s)

\* A quorum of the ballots B elected c in term.
ElectedBy(B, c, term) ==
  \E Q \in SUBSET Server :
    /\ IsQuorum(Q)
    /\ \A v \in Q : [voter |-> v, term |-> term, for |-> c] \in B

\* Every core is upright and, unless halted, agrees with its disk on term and
\* vote; a vote that was ever sent is on its sender's disk or superseded, and
\* is the sender's only vote of that term; counted votes were sent; and every
\* request to followers comes from a server a quorum elected.
ElectionInv ==
  /\ \A n \in Server : Upright(n, node[n])
  /\ \A n \in Server :
       ~node[n].halted =>
         /\ disk[n].term = node[n].durable.term
         /\ disk[n].votedFor = node[n].durable.votedFor
  /\ \A b \in Ballots(msgs) :
       \/ disk[b.voter].term > b.term
       \/ disk[b.voter].term = b.term /\ disk[b.voter].votedFor = b.for
  /\ \A a, b \in Ballots(msgs) :
       a.voter = b.voter /\ a.term = b.term => a.for = b.for
  /\ \A n \in Server : Peers(n) # {} =>
       \A v \in node[n].votes :
         [voter |-> v, term |-> node[n].durable.term, for |-> n]
           \in Ballots(msgs)
  /\ \A m \in msgs :
       m.type \in {"AppendEntries", "InstallSnapshot"} /\ Peers(m.from) # {} =>
         ElectedBy(Ballots(msgs), m.from, m.term)

===============================================================================
