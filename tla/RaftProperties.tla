--------------------------- MODULE RaftProperties ---------------------------
(***************************************************************************)
(* The predicates that make a cluster of transition cores correct, over the *)
(* cores' nodes N, their disks D and the messages M ever sent.              *)
(***************************************************************************)
EXTENDS Disk, SequencesExt

\* Who has led in which term: the servers that lead now and the senders of
\* every request only a leader sends.
Leaders(N, M) ==
  {<<n, N[n].durable.term>> : n \in {k \in Server : N[k].role = "Leader"}}
    \cup {<<m.from, m.term>> :
            m \in {k \in M : k.type \in {"AppendEntries", "InstallSnapshot"}}}

OneLeaderPerTerm(N, M) ==
  \A a, b \in Leaders(N, M) : a[2] = b[2] => a[1] = b[1]

GrantedVotesHeld(D, M) ==
  \A m \in {k \in M : k.type = "VoteReply"} :
    m.granted =>
      \/ D[m.from].term > m.term
      \/ D[m.from].term = m.term /\ D[m.from].votedFor = m.to

AcknowledgedEntriesHeld(D, M) ==
  \A m \in {k \in M : k.type = "AppendReply"} :
    m.success /\ D[m.from].term = m.term => LastIndex(D[m.from]) >= m.matched

\* The whole log, compacted part included.
History(d) == d.snapshot \o d.log

Committed(d) == SubSeq(History(d), 1, d.commit)

LogsMatch(D) ==
  \A a, b \in Server :
    LET A == History(D[a])
        B == History(D[b])
    IN \A i \in DOMAIN A \cap DOMAIN B :
         A[i].term = B[i].term => SubSeq(A, 1, i) = SubSeq(B, 1, i)

CommittedAgree(D) ==
  \A a, b \in Server :
    \/ IsPrefix(Committed(D[a]), Committed(D[b]))
    \/ IsPrefix(Committed(D[b]), Committed(D[a]))

LeadersComplete(N, D) ==
  \A n, p \in Server :
    N[n].role = "Leader" /\ D[p].term <= N[n].durable.term
      => IsPrefix(Committed(D[p]), History(N[n].durable))

\* d may become e: the term does not fall, and a vote cast in a term stays.
KeepsVote(d, e) ==
  /\ d.term <= e.term
  /\ d.term = e.term /\ d.votedFor # Nil => e.votedFor = d.votedFor

\* d may become e: nothing committed is lost.
KeepsCommitted(d, e) == IsPrefix(Committed(d), Committed(e))

===============================================================================
