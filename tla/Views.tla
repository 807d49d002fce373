-------------------------------- MODULE Views --------------------------------
(***************************************************************************)
(* What still matters in a state of a cluster of transition cores, for the  *)
(* VIEWs under which TLC explores it.  Two states with one view allow the   *)
(* same steps: terms only grow, and so do request ids until a crash, so a   *)
(* message that has lost its effect never regains it, provided no server    *)
(* leads one term, is overtaken, crashes and then leads another.            *)
(***************************************************************************)
EXTENDS RaftProperties

\* A message that can still change a server of N, now or later.  A reply
\* counts only for its term and its outstanding request.  The answer to a
\* request of an earlier term counts if it tells the sender of a later term,
\* or if the sender has come to use the id of that request again.
Effective(N, m) ==
  LET r    == N[m.to]
      s    == N[m.from]
      term == r.durable.term
      answers(probe) == probe # Nil /\ probe.id = m.id
      reused == /\ m.type # "RequestVote"
                /\ \/ s.nextId[m.to] <= m.id
                   \/ answers(s.inFlight[m.to]) \/ answers(s.snapInFlight[m.to])
  IN \/ m.term > term
     \/ /\ m.type \in {"RequestVote", "AppendEntries", "InstallSnapshot"}
        /\ m.term < term => s.durable.term < term \/ reused
        /\ m.type = "RequestVote" /\ m.term = term
             => r.durable.votedFor \in {Nil, m.from}
     \/ /\ m.type = "VoteReply"
        /\ m.term = term /\ m.granted /\ r.role = "Candidate"
     \/ /\ m.type = "AppendReply"
        /\ m.term = term /\ r.role = "Leader" /\ answers(r.inFlight[m.from])
     \/ /\ m.type = "SnapshotReply"
        /\ m.term = term /\ r.role = "Leader" /\ answers(r.snapInFlight[m.from])

\* Only a leader uses its progress, which an election resets, and a leader no
\* longer uses its votes.
Essence(s) ==
  IF s.role = "Leader" THEN [s EXCEPT !.votes = {}]
  ELSE [s EXCEPT !.next = Nil, !.match = Nil]

ClusterView(N, M) ==
  <<[n \in Server |-> Essence(N[n])], {m \in M : Effective(N, m)}>>

\* What remains of acknowledgements that have lost their effect.
Acknowledged(M) ==
  {<<m.from, m.term, m.matched>> :
     m \in {k \in M : k.type = "AppendReply" /\ k.success}}

===============================================================================
