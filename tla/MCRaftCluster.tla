---------------------------- MODULE MCRaftCluster ----------------------------
(* Small instances of RaftCluster for TLC. *)
EXTENDS ElectionInvariant, Views, TLC

CONSTANTS s1, s2, s3

NoCampaigns == {}
Contested == {<<s1, 1>>, <<s2, 1>>, <<s3, 2>>}

\* s1 leads term 1 and has committed an entry with s2, not applied it yet; s3
\* has answered only the probe that opened the term.  Those messages are gone.
Lagging ==
  LET d(log, commit) ==
        [term |-> 1, votedFor |-> s1, log |-> log, commit |-> commit,
         applied |-> commit, snapshot |-> <<>>]
      one  == <<[term |-> 1, command |-> CHOOSE c \in Command : TRUE]>>
      held == [n \in Server |->
                 CASE n = s1 -> d(one, 1) [] n = s2 -> d(one, 0) [] n = s3 -> d(<<>>, 0)]
  IN /\ disk = held
     /\ node = [n \in Server |->
          IF n # s1 THEN Initial(n, held[n])
          ELSE [Initial(n, held[n]) EXCEPT
                  !.durable.applied = 0, !.role = "Leader", !.votes = {s1, s2},
                  !.next = [p \in Peers(s1) |-> IF p = s2 THEN 2 ELSE 1],
                  !.match = [p \in Peers(s1) |-> IF p = s2 THEN 1 ELSE 0],
                  !.nextId = [p \in Peers(s1) |-> IF p = s2 THEN 3 ELSE 2]]]
     /\ msgs = {} /\ reads = {}
     /\ floor = [n \in Server |-> 0]
     /\ crashes = 0 /\ begun = 0

LaggingSpec == Lagging /\ [][Next]_vars

\* One crash or one read, not both.
OneEvent == crashes + begun <= 1

\* For properties of nodes, disks and reads; of past elections, where the
\* votes spoken of and the votes counted matter too; and of past
\* acknowledgements.
View == <<ClusterView(node, msgs), disk, reads, floor, crashes, begun>>
ElectionView ==
  <<View, Leaders(node, msgs), Ballots(msgs), [n \in Server |-> node[n].votes]>>
AckView == <<View, Acknowledged(msgs)>>

===============================================================================
