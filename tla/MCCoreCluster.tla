---------------------------- MODULE MCCoreCluster ----------------------------
(* Small instances of CoreCluster for TLC. *)
EXTENDS CoreCluster, Views, TLC

CONSTANTS s1, s2, s3

SecondTerm == {<<s2, 2>>}
ThirdTerm == {<<s2, 3>>}
FourthAndFifth == {<<s1, 4>>, <<s3, 4>>, <<s3, 5>>}

\* s1 and s3 are cut off from one another.
Split == {{s1, s2}, {s2, s3}}

VARIABLE setting   \* which constants apply; never changes

View ==
  <<ClusterView(node, {m \in msgs : {m.from, m.to} \in Links}),
    reads, floor, crashes, begun, setting>>

E(t) == [term |-> t, command |-> NoOp]

Stored(term, vote, log, commit) ==
  [term |-> term, votedFor |-> vote, log |-> log, commit |-> commit,
   applied |-> commit, snapshot |-> <<>>]

InitFrom(N) ==
  /\ node = N
  /\ msgs = {}
  /\ reads = {}
  /\ floor = [n \in Server |-> 0]
  /\ crashes = 0
  /\ begun = 0

\* The servers start again from disks that three terms of interrupted
\* leadership left behind: s1 led term 2 and s3 led term 3, and neither
\* replicated its entry.
Figure8 ==
  InitFrom([n \in Server |-> Initial(n,
    CASE n = s1 -> Stored(3, Nil, <<E(1), E(2)>>, 1)
      [] n = s2 -> Stored(3, s3, <<E(1)>>, 1)
      [] n = s3 -> Stored(3, s3, <<E(1), E(3)>>, 1))])

\* s1 leads, no request is outstanding, and the others hold these disks.
S1Leads(D, match) ==
  InitFrom([n \in Server |->
    IF n # s1 THEN Initial(n, D[n])
    ELSE [Initial(s1, D[s1]) EXCEPT
            !.role = "Leader", !.votes = {s1, s2},
            !.next = [p \in Peers(s1) |-> match[p] + 1],
            !.match = match,
            !.nextId = [p \in Peers(s1) |-> 4]]])

\* Its no-op is committed everywhere.
Steady ==
  S1Leads([n \in Server |-> Stored(1, s1, <<E(1)>>, 1)], [p \in Peers(s1) |-> 1])

\* It has compacted its second no-op, which fills the window of s2 and has
\* not reached s3.
Filled ==
  S1Leads([n \in Server |->
             CASE n = s1 -> [Stored(2, s1, <<>>, 2) EXCEPT !.snapshot = <<E(1), E(2)>>]
               [] n = s2 -> Stored(2, s1, <<E(1), E(2)>>, 1)
               [] n = s3 -> Stored(2, s1, <<E(1)>>, 1)],
          [p \in Peers(s1) |-> IF p = s2 THEN 2 ELSE 1])

\* With the constants given, a window so short that it is full; then a larger
\* window, a crash and snapshots; and reads.  After the interrupted
\* leaderships, elections.
Crashing == INSTANCE CoreCluster WITH
  MaxEntries <- 5, Campaigns <- SecondTerm, MaxIndex <- 2, MaxCrashes <- 1
Reading == INSTANCE CoreCluster WITH
  MaxEntries <- 5, SnapshotEvery <- 0, Campaigns <- SecondTerm,
  MaxIndex <- 0, MaxReads <- 1
Electing == INSTANCE CoreCluster WITH
  MaxEntries <- 5, SnapshotEvery <- 0, Campaigns <- FourthAndFifth,
  MaxIndex <- 0, MaxId <- 0

Settings ==
  \/ Filled /\ setting = "given"
  \/ Steady /\ setting \in {"crash", "reads"}
  \/ Figure8 /\ setting = "elections"

NextInSetting ==
  /\ UNCHANGED setting
  /\ \/ setting = "given" /\ Next
     \/ setting = "crash" /\ Crashing!Next
     \/ setting = "reads" /\ Reading!Next
     \/ setting = "elections" /\ Electing!Next

SettingsSpec == Settings /\ [][NextInSetting]_<<vars, setting>>

===============================================================================
