----------------------------- MODULE MCReplica -----------------------------
(* Instances of Replica for TLC: one group from four starting points, each    *)
(* with its own constants.  The given constants are those of the diverged one. *)
EXTENDS Replica

CONSTANTS c1

VARIABLE setting   \* which of them; never changes

First == FixedLeader
Second == CHOOSE s \in Server \ {First} : TRUE
Third == CHOOSE s \in Server \ {First, Second} : TRUE

\* A new group with elections, and one crash or storage error.
New == INSTANCE Replica WITH Command <- {c1}, MaxTerm <- 2, MaxRequests <- 1, MaxFaults <- 1

\* One replica missed three committed entries that the others have
\* snapshotted and compacted.
Lagged == INSTANCE Replica WITH
  Command <- {1}, SnapshotEvery <- 1, MaxBatch <- 2, Chunks <- 2,
  MaxTerm <- 2, MaxLog <- 5, MaxRequests <- 4
Ahead ==
  [term |-> 1, vote |-> Nil, log |-> [k \in 1 .. 3 |-> [term |-> 1, command |-> k]],
   first |-> 2, commit |-> 3, snaps |-> {2, 3}]
LaggedInit ==
  /\ faults = 0
  /\ node = [s \in Server |-> Lagged!Opened(s, IF s = Second THEN EmptyStore ELSE Ahead)]
  /\ net = {}

\* A fixed leader brought that replica up to date, was reopened and starts
\* its correlations again, while the old answers are still under way.
Fixed == INSTANCE Replica WITH
  Command <- {4}, Elections <- FALSE, SnapshotEvery <- 1, MaxBatch <- 2, MaxTerm <- 1, MaxLog <- 4
Answered ==
  {[type |-> "AppendEntriesResponse", from |-> Second, to |-> First, corr |-> 1,
    term |-> 1, success |-> FALSE, match |-> 0, hint |-> 0],
   [type |-> "InstallSnapshotResponse", from |-> Second, to |-> First, corr |-> 2,
    term |-> 1, success |-> TRUE, offset |-> 1]}
FixedInit ==
  /\ faults = 0
  /\ node = [s \in Server |-> Fixed!Opened(s,
               IF s = Second THEN Fixed!InstallStores(EmptyStore, Ahead.log)[1] ELSE Ahead)]
  /\ net = Answered

\* A group after elections whose leaders reached nobody: in term 2 the first
\* replica and in term 3 the third appended an entry only it holds; in term 4
\* the first one has been elected by the second and has learned that the
\* second holds nothing.
Alone(term, s) ==
  [EmptyStore EXCEPT !.term = term, !.vote = s, !.log = <<[term |-> term, command |-> Noop]>>]
Winner == LET st == [Alone(2, First) EXCEPT !.term = 4]
              elected == CHOOSE n \in BecomeLeader(Opened(First, st), First) : ~n.halted
              probe == elected.peer[Second].probe
              behind == Opened(Second, [EmptyStore EXCEPT !.term = 4, !.vote = First])
              answer == CHOOSE m \in (CHOOSE n \in OnAppend(behind, probe) : TRUE).out : TRUE
          IN CHOOSE n \in OnAppendResponse([elected EXCEPT !.out = {}], answer) : TRUE
DivergedInit ==
  /\ faults = 0
  /\ node = [s \in Server |->
               CASE s = First -> [Winner EXCEPT !.out = {}]
                 [] s = Second -> Opened(s, [EmptyStore EXCEPT !.term = 4, !.vote = First])
                 [] s = Third -> Opened(s, Alone(3, s))]
  /\ net = Winner.out

Settings ==
  \/ setting = "new" /\ New!Init
  \/ setting = "lagged" /\ LaggedInit
  \/ setting = "fixed" /\ FixedInit
  \/ setting = "diverged" /\ DivergedInit

NextInSetting ==
  /\ UNCHANGED setting
  /\ \/ setting = "new" /\ New!Next
     \/ setting = "lagged" /\ Lagged!Next
     \/ setting = "fixed" /\ Fixed!Next
     \/ setting = "diverged" /\ Next

SettingsSpec == Settings /\ [][NextInSetting]_<<vars, setting>>

===============================================================================
