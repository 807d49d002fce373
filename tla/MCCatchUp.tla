------------------------------ MODULE MCCatchUp ------------------------------
(* Small instances of CatchUp for TLC, with the given constants or with a     *)
(* snapshot after every entry, and beside them the same question asked of the *)
(* legacy replica: a fixed leader and a replica that missed what the leader   *)
(* has compacted.                                                             *)
EXTENDS CatchUp

VARIABLES
  node, net, faults,   \* the legacy group
  setting              \* which of them moves; never changes

all == <<vars, node, net, faults, setting>>

SevenEntries == <<1, 1, 1, 1, 2, 3, 3>>

Compacting == INSTANCE CatchUp WITH SnapshotEvery <- 1, MaxResets <- 1

Legacy == INSTANCE MCReplica WITH
  Command <- {1}, Noop <- NoOp, Elections <- FALSE, FixedLeader <- Leader, SnapshotEvery <- 1,
  MaxBatch <- 2, Chunks <- 2, MaxTerm <- 1, MaxLog <- 4, MaxRequests <- 5, MaxFaults <- 0,
  c1 <- NoOp

LegacyBehind ==
  /\ faults = 0
  /\ node = [s \in Server |->
               Legacy!Opened(s, IF s = Legacy!Second THEN Legacy!EmptyStore ELSE Legacy!Ahead)]
  /\ net = {}

LegacyIdle ==
  /\ faults = 0
  /\ node = [s \in Server |-> Legacy!Opened(s, Legacy!EmptyStore)]
  /\ net = {}

Idle ==
  /\ leader = Initial(Leader, EmptyDurable) /\ follower = Initial(Follower, EmptyDurable)
  /\ request = Nil /\ replies = <<>> /\ resets = 0

Settings ==
  \/ setting = "given" /\ Init /\ LegacyIdle
  \/ setting = "compacting" /\ Compacting!Init /\ LegacyIdle
  \/ setting = "legacy" /\ LegacyBehind /\ Idle

NextInSetting ==
  /\ UNCHANGED setting
  /\ \/ setting = "given" /\ Next /\ UNCHANGED <<node, net, faults>>
     \/ setting = "compacting" /\ Compacting!Next /\ UNCHANGED <<node, net, faults>>
     \/ setting = "legacy" /\ Legacy!Next /\ UNCHANGED vars

\* Fairness of Spec and of the legacy replica, for the one that moves.
Moves(A) == setting # "legacy" /\ A
LegacyMoves(A) == setting = "legacy" /\ A

SettingsSpec ==
  /\ Settings
  /\ [][NextInSetting]_all
  /\ WF_request(Moves(Sends))
  /\ WF_request(Moves(TakesRequest))
  /\ WF_replies(Moves(TakesReply))
  /\ WF_<<node, net>>(LegacyMoves(Legacy!Tick(Leader)))
  /\ \A p \in Peers(Leader) :
       /\ SF_<<node, net>>(LegacyMoves(Legacy!ReceiveProbe(Leader, p)))
       /\ SF_<<node, net>>(LegacyMoves(Legacy!ReceiveAnswer(Leader, p)))

\* A replica behind the fixed leader's log is brought up to what was
\* committed, by snapshot chunks and then by entries, however often messages
\* repeat (replicate and on_append_response of the legacy replica).
LegacyCatchesUp == Legacy!CatchesUp

===============================================================================
