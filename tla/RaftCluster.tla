----------------------------- MODULE RaftCluster -----------------------------
(***************************************************************************)
(* A cluster of transition cores.  Every server runs raft::step over its    *)
(* own disk; a step that changes durable state stages it, and the write may *)
(* complete, fail, or be cut off by a crash that leaves any prefix of the   *)
(* adapter's disk operations behind.  Messages are never removed, so they   *)
(* may be lost, repeated, delayed and reordered freely.                     *)
(***************************************************************************)
EXTENDS RaftProperties

CONSTANTS
  Campaigns,    \* <<n, t>>: the timer of n may start the election of t
  MaxIndex,     \* no proposal beyond this index
  MaxId,        \* no heartbeat, proposal or read past this request id
  MaxCrashes,   \* crashes and failed writes, over all servers
  MaxReads      \* admitted read rounds, over all servers

VARIABLES
  node,      \* the core's state on every server
  disk,      \* what recovery would find on every server
  msgs,      \* every message ever sent
  reads,     \* every read round answered Ready
  floor,     \* the highest commit in the cluster when a server's read began
  crashes,   \* crashes and failed writes so far
  begun      \* read rounds admitted so far

vars == <<node, disk, msgs, reads, floor, crashes, begun>>

Init ==
  /\ node = [n \in Server |-> Initial(n, EmptyDurable)]
  /\ disk = [n \in Server |-> EmptyDurable]
  /\ msgs = {}
  /\ reads = {}
  /\ floor = [n \in Server |-> 0]
  /\ crashes = 0
  /\ begun = 0

-----------------------------------------------------------------------------
\* What recovery may find if the server stops now.
DiskOutcomes(n) ==
  IF node[n].pending = Nil THEN {disk[n]}
  ELSE {Recovered(d) : d \in Interrupted(disk[n], node[n].pending)}

-----------------------------------------------------------------------------
(* Steps of one server. *)

Step(n, outcome) ==
  LET o == Checked(n, node[n], outcome)
  IN /\ node' = [node EXCEPT ![n] = o.node]
     /\ msgs' = msgs \cup o.send
     /\ reads' = reads \cup
          {[index |-> r.index, applied |-> r.applied, floor |-> floor'[n]] :
             r \in o.ready}

\* One durable operation at a time: other inputs are dropped meanwhile.
Ready(n) == ~node[n].halted /\ node[n].pending = Nil

IdsLeft(n) ==
  \A p \in Peers(n) : node[n].inFlight[p] # Nil \/ node[n].nextId[p] <= MaxId

Volatile == UNCHANGED <<disk, floor, crashes, begun>>

Campaign(n) ==
  /\ Ready(n)
  /\ CanCampaign(node[n])
  /\ <<n, node[n].durable.term + 1>> \in Campaigns
  /\ Volatile
  /\ Step(n, ElectionTimeout(n, node[n]))

Propose(n, command) ==
  /\ Ready(n)
  /\ CanPropose(node[n])
  /\ LastIndex(node[n].durable) < MaxIndex
  /\ IdsLeft(n)
  /\ Volatile
  /\ Step(n, ClientPropose(n, node[n], command))

Heartbeat(n) ==
  /\ Ready(n)
  /\ node[n].role = "Leader" => IdsLeft(n)
  /\ Volatile
  /\ Step(n, HeartbeatTimeout(n, node[n]))

Commit(n) == Ready(n) /\ Volatile /\ Step(n, AdvanceCommit(n, node[n]))

ApplyOne(n) == Ready(n) /\ Volatile /\ Step(n, ApplyCommitted(node[n]))

Compact(n) == Ready(n) /\ Volatile /\ Step(n, CompactCommitted(node[n]))

HighestCommit == Max({node[n].durable.commit : n \in Server})

StartRead(n) ==
  /\ Ready(n)
  /\ CanRead(node[n])
  /\ begun < MaxReads
  /\ IdsLeft(n)
  /\ floor' = [floor EXCEPT ![n] = HighestCommit]
  /\ begun' = begun + 1
  /\ Step(n, BeginRead(n, node[n]))
  /\ UNCHANGED <<disk, crashes>>

StopRead(n) ==
  /\ node[n].read # Nil
  /\ Volatile
  /\ Step(n, CancelRead(node[n]))

ReceiveRequestVote(n, m) ==
  /\ m.type = "RequestVote"
  /\ ValidRequestVote(m)
  /\ Step(n, RecvRequestVote(n, node[n], m))

ReceiveVoteReply(n, m) ==
  /\ m.type = "VoteReply"
  /\ Step(n, RecvVoteReply(n, node[n], m))

ReceiveAppend(n, m) ==
  /\ m.type = "AppendEntries"
  /\ ValidAppend(m)
  /\ Step(n, RecvAppend(n, node[n], m))

ReceiveAppendReply(n, m) ==
  /\ m.type = "AppendReply"
  /\ Step(n, RecvAppendReply(n, node[n], m))

ReceiveSnapshot(n, m) ==
  /\ m.type = "InstallSnapshot"
  /\ ValidSnapshot(m)
  /\ \E ready \in BOOLEAN : Step(n, RecvSnapshot(n, node[n], m, ready))

ReceiveSnapshotReply(n, m) ==
  /\ m.type = "SnapshotReply"
  /\ Step(n, RecvSnapshotReply(n, node[n], m))

Receive(n, m) ==
  /\ Ready(n)
  /\ m.to = n /\ m.from \in Peers(n)
  /\ Volatile
  /\ \/ ReceiveRequestVote(n, m)
     \/ ReceiveVoteReply(n, m)
     \/ ReceiveAppend(n, m)
     \/ ReceiveAppendReply(n, m)
     \/ ReceiveSnapshot(n, m)
     \/ ReceiveSnapshotReply(n, m)

FinishWrite(n) ==
  /\ node[n].pending # Nil
  /\ disk' = [disk EXCEPT ![n] = Recovered(node[n].pending.target)]
  /\ UNCHANGED <<floor, crashes, begun>>
  /\ Step(n, PersistCompleted(n, node[n]))

FailWrite(n) ==
  /\ node[n].pending # Nil
  /\ crashes < MaxCrashes
  /\ crashes' = crashes + 1
  /\ \E d \in DiskOutcomes(n) : disk' = [disk EXCEPT ![n] = d]
  /\ UNCHANGED <<floor, begun>>
  /\ Step(n, PersistFailed(n, node[n]))

\* The process dies and is started again from its disk.
Crash(n) ==
  /\ crashes < MaxCrashes
  /\ crashes' = crashes + 1
  /\ \E d \in DiskOutcomes(n) :
       /\ disk' = [disk EXCEPT ![n] = d]
       /\ node' = [node EXCEPT ![n] = Restart(n, d).node]
  /\ UNCHANGED <<msgs, reads, floor, begun>>

\* A halted process is started again from its disk.
Reopen(n) ==
  /\ node[n].halted
  /\ node' = [node EXCEPT ![n] = Restart(n, disk[n]).node]
  /\ UNCHANGED <<disk, msgs, reads, floor, crashes, begun>>

Next ==
  \E n \in Server :
    \/ Campaign(n)
    \/ \E command \in Command : Propose(n, command)
    \/ Heartbeat(n)
    \/ Commit(n)
    \/ ApplyOne(n)
    \/ Compact(n)
    \/ StartRead(n)
    \/ StopRead(n)
    \/ \E m \in msgs : Receive(n, m)
    \/ FinishWrite(n)
    \/ FailWrite(n)
    \/ Crash(n)
    \/ Reopen(n)

Spec == Init /\ [][Next]_vars

-----------------------------------------------------------------------------
(* Correctness. *)

ReadResult == [index : Nat, applied : Nat, floor : Nat]

\* Every server holds a well-formed node and disk, and only well-formed
\* messages and read results leave the cores.
TypeOK ==
  /\ DOMAIN node = Server
  /\ \A n \in Server : node[n] \in Node(n)
  /\ disk \in [Server -> Durable]
  /\ msgs \subseteq Message
  /\ reads \subseteq ReadResult
  /\ floor \in [Server -> Nat]
  /\ crashes \in Nat
  /\ begun \in Nat

\* No term ever has two leaders, however votes, crashes and late replies
\* interleave (become_leader in transition.cpp).
ElectionSafety == OneLeaderPerTerm(node, msgs)

\* A granted vote that left a server is on its disk: the server is still in
\* that term with that vote, or has moved to a later term.
VotesAreDurable == GrantedVotesHeld(disk, msgs)

\* An acknowledged append is on the follower's disk up to the matched index
\* for as long as the follower stays in that term.
AcksAreDurable == AcknowledgedEntriesHeld(disk, msgs)

\* The core never stages nor recovers a state on which it would halt
\* (valid_durable at the head of step).
NeverInvalid ==
  \A n \in Server : Sound(node[n]) /\ ValidDurable(disk[n])

\* A read answered Ready covers every write committed anywhere before the
\* read began, and the application has caught up with it (complete_read).
ReadsAreCurrent ==
  \A r \in reads : r.floor <= r.index /\ r.index <= r.applied

\* Neither a step nor a crash lowers the term on a disk or changes the vote
\* cast in it (begin_write, and the metadata written first by the adapter).
VotesStand == [][\A n \in Server : KeepsVote(disk[n], disk'[n])]_vars

===============================================================================
