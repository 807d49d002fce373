----------------------------- MODULE CoreCluster -----------------------------
(***************************************************************************)
(* A cluster of transition-backend nodes.  Messages are never removed, so   *)
(* they may be lost, repeated, delayed and reordered; a snapshot travels as *)
(* one chunk.  A crash cuts the handling of an input short at any disk      *)
(* operation and releases nothing.                                          *)
(***************************************************************************)
EXTENDS Host, RaftProperties

CONSTANTS
  Links,           \* {n, p}: the network connects n and p
  Campaigns,       \* <<n, t>>: the timer of n may start the election of t
  MaxIndex,        \* no client entry beyond this index
  MaxId,           \* no new request beyond this id
  MaxCrashes,      \* crashes, over all servers
  MaxReads         \* read rounds, over all servers

VARIABLES node, msgs, reads, floor, crashes, begun

vars == <<node, msgs, reads, floor, crashes, begun>>

-----------------------------------------------------------------------------
(* Actions. *)

Init ==
  /\ node = [n \in Server |-> Initial(n, EmptyDurable)]
  /\ msgs = {}
  /\ reads = {}
  /\ floor = [n \in Server |-> 0]
  /\ crashes = 0
  /\ begun = 0

\* The input is handled to the end and its messages leave, or the process
\* dies in the middle of it and is started again from its disk.
Handle(n, H) ==
  \E h \in H :
    /\ node' = [node EXCEPT ![n] = h.node]
    /\ msgs' = msgs \cup h.send
    /\ reads' = reads \cup
         {[index |-> r.index, applied |-> r.applied, floor |-> floor'[n]] :
            r \in h.ready}
    /\ h.crashed => crashes < MaxCrashes
    /\ crashes' = IF h.crashed THEN crashes + 1 ELSE crashes

IdsLeft(n) ==
  \A p \in Peers(n) : node[n].inFlight[p] # Nil \/ node[n].nextId[p] <= MaxId

Running(n) == ~node[n].halted

Tick(n) ==
  /\ Running(n)
  /\ UNCHANGED <<floor, begun>>
  /\ \/ /\ node[n].role = "Leader" => IdsLeft(n)
        /\ Handle(n, Input(n, node[n], {HeartbeatTimeout(n, node[n])}))
     \/ /\ CanCampaign(node[n])
        /\ <<n, node[n].durable.term + 1>> \in Campaigns
        /\ Handle(n, Input(n, node[n], {ElectionTimeout(n, node[n])}))

\* Clients are refused one entry before the window is full, so that a new
\* leader still finds room for its no-op.
Enqueue(n, command) ==
  /\ Running(n)
  /\ node[n].role = "Leader"
  /\ Len(node[n].durable.log) < MaxEntries - 1
  /\ LastIndex(node[n].durable) < MaxIndex
  /\ IdsLeft(n)
  /\ UNCHANGED <<floor, begun>>
  /\ Handle(n, Input(n, node[n], {ClientPropose(n, node[n], command)}))

HighestCommit == Max({node[n].durable.commit : n \in Server})

StartRead(n) ==
  /\ Running(n)
  /\ CanRead(node[n])
  /\ begun < MaxReads
  /\ IdsLeft(n)
  /\ floor' = [floor EXCEPT ![n] = HighestCommit]
  /\ begun' = begun + 1
  /\ Handle(n, Then(Start(node[n]), LAMBDA h : Dispatch(n, h, {BeginRead(n, h.node)})))

Receive(n, m) ==
  /\ Running(n)
  /\ m.to = n /\ m.from \in Peers(n)
  /\ {n, m.from} \in Links
  /\ Accepts(node[n], m)
  /\ UNCHANGED <<floor, begun>>
  /\ Handle(n, Process(n, node[n], m))

\* The process is killed between two inputs, or stopped itself.
Reopen(n) ==
  /\ \/ node[n].halted /\ UNCHANGED crashes
     \/ crashes < MaxCrashes /\ crashes' = crashes + 1
  /\ node' = [node EXCEPT ![n] = Restart(n, Recovered(node[n].durable)).node]
  /\ UNCHANGED <<msgs, reads, floor, begun>>

Next ==
  \E n \in Server :
    \/ Tick(n)
    \/ \E command \in Command : Enqueue(n, command)
    \/ StartRead(n)
    \/ \E m \in msgs : Receive(n, m)
    \/ Reopen(n)

Spec == Init /\ [][Next]_vars

-----------------------------------------------------------------------------
(* Correctness.  Between inputs the core's durable state is the disk. *)

Disks == [n \in Server |-> node[n].durable]

\* Two logs that hold entries of one term at one index are equal up to it,
\* compacted part included (send_append and the consistency check).
LogMatching == LogsMatch(Disks)

\* The committed histories of any two servers, and so the states they apply,
\* extend one another (highest_committable and RecvAppend).
StateMachineSafety == CommittedAgree(Disks)

\* A leader holds everything committed by servers of its own or an earlier
\* term (up_to_date and the current-term rule of highest_committable).
LeaderCompleteness == LeadersComplete(node, Disks)

\* A node stops only where CoreReplica says so, when it wins an election with
\* a full window; the core never halts on its own state (valid_durable).
StopsOnlyWhenFull ==
  \A n \in Server :
    node[n].halted =>
      node[n].role = "Leader" /\ Len(node[n].durable.log) = MaxEntries

\* A read answered Ready covers every write committed anywhere before the
\* read began, and the application has caught up with it (complete_read).
ReadsAreCurrent ==
  \A r \in reads : r.floor <= r.index /\ r.index <= r.applied

\* No step and no crash takes back a committed entry, whatever part of a
\* truncation, an append, a compaction or an installation was carried out.
CommitsStand ==
  [][\A n \in Server : KeepsCommitted(node[n].durable, node'[n].durable)]_vars

===============================================================================
