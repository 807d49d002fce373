----------------------------- MODULE DurableNode -----------------------------
(***************************************************************************)
(* The transition core over one checkpoint file: DurableNode, the host that *)
(* persists synchronously, and CheckpointStore, which rewrites the whole    *)
(* durable state as one atomically replaced file.  A cluster of these hosts *)
(* exchanges messages that may be lost, repeated, late and reordered.       *)
(*                                                                          *)
(* The checkpoint stores no snapshot and no applied progress, so the host   *)
(* refuses ApplyCommitted, the core never compacts and no snapshot is ever  *)
(* sent.  The file's encoding and checksum are left out: a file that cannot *)
(* be decoded is refused at open and at recovery.                           *)
(***************************************************************************)
EXTENDS RaftProperties

CONSTANTS
  Campaigns,    \* <<n, t>>: the timer of n may start the election of t
  MaxIndex,     \* no proposal beyond this index
  MaxId,        \* no heartbeat or proposal past this request id
  MaxFaults,    \* failed writes, over all servers
  MaxRestarts   \* restarts and reopenings of a host that has not halted

VARIABLES
  node,      \* node_: the core's state on every server
  store,     \* current_ and uncertain_ on every server
  file,      \* what raft-core-v1.bin holds on every server
  msgs,      \* every message ever returned to a caller
  faults,    \* failed writes so far
  restarts   \* restarts of running hosts so far

vars == <<node, store, file, msgs, faults, restarts>>

-----------------------------------------------------------------------------
(* CheckpointStore. *)

\* What a checkpoint can hold.
ValidState(d) ==
  /\ d.snapshot = <<>>
  /\ d.commit <= Len(d.log)
  /\ d.applied = 0
  /\ Len(d.log) <= MaxEntries
  /\ \A i \in DOMAIN d.log : d.log[i].term \in 1 .. d.term

\* validate_transition: term, vote and committed entries are not taken back.
ValidTransition(old, next) ==
  /\ ValidState(next)
  /\ next.term >= old.term
  /\ next.commit >= old.commit
  /\ next.term = old.term /\ old.votedFor # Nil => next.votedFor = old.votedFor
  /\ old.commit <= Len(next.log)
  /\ \A i \in 1 .. old.commit : next.log[i] = old.log[i]

\* A failed write leaves the file as it was or replaced, and unknown.
Failed(st) == [st EXCEPT !.uncertain = TRUE]

\* persist: how the call may end.  A refused target leaves the file alone.
Persisted(st, old, target) ==
  IF st.uncertain \/ ~ValidTransition(st.current, target)
  THEN {[ok |-> FALSE, store |-> st, file |-> old, fault |-> 0]}
  ELSE {[ok |-> TRUE, store |-> [st EXCEPT !.current = target],
         file |-> target, fault |-> 0]}
         \cup {[ok |-> FALSE, store |-> Failed(st), file |-> left, fault |-> 1] :
                 left \in {old, target}}

\* Fault: the state in memory is trusted, not the file.
RecoverMemory(st, left) == [st EXCEPT !.uncertain = FALSE]

\* recover: memory is what the file holds.
Recover(st, left) == [current |-> left, uncertain |-> FALSE]

-----------------------------------------------------------------------------
(* DurableNode. *)

\* Fault: what waits for the write is released even when it fails.
ReleasedAnyway(n, s, ok) ==
  IF ok THEN PersistCompleted(n, s)
  ELSE [PersistFailed(n, s) EXCEPT !.send = s.pending.after]

\* The result of the write is handed to the core.
Completion(n, s, ok) ==
  IF ok THEN PersistCompleted(n, s) ELSE PersistFailed(n, s)

\* dispatch: one core step; the write it asks for is carried out before
\* anything that depends on it is returned.
Dispatch(n, outcome) ==
  LET o == Checked(n, node[n], outcome)
  IN /\ ~node[n].halted
     /\ IF o.node.pending = Nil
        THEN /\ node' = [node EXCEPT ![n] = o.node]
             /\ msgs' = msgs \cup o.send
             /\ UNCHANGED <<store, file, faults>>
        ELSE \E w \in Persisted(store[n], file[n], o.node.pending.target) :
               LET c == Checked(n, o.node, Completion(n, o.node, w.ok))
               IN /\ faults + w.fault <= MaxFaults
                  /\ faults' = faults + w.fault
                  /\ store' = [store EXCEPT ![n] = w.store]
                  /\ file' = [file EXCEPT ![n] = w.file]
                  /\ node' = [node EXCEPT ![n] = c.node]
                  /\ msgs' = msgs \cup c.send
     /\ UNCHANGED restarts

\* The vote of a recovered state must belong to the configured cluster.
AcceptableVote(d) == d.votedFor \in Server \cup {Nil}

\* Restart, and a new process opening the same directory: the node is built
\* again from the file alone.
RestartHost(n) ==
  /\ node[n].halted \/ restarts < MaxRestarts
  /\ AcceptableVote(file[n])
  /\ store' = [store EXCEPT ![n] = Recover(@, file[n])]
  /\ node' = [node EXCEPT ![n] = Restart(n, store'[n].current).node]
  /\ restarts' = IF node[n].halted THEN restarts ELSE restarts + 1
  /\ UNCHANGED <<file, msgs, faults>>

IdsLeft(n) ==
  \A p \in Peers(n) : node[n].inFlight[p] # Nil \/ node[n].nextId[p] <= MaxId

Campaign(n) ==
  /\ CanCampaign(node[n])
  /\ <<n, node[n].durable.term + 1>> \in Campaigns
  /\ Dispatch(n, ElectionTimeout(n, node[n]))

Propose(n, command) ==
  /\ CanPropose(node[n])
  /\ LastIndex(node[n].durable) < MaxIndex
  /\ IdsLeft(n)
  /\ Dispatch(n, ClientPropose(n, node[n], command))

Heartbeat(n) ==
  /\ node[n].role = "Leader" /\ IdsLeft(n)
  /\ Dispatch(n, HeartbeatTimeout(n, node[n]))

Commit(n) == Dispatch(n, AdvanceCommit(n, node[n]))

Receive(n, m) ==
  /\ m.to = n /\ m.from \in Peers(n)
  /\ \/ m.type = "RequestVote" /\ ValidRequestVote(m)
          /\ Dispatch(n, RecvRequestVote(n, node[n], m))
     \/ m.type = "VoteReply" /\ Dispatch(n, RecvVoteReply(n, node[n], m))
     \/ m.type = "AppendEntries" /\ ValidAppend(m)
          /\ Dispatch(n, RecvAppend(n, node[n], m))
     \/ m.type = "AppendReply" /\ Dispatch(n, RecvAppendReply(n, node[n], m))

\* open on empty directories.
Init ==
  /\ node = [n \in Server |-> Initial(n, EmptyDurable)]
  /\ store = [n \in Server |-> [current |-> EmptyDurable, uncertain |-> FALSE]]
  /\ file = [n \in Server |-> EmptyDurable]
  /\ msgs = {}
  /\ faults = 0
  /\ restarts = 0

Next ==
  \E n \in Server :
    \/ Campaign(n)
    \/ \E command \in Command : Propose(n, command)
    \/ Heartbeat(n)
    \/ Commit(n)
    \/ \E m \in msgs : Receive(n, m)
    \/ RestartHost(n)

Spec == Init /\ [][Next]_vars

-----------------------------------------------------------------------------
(* Correctness. *)

\* Everything is well-formed, every file holds a state a checkpoint can hold,
\* and unless a write has failed since the last recovery the store knows what
\* is in its file: on this rests that nothing is ever taken back.
HostInv ==
  /\ DOMAIN node = Server
  /\ \A n \in Server : node[n] \in Node(n)
  /\ store \in [Server -> [current : Durable, uncertain : BOOLEAN]]
  /\ file \in [Server -> Durable]
  /\ msgs \subseteq Message
  /\ \A n \in Server :
       /\ ValidState(file[n])
       /\ ~store[n].uncertain => store[n].current = file[n]

\* A reply a caller was given to send is on file before it leaves: a granted
\* vote until the voter moves to a later term, an acknowledged append while
\* the follower stays in the term (the completion of persist).
RepliesAreDurable ==
  GrantedVotesHeld(file, msgs) /\ AcknowledgedEntriesHeld(file, msgs)

\* No write, failed or not, and no recovery takes back the term in a file, the
\* vote cast in it, or a committed entry (validate_transition).
FileStands ==
  [][\A n \in Server :
       KeepsVote(file[n], file'[n]) /\ KeepsCommitted(file[n], file'[n])]_vars

===============================================================================
