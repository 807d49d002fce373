-------------------------- MODULE DurableNodeProofs --------------------------
(***************************************************************************)
(* The checkpoint host never takes back what its file holds, for every      *)
(* membership and every bound.                                              *)
(***************************************************************************)
EXTENDS DurableNode, TransitionProofs

-----------------------------------------------------------------------------
(* The checkpoint store. *)

\* A checkpoint's whole history is its log.
LEMMA CheckpointHistory ==
  ASSUME NEW d \in Durable, ValidState(d)
  PROVE  /\ History(d) = d.log
         /\ Committed(d) = SubSeq(d.log, 1, d.commit)
         /\ d.log \in Seq(Entry) /\ Len(d.log) \in Nat
         /\ d.commit \in 0 .. Len(d.log)
<1>1. d.log \in Seq(Entry) /\ d.snapshot = <<>> /\ d.commit \in Nat
      /\ d.commit <= Len(d.log)
  BY DEF Durable, ValidState
<1>2. <<>> \o d.log = d.log
  BY <1>1, ConcatEmptySeq
<1> QED
  BY <1>1, <1>2 DEF History, Committed

\* validate_transition lets through only what keeps vote and commitment.
LEMMA TransitionKeeps ==
  ASSUME NEW d \in Durable, NEW e \in Durable, ValidState(d),
         ValidTransition(d, e)
  PROVE  KeepsVote(d, e) /\ KeepsCommitted(d, e)
<1>1. ValidState(e) /\ d.term <= e.term /\ d.commit <= e.commit
      /\ d.commit <= Len(e.log)
      /\ \A i \in 1 .. d.commit : e.log[i] = d.log[i]
  BY DEF ValidTransition, Durable
<1>2. KeepsVote(d, e)
  BY DEF ValidTransition, KeepsVote, Durable
<1> DEFINE D == SubSeq(d.log, 1, d.commit)
           E == SubSeq(e.log, 1, e.commit)
<1>3. /\ Committed(d) = D /\ d.log \in Seq(Entry) /\ d.commit \in 0 .. Len(d.log)
      /\ Committed(e) = E /\ e.log \in Seq(Entry) /\ e.commit \in 0 .. Len(e.log)
      /\ Len(d.log) \in Nat /\ Len(e.log) \in Nat
  BY <1>1, CheckpointHistory
<1>4. /\ Len(D) = d.commit /\ \A i \in 1 .. d.commit : D[i] = d.log[i]
      /\ Len(E) = e.commit /\ \A i \in 1 .. e.commit : E[i] = e.log[i]
      /\ D \in Seq(Entry) /\ E \in Seq(Entry)
  BY <1>3
<1> HIDE DEF D, E
<1>5. SubSeq(D, 1, Len(D)) = SubSeq(E, 1, Len(D))
  BY <1>1, <1>3, <1>4
<1>6. Len(D) <= Len(E)
  BY <1>1, <1>3, <1>4
<1> QED
  BY <1>2, <1>3, <1>5, <1>6 DEF KeepsCommitted, IsPrefix

\* A vote and a commitment kept as they are.
LEMMA KeepsItself ==
  ASSUME NEW d \in Durable
  PROVE  KeepsVote(d, d) /\ KeepsCommitted(d, d)
<1>1. KeepsVote(d, d)
  BY DEF KeepsVote, Durable
<1>2. Len(Committed(d)) <= Len(Committed(d))
  <2>1. History(d) \in Seq(Entry)
    BY ConcatProperties DEF History, Durable
  <2>2. Committed(d) = SubSeq(History(d), 1, d.commit) /\ d.commit \in Nat
    BY DEF Committed, Durable
  <2>3. Len(Committed(d)) = d.commit
    BY <2>1, <2>2
  <2> QED
    BY <2>2, <2>3
<1> QED
  BY <1>1, <1>2 DEF KeepsCommitted, IsPrefix

-----------------------------------------------------------------------------
(* The hosts. *)

\* o is what the core of n makes of an input the host hands to it.
Handled(n, o) ==
  \/ o = ElectionTimeout(n, node[n])
  \/ \E command \in Command : o = ClientPropose(n, node[n], command)
  \/ o = HeartbeatTimeout(n, node[n])
  \/ o = AdvanceCommit(n, node[n])
  \/ \E m \in msgs :
       /\ m.from \in Peers(n)
       /\ \/ m.type = "RequestVote" /\ o = RecvRequestVote(n, node[n], m)
          \/ m.type = "VoteReply" /\ o = RecvVoteReply(n, node[n], m)
          \/ m.type = "AppendEntries" /\ o = RecvAppend(n, node[n], m)
          \/ m.type = "AppendReply" /\ o = RecvAppendReply(n, node[n], m)

\* Every step dispatches an input or restarts a host.
LEMMA HostStepCases ==
  ASSUME Next
  PROVE  \E n \in Server :
           \/ \E o : Handled(n, o) /\ Dispatch(n, o)
           \/ RestartHost(n)
<1>1. PICK n \in Server :
        \/ Campaign(n)
        \/ \E command \in Command : Propose(n, command)
        \/ Heartbeat(n)
        \/ Commit(n)
        \/ \E m \in msgs : Receive(n, m)
        \/ RestartHost(n)
  BY Zenon DEF Next
<1> DEFINE Dispatches == \E o : Handled(n, o) /\ Dispatch(n, o)
<1>2. Campaign(n) => Dispatches
  BY Zenon DEF Campaign, Handled
<1>3. (\E command \in Command : Propose(n, command)) => Dispatches
  BY Zenon DEF Propose, Handled
<1>4. Heartbeat(n) => Dispatches
  BY Zenon DEF Heartbeat, Handled
<1>5. Commit(n) => Dispatches
  BY Zenon DEF Commit, Handled
<1>6. ASSUME NEW m \in msgs, Receive(n, m) PROVE Dispatches
  BY <1>6, Zenon DEF Receive, Handled
<1> HIDE DEF Dispatches
<1>7. Dispatches \/ RestartHost(n)
  BY <1>1, <1>2, <1>3, <1>4, <1>5, <1>6, Zenon
<1> QED
  BY <1>7, Zenon DEF Dispatches

\* Inputs have well-formed outcomes.
LEMMA HandledType ==
  ASSUME HostInv, NEW n \in Server, NEW o, Handled(n, o)
  PROVE  o \in Outcome(n)
<1>1. node[n] \in Node(n) /\ msgs \subseteq Message
  BY DEF HostInv
<1>2. ASSUME NEW m \in msgs, m.from \in Peers(n),
             \/ m.type = "RequestVote" /\ o = RecvRequestVote(n, node[n], m)
             \/ m.type = "VoteReply" /\ o = RecvVoteReply(n, node[n], m)
             \/ m.type = "AppendEntries" /\ o = RecvAppend(n, node[n], m)
             \/ m.type = "AppendReply" /\ o = RecvAppendReply(n, node[n], m)
      PROVE  o \in Outcome(n)
  <2>1. /\ m.type = "RequestVote" => m \in RequestVote
        /\ m.type = "VoteReply" => m \in VoteReply
        /\ m.type = "AppendEntries" => m \in AppendEntries
        /\ m.type = "AppendReply" => m \in AppendReply
    BY <1>1 DEF Message, RequestVote, VoteReply, AppendEntries, AppendReply,
                InstallSnapshot, SnapshotReply
  <2> QED
    BY <1>1, <1>2, <2>1, RecvRequestVoteType, RecvVoteReplyType, RecvAppendType,
       RecvAppendReplyType
<1> QED
  BY <1>1, <1>2, ElectionTimeoutType, ClientProposeType, HeartbeatTimeoutType,
     AdvanceCommitType DEF Handled

\* A core that checks its state first has a well-formed outcome.
LEMMA CheckedType ==
  ASSUME NEW n \in Server, NEW s \in Node(n), NEW o \in Outcome(n)
  PROVE  Checked(n, s, o) \in Outcome(n)
BY HaltType, EmitType DEF Checked

\* However a write ends, the file keeps vote and commitment, and the store
\* knows the file or knows that it does not.
LEMMA PersistedKeeps ==
  ASSUME NEW st \in [current : Durable, uncertain : BOOLEAN],
         NEW old \in Durable, ValidState(old),
         ~st.uncertain => st.current = old,
         NEW target \in Durable, NEW w \in Persisted(st, old, target)
  PROVE  /\ w.store \in [current : Durable, uncertain : BOOLEAN]
         /\ w.file \in Durable /\ ValidState(w.file)
         /\ ~w.store.uncertain => w.store.current = w.file
         /\ KeepsVote(old, w.file) /\ KeepsCommitted(old, w.file)
         /\ w.ok \in BOOLEAN
<1>1. CASE st.uncertain \/ ~ValidTransition(st.current, target)
  <2>1. w = [ok |-> FALSE, store |-> st, file |-> old, fault |-> 0]
    BY <1>1 DEF Persisted
  <2> QED
    BY <2>1, KeepsItself
<1>2. CASE ~st.uncertain /\ ValidTransition(st.current, target)
  <2>1. ValidTransition(old, target) /\ st.current = old
    BY <1>2
  <2>2. /\ KeepsVote(old, target) /\ KeepsCommitted(old, target)
        /\ KeepsVote(old, old) /\ KeepsCommitted(old, old)
        /\ ValidState(target)
    BY <2>1, TransitionKeeps, KeepsItself DEF ValidTransition
  <2>3. \/ w = [ok |-> TRUE, store |-> [st EXCEPT !.current = target],
                file |-> target, fault |-> 0]
        \/ \E left \in {old, target} :
             w = [ok |-> FALSE, store |-> Failed(st), file |-> left, fault |-> 1]
    BY <1>2 DEF Persisted
  <2>4. CASE w = [ok |-> TRUE, store |-> [st EXCEPT !.current = target],
                  file |-> target, fault |-> 0]
    BY <2>2, <2>4
  <2>5. ASSUME NEW left \in {old, target},
               w = [ok |-> FALSE, store |-> Failed(st), file |-> left, fault |-> 1]
        PROVE  /\ w.store \in [current : Durable, uncertain : BOOLEAN]
               /\ w.store.uncertain /\ w.file = left /\ w.ok = FALSE
    BY <2>5 DEF Failed
  <2> QED
    BY <2>2, <2>3, <2>4, <2>5
<1> QED
  BY <1>1, <1>2

\* What one step does to every file.
FileKept ==
  \A k \in Server :
    KeepsVote(file[k], file'[k]) /\ KeepsCommitted(file[k], file'[k])

\* A step that leaves the files alone keeps them.
LEMMA SameFileKept ==
  ASSUME HostInv, file' = file
  PROVE  FileKept
BY KeepsItself DEF HostInv, FileKept

\* Dispatching an input preserves the invariant and every file.
LEMMA DispatchKeeps ==
  ASSUME HostInv, NEW n \in Server, NEW outcome \in Outcome(n),
         Dispatch(n, outcome)
  PROVE  HostInv' /\ FileKept
<1> DEFINE o == Checked(n, node[n], outcome)
<1>1. /\ node[n] \in Node(n) /\ store[n] \in [current : Durable, uncertain : BOOLEAN]
      /\ file[n] \in Durable /\ ValidState(file[n])
      /\ ~store[n].uncertain => store[n].current = file[n]
  BY DEF HostInv
<1>2. o \in Outcome(n)
  BY <1>1, CheckedType
<1>3. o.node \in Node(n) /\ o.send \in SUBSET Message
  BY <1>2 DEF Outcome
<1>4. CASE o.node.pending = Nil
  <2>1. /\ node' = [node EXCEPT ![n] = o.node] /\ msgs' = msgs \cup o.send
        /\ store' = store /\ file' = file
    BY <1>4 DEF Dispatch
  <2> HIDE DEF o
  <2> QED
    BY <1>3, <2>1, SameFileKept DEF HostInv
<1>5. CASE o.node.pending # Nil
  <2> DEFINE target == o.node.pending.target
  <2>1. PICK w \in Persisted(store[n], file[n], target) :
          LET c == Checked(n, o.node, Completion(n, o.node, w.ok))
          IN /\ store' = [store EXCEPT ![n] = w.store]
             /\ file' = [file EXCEPT ![n] = w.file]
             /\ node' = [node EXCEPT ![n] = c.node]
             /\ msgs' = msgs \cup c.send
    BY <1>5 DEF Dispatch
  <2> DEFINE c == Checked(n, o.node, Completion(n, o.node, w.ok))
  <2>2. store' = [store EXCEPT ![n] = w.store] /\ file' = [file EXCEPT ![n] = w.file]
        /\ node' = [node EXCEPT ![n] = c.node] /\ msgs' = msgs \cup c.send
    BY <2>1
  <2> HIDE DEF o
  <2>3. target \in Durable
    BY <1>3, <1>5 DEF Node, PendingWrite
  <2>4. /\ w.store \in [current : Durable, uncertain : BOOLEAN]
        /\ w.file \in Durable /\ ValidState(w.file)
        /\ ~w.store.uncertain => w.store.current = w.file
        /\ KeepsVote(file[n], w.file) /\ KeepsCommitted(file[n], w.file)
    BY <1>1, <2>3, PersistedKeeps
  <2>5. PersistCompleted(n, o.node) \in Outcome(n)
    BY <1>3, <1>5, PersistCompletedType
  <2>6. PersistFailed(n, o.node) \in Outcome(n)
    BY <1>3, HaltType, EmitType DEF PersistFailed
  <2>7. Completion(n, o.node, w.ok) \in Outcome(n)
    BY <2>5, <2>6 DEF Completion
  <2>8. c \in Outcome(n)
    BY <1>3, <2>7, CheckedType
  <2> HIDE DEF c
  <2>9. c.node \in Node(n) /\ c.send \in SUBSET Message
    BY <2>8 DEF Outcome
  <2>10. FileKept
    BY <2>2, <2>4, KeepsItself DEF HostInv, FileKept
  <2>11. /\ DOMAIN node' = Server
         /\ \A k \in Server : node'[k] \in Node(k)
         /\ msgs' \subseteq Message
    BY <2>2, <2>9 DEF HostInv
  <2>12. /\ store' \in [Server -> [current : Durable, uncertain : BOOLEAN]]
         /\ file' \in [Server -> Durable]
         /\ \A k \in Server :
              /\ ValidState(file'[k])
              /\ ~store'[k].uncertain => store'[k].current = file'[k]
    BY <2>2, <2>4 DEF HostInv
  <2> QED
    BY <2>10, <2>11, <2>12 DEF HostInv
<1> QED
  BY <1>4, <1>5

\* So does a restart: it rereads the file.
LEMMA RestartKeeps ==
  ASSUME HostInv, NEW n \in Server, RestartHost(n)
  PROVE  HostInv' /\ FileKept
<1> DEFINE st == [current |-> file[n], uncertain |-> FALSE]
<1>1. file[n] \in Durable
  BY DEF HostInv
<1>2. /\ store' = [store EXCEPT ![n] = st]
      /\ node' = [node EXCEPT ![n] = Restart(n, store'[n].current).node]
      /\ file' = file /\ msgs' = msgs
  BY DEF RestartHost, Recover
<1>3. store'[n] = st
  BY <1>2 DEF HostInv
<1>4. node' = [node EXCEPT ![n] = Initial(n, file[n])]
  <2>1. store'[n].current = file[n]
    BY <1>3
  <2>2. Restart(n, file[n]).node = Initial(n, file[n])
    BY DEF Restart, Emit
  <2> QED
    BY <1>2, <2>1, <2>2
<1>5. Initial(n, file[n]) \in Node(n)
  BY <1>1, InitialType
<1> QED
  BY <1>1, <1>2, <1>4, <1>5, SameFileKept DEF HostInv

\* Every step preserves the invariant and every file.
LEMMA HostStep ==
  ASSUME HostInv, [Next]_vars
  PROVE  HostInv' /\ FileKept
<1>1. CASE UNCHANGED vars
  <2>1. node' = node /\ store' = store /\ file' = file /\ msgs' = msgs
    BY <1>1 DEF vars
  <2> QED
    BY <2>1, SameFileKept DEF HostInv
<1>2. CASE Next
  <2>1. PICK n \in Server :
          \/ \E o : Handled(n, o) /\ Dispatch(n, o)
          \/ RestartHost(n)
    BY <1>2, HostStepCases
  <2>2. ASSUME NEW o, Handled(n, o), Dispatch(n, o) PROVE HostInv' /\ FileKept
    BY <2>2, HandledType, DispatchKeeps
  <2> QED
    BY <2>1, <2>2, RestartKeeps
<1> QED
  BY <1>1, <1>2

\* Hosts opened on empty directories satisfy the invariant.
LEMMA HostInit ==
  ASSUME Init
  PROVE  HostInv
<1>1. EmptyDurable \in Durable /\ ValidState(EmptyDurable)
  BY EmptySeq, MaxEntriesAssumption DEF EmptyDurable, Durable, ValidState
<1> QED
  BY <1>1, InitialType DEF Init, HostInv

\* In every execution of any cluster the store knows its file or knows that a
\* write has failed (CheckpointStore::persist and recover).
THEOREM StoreKnowsFile == Spec => []HostInv
<1>1. HostInv /\ [Next]_vars => HostInv'
  BY HostStep
<1> QED
  BY <1>1, HostInit, PTL DEF Spec

\* No write of CheckpointStore, completed, failed or cut off, and no recovery
\* takes back a term, a vote cast in it or a committed entry.
THEOREM FilesStand == Spec => FileStands
<1>1. HostInv /\ [Next]_vars => FileKept
  BY HostStep
<1>2. FileKept =>
        [\A n \in Server :
           KeepsVote(file[n], file'[n]) /\ KeepsCommitted(file[n], file'[n])]_vars
  BY DEF FileKept
<1>3. Spec => []HostInv
  BY StoreKnowsFile
<1> QED
  BY <1>1, <1>2, <1>3, PTL DEF Spec, FileStands

===============================================================================
