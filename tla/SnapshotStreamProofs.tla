------------------------- MODULE SnapshotStreamProofs -------------------------
(***************************************************************************)
(* A chunked transfer installs what its leader encoded, for every number of *)
(* leaders, snapshots and chunks, and frames in any order.                  *)
(***************************************************************************)
EXTENDS SnapshotStream, FiniteSetTheorems, SequenceTheorems, TLAPS

-----------------------------------------------------------------------------
(* The shape of the state. *)

Cell(t, v, i) == [by |-> t, of |-> v, at |-> i]

CellSet == [by : Term, of : DOMAIN Cells, at : Nat]

\* A frame of the leader of t holds one cell of the snapshot it names.
Frame(t) ==
  {m \in [term : {t}, index : DOMAIN Cells, offset : Nat,
          payload : Seq(CellSet), more : BOOLEAN, id : Nat] :
     /\ m.offset < Cells[m.index]
     /\ m.payload = <<Cell(t, m.index, m.offset + 1)>>
     /\ m.more = (m.offset + 1 # Cells[m.index])}

AnswerFrame == [term : Nat, success : BOOLEAN, next : Nat, id : Nat]

\* The outstanding chunk is the one that ends where the transfer stands.
Transfer(t) ==
  {x \in [pinned : DOMAIN Cells, end : Nat, final : BOOLEAN, frame : Frame(t)] :
     /\ x.frame.index = x.pinned
     /\ x.frame.offset + 1 = x.end
     /\ x.final = (x.end = Cells[x.pinned])}

LeaderState(t) ==
  [newest : DOMAIN Cells, match : Nat, transfer : Transfer(t) \cup {Nil}, probed : BOOLEAN]

\* An open stream holds the first cells of its payload, and not all of them.
Stream ==
  {x \in [term : Term, index : DOMAIN Cells, bytes : Seq(CellSet)] :
     /\ Len(x.bytes) < Cells[x.index]
     /\ \A i \in 1 .. Len(x.bytes) : x.bytes[i] = Cell(x.term, x.index, i)}

FollowerState == [term : Nat, commit : Nat, incoming : Stream \cup {Nil}]

StreamTypes ==
  /\ DOMAIN leader = Term
  /\ \A t \in Term : leader[t] # Nil => leader[t] \in LeaderState(t)
  /\ follower \in FollowerState
  /\ DOMAIN requests = Term /\ \A t \in Term : requests[t] \in Seq(Frame(t))
  /\ replies \in [Term -> Seq(AnswerFrame)]
  /\ highest \in Nat

\* The correlation of the outstanding chunk is carried by copies of its frame
\* only, and an answer to it that ends a transfer comes from a follower that
\* has installed the snapshot.
Accounted(t, l, commit, reqs, reps) ==
  /\ l.match <= commit
  /\ l.transfer # Nil =>
       /\ \A i \in DOMAIN reqs : reqs[i].id = l.transfer.frame.id => reqs[i] = l.transfer.frame
       /\ \A i \in DOMAIN reps :
            /\ reps[i].term = t /\ reps[i].success
            /\ reps[i].id = l.transfer.frame.id
            /\ reps[i].next = l.transfer.end /\ l.transfer.final
            => l.transfer.pinned <= commit

StreamInv ==
  /\ StreamTypes
  /\ \A t \in Term :
       leader[t] # Nil => Accounted(t, leader[t], follower.commit, requests[t], replies[t])

-----------------------------------------------------------------------------
(* Data. *)

\* Every snapshot has a chunk.
LEMMA SnapshotsHaveCells ==
  ASSUME NEW v \in DOMAIN Cells
  PROVE  v \in Nat /\ Cells[v] \in Nat /\ Cells[v] >= 1
BY StreamAssumption

\* A correlation that is least among the unused ones is unused.
LEMMA FreshIsNew ==
  ASSUME NEW S, IsFiniteSet(S)
  PROVE  Fresh(S) \in Nat /\ Fresh(S) \notin S
<1> DEFINE I == 1 .. Cardinality(S) + 1
<1>1. Cardinality(S) \in Nat
  BY FS_CardinalityType
<1>2. Cardinality(I) = Cardinality(S) + 1
  BY <1>1, FS_Interval
<1>3. I \notin SUBSET S
  <2>1. SUFFICES ASSUME I \in SUBSET S PROVE FALSE
    OBVIOUS
  <2>2. Cardinality(I) <= Cardinality(S)
    BY <2>1, FS_Subset
  <2> QED
    BY <1>1, <1>2, <2>2
<1>4. \E n \in I : n \notin S
  BY <1>3
<1>5. Fresh(S) \in I /\ Fresh(S) \notin S
  BY <1>4 DEF Fresh
<1> QED
  BY <1>1, <1>5

\* A sequence of frames carries finitely many correlations.
LEMMA IdsFinite ==
  ASSUME NEW S, NEW q \in Seq(S)
  PROVE  IsFiniteSet({m.id : m \in ToSet(q)})
<1> DEFINE I == 1 .. Len(q)
           T == {m.id : m \in ToSet(q)}
           f == [i \in I |-> q[i].id]
<1>1. Len(q) \in Nat /\ DOMAIN q = I
  OBVIOUS
<1>2. IsFiniteSet(I)
  BY <1>1, FS_Interval
<1>3. f \in Surjection(I, T)
  BY <1>1 DEF Surjection, ToSet
<1> HIDE DEF T, f
<1>4. IsFiniteSet(T)
  BY <1>2, <1>3, FS_Surjection
<1> QED
  BY <1>4 DEF T

\* What is queued is the frame or was queued before.
LEMMA QueuedFrames ==
  ASSUME NEW S, NEW q \in Seq(S), NEW m \in S
  PROVE  /\ Queued(q, m) \in Seq(S)
         /\ \A i \in DOMAIN Queued(q, m) :
              Queued(q, m)[i] = m \/ \E j \in DOMAIN q : Queued(q, m)[i] = q[j]
<1>1. CASE Queued(q, m) = q
  BY <1>1
<1>2. CASE Queued(q, m) = Append(q, m)
  <2>1. Append(q, m) \in Seq(S)
    OBVIOUS
  <2>2. ASSUME NEW i \in DOMAIN Append(q, m)
        PROVE  Append(q, m)[i] = m \/ \E j \in DOMAIN q : Append(q, m)[i] = q[j]
    <3>1. i \in 1 .. Len(q) + 1
      OBVIOUS
    <3>2. CASE i = Len(q) + 1
      BY <3>2
    <3>3. CASE i \in 1 .. Len(q)
      BY <3>3
    <3> QED
      BY <3>1, <3>2, <3>3
  <2> QED
    BY <1>2, <2>1, <2>2
<1> QED
  BY <1>1, <1>2 DEF Queued

\* What is left after a frame was taken was there before.
LEMMA RemainingFrames ==
  ASSUME NEW S, NEW q \in Seq(S), NEW i \in DOMAIN q
  PROVE  /\ RemoveAt(q, i) \in Seq(S)
         /\ \A k \in DOMAIN RemoveAt(q, i) :
              \E j \in DOMAIN q : RemoveAt(q, i)[k] = q[j]
<1> DEFINE a == SubSeq(q, 1, i - 1)
           b == SubSeq(q, i + 1, Len(q))
<1>1. i \in 1 .. Len(q) /\ Len(q) \in Nat /\ DOMAIN q = 1 .. Len(q)
  OBVIOUS
<1>2. /\ a \in Seq(S) /\ Len(a) = i - 1
      /\ \A k \in 1 .. i - 1 : a[k] = q[k]
  BY <1>1
<1>3. /\ b \in Seq(S) /\ Len(b) = Len(q) - i
      /\ \A k \in 1 .. Len(q) - i : b[k] = q[i + k]
  BY <1>1
<1> HIDE DEF a, b
<1>4. /\ a \o b \in Seq(S)
      /\ Len(a \o b) = Len(a) + Len(b)
      /\ \A k \in 1 .. Len(a) + Len(b) :
           (a \o b)[k] = IF k <= Len(a) THEN a[k] ELSE b[k - Len(a)]
  BY <1>2, <1>3, ConcatProperties
<1>5. ASSUME NEW k \in 1 .. Len(a) + Len(b)
      PROVE  \E j \in DOMAIN q : (a \o b)[k] = q[j]
  <2>1. CASE k <= Len(a)
    <3>1. k \in 1 .. i - 1 /\ k \in DOMAIN q /\ (a \o b)[k] = a[k]
      BY <1>1, <1>2, <1>3, <1>4, <2>1
    <3> QED
      BY <1>2, <3>1
  <2>2. CASE k > Len(a)
    <3>1. k - Len(a) \in 1 .. Len(q) - i /\ i + (k - Len(a)) \in DOMAIN q
      BY <1>1, <1>2, <1>3, <2>2
    <3>2. (a \o b)[k] = b[k - Len(a)]
      BY <1>2, <1>3, <1>4, <2>2
    <3> QED
      BY <1>3, <3>1, <3>2
  <2> QED
    BY <1>1, <1>2, <1>3, <2>1, <2>2
<1>6. RemoveAt(q, i) = a \o b
  BY DEF RemoveAt, a, b
<1>7. DOMAIN (a \o b) = 1 .. Len(a) + Len(b)
  BY <1>4
<1> QED
  BY <1>4, <1>5, <1>6, <1>7

-----------------------------------------------------------------------------
(* The leader. *)

\* A chunk is a frame of its leader.
LEMMA ChunkIsFrame ==
  ASSUME NEW t \in Term, NEW v \in DOMAIN Cells, NEW o \in Nat, o < Cells[v],
         NEW id \in Nat
  PROVE  /\ Chunk(t, v, o, id) \in Frame(t)
         /\ Chunk(t, v, o, id).index = v /\ Chunk(t, v, o, id).offset = o
         /\ Chunk(t, v, o, id).id = id
<1> DEFINE P == Payload(t, v)
           c == Chunk(t, v, o, id)
<1>1. Cells[v] \in Nat /\ Cells[v] >= 1
  BY SnapshotsHaveCells
<1>2. P \in Seq(CellSet) /\ Len(P) = Cells[v]
      /\ \A i \in 1 .. Cells[v] : P[i] = Cell(t, v, i)
  <2>1. P \in [1 .. Cells[v] -> CellSet]
        /\ \A i \in 1 .. Cells[v] : P[i] = Cell(t, v, i)
    BY <1>1 DEF Payload, Cell, CellSet
  <2> HIDE DEF P
  <2> QED
    BY <1>1, <2>1, SeqDef, LenProperties
<1> HIDE DEF P
<1>3. SubSeq(P, o + 1, o + 1) = <<Cell(t, v, o + 1)>>
  <2> DEFINE p == SubSeq(P, o + 1, o + 1)
  <2>1. o + 1 \in 1 .. Cells[v]
    BY <1>1
  <2>2. p \in Seq(CellSet) /\ Len(p) = 1 /\ p[1] = P[o + 1]
    BY <1>1, <1>2, <2>1
  <2> HIDE DEF p
  <2>3. p = <<P[o + 1]>>
    BY <2>2
  <2> QED
    BY <1>2, <2>1, <2>3 DEF p
<1>4. <<Cell(t, v, o + 1)>> \in Seq(CellSet)
  BY <1>1 DEF Cell, CellSet
<1>5. c = [term |-> t, index |-> v, offset |-> o, payload |-> <<Cell(t, v, o + 1)>>,
           more |-> o + 1 # Cells[v], id |-> id]
  BY <1>3 DEF Chunk, P
<1> HIDE DEF c
<1>6. c \in Frame(t) /\ c.index = v /\ c.offset = o /\ c.id = id
  BY <1>4, <1>5 DEF Frame
<1> QED
  BY <1>6 DEF c

\* The correlations around a leader are finitely many and include those of
\* every queued frame.
LEMMA CarriedIds ==
  ASSUME StreamTypes, NEW t \in Term
  PROVE  /\ IsFiniteSet(Carried(t))
         /\ \A i \in DOMAIN requests[t] : requests[t][i].id \in Carried(t)
         /\ \A i \in DOMAIN replies[t] : replies[t][i].id \in Carried(t)
<1> DEFINE R == {m.id : m \in ToSet(requests[t])}
           P == {m.id : m \in ToSet(replies[t])}
           X == IF leader[t].transfer = Nil THEN {} ELSE {leader[t].transfer.frame.id}
<1>1. IsFiniteSet(R) /\ IsFiniteSet(P)
  BY IdsFinite DEF StreamTypes
<1>2. IsFiniteSet(X)
  BY FS_EmptySet, FS_Singleton
<1>3. Carried(t) = (R \cup P) \cup X
  BY DEF Carried
<1>4. /\ \A i \in DOMAIN requests[t] : requests[t][i].id \in R
      /\ \A i \in DOMAIN replies[t] : replies[t][i].id \in P
  BY DEF ToSet
<1> HIDE DEF R, P, X
<1>5. IsFiniteSet(R \cup P)
  BY <1>1, FS_Union
<1>6. IsFiniteSet((R \cup P) \cup X)
  BY <1>2, <1>5, FS_Union
<1> QED
  BY <1>3, <1>4, <1>6

\* k is a state the leader of t may move to: its transfer is the one it had,
\* none, or one under a new correlation.
Moves(t, k) ==
  /\ k \in LeaderState(t) /\ k.match <= follower.commit
  /\ \/ k.transfer = leader[t].transfer
     \/ k.transfer = Nil
     \/ k.transfer \in Transfer(t) /\ k.transfer.frame.id \notin Carried(t)

\* send_chunk
LEMMA SendChunkMoves ==
  ASSUME StreamTypes, NEW t \in Term, NEW l \in LeaderState(t),
         l.match <= follower.commit,
         NEW v \in DOMAIN Cells, NEW o \in Nat, o < Cells[v]
  PROVE  Moves(t, SendChunk(t, l, v, o))
<1> DEFINE id == Fresh(Carried(t))
           c == Chunk(t, v, o, id)
           x == [pinned |-> v, end |-> o + 1, final |-> o + 1 = Cells[v], frame |-> c]
<1>1. id \in Nat /\ id \notin Carried(t)
  BY CarriedIds, FreshIsNew
<1>2. SendChunk(t, l, v, o) = [l EXCEPT !.transfer = x]
  BY DEF SendChunk
<1> HIDE DEF id
<1>3. c \in Frame(t) /\ c.index = v /\ c.offset = o /\ c.id = id
  BY <1>1, ChunkIsFrame
<1> HIDE DEF c
<1>4. x \in Transfer(t) /\ x.frame.id \notin Carried(t)
  BY <1>1, <1>3 DEF Transfer
<1> HIDE DEF x
<1>5. [l EXCEPT !.transfer = x] \in LeaderState(t)
      /\ [l EXCEPT !.transfer = x].transfer = x
      /\ [l EXCEPT !.transfer = x].match = l.match
  BY <1>4 DEF LeaderState
<1> QED
  BY <1>2, <1>4, <1>5 DEF Moves

\* release
LEMMA PumpedMoves ==
  ASSUME StreamTypes, NEW t \in Term, NEW l \in LeaderState(t),
         l.match <= follower.commit,
         l.transfer = Nil \/ l.transfer = leader[t].transfer
  PROVE  Moves(t, Pumped(t, l))
<1>1. Moves(t, l)
  BY DEF Moves
<1>2. l.newest \in DOMAIN Cells /\ 0 < Cells[l.newest]
  BY SnapshotsHaveCells DEF LeaderState
<1>3. Moves(t, SendChunk(t, l, l.newest, 0))
  BY <1>2, SendChunkMoves
<1> QED
  BY <1>1, <1>3 DEF Pumped

\* Every frame of q was in old.
Within(q, old) == \A i \in DOMAIN q : \E j \in DOMAIN old : q[i] = old[j]

\* Every frame of q was in old or is the outstanding one of l.
WithinOrSent(q, old, l) ==
  \A i \in DOMAIN q :
    \/ l.transfer # Nil /\ q[i] = l.transfer.frame
    \/ \E j \in DOMAIN old : q[i] = old[j]

\* Frames that were there before, and copies of the outstanding one, add
\* nothing to account for.
LEMMA AccountedStill ==
  ASSUME NEW t, NEW l, NEW commit, NEW reqs, NEW reps, NEW reqs2, NEW reps2,
         Accounted(t, l, commit, reqs, reps),
         WithinOrSent(reqs2, reqs, l), Within(reps2, reps)
  PROVE  Accounted(t, l, commit, reqs2, reps2)
<1>1. ASSUME l.transfer # Nil, NEW i \in DOMAIN reqs2, reqs2[i].id = l.transfer.frame.id
      PROVE  reqs2[i] = l.transfer.frame
  BY <1>1 DEF Accounted, WithinOrSent
<1>2. ASSUME l.transfer # Nil, NEW i \in DOMAIN reps2,
             reps2[i].term = t, reps2[i].success, reps2[i].id = l.transfer.frame.id,
             reps2[i].next = l.transfer.end, l.transfer.final
      PROVE  l.transfer.pinned <= commit
  <2>1. PICK j \in DOMAIN reps : reps2[i] = reps[j]
    BY DEF Within
  <2>2. /\ reps[j].term = t /\ reps[j].success /\ reps[j].id = l.transfer.frame.id
        /\ reps[j].next = l.transfer.end
    BY <1>2, <2>1
  <2> QED
    BY <1>2, <2>2, Zenon DEF Accounted
<1> QED
  BY <1>1, <1>2, Zenon DEF Accounted

\* A leader that moves, sends what is outstanding or nothing, and reads no
\* more than it was sent, keeps the invariant.
LEMMA LeaderStep ==
  ASSUME StreamInv, NEW t \in Term, NEW k, k = Nil \/ Moves(t, k),
         leader[t] # Nil \/ k.transfer = Nil,
         leader' = [leader EXCEPT ![t] = k],
         requests' = requests \/ (Moves(t, k) /\ Send(t, k)),
         replies' \in [Term -> Seq(AnswerFrame)],
         \A u \in Term : Within(replies'[u], replies[u]),
         follower' \in FollowerState, follower'.commit = follower.commit,
         highest' \in Nat
  PROVE  StreamInv'
<1> DEFINE x == k.transfer
<1>0. /\ StreamTypes
      /\ leader[t] # Nil => Accounted(t, leader[t], follower.commit, requests[t], replies[t])
  BY DEF StreamInv, StreamTypes
<1>1. ASSUME Moves(t, k), x # Nil PROVE x \in Transfer(t) /\ x.frame \in Frame(t)
  BY <1>0, <1>1 DEF Moves, LeaderState, Transfer
<1>2. /\ DOMAIN requests' = Term /\ \A u \in Term : requests'[u] \in Seq(Frame(u))
      /\ \A u \in Term \ {t} : requests'[u] = requests[u]
      /\ WithinOrSent(requests'[t], requests[t], k)
  <2>1. CASE requests' = requests
    BY <1>0, <2>1 DEF StreamTypes, WithinOrSent
  <2>2. CASE Send(t, k) /\ x = Nil
    <3>1. requests' = [requests EXCEPT ![t] = requests[t]]
      BY <2>2 DEF Send
    <3> QED
      BY <1>0, <3>1 DEF StreamTypes, WithinOrSent
  <2>3. CASE Moves(t, k) /\ Send(t, k) /\ x # Nil
    <3> DEFINE q == Queued(requests[t], x.frame)
    <3>1. requests' = [requests EXCEPT ![t] = q]
      BY <2>3 DEF Send
    <3>2. /\ q \in Seq(Frame(t))
          /\ \A i \in DOMAIN q :
               q[i] = x.frame \/ \E j \in DOMAIN requests[t] : q[i] = requests[t][j]
      BY <1>0, <1>1, <2>3, QueuedFrames DEF StreamTypes
    <3> HIDE DEF q
    <3>3. requests'[t] = q
      BY <1>0, <3>1 DEF StreamTypes
    <3> QED
      BY <1>0, <2>3, <3>1, <3>2, <3>3 DEF StreamTypes, WithinOrSent, x
  <2> QED
    BY <2>1, <2>2, <2>3
<1> HIDE DEF x
<1>3. DOMAIN leader' = Term /\ leader'[t] = k
      /\ \A u \in Term \ {t} : leader'[u] = leader[u]
  BY <1>0 DEF StreamTypes
<1>4. StreamTypes'
  <2>1. \A u \in Term : leader'[u] # Nil => leader'[u] \in LeaderState(u)
    BY <1>0, <1>3 DEF StreamTypes, Moves
  <2> QED
    BY <1>0, <1>2, <1>3, <2>1 DEF StreamTypes
<1>5. ASSUME NEW u \in Term \ {t}, leader'[u] # Nil
      PROVE  Accounted(u, leader'[u], follower'.commit, requests'[u], replies'[u])
  <2>1. Accounted(u, leader[u], follower.commit, requests[u], replies[u])
    BY <1>3, <1>5 DEF StreamInv
  <2>2. WithinOrSent(requests'[u], requests[u], leader[u]) /\ Within(replies'[u], replies[u])
    BY <1>2 DEF WithinOrSent
  <2>3. Accounted(u, leader[u], follower.commit, requests'[u], replies'[u])
    BY <2>1, <2>2, AccountedStill
  <2> QED
    BY <1>3, <2>3
<1>6. ASSUME k # Nil
      PROVE  Accounted(t, k, follower.commit, requests'[t], replies'[t])
  <2>1. k.match <= follower.commit
    BY <1>6 DEF Moves
  <2>2. CASE x = Nil
    BY <2>1, <2>2 DEF Accounted, x
  <2>3. CASE x # Nil /\ x = leader[t].transfer
    <3>1. WithinOrSent(requests'[t], requests[t], leader[t]) /\ Within(replies'[t], replies[t])
      BY <1>2, <2>3 DEF WithinOrSent, x
    <3>2. Accounted(t, leader[t], follower.commit, requests'[t], replies'[t])
      BY <1>0, <2>3, <3>1, AccountedStill DEF x
    <3> QED
      BY <2>1, <2>3, <3>2 DEF Accounted, x
  <2>4. CASE x # Nil /\ x.frame.id \notin Carried(t)
    <3>1. \A i \in DOMAIN requests'[t] : requests'[t][i].id = x.frame.id => requests'[t][i] = x.frame
      BY <1>0, <1>2, <2>4, CarriedIds DEF WithinOrSent, x
    <3>2. \A i \in DOMAIN replies'[t] : replies'[t][i].id # x.frame.id
      BY <1>0, <2>4, CarriedIds DEF Within
    <3> QED
      BY <2>1, <3>1, <3>2 DEF Accounted, x
  <2> QED
    BY <1>6, <2>2, <2>3, <2>4 DEF Moves, x
<1>7. \A u \in Term :
        leader'[u] # Nil => Accounted(u, leader'[u], follower'.commit, requests'[u], replies'[u])
  BY <1>3, <1>5, <1>6
<1> QED
  BY <1>4, <1>7 DEF StreamInv

\* Nothing is unaccounted for when the follower has installed more.
LEMMA AccountedLater ==
  ASSUME NEW t \in Term, NEW l \in LeaderState(t), NEW reqs, NEW reps,
         NEW c \in Nat, NEW d \in Nat, c <= d, Accounted(t, l, c, reqs, reps)
  PROVE  Accounted(t, l, d, reqs, reps)
<1>1. l.match \in Nat /\ l.match <= c
  BY DEF LeaderState, Accounted
<1>2. l.transfer # Nil => l.transfer.pinned \in Nat
  BY SnapshotsHaveCells DEF LeaderState, Transfer
<1>3. l.transfer # Nil /\ l.transfer.pinned <= c => l.transfer.pinned <= d
  BY <1>2
<1>4. l.match <= d
  BY <1>1
<1> QED
  BY <1>3, <1>4 DEF Accounted

\* on_snapshot_reply: a transfer ends only when the follower has installed it.
LEMMA HeardMoves ==
  ASSUME StreamInv, NEW t \in Term, leader[t] # Nil, NEW i \in DOMAIN replies[t]
  PROVE  LET k == Heard(t, leader[t], replies[t][i]) IN k = Nil \/ Moves(t, k)
<1> DEFINE l == leader[t]
           m == replies[t][i]
           k == Heard(t, l, m)
           x == l.transfer
           done == [l EXCEPT !.transfer = Nil, !.match = x.pinned]
<1>1. /\ StreamTypes /\ l \in LeaderState(t) /\ l.match <= follower.commit
      /\ Accounted(t, l, follower.commit, requests[t], replies[t])
  BY DEF StreamInv, StreamTypes, Accounted
<1>2. Moves(t, l)
  BY <1>1 DEF Moves
<1>3. ASSUME x # Nil
      PROVE  /\ x \in Transfer(t) /\ x.pinned \in DOMAIN Cells /\ x.pinned \in Nat
             /\ Cells[x.pinned] \in Nat /\ 0 < Cells[x.pinned]
             /\ x.end \in Nat /\ x.end <= Cells[x.pinned]
             /\ ~x.final => x.end # Cells[x.pinned]
  <2>1. x \in Transfer(t)
    BY <1>1, <1>3 DEF LeaderState
  <2> HIDE DEF x
  <2>2. /\ x.pinned \in DOMAIN Cells /\ x.end \in Nat /\ x.frame \in Frame(t)
        /\ x.frame.index = x.pinned /\ x.frame.offset + 1 = x.end
        /\ x.final = (x.end = Cells[x.pinned])
    BY <2>1 DEF Transfer
  <2>3. x.frame.offset \in Nat /\ x.frame.offset < Cells[x.pinned]
    BY <2>2 DEF Frame
  <2>4. ~x.final => x.end # Cells[x.pinned]
    BY <2>2, Zenon
  <2> QED
    BY <2>1, <2>2, <2>3, <2>4, SnapshotsHaveCells
<1>4. ASSUME x # Nil PROVE Moves(t, Restarted(t, l))
  BY <1>1, <1>3, <1>4, SendChunkMoves DEF Restarted
<1>5. ASSUME x # Nil, ~x.final PROVE Moves(t, SendChunk(t, l, x.pinned, x.end))
  <2>1. x.end < Cells[x.pinned]
    BY <1>3, <1>5
  <2> QED
    BY <1>1, <1>3, <1>5, <2>1, SendChunkMoves
<1>6. ASSUME x # Nil, x.final, m.term = t, m.success, m.id = x.frame.id, m.next = x.end
      PROVE  Moves(t, Pumped(t, done))
  <2>1. x.pinned <= follower.commit
    BY <1>1, <1>6 DEF Accounted
  <2>2. done \in LeaderState(t) /\ done.match = x.pinned /\ done.transfer = Nil
    BY <1>1, <1>3, <1>6 DEF LeaderState
  <2> HIDE DEF done
  <2> QED
    BY <1>1, <2>1, <2>2, PumpedMoves
<1>7. m.success \in BOOLEAN
  <2>1. replies[t] \in Seq(AnswerFrame)
    BY <1>1 DEF StreamTypes
  <2>2. m \in AnswerFrame
    BY <2>1
  <2> QED
    BY <2>2 DEF AnswerFrame
<1> HIDE DEF l, m, x, done
<1>8. k = Nil \/ Moves(t, k)
  BY <1>2, <1>4, <1>5, <1>6, <1>7 DEF Heard, Final, x, done
<1> QED
  BY <1>8 DEF l, m

-----------------------------------------------------------------------------
(* The follower. *)

\* b is a sound answer of the follower f to the chunk m: nothing installed is
\* lost, and the end of a snapshot is acknowledged only when it is installed.
SoundAnswer(f, m, b) ==
  /\ b.follower \in FollowerState /\ b.success \in BOOLEAN /\ b.next \in Nat
  /\ b.follower.term = f.term /\ f.commit <= b.follower.commit
  /\ b.success /\ b.next = m.offset + 1 /\ m.offset + 1 = Cells[m.index]
       => m.index <= b.follower.commit

\* The follower after an answer, g, holds what f held.
Follows(f, g) == g \in FollowerState /\ g.term = f.term /\ f.commit <= g.commit

LEMMA RefusalIsSound ==
  ASSUME NEW f, NEW m, NEW g, Follows(f, g)
  PROVE  SoundAnswer(f, m, Answer(g, FALSE, 0))
BY DEF Answer, SoundAnswer, Follows

LEMMA SuccessIsSound ==
  ASSUME NEW f, NEW m, NEW g, Follows(f, g), NEW next \in Nat,
         next = m.offset + 1 /\ m.offset + 1 = Cells[m.index] => m.index <= g.commit
  PROVE  SoundAnswer(f, m, Answer(g, TRUE, next))
BY DEF Answer, SoundAnswer, Follows

\* on_snapshot: whatever chunk arrives, the stream stays the beginning of one
\* payload and the answer is sound.
LEMMA StreamedAnswers ==
  ASSUME NEW t \in Term, NEW m \in Frame(t), NEW f \in FollowerState
  PROVE  SoundAnswer(f, m, Streamed(f, m))
<1> DEFINE in == IF m.offset = 0 /\ ~Same(f.incoming, m)
                 THEN [term |-> m.term, index |-> m.index, bytes |-> <<>>]
                 ELSE f.incoming
           a == Streamed(f, m)
           n == Cells[m.index]
           bytes == in.bytes \o m.payload
<1>1. /\ m.term = t /\ m.index \in DOMAIN Cells /\ m.offset \in Nat /\ m.offset < n
      /\ m.payload = <<Cell(t, m.index, m.offset + 1)>> /\ m.payload \in Seq(CellSet)
      /\ Len(m.payload) = 1 /\ m.payload[1] = Cell(t, m.index, m.offset + 1)
      /\ m.more => m.offset + 1 # n
      /\ m.index \in Nat /\ n \in Nat /\ n >= 1
  <2>1. /\ m.term = t /\ m.index \in DOMAIN Cells /\ m.offset \in Nat /\ m.offset < n
        /\ m.payload = <<Cell(t, m.index, m.offset + 1)>> /\ m.payload \in Seq(CellSet)
    BY DEF Frame
  <2>2. m.more = (m.offset + 1 # n)
    BY DEF Frame
  <2>3. m.more => m.offset + 1 # n
    BY <2>2, Zenon
  <2>4. Len(m.payload) = 1 /\ m.payload[1] = Cell(t, m.index, m.offset + 1)
    BY <2>1
  <2> QED
    BY <2>1, <2>3, <2>4, SnapshotsHaveCells
<1>2. f.term \in Nat /\ f.commit \in Nat /\ f.incoming \in Stream \cup {Nil}
  BY DEF FollowerState
<1>3. \A x \in Stream \cup {Nil} :
        /\ [f EXCEPT !.incoming = x] \in FollowerState
        /\ [f EXCEPT !.incoming = x].term = f.term
        /\ [f EXCEPT !.incoming = x].commit = f.commit
  BY DEF FollowerState
<1>4. in \in Stream \cup {Nil}
  <2>1. <<>> \in Seq(CellSet) /\ Len(<<>>) = 0
    OBVIOUS
  <2>2. [term |-> m.term, index |-> m.index, bytes |-> <<>>] \in Stream
    BY <1>1, <2>1 DEF Stream
  <2> QED
    BY <1>2, <2>2
<1> HIDE DEF in
<1>5. ASSUME Same(in, m)
      PROVE  /\ in \in Stream /\ in.term = t /\ in.index = m.index
             /\ in.bytes \in Seq(CellSet) /\ Len(in.bytes) \in Nat /\ Len(in.bytes) < n
             /\ \A i \in 1 .. Len(in.bytes) : in.bytes[i] = Cell(t, m.index, i)
  BY <1>1, <1>4, <1>5 DEF Same, Stream
<1>6. Follows(f, f)
  BY <1>2 DEF Follows
<1>7. ASSUME NEW x \in Stream \cup {Nil} PROVE Follows(f, [f EXCEPT !.incoming = x])
  BY <1>2, <1>3 DEF Follows
<1>8. /\ SoundAnswer(f, m, Refused(f)) /\ SoundAnswer(f, m, Answer(f, FALSE, 0))
      /\ m.index = f.commit => SoundAnswer(f, m, Answer(f, TRUE, m.offset + Len(m.payload)))
  <2>1. SoundAnswer(f, m, Answer(f, FALSE, 0))
    BY <1>6, RefusalIsSound, Zenon
  <2>2. SoundAnswer(f, m, Refused(f))
    BY <1>7, RefusalIsSound, Zenon DEF Refused
  <2>3. m.offset + Len(m.payload) \in Nat
        /\ (m.index = f.commit => m.index <= f.commit)
    BY <1>1, <1>2
  <2>4. m.index = f.commit => SoundAnswer(f, m, Answer(f, TRUE, m.offset + Len(m.payload)))
    BY <1>6, <2>3, SuccessIsSound, Zenon
  <2> QED
    BY <2>1, <2>2, <2>4
<1>9. ASSUME Same(in, m)
      PROVE  SoundAnswer(f, m, Answer([f EXCEPT !.incoming = in], TRUE, Len(in.bytes)))
  <2>1. Len(in.bytes) \in Nat
        /\ ~(Len(in.bytes) = m.offset + 1 /\ m.offset + 1 = n)
    BY <1>1, <1>5, <1>9
  <2>2. Follows(f, [f EXCEPT !.incoming = in])
    BY <1>5, <1>7, <1>9
  <2> QED
    BY <2>1, <2>2, SuccessIsSound, Zenon
<1>10. ASSUME Same(in, m), ~(m.offset > Len(in.bytes)), ~Held(in, m)
       PROVE  /\ bytes \in Seq(CellSet) /\ Len(bytes) = m.offset + 1
              /\ \A i \in 1 .. Len(bytes) : bytes[i] = Cell(t, m.index, i)
  <2>1. Len(in.bytes) = m.offset
    BY <1>1, <1>5, <1>10 DEF Held
  <2>2. /\ bytes \in Seq(CellSet) /\ Len(bytes) = Len(in.bytes) + Len(m.payload)
        /\ \A i \in 1 .. Len(in.bytes) + Len(m.payload) :
             bytes[i] = IF i <= Len(in.bytes) THEN in.bytes[i] ELSE m.payload[i - Len(in.bytes)]
    BY <1>1, <1>5, <1>10, ConcatProperties
  <2> HIDE DEF bytes
  <2>3. ASSUME NEW i \in 1 .. m.offset + 1 PROVE bytes[i] = Cell(t, m.index, i)
    <3>1. CASE i <= m.offset
      <4>1. i \in 1 .. Len(in.bytes) /\ i \in 1 .. Len(in.bytes) + Len(m.payload)
        BY <1>1, <2>1, <3>1
      <4>2. bytes[i] = in.bytes[i]
        BY <1>1, <2>2, <4>1
      <4> QED
        BY <1>5, <1>10, <4>1, <4>2
    <3>2. CASE i = m.offset + 1
      <4>1. i \in 1 .. Len(in.bytes) + Len(m.payload) /\ ~(i <= Len(in.bytes))
            /\ i - Len(in.bytes) = 1
        BY <1>1, <2>1, <3>2
      <4>2. bytes[i] = m.payload[1]
        BY <2>2, <4>1
      <4> QED
        BY <1>1, <3>2, <4>2
    <3> QED
      BY <1>1, <3>1, <3>2
  <2> QED
    BY <1>1, <2>1, <2>2, <2>3
<1> HIDE DEF bytes
<1>11. ASSUME Same(in, m), ~(m.offset > Len(in.bytes)), ~Held(in, m), m.more
       PROVE  SoundAnswer(f, m, Answer([f EXCEPT !.incoming = [in EXCEPT !.bytes = bytes]], TRUE, Len(bytes)))
  <2> DEFINE x == [in EXCEPT !.bytes = bytes]
  <2>1. m.offset + 1 # n
    BY <1>1, <1>11
  <2>2. x.term = in.term /\ x.index = in.index /\ x.bytes = bytes
        /\ x \in [term : Term, index : DOMAIN Cells, bytes : Seq(CellSet)]
    BY <1>5, <1>10, <1>11 DEF Stream
  <2> HIDE DEF x
  <2>3. x \in Stream
    BY <1>1, <1>5, <1>10, <1>11, <2>1, <2>2 DEF Stream
  <2>4. Follows(f, [f EXCEPT !.incoming = x])
    BY <1>7, <2>3
  <2>5. Len(bytes) \in Nat
    BY <1>1, <1>10, <1>11
  <2>6. SoundAnswer(f, m, Answer([f EXCEPT !.incoming = x], TRUE, Len(bytes)))
    BY <2>1, <2>4, <2>5, SuccessIsSound, Zenon
  <2> QED
    BY <2>6 DEF x
<1>12. ASSUME Same(in, m), ~(m.offset > Len(in.bytes)), ~Held(in, m), ~(m.index <= f.commit)
       PROVE  SoundAnswer(f, m, Answer([f EXCEPT !.incoming = Nil, !.commit = m.index], TRUE, Len(bytes)))
  <2> DEFINE g == [f EXCEPT !.incoming = Nil, !.commit = m.index]
  <2>1. g \in FollowerState /\ g.term = f.term /\ g.commit = m.index
    BY <1>1 DEF FollowerState
  <2> HIDE DEF g
  <2>2. Follows(f, g) /\ m.index <= g.commit /\ Len(bytes) \in Nat
    BY <1>1, <1>2, <1>10, <1>12, <2>1 DEF Follows
  <2>3. SoundAnswer(f, m, Answer(g, TRUE, Len(bytes)))
    BY <2>2, SuccessIsSound, Zenon
  <2> QED
    BY <2>3 DEF g
<1>13. SoundAnswer(f, m, a)
  BY <1>8, <1>9, <1>11, <1>12 DEF Streamed, in, bytes
<1> QED
  BY <1>13

-----------------------------------------------------------------------------
(* The steps. *)

\* A session whose frames stay in place stays within itself.
LEMMA WithinSame ==
  ASSUME NEW q, NEW l
  PROVE  Within(q, q) /\ WithinOrSent(q, q, l)
BY DEF Within, WithinOrSent

\* An empty session is within any other.
LEMMA NothingWithin ==
  ASSUME NEW q, NEW l
  PROVE  Within(<<>>, q) /\ WithinOrSent(<<>>, q, l)
<1>1. DOMAIN <<>> = {}
  OBVIOUS
<1> QED
  BY <1>1 DEF Within, WithinOrSent

\* A step that only loses frames and lets the follower go on keeps the
\* invariant.
LEMMA LossStep ==
  ASSUME StreamInv, leader' = leader, highest' = highest,
         follower' \in FollowerState, follower'.commit = follower.commit,
         DOMAIN requests' = Term, \A t \in Term : requests'[t] \in {requests[t], <<>>},
         replies' \in [Term -> Seq(AnswerFrame)],
         \A t \in Term : replies'[t] \in {replies[t], <<>>}
  PROVE  StreamInv'
<1>1. StreamTypes'
  <2>1. ASSUME NEW t \in Term PROVE requests'[t] \in Seq(Frame(t))
    <3>1. requests[t] \in Seq(Frame(t))
      BY DEF StreamInv, StreamTypes
    <3>2. <<>> \in Seq(Frame(t))
      OBVIOUS
    <3>3. requests'[t] = requests[t] \/ requests'[t] = <<>>
      OBVIOUS
    <3> QED
      BY <3>1, <3>2, <3>3
  <2> QED
    BY <2>1 DEF StreamInv, StreamTypes
<1>2. ASSUME NEW t \in Term, leader[t] # Nil
      PROVE  Accounted(t, leader[t], follower.commit, requests'[t], replies'[t])
  <2>1. Accounted(t, leader[t], follower.commit, requests[t], replies[t])
    BY <1>2 DEF StreamInv
  <2>2. WithinOrSent(requests'[t], requests[t], leader[t])
    <3>1. requests'[t] = requests[t] \/ requests'[t] = <<>>
      OBVIOUS
    <3> QED
      BY <3>1, NothingWithin, WithinSame
  <2>3. Within(replies'[t], replies[t])
    <3>1. replies'[t] = replies[t] \/ replies'[t] = <<>>
      OBVIOUS
    <3> QED
      BY <3>1, NothingWithin, WithinSame
  <2> QED
    BY <2>1, <2>2, <2>3, AccountedStill
<1> QED
  BY <1>1, <1>2 DEF StreamInv

\* Taking the term of a message drops the stream and nothing else.
LEMMA AdoptedState ==
  ASSUME NEW f \in FollowerState, NEW t \in Nat
  PROVE  /\ Adopted(f, t) \in FollowerState /\ Adopted(f, t).commit = f.commit
         /\ t >= f.term => Adopted(f, t).term = t
<1>1. f.term \in Nat
  BY DEF FollowerState
<1>2. CASE t > f.term
  <2> DEFINE g == [f EXCEPT !.term = t, !.incoming = Nil]
  <2>1. g \in FollowerState /\ g.commit = f.commit /\ g.term = t
    BY DEF FollowerState
  <2>2. Adopted(f, t) = g
    BY <1>2 DEF Adopted
  <2> QED
    BY <2>1, <2>2
<1>3. CASE ~(t > f.term)
  <2>1. Adopted(f, t) = f
    BY <1>3 DEF Adopted
  <2> QED
    BY <1>1, <1>3, <2>1
<1> QED
  BY <1>2, <1>3

LEMMA HeartbeatStep ==
  ASSUME StreamInv, NEW t \in Term, Heartbeat(t)
  PROVE  StreamInv'
<1> DEFINE k == Pumped(t, leader[t])
<1>1. /\ leader[t] # Nil /\ leader' = [leader EXCEPT ![t] = k] /\ Send(t, k)
      /\ k.transfer # Nil
      /\ follower' = follower /\ replies' = replies /\ highest' = highest
  BY DEF Heartbeat
<1>2. /\ StreamTypes /\ leader[t] \in LeaderState(t) /\ leader[t].match <= follower.commit
      /\ replies \in [Term -> Seq(AnswerFrame)] /\ follower \in FollowerState /\ highest \in Nat
  BY <1>1 DEF StreamInv, StreamTypes, Accounted
<1>3. Moves(t, k)
  BY <1>2, PumpedMoves
<1>4. \A u \in Term : Within(replies'[u], replies[u])
  BY <1>1, WithinSame
<1> HIDE DEF k
<1> QED
  BY <1>1, <1>2, <1>3, <1>4, LeaderStep

LEMMA ProbeStep ==
  ASSUME StreamInv, NEW t \in Term, Probe(t)
  PROVE  StreamInv'
<1> DEFINE k == [leader[t] EXCEPT !.probed = TRUE, !.match = follower.commit]
<1>1. /\ leader[t] # Nil /\ leader' = [leader EXCEPT ![t] = k]
      /\ follower' = Adopted(follower, t)
      /\ requests' = requests /\ replies' = replies /\ highest' = highest
  BY DEF Probe, StreamInv, StreamTypes
<1>2. /\ StreamTypes /\ leader[t] \in LeaderState(t) /\ follower \in FollowerState
      /\ replies \in [Term -> Seq(AnswerFrame)] /\ highest \in Nat /\ t \in Nat
  BY <1>1 DEF StreamInv, StreamTypes, Term
<1>3. follower' \in FollowerState /\ follower'.commit = follower.commit
  BY <1>1, <1>2, AdoptedState
<1>4. Moves(t, k)
  <2>1. follower.commit \in Nat
    BY <1>2 DEF FollowerState
  <2>2. k \in LeaderState(t)
    BY <1>2, <2>1 DEF LeaderState
  <2>3. k.match = follower.commit /\ k.transfer = leader[t].transfer
    BY <1>2 DEF LeaderState
  <2> HIDE DEF k
  <2> QED
    BY <2>1, <2>2, <2>3 DEF Moves
<1>5. \A u \in Term : Within(replies'[u], replies[u])
  BY <1>1, WithinSame
<1> HIDE DEF k
<1> QED
  BY <1>1, <1>2, <1>3, <1>4, <1>5, LeaderStep

LEMMA CompactStep ==
  ASSUME StreamInv, NEW t \in Term, Compact(t)
  PROVE  StreamInv'
<1> DEFINE k == [leader[t] EXCEPT !.newest = @ + 1]
<1>1. /\ leader[t] # Nil /\ leader[t].newest < Len(Cells)
      /\ leader' = [leader EXCEPT ![t] = k] /\ follower' = follower
      /\ requests' = requests /\ replies' = replies /\ highest' = highest
  BY DEF Compact, StreamInv, StreamTypes
<1>2. /\ StreamTypes /\ leader[t] \in LeaderState(t) /\ follower \in FollowerState
      /\ replies \in [Term -> Seq(AnswerFrame)] /\ highest \in Nat
      /\ leader[t].match <= follower.commit
  BY <1>1 DEF StreamInv, StreamTypes, Accounted
<1>3. leader[t].newest + 1 \in DOMAIN Cells
  BY <1>1, <1>2, StreamAssumption DEF LeaderState
<1>4. Moves(t, k)
  BY <1>2, <1>3 DEF Moves, LeaderState
<1>5. \A u \in Term : Within(replies'[u], replies[u])
  BY <1>1, WithinSame
<1> HIDE DEF k
<1> QED
  BY <1>1, <1>2, <1>4, <1>5, LeaderStep

LEMMA DeliverReplyStep ==
  ASSUME StreamInv, NEW t \in Term, NEW i, DeliverReply(t, i)
  PROVE  StreamInv'
<1> DEFINE k == IF leader[t] = Nil THEN Nil ELSE Heard(t, leader[t], replies[t][i])
           p == RemoveAt(replies[t], i)
<1>1. /\ i \in DOMAIN replies[t] /\ replies' = [replies EXCEPT ![t] = p]
      /\ follower' = follower /\ highest' = highest
  BY DEF DeliverReply, Taken
<1>2. /\ StreamTypes /\ follower \in FollowerState /\ highest \in Nat
      /\ replies \in [Term -> Seq(AnswerFrame)] /\ replies[t] \in Seq(AnswerFrame)
  BY DEF StreamInv, StreamTypes
<1>3. p \in Seq(AnswerFrame) /\ Within(p, replies[t])
  BY <1>1, <1>2, RemainingFrames DEF Within
<1> HIDE DEF p
<1>4. /\ replies' \in [Term -> Seq(AnswerFrame)]
      /\ \A u \in Term : Within(replies'[u], replies[u])
  BY <1>1, <1>2, <1>3, WithinSame
<1>5. CASE leader[t] = Nil
  <2>1. leader' = leader /\ requests' = requests
    BY <1>5 DEF DeliverReply
  <2>2. ASSUME NEW u \in Term, leader'[u] # Nil
        PROVE  u # t /\ leader'[u] = leader[u]
    BY <1>5, <2>1, <2>2
  <2>3. StreamTypes'
    BY <1>1, <1>2, <1>4, <2>1, <2>2 DEF StreamTypes
  <2>4. ASSUME NEW u \in Term, leader'[u] # Nil
        PROVE  Accounted(u, leader'[u], follower'.commit, requests'[u], replies'[u])
    <3>1. u # t /\ leader'[u] = leader[u] /\ replies'[u] = replies[u]
      BY <1>1, <1>2, <2>2, <2>4
    <3> QED
      BY <1>1, <2>1, <2>4, <3>1 DEF StreamInv
  <2> QED
    BY <2>3, <2>4 DEF StreamInv
<1>6. CASE leader[t] # Nil
  <2>1. /\ leader' = [leader EXCEPT ![t] = k]
        /\ requests' = requests \/ (k # Nil /\ Send(t, k))
    BY <1>6 DEF DeliverReply
  <2>2. k = Nil \/ Moves(t, k)
    BY <1>1, <1>6, HeardMoves
  <2> HIDE DEF k
  <2> QED
    BY <1>1, <1>2, <1>4, <1>6, <2>1, <2>2, LeaderStep
<1> QED
  BY <1>5, <1>6

LEMMA ElectStep ==
  ASSUME StreamInv, NEW v \in DOMAIN Cells, Elect(v)
  PROVE  StreamInv'
<1> DEFINE t == highest + 1
           k == Elected(v)
<1>1. /\ highest < MaxTerm /\ highest' = t /\ leader' = [leader EXCEPT ![t] = k]
      /\ follower' = Adopted(follower, t) \/ follower' = follower
      /\ requests' = requests /\ replies' = replies
  BY DEF Elect
<1>2. /\ follower \in FollowerState /\ highest \in Nat
      /\ replies \in [Term -> Seq(AnswerFrame)]
  BY DEF StreamInv, StreamTypes
<1>3. t \in Term /\ t \in Nat
  BY <1>1, <1>2, StreamAssumption DEF Term
<1>4. follower' \in FollowerState /\ follower'.commit = follower.commit
  BY <1>1, <1>2, <1>3, AdoptedState
<1>5. Moves(t, k) /\ k.transfer = Nil
  <2>1. k \in LeaderState(t) /\ k.match = 0 /\ k.transfer = Nil
    BY DEF Elected, LeaderState
  <2>2. 0 <= follower.commit
    BY <1>2 DEF FollowerState
  <2> HIDE DEF k
  <2> QED
    BY <2>1, <2>2 DEF Moves
<1>6. \A u \in Term : Within(replies'[u], replies[u])
  BY <1>1, WithinSame
<1> HIDE DEF k, t
<1> QED
  BY <1>1, <1>2, <1>3, <1>4, <1>5, <1>6, LeaderStep

LEMMA ResetSessionStep ==
  ASSUME StreamInv, NEW t \in Term, ResetSession(t)
  PROVE  StreamInv'
<1>1. /\ requests' = [requests EXCEPT ![t] = <<>>] /\ replies' = [replies EXCEPT ![t] = <<>>]
      /\ leader' = leader /\ follower' = follower /\ highest' = highest
  BY DEF ResetSession
<1>2. /\ follower \in FollowerState /\ DOMAIN requests = Term
      /\ replies \in [Term -> Seq(AnswerFrame)]
  BY DEF StreamInv, StreamTypes
<1>3. <<>> \in Seq(AnswerFrame)
  OBVIOUS
<1>4. DOMAIN requests' = Term /\ \A u \in Term : requests'[u] \in {requests[u], <<>>}
  BY <1>1, <1>2
<1>5. /\ replies' \in [Term -> Seq(AnswerFrame)]
      /\ \A u \in Term : replies'[u] \in {replies[u], <<>>}
  BY <1>1, <1>2, <1>3
<1> QED
  BY <1>1, <1>2, <1>4, <1>5, LossStep

LEMMA RestartFollowerStep ==
  ASSUME StreamInv, RestartFollower
  PROVE  StreamInv'
<1>1. /\ requests' = [t \in Term |-> <<>>] /\ replies' = [t \in Term |-> <<>>]
      /\ follower' = [follower EXCEPT !.incoming = Nil]
      /\ leader' = leader /\ highest' = highest
  BY DEF RestartFollower
<1>2. follower' \in FollowerState /\ follower'.commit = follower.commit
  BY <1>1 DEF StreamInv, StreamTypes, FollowerState
<1>3. <<>> \in Seq(AnswerFrame)
  OBVIOUS
<1>4. DOMAIN requests' = Term /\ \A u \in Term : requests'[u] \in {requests[u], <<>>}
  BY <1>1
<1>5. /\ replies' \in [Term -> Seq(AnswerFrame)]
      /\ \A u \in Term : replies'[u] \in {replies[u], <<>>}
  BY <1>1, <1>3
<1> QED
  BY <1>1, <1>2, <1>4, <1>5, LossStep

\* A sound answer to a frame of the session is accounted for: if it carries
\* the correlation of the outstanding chunk, it answers that very chunk.
LEMMA AnswerAccounted ==
  ASSUME NEW t \in Term, NEW l \in LeaderState(t), NEW c \in Nat, NEW d \in Nat, c <= d,
         NEW reqs, NEW reps \in Seq(AnswerFrame), NEW reqs2, NEW r \in AnswerFrame,
         Accounted(t, l, c, reqs, reps), Within(reqs2, reqs),
         NEW i \in DOMAIN reqs, NEW m \in Frame(t), reqs[i] = m, r.id = m.id,
         r.success /\ r.next = m.offset + 1 /\ m.offset + 1 = Cells[m.index]
           => m.index <= d
  PROVE  Accounted(t, l, d, reqs2, Append(reps, r))
<1> DEFINE x == l.transfer
           q == Append(reps, r)
<1>1. Accounted(t, l, d, reqs, reps)
  BY AccountedLater
<1>2. ASSUME x # Nil, NEW j \in DOMAIN reqs2, reqs2[j].id = x.frame.id
      PROVE  reqs2[j] = x.frame
  BY <1>1, <1>2 DEF Accounted, Within
<1>3. ASSUME x # Nil, r.id = x.frame.id, r.success, r.next = x.end, x.final
      PROVE  x.pinned <= d
  <2>1. m = x.frame
    BY <1>1, <1>3 DEF Accounted
  <2>2. x \in Transfer(t)
    BY <1>3 DEF LeaderState
  <2> HIDE DEF x
  <2>3. x.frame.index = x.pinned /\ x.frame.offset + 1 = x.end
    BY <2>2 DEF Transfer
  <2>4. x.final = (x.end = Cells[x.pinned])
    BY <2>2 DEF Transfer
  <2>5. x.end = Cells[x.pinned]
    BY <1>3, <2>4, Zenon
  <2>6. r.next = m.offset + 1 /\ m.offset + 1 = Cells[m.index] /\ m.index = x.pinned
    BY <1>3, <2>1, <2>3, <2>5
  <2> QED
    BY <1>3, <2>6, Zenon
<1>4. ASSUME x # Nil, NEW j \in DOMAIN q, q[j].term = t, q[j].success,
             q[j].id = x.frame.id, q[j].next = x.end, x.final
      PROVE  x.pinned <= d
  <2>1. j \in 1 .. Len(reps) + 1 /\ DOMAIN reps = 1 .. Len(reps) /\ Len(reps) \in Nat
    OBVIOUS
  <2>2. CASE j = Len(reps) + 1
    <3>1. q[j] = r
      BY <2>2
    <3> QED
      BY <1>3, <1>4, <3>1, Zenon
  <2>3. CASE j \in 1 .. Len(reps)
    <3>1. q[j] = reps[j] /\ j \in DOMAIN reps
      BY <2>3
    <3>2. /\ reps[j].term = t /\ reps[j].success /\ reps[j].id = x.frame.id
          /\ reps[j].next = x.end
      BY <1>4, <3>1, Zenon
    <3> QED
      BY <1>1, <1>4, <3>1, <3>2, Zenon DEF Accounted
  <2> QED
    BY <2>1, <2>2, <2>3
<1>5. l.match <= d
  BY <1>1 DEF Accounted
<1> HIDE DEF q
<1>6. Accounted(t, l, d, reqs2, q)
  BY <1>2, <1>4, <1>5, Zenon DEF Accounted
<1> QED
  BY <1>6 DEF q

LEMMA DeliverRequestStep ==
  ASSUME StreamInv, NEW t \in Term, NEW i, DeliverRequest(t, i)
  PROVE  StreamInv'
<1> DEFINE m == requests[t][i]
           a == IF m.term < follower.term THEN Answer(follower, FALSE, 0)
                ELSE Streamed(Adopted(follower, m.term), m)
           q == RemoveAt(requests[t], i)
           r == Reply(a.follower.term, a.success, a.next, m.id)
           p == Append(replies[t], r)
<1>1. /\ i \in DOMAIN requests[t] /\ requests' = [requests EXCEPT ![t] = q]
      /\ follower' = a.follower /\ replies' = [replies EXCEPT ![t] = p]
      /\ leader' = leader /\ highest' = highest
  BY DEF DeliverRequest, Taken
<1>2. /\ StreamTypes /\ follower \in FollowerState /\ highest \in Nat
      /\ replies \in [Term -> Seq(AnswerFrame)] /\ replies[t] \in Seq(AnswerFrame)
      /\ DOMAIN requests = Term /\ requests[t] \in Seq(Frame(t))
  BY DEF StreamInv, StreamTypes
<1>3. m \in Frame(t)
  BY <1>1, <1>2
<1>4. m.term \in Nat /\ m.id \in Nat
  BY <1>3 DEF Frame, Term
<1>5. follower.commit \in Nat /\ follower.term \in Nat
  BY <1>2 DEF FollowerState
<1> HIDE DEF m
<1>6. \E f \in FollowerState : f.commit = follower.commit /\ SoundAnswer(f, m, a)
  <2>1. CASE m.term < follower.term
    <3>1. Follows(follower, follower)
      BY <1>2, <1>5 DEF Follows
    <3>2. SoundAnswer(follower, m, Answer(follower, FALSE, 0))
      BY <3>1, RefusalIsSound, Zenon
    <3> QED
      BY <1>2, <2>1, <3>2
  <2>2. CASE ~(m.term < follower.term)
    <3> DEFINE f == Adopted(follower, m.term)
    <3>1. f \in FollowerState /\ f.commit = follower.commit
      BY <1>2, <1>4, AdoptedState
    <3> HIDE DEF f
    <3>2. SoundAnswer(f, m, Streamed(f, m))
      BY <1>3, <3>1, StreamedAnswers
    <3> QED
      BY <2>2, <3>1, <3>2 DEF f
  <2> QED
    BY <2>1, <2>2
<1> HIDE DEF a
<1>7. /\ a.follower \in FollowerState /\ a.success \in BOOLEAN /\ a.next \in Nat
      /\ follower.commit <= a.follower.commit
      /\ a.success /\ a.next = m.offset + 1 /\ m.offset + 1 = Cells[m.index]
           => m.index <= a.follower.commit
  BY <1>6 DEF SoundAnswer
<1>8. a.follower.term \in Nat /\ a.follower.commit \in Nat
  BY <1>7 DEF FollowerState
<1>9. r \in AnswerFrame /\ r.id = m.id /\ r.success = a.success /\ r.next = a.next
  BY <1>4, <1>7, <1>8 DEF Reply, AnswerFrame
<1> HIDE DEF r
<1>10. q \in Seq(Frame(t)) /\ Within(q, requests[t])
  BY <1>1, <1>2, RemainingFrames DEF Within
<1>11. p \in Seq(AnswerFrame)
  BY <1>2, <1>9
<1> HIDE DEF q, p
<1>12. StreamTypes'
  BY <1>1, <1>2, <1>7, <1>10, <1>11 DEF StreamTypes
<1>13. ASSUME NEW u \in Term, leader[u] # Nil
       PROVE  Accounted(u, leader[u], a.follower.commit, requests'[u], replies'[u])
  <2>1. /\ leader[u] \in LeaderState(u)
        /\ Accounted(u, leader[u], follower.commit, requests[u], replies[u])
    BY <1>2, <1>13 DEF StreamInv, StreamTypes
  <2>2. CASE u # t
    <3>1. requests'[u] = requests[u] /\ replies'[u] = replies[u]
      BY <1>1, <1>2, <2>2
    <3>2. Accounted(u, leader[u], a.follower.commit, requests[u], replies[u])
      BY <1>5, <1>7, <1>8, <2>1, AccountedLater
    <3> QED
      BY <3>1, <3>2
  <2>3. CASE u = t
    <3>1. requests'[t] = q /\ replies'[t] = Append(replies[t], r)
      BY <1>1, <1>2 DEF p
    <3>2. r.success /\ r.next = m.offset + 1 /\ m.offset + 1 = Cells[m.index]
            => m.index <= a.follower.commit
      BY <1>7, <1>9, Zenon
    <3>3. requests[t][i] = m
      BY DEF m
    <3>4. Accounted(t, leader[t], a.follower.commit, q, Append(replies[t], r))
      BY <1>1, <1>2, <1>3, <1>5, <1>7, <1>8, <1>9, <1>10, <2>1, <2>3, <3>2, <3>3,
         AnswerAccounted, Zenon
    <3> QED
      BY <2>3, <3>1, <3>4
  <2> QED
    BY <2>2, <2>3
<1> QED
  BY <1>1, <1>12, <1>13 DEF StreamInv

-----------------------------------------------------------------------------
(* The theorems. *)

\* open: nothing is installed, queued or outstanding.
LEMMA StreamInitial ==
  ASSUME Init
  PROVE  StreamInv
<1>1. 1 \in DOMAIN Cells /\ 1 \in Term
  BY StreamAssumption DEF Term
<1>2. <<>> \in Seq(AnswerFrame) /\ DOMAIN <<>> = {}
  OBVIOUS
<1>3. ASSUME NEW t \in Term
      PROVE  <<>> \in Seq(Frame(t))
  OBVIOUS
<1>4. ASSUME NEW t \in Term
      PROVE  /\ Elected(1) \in LeaderState(t)
             /\ Elected(1).match = 0 /\ Elected(1).transfer = Nil
  BY <1>1 DEF Elected, LeaderState
<1>5. /\ follower \in FollowerState /\ follower.commit = 0
      /\ requests = [t \in Term |-> <<>>] /\ replies = [t \in Term |-> <<>>]
      /\ leader = [t \in Term |-> IF t = 1 THEN Elected(1) ELSE Nil] /\ highest = 1
  BY DEF Init, FollowerState
<1> HIDE DEF Init
<1>6. StreamTypes
  BY <1>2, <1>3, <1>4, <1>5 DEF StreamTypes
<1>7. ASSUME NEW t \in Term, leader[t] # Nil
      PROVE  Accounted(t, leader[t], follower.commit, requests[t], replies[t])
  <2>1. leader[t].match = 0 /\ leader[t].transfer = Nil
    BY <1>4, <1>5, <1>7
  <2> QED
    BY <1>5, <2>1 DEF Accounted
<1> QED
  BY <1>6, <1>7 DEF StreamInv

LEMMA StreamPreserved ==
  ASSUME StreamInv, [Next]_vars
  PROVE  StreamInv'
<1>1. CASE UNCHANGED vars
  BY <1>1 DEF vars, StreamInv, StreamTypes
<1>2. CASE Next
  BY <1>2, HeartbeatStep, ProbeStep, CompactStep, ResetSessionStep, DeliverRequestStep,
     DeliverReplyStep, ElectStep, RestartFollowerStep DEF Next
<1> QED
  BY <1>1, <1>2

\* Bytes that agree with a payload cell by cell are its beginning.
LEMMA CellsArePrefix ==
  ASSUME NEW x \in Stream
  PROVE  IsPrefix(x.bytes, Payload(x.term, x.index))
<1> DEFINE P == Payload(x.term, x.index)
           n == Len(x.bytes)
<1>1. /\ x.index \in DOMAIN Cells /\ x.bytes \in Seq(CellSet) /\ n \in Nat
      /\ n < Cells[x.index] /\ x.term \in Term
      /\ \A i \in 1 .. n : x.bytes[i] = Cell(x.term, x.index, i)
  BY DEF Stream
<1>2. Cells[x.index] \in Nat
  BY <1>1, SnapshotsHaveCells
<1>3. P \in Seq(CellSet) /\ Len(P) = Cells[x.index]
      /\ \A i \in 1 .. Cells[x.index] : P[i] = Cell(x.term, x.index, i)
  <2>1. P \in [1 .. Cells[x.index] -> CellSet]
        /\ \A i \in 1 .. Cells[x.index] : P[i] = Cell(x.term, x.index, i)
    BY <1>1, <1>2 DEF Payload, Cell, CellSet
  <2> HIDE DEF P
  <2> QED
    BY <1>2, <2>1, SeqDef, LenProperties
<1> HIDE DEF P
<1>4. \A i \in 1 .. n : x.bytes[i] = P[i]
  BY <1>1, <1>2, <1>3
<1>5. x.bytes = SubSeq(P, 1, n)
  <2>1. SubSeq(P, 1, n) \in Seq(CellSet) /\ Len(SubSeq(P, 1, n)) = n
        /\ \A i \in 1 .. n : SubSeq(P, 1, n)[i] = P[i]
    BY <1>1, <1>2, <1>3
  <2> QED
    BY <1>1, <1>4, <2>1, SeqEqual
<1>6. Len(x.bytes) <= Len(P) /\ SubSeq(x.bytes, 1, n) = SubSeq(P, 1, n)
  BY <1>1, <1>2, <1>3, <1>5
<1> QED
  BY <1>1, <1>5, <1>6 DEF IsPrefix, P

\* The inductive invariant: queues hold chunks cut from their leader's
\* payloads, the correlation of the outstanding chunk is carried by copies of
\* it alone, and the stream holds the first cells of one payload (send_chunk,
\* on_snapshot, on_snapshot_reply).
THEOREM StreamSound == Spec => []StreamInv
<1>1. Init => StreamInv
  BY StreamInitial
<1>2. StreamInv /\ [Next]_vars => StreamInv'
  BY StreamPreserved
<1> QED
  BY <1>1, <1>2, PTL DEF Spec

\* No repeated, late or foreign chunk is spliced into a stream, however many
\* leaders, snapshots, chunks and frames there are (on_snapshot).
THEOREM StreamSpliced == Spec => []StreamIsPrefix
<1>1. StreamInv => StreamIsPrefix
  BY CellsArePrefix DEF StreamInv, StreamTypes, FollowerState, StreamIsPrefix
<1> QED
  BY <1>1, StreamSound, PTL

\* What a leader takes for transferred is installed at the follower
\* (on_snapshot_reply).
THEOREM AckedInstalled == Spec => []AckedIsInstalled
<1>1. StreamInv => AckedIsInstalled
  BY DEF StreamInv, Accounted, AckedIsInstalled
<1> QED
  BY <1>1, StreamSound, PTL

===============================================================================
