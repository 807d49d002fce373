---------------------------- MODULE SnapshotStream ----------------------------
(***************************************************************************)
(* Snapshots sent in chunks on the transition backend: one follower and the *)
(* leaders of successive terms, with CoreReplica's outgoing_ transfer and   *)
(* incoming_ stream.  Host takes a snapshot as one message; here leaders    *)
(* compact and are deposed, sessions are reset and the follower restarts in *)
(* the middle of a stream.                                                  *)
(*                                                                          *)
(* Data abstractions.  A leader is named by its term.  A payload is a       *)
(* sequence of chunk-sized cells that name the leader that encoded it: two  *)
(* leaders may encode the same state, with the same hash, differently.      *)
(* The follower's log holds nothing above its snapshot, so that it commits  *)
(* only by installing one, and the probe that tells a leader so is one step *)
(* (the exchange itself is in Transition).  Correlations are compared for   *)
(* equality only, so a chunk takes the least one that no frame carries.     *)
(***************************************************************************)
EXTENDS Integers, Sequences, SequencesExt, FiniteSets

CONSTANTS
  MaxTerm,      \* bound: the terms with a leader
  Cells,        \* Cells[v]: the chunks of the v-th snapshot of a leader
  Ordered,      \* one session at a time; otherwise frames of an earlier
                \* session may still be read after frames of a later one
  MaxQueue,     \* bound: the frames one way in a session
  MaxResets,    \* bound: session resets and restarts
  Nil

ASSUME StreamAssumption ==
  /\ MaxTerm \in Nat \ {0} /\ MaxQueue \in Nat \ {0} /\ MaxResets \in Nat
  /\ Ordered \in BOOLEAN /\ Cells \in Seq(Nat \ {0}) /\ Cells # <<>>

VARIABLES
  leader,     \* leader[t]: the leader of term t, Nil before and after it leads
  follower,   \* the follower's term, installed snapshot and incoming_
  requests,   \* requests[t]: frames from the leader of t to the follower
  replies,    \* replies[t]: frames back
  highest,    \* the highest term with a leader so far
  resets      \* session resets and restarts so far

vars == <<leader, follower, requests, replies, highest, resets>>

Term == 1 .. MaxTerm

-----------------------------------------------------------------------------
(* Snapshots and frames. *)

\* The v-th snapshot: its index, and the payload the leader of t makes of it.
Payload(t, v) == [i \in 1 .. Cells[v] |-> [by |-> t, of |-> v, at |-> i]]

Chunk(t, pinned, offset, id) ==
  [term |-> t, index |-> pinned, offset |-> offset,
   payload |-> SubSeq(Payload(t, pinned), offset + 1, offset + 1),
   more |-> offset + 1 # Cells[pinned], id |-> id]

Reply(term, success, next, id) ==
  [term |-> term, success |-> success, next |-> next, id |-> id]

\* A retransmission is coalesced with the copy still queued.
Queued(q, m) == IF Contains(q, m) THEN q ELSE Append(q, m)

\* drive: the stream belongs to a term and goes with it.
Adopted(f, term) ==
  IF term > f.term THEN [f EXCEPT !.term = term, !.incoming = Nil] ELSE f

-----------------------------------------------------------------------------
(* The leader. *)

Carried(t) ==
  {m.id : m \in ToSet(requests[t]) \cup ToSet(replies[t])}
    \cup (IF leader[t].transfer = Nil THEN {} ELSE {leader[t].transfer.frame.id})

Fresh(ids) == CHOOSE n \in 1 .. Cardinality(ids) + 1 : n \notin ids

\* send_chunk: every chunk that is built gets a correlation of its own.
SendChunk(t, l, pinned, offset) ==
  LET id == Fresh(Carried(t))
  IN [l EXCEPT !.transfer = [pinned |-> pinned, end |-> offset + 1,
                             final |-> offset + 1 = Cells[pinned],
                             frame |-> Chunk(t, pinned, offset, id)]]

\* release: a new request of the core starts a transfer of the newest
\* snapshot, a repeated one sends the same frame again.
Pumped(t, l) ==
  IF l.transfer # Nil \/ ~l.probed \/ l.match >= l.newest THEN l
  ELSE SendChunk(t, l, l.newest, 0)

\* The frame of the outstanding chunk of k is sent, for the first time or again.
Send(t, k) ==
  requests' = [requests EXCEPT
    ![t] = IF k.transfer = Nil THEN @ ELSE Queued(@, k.transfer.frame)]

Heartbeat(t) ==
  LET k == Pumped(t, leader[t])
  IN /\ leader[t] # Nil
     /\ k.transfer # Nil /\ Len(requests[t]) < MaxQueue
     /\ leader' = [leader EXCEPT ![t] = k]
     /\ Send(t, k)
     /\ UNCHANGED <<follower, replies, highest, resets>>

\* A probe is answered: the follower adopts the term, and the leader learns
\* where its log ends.
Probe(t) ==
  /\ leader[t] # Nil
  /\ ~leader[t].probed /\ follower.term <= t
  /\ follower' = Adopted(follower, t)
  /\ leader' = [leader EXCEPT ![t] = [leader[t] EXCEPT !.probed = TRUE, !.match = follower.commit]]
  /\ UNCHANGED <<requests, replies, highest, resets>>

\* The leader compacts further; an outstanding transfer keeps its snapshot.
Compact(t) ==
  /\ leader[t] # Nil
  /\ leader[t].newest < Len(Cells)
  /\ leader' = [leader EXCEPT ![t] = [leader[t] EXCEPT !.newest = @ + 1]]
  /\ UNCHANGED <<follower, requests, replies, highest, resets>>

\* Fault: a refused stream goes on where it was.
RestartedHere(t, l) == SendChunk(t, l, l.transfer.pinned, l.transfer.end - 1)

Restarted(t, l) == SendChunk(t, l, l.transfer.pinned, 0)

\* Fault: every acknowledged chunk counts as the last.
FinalAlways(transfer) == TRUE

Final(transfer) == transfer.final

\* on_snapshot_reply.
Heard(t, l, m) ==
  IF m.term > t THEN Nil
  ELSE IF m.term # t THEN l
  ELSE IF l.transfer = Nil THEN l
  ELSE IF l.transfer.frame.id # m.id THEN l
  ELSE IF ~m.success THEN Restarted(t, l)
  ELSE IF m.next # l.transfer.end THEN l
  ELSE IF ~Final(l.transfer) THEN SendChunk(t, l, l.transfer.pinned, l.transfer.end)
  ELSE Pumped(t, [l EXCEPT !.transfer = Nil, !.match = l.transfer.pinned])

\* A frame leaves its session: the first one, or when frames of an earlier
\* session are still unread any of them.
Taken(q, i) == i \in DOMAIN q /\ (Ordered => i = 1)

DeliverReply(t, i) ==
  /\ Taken(replies[t], i)
  /\ replies' = [replies EXCEPT ![t] = RemoveAt(@, i)]
  /\ IF leader[t] = Nil THEN UNCHANGED <<leader, requests>>
     ELSE LET k == Heard(t, leader[t], replies[t][i])
          IN /\ Len(requests[t]) < MaxQueue
             /\ leader' = [leader EXCEPT ![t] = k]
             /\ IF k = Nil \/ k = leader[t] THEN UNCHANGED requests ELSE Send(t, k)
  /\ UNCHANGED <<follower, highest, resets>>

-----------------------------------------------------------------------------
(* The follower. *)

Same(in, m) == in # Nil /\ in.term = m.term /\ in.index = m.index

\* Fault: a chunk below the end of the stream is taken as the next one.
NeverHeld(in, m) == FALSE

\* A chunk below the end of the stream was received before.
Held(in, m) == m.offset < Len(in.bytes)

Agrees(in, m) ==
  /\ m.offset + Len(m.payload) <= Len(in.bytes)
  /\ SubSeq(in.bytes, m.offset + 1, m.offset + Len(m.payload)) = m.payload

\* verify_snapshot: the payload must hash to the announced state.
Verifies(bytes, index) == \E t \in Term : bytes = Payload(t, index)

\* What becomes of the follower and its answer: f after the step, and the
\* reply's success and next offset.
Answer(f, success, next) == [follower |-> f, success |-> success, next |-> next]

Refused(f) == Answer([f EXCEPT !.incoming = Nil], FALSE, 0)

\* on_snapshot, once the header is taken: an installed boundary is answered,
\* a chunk at the start opens a stream, a gap or another stream refuses, a
\* repeated chunk must agree, and the last chunk is verified and installed.
Streamed(f, m) ==
  LET in == IF m.offset = 0 /\ ~Same(f.incoming, m)
            THEN [term |-> m.term, index |-> m.index, bytes |-> <<>>]
            ELSE f.incoming
  IN IF m.index <= f.commit
     THEN IF m.index = f.commit
          THEN Answer(f, TRUE, m.offset + Len(m.payload)) ELSE Answer(f, FALSE, 0)
     ELSE IF ~Same(in, m) THEN Refused(f)
     ELSE IF m.offset > Len(in.bytes) THEN Refused(f)
     ELSE IF Held(in, m)
     THEN IF Agrees(in, m)
          THEN Answer([f EXCEPT !.incoming = in], TRUE, Len(in.bytes)) ELSE Refused(f)
     ELSE LET bytes == in.bytes \o m.payload
          IN IF m.more
             THEN Answer([f EXCEPT !.incoming = [in EXCEPT !.bytes = bytes]],
                         TRUE, Len(bytes))
             ELSE IF Verifies(bytes, m.index)
             THEN Answer([f EXCEPT !.incoming = Nil, !.commit = m.index],
                         TRUE, Len(bytes))
             ELSE Refused(f)

DeliverRequest(t, i) ==
  LET m == requests[t][i]
      a == IF m.term < follower.term THEN Answer(follower, FALSE, 0)
           ELSE Streamed(Adopted(follower, m.term), m)
  IN /\ Taken(requests[t], i)
     /\ Len(replies[t]) < MaxQueue
     /\ requests' = [requests EXCEPT ![t] = RemoveAt(@, i)]
     /\ follower' = a.follower
     /\ replies' = [replies EXCEPT
          ![t] = Append(@, Reply(a.follower.term, a.success, a.next, m.id))]
     /\ UNCHANGED <<leader, highest, resets>>

-----------------------------------------------------------------------------
(* Elections, sessions and restarts. *)

Elected(newest) == [newest |-> newest, match |-> 0, transfer |-> Nil, probed |-> FALSE]

\* A new leader, with or without the follower's vote.
Elect(newest) ==
  LET t == highest + 1
  IN /\ highest < MaxTerm
     /\ highest' = t
     /\ leader' = [leader EXCEPT ![t] = Elected(newest)]
     /\ \/ follower' = Adopted(follower, t)
        \/ UNCHANGED follower
     /\ UNCHANGED <<requests, replies, resets>>

Fault == resets < MaxResets /\ resets' = resets + 1

\* A session breaks and both sides lose what was queued.
ResetSession(t) ==
  /\ Fault
  /\ requests' = [requests EXCEPT ![t] = <<>>]
  /\ replies' = [replies EXCEPT ![t] = <<>>]
  /\ UNCHANGED <<leader, follower, highest>>

\* The follower restarts: the stream is lost, what is installed is not.
RestartFollower ==
  /\ Fault
  /\ follower' = [follower EXCEPT !.incoming = Nil]
  /\ requests' = [t \in Term |-> <<>>]
  /\ replies' = [t \in Term |-> <<>>]
  /\ UNCHANGED <<leader, highest>>

Init ==
  /\ leader = [t \in Term |-> IF t = 1 THEN Elected(1) ELSE Nil]
  /\ follower = [term |-> 1, commit |-> 0, incoming |-> Nil]
  /\ requests = [t \in Term |-> <<>>]
  /\ replies = [t \in Term |-> <<>>]
  /\ highest = 1
  /\ resets = 0

Next ==
  \/ \E t \in Term :
       \/ Heartbeat(t)
       \/ Probe(t)
       \/ Compact(t)
       \/ ResetSession(t)
       \/ \E i \in 1 .. MaxQueue : DeliverRequest(t, i) \/ DeliverReply(t, i)
  \/ \E v \in DOMAIN Cells : Elect(v)
  \/ RestartFollower

Spec == Init /\ [][Next]_vars

-----------------------------------------------------------------------------
(* Properties. *)

\* The bytes the follower holds are always the beginning of one payload, of
\* the leader and the snapshot the stream is bound to: no repeated, late or
\* foreign chunk is ever spliced in (on_snapshot).
StreamIsPrefix ==
  follower.incoming # Nil =>
    IsPrefix(follower.incoming.bytes,
             Payload(follower.incoming.term, follower.incoming.index))

\* A leader takes a snapshot for transferred only when the follower has it
\* installed, on disk (on_snapshot_reply).
AckedIsInstalled ==
  \A t \in Term : leader[t] # Nil => leader[t].match <= follower.commit

===============================================================================
