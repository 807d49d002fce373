----------------------------- MODULE Transport -----------------------------
(***************************************************************************)
(* A node's connections (network/node_server.cpp: Session, send_to, the    *)
(* acceptors, dial_missing, dispatch and the fault operations;             *)
(* network/outbound_queue.hpp).  Every handler runs on one strand, so an   *)
(* action is a handler; what is in flight between handlers is explicit:    *)
(* connection attempts, TLS handshakes, the write under way, delayed sends.*)
(* A write outlives its session: its handler owns the frame's reservation  *)
(* until it runs, so a retired slot may still hold bytes of the budget.    *)
(*                                                                         *)
(* Frames carry an id (type and correlation), a size and whether they are  *)
(* coalesced while queued.  The replica's messages, its answers to clients *)
(* and the remote ends are the environment.                                *)
(***************************************************************************)
EXTENDS Integers, Sequences, FiniteSets, SequencesExt

CONSTANTS
  Slot,            \* session objects, a set of numbers
  Peer,            \* configured peers, a sequence: the order they are dialled in
  TLS,             \* config.peer_tls is given
  TestMode,        \* config.test_mode: the fault operations are allowed
  Nil,             \* no peer, no frame
  Message,         \* frames to peers: [id, size, retry]
  Response,        \* frames to clients
  Hello,           \* the handshake frame
  MaxSessions, MaxClients,       \* kMaxSessions, kMaxClientSessions
  MaxFrames, SessionBytes, GlobalBytes, ClientBytes

VARIABLES
  net,             \* sessions, budget and dialling, see Idle
  connecting,      \* connects in flight
  late,            \* delayed_sends: [peer, frame]
  blocked, delayed, paused

vars == <<net, connecting, late, blocked, delayed, paused>>
Peers == Range(Peer)

\* A Session as constructed; active is the frame its write handler owns.
Blank ==
  [peer |-> Nil, expected |-> Nil, tls |-> FALSE, ready |-> FALSE, dialled |-> FALSE,
   admitted |-> FALSE, cut |-> FALSE, queue |-> <<>>, active |-> Nil]

Idle ==
  [sessions |-> <<>>, at |-> [s \in Slot |-> Blank], dialing |-> {}, bytes |-> 0, client |-> 0]

Bytes(frames) == FoldLeft(LAMBDA sum, f : sum + f.size, 0, frames)
OfClients(frames) == SelectSeq(frames, LAMBDA f : ~f.peer)
Live(v, s) == s \in Range(v.sessions)

-----------------------------------------------------------------------------
(* Steps on the record. *)

\* ~Reservation, for each of the frames.
Release(v, frames) ==
  [v EXCEPT !.bytes = @ - Bytes(frames), !.client = @ - Bytes(OfClients(frames))]

\* Fault: clearing the queue also gives back the frame being written.
RetireAll(v, s) ==
  LET it == v.at[s] IN
  IF ~Live(v, s) THEN v
  ELSE Release([v EXCEPT !.sessions = SelectSeq(@, LAMBDA x : x # s),
                         !.dialing = IF it.dialled THEN @ \ {it.expected} ELSE @,
                         !.at[s] = [Blank EXCEPT !.active = it.active]], it.queue)

\* Session::retire.  The front of the queue, when it is being written, stays.
Retire(v, s) ==
  LET it == v.at[s] IN
  IF ~Live(v, s) THEN v
  ELSE Release([v EXCEPT !.sessions = SelectSeq(@, LAMBDA x : x # s),
                         !.dialing = IF it.dialled THEN @ \ {it.expected} ELSE @,
                         !.at[s] = [Blank EXCEPT !.active = it.active]],
               IF it.active = Nil THEN it.queue ELSE Tail(it.queue))

\* OutboundQueue::push, the bytes.
Fits(v, held, size, peer) ==
  /\ size <= SessionBytes - held /\ size <= GlobalBytes - v.bytes
  /\ peer \/ size <= ClientBytes - v.client

Reserve(v, size, peer) ==
  [v EXCEPT !.bytes = @ + size, !.client = IF peer THEN @ ELSE @ + size]

\* Session::send, with push and the start of write_next.
Send(v, s, m) ==
  LET it == v.at[s]
      peer == it.peer # Nil \/ it.tls
      f == [id |-> m.id, size |-> m.size, retry |-> m.retry, peer |-> peer] IN
  IF ~Live(v, s) \/ (m.retry /\ \E q \in Range(it.queue) : q.retry /\ q.id = m.id) THEN v
  ELSE IF Len(it.queue) >= MaxFrames \/ ~Fits(v, Bytes(it.queue), m.size, peer)
  THEN Retire(v, s)
  ELSE [Reserve(v, m.size, peer) EXCEPT
          !.at[s].queue = Append(@, f),
          !.at[s].active = IF it.ready /\ @ = Nil THEN f ELSE @]

\* send_encoded: the first ready session of the peer.
Deliver(v, p, m) ==
  LET to == SelectSeq(v.sessions, LAMBDA s : v.at[s].ready /\ v.at[s].peer = p) IN
  IF paused \/ p \in blocked \/ to = <<>> THEN v ELSE Send(v, Head(to), m)

\* A session joins the vector, in a slot nothing refers to any more.
Join(v, session) ==
  LET free == {s \in Slot : ~Live(v, s) /\ v.at[s].active = Nil}
      s == CHOOSE s \in free : \A o \in free : s <= o IN
  [v EXCEPT !.sessions = Append(@, s), !.at[s] = session]
\* A slot is there to take (Slot is larger than MaxSessions).
HasSlot(v) == \E s \in Slot : ~Live(v, s) /\ v.at[s].active = Nil
Newest(v) == v.sessions[Len(v.sessions)]

-----------------------------------------------------------------------------
(* Sending. *)

\* send_to: dropped, delayed or handed to a session.
SendTo(p, m) ==
  /\ ~paused /\ p \notin blocked
  /\ IF p \in delayed
     THEN /\ ~\E l \in late : l.peer = p /\ l.frame.id = m.id
          /\ Cardinality(late) < MaxSessions /\ Fits(net, 0, m.size, TRUE)
          /\ late' = late \cup {[peer |-> p, frame |-> m]}
          /\ net' = Reserve(net, m.size, TRUE)
     ELSE net' = Deliver(net, p, m) /\ UNCHANGED late
  /\ UNCHANGED <<connecting, blocked, delayed, paused>>

\* The delay is over: the reservation is given back and the frame sent.
SendLate(l) ==
  /\ l \in late /\ late' = late \ {l}
  /\ net' = Deliver([net EXCEPT !.bytes = @ - l.frame.size], l.peer, l.frame)
  /\ UNCHANGED <<connecting, blocked, delayed, paused>>

\* The write handler of a live session: pop, then the next frame.
Written(s) ==
  LET rest == Tail(net.at[s].queue) IN
  /\ Live(net, s) /\ net.at[s].active # Nil /\ ~net.at[s].cut
  /\ net' = Release([net EXCEPT !.at[s].queue = rest,
                                !.at[s].active = IF rest = <<>> THEN Nil ELSE Head(rest)],
                    <<net.at[s].active>>)
  /\ UNCHANGED <<connecting, late, blocked, delayed, paused>>

\* The write handler after an error, or of a session retired meanwhile.
WriteEnds(s) ==
  /\ net.at[s].active # Nil
  /\ net' = [Release(Retire(net, s), <<net.at[s].active>>) EXCEPT !.at[s] = Blank]
  /\ UNCHANGED <<connecting, late, blocked, delayed, paused>>

\* A read error, a malformed frame, a deadline or a failed handshake.
End(s) ==
  /\ Live(net, s) /\ net' = Retire(net, s)
  /\ UNCHANGED <<connecting, late, blocked, delayed, paused>>

-----------------------------------------------------------------------------
(* Connecting. *)

\* accept_next's admission test
Acceptable ==
  /\ Len(net.sessions) < MaxSessions
  /\ TLS => Len(SelectSeq(net.sessions, LAMBDA s : ~net.at[s].tls /\ net.at[s].expected = Nil))
              < MaxClients

\* accept_next
Accept ==
  /\ Acceptable /\ HasSlot(net)
  /\ net' = Join(net, [Blank EXCEPT !.ready = TRUE])
  /\ UNCHANGED <<connecting, late, blocked, delayed, paused>>

\* accept_peer
AcceptPeer ==
  /\ TLS /\ Len(net.sessions) < MaxSessions /\ HasSlot(net)
  /\ net' = Join(net, [Blank EXCEPT !.tls = TRUE])
  /\ UNCHANGED <<connecting, late, blocked, delayed, paused>>

\* dial_missing.  Once the sessions are used up the loop breaks; the peers
\* after that one meet the same full count, so skipping them is the same.
DialMissing ==
  LET connected == {net.at[s].peer : s \in Range(net.sessions)}
      Dial(dialing, p) ==
        IF p \in connected \cup dialing \cup blocked
             \/ Len(net.sessions) + Cardinality(dialing) >= MaxSessions
        THEN dialing ELSE dialing \cup {p}
      now == FoldLeft(Dial, net.dialing, Peer) IN
  /\ now # net.dialing
  /\ connecting' = connecting \cup (now \ net.dialing)
  /\ net' = [net EXCEPT !.dialing = now]
  /\ UNCHANGED <<late, blocked, delayed, paused>>

\* Fault: no room for the session, and the peer stays marked.
ConnectedMarked(p) ==
  /\ p \in connecting /\ connecting' = connecting \ {p} /\ HasSlot(net)
  /\ net' = IF Len(net.sessions) >= MaxSessions THEN net
            ELSE LET v == Join([net EXCEPT !.dialing = @ \ {p}],
                               [Blank EXCEPT !.peer = p, !.expected = p, !.ready = TRUE])
                 IN Send(v, Newest(v), Hello)
  /\ UNCHANGED <<late, blocked, delayed, paused>>
\* async_connect's handler.
Connected(p) ==
  /\ p \in connecting /\ connecting' = connecting \ {p} /\ HasSlot(net)
  /\ net' = IF Len(net.sessions) >= MaxSessions THEN [net EXCEPT !.dialing = @ \ {p}]
            ELSE IF TLS
            THEN Join(net, [Blank EXCEPT !.tls = TRUE, !.expected = p, !.dialled = TRUE])
            ELSE LET v == Join([net EXCEPT !.dialing = @ \ {p}],
                               [Blank EXCEPT !.peer = p, !.expected = p, !.ready = TRUE])
                 IN Send(v, Newest(v), Hello)
  /\ UNCHANGED <<late, blocked, delayed, paused>>

\* The same handler after an error, or its five-second deadline.
ConnectFails(p) ==
  /\ p \in connecting /\ connecting' = connecting \ {p}
  /\ net' = [net EXCEPT !.dialing = @ \ {p}]
  /\ UNCHANGED <<late, blocked, delayed, paused>>

\* async_handshake's handler; p is the certificate's member, verified against
\* the one that was dialled (peer_tls.cpp, verify_peer_certificate).
Handshaken(s, p) ==
  LET it == net.at[s] IN
  /\ Live(net, s) /\ it.tls /\ ~it.ready /\ it.expected \in {Nil, p}
  /\ net' = Send([net EXCEPT !.at[s].peer = p, !.at[s].ready = TRUE, !.at[s].dialled = FALSE,
                             !.dialing = IF it.dialled THEN @ \ {p} ELSE @], s, Hello)
  /\ UNCHANGED <<connecting, late, blocked, delayed, paused>>

-----------------------------------------------------------------------------
(* Receiving: dispatch. *)

Readable(s) == Live(net, s) /\ net.at[s].ready /\ ~net.at[s].cut

Clients(v) == Cardinality({s \in Range(v.sessions) : v.at[s].admitted})

\* A request of a client, and the answer it gets at once.
OnClientFrame(s, m) ==
  LET it == net.at[s] IN
  /\ Readable(s)
  /\ net' = IF it.tls \/ (~it.admitted /\ (Clients(net) >= MaxClients \/ it.peer # Nil))
            THEN Retire(net, s)
            ELSE Send([net EXCEPT !.at[s].admitted = TRUE], s, m)
  /\ UNCHANGED <<connecting, late, blocked, delayed, paused>>

\* The answer to a waiter, when its command commits or times out.
Answer(s, m) ==
  /\ Live(net, s) /\ net.at[s].admitted /\ net' = Send(net, s, m)
  /\ UNCHANGED <<connecting, late, blocked, delayed, paused>>

\* dispatch, the conditions under which a Handshake is believed.
HelloBelieved(it, p) ==
  ~(TLS /\ ~it.tls) /\ ~it.admitted /\ p \in Peers /\ it.peer \in {Nil, p}

\* A Handshake naming p, a configured peer or not (Nil).
OnHello(s, p) ==
  /\ Readable(s)
  /\ net' = IF HelloBelieved(net.at[s], p) THEN [net EXCEPT !.at[s].peer = p] ELSE Retire(net, s)
  /\ UNCHANGED <<connecting, late, blocked, delayed, paused>>

\* Replication traffic on the client plane of a TLS node ends the session;
\* elsewhere it reaches the replica, whose messages are SendTo's.
OnReplication(s) ==
  /\ Readable(s) /\ TLS /\ ~net.at[s].tls /\ net' = Retire(net, s)
  /\ UNCHANGED <<connecting, late, blocked, delayed, paused>>

-----------------------------------------------------------------------------
(* on_management: the fault operations. *)

\* drop_peer closes the sockets; the handlers in flight then retire.
DropPeer(p) ==
  /\ TestMode /\ p \notin blocked /\ blocked' = blocked \cup {p}
  /\ net' = [net EXCEPT !.at = [s \in Slot |->
               IF Live(net, s) /\ net.at[s].peer = p THEN [net.at[s] EXCEPT !.cut = TRUE]
               ELSE net.at[s]]]
  /\ UNCHANGED <<connecting, late, delayed, paused>>

DelayPeer(p, on) ==
  /\ TestMode /\ delayed' = IF on THEN delayed \cup {p} ELSE delayed \ {p}
  /\ UNCHANGED <<net, connecting, late, blocked, paused>>

Heal ==
  /\ TestMode /\ blocked' = {} /\ delayed' = {} /\ paused' = FALSE
  /\ UNCHANGED <<net, connecting, late>>

Pause(on) ==
  /\ TestMode /\ paused' = on
  /\ UNCHANGED <<net, connecting, late, blocked, delayed>>

-----------------------------------------------------------------------------
Init ==
  /\ net = Idle /\ connecting = {} /\ late = {}
  /\ blocked = {} /\ delayed = {} /\ paused = FALSE

Next ==
  \/ \E p \in Peers, m \in Message : SendTo(p, m)
  \/ \E l \in late : SendLate(l)
  \/ \E s \in Slot : Written(s) \/ WriteEnds(s) \/ End(s)
  \/ Accept \/ AcceptPeer \/ DialMissing
  \/ \E p \in Peers : Connected(p) \/ ConnectFails(p)
  \/ \E s \in Slot, p \in Peers : Handshaken(s, p)
  \/ \E s \in Slot, m \in Response : OnClientFrame(s, m) \/ Answer(s, m)
  \/ \E s \in Slot, p \in Peers \cup {Nil} : OnHello(s, p)
  \/ \E s \in Slot : OnReplication(s)
  \/ \E p \in Peers : DropPeer(p)
  \/ \E p \in Peers, on \in BOOLEAN : DelayPeer(p, on)
  \/ Heal \/ \E on \in BOOLEAN : Pause(on)

Spec == Init /\ [][Next]_vars

-----------------------------------------------------------------------------
(* Properties. *)

\* Every frame something still refers to: queued, being written for a session
\* that is gone, or delayed.
Held ==
  LET Of(s) == IF Live(net, s) THEN net.at[s].queue
               ELSE IF net.at[s].active # Nil THEN <<net.at[s].active>> ELSE <<>>
      lates == SetToSeq(late)
  IN FlattenSeq([i \in 1..Cardinality(Slot) |-> Of(SetToSeq(Slot)[i])])
       \o [i \in DOMAIN lates |-> [id |-> lates[i].frame.id, size |-> lates[i].frame.size,
                                   retry |-> lates[i].frame.retry, peer |-> TRUE]]

\* The budget is exactly the frames still held, so a retired session's write
\* neither leaks its bytes nor gives them back twice, and the limits hold.
BudgetIsHeld ==
  /\ net.bytes = Bytes(Held) /\ net.client = Bytes(OfClients(Held))
  /\ net.bytes <= GlobalBytes /\ net.client <= ClientBytes

\* A peer is marked as being dialled exactly while one connect or one
\* handshake of that dial is under way.
DialsAccounted ==
  LET shaking(p) == {s \in Range(net.sessions) : net.at[s].dialled /\ net.at[s].expected = p} IN
  \A p \in Peers :
    (IF p \in connecting THEN 1 ELSE 0) + Cardinality(shaking(p))
      = (IF p \in net.dialing THEN 1 ELSE 0)

=============================================================================
