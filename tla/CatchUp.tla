------------------------------- MODULE CatchUp -------------------------------
(***************************************************************************)
(* One leader bringing one follower up to date, on the transition backend.  *)
(* The rest of the cluster is quiet: the leader keeps its term, nobody      *)
(* proposes, and the third server has acknowledged the whole log.  The two  *)
(* talk over a session: requests and replies arrive in order and once, the  *)
(* queue holds one copy of the outstanding request, and when the session is *)
(* reset everything in it is lost.                                          *)
(***************************************************************************)
EXTENDS Host, RaftProperties

CONSTANTS
  Leader, Follower,   \* two different servers
  Terms,              \* the terms of the leader's log, all committed
  MaxReplies,         \* replies in the session
  MaxResets           \* session resets

ASSUME CatchUpAssumption ==
  /\ {Leader, Follower} \subseteq Server
  /\ Leader # Follower
  /\ Terms # <<>>
  /\ {MaxReplies, MaxResets} \subseteq Nat

VARIABLES leader, follower, request, replies, resets

vars == <<leader, follower, request, replies, resets>>

-----------------------------------------------------------------------------
\* Ids are only compared for equality, and the leader's outstanding request,
\* the one in the session and the replies carry at most MaxReplies + 2 of them.
Recycled(s) ==
  [s EXCEPT !.nextId = [p \in DOMAIN @ |-> @[p] % (MaxReplies + 3)]]

ToFollower(h) == {m \in h.send : m.to = Follower}

\* Nobody crashes while the follower catches up.
Survives(H) == {h \in H : ~h.crashed}

\* The leader takes a step; a message for the follower enters the session,
\* where a repeated request is coalesced with the copy still queued.
LeaderSteps(H) ==
  \E h \in Survives(H) :
    /\ leader' = Recycled(h.node)
    /\ request' = IF ToFollower(h) = {} THEN request
                  ELSE CHOOSE m \in ToFollower(h) : TRUE

Heartbeat ==
  /\ LeaderSteps(Input(Leader, leader, {HeartbeatTimeout(Leader, leader)}))
  /\ UNCHANGED <<follower, replies, resets>>

\* The follower handles the request and answers it.
DeliverRequest ==
  /\ request # Nil
  /\ Len(replies) < MaxReplies
  /\ \E h \in Survives(Process(Follower, follower, request)) :
       /\ follower' = h.node
       /\ replies' = replies \o SetToSeq(h.send)
  /\ request' = Nil
  /\ UNCHANGED <<leader, resets>>

DeliverReply ==
  /\ replies # <<>>
  /\ LET m == Head(replies)
     IN IF Accepts(leader, m) THEN LeaderSteps(Process(Leader, leader, m))
        ELSE UNCHANGED <<leader, request>>
  /\ replies' = Tail(replies)
  /\ UNCHANGED <<follower, resets>>

Reset ==
  /\ resets < MaxResets
  /\ resets' = resets + 1
  /\ request' = Nil
  /\ replies' = <<>>
  /\ UNCHANGED <<leader, follower>>

-----------------------------------------------------------------------------
(* The states catch-up starts from. *)

Log == [i \in DOMAIN Terms |-> [term |-> Terms[i], command |-> NoOp]]

Term == TermOfLast(Log)

\* A disk of term t with this history, as the host leaves it between inputs:
\* no maintenance is due, and a snapshot was taken when one was.
Between(t, history) ==
  {d \in {[term |-> t, votedFor |-> Nil, log |-> SubSeq(history, s + 1, Len(history)),
           commit |-> c, applied |-> c, snapshot |-> SubSeq(history, 1, s)] :
            s, c \in 0 .. Len(history)} :
     /\ ValidDurable(d)
     /\ ~MaintenanceDue(d)
     /\ SnapshotIndex(d) # 0 => SnapshotEvery \in 1 .. SnapshotIndex(d)}

\* The entries from before the leader's term; the others are its no-op and
\* the commands clients gave it.
Inherited == Min({i \in DOMAIN Log : Log[i].term = Term}) - 1

\* The leader as it is when the third server has voted for it and has
\* acknowledged its log, and its first probe to the follower is unanswered.
Elected(d) ==
  LET others == Server \ {Leader, Follower}
      voted  == [Initial(Leader, [d EXCEPT !.votedFor = Leader]) EXCEPT
                   !.role = "Candidate", !.votes = {Leader}]
      won    == Survives(Input(Leader, voted,
                          {CountVote(Leader, voted, CHOOSE p \in others : TRUE)}))
      Heard(s) ==
        [s EXCEPT !.durable.log = @ \o SubSeq(Log, Inherited + 2, Len(Log)),
                  !.match = [p \in DOMAIN @ |-> IF p \in others THEN Len(Log) ELSE 0],
                  !.next = [p \in DOMAIN @ |-> IF p \in others THEN Len(Log) + 1 ELSE @[p]],
                  !.inFlight = [p \in DOMAIN @ |-> IF p \in others THEN Nil ELSE @[p]]]
  IN {h.node : h \in Survives(Then(
        UNION {Start(Heard(w.node)) : w \in won},
        LAMBDA g : Dispatch(Leader, g, {Emit(g.node, {})})))}

\* What the follower may hold: a prefix of the log from before the election,
\* perhaps with one entry after it that never committed.
Behind ==
  LET prefix(k) == SubSeq(Log, 1, k)
      stray(k) == {[term |-> t, command |-> NoOp] :
                     t \in {u \in 1 .. Term - 1 :
                             u # Log[k + 1].term /\ u >= TermOfLast(prefix(k))}}
  IN UNION {Between(Term - 1, prefix(k)) \cup
            {d \in UNION {Between(Term - 1, Append(prefix(k), e)) : e \in stray(k)} :
               d.commit <= k} : k \in 0 .. Inherited}

Init ==
  /\ leader \in UNION {Elected(d) : d \in Between(Term, SubSeq(Log, 1, Inherited))}
  /\ \E d \in Behind : follower = Initial(Follower, d)
  /\ request = Nil
  /\ replies = <<>>
  /\ resets = 0

Next == Heartbeat \/ DeliverRequest \/ DeliverReply \/ Reset

\* What a step does to the session when it is the leader's timer, a delivered
\* request or a delivered reply.
Sends ==
  /\ request = Nil
  /\ \E m \in HeartbeatTimeout(Leader, leader).send :
       m.to = Follower /\ request' = m

TakesRequest ==
  request # Nil /\ Len(replies) < MaxReplies /\ request' = Nil

TakesReply == replies # <<>> /\ replies' = Tail(replies)

\* The timer of a leader keeps firing, and a session that is not reset
\* delivers what it holds.  Resets are finite, so from some point on the
\* three steps are those of Heartbeat, DeliverRequest and DeliverReply.
Spec ==
  /\ Init
  /\ [][Next]_vars
  /\ WF_request(Sends)
  /\ WF_request(TakesRequest)
  /\ WF_replies(TakesReply)

-----------------------------------------------------------------------------
(* Correctness. *)

Complete ==
  /\ History(follower.durable) = History(leader.durable)
  /\ follower.durable.commit = leader.durable.commit

\* The follower ends up with the leader's log and commit index, whatever it
\* held before and whenever the session was reset (RecvAppend, the back-off in
\* RecvAppendReply, and the snapshot path of CoreReplica).
CatchesUp == <>[]Complete

===============================================================================
