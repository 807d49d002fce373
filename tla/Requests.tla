------------------------------ MODULE Requests ------------------------------
(***************************************************************************)
(* Client requests waiting for their commit (network/node_server.cpp,      *)
(* on_client, complete_waiters, the request timer and Session::retire;     *)
(* network/pending_requests.hpp).  A command that is not committed at once *)
(* leaves a waiter at its log index.  Three things race for the waiter:    *)
(* the commit hook, the two-second timer and the end of its session.  A    *)
(* timer that has expired cannot be cancelled any more: its handler is     *)
(* already queued behind the one that cancels it.                          *)
(*                                                                         *)
(* The replica is reduced to what its callers see: a log, a commit index   *)
(* and leadership.  While others lead, its uncommitted entries may be      *)
(* replaced.  A session whose queue or budget cannot take an answer is     *)
(* retired instead; which sessions are full is left open.  The cluster has *)
(* more than one node: alone, enqueue commits and no waiter ever exists.   *)
(***************************************************************************)
EXTENDS Integers, Sequences, FiniteSets, SequencesExt

CONSTANTS
  Session, Command,
  Noop,          \* the entry a new leader adds
  Capacity,      \* PendingRequests::kCapacity
  MaxWaiters,    \* kMaxSessionWaiters
  MaxRequests, MaxLog, MaxTerm   \* bounds

VARIABLES
  log,           \* entries [command, term]
  commit,
  leads,         \* this node is the leader
  term,
  server,        \* sessions, waiters and timers
  asked          \* every request: [session, command]; its place is its correlation

vars == <<log, commit, leads, term, server, asked>>

\* pending: waiters [id, index, term, command, session, corr]; armed, due:
\* timers running and timers whose handler is queued; answers by correlation.
EmptyServer ==
  [closed |-> {}, waiters |-> [s \in Session |-> 0], pending |-> {}, next |-> 1,
   armed |-> {}, due |-> {}, answers |-> [c \in 1..MaxRequests |-> <<>>]]

Open(s) == s \notin server.closed

\* The receipt of a committed command: where it stands in the log.
Receipts(l, n, c) == {[index |-> i, term |-> l[i].term] : i \in {j \in 1..n : l[j].command = c}}

-----------------------------------------------------------------------------
(* The server's steps, on its record. *)

\* steady_timer::cancel, before the handler is queued.
Cancel(v, id) == [v EXCEPT !.armed = @ \ {id}]

\* Session::retire
Retire(v, s) ==
  LET mine == {w \in v.pending : w.session = s} IN
  IF s \in v.closed THEN v
  ELSE [v EXCEPT !.closed = @ \cup {s}, !.waiters[s] = 0, !.pending = @ \ mine,
                 !.armed = @ \ {w.id : w \in mine}]

\* Session::send_frame
Reply(v, s, corr, answer, full) ==
  IF s \in v.closed THEN v
  ELSE IF s \in full THEN Retire(v, s)
  ELSE [v EXCEPT !.answers[corr] = Append(@, answer)]

Failure(code) == [outcome |-> code, index |-> 0, term |-> 0]
Success(r) == [outcome |-> "Ok", index |-> r.index, term |-> r.term]

\* Fault: the timer is not started.
AddWithoutTimer(v, w) ==
  [v EXCEPT !.pending = @ \cup {w}, !.next = @ + 1, !.waiters[w.session] = @ + 1]
\* on_client's last part and PendingRequests::add
Add(v, w) ==
  [v EXCEPT !.pending = @ \cup {w}, !.next = @ + 1, !.waiters[w.session] = @ + 1,
            !.armed = @ \cup {w.id}]

\* Fault: the waiter's own entry is taken to be the one that committed.
CompleteUnchecked(v, w, l, n, full) ==
  IF w.session \in v.closed THEN Cancel(v, w.id)
  ELSE Reply([Cancel(v, w.id) EXCEPT !.waiters[w.session] = @ - 1],
             w.session, w.corr, Success(w), full)

\* complete_waiters, one waiter.  Another entry at its index: no answer, the
\* session ends and the client has to ask again.
Complete(v, w, l, n, full) ==
  IF w.session \in v.closed THEN Cancel(v, w.id)
  ELSE LET taken == [Cancel(v, w.id) EXCEPT !.waiters[w.session] = @ - 1] IN
       IF \E r \in Receipts(l, n, w.command) : r.index = w.index /\ r.term = w.term
       THEN Reply(taken, w.session, w.corr, Success(w), full)
       ELSE Retire(taken, w.session)

\* Fault: waiters are visited where they are, and left there.
CompleteInPlace(v, l, n, full) ==
  LET ready == {w \in v.pending : w.index <= n}
      order == SetToSortSeq(ready, LAMBDA a, b : a.index < b.index \/ (a.index = b.index /\ a.id < b.id))
  IN FoldLeft(LAMBDA acc, w : Complete(acc, w, l, n, full), v, order)
\* take_through, then complete_waiters over what it took, by index.
CompleteWaiters(v, l, n, full) ==
  LET ready == {w \in v.pending : w.index <= n}
      order == SetToSortSeq(ready, LAMBDA a, b : a.index < b.index \/ (a.index = b.index /\ a.id < b.id))
  IN FoldLeft(LAMBDA acc, w : Complete(acc, w, l, n, full),
              [v EXCEPT !.pending = @ \ ready], order)

\* The request timer's handler: whoever came first has taken the waiter.
Timeout(v, id, full) ==
  LET mine == {w \in v.pending : w.id = id}
      gone == [v EXCEPT !.due = @ \ {id}] IN
  IF mine = {} THEN gone
  ELSE LET w == CHOOSE w \in mine : TRUE IN
       Reply([gone EXCEPT !.pending = @ \ mine, !.waiters[w.session] = @ - 1],
             w.session, w.corr, Failure("Unavailable"), full)

-----------------------------------------------------------------------------
(* Actions. *)

\* The sessions that can take no further frame at this step.
Full == {f \in SUBSET Session : Cardinality(f) <= 1}

\* on_client for a command that decodes.
OnClient(s, c, full) ==
  LET corr == Len(asked) + 1
      held == {i \in DOMAIN log : log[i].command = c}
      grown == IF held = {} THEN Append(log, [command |-> c, term |-> term]) ELSE log
      at == CHOOSE i \in DOMAIN grown : grown[i].command = c
      waiter == [id |-> server.next, index |-> at, term |-> grown[at].term, command |-> c,
                 session |-> s, corr |-> corr]
      overloaded == Cardinality(server.pending) >= Capacity \/ server.waiters[s] >= MaxWaiters
  IN
  /\ Open(s) /\ corr <= MaxRequests
  /\ asked' = Append(asked, [session |-> s, command |-> c])
  /\ \/ /\ overloaded \/ ~leads
        /\ server' = Reply(server, s, corr,
                           Failure(IF overloaded THEN "Overloaded" ELSE "NotLeader"), full)
        /\ UNCHANGED <<log, commit>>
     \/ /\ ~overloaded /\ leads        \* another command's ID, or refused by propose
        /\ server' = Reply(server, s, corr, Failure("Rejected"), full)
        /\ UNCHANGED <<log, commit>>
     \/ /\ ~overloaded /\ leads /\ Len(grown) <= MaxLog
        /\ log' = grown /\ UNCHANGED commit
        /\ server' = IF at <= commit THEN Reply(server, s, corr, Success(waiter), full)
                     ELSE Add(server, waiter)
  /\ UNCHANGED <<leads, term>>

\* The leader's commit index moves: the commit hook runs.
Commit(n, full) ==
  /\ leads /\ n > commit /\ log[n].term = term
  /\ commit' = n /\ server' = CompleteWaiters(server, log, n, full)
  /\ UNCHANGED <<log, leads, term, asked>>

\* A message of a later term ends this node's leadership.
Depose ==
  /\ leads /\ term < MaxTerm
  /\ leads' = FALSE /\ term' = term + 1
  /\ UNCHANGED <<log, commit, server, asked>>

\* The other leader's append: a suffix is replaced, the commit index follows.
Follow(keep, c, n, full) ==
  /\ ~leads /\ keep \in commit..Len(log) /\ keep < MaxLog
  /\ \A i \in 1..keep : log[i].command # c \/ c = Noop
  /\ n \in commit..(keep + 1)
  /\ log' = Append(SubSeq(log, 1, keep), [command |-> c, term |-> term])
  /\ commit' = n
  /\ server' = IF n > commit THEN CompleteWaiters(server, log', n, full) ELSE server
  /\ UNCHANGED <<leads, term, asked>>

\* This node is elected again and adds its no-op.
Lead ==
  /\ ~leads /\ term < MaxTerm /\ Len(log) < MaxLog
  /\ leads' = TRUE /\ term' = term + 1
  /\ log' = Append(log, [command |-> Noop, term |-> term + 1])
  /\ UNCHANGED <<commit, server, asked>>

\* Two seconds have passed: the handler is queued on the strand.
Expire(id) ==
  /\ id \in server.armed
  /\ server' = [server EXCEPT !.armed = @ \ {id}, !.due = @ \cup {id}]
  /\ UNCHANGED <<log, commit, leads, term, asked>>

TimerFires(id, full) ==
  /\ id \in server.due
  /\ server' = Timeout(server, id, full)
  /\ UNCHANGED <<log, commit, leads, term, asked>>

\* A read or write error, or a deadline, ends the session.
Close(s) ==
  /\ Open(s) /\ server' = Retire(server, s)
  /\ UNCHANGED <<log, commit, leads, term, asked>>

Init ==
  /\ log = <<>> /\ commit = 0 /\ leads = TRUE /\ term = 1
  /\ server = EmptyServer /\ asked = <<>>

Next ==
  \/ \E s \in Session, c \in Command, full \in Full : OnClient(s, c, full)
  \/ \E n \in 1..Len(log), full \in Full : Commit(n, full)
  \/ Depose \/ Lead
  \/ \E keep \in 0..Len(log), c \in Command \cup {Noop}, n \in 0..MaxLog, full \in Full :
       Follow(keep, c, n, full)
  \/ \E id \in 1..MaxRequests : Expire(id)
  \/ \E id \in 1..MaxRequests, full \in Full : TimerFires(id, full)
  \/ \E s \in Session : Close(s)

Spec == Init /\ [][Next]_vars

-----------------------------------------------------------------------------
(* Properties. *)

\* A request is answered at most once, whatever order the commit hook, its
\* timer and the end of its session come in.
OneAnswer == \A c \in DOMAIN asked : Len(server.answers[c]) <= 1

\* A success names the entry that holds the client's own command, committed,
\* even when the entry it waited at was replaced under another leader.
OkIsCommitted ==
  \A c \in DOMAIN asked : \A k \in DOMAIN server.answers[c] :
    LET a == server.answers[c][k] IN
    a.outcome = "Ok" =>
      a.index <= commit /\ log[a.index] = [command |-> asked[c].command, term |-> a.term]

=============================================================================
