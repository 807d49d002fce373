------------------------------- MODULE Paging -------------------------------
(***************************************************************************)
(* Reading a node page by page while it commits, compacts and restarts:    *)
(* on_management's state, events and recovery queries                      *)
(* (network/node_server.cpp), fetch_state (protocol/client.cpp), and the   *)
(* gRPC service's GetState, ListEvents and GetRecoveryStatus               *)
(* (apps/management/main.cpp).  Every page is a connection and a request   *)
(* of its own, so anything may happen between two of them.                 *)
(*                                                                         *)
(* The canonical state contains the last applied index, so states of       *)
(* different commit indexes differ; a state is a sequence of units named   *)
(* by its index, and the index stands for its hash.                        *)
(***************************************************************************)
EXTENDS Integers, Sequences, FiniteSets, SequencesExt

CONSTANTS
  Event,          \* event contents
  SizeOf,         \* of an event, in page units
  StateSize,      \* of the state after i commits, in page units: i |-> size
  StatePage,      \* units in a state page
  MaxPageBytes,   \* kMaxEventPageBytes
  DefaultPage,    \* the events of a page when page_size is 0
  PageSize,       \* the page sizes readers ask for
  MaxBytes,       \* fetch_state's maximum_bytes
  Reader,         \* which of the three readers there are
  Nil, MaxLog

VARIABLES
  log,            \* every event ever committed here, and the tail after them
  first,          \* log_first_index: what is before it is compacted
  commit,
  cached,         \* cached_state_hash and cached_state: [hash, bytes]
  state,          \* a reader in GetState: [phase, index, bytes]
  events,         \* a reader of ListEvents: [base, after, got, stuck]
  recovery        \* a reader in GetRecoveryStatus: [done, snapshot, commit]

node == <<log, first, commit>>
vars == <<log, first, commit, cached, state, events, recovery>>

\* canonical_state after i commits; its hash is i.
CanonicalState(i) == [k \in 1..StateSize[i] |-> <<i, k>>]
Saved == first - 1     \* compaction keeps the log after the newest snapshot

-----------------------------------------------------------------------------
(* The node's answers. *)

\* Fault: filled once and kept.
CacheFilled == IF cached = Nil THEN [hash |-> commit, bytes |-> CanonicalState(commit)] ELSE cached
\* The cached canonical state, refreshed when the hash has changed.
CacheFresh ==
  IF cached = Nil THEN [hash |-> commit, bytes |-> CanonicalState(commit)]
  ELSE IF cached.hash # commit THEN [hash |-> commit, bytes |-> CanonicalState(commit)]
  ELSE cached

\* on_management, "state": a page of the state with the expected hash.
StateReply(offset, expected) ==
  LET bytes == CacheFresh.bytes
      chunk == SubSeq(bytes, offset + 1, Min({Len(bytes), offset + StatePage})) IN
  IF expected # commit THEN [error |-> "StateChanged"]
  ELSE IF offset > Len(bytes) THEN [error |-> "InvalidCursor"]
  ELSE [error |-> "", hash |-> commit, size |-> Len(bytes), chunk |-> chunk,
        next |-> offset + Len(chunk), more |-> offset + Len(chunk) < Len(bytes)]

\* A page size of zero asks for the default.
Limit(asked) == IF asked = 0 THEN DefaultPage ELSE asked

\* Fault: the page runs to the end of the log.
ServableAll(after) == [k \in 1..(Len(log) - after) |-> after + k]
\* The events after the cursor that may be shown: retained and committed.
Servable(after) == [k \in 1..(commit - after) |-> after + k]

\* One event more still fits.
Takes(page, i, limit) ==
  page.count < limit /\ SizeOf[log[i]] <= MaxPageBytes - page.bytes

\* on_management, "events", the loop over the log.
EventsReply(after, asked) ==
  LET Step(page, i) ==
        IF page.more \/ page.error # "" THEN page
        ELSE IF SizeOf[log[i]] > MaxPageBytes
        THEN [page EXCEPT !.error = "EventTooLarge", !.events = <<>>]
        ELSE IF ~Takes(page, i, Limit(asked)) THEN [page EXCEPT !.more = TRUE]
        ELSE [page EXCEPT !.events = Append(@, log[i]), !.count = @ + 1,
                          !.bytes = @ + SizeOf[log[i]], !.next = i]
      empty == [error |-> "", events |-> <<>>, count |-> 0, bytes |-> 0,
                next |-> after, more |-> FALSE]
  IN IF first > 1 /\ after < first - 1 THEN [empty EXCEPT !.error = "Compacted"]
     ELSE FoldLeft(Step, empty, Servable(after))

-----------------------------------------------------------------------------
(* The node. *)

AppendEntry(e) ==
  /\ Len(log) < MaxLog /\ log' = Append(log, e)
  /\ UNCHANGED <<first, commit, cached, state, events, recovery>>

\* Another leader replaces uncommitted events.
Replace(n) ==
  /\ n \in commit..(Len(log) - 1) /\ log' = SubSeq(log, 1, n)
  /\ UNCHANGED <<first, commit, cached, state, events, recovery>>

Commit(n) ==
  /\ n \in (commit + 1)..Len(log) /\ commit' = n
  /\ UNCHANGED <<log, first, cached, state, events, recovery>>

\* A snapshot at the commit index and the compaction behind it.
Compact ==
  /\ first # commit + 1 /\ first' = commit + 1
  /\ UNCHANGED <<log, commit, cached, state, events, recovery>>

\* The commit index and the snapshot are durable; the cache is not.
Restart ==
  /\ cached # Nil /\ cached' = Nil
  /\ UNCHANGED <<log, first, commit, state, events, recovery>>

-----------------------------------------------------------------------------
(* GetState and fetch_state. *)

NoState == [phase |-> "idle", index |-> 0, bytes |-> <<>>]

\* fetch_status: the hash the pages have to carry.
AskStatus ==
  /\ "state" \in Reader /\ state.phase = "idle"
  /\ state' = [phase |-> "paging", index |-> commit, bytes |-> <<>>]
  /\ UNCHANGED <<node, cached, events, recovery>>

\* fetch_state's checks on a page.
PageFits(page, hash, held) ==
  /\ page.hash = hash /\ Len(page.chunk) <= MaxBytes - Len(held)
  /\ page.next = Len(held) + Len(page.chunk) /\ page.next <= page.size
  /\ page.more = (page.next < page.size) /\ (page.more => page.chunk # <<>>)

\* One page: asked for, checked and appended, or the read fails.
FetchState ==
  LET page == StateReply(Len(state.bytes), state.index) IN
  /\ state.phase = "paging"
  /\ cached' = IF state.index = commit THEN CacheFresh ELSE cached
  /\ state' = IF page.error # "" THEN NoState
              ELSE IF page.size > MaxBytes \/ ~PageFits(page, state.index, state.bytes)
              THEN [NoState EXCEPT !.phase = "failed"]
              ELSE [state EXCEPT !.bytes = @ \o page.chunk,
                                 !.phase = IF page.more THEN "paging" ELSE "done"]
  /\ UNCHANGED <<node, events, recovery>>

\* The answer is returned, or the read times out, and another begins.
EndState ==
  /\ state.phase # "idle" /\ state' = NoState
  /\ UNCHANGED <<node, cached, events, recovery>>

-----------------------------------------------------------------------------
(* ListEvents, asked for from where the last page ended. *)

\* Compacted: the reader starts again from a snapshot, at the commit index.
ListEvents(asked) ==
  LET page == EventsReply(events.after, asked) IN
  /\ "events" \in Reader /\ ~events.stuck
  /\ events' = CASE page.error = "Compacted" ->
                      [base |-> commit, after |-> commit, got |-> <<>>, stuck |-> FALSE]
                 [] page.error = "EventTooLarge" -> [events EXCEPT !.stuck = TRUE]
                 [] OTHER -> [events EXCEPT !.after = page.next, !.got = @ \o page.events]
  /\ UNCHANGED <<node, cached, state, recovery>>

-----------------------------------------------------------------------------
(* GetRecoveryStatus: two queries, one after the other. *)

NoRecovery == [done |-> 0, snapshot |-> 0, commit |-> 0]

\* The order of the two queries.
RecoveryQueries == <<"recovery", "status">>

AskRecovery ==
  /\ "recovery" \in Reader /\ recovery.done < 2
  /\ recovery' = IF RecoveryQueries[recovery.done + 1] = "recovery"
                 THEN [recovery EXCEPT !.done = @ + 1, !.snapshot = Saved]
                 ELSE [recovery EXCEPT !.done = @ + 1, !.commit = commit]
  /\ UNCHANGED <<node, cached, state, events>>

EndRecovery ==
  /\ recovery.done = 2 /\ recovery' = NoRecovery
  /\ UNCHANGED <<node, cached, state, events>>

-----------------------------------------------------------------------------
Init ==
  /\ log = <<>> /\ first = 1 /\ commit = 0 /\ cached = Nil
  /\ state = NoState /\ recovery = NoRecovery
  /\ events = [base |-> 0, after |-> 0, got |-> <<>>, stuck |-> FALSE]

Next ==
  \/ \E e \in Event : AppendEntry(e)
  \/ \E n \in 0..MaxLog : Replace(n) \/ Commit(n)
  \/ Compact \/ Restart
  \/ AskStatus \/ FetchState \/ EndState
  \/ \E asked \in PageSize : ListEvents(asked)
  \/ AskRecovery \/ EndRecovery

Spec == Init /\ [][Next]_vars

-----------------------------------------------------------------------------
(* Properties. *)

\* A state put together from pages is the state of the index it is returned
\* with, whatever was committed or restarted between its pages.
StateIsWhole == state.phase = "done" => state.bytes = CanonicalState(state.index)

\* The pages of events join up: nothing missing, nothing twice, nothing that
\* was never committed.
EventsJoin ==
  /\ events.base + Len(events.got) = events.after /\ events.after <= commit
  /\ events.got = SubSeq(log, events.base + 1, events.after)

=============================================================================
