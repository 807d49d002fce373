---------------------------- MODULE Choreography ----------------------------
(***************************************************************************)
(* The choreography state machine (state/machine.cpp, state/model.cpp and  *)
(* the checks of state/types.cpp): a command is validated against a copy   *)
(* of the state and becomes an event; events are applied in log order, in  *)
(* staged batches; a compact receipt of every command lets a retry be      *)
(* answered with the event it first produced.  The state is saved as a     *)
(* snapshot payload, whose receipts carry their log index only implicitly, *)
(* history below an anchor is dropped, and a restart restores a payload    *)
(* and replays the committed events after it.                              *)
(*                                                                         *)
(* A leader validates commands against the committed state plus the log's  *)
(* uncommitted entries; a new leader may drop a suffix of those and adds a *)
(* no-op of its own term.  Formatting is left out: the lines of a payload  *)
(* that copy one field of the domain state are the field domain, and a     *)
(* fingerprint is the normalised command itself.                           *)
(***************************************************************************)
EXTENDS Integers, Sequences, FiniteSets, SequencesExt, TLC

CONSTANTS
  Command,     \* the requests clients send: [id, type, schema, choreo, tick, payload]
  Clustered,   \* a log shared with peers, or the single-node engine
  Nil,
  MaxLog,      \* bound: entries of the log
  MaxTerm      \* bound: terms

VARIABLES
  engine,      \* Engine: [state, events]
  log,         \* every committed event, from index 1
  tail,        \* the entries after them, not committed
  term,        \* the leader's term
  first,       \* index of the first entry the log still holds
  saved        \* the snapshots kept: a set of [index, payload]

vars == <<engine, log, tail, term, first, saved>>

CurrentSchema == 1

EventTypeFor ==
  [CreateChoreography |-> "ChoreographyCreated", AddDancer |-> "DancerAdded",
   RemoveDancer |-> "DancerRemoved", MoveDancer |-> "DancerMoved",
   DefineFormation |-> "FormationDefined", ChangeFormation |-> "FormationChanged",
   TriggerMusicCue |-> "MusicCueTriggered", TriggerLightingCue |-> "LightingCueTriggered"]

EmptyDomain ==
  [created |-> FALSE, id |-> Nil, stage |-> Nil, overlap |-> "Forbidden", travel |-> 0,
   last |-> 0, term |-> 1, dancers |-> <<>>, formations |-> <<>>, music |-> <<>>, light |-> <<>>]

\* ChoreographyState: domain fields, then applied_events, applied_commands, receipts.
EmptyState == [domain |-> EmptyDomain, events |-> <<>>, commands |-> <<>>, receipts |-> <<>>]

-----------------------------------------------------------------------------
(* Commands and events. *)

\* normalize_command, unique_sorted: a formation's members are a set.
Normalized(p) ==
  IF "members" \in DOMAIN p THEN [p EXCEPT !.members = ToSet(@)] ELSE p

\* command_fingerprint
Fingerprint(c) == [c EXCEPT !.payload = Normalized(@)]

\* make_event.  The id of an event is the id of its command.
MakeEvent(c, index, tm) ==
  [id |-> c.id, type |-> EventTypeFor[c.type], schema |-> c.schema, choreo |-> c.choreo,
   tick |-> c.tick, payload |-> Normalized(c.payload), index |-> index, term |-> tm]

\* A leader's marker of its term: no command, no receipt.
NoOp(index, tm) ==
  [id |-> <<"noop", tm * 100 + index>>, type |-> "NoOp", schema |-> CurrentSchema, choreo |-> "none",
   tick |-> 0, payload |-> [none |-> 0], index |-> index, term |-> tm]

IsNoOp(e) == e.type = "NoOp"

\* command_from_event, as the fingerprint of the command it rebuilds.
FingerprintOf(e) ==
  [id |-> e.id, type |-> CHOOSE t \in DOMAIN EventTypeFor : EventTypeFor[t] = e.type,
   schema |-> e.schema, choreo |-> e.choreo, tick |-> e.tick, payload |-> e.payload]

\* receipt_from_event
ReceiptOf(e) == [index |-> e.index, term |-> e.term, fingerprint |-> FingerprintOf(e)]

-----------------------------------------------------------------------------
(* What one event does to the domain. *)

\* StageBounds::contains: the far corner is on stage.
OnStage(stage, at) == at[1] <= stage[1] /\ at[2] <= stage[2]

SquaredDistance(a, b) == (b[1] - a[1]) * (b[1] - a[1]) + (b[2] - a[2]) * (b[2] - a[2])
TravelWithin(a, b, limit) == SquaredDistance(a, b) <= limit * limit

\* mark_occupied: by an active dancer other than the ones excepted.
Occupied(d, at, except) ==
  \E n \in DOMAIN d.dancers \ except : d.dancers[n].active /\ d.dancers[n].at = at

\* Fault: the dancer is compared with itself only.
FreeOfSelf(d, at, except) ==
  d.overlap = "Allowed" \/ ~\E n \in except : d.dancers[n].at = at
Free(d, at, except) == d.overlap = "Allowed" \/ ~Occupied(d, at, except)

Active(d, n) == n \in DOMAIN d.dancers /\ d.dancers[n].active

Cues(d) == d.music @@ d.light

\* validate_cue_dependency, after find_cue found no cue of this name.
CueFits(d, p, tick) ==
  /\ p.cue \notin DOMAIN Cues(d)
  /\ p.after = Nil \/ (p.after \in DOMAIN Cues(d) /\ Cues(d)[p.after].tick <= tick)

\* The checks of apply_create, apply_add, apply_remove, apply_move,
\* apply_formation and apply_cue.
Legal(d, e) ==
  LET p == e.payload IN
  CASE e.type = "NoOp" -> TRUE
    [] e.type = "ChoreographyCreated" -> ~d.created /\ p.travel >= 0
    [] e.type = "DancerAdded" ->
         d.created /\ p.dancer \notin DOMAIN d.dancers /\ OnStage(d.stage, p.at) /\ Free(d, p.at, {})
    [] e.type = "DancerRemoved" -> d.created /\ Active(d, p.dancer)
    [] e.type = "DancerMoved" ->
         /\ d.created /\ Active(d, p.dancer) /\ OnStage(d.stage, p.at)
         /\ TravelWithin(d.dancers[p.dancer].at, p.at, d.travel)
         /\ Free(d, p.at, {p.dancer})
    [] e.type \in {"FormationDefined", "FormationChanged"} ->
         /\ d.created /\ p.members # {} /\ \A n \in p.members : Active(d, n)
         /\ (p.formation \in DOMAIN d.formations) <=> (e.type = "FormationChanged")
    [] OTHER -> d.created /\ CueFits(d, p, e.tick)

Effect(d, e) ==
  LET p == e.payload
      cue == p.cue :> [tick |-> e.tick, after |-> p.after] IN
  CASE e.type = "NoOp" -> d
    [] e.type = "ChoreographyCreated" ->
         [d EXCEPT !.created = TRUE, !.id = p.choreo, !.stage = p.stage,
                   !.overlap = p.overlap, !.travel = p.travel]
    [] e.type = "DancerAdded" ->
         [d EXCEPT !.dancers = (p.dancer :> [at |-> p.at, active |-> TRUE]) @@ @]
    [] e.type = "DancerRemoved" -> [d EXCEPT !.dancers[p.dancer].active = FALSE]
    [] e.type = "DancerMoved" -> [d EXCEPT !.dancers[p.dancer].at = p.at]
    [] e.type = "MusicCueTriggered" -> [d EXCEPT !.music = cue @@ @]
    [] e.type = "LightingCueTriggered" -> [d EXCEPT !.light = cue @@ @]
    [] OTHER -> [d EXCEPT !.formations = (p.formation :> p.members) @@ @]

-----------------------------------------------------------------------------
(* Proposing and applying events. *)

\* existing_event: the full event, else the receipt, else a bare tombstone.
Existing(s, e) ==
  IF e.id \in DOMAIN s.events THEN IF s.events[e.id] = e THEN "seen" ELSE "conflict"
  ELSE IF e.id \in DOMAIN s.receipts
       THEN IF ~IsNoOp(e) /\ s.receipts[e.id] = ReceiptOf(e) THEN "seen" ELSE "conflict"
  ELSE IF e.id \in DOMAIN s.commands THEN "conflict" ELSE "new"

\* The success path of apply_against: the domain, then the history.
Recorded(s, e) ==
  [domain |-> [Effect(s.domain, e) EXCEPT !.last = e.index, !.term = e.term],
   events |-> (e.id :> e) @@ s.events,
   commands |-> (e.id :> e.id) @@ s.commands,
   receipts |-> IF IsNoOp(e) THEN s.receipts ELSE (e.id :> ReceiptOf(e)) @@ s.receipts]

\* IndexRule: Contiguous, or Monotonic for a filtered replay.
IndexFits(s, e, rule) ==
  IF rule = "Contiguous" THEN e.index = s.domain.last + 1 ELSE e.index > s.domain.last

\* apply_against: Nil when refused; the baseline holds older history.
ApplyAgainst(s, e, rule, baseline) ==
  LET known == <<Existing(s, e), Existing(baseline, e)>> IN
  IF e.schema # CurrentSchema \/ known[1] = "conflict" THEN Nil
  ELSE IF known[1] = "seen" THEN s
  ELSE IF known[2] = "conflict" THEN Nil
  ELSE IF known[2] = "seen" THEN s
  ELSE IF IndexFits(s, e, rule) /\ Legal(s.domain, e) THEN Recorded(s, e)
  ELSE Nil

\* apply, over a sequence of events: Nil once one is refused.
ApplyAll(s, events, rule, baseline) ==
  FoldLeft(LAMBDA acc, e : IF acc = Nil THEN Nil ELSE ApplyAgainst(acc, e, rule, baseline),
           s, events)

Replay(events) == ApplyAll(EmptyState, events, "Contiguous", EmptyState)

\* Fault: only the alias table is consulted, which retention trims.
KnowsAlias(s, id) == id \in DOMAIN s.commands

Knows(s, id) == id \in DOMAIN s.commands \/ id \in DOMAIN s.receipts

\* propose: the event, or Nil.  The candidate is the domain without history.
Propose(s, c) ==
  LET e == MakeEvent(c, s.domain.last + 1, s.domain.term)
      targets == IF c.type = "CreateChoreography" THEN ~s.domain.created
                 ELSE s.domain.created /\ c.choreo = s.domain.id IN
  IF /\ c.schema = CurrentSchema /\ ~Knows(s, c.id) /\ targets
     /\ ApplyAgainst([EmptyState EXCEPT !.domain = s.domain], e, "Contiguous", EmptyState) # Nil
  THEN e ELSE Nil

\* resolve_receipt: the event a committed command first produced.
Resolve(s, c) ==
  IF c.id \notin DOMAIN s.receipts THEN [outcome |-> "OutcomeUnavailable", event |-> Nil]
  ELSE IF s.receipts[c.id].fingerprint # Fingerprint(c)
       THEN [outcome |-> "CommandConflict", event |-> Nil]
  ELSE [outcome |-> "Ok", event |-> MakeEvent(c, s.receipts[c.id].index, s.receipts[c.id].term)]

\* Engine::prepare_committed: a batch staged against read-only history.
Prepare(s, batch) ==
  ApplyAll([EmptyState EXCEPT !.domain = s.domain], batch, "Contiguous", s)

\* Fault: the term of the batch is not taken over.
PublishOldTerm(s, staged) ==
  [domain |-> [staged.domain EXCEPT !.term = s.domain.term], events |-> s.events @@ staged.events,
   commands |-> s.commands @@ staged.commands, receipts |-> s.receipts @@ staged.receipts]
\* Engine::publish_committed: the staged records join the history.
Publish(s, staged) ==
  [domain |-> staged.domain, events |-> s.events @@ staged.events,
   commands |-> s.commands @@ staged.commands, receipts |-> s.receipts @@ staged.receipts]

-----------------------------------------------------------------------------
(* Snapshot payloads and retained history. *)

\* snapshot_payload: receipts in log order; a row gives its index only where
\* it does not follow the previous one, and its term only where it changes.
ReceiptRows(receipts) ==
  LET ordered == SetToSortSeq(DOMAIN receipts,
                              LAMBDA a, b : receipts[a].index < receipts[b].index)
      Row(acc, id) ==
        LET r == receipts[id]
            at == IF r.index # acc.cursor + 1 THEN <<[row |-> "at", n |-> r.index - 1]>> ELSE <<>>
            tm == IF r.term # acc.term THEN <<[row |-> "receipt-term", n |-> r.term]>> ELSE <<>>
        IN [cursor |-> r.index, term |-> r.term,
            rows |-> acc.rows \o at \o tm
                       \o <<[row |-> "r", id |-> id, fingerprint |-> r.fingerprint]>>]
  IN FoldLeft(Row, [cursor |-> 0, term |-> 1, rows |-> <<>>], ordered).rows

SnapshotPayload(s) ==
  [version |-> 3, domain |-> s.domain, rows |-> ReceiptRows(s.receipts),
   legacy |-> {id \in DOMAIN s.commands \ DOMAIN s.receipts : s.commands[id][1] # "noop"},
   full |-> {}]

\* restore_state, the receipt rows: the index and the term run along.
ReadRow(acc, r, last) ==
  CASE r.row = "at" -> [acc EXCEPT !.bad = @ \/ r.n <= acc.index \/ r.n >= last, !.index = r.n]
    [] r.row = "receipt-term" -> [acc EXCEPT !.bad = @ \/ r.n = 0, !.term = r.n]
    [] OTHER -> [acc EXCEPT !.bad = @ \/ acc.index >= last \/ r.id \in DOMAIN acc.receipts,
                            !.index = @ + 1,
                            !.receipts = (r.id :> [index |-> acc.index + 1, term |-> acc.term,
                                                   fingerprint |-> r.fingerprint]) @@ @]

\* restore_state.  Versions 1 and 2 list applied commands (legacy here);
\* version 2 also holds full events, from which receipts are rebuilt.
RestoreState(p) ==
  LET read == FoldLeft(LAMBDA acc, r : ReadRow(acc, r, p.domain.last),
                       [index |-> 0, term |-> 1, receipts |-> <<>>, bad |-> FALSE], p.rows)
      events == [id \in {e.id : e \in p.full} |-> CHOOSE e \in p.full : e.id = id]
      named == {id \in DOMAIN events : ~IsNoOp(events[id])}
  IN IF read.bad THEN Nil
     ELSE [domain |-> p.domain, events |-> events,
           commands |-> [id \in DOMAIN read.receipts \cup p.legacy |-> id],
           receipts |-> [id \in named |-> ReceiptOf(events[id])] @@ read.receipts]

\* Engine::restore: whole history, where it is at hand, renews the receipts.
Restored(s, history) ==
  [state |-> [s EXCEPT !.receipts =
     FoldLeft(LAMBDA acc, e : IF IsNoOp(e) THEN acc ELSE (e.id :> ReceiptOf(e)) @@ acc,
              @, history)],
   events |-> history]

Keep(f, ids) == [id \in DOMAIN f \cap ids |-> f[id]]

\* Fault: everything known of an old command goes with its event.
RetainNothing(s, anchor) ==
  LET old == {id \in DOMAIN s.events : s.events[id].index < anchor} IN
  [s EXCEPT !.events = Keep(@, DOMAIN @ \ old), !.commands = Keep(@, DOMAIN @ \ old),
            !.receipts = Keep(@, DOMAIN @ \ old)]
\* retain_state_history_from: bodies below the anchor go, with the aliases a
\* receipt makes redundant; tombstones without a receipt stay.
RetainState(s, anchor) ==
  LET old == {id \in DOMAIN s.events : s.events[id].index < anchor}
      covered == {id \in old : IsNoOp(s.events[id]) \/ id \in DOMAIN s.receipts}
                   \cup {id \in DOMAIN s.receipts : s.receipts[id].index < anchor}
  IN [s EXCEPT !.events = Keep(@, DOMAIN @ \ old), !.commands = Keep(@, DOMAIN @ \ covered)]

\* Engine::retain_history_from
Retain(eng, anchor) ==
  [state |-> RetainState(eng.state, anchor),
   events |-> SelectSeq(eng.events, LAMBDA e : e.index >= anchor)]

-----------------------------------------------------------------------------
(* The node. *)

Commit == Len(log)
\* Fault: validation ignores what is not committed yet.
SpeculativeCommitted == engine.state
\* build_speculative: the committed state and every uncommitted entry.
Speculative == ApplyAll(engine.state, tail, "Contiguous", EmptyState)

Snapshot(s) == [index |-> s.domain.last, payload |-> SnapshotPayload(s)]

\* maybe_snapshot, take_snapshot: two are kept; a cluster node then cuts its
\* log back to the older.  snapshot_every is left open: due says it is time.
Maintained(eng, due) ==
  LET kept == {s \in saved \cup {Snapshot(eng.state)} :
                 Cardinality({t \in saved \cup {Snapshot(eng.state)} : t.index > s.index}) < 2}
      anchor == CHOOSE i \in {s.index : s \in kept} : \A s \in kept : i <= s.index
      cut == due /\ Clustered /\ Cardinality(kept) = 2 /\ anchor > first
  IN /\ saved' = IF due THEN kept ELSE saved
     /\ first' = IF cut THEN anchor ELSE first
     /\ engine' = IF cut THEN Retain(eng, anchor) ELSE eng

\* Engine::submit with FileEngine::submit's maintenance.
Submit(c, due) ==
  LET e == Propose(engine.state, c) IN
  /\ ~Clustered /\ Commit < MaxLog
  /\ ~Knows(engine.state, c.id) /\ e # Nil
  /\ log' = Append(log, e)
  /\ Maintained([state |-> ApplyAgainst(engine.state, e, "Contiguous", EmptyState),
                 events |-> Append(engine.events, e)], due)
  /\ UNCHANGED <<tail, term>>

\* Replica::enqueue: a known command is answered from its receipt or its log
\* entry; a new one is validated with the uncommitted entries applied, and
\* stamped with the leader's term.
Enqueue(c) ==
  LET e == Propose(Speculative, c) IN
  /\ Clustered /\ Commit + Len(tail) < MaxLog
  /\ ~Knows(engine.state, c.id) /\ \A i \in DOMAIN tail : tail[i].id # c.id
  /\ e # Nil
  /\ tail' = Append(tail, [e EXCEPT !.term = term])
  /\ UNCHANGED <<engine, log, term, first, saved>>

\* A leader of a later term keeps a prefix of the uncommitted entries.
Elect(keep) ==
  /\ Clustered /\ term < MaxTerm /\ Commit + keep < MaxLog
  /\ term' = term + 1
  /\ tail' = Append(SubSeq(tail, 1, keep), NoOp(Commit + keep + 1, term + 1))
  /\ UNCHANGED <<engine, log, first, saved>>

\* commit_through
CommitThrough(n, due) ==
  LET batch == SubSeq(tail, 1, n)
      staged == Prepare(engine.state, batch) IN
  /\ Clustered /\ staged # Nil
  /\ log' = log \o batch /\ tail' = SubSeq(tail, n + 1, Len(tail))
  /\ Maintained([state |-> Publish(engine.state, staged), events |-> engine.events \o batch], due)
  /\ UNCHANGED term

\* discard_compacted_prefix, after a checkpoint at the newest snapshot.
Discard(s) ==
  /\ Clustered /\ s \in saved /\ \A t \in saved : t.index <= s.index
  /\ s.index > first
  /\ first' = s.index /\ engine' = Retain(engine, s.index)
  /\ UNCHANGED <<log, tail, term, saved>>

\* FileEngine::open with snapshot s: whole history only if the log has it all.
Reopened(s) ==
  LET base == RestoreState(s.payload)
      history == IF first = 1 THEN SubSeq(log, 1, s.index) ELSE <<>>
      eng == Restored(base, history)
      rest == SubSeq(log, s.index + 1, Commit)
      full == [state |-> ApplyAll(eng.state, rest, "Contiguous", EmptyState),
               events |-> eng.events \o rest]
  IN IF base = Nil \/ (base # Nil => full.state = Nil) THEN Nil
     ELSE IF Clustered THEN Retain(full, first) ELSE full

\* A restart from a snapshot that reaches the log, or from the log alone.
Restart ==
  /\ \/ \E s \in saved : s.index + 1 >= first /\ engine' = Reopened(s)
     \/ first = 1 /\ engine' = [state |-> Replay(log), events |-> log]
  /\ UNCHANGED <<log, tail, term, first, saved>>

Init ==
  /\ engine = [state |-> EmptyState, events |-> <<>>]
  /\ log = <<>> /\ tail = <<>> /\ term = 1 /\ first = 1 /\ saved = {}

Next ==
  \/ \E c \in Command, due \in BOOLEAN : Submit(c, due)
  \/ \E c \in Command : Enqueue(c)
  \/ \E keep \in 0..Len(tail) : Elect(keep)
  \/ \E n \in 1..Len(tail), due \in BOOLEAN : CommitThrough(n, due)
  \/ \E s \in saved : Discard(s)
  \/ Restart

Spec == Init /\ [][Next]_vars

-----------------------------------------------------------------------------
(* Properties. *)

\* However it was reached (staged batches, restored payloads, trimmed
\* history), the domain is the one a replay of the committed events gives, so
\* that all replicas agree at an index.
DomainIsReplay == engine # Nil /\ engine.state.domain = Replay(log).domain

\* A committed command's retry gets the event it first produced, and another
\* command under its id is told so, after any restart or compaction.
RetriesAnswered ==
  \A i \in DOMAIN log : \A c \in Command :
    c.id = log[i].id =>
      LET answer == Resolve(engine.state, c) IN
      IF Fingerprint(c) = FingerprintOf(log[i])
      THEN answer = [outcome |-> "Ok", event |-> log[i]] ELSE answer.outcome = "CommandConflict"

\* No command enters the log twice.
AppliedOnce ==
  LET all == log \o tail IN \A i, j \in DOMAIN all : all[i].id = all[j].id => i = j

\* What a leader accepted can be committed: no prefix of the uncommitted
\* entries is refused when it is applied, whoever cut the log in between.
AcceptedApplies == \A n \in 0..Len(tail) : Prepare(engine.state, SubSeq(tail, 1, n)) # Nil

\* Active dancers stand apart where overlap is forbidden, all of them on
\* stage, and no cue fires before the one it depends on.
StageIsSound ==
  LET d == engine.state.domain
      active == {n \in DOMAIN d.dancers : d.dancers[n].active} IN
  /\ d.overlap = "Forbidden" => \A m, n \in active : d.dancers[m].at = d.dancers[n].at => m = n
  /\ \A n \in DOMAIN d.dancers : OnStage(d.stage, d.dancers[n].at)
  /\ \A q \in DOMAIN Cues(d) : LET dep == Cues(d)[q].after IN
       dep # Nil => dep \in DOMAIN Cues(d) /\ Cues(d)[dep].tick <= Cues(d)[q].tick

=============================================================================
