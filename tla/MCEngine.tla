------------------------------ MODULE MCEngine ------------------------------
(* Instances of Choreography, two dancers on a stage of two by one, and of    *)
(* Paging, through which clients read what the engine holds.                  *)
EXTENDS Choreography

VARIABLES
  commit, history, cached, state, events, recovery, oldest,   \* of Paging
  setting   \* which of them moves, with which constants; never changes

pagingVars == <<commit, history, cached, state, events, recovery, oldest>>

Request(n, type, tick, payload) ==
  [id |-> <<"cmd", n>>, type |-> type, schema |-> 1, choreo |-> "show", tick |-> tick,
   payload |-> payload]

Create ==
  Request(1, "CreateChoreography", 0,
          [choreo |-> "show", stage |-> <<2, 1>>, overlap |-> "Forbidden", travel |-> 1])
AddA == Request(2, "AddDancer", 1, [dancer |-> "a", at |-> <<0, 0>>])
AddB == Request(3, "AddDancer", 1, [dancer |-> "b", at |-> <<1, 0>>])
MoveA == Request(4, "MoveDancer", 1, [dancer |-> "a", at |-> <<1, 0>>])
MoveFar == Request(4, "MoveDancer", 1, [dancer |-> "a", at |-> <<1, 1>>])
RemoveB == Request(5, "RemoveDancer", 2, [dancer |-> "b"])
Define == Request(6, "DefineFormation", 2, [formation |-> "line", members |-> <<"b", "a", "b">>])
Change == Request(7, "ChangeFormation", 2, [formation |-> "line", members |-> <<"a">>])
Intro == Request(8, "TriggerMusicCue", 2, [cue |-> "intro", after |-> Nil])
Spot == Request(9, "TriggerLightingCue", 2, [cue |-> "spot", after |-> "intro"])
Early == Request(9, "TriggerLightingCue", 1, [cue |-> "spot", after |-> "intro"])
Elsewhere == [AddA EXCEPT !.choreo = "other"]
Future == [AddB EXCEPT !.schema = 2]

Dancing == {Create, AddA, AddB, MoveA, MoveFar, RemoveB, Define, Change}
Timed == {Create, AddA, Elsewhere, Future, Intro, Spot, Early, RemoveB, AddB}
Everything == Dancing \cup Timed
Few == {Create, AddA, MoveA, MoveFar, Intro}
Later == Few \cup {Spot, Early}
-----------------------------------------------------------------------------
(* A node upgraded from a snapshot of an older format: version 1 names the
   commands applied, version 2 holds their events as well.  Its log may or
   may not still hold the events themselves. *)

LegacyLog ==
  <<MakeEvent(Create, 1, 1), NoOp(2, 2), MakeEvent(AddA, 3, 2), MakeEvent(MoveA, 4, 2)>>

Legacy(version) ==
  [index |-> 4,
   payload |-> [version |-> version, domain |-> Replay(LegacyLog).domain, rows |-> <<>>,
                legacy |-> {LegacyLog[i].id : i \in 1..4},
                full |-> IF version = 2 THEN ToSet(LegacyLog) ELSE {}]]

LegacyInit ==
  /\ log = LegacyLog /\ tail = <<>> /\ term = 2
  /\ first \in {1, 4} /\ saved \in {{Legacy(1)}, {Legacy(2)}}
  /\ engine = Reopened(CHOOSE s \in saved : TRUE)

\* A retry of a command from before the upgrade gets its event or learns that
\* its outcome is unavailable; a later one gets its event.
LegacyRetries ==
  \A i \in DOMAIN log : \A c \in Command :
    c.id = log[i].id /\ Fingerprint(c) = FingerprintOf(log[i]) =>
      LET answer == Resolve(engine.state, c) IN
      \/ answer = [outcome |-> "Ok", event |-> log[i]]
      \/ i <= 4 /\ saved # {Legacy(2)} /\ answer.outcome = "OutcomeUnavailable"

\* RetriesAnswered, in every setting.
EveryRetryAnswered == IF setting = "legacy" THEN LegacyRetries ELSE RetriesAnswered

-----------------------------------------------------------------------------
(* Readers of the state in pages, and of the events. *)

Sizes == [low |-> 1, mid |-> 2, big |-> 4]

StatePages == INSTANCE Paging WITH
  Event <- {"low", "mid"}, SizeOf <- Sizes, StateSize <- [i \in 0..4 |-> 2 + i], StatePage <- 2,
  MaxPageBytes <- 2, DefaultPage <- 2, PageSize <- {0}, MaxBytes <- 4, MaxLog <- 4,
  Reader <- {"state", "recovery"}, log <- history, first <- oldest
EventPages == INSTANCE Paging WITH
  Event <- {"low", "mid", "big"}, SizeOf <- Sizes, StateSize <- [i \in 0..4 |-> 1], StatePage <- 2,
  MaxPageBytes <- 3, DefaultPage <- 2, PageSize <- {0}, MaxBytes <- 4, MaxLog <- 4,
  Reader <- {"events"}, log <- history, first <- oldest

\* A state put together from pages is the state of the index it is returned
\* with, whatever was committed or restarted between its pages (GetState).
StateIsWhole == StatePages!StateIsWhole

\* The pages of events join up: nothing missing, nothing twice, nothing that
\* was never committed (ListEvents).
EventsJoin == EventPages!EventsJoin

-----------------------------------------------------------------------------
Stage == INSTANCE Choreography WITH
  Command <- Everything, Clustered <- FALSE, MaxLog <- 6, MaxTerm <- 1
Upgraded == INSTANCE Choreography WITH Command <- Later, MaxLog <- 7

Settings ==
  /\ StatePages!Init
  /\ \/ setting \in {"cluster", "stage", "state", "events"} /\ Init
     \/ setting = "legacy" /\ LegacyInit

NextInSetting ==
  /\ UNCHANGED setting
  /\ \/ setting = "cluster" /\ Next /\ UNCHANGED pagingVars
     \/ setting = "stage" /\ Stage!Next /\ UNCHANGED pagingVars
     \/ setting = "legacy" /\ Upgraded!Next /\ UNCHANGED pagingVars
     \/ setting = "state" /\ StatePages!Next /\ UNCHANGED vars
     \/ setting = "events" /\ EventPages!Next /\ UNCHANGED vars

SettingsSpec == Settings /\ [][NextInSetting]_<<vars, pagingVars, setting>>
=============================================================================
