---------------------------- MODULE MCDurableNode ----------------------------
(* Small instances for TLC of DurableNode, with the checkpoint file, and of   *)
(* Wal, the other file a node keeps its log in.                               *)
EXTENDS DurableNode, Views, TLC

CONSTANTS s1, s2, s3

VARIABLES
  cells, events, ends, status, written, inDoubt, appends, tears, damaged,   \* of Wal
  setting   \* which of them moves, with which constants; never changes

walVars == <<cells, events, ends, status, written, inDoubt, appends, tears, damaged>>

Contested == {<<s1, 1>>, <<s2, 1>>, <<s2, 2>>}
Overwriting == {<<s2, 2>>}

\* s1 led term 1 with s3's vote and its entry reached no other server; every
\* host has been opened again since.
StrayEntry ==
  LET d(vote, log) == [EmptyDurable EXCEPT !.term = 1, !.votedFor = vote, !.log = log]
      held == [n \in Server |->
                 CASE n = s1 -> d(s1, <<[term |-> 1, command |-> CHOOSE c \in Command : TRUE]>>)
                   [] n = s2 -> d(Nil, <<>>) [] n = s3 -> d(s1, <<>>)]
  IN /\ node = [n \in Server |-> Initial(n, held[n])]
     /\ store = [n \in Server |-> [current |-> held[n], uncertain |-> FALSE]]
     /\ file = held
     /\ msgs = {}
     /\ faults = 0
     /\ restarts = 0

\* From there with entries and one election.
Logging == INSTANCE DurableNode WITH Campaigns <- Overwriting, MaxIndex <- 2, MaxId <- 3

Torn == INSTANCE Wal WITH
  Sizes <- {1, 2}, MaxPayload <- 2, MaxRecords <- 5, MaxTears <- 2, MaxDamage <- 0, file <- cells
Damaged == INSTANCE Wal WITH
  Sizes <- {1, 2}, MaxPayload <- 9, MaxRecords <- 3, MaxTears <- 1, MaxDamage <- 2, file <- cells

Settings ==
  /\ Torn!Init
  /\ \/ setting \in {"elections", "torn", "damaged"} /\ Init
     \/ setting = "logs" /\ StrayEntry

NextInSetting ==
  /\ UNCHANGED setting
  /\ \/ setting = "elections" /\ Next /\ UNCHANGED walVars
     \/ setting = "logs" /\ Logging!Next /\ UNCHANGED walVars
     \/ setting = "torn" /\ Torn!Next /\ UNCHANGED vars
     \/ setting = "damaged" /\ Damaged!Next /\ UNCHANGED vars

SettingsSpec == Settings /\ [][NextInSetting]_<<vars, walVars, setting>>

\* What load returns is what was written: all of it from an undamaged file, a
\* beginning or nothing from a damaged one (Wal::load).
LoadIsHonest == Torn!LoadIsHonest

\* What remains of votes that have lost their effect.
Granted ==
  {<<m.from, m.to, m.term>> : m \in {k \in msgs : k.type = "VoteReply" /\ k.granted}}

View ==
  <<ClusterView(node, msgs), store, file, faults, restarts, walVars, setting,
    IF setting = "elections"
    THEN <<Leaders(node, msgs), Granted, [n \in Server |-> node[n].votes]>>
    ELSE <<Acknowledged(msgs)>> >>

===============================================================================
