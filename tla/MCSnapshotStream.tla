--------------------------- MODULE MCSnapshotStream ---------------------------
(* Instances of the snapshot stream for TLC: with the given constants frames   *)
(* of several sessions overlap; otherwise one session at a time, and fair.     *)
EXTENDS SnapshotStream

VARIABLE setting   \* which of them; never changes

TwoSnapshots == <<2, 2>>

OneSession == INSTANCE SnapshotStream WITH Ordered <- TRUE, MaxResets <- MaxResets + 1

Settings == Init /\ setting \in {"given", "one session"}

NextInSetting ==
  /\ UNCHANGED setting
  /\ \/ setting = "given" /\ Next
     \/ setting = "one session" /\ OneSession!Next

SettingsSpec ==
  /\ Settings /\ [][NextInSetting]_<<vars, setting>>
  /\ \A t \in Term :
       /\ WF_vars(setting = "one session" /\ OneSession!Probe(t))
       /\ WF_vars(setting = "one session" /\ OneSession!Heartbeat(t))
       /\ WF_vars(setting = "one session" /\ OneSession!DeliverRequest(t, 1))
       /\ WF_vars(setting = "one session" /\ OneSession!DeliverReply(t, 1))

\* The follower ends up with the newest snapshot of the last leader, whatever
\* was lost on the way (heartbeat, on_snapshot, on_snapshot_reply).
TransferCompletes ==
  <>[](setting = "one session" /\ leader[highest] # Nil =>
         leader[highest].match >= leader[highest].newest)
===============================================================================
