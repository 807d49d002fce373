-------------------------------- MODULE Disk --------------------------------
(***************************************************************************)
(* What a crash leaves on disk when it interrupts a write the transition    *)
(* core staged: the order in which FileEngineAdapter carries a write out.   *)
(***************************************************************************)
EXTENDS Transition

\* Recovery reports everything committed as applied.
Recovered(d) == [d EXCEPT !.applied = d.commit]

\* Fault: the log is cut to the snapshot before the new entries are written.
CutFirst(d, target) ==
  {d, target, [d EXCEPT !.log = <<>>, !.commit = SnapshotIndex(d)]}

\* The states an interrupted ordinary write can leave: the vote and term are
\* written first, then the log is cut to the common prefix, then the new
\* entries are appended one by one, then the commit index is raised.
InterruptedUpdate(d, target) ==
  LET meta   == [d EXCEPT !.term = target.term, !.votedFor = target.votedFor]
      common == Max({k \in 0 .. Len(d.log) :
                       k <= Len(target.log)
                         /\ SubSeq(d.log, 1, k) = SubSeq(target.log, 1, k)})
  IN {d, meta, target} \cup
       {[meta EXCEPT !.log = SubSeq(target.log, 1, k)] :
          k \in common .. Len(target.log)}

\* Compaction and installation replace the snapshot in one atomic step; an
\* installation writes the vote and term before it.
Interrupted(d, write) ==
  LET target == write.target
  IN CASE write.kind = "StateUpdate" -> InterruptedUpdate(d, target)
       [] write.kind = "LocalCompaction" -> {d, target}
       [] write.kind = "SnapshotInstall" ->
            {d, target, [d EXCEPT !.term = target.term,
                                  !.votedFor = target.votedFor]}

===============================================================================
