----------------------------- MODULE DurableLog -----------------------------
(***************************************************************************)
(* What a node's directory promises across crashes, failed writes and       *)
(* reopens, whatever files it is spread over: a term and a vote, a log, and  *)
(* a commit index below which the log never changes.                        *)
(***************************************************************************)
EXTENDS Naturals, Sequences

CONSTANTS
  Voter,     \* whom a vote can name
  NoVote     \* no vote cast

VARIABLE
  held       \* [term, vote, log, commit]: log from index 1, committed through commit

\* The steps from what is held, h, to what is held next, g.

\* A consensus term and vote; the term never moves back.
Decide(h, g) ==
  /\ g.term >= h.term
  /\ g.vote \in Voter \cup {NoVote}
  /\ g.log = h.log /\ g.commit = h.commit

AppendOne(h, g) ==
  /\ Len(g.log) = Len(h.log) + 1
  /\ SubSeq(g.log, 1, Len(h.log)) = h.log
  /\ g = [h EXCEPT !.log = g.log]

\* Only what is not committed can be dropped.
Cut(h, g) ==
  /\ Len(g.log) \in h.commit .. Len(h.log) - 1
  /\ g = [h EXCEPT !.log = SubSeq(h.log, 1, Len(g.log))]

\* Committing can raise the term to the committed entry's, keeping the vote.
Raised(h, entry) == IF entry.term > h.term THEN entry.term ELSE h.term

Commit(h, g) ==
  /\ g.commit \in h.commit + 1 .. Len(h.log)
  /\ g = [h EXCEPT !.commit = g.commit, !.term = Raised(h, h.log[g.commit])]

\* A snapshot that extends what is committed replaces the log, or the part
\* of it up to the snapshot.
Install(h, g) ==
  /\ g.commit \in h.commit + 1 .. Len(g.log)
  /\ SubSeq(g.log, 1, h.commit) = SubSeq(h.log, 1, h.commit)
  /\ \/ Len(g.log) = g.commit
     \/ /\ Len(g.log) = Len(h.log)
        /\ SubSeq(g.log, g.commit, Len(g.log)) = SubSeq(h.log, g.commit, Len(h.log))
  /\ g = [h EXCEPT !.log = g.log, !.commit = g.commit, !.term = Raised(h, g.log[g.commit])]

\* An empty directory, or one an earlier process left.
Init ==
  /\ held.term \in Nat \ {0}
  /\ held.vote \in Voter \cup {NoVote}
  /\ held.commit \in 0 .. Len(held.log)

Next ==
  \E h \in {held}, g \in {held'} :
    Decide(h, g) \/ AppendOne(h, g) \/ Cut(h, g) \/ Commit(h, g) \/ Install(h, g)

Spec == Init /\ [][Next]_held

===============================================================================
