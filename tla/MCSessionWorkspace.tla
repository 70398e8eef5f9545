------------------------- MODULE MCSessionWorkspace -------------------------
(* SessionWorkspace on small instances.                                      *)
EXTENDS SessionWorkspace, TLC

\* Request slots, session ids and directories are interchangeable.
Symmetry == Permutations(Requests) \cup Permutations(Sessions) \cup Permutations(Dirs)

\* For one request at a time, and one directory.
SessionSymmetry == Permutations(Sessions)

\* What no step reads: the history of a backend nothing points to, and the
\* parked copy of the live session, which the next Park overwrites.
View ==
    LET a == agent
        seen == [a EXCEPT !.hist = [b \in Backends |->
                                      IF b \in HeldBackends(a) THEN a.hist[b] ELSE << >>]]
    IN  << IF a.active = NoSession THEN seen
           ELSE [seen EXCEPT !.sess[a.active].conv = << >>,
                             !.sess[a.active].remote = NoRemote],
           saved, present, line, workspace, closing, req, turns, others, changes, restarts >>
=============================================================================
