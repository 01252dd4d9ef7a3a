---------------------------- MODULE MCExpertEvents --------------------------
(* Instances of ExpertEvents for TLC.                                      *)
EXTENDS ExpertEvents, TLC

Symmetry == Permutations(Tasks) \cup Permutations(Events)

\* The runtime and the orchestrator's own steps share no variable, and the
\* events of a run that posted none or was canceled are no others: it is
\* enough to let the orchestrator move, or start again, when every run that
\* came has posted its event and is over.
MovesAfterRuns ==
    moves > 0 => \A r \in RunId :
        \/ pc[r] = "unused"
        \/ /\ pc[r] = "over" /\ ~canceled[r]
           /\ \E q \in posted : q.run = r
=============================================================================
