---------------------------- MODULE MCJobQueue ----------------------------
(***************************************************************************)
(* Finite instances of JobQueue for TLC; the configurations give the       *)
(* constants.                                                              *)
(***************************************************************************)
EXTENDS JobQueue

\* Workers that want a second key may wait for each other in a circle.
SecondKeys == IF Keys = {} THEN {} ELSE Keys \ {CHOOSE key \in Keys : TRUE}

UsesSecondKey ==
    \/ \E j \in Jobs : draft[j].key \in SecondKeys
    \/ \E s \in Sessions : wanted[s] \in SecondKeys

\* Bound of JobQueueDrain.cfg: a second key is used only where no request and
\* no crash has happened, neither of which anybody is obliged to do.
Focus ==
    UsesSecondKey =>
        aborts = 0 /\ \A r \in Requests : req[r] = NoRequest /\ wanted[r] = NoKey
=============================================================================
