----------------------------- MODULE MCNetwork -----------------------------
(***************************************************************************)
(* Values for Network: two web apps that use the same URL id, and one of   *)
(* them fetches a second URL.                                              *)
(***************************************************************************)
EXTENDS Network

MCFetches == {[app |-> 1024, url |-> 0], [app |-> 1025, url |-> 0]}
MCThreeFetches == MCFetches \cup {[app |-> 1024, url |-> 1]}

\* CanStep is right about when the actions of FairSpec can be taken.
Step == \/ Runs \/ WaitEnds \/ DataReadable \/ PostedCall \/ CookieAnswers
        \/ \E f \in Fetches : Finished(f)
GuardsAreRight == CanStep <=> ENABLED Step
=============================================================================
