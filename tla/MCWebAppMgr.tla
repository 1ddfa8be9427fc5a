---------------------------- MODULE MCWebAppMgr ----------------------------
(***************************************************************************)
(* Values for the constants of WebAppMgr.  Window ids start above the load *)
(* types; 1 ("this container") and 2 (a new tab) stand for the load types, *)
(* which the kernel tells apart from each other no further.                *)
(***************************************************************************)
EXTENDS WebAppMgr

MCContainers == {6, 7}
MCOneContainer == {6}
MCOpenTypes == {1, 2}

\* CanReap is the guard of the steps that Fairness is about, the UI's aside.
GuardsAreRight == CanReap <=> kernel = "up" /\ ENABLED (Sigchld \/ \E a \in Apps : QuitOnClose(a))
=============================================================================
