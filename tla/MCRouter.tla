----------------------------- MODULE MCRouter -----------------------------
\* Values for the constants of Router: the network process, the UI and a web
\* app that fetch, answer, navigate, tell each other things, and write where
\* they may not
EXTENDS Router, TLC

MCProcs == {2, 3, 1024}
MCMortal == {1024}
MCMaxSends == 2 :> 2 @@ 3 :> 1 @@ 1024 :> 1
MCSends ==
    {[from |-> 2, dst |-> 1024, type |-> "RETURN_URL", len |-> 1],
     [from |-> 2, dst |-> 1024, type |-> "RETURN_URL_METADATA", len |-> 0],
     [from |-> 3, dst |-> 0, type |-> "NEW_URL", len |-> 1],
     [from |-> 3, dst |-> 1024, type |-> "WEBAPP_MSG", len |-> 0],
     [from |-> 1024, dst |-> 2, type |-> "FETCH_URL", len |-> 1],
     [from |-> 1024, dst |-> 3, type |-> "RETURN_URL", len |-> 0]}

\* CanStep is what it is meant to be: the prover knows no ENABLED, so
\* NothingIsStuck speaks of guards.
Step ==
    \/ \E p \in Procs : WriteUnit(p) \/ ReadUnit(p) \/ Serve(p) \/ AioCompletes(p) \/ Sigchld(p)
    \/ ReadPayload \/ ReadsTooLittle \/ KernelWrites
GuardsAreRight == CanStep <=> ENABLED Step
=============================================================================
