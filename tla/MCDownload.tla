---------------------------- MODULE MCDownload ----------------------------
\* Values for the constants of Download: web apps 1 and 2, with ids that make
\* job numbers adjacent
EXTENDS Download

MCWebApps == {1, 2}
MCFetches == {[app |-> 1, url |-> 1], [app |-> 2, url |-> 1]}

\* CanStep is right about when the actions of FairSpec can be taken.
Step == \/ \E f \in Fetches : HandleMessage(f)
        \/ \E a \in WebApps : WriteFile(a)
        \/ HandleDownloadInfo
GuardsAreRight == CanStep <=> ENABLED Step
=============================================================================
