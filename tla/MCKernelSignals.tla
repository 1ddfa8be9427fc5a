-------------------------- MODULE MCKernelSignals --------------------------
(* Values for the constants of KernelSignals, as in MCWebAppMgr. *)
EXTENDS KernelSignals

MCOneContainer == {6}
MCOpenTypes == {1, 2}
=============================================================================
