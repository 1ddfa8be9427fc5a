----------------------------- MODULE UrlStream -----------------------------
(***************************************************************************)
(* What the network process promises a web app for each URL it fetches:    *)
(* one MSG_RETURN_URL_METADATA, then any number of MSG_RETURN_URL with     *)
(* data, then one empty MSG_RETURN_URL as the end, and nothing after it.   *)
(***************************************************************************)
EXTENDS Naturals

CONSTANT Fetches  \* the (web app, URL id) pairs that may be fetched

VARIABLES
    phase,   \* how far the answer to a fetch has come
    chunks   \* number of data messages sent for a fetch

vars == <<phase, chunks>>

Init ==
    /\ phase = [f \in Fetches |-> "silent"]
    /\ chunks = [f \in Fetches |-> 0]

Meta(f) ==
    /\ phase[f] = "silent"
    /\ phase' = [phase EXCEPT ![f] = "open"]
    /\ UNCHANGED chunks

Data(f) ==
    /\ phase[f] = "open"
    /\ chunks' = [chunks EXCEPT ![f] = @ + 1]
    /\ UNCHANGED phase

End(f) ==
    /\ phase[f] = "open"
    /\ phase' = [phase EXCEPT ![f] = "ended"]
    /\ UNCHANGED chunks

\* The metadata may be sent together with the message that needs it first.
MetaAndData(f) ==
    /\ phase[f] = "silent"
    /\ phase' = [phase EXCEPT ![f] = "open"]
    /\ chunks' = [chunks EXCEPT ![f] = 1]

MetaAndEnd(f) ==
    /\ phase[f] = "silent"
    /\ phase' = [phase EXCEPT ![f] = "ended"]
    /\ UNCHANGED chunks

Next == \E f \in Fetches :
            Meta(f) \/ Data(f) \/ End(f) \/ MetaAndData(f) \/ MetaAndEnd(f)

Spec == Init /\ [][Next]_vars
=============================================================================
