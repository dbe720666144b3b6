---------------------------- MODULE SingleFlight ----------------------------
(***************************************************************************)
(* What a refresh that is coalesced per key promises to its callers: at    *)
(* most one exchange per key is under way, none is begun while a usable    *)
(* result exists, and a caller that waits is answered from a usable        *)
(* result, from its own exchange, or with an error.                        *)
(***************************************************************************)
CONSTANTS Callers, Keys, NoKey

VARIABLES
    asking,      \* caller -> the key it waits for, or NoKey
    exchanging,  \* keys with an exchange under way
    usable       \* keys with a result that is not about to expire

vars == <<asking, exchanging, usable>>

Init == /\ asking = [c \in Callers |-> NoKey]
        /\ exchanging = {}
        /\ usable = {}

Ask(c, k) ==
    /\ asking[c] = NoKey
    /\ k \notin usable
    /\ asking' = [asking EXCEPT ![c] = k]
    /\ UNCHANGED <<exchanging, usable>>

\* A usable result answers the caller.
Share(c) ==
    /\ asking[c] \in usable
    /\ asking' = [asking EXCEPT ![c] = NoKey]
    /\ UNCHANGED <<exchanging, usable>>

StartExchange(c) ==
    /\ asking[c] \in Keys \ (usable \cup exchanging)
    /\ exchanging' = exchanging \cup {asking[c]}
    /\ UNCHANGED <<asking, usable>>

\* The exchange answers the caller that made it. Its result may be short-lived
\* and may displace others.
EndExchange(c) ==
    /\ asking[c] \in exchanging
    /\ exchanging' = exchanging \ {asking[c]}
    /\ usable' \in SUBSET (usable \cup {asking[c]})
    /\ asking' = [asking EXCEPT ![c] = NoKey]

FailExchange(c) ==
    /\ asking[c] \in exchanging
    /\ exchanging' = exchanging \ {asking[c]}
    /\ asking' = [asking EXCEPT ![c] = NoKey]
    /\ UNCHANGED usable

GiveUp(c) ==
    /\ asking[c] # NoKey
    /\ asking' = [asking EXCEPT ![c] = NoKey]
    /\ UNCHANGED <<exchanging, usable>>

Lapse == /\ usable' \in SUBSET usable
         /\ UNCHANGED <<asking, exchanging>>

Next ==
    \/ \E c \in Callers :
        \/ \E k \in Keys : Ask(c, k)
        \/ Share(c) \/ StartExchange(c) \/ EndExchange(c)
        \/ FailExchange(c) \/ GiveUp(c)
    \/ Lapse

Spec == Init /\ [][Next]_vars
=============================================================================
