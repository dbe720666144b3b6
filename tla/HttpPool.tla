------------------------------ MODULE HttpPool ------------------------------
(***************************************************************************)
(* The shared HTTP clients, one for each configuration, and the two clean-  *)
(* ups that close them: that of the server's lifespan, and the task a       *)
(* signal handler starts, which does not end the server.                    *)
(***************************************************************************)
EXTENDS Integers

CONSTANTS ClientKeys,   \* configurations: base URL, timeouts, class
          MaxClients    \* bound on the clients made

ASSUME PoolAssumption == MaxClients \in Nat

Cleaners == {"lifespan", "signal"}
NoClient == 0
Clients == 1..MaxClients

VARIABLES
    clients,     \* key -> the client in the pool
    lastMade,    \* the number of clients made
    open,        \* clients not closed
    unclosable,  \* history: clients whose close failed
    late,        \* history: clients made after a clean-up had begun
    isClosing,   \* a close_all is running
    cleaner,     \* clean-up -> where it is
    toClose,     \* clean-up -> clients of its close_all still to be closed
    cleanupDone, \* _cleanup_done
    lastGot      \* the client handed out last

poolVars == <<clients, lastMade, open, unclosable, late, isClosing, cleaner, toClose,
              cleanupDone, lastGot>>

\* Types; only the close_all that is running has clients to close.
PoolTypeOK ==
    /\ clients \in [ClientKeys -> Clients \cup {NoClient}]
    /\ lastMade \in 0..MaxClients /\ open \subseteq 1..lastMade
    /\ unclosable \subseteq open /\ late \subseteq 1..lastMade
    /\ isClosing \in BOOLEAN /\ cleanupDone \in BOOLEAN
    /\ cleaner \in [Cleaners -> {"idle", "closing", "closed", "over"}]
    /\ toClose \in [Cleaners -> SUBSET (1..lastMade)]
    /\ isClosing <=> \E c \in Cleaners : cleaner[c] = "closing"
    /\ lastGot \in 0..lastMade

PoolInit ==
    /\ clients = [k \in ClientKeys |-> NoClient]
    /\ lastMade = 0 /\ open = {} /\ unclosable = {} /\ late = {}
    /\ isClosing = FALSE /\ cleanupDone = FALSE
    /\ cleaner = [c \in Cleaners |-> "idle"]
    /\ toClose = [c \in Cleaners |-> {}]
    /\ lastGot = NoClient

\* get_client: the lock is never waited for, as nothing is awaited under it.
GetClient(k) ==
    /\ IF clients[k] # NoClient
       THEN lastGot' = clients[k] /\ UNCHANGED <<clients, lastMade, open, late>>
       ELSE /\ lastMade < MaxClients /\ lastMade' = lastMade + 1
            /\ clients' = [clients EXCEPT ![k] = lastMade']
            /\ open' = open \cup {lastMade'}
            /\ late' = IF \A c \in Cleaners : cleaner[c] = "idle" THEN late ELSE late \cup {lastMade'}
            /\ lastGot' = lastMade'
    /\ UNCHANGED <<unclosable, isClosing, cleaner, toClose, cleanupDone>>

InPool == {clients[k] : k \in ClientKeys} \ {NoClient}

\* A close_all does nothing while another runs.
Closes == ~isClosing

\* A clean-up that was not done before begins with close_all.
BeginCleanup(c) ==
    /\ cleaner[c] = "idle" /\ ~cleanupDone
    /\ IF Closes /\ InPool # {}
       THEN /\ isClosing' = TRUE
            /\ toClose' = [toClose EXCEPT ![c] = InPool]
            /\ cleaner' = [cleaner EXCEPT ![c] = "closing"]
       ELSE /\ cleaner' = [cleaner EXCEPT ![c] = "closed"]
            /\ UNCHANGED <<isClosing, toClose>>
    /\ UNCHANGED <<clients, lastMade, open, unclosable, late, cleanupDone, lastGot>>

\* One that was, is over.
SkipCleanup(c) ==
    /\ cleaner[c] = "idle" /\ cleanupDone
    /\ cleaner' = [cleaner EXCEPT ![c] = "over"]
    /\ UNCHANGED <<clients, lastMade, open, unclosable, late, isClosing, toClose, cleanupDone, lastGot>>

\* An error is logged and the loop goes on.
Remaining(c, n, closed) == toClose[c] \ {n}

\* aclose of one client of the list made at the start, while requests go on.
CloseOne(c, n, closed) ==
    /\ cleaner[c] = "closing" /\ n \in toClose[c]
    /\ toClose' = [toClose EXCEPT ![c] = Remaining(c, n, closed)]
    /\ open' = IF closed THEN open \ {n} ELSE open
    /\ unclosable' = IF closed THEN unclosable ELSE unclosable \cup {n}
    /\ UNCHANGED <<clients, lastMade, late, isClosing, cleaner, cleanupDone, lastGot>>

\* Fault: closed clients stay in the pool.
ClearedNothing == clients

\* The pool is cleared, of clients made meanwhile too.
ClearedClients == [k \in ClientKeys |-> NoClient]

EndCloseAll(c) ==
    /\ cleaner[c] = "closing" /\ toClose[c] = {}
    /\ clients' = ClearedClients
    /\ isClosing' = FALSE
    /\ cleaner' = [cleaner EXCEPT ![c] = "closed"]
    /\ UNCHANGED <<lastMade, open, unclosable, late, toClose, cleanupDone, lastGot>>

\* The auth manager is closed, and the clean-up is done.
EndCleanup(c) ==
    /\ cleaner[c] = "closed"
    /\ cleanupDone' = TRUE
    /\ cleaner' = [cleaner EXCEPT ![c] = "over"]
    /\ UNCHANGED <<clients, lastMade, open, unclosable, late, isClosing, toClose, lastGot>>

PoolNext ==
    \/ \E k \in ClientKeys : GetClient(k)
    \/ \E c \in Cleaners :
        \/ BeginCleanup(c) \/ SkipCleanup(c) \/ EndCloseAll(c) \/ EndCleanup(c)
        \/ \E n \in toClose[c], closed \in BOOLEAN : CloseOne(c, n, closed)

PoolSpec == PoolInit /\ [][PoolNext]_poolVars

-----------------------------------------------------------------------------
\* Outside of a close_all, whoever asks gets a client that works, also after a
\* clean-up that did not end the server.
GetsOpenClient ==
    [][lastGot' # NoClient /\ ~isClosing /\ cleaner' = cleaner => lastGot' \in open']_poolVars

\* When the clean-ups have ended, the clients made before the first of them are closed,
\* although one of them may have found the other at work and one client may have failed
\* to close. ("All HTTP clients closed successfully".)
CleanupClosesAll ==
    (\E c \in Cleaners : cleaner[c] = "over") /\ (\A c \in Cleaners : cleaner[c] \in {"idle", "over"})
        => open \subseteq late \cup unclosable

\* A clean-up closes what there was, and what there is afterwards works.
PoolOutlivesCleanup == []CleanupClosesAll /\ GetsOpenClient
=============================================================================
