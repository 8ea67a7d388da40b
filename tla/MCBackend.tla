----------------------------- MODULE MCBackend ------------------------------
(***************************************************************************)
(* The parts of a backend behind its receive loop: the handler with its    *)
(* turns, pickers and CLI processes, and the chat router with its file.    *)
(* They share no variable, so one run explores each of them by itself:     *)
(* part is the one that moves.                                             *)
(***************************************************************************)
EXTENDS MiniAgent, RouterStore, TLC

VARIABLE part
backendVars == <<allVars, storeVars, part>>

\* Sound: nothing tells two turns, or two chats, apart, and the run has no
\* liveness.
AgentSymmetry == Permutations(Turns) \cup Permutations(Chats)

BackendInit == part \in {"agent", "router"} /\ AgentInit /\ StoreInit

BackendNext ==
    \/ part = "agent" /\ AgentNext /\ UNCHANGED <<storeVars, part>>
    \/ part = "router" /\ StoreNext /\ UNCHANGED <<allVars, part>>

BackendSpec == BackendInit /\ [][BackendNext]_backendVars
=============================================================================
