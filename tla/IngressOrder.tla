------------------------------ MODULE IngressOrder ------------------------------
(***************************************************************************)
(* What the durable ingress promises a chat: its messages enter the agent  *)
(* at most once and one at a time, each only when everything the chat said *)
(* before it is settled.  This is the "hard FIFO barrier" of               *)
(* agent/lib/telegram-ingress-repository.ts.                               *)
(***************************************************************************)
EXTENDS Naturals

CONSTANTS
    Updates,    \* update ids
    Queue       \* the chat/topic of each update

VARIABLE phase  \* where each update is

Init == phase = [u \in Updates |-> "absent"]

Before(u) == {e \in Updates : Queue[e] = Queue[u] /\ e < u}

Accept(u) ==
    /\ phase[u] = "absent"
    /\ phase' = [phase EXCEPT ![u] = "waiting"]

Enter(u) ==
    /\ phase[u] = "waiting"
    /\ \A e \in Before(u) : phase[e] \in {"absent", "settled"}
    /\ \A v \in Updates : Queue[v] = Queue[u] => phase[v] # "entered"
    /\ phase' = [phase EXCEPT ![u] = "entered"]

Settle(us) ==
    /\ \A u \in us : phase[u] \in {"waiting", "entered"}
    /\ phase' = [u \in Updates |-> IF u \in us THEN "settled" ELSE phase[u]]

Next ==
    \/ \E u \in Updates : Accept(u) \/ Enter(u)
    \/ \E us \in SUBSET Updates : Settle(us)

Spec == Init /\ [][Next]_phase

=============================================================================
