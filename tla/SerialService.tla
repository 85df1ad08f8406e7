---------------------------- MODULE SerialService ----------------------------
(***************************************************************************)
(* What the GPU endpoints promise their clients: one client is served at a *)
(* time, only the client being served (or one answered from a cache) gets  *)
(* an answer, it gets at most one, and whoever is done gets nothing more.  *)
(* A client lost while it is served may keep its turn.                     *)
(***************************************************************************)
EXTENDS Naturals

CONSTANTS Clients, Nobody

VARIABLES owner,     \* the client being served
          phase,     \* absent, pending, served, gone or lost
          answered   \* the clients that have had their answer

svars == <<owner, phase, answered>>

Start == /\ owner = Nobody
         /\ phase = [c \in Clients |-> "absent"]
         /\ answered = {}

Submit(c) == /\ phase[c] = "absent"
             /\ phase' = [phase EXCEPT ![c] = "pending"]
             /\ UNCHANGED <<owner, answered>>

Grant(c) == /\ phase[c] = "pending" /\ owner = Nobody
            /\ owner' = c
            /\ phase' = [phase EXCEPT ![c] = "served"]
            /\ UNCHANGED answered

Answer(c) == /\ owner = c /\ phase[c] = "served" /\ c \notin answered
             /\ answered' = answered \cup {c}
             /\ UNCHANGED <<owner, phase>>

\* The service is over, with the answer as its last act or without.
Finish(c) == /\ owner = c /\ phase[c] = "served"
             /\ owner' = Nobody
             /\ phase' = [phase EXCEPT ![c] = "gone"]
             /\ \/ UNCHANGED answered
                \/ c \notin answered /\ answered' = answered \cup {c}

\* The client being served goes away and keeps its turn.
Lose(c) == /\ owner = c /\ phase[c] = "served"
           /\ phase' = [phase EXCEPT ![c] = "lost"]
           /\ UNCHANGED <<owner, answered>>

\* The client leaves before its turn, or a cache answers it.
Withdraw(c) == /\ phase[c] = "pending"
               /\ phase' = [phase EXCEPT ![c] = "gone"]
               /\ answered' \in {answered, answered \cup {c}}
               /\ UNCHANGED owner

Step == \E c \in Clients : \/ Submit(c) \/ Grant(c) \/ Answer(c)
                           \/ Finish(c) \/ Lose(c) \/ Withdraw(c)

ServiceSpec == Start /\ [][Step]_svars
=============================================================================
