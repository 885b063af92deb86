--------------------------- MODULE CommittedReply ---------------------------
(***************************************************************************)
(* What a run promises its adapter (ADR 0027, re-delivery on request): an  *)
(* input is given one reply, once and for all, before anything of it is    *)
(* released; asking again, at any time and across any crash, releases that *)
(* same reply.                                                             *)
(***************************************************************************)
CONSTANTS Inputs,   \* the IDs of the inputs
          None      \* no reply yet

VARIABLES reply,    \* the reply each input was given
          released  \* the <<input, reply>> pairs that left the engine

Init == reply = [i \in Inputs |-> None] /\ released = {}

\* An input is given its reply: the durable commit of its group.
Commit(i) ==
    /\ reply[i] = None
    /\ reply'[i] # None
    /\ reply' = [reply EXCEPT ![i] = reply'[i]]
    /\ UNCHANGED released

\* A committed reply is released, for the first time or again.
Deliver(i) ==
    /\ reply[i] # None
    /\ released' = released \cup {<<i, reply[i]>>}
    /\ UNCHANGED reply

Next == \E i \in Inputs : Commit(i) \/ Deliver(i)

Spec == Init /\ [][Next]_<<reply, released>>
=============================================================================
