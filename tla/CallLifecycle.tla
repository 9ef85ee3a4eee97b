---------------------------- MODULE CallLifecycle ----------------------------
(***************************************************************************)
(* What the action state promises about one governed call, whatever the    *)
(* number of processes that work on the state file: a call identity is     *)
(* admitted once; it is either closed before anything was sent, or sent    *)
(* once and then answered; a call nobody can answer for stays `unknown`    *)
(* until an operator answers for it; a closed call never moves again.      *)
(*                                                                         *)
(* Several calls move together when one write closes or abandons them.     *)
(***************************************************************************)
CONSTANT Calls

VARIABLE phase

CallPhases == {"new", "held", "sent", "unknown", "closed_unsent", "closed_sent"}

Init == phase = [c \in Calls |-> "new"]

Move(C, from, to) ==
    /\ \A c \in C : phase[c] \in from
    /\ phase' = [c \in Calls |-> IF c \in C THEN to ELSE phase[c]]

Admit(c)  == Move({c}, {"new"}, "held")
Send(c)   == Move({c}, {"held"}, "sent")
Refuse(C) == Move(C, {"held"}, "closed_unsent")
Lose(C)   == Move(C, {"held", "sent"}, "unknown")
Answer(c) == Move({c}, {"sent", "unknown"}, "closed_sent")

Next == \/ \E c \in Calls : Admit(c) \/ Send(c) \/ Answer(c)
        \/ \E C \in SUBSET Calls : Refuse(C) \/ Lose(C)

Spec == Init /\ [][Next]_phase

TypeOK == phase \in [Calls -> CallPhases]
=============================================================================
