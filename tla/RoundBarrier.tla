---------------------------- MODULE RoundBarrier ----------------------------
(***************************************************************************)
(* What TaskCtrl promises its users: in every round each worker does its   *)
(* part once, and the round ends when the last one has.                    *)
(***************************************************************************)
EXTENDS Integers
CONSTANT Workers
VARIABLES parts,    \* parts done by each worker
          rounds    \* rounds ended

Init == parts = [w \in Workers |-> 0] /\ rounds = 0

DoPart(w) ==
    /\ parts[w] = rounds
    /\ parts' = [parts EXCEPT ![w] = @ + 1]
    /\ UNCHANGED rounds

EndRound ==
    /\ \A w \in Workers : parts[w] = rounds + 1
    /\ rounds' = rounds + 1
    /\ UNCHANGED parts

Next == (\E w \in Workers : DoPart(w)) \/ EndRound

Spec == Init /\ [][Next]_<<parts, rounds>>
=============================================================================
