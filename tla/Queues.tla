------------------------------- MODULE Queues -------------------------------
(***************************************************************************)
(* Queues from which some elements are taken out, wherever they stand.     *)
(* This is SelectSeq with a set for its test, as a recursive function, of  *)
(* which SequenceLemmas proves what the proofs need.                       *)
(***************************************************************************)
EXTENDS Naturals, Sequences

(* What of q is not in S, in its order. *)
Without(q, S) ==
    LET left[i \in 0..Len(q)] ==
            IF i = 0 THEN <<>>
            ELSE IF q[i] \in S THEN left[i - 1]
            ELSE Append(left[i - 1], q[i])
    IN  left[Len(q)]
=============================================================================
