-------------------------------- MODULE Lists --------------------------------
(***************************************************************************)
(* What the models say of the linked lists of the toolkit.  A selection is *)
(* named by a set and computed by a recursive function: this is the form   *)
(* the proofs can use.                                                     *)
(***************************************************************************)
EXTENDS Naturals, Sequences

\* The elements of list that are in S, in their order.
Only(list, S) ==
  LET f[i \in 0..Len(list)] == IF i = 0 THEN <<>>
                               ELSE IF list[i] \in S THEN Append(f[i - 1], list[i]) ELSE f[i - 1]
  IN  f[Len(list)]
=============================================================================
