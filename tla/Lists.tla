------------------------------- MODULE Lists -------------------------------
(***************************************************************************)
(* Sums over sequences of numbers and selections from sequences, as        *)
(* recursive functions of the position: the proofs unfold them one         *)
(* position at a time.                                                     *)
(***************************************************************************)
EXTENDS Integers, Sequences

(* Running(s)[n] is the sum of the first n numbers of s. *)
Running(s) ==
    LET sum[n \in 0..Len(s)] == IF n = 0 THEN 0 ELSE sum[n - 1] + s[n]
    IN  sum

SumOf(s) == Running(s)[Len(s)]

(* Keeping(s, S)[n] is what of the first n elements of s is in S, in order. *)
Keeping(s, S) ==
    LET kept[n \in 0..Len(s)] ==
            IF n = 0 THEN <<>>
            ELSE IF s[n] \in S THEN Append(kept[n - 1], s[n]) ELSE kept[n - 1]
    IN  kept

Keep(s, S) == Keeping(s, S)[Len(s)]
=============================================================================
