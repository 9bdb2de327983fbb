-------------------------- MODULE DocumentDelivery --------------------------
(***************************************************************************)
(* What the download protocol promises about the documents of one bank     *)
(* transaction, and nothing about how: the bank hands responsibility over  *)
(* to the client exactly once, never while the client has no whole copy,   *)
(* and the client makes the documents visible only after that.             *)
(***************************************************************************)
CONSTANT Transactions

VARIABLES
    copy,   \* copy[t]: "none", "held" (whole, not visible), "delivered"
    taken   \* transactions the bank regards as retrieved

vars == <<copy, taken>>

Init ==
    /\ copy = [t \in Transactions |-> "none"]
    /\ taken = {}

(* The client completes a local copy; it may do so more than once. *)
Hold(t) ==
    /\ copy[t] = "none" /\ t \notin taken
    /\ copy' = [copy EXCEPT ![t] = "held"]
    /\ UNCHANGED taken

(* Only a copy the bank does not rely on may be given up. *)
Drop(t) ==
    /\ copy[t] = "held" /\ t \notin taken
    /\ copy' = [copy EXCEPT ![t] = "none"]
    /\ UNCHANGED taken

(* The bank hands over. *)
Take(t) ==
    /\ copy[t] = "held" /\ t \notin taken
    /\ taken' = taken \cup {t}
    /\ UNCHANGED copy

Deliver(t) ==
    /\ copy[t] = "held" /\ t \in taken
    /\ copy' = [copy EXCEPT ![t] = "delivered"]
    /\ UNCHANGED taken

Next == \E t \in Transactions : Hold(t) \/ Drop(t) \/ Take(t) \/ Deliver(t)

Spec == Init /\ [][Next]_vars
=============================================================================
