------------------------------ MODULE MCCheckout -----------------------------
(* Instances of Checkout for TLC. *)
EXTENDS Checkout, TLC

Symmetry ==
    Permutations(Invoices) \cup Permutations(Charges) \cup Permutations(Tasks)
        \cup Permutations(Terms) \cup Permutations(Transfers)
=============================================================================
