-------------------------- MODULE MCRenewalBilling --------------------------
(* Small instances of RenewalBilling for TLC. *)
EXTENDS RenewalBilling, TLC

\* Handlers are alike, and so are the ids of each table.
BillingSymmetry ==
    Permutations(Handlers) \cup Permutations(Sessions)
        \cup Permutations(Payments) \cup Permutations(Checkouts)
=============================================================================
