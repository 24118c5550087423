----------------------------- MODULE MCAccounts -----------------------------
(* Small instances of Accounts for TLC: both addresses have the same local part. *)
EXTENDS Accounts

CONSTANTS n1, n2, n3
MCUsernames == {n1, n2, n3}
MCChosenNames == {n1, n2}
MCCandidates == [e \in Emails |-> <<n1, n2, n3>>]
MCLinkLife == [k \in Kinds |-> IF k = "verify" THEN 1 ELSE 0]
=============================================================================
