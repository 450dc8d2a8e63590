----------------------------- MODULE MCAuction -----------------------------
(* Instances of Auction for TLC.                                            *)
EXTENDS Auction, TLC

\* Users and calls are interchangeable.
Symmetric == Permutations(Users) \cup Permutations(Calls)
=============================================================================
