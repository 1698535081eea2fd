---------------------------- MODULE MCAuctionServer ----------------------------
(* AuctionServer for TLC: users and children are interchangeable.          *)
EXTENDS AuctionServerProperties, TLC

UserAndChildSymmetry == Permutations(Users) \cup Permutations(Children)
===============================================================================
