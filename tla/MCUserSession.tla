----------------------------- MODULE MCUserSession -----------------------------
(* UserSession for TLC: users, passwords and clients are interchangeable.  *)
EXTENDS UserSessionProperties, TLC

SessionSymmetry ==
  Permutations(Users) \cup Permutations(Passwords) \cup Permutations(Clients)
===============================================================================
