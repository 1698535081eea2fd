------------------------- MODULE UserSessionProperties -------------------------
(***************************************************************************)
(* What is claimed of sessions.                                            *)
(***************************************************************************)
EXTENDS UserSession

(* The type of every variable.                                             *)
TypeOK ==
  /\ pass \in [Users -> Passwords \cup {None}]
  /\ login \in [Users -> BOOLEAN]
  /\ doing \in [Clients -> Ops \cup {"prompt"}]
  /\ believes \in [Clients -> BOOLEAN]
  /\ uid \in [Clients -> Users \cup {None}]
  /\ pw \in [Clients -> Passwords \cup {None}]
  /\ stale \in [Clients -> SUBSET Ops]
  /\ requests \subseteq Request
  /\ replies \subseteq Reply
  /\ disturbed \subseteq Users

(* Nobody is waiting for an answer about the account.                      *)
Quiet(u) == \A c \in Clients : uid[c] = u => doing[c] \notin Ops

SessionHolders(u) == {c \in Clients : believes[c] /\ uid[c] = u}

(* A user is logged in at the server exactly when one client believes that *)
(* it is: two clients never share a session, none is forgotten, and none   *)
(* is imagined, unless a fault struck this very account.                   *)
SessionsAgree ==
  \A u \in Users \ disturbed : Quiet(u) =>
    Cardinality(SessionHolders(u)) = IF login[u] THEN 1 ELSE 0

(* The password a logged-in client sends with its requests is the one on   *)
(* file, whoever else registers, unregisters or guesses in the meantime.   *)
PasswordsAgree ==
  \A c \in Clients : believes[c] /\ doing[c] = "prompt" /\ uid[c] \notin disturbed =>
    pass[uid[c]] = pw[c]
===============================================================================
