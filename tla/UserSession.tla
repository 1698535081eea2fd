------------------------------ MODULE UserSession ------------------------------
(***************************************************************************)
(* Sessions: what the clients believe about being logged in, against the   *)
(* login.txt files of the server, over UDP.                                *)
(*                                                                         *)
(* A client is a prompt: it sends one LIN, LOU or UNR and waits.  Each     *)
(* request has a socket of its own, closed when the client stops waiting,  *)
(* so that an answer that comes later finds nobody: such a request has no  *)
(* sender any more, its `from' is None.  The server serves one datagram at *)
(* a time; it alone writes pass.txt and login.txt, so a handler is one     *)
(* step (AuctionServer has its file accesses).                             *)
(***************************************************************************)
EXTENDS Integers, FiniteSets

CONSTANTS
  Users,       \* the UIDs
  Passwords,
  Clients,     \* the running user programs
  None,        \* no password, no user, no sender, no operation
  Faults,      \* "lose": datagrams get lost; "late": an answer may take longer
               \* than the client waits; "repeat": a request may be served
               \* twice; "kill": a client may be killed
  MaxStray     \* bound: requests nobody waits for any more in the network

Ops == {"LIN", "LOU", "UNR"}

(* OK, and REG to a login that registers; UNR: the user is not registered. *)
Statuses == {"OK", "REG", "NOK", "UNR"}
Granted  == {"OK", "REG"}

Request == [op : Ops, uid : Users, pw : Passwords, from : Clients \cup {None}]
Reply   == [status : Statuses, to : Clients]

ASSUME SessionAssumption ==
  /\ None \notin Users \cup Passwords \cup Clients \cup Ops
  /\ Faults \subseteq {"lose", "late", "repeat", "kill"}
  /\ MaxStray \in Nat

VARIABLES
  pass,        \* server: users/<uid>/pass.txt, or None
  login,       \* server: whether users/<uid>/login.txt exists
  doing,       \* client: "prompt", or the operation it waits for
  believes,    \* client: user_loggedin
  uid, pw,     \* client: the arrays uid and password of main
  stale,       \* client: the operations whose success a buffer still holds
  requests,    \* the datagrams on their way to the server
  replies,     \* the datagrams on their way to clients that wait
  disturbed    \* history: the accounts on which a fault may have told

serverVars  == <<pass, login>>
clientVars  == <<doing, believes, uid, pw, stale>>
networkVars == <<requests, replies>>
vars == <<serverVars, clientVars, networkVars, disturbed>>
-------------------------------------------------------------------------------
(* The server.                                                             *)

(* What becomes of pass.txt and login.txt of a user, and the status that   *)
(* is sent: handle_login, handle_logout and handle_unregister.             *)
Outcome(p, l, s) == [pass |-> p, login |-> l, status |-> s]

(* Mutant: a second login is not refused, and change_user_login toggles.   *)
LoginToggles(m) ==
  LET p == pass[m.uid]
      l == login[m.uid]
  IN  IF p = None THEN Outcome(m.pw, TRUE, "REG")
      ELSE IF p = m.pw THEN Outcome(p, ~l, "OK")
      ELSE Outcome(p, l, "NOK")

(* Mutant: the password of a user who is not logged in is written anew.    *)
LoginRegistersAgain(m) ==
  LET l == login[m.uid]
  IN  IF l THEN Outcome(m.pw, l, "NOK") ELSE Outcome(m.pw, TRUE, "OK")

HandleLogin(m) ==
  LET p == pass[m.uid]
      l == login[m.uid]
  IN  IF p = None THEN Outcome(m.pw, TRUE, "REG")
      ELSE IF p = m.pw /\ ~l THEN Outcome(p, TRUE, "OK")
      ELSE Outcome(p, l, "NOK")

HandleLogout(m) ==
  LET p == pass[m.uid]
      l == login[m.uid]
  IN  IF p = None THEN Outcome(p, l, "UNR")
      ELSE IF p = m.pw /\ l THEN Outcome(p, FALSE, "OK")
      ELSE Outcome(p, l, "NOK")

HandleUnregister(m) ==
  LET p == pass[m.uid]
      l == login[m.uid]
  IN  IF p = m.pw /\ l THEN Outcome(None, FALSE, "OK") ELSE Outcome(p, l, "NOK")

Handle(m) ==
  CASE m.op = "LIN" -> HandleLogin(m)
    [] m.op = "LOU" -> HandleLogout(m)
    [] m.op = "UNR" -> HandleUnregister(m)

Strays == {m \in requests : m.from = None}

(* A request is served and answered; nothing hears the answer to a stray.  *)
(* A datagram that the network repeats stays, to be served again.          *)
Serve(m) ==
  LET o == Handle(m)
  IN
  /\ pass' = [pass EXCEPT ![m.uid] = o.pass]
  /\ login' = [login EXCEPT ![m.uid] = o.login]
  /\ replies' = IF m.from = None THEN replies
                ELSE replies \cup {[status |-> o.status, to |-> m.from]}
  /\ \/ requests' = requests \ {m} /\ UNCHANGED disturbed
     \/ /\ "repeat" \in Faults
        /\ Cardinality(Strays) < MaxStray
        /\ disturbed' = disturbed \cup {m.uid}
        /\ UNCHANGED requests
  /\ UNCHANGED clientVars

-------------------------------------------------------------------------------
(* The clients.                                                            *)

Send(c, op, u, p) ==
  /\ doing' = [doing EXCEPT ![c] = op]
  /\ requests' = requests \cup {[op |-> op, uid |-> u, pw |-> p, from |-> c]}

(* The socket is closed: what c sent goes on, what it would get is gone.   *)
CloseSocket(c) ==
  /\ requests' = {IF m.from = c THEN [m EXCEPT !.from = None] ELSE m : m \in requests}
  /\ replies' = {r \in replies : r.to # c}

Login(c) ==
  /\ doing[c] = "prompt"
  /\ ~believes[c]
  /\ \E u \in Users, p \in Passwords :
       /\ uid' = [uid EXCEPT ![c] = u]
       /\ pw' = [pw EXCEPT ![c] = p]
       /\ Send(c, "LIN", u, p)
  /\ UNCHANGED <<serverVars, believes, stale, replies, disturbed>>

(* Mutant: main does not look at user_loggedin.                            *)
LogoutUnchecked(c) ==
  /\ doing[c] = "prompt"
  /\ \E op \in {"LOU", "UNR"} : Send(c, op, uid[c], pw[c])
  /\ UNCHANGED <<serverVars, believes, uid, pw, stale, replies, disturbed>>

LogoutOrUnregister(c) ==
  /\ doing[c] = "prompt"
  /\ believes[c]
  /\ \E op \in {"LOU", "UNR"} : Send(c, op, uid[c], pw[c])
  /\ UNCHANGED <<serverVars, believes, uid, pw, stale, replies, disturbed>>

(* login, logout or unregister returns to main.  What a login that failed  *)
(* leaves in uid and password counts for nothing: the next overwrites it.  *)
Conclude(c, success) ==
  LET in == success <=> doing[c] = "LIN"
  IN
  /\ believes' = [believes EXCEPT ![c] = in]
  /\ uid' = [uid EXCEPT ![c] = IF in THEN @ ELSE None]
  /\ pw' = [pw EXCEPT ![c] = IF in THEN @ ELSE None]
  /\ doing' = [doing EXCEPT ![c] = "prompt"]
  /\ CloseSocket(c)

(* logout and unregister have their buffer in the same place of the stack, *)
(* login, which takes one more argument, may have it in another.           *)
SameBuffer(op) == IF op = "LIN" THEN {"LIN"} ELSE {"LOU", "UNR"}

Receive(c) ==
  /\ doing[c] \in Ops
  /\ \E r \in replies :
       /\ r.to = c
       /\ Conclude(c, r.status \in Granted)
       /\ stale' = [stale EXCEPT ![c] =
            (@ \ SameBuffer(doing[c]))
              \cup IF r.status \in Granted THEN {doing[c]} ELSE {}]
  /\ UNCHANGED <<serverVars, disturbed>>

(* Something that c waits for, and that would change what it believes, is  *)
(* still on its way.                                                       *)
InFlight(c) == \E m \in requests : m.from = c
GrantOnItsWay(c) == \E r \in replies : r.to = c /\ r.status \in Granted

(* recvfrom gives up after 5 seconds and the buffer, not written, is       *)
(* parsed all the same: an old success there may be taken for the answer,  *)
(* unless other functions have written over it.                            *)
Timeout(c) ==
  LET early == InFlight(c) \/ \E r \in replies : r.to = c
  IN
  /\ doing[c] \in Ops
  /\ early => "late" \in Faults /\ Cardinality(Strays) < MaxStray
  /\ \E success \in IF doing[c] \in stale[c] THEN BOOLEAN ELSE {FALSE} :
       /\ Conclude(c, success)
       /\ disturbed' = IF success \/ InFlight(c) \/ GrantOnItsWay(c)
                       THEN disturbed \cup {uid[c]} ELSE disturbed
  /\ UNCHANGED <<serverVars, stale>>

(* Only a client that is logged out may leave; the user may start it again *)
(* at any time, with a stack that holds no old answers.                    *)
ExitAndStart(c) ==
  /\ doing[c] = "prompt"
  /\ ~believes[c]
  /\ stale' = [stale EXCEPT ![c] = {}]
  /\ UNCHANGED <<serverVars, doing, believes, uid, pw, networkVars, disturbed>>

(* A client that is killed, waiting or not, forgets that it was logged in. *)
Kill(c) ==
  /\ "kill" \in Faults
  /\ InFlight(c) => Cardinality(Strays) < MaxStray
  /\ doing' = [doing EXCEPT ![c] = "prompt"]
  /\ believes' = [believes EXCEPT ![c] = FALSE]
  /\ uid' = [uid EXCEPT ![c] = None]
  /\ pw' = [pw EXCEPT ![c] = None]
  /\ stale' = [stale EXCEPT ![c] = {}]
  /\ disturbed' = disturbed \cup ({uid[c]} \ {None})
  /\ CloseSocket(c)
  /\ UNCHANGED serverVars

-------------------------------------------------------------------------------
(* The network.                                                            *)

(* A lost request does no harm, and neither does a lost refusal.           *)
LoseRequest(m) ==
  /\ "lose" \in Faults
  /\ requests' = requests \ {m}
  /\ UNCHANGED <<serverVars, clientVars, replies, disturbed>>

LoseReply(r) ==
  /\ "lose" \in Faults
  /\ replies' = replies \ {r}
  /\ disturbed' = IF r.status \in Granted THEN disturbed \cup {uid[r.to]} ELSE disturbed
  /\ UNCHANGED <<serverVars, clientVars, requests>>

-------------------------------------------------------------------------------
(* Nobody is logged in when the first client starts; users may exist.      *)
Init ==
  /\ pass \in [Users -> Passwords \cup {None}]
  /\ login = [u \in Users |-> FALSE]
  /\ doing = [c \in Clients |-> "prompt"]
  /\ believes = [c \in Clients |-> FALSE]
  /\ uid = [c \in Clients |-> None]
  /\ pw = [c \in Clients |-> None]
  /\ stale = [c \in Clients |-> {}]
  /\ requests = {}
  /\ replies = {}
  /\ disturbed = {}

ClientStep(c) ==
  \/ Login(c) \/ LogoutOrUnregister(c) \/ Receive(c) \/ Timeout(c)
  \/ ExitAndStart(c) \/ Kill(c)

Next ==
  \/ \E c \in Clients : ClientStep(c)
  \/ \E m \in requests : Serve(m) \/ LoseRequest(m)
  \/ \E r \in replies : LoseReply(r)

Spec == Init /\ [][Next]_vars
===============================================================================
