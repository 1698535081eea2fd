--------------------------- MODULE UserSessionProofs ---------------------------
(***************************************************************************)
(* Client and server agree on sessions: proofs for all constants.          *)
(***************************************************************************)
EXTENDS UserSessionProperties, FiniteSetTheorems, TLAPS

(* Where c is, and what that says of its locals and its messages.          *)
ClientsInv ==
  /\ \A c \in Clients :
       /\ doing[c] = "prompt" => \A r \in replies : r.to # c
       /\ doing[c] = "LIN" => ~believes[c]
       /\ doing[c] \in {"LOU", "UNR"} => believes[c]
       /\ uid[c] # None <=> believes[c] \/ doing[c] = "LIN"
       /\ pw[c] # None <=> believes[c] \/ doing[c] = "LIN"
  /\ \A m \in requests : m.from # None =>
       m.op = doing[m.from] /\ m.uid = uid[m.from] /\ m.pw = pw[m.from]

(* Only the requests of disturbed accounts are strays, or in the network   *)
(* together with their own answer; no other client has two answers.        *)
NetworkInv ==
  /\ \A m \in requests : m.from = None => m.uid \in disturbed
  /\ \A r \in replies : uid[r.to] \notin disturbed =>
       /\ \A m \in requests : m.from # r.to
       /\ \A s \in replies : s.to = r.to => s = r

(* c has the session of u, or will when it has read the answer it is sent. *)
Holder(c, u) == uid[c] = u /\ (believes[c] <=> ~GrantOnItsWay(c))

HoldersInv ==
  /\ \A u \in Users : pass[u] = None => ~login[u]
  /\ \A u \in Users \ disturbed :
       /\ login[u] => \E c \in Clients : Holder(c, u)
       /\ \A c \in Clients : Holder(c, u) => login[u] /\ pass[u] = pw[c]
       /\ \A c, d \in Clients : Holder(c, u) /\ Holder(d, u) => c = d

SessionInv == TypeOK /\ ClientsInv /\ NetworkInv /\ HoldersInv
-------------------------------------------------------------------------------
(* Operators.                                                              *)

(* A closed socket: what c sent becomes a stray, what it was sent is gone. *)
LEMMA ClosedSocket ==
  ASSUME TypeOK, NEW c \in Clients, CloseSocket(c)
  PROVE  /\ requests' \subseteq Request
         /\ replies' \subseteq Reply
         /\ \A m \in requests' :
              \/ m \in requests /\ m.from # c
              \/ /\ m.from = None
                 /\ \E n \in requests : n.from = c /\ n.uid = m.uid
         /\ \A r \in replies' : r \in replies /\ r.to # c
         /\ \A d \in Clients \ {c} : GrantOnItsWay(d)' <=> GrantOnItsWay(d)
         /\ ~GrantOnItsWay(c)'
<1>1. c # None
  BY SessionAssumption
<1>2. ASSUME NEW m \in requests'
      PROVE  /\ m \in Request
             /\ \/ m \in requests /\ m.from # c
                \/ /\ m.from = None
                   /\ \E n \in requests : n.from = c /\ n.uid = m.uid
  <2>1. PICK n \in requests : m = IF n.from = c THEN [n EXCEPT !.from = None] ELSE n
    BY DEF CloseSocket
  <2>2. n \in Request
    BY DEF TypeOK
  <2>3. CASE n.from = c
    <3>1. m = [n EXCEPT !.from = None]
      BY <2>1, <2>3
    <3>2. m \in Request /\ m.from = None /\ m.uid = n.uid
      BY <2>2, <3>1 DEF Request
    <3> QED
      BY <2>3, <3>2
  <2>4. CASE n.from # c
    BY <2>1, <2>2, <2>4
  <2> QED
    BY <2>3, <2>4
<1>3. /\ replies' \subseteq Reply
      /\ \A r \in replies' : r \in replies /\ r.to # c
      /\ \A r \in replies : r.to # c => r \in replies'
  BY DEF CloseSocket, TypeOK
<1> QED
  BY <1>2, <1>3 DEF GrantOnItsWay

(* What a handler leaves on file, and when it grants the request.          *)
LEMMA Handled ==
  ASSUME TypeOK, NEW m \in requests
  PROVE  LET o == Handle(m) IN
         /\ o.pass \in Passwords \cup {None}
         /\ o.login \in BOOLEAN
         /\ o.status \in Statuses
         /\ o.status \notin Granted => o.pass = pass[m.uid] /\ (o.login <=> login[m.uid])
         /\ (pass[m.uid] = None => ~login[m.uid]) => (o.pass = None => ~o.login)
         /\ m.op = "LIN" /\ o.status \in Granted =>
              (pass[m.uid] = None \/ ~login[m.uid]) /\ o.login /\ o.pass = m.pw
         /\ m.op # "LIN" /\ o.status \in Granted =>
              login[m.uid] /\ pass[m.uid] = m.pw /\ ~o.login
<1>1. m.op \in Ops /\ m.uid \in Users /\ m.pw \in Passwords /\ m.pw # None
  BY SessionAssumption DEF TypeOK, Request
<1>2. pass[m.uid] \in Passwords \cup {None} /\ login[m.uid] \in BOOLEAN
  BY <1>1 DEF TypeOK
<1>3. CASE m.op = "LIN"
  <2>1. Handle(m) = HandleLogin(m)
    BY <1>3 DEF Handle
  <2>2. CASE pass[m.uid] = None
    <3>1. /\ Handle(m).pass = m.pw
          /\ Handle(m).login \in BOOLEAN /\ Handle(m).login
          /\ Handle(m).status = "REG"
      BY <1>2, <2>1, <2>2 DEF HandleLogin, Outcome
    <3> QED
      BY <1>1, <1>2, <1>3, <2>2, <3>1 DEF Statuses, Granted
  <2>3. CASE pass[m.uid] # None /\ pass[m.uid] = m.pw /\ ~login[m.uid]
    <3>1. /\ Handle(m).pass = pass[m.uid]
          /\ Handle(m).login \in BOOLEAN /\ Handle(m).login
          /\ Handle(m).status = "OK"
      BY <1>2, <2>1, <2>3 DEF HandleLogin, Outcome
    <3> QED
      BY <1>1, <1>2, <1>3, <2>3, <3>1 DEF Statuses, Granted
  <2>4. CASE pass[m.uid] # None /\ ~(pass[m.uid] = m.pw /\ ~login[m.uid])
    <3>1. Handle(m) = Outcome(pass[m.uid], login[m.uid], "NOK")
      BY <2>1, <2>4 DEF HandleLogin
    <3>2. /\ Handle(m).pass = pass[m.uid]
          /\ Handle(m).login \in BOOLEAN /\ (Handle(m).login <=> login[m.uid])
          /\ Handle(m).status = "NOK"
      BY <1>2, <3>1 DEF Outcome
    <3> QED
      BY <1>1, <1>2, <1>3, <2>4, <3>2 DEF Statuses, Granted
  <2> QED
    BY <2>2, <2>3, <2>4
<1>4. CASE m.op = "LOU"
  <2>1. Handle(m) = HandleLogout(m)
    BY <1>4 DEF Handle
  <2>2. CASE pass[m.uid] = None
    <3>1. /\ Handle(m).pass = pass[m.uid]
          /\ Handle(m).login \in BOOLEAN /\ (Handle(m).login <=> login[m.uid])
          /\ Handle(m).status = "UNR"
      BY <1>2, <2>1, <2>2 DEF HandleLogout, Outcome
    <3> QED
      BY <1>1, <1>2, <1>4, <2>2, <3>1 DEF Statuses, Granted
  <2>3. CASE pass[m.uid] # None /\ pass[m.uid] = m.pw /\ login[m.uid]
    <3>1. /\ Handle(m).pass = pass[m.uid]
          /\ Handle(m).login \in BOOLEAN /\ ~Handle(m).login
          /\ Handle(m).status = "OK"
      BY <1>2, <2>1, <2>3 DEF HandleLogout, Outcome
    <3> QED
      BY <1>1, <1>2, <1>4, <2>3, <3>1 DEF Statuses, Granted
  <2>4. CASE pass[m.uid] # None /\ ~(pass[m.uid] = m.pw /\ login[m.uid])
    <3>1. Handle(m) = Outcome(pass[m.uid], login[m.uid], "NOK")
      BY <2>1, <2>4 DEF HandleLogout
    <3>2. /\ Handle(m).pass = pass[m.uid]
          /\ Handle(m).login \in BOOLEAN /\ (Handle(m).login <=> login[m.uid])
          /\ Handle(m).status = "NOK"
      BY <1>2, <3>1 DEF Outcome
    <3> QED
      BY <1>1, <1>2, <1>4, <2>4, <3>2 DEF Statuses, Granted
  <2> QED
    BY <2>2, <2>3, <2>4
<1>5. CASE m.op = "UNR"
  <2>1. Handle(m) = HandleUnregister(m)
    BY <1>5 DEF Handle
  <2>2. CASE pass[m.uid] = m.pw /\ login[m.uid]
    <3>1. /\ Handle(m).pass = None
          /\ Handle(m).login \in BOOLEAN /\ ~Handle(m).login
          /\ Handle(m).status = "OK"
      BY <1>2, <2>1, <2>2 DEF HandleUnregister, Outcome
    <3> QED
      BY <1>1, <1>2, <1>5, <2>2, <3>1 DEF Statuses, Granted
  <2>3. CASE ~(pass[m.uid] = m.pw /\ login[m.uid])
    <3>1. Handle(m) = Outcome(pass[m.uid], login[m.uid], "NOK")
      BY <2>1, <2>3 DEF HandleUnregister
    <3>2. /\ Handle(m).pass = pass[m.uid]
          /\ Handle(m).login \in BOOLEAN /\ (Handle(m).login <=> login[m.uid])
          /\ Handle(m).status = "NOK"
      BY <1>2, <3>1 DEF Outcome
    <3> QED
      BY <1>1, <1>2, <1>5, <2>3, <3>2 DEF Statuses, Granted
  <2> QED
    BY <2>2, <2>3
<1> QED
  BY <1>1, <1>3, <1>4, <1>5 DEF Ops

(* A step that leaves the server alone keeps the holders of every account  *)
(* that is not disturbed.                                                  *)
LEMMA HoldersKept ==
  ASSUME TypeOK, HoldersInv, UNCHANGED serverVars, disturbed \subseteq disturbed',
         \A u \in Users \ disturbed' : \A c \in Clients :
           /\ Holder(c, u)' <=> Holder(c, u)
           /\ Holder(c, u)' => pw'[c] = pw[c]
  PROVE  HoldersInv'
<1>1. UNCHANGED <<pass, login>>
  BY DEF serverVars
<1>2. \A u \in Users : pass'[u] = None => ~login'[u]
  BY <1>1 DEF HoldersInv
<1>3. ASSUME NEW u \in Users \ disturbed'
      PROVE  /\ login'[u] => \E c \in Clients : Holder(c, u)'
             /\ \A c \in Clients : Holder(c, u)' => login'[u] /\ pass'[u] = pw'[c]
             /\ \A c, d \in Clients : Holder(c, u)' /\ Holder(d, u)' => c = d
  <2>1. u \in Users \ disturbed
    OBVIOUS
  <2>2. /\ login[u] => \E c \in Clients : Holder(c, u)
        /\ \A c \in Clients : Holder(c, u) => login[u] /\ pass[u] = pw[c]
        /\ \A c, d \in Clients : Holder(c, u) /\ Holder(d, u) => c = d
    BY <2>1 DEF HoldersInv
  <2> QED
    BY <1>1, <2>2
<1> QED
  BY <1>2, <1>3 DEF HoldersInv

(* c stops waiting, logged in or not, by an answer, a timeout or a signal. *)
LEMMA Parted ==
  ASSUME SessionInv, NEW c \in Clients, NEW in \in BOOLEAN,
         believes' = [believes EXCEPT ![c] = in],
         uid' = [uid EXCEPT ![c] = IF in THEN @ ELSE None],
         pw' = [pw EXCEPT ![c] = IF in THEN @ ELSE None],
         doing' = [doing EXCEPT ![c] = "prompt"],
         CloseSocket(c), UNCHANGED serverVars,
         stale' \in [Clients -> SUBSET Ops],
         disturbed \subseteq disturbed', disturbed' \subseteq Users,
         InFlight(c) => uid[c] \in disturbed',
         in => uid[c] # None /\ pw[c] # None,
         uid[c] # None /\ uid[c] \notin disturbed' => (in <=> (believes[c] <=> ~GrantOnItsWay(c)))
  PROVE  SessionInv'
<1>1. TypeOK /\ ClientsInv /\ NetworkInv /\ HoldersInv
  BY DEF SessionInv
<1>2. /\ requests' \subseteq Request
      /\ replies' \subseteq Reply
      /\ \A m \in requests' :
           \/ m \in requests /\ m.from # c
           \/ /\ m.from = None
              /\ \E n \in requests : n.from = c /\ n.uid = m.uid
      /\ \A r \in replies' : r \in replies /\ r.to # c
      /\ \A d \in Clients \ {c} : GrantOnItsWay(d)' <=> GrantOnItsWay(d)
      /\ ~GrantOnItsWay(c)'
  BY <1>1, ClosedSocket
<1>3. TypeOK'
  BY <1>1, <1>2 DEF TypeOK, serverVars
<1>4. /\ doing'[c] = "prompt" /\ (believes'[c] <=> in)
      /\ uid'[c] = IF in THEN uid[c] ELSE None
      /\ pw'[c] = IF in THEN pw[c] ELSE None
      /\ \A d \in Clients \ {c} : /\ doing'[d] = doing[d] /\ (believes'[d] <=> believes[d])
                                  /\ uid'[d] = uid[d] /\ pw'[d] = pw[d]
  BY <1>1 DEF TypeOK
<1>5. ClientsInv'
  <2>1. ASSUME NEW d \in Clients
        PROVE  /\ doing'[d] = "prompt" => \A r \in replies' : r.to # d
               /\ doing'[d] = "LIN" => ~believes'[d]
               /\ doing'[d] \in {"LOU", "UNR"} => believes'[d]
               /\ uid'[d] # None <=> believes'[d] \/ doing'[d] = "LIN"
               /\ pw'[d] # None <=> believes'[d] \/ doing'[d] = "LIN"
    <3>1. CASE d = c
      BY <1>2, <1>4, <3>1
    <3>2. CASE d # c
      BY <1>1, <1>2, <1>4, <3>2 DEF ClientsInv
    <3> QED
      BY <3>1, <3>2
  <2>2. ASSUME NEW m \in requests', m.from # None
        PROVE  m.op = doing'[m.from] /\ m.uid = uid'[m.from] /\ m.pw = pw'[m.from]
    BY <1>1, <1>2, <1>4, <2>2 DEF ClientsInv, Request
  <2> QED
    BY <2>1, <2>2 DEF ClientsInv
<1>6. NetworkInv'
  <2>1. ASSUME NEW m \in requests', m.from = None
        PROVE  m.uid \in disturbed'
    <3>1. CASE m \in requests
      BY <1>1, <2>1, <3>1 DEF NetworkInv
    <3>2. CASE \E n \in requests : n.from = c /\ n.uid = m.uid
      <4>1. PICK n \in requests : n.from = c /\ n.uid = m.uid
        BY <3>2
      <4>2. n.uid = uid[c] /\ InFlight(c)
        BY <1>1, <4>1, SessionAssumption DEF ClientsInv, InFlight
      <4> QED
        BY <4>1, <4>2
    <3> QED
      BY <1>2, <3>1, <3>2
  <2>2. ASSUME NEW r \in replies', uid'[r.to] \notin disturbed'
        PROVE  /\ \A m \in requests' : m.from # r.to
               /\ \A s \in replies' : s.to = r.to => s = r
    <3>1. r \in replies /\ r.to # c /\ r.to \in Clients
      BY <1>2 DEF Reply
    <3>2. uid[r.to] \notin disturbed
      BY <1>4, <2>2, <3>1
    <3> QED
      BY <1>1, <1>2, <3>1, <3>2, SessionAssumption DEF NetworkInv
  <2> QED
    BY <2>1, <2>2 DEF NetworkInv
<1>7. HoldersInv'
  <2>1. ASSUME NEW u \in Users \ disturbed', NEW d \in Clients
        PROVE  (Holder(d, u)' <=> Holder(d, u)) /\ (Holder(d, u)' => pw'[d] = pw[d])
    <3>1. CASE d # c
      BY <1>2, <1>4, <3>1 DEF Holder
    <3>2. CASE d = c
      <4>1. Holder(c, u)' <=> uid[c] = u /\ in
        BY <1>2, <1>4, SessionAssumption DEF Holder
      <4>2. Holder(c, u) <=> uid[c] = u /\ in
        BY SessionAssumption DEF Holder
      <4> QED
        BY <1>4, <3>2, <4>1, <4>2
    <3> QED
      BY <3>1, <3>2
  <2> QED
    BY <1>1, <2>1, HoldersKept
<1> QED
  BY <1>3, <1>5, <1>6, <1>7 DEF SessionInv

(* login, logout or unregister returns, Receive and Timeout alike.         *)
LEMMA Concluded ==
  ASSUME SessionInv, NEW c \in Clients, NEW success \in BOOLEAN,
         doing[c] \in Ops, Conclude(c, success), UNCHANGED serverVars,
         stale' \in [Clients -> SUBSET Ops],
         disturbed \subseteq disturbed', disturbed' \subseteq Users,
         InFlight(c) => uid[c] \in disturbed',
         uid[c] \notin disturbed' => (success <=> GrantOnItsWay(c))
  PROVE  SessionInv'
<1> DEFINE in == success <=> doing[c] = "LIN"
<1>1. /\ believes' = [believes EXCEPT ![c] = in]
      /\ uid' = [uid EXCEPT ![c] = IF in THEN @ ELSE None]
      /\ pw' = [pw EXCEPT ![c] = IF in THEN @ ELSE None]
      /\ doing' = [doing EXCEPT ![c] = "prompt"]
      /\ CloseSocket(c)
  BY DEF Conclude
<1>2. uid[c] # None /\ pw[c] # None /\ (believes[c] <=> doing[c] # "LIN")
  BY SessionAssumption DEF SessionInv, ClientsInv, Ops
<1>3. in \in BOOLEAN
  OBVIOUS
<1>4. uid[c] \notin disturbed' => (in <=> (believes[c] <=> ~GrantOnItsWay(c)))
  BY <1>2
<1> HIDE DEF in
<1> QED
  BY <1>1, <1>2, <1>3, <1>4, Parted

-------------------------------------------------------------------------------
(* The steps of the clients.                                               *)

(* Receive: what c believes becomes what the server has decided.           *)
LEMMA ReceiveKeeps ==
  ASSUME SessionInv, NEW c \in Clients, Receive(c)
  PROVE  SessionInv'
<1>1. TypeOK /\ ClientsInv /\ NetworkInv
  BY DEF SessionInv
<1>2. PICK r \in replies :
        /\ r.to = c
        /\ Conclude(c, r.status \in Granted)
        /\ stale' = [stale EXCEPT ![c] =
             (@ \ SameBuffer(doing[c]))
               \cup IF r.status \in Granted THEN {doing[c]} ELSE {}]
  BY DEF Receive
<1>3. doing[c] \in Ops /\ UNCHANGED <<serverVars, disturbed>>
  BY DEF Receive
<1>4. stale' \in [Clients -> SUBSET Ops]
  BY <1>1, <1>2, <1>3 DEF TypeOK, Ops
<1>5. (r.status \in Granted) \in BOOLEAN
  OBVIOUS
<1>6. InFlight(c) => uid[c] \in disturbed'
  BY <1>1, <1>2, <1>3 DEF NetworkInv, InFlight
<1>7. uid[c] \notin disturbed' => (r.status \in Granted <=> GrantOnItsWay(c))
  BY <1>1, <1>2, <1>3 DEF NetworkInv, GrantOnItsWay
<1>8. disturbed' \subseteq Users /\ disturbed \subseteq disturbed'
  BY <1>1, <1>3 DEF TypeOK
<1> QED
  BY <1>2, <1>3, <1>4, <1>5, <1>6, <1>7, <1>8, Concluded

(* Timeout: unless the account is disturbed, there was nothing to wait for *)
(* but a refusal, and c takes what it reads for one.                       *)
LEMMA TimeoutKeeps ==
  ASSUME SessionInv, NEW c \in Clients, Timeout(c)
  PROVE  SessionInv'
<1>1. TypeOK /\ ClientsInv
  BY DEF SessionInv
<1>2. PICK success \in BOOLEAN :
        /\ Conclude(c, success)
        /\ disturbed' = IF success \/ InFlight(c) \/ GrantOnItsWay(c)
                        THEN disturbed \cup {uid[c]} ELSE disturbed
  BY DEF Timeout
<1>3. doing[c] \in Ops /\ UNCHANGED serverVars /\ UNCHANGED stale
  BY DEF Timeout
<1>4. uid[c] \in Users
  BY <1>1, <1>3, SessionAssumption DEF TypeOK, ClientsInv, Ops
<1>5. /\ disturbed' \subseteq Users /\ disturbed \subseteq disturbed'
      /\ stale' \in [Clients -> SUBSET Ops]
  BY <1>1, <1>2, <1>3, <1>4 DEF TypeOK
<1>6. InFlight(c) => uid[c] \in disturbed'
  BY <1>2
<1>7. uid[c] \notin disturbed' => (success <=> GrantOnItsWay(c))
  BY <1>2
<1> QED
  BY <1>2, <1>3, <1>5, <1>6, <1>7, Concluded

(* Login, LogoutOrUnregister: c sends a request and holds what it held.    *)
LEMMA SendKeeps ==
  ASSUME SessionInv, NEW c \in Clients, Login(c) \/ LogoutOrUnregister(c)
  PROVE  SessionInv'
<1>1. TypeOK /\ ClientsInv /\ NetworkInv /\ HoldersInv
  BY DEF SessionInv
<1>2. PICK op \in Ops, u \in Users, p \in Passwords :
        /\ Send(c, op, u, p)
        /\ uid' = [uid EXCEPT ![c] = u]
        /\ pw' = [pw EXCEPT ![c] = p]
        /\ op = "LIN" => ~believes[c]
        /\ op # "LIN" => believes[c] /\ uid[c] = u /\ pw[c] = p
  <2>1. CASE Login(c)
    BY <2>1 DEF Login, Ops
  <2>2. CASE LogoutOrUnregister(c)
    <3>1. PICK op \in {"LOU", "UNR"} : Send(c, op, uid[c], pw[c])
      BY <2>2 DEF LogoutOrUnregister
    <3>2. believes[c] /\ uid[c] \in Users /\ pw[c] \in Passwords
      BY <1>1, <2>2 DEF LogoutOrUnregister, ClientsInv, TypeOK
    <3>3. uid' = [uid EXCEPT ![c] = uid[c]] /\ pw' = [pw EXCEPT ![c] = pw[c]]
      BY <1>1, <2>2 DEF LogoutOrUnregister, TypeOK
    <3>4. op \in Ops /\ op # "LIN"
      BY <3>1 DEF Ops
    <3> QED
      BY <3>1, <3>2, <3>3, <3>4
  <2> QED
    BY <2>1, <2>2
<1>3. /\ doing[c] = "prompt"
      /\ UNCHANGED <<serverVars, believes, stale, replies, disturbed>>
  BY DEF Login, LogoutOrUnregister
<1> DEFINE new == [op |-> op, uid |-> u, pw |-> p, from |-> c]
<1>4. requests' = requests \cup {new} /\ doing' = [doing EXCEPT ![c] = op]
  BY <1>2 DEF Send
<1>5. c # None /\ u # None /\ p # None
  BY SessionAssumption
<1>6. /\ new \in Request /\ new.op = op /\ new.uid = u /\ new.pw = p /\ new.from = c
      /\ \A m \in requests : m.from # c
  <2>1. new \in Request /\ new.op = op /\ new.uid = u /\ new.pw = p /\ new.from = c
    BY DEF Request
  <2>2. \A m \in requests : m.from # c
    BY <1>1, <1>3, <1>5, SessionAssumption DEF ClientsInv, TypeOK, Request, Ops
  <2> QED
    BY <2>1, <2>2
<1> HIDE DEF new
<1>7. TypeOK'
  BY <1>1, <1>2, <1>3, <1>4, <1>6 DEF TypeOK, serverVars
<1>8. /\ doing'[c] = op /\ uid'[c] = u /\ pw'[c] = p
      /\ \A d \in Clients \ {c} : doing'[d] = doing[d] /\ uid'[d] = uid[d] /\ pw'[d] = pw[d]
  BY <1>1, <1>2, <1>4 DEF TypeOK
<1>9. \A r \in replies : r.to # c /\ r.to \in Clients
  BY <1>1, <1>3 DEF ClientsInv, TypeOK, Reply
<1>10. ClientsInv'
  <2>1. ASSUME NEW d \in Clients
        PROVE  /\ doing'[d] = "prompt" => \A r \in replies' : r.to # d
               /\ doing'[d] = "LIN" => ~believes'[d]
               /\ doing'[d] \in {"LOU", "UNR"} => believes'[d]
               /\ uid'[d] # None <=> believes'[d] \/ doing'[d] = "LIN"
               /\ pw'[d] # None <=> believes'[d] \/ doing'[d] = "LIN"
    <3>1. CASE d = c
      BY <1>2, <1>3, <1>5, <1>8, <1>9, <3>1
    <3>2. CASE d # c
      BY <1>1, <1>3, <1>8, <3>2 DEF ClientsInv
    <3> QED
      BY <3>1, <3>2
  <2>2. ASSUME NEW m \in requests', m.from # None
        PROVE  m.op = doing'[m.from] /\ m.uid = uid'[m.from] /\ m.pw = pw'[m.from]
    <3>1. CASE m = new
      BY <1>6, <1>8, <3>1
    <3>2. CASE m \in requests
      <4>1. m.from \in Clients \ {c}
        BY <1>1, <1>6, <2>2, <3>2 DEF TypeOK, Request
      <4> QED
        BY <1>1, <1>8, <2>2, <3>2, <4>1 DEF ClientsInv
    <3> QED
      BY <1>4, <3>1, <3>2
  <2> QED
    BY <2>1, <2>2 DEF ClientsInv
<1>11. NetworkInv'
  <2>1. ASSUME NEW m \in requests', m.from = None
        PROVE  m.uid \in disturbed'
    BY <1>1, <1>3, <1>4, <1>5, <1>6, <2>1 DEF NetworkInv
  <2>2. ASSUME NEW r \in replies', uid'[r.to] \notin disturbed'
        PROVE  /\ \A m \in requests' : m.from # r.to
               /\ \A s \in replies' : s.to = r.to => s = r
    <3>1. r \in replies /\ r.to # c /\ uid[r.to] \notin disturbed
      BY <1>3, <1>8, <1>9, <2>2
    <3> QED
      BY <1>1, <1>3, <1>4, <1>6, <3>1 DEF NetworkInv
  <2> QED
    BY <2>1, <2>2 DEF NetworkInv
<1>12. HoldersInv'
  <2>1. ASSUME NEW v \in Users \ disturbed', NEW d \in Clients
        PROVE  (Holder(d, v)' <=> Holder(d, v)) /\ (Holder(d, v)' => pw'[d] = pw[d])
    <3>1. GrantOnItsWay(d)' <=> GrantOnItsWay(d)
      BY <1>3 DEF GrantOnItsWay
    <3>2. CASE d # c
      BY <1>3, <1>8, <3>1, <3>2 DEF Holder
    <3>3. CASE d = c /\ op # "LIN"
      BY <1>2, <1>3, <1>8, <3>1, <3>3 DEF Holder
    <3>4. CASE d = c /\ op = "LIN"
      <4>1. ~believes[c] /\ ~GrantOnItsWay(c)
        BY <1>2, <1>9, <3>4 DEF GrantOnItsWay
      <4> QED
        BY <1>3, <3>1, <3>4, <4>1 DEF Holder
    <3> QED
      BY <3>2, <3>3, <3>4
  <2>2. UNCHANGED serverVars /\ disturbed' = disturbed
    BY <1>3
  <2> QED
    BY <1>1, <2>1, <2>2, HoldersKept
<1> QED
  BY <1>7, <1>10, <1>11, <1>12 DEF SessionInv

(* ExitAndStart: a client that leaves holds nothing.                       *)
LEMMA ExitKeeps ==
  ASSUME SessionInv, NEW c \in Clients, ExitAndStart(c)
  PROVE  SessionInv'
<1>1. /\ UNCHANGED <<serverVars, doing, believes, uid, pw, networkVars, disturbed>>
      /\ stale' = [stale EXCEPT ![c] = {}]
  BY DEF ExitAndStart
<1>2. TypeOK'
  BY <1>1 DEF SessionInv, TypeOK, serverVars, networkVars
<1>3. ClientsInv' /\ NetworkInv'
  BY <1>1 DEF SessionInv, ClientsInv, NetworkInv, networkVars
<1>4. HoldersInv'
  BY <1>1 DEF SessionInv, HoldersInv, Holder, GrantOnItsWay, serverVars, networkVars
<1> QED
  BY <1>2, <1>3, <1>4 DEF SessionInv

(* Kill: the account that c may have held is disturbed from now on.        *)
LEMMA KillKeeps ==
  ASSUME SessionInv, NEW c \in Clients, Kill(c)
  PROVE  SessionInv'
<1>1. TypeOK /\ ClientsInv
  BY DEF SessionInv
<1>2. /\ doing' = [doing EXCEPT ![c] = "prompt"]
      /\ believes' = [believes EXCEPT ![c] = FALSE]
      /\ uid' = [uid EXCEPT ![c] = IF FALSE THEN @ ELSE None]
      /\ pw' = [pw EXCEPT ![c] = IF FALSE THEN @ ELSE None]
      /\ stale' = [stale EXCEPT ![c] = {}]
      /\ disturbed' = disturbed \cup ({uid[c]} \ {None})
      /\ CloseSocket(c)
      /\ UNCHANGED serverVars
  BY DEF Kill
<1>3. stale' \in [Clients -> SUBSET Ops]
  BY <1>1, <1>2 DEF TypeOK
<1>4. disturbed \subseteq disturbed' /\ disturbed' \subseteq Users
  BY <1>1, <1>2 DEF TypeOK
<1>5. uid[c] # None => uid[c] \in disturbed'
  BY <1>2
<1>6. InFlight(c) => uid[c] # None
  BY <1>1, SessionAssumption DEF InFlight, TypeOK, ClientsInv, Request
<1> QED
  BY <1>2, <1>3, <1>4, <1>5, <1>6, Parted
-------------------------------------------------------------------------------
(* The steps of the network and of the server.                             *)

(* LoseRequest: nobody held anything by it yet.                            *)
LEMMA LoseRequestKeeps ==
  ASSUME SessionInv, NEW m \in requests, LoseRequest(m)
  PROVE  SessionInv'
<1>1. /\ requests' \subseteq requests
      /\ UNCHANGED <<serverVars, clientVars, replies, disturbed>>
  BY DEF LoseRequest
<1>2. TypeOK'
  BY <1>1 DEF SessionInv, TypeOK, serverVars, clientVars
<1>3. ClientsInv' /\ NetworkInv'
  BY <1>1 DEF SessionInv, ClientsInv, NetworkInv, clientVars
<1>4. HoldersInv'
  BY <1>1 DEF SessionInv, HoldersInv, Holder, GrantOnItsWay, serverVars, clientVars
<1> QED
  BY <1>2, <1>3, <1>4 DEF SessionInv

(* LoseReply: a grant that is lost disturbs its account.                   *)
LEMMA LoseReplyKeeps ==
  ASSUME SessionInv, NEW r \in replies, LoseReply(r)
  PROVE  SessionInv'
<1>1. TypeOK /\ ClientsInv /\ NetworkInv /\ HoldersInv
  BY DEF SessionInv
<1>2. /\ replies' = replies \ {r}
      /\ disturbed' = IF r.status \in Granted THEN disturbed \cup {uid[r.to]} ELSE disturbed
      /\ UNCHANGED <<serverVars, clientVars, requests>>
  BY DEF LoseReply
<1>3. UNCHANGED <<doing, believes, uid, pw, stale>>
  BY <1>2 DEF clientVars
<1>4. r.to \in Clients /\ uid[r.to] \in Users
  <2>1. r.to \in Clients
    BY <1>1 DEF TypeOK, Reply
  <2>2. doing[r.to] \in Ops
    BY <1>1, <2>1 DEF TypeOK, ClientsInv
  <2>3. uid[r.to] # None
    BY <1>1, <2>1, <2>2 DEF ClientsInv, Ops
  <2> QED
    BY <1>1, <2>1, <2>3 DEF TypeOK
<1>5. disturbed \subseteq disturbed' /\ disturbed' \subseteq Users
  BY <1>1, <1>2, <1>4 DEF TypeOK
<1>6. TypeOK'
  BY <1>1, <1>2, <1>3, <1>5 DEF TypeOK, serverVars
<1>7. ClientsInv'
  BY <1>1, <1>2, <1>3 DEF ClientsInv
<1>8. NetworkInv'
  BY <1>1, <1>2, <1>3, <1>5 DEF NetworkInv
<1>9. HoldersInv'
  <2>1. ASSUME NEW u \in Users \ disturbed', NEW c \in Clients
        PROVE  (Holder(c, u)' <=> Holder(c, u)) /\ (Holder(c, u)' => pw'[c] = pw[c])
    <3>1. CASE uid[c] = u
      <4>1. ~(r.to = c /\ r.status \in Granted)
        BY <1>2, <3>1
      <4>2. GrantOnItsWay(c)' <=> GrantOnItsWay(c)
        BY <1>2, <4>1 DEF GrantOnItsWay
      <4> QED
        BY <1>3, <4>2 DEF Holder
    <3>2. CASE uid[c] # u
      BY <1>3, <3>2 DEF Holder
    <3> QED
      BY <3>1, <3>2
  <2> QED
    BY <1>1, <1>2, <1>5, <2>1, HoldersKept
<1> QED
  BY <1>6, <1>7, <1>8, <1>9 DEF SessionInv

(* Serve: the server decides, and its answer moves the session with it.    *)
LEMMA ServeKeeps ==
  ASSUME SessionInv, NEW m \in requests, Serve(m)
  PROVE  SessionInv'
<1> DEFINE o == Handle(m)
           answer == [status |-> o.status, to |-> m.from]
<1>1. TypeOK /\ ClientsInv /\ NetworkInv /\ HoldersInv
  BY DEF SessionInv
<1>2. /\ pass' = [pass EXCEPT ![m.uid] = o.pass]
      /\ login' = [login EXCEPT ![m.uid] = o.login]
      /\ replies' = IF m.from = None THEN replies ELSE replies \cup {answer}
      /\ \/ requests' = requests \ {m} /\ UNCHANGED disturbed
         \/ disturbed' = disturbed \cup {m.uid} /\ UNCHANGED requests
      /\ UNCHANGED clientVars
  BY DEF Serve
<1>3. /\ o.pass \in Passwords \cup {None}
      /\ o.login \in BOOLEAN
      /\ o.status \in Statuses
      /\ o.status \notin Granted => o.pass = pass[m.uid] /\ (o.login <=> login[m.uid])
      /\ (pass[m.uid] = None => ~login[m.uid]) => (o.pass = None => ~o.login)
      /\ m.op = "LIN" /\ o.status \in Granted =>
           (pass[m.uid] = None \/ ~login[m.uid]) /\ o.login /\ o.pass = m.pw
      /\ m.op # "LIN" /\ o.status \in Granted =>
           login[m.uid] /\ pass[m.uid] = m.pw /\ ~o.login
  BY <1>1, Handled
<1> HIDE DEF o
<1>4. UNCHANGED <<doing, believes, uid, pw, stale>>
  BY <1>2 DEF clientVars
<1>5. m \in Request
  BY <1>1 DEF TypeOK
<1>6. m.uid \in Users /\ m.from \in Clients \cup {None} /\ m.pw # None /\ m.uid # None
  BY <1>5, SessionAssumption DEF Request
<1>7. /\ disturbed \subseteq disturbed' /\ disturbed' \subseteq Users
      /\ requests' \subseteq requests
  BY <1>1, <1>2, <1>6 DEF TypeOK
<1>8. /\ answer.status = o.status /\ answer.to = m.from
      /\ m.from # None => answer \in Reply
  BY <1>3, <1>6 DEF Reply
<1> HIDE DEF answer
<1>9. TypeOK'
  BY <1>1, <1>2, <1>3, <1>4, <1>6, <1>7, <1>8 DEF TypeOK
<1>10. ClientsInv'
  <2>1. m.from # None => doing[m.from] # "prompt"
    BY <1>1, <1>5, SessionAssumption DEF ClientsInv, Request, Ops
  <2>2. \A c \in Clients : doing[c] = "prompt" => \A r \in replies' : r.to # c
    BY <1>1, <1>2, <1>8, <2>1 DEF ClientsInv
  <2> QED
    BY <1>1, <1>4, <1>7, <2>2 DEF ClientsInv
<1>11. m.from # None => m.op = doing[m.from] /\ m.uid = uid[m.from] /\ m.pw = pw[m.from]
  BY <1>1 DEF ClientsInv
<1>12. m.from = None => m.uid \in disturbed
  BY <1>1 DEF NetworkInv
<1>13. ASSUME m.uid \notin disturbed'
       PROVE  /\ m.from \in Clients
              /\ requests' = requests \ {m}
              /\ \A r \in replies : r.to # m.from
              /\ \A n \in requests : n.from = m.from => n = m
  <2>1. m.from \in Clients /\ m.from # None /\ requests' = requests \ {m}
    BY <1>2, <1>6, <1>7, <1>12, <1>13
  <2>2. \A r \in replies : r.to # m.from
    BY <1>1, <1>7, <1>11, <1>13, <2>1 DEF NetworkInv
  <2>3. ASSUME NEW n \in requests, n.from = m.from
        PROVE  n = m
    <3>1. n.op = m.op /\ n.uid = m.uid /\ n.pw = m.pw
      BY <1>1, <1>11, <2>1, <2>3 DEF ClientsInv
    <3>2. n \in Request
      BY <1>1 DEF TypeOK
    <3> QED
      BY <1>5, <2>3, <3>1, <3>2 DEF Request
  <2> QED
    BY <2>1, <2>2, <2>3
<1>14. NetworkInv'
  <2>1. ASSUME NEW n \in requests', n.from = None
        PROVE  n.uid \in disturbed'
    BY <1>1, <1>7, <2>1 DEF NetworkInv
  <2>2. ASSUME NEW r \in replies', uid[r.to] \notin disturbed'
        PROVE  /\ \A n \in requests' : n.from # r.to
               /\ \A s \in replies' : s.to = r.to => s = r
    <3>1. CASE m.from = None \/ r.to # m.from
      <4>1. r \in replies /\ \A s \in replies' : s.to = r.to => s \in replies
        BY <1>2, <1>8, <3>1
      <4> QED
        BY <1>1, <1>7, <2>2, <4>1 DEF NetworkInv
    <3>2. CASE m.from # None /\ r.to = m.from
      <4>1. m.uid \notin disturbed'
        BY <1>11, <2>2, <3>2
      <4> QED
        BY <1>2, <1>13, <3>2, <4>1
    <3> QED
      BY <3>1, <3>2
  <2> QED
    BY <1>4, <2>1, <2>2 DEF NetworkInv
<1>15. /\ pass'[m.uid] = o.pass /\ (login'[m.uid] <=> o.login)
       /\ \A u \in Users \ {m.uid} : pass'[u] = pass[u] /\ (login'[u] <=> login[u])
  BY <1>1, <1>2, <1>3, <1>6 DEF TypeOK
<1>16. \A u \in Users : pass'[u] = None => ~login'[u]
  BY <1>1, <1>3, <1>6, <1>15 DEF HoldersInv
<1>17. ASSUME NEW u \in Users \ disturbed'
       PROVE  /\ login'[u] => \E c \in Clients : Holder(c, u)'
              /\ \A c \in Clients : Holder(c, u)' => login'[u] /\ pass'[u] = pw'[c]
              /\ \A c, d \in Clients : Holder(c, u)' /\ Holder(d, u)' => c = d
  <2>1. /\ login[u] => \E c \in Clients : Holder(c, u)
        /\ \A c \in Clients : Holder(c, u) => login[u] /\ pass[u] = pw[c]
        /\ \A c, d \in Clients : Holder(c, u) /\ Holder(d, u) => c = d
    BY <1>1, <1>7 DEF HoldersInv
  <2>2. \A c \in Clients : c # m.from => (Holder(c, u)' <=> Holder(c, u))
    BY <1>2, <1>4, <1>8 DEF Holder, GrantOnItsWay
  <2>3. CASE u # m.uid
    <3>1. \A c \in Clients : Holder(c, u)' <=> Holder(c, u)
      <4>1. m.from # None => uid[m.from] # u
        BY <1>11, <2>3
      <4>2. \A c \in Clients : c = m.from => ~Holder(c, u)' /\ ~Holder(c, u)
        BY <1>4, <4>1, SessionAssumption DEF Holder
      <4> QED
        BY <2>2, <4>2
    <3> QED
      BY <1>4, <1>15, <2>1, <2>3, <3>1
  <2>4. CASE u = m.uid
    <3>1. /\ m.from \in Clients /\ m.from # None
          /\ \A r \in replies : r.to # m.from
          /\ uid[m.from] = u /\ m.op = doing[m.from] /\ m.pw = pw[m.from]
      BY <1>11, <1>13, <2>4, SessionAssumption
    <3>2. Holder(m.from, u) <=> believes[m.from]
      BY <3>1 DEF Holder, GrantOnItsWay
    <3>3. Holder(m.from, u)' <=> (believes[m.from] <=> o.status \notin Granted)
      BY <1>2, <1>4, <1>8, <3>1 DEF Holder, GrantOnItsWay
    <3>4. m.op = "LIN" => ~believes[m.from]
      BY <1>1, <3>1 DEF ClientsInv
    <3>5. m.op # "LIN" => believes[m.from]
      BY <1>1, <1>5, <3>1 DEF ClientsInv, Request, Ops
    <3>6. CASE o.status \notin Granted
      BY <1>3, <1>4, <1>15, <2>1, <2>2, <2>4, <3>2, <3>3, <3>6
    <3>7. CASE o.status \in Granted /\ m.op = "LIN"
      <4>1. ~login[u]
        BY <1>1, <1>3, <2>4, <3>7 DEF HoldersInv
      <4>2. \A c \in Clients : Holder(c, u)' <=> c = m.from
        BY <2>1, <2>2, <3>3, <3>4, <3>7, <4>1
      <4> QED
        BY <1>3, <1>4, <1>15, <2>4, <3>1, <3>7, <4>2
    <3>8. CASE o.status \in Granted /\ m.op # "LIN"
      <4>1. \A c \in Clients : ~Holder(c, u)'
        BY <2>1, <2>2, <3>1, <3>2, <3>3, <3>5, <3>8
      <4> QED
        BY <1>3, <1>15, <2>4, <3>8, <4>1
    <3> QED
      BY <3>6, <3>7, <3>8
  <2> QED
    BY <2>3, <2>4
<1>18. HoldersInv'
  BY <1>16, <1>17 DEF HoldersInv
<1> QED
  BY <1>9, <1>10, <1>14, <1>18 DEF SessionInv
-------------------------------------------------------------------------------
(* The theorems.                                                           *)

(* The invariant holds when the first client starts.                       *)
LEMMA SessionInit ==
  ASSUME Init
  PROVE  SessionInv
<1>1. TypeOK
  BY SessionAssumption DEF Init, TypeOK
<1>2. ClientsInv
  BY SessionAssumption DEF Init, ClientsInv
<1>3. NetworkInv
  BY DEF Init, NetworkInv
<1>4. HoldersInv
  BY SessionAssumption DEF Init, HoldersInv, Holder
<1> QED
  BY <1>1, <1>2, <1>3, <1>4 DEF SessionInv

(* Every step keeps it.                                                    *)
LEMMA SessionNext ==
  ASSUME SessionInv, [Next]_vars
  PROVE  SessionInv'
<1>1. ASSUME NEW c \in Clients, ClientStep(c)
      PROVE  SessionInv'
  BY <1>1, SendKeeps, ReceiveKeeps, TimeoutKeeps, ExitKeeps, KillKeeps DEF ClientStep
<1>2. ASSUME NEW m \in requests, Serve(m) \/ LoseRequest(m)
      PROVE  SessionInv'
  BY <1>2, ServeKeeps, LoseRequestKeeps
<1>3. ASSUME NEW r \in replies, LoseReply(r)
      PROVE  SessionInv'
  BY <1>3, LoseReplyKeeps
<1>4. CASE UNCHANGED vars
  BY <1>4 DEF vars, serverVars, clientVars, networkVars, SessionInv, TypeOK,
              ClientsInv, NetworkInv, HoldersInv, Holder, GrantOnItsWay
<1> QED
  BY <1>1, <1>2, <1>3, <1>4 DEF Next

(* It holds always.                                                        *)
LEMMA SessionInvariant == Spec => []SessionInv
<1>1. Init => SessionInv
  BY SessionInit
<1>2. SessionInv /\ [Next]_vars => SessionInv'
  BY SessionNext
<1> QED
  BY <1>1, <1>2, PTL DEF Spec

(* TypeOK, for any users, passwords, clients and faults.                   *)
THEOREM SessionTypeCorrect == Spec => []TypeOK
<1>1. SessionInv => TypeOK
  BY DEF SessionInv
<1> QED
  BY <1>1, SessionInvariant, PTL

(* A user is logged in at the server exactly when one client believes it,  *)
(* for any number of clients and users, whatever faults strike others.     *)
THEOREM SessionsAlwaysAgree == Spec => []SessionsAgree
<1>1. ASSUME SessionInv
      PROVE  SessionsAgree
  <2>1. SUFFICES ASSUME NEW u \in Users \ disturbed, Quiet(u)
                 PROVE  Cardinality(SessionHolders(u)) = IF login[u] THEN 1 ELSE 0
    BY DEF SessionsAgree
  <2>2. \A c \in Clients : c \in SessionHolders(u) <=> Holder(c, u)
    <3>1. ASSUME NEW c \in Clients, uid[c] = u
          PROVE  ~GrantOnItsWay(c)
      BY <1>1, <2>1, <3>1 DEF SessionInv, TypeOK, ClientsInv, Quiet, GrantOnItsWay
    <3> QED
      BY <3>1 DEF SessionHolders, Holder
  <2>3. SessionHolders(u) \subseteq Clients
    BY DEF SessionHolders
  <2>4. CASE login[u]
    <3>1. PICK c \in Clients : Holder(c, u)
      BY <1>1, <2>4 DEF SessionInv, HoldersInv
    <3>2. SessionHolders(u) = {c}
      BY <1>1, <2>2, <2>3, <3>1 DEF SessionInv, HoldersInv
    <3> QED
      BY <2>4, <3>2, FS_Singleton
  <2>5. CASE ~login[u]
    <3>1. SessionHolders(u) = {}
      BY <1>1, <2>2, <2>3, <2>5 DEF SessionInv, HoldersInv
    <3> QED
      BY <2>5, <3>1, FS_EmptySet
  <2> QED
    BY <2>4, <2>5
<1> QED
  BY <1>1, SessionInvariant, PTL

(* What a logged-in client keeps as its password is the one on file.       *)
THEOREM PasswordsAlwaysAgree == Spec => []PasswordsAgree
<1>1. ASSUME SessionInv
      PROVE  PasswordsAgree
  <2>1. SUFFICES ASSUME NEW c \in Clients, believes[c], doing[c] = "prompt",
                        uid[c] \notin disturbed
                 PROVE  pass[uid[c]] = pw[c]
    BY DEF PasswordsAgree
  <2>2. uid[c] \in Users \ disturbed
    BY <1>1, <2>1 DEF SessionInv, TypeOK, ClientsInv
  <2>3. Holder(c, uid[c])
    BY <1>1, <2>1 DEF SessionInv, ClientsInv, Holder, GrantOnItsWay
  <2> QED
    BY <1>1, <2>2, <2>3 DEF SessionInv, HoldersInv
<1> QED
  BY <1>1, SessionInvariant, PTL
===============================================================================
