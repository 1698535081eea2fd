----------------------------- MODULE AuctionServer -----------------------------
(***************************************************************************)
(* The auction server AS.  One process, Server, runs the select() loop:    *)
(* it serves every UDP request itself, without taking a lock, and forks a  *)
(* child for every TCP connection.  A child takes the flock() of           *)
(* server/auctions and then of server/users, serves one request, releases  *)
(* both and exits.  All the state is files, so what one process does       *)
(* between two system calls is what another may see in between: each       *)
(* action below is the code from one access of a shared file to the next.  *)
(*                                                                         *)
(* A file that fopen(.., "w") has created and fclose() has not yet flushed *)
(* is Blank; a file that does not exist is None.  Time is the wall clock   *)
(* in seconds; dates are left out.  Passing the syntax checks and the      *)
(* reads of a request from its socket are one step.                        *)
(***************************************************************************)
EXTENDS Integers, FiniteSets

CONSTANTS
  Users,       \* the UIDs that ever talk to the server
  Passwords,   \* the passwords they use
  Children,    \* slots for the forked children alive at one time
  Server,      \* the parent process
  None,        \* no file, no owner, nobody
  Blank,       \* a file created and not yet written
  MaxAid,      \* bound: auction identifiers are 1..MaxAid
  MaxValue,    \* bound: start values and bids are 0..MaxValue
  Durations,   \* the timeactive values that are asked for
  MaxTime,     \* bound: the clock stops here
  TcpOps,      \* the TCP requests clients send
  UdpOps,      \* the UDP requests clients send
  Faults       \* "io": file creation may fail; "kill": a process may be
               \* killed; "lock": lock_dir may fail

NoAid  == 0
Aids   == 1..MaxAid
Values == 0..MaxValue
Times  == 0..MaxTime
Procs  == Children \cup {Server}

(* What a START file holds of its auction; name and asset file are data.   *)
StartRecord == [host : Users, value : Values, active : Durations, at : Times]

(* Contents of a request: operation, user, password, value, timeactive.  A *)
(* field that an operation lacks has the value it has in NoRequest.        *)
RequestOf(o, u, p, v, d) == [op |-> o, uid |-> u, pw |-> p, value |-> v, active |-> d]
NoRequest == RequestOf("none", None, None, 0, 0)
Request ==
  [op : {"none"} \cup TcpOps \cup UdpOps, uid : Users \cup {None},
   pw : Passwords \cup {None}, value : Values, active : Durations \cup {0}]

Replies == {"ERR", "NLG", "NOK", "OK", "ACC", "REF", "ILG", "EAU", "EOW", "END"}

ASSUME ConstantsAssumption ==
  /\ Server \notin Children
  /\ None # Blank
  /\ None \notin Users \cup Passwords \cup Children \cup {Server} \cup Int
  /\ Blank \notin Users \cup Passwords \cup Int
  /\ {None, Blank} \cap StartRecord = {}
  /\ MaxAid \in Nat /\ MaxValue \in Nat /\ MaxTime \in Nat
  /\ Durations \subseteq Nat
  /\ TcpOps \subseteq {"OPA", "CLS", "SAS", "BID"}
  /\ UdpOps \subseteq {"LIN", "LOU", "UNR", "LMA", "LMB", "LST", "SRC"}
  /\ Faults \subseteq {"io", "kill", "lock"}

VARIABLES
  now,      \* the wall clock
  pass,     \* users/<uid>/pass.txt
  login,    \* whether users/<uid>/login.txt exists
  hosted,   \* the AIDs with a file in users/<uid>/hosted
  bidded,   \* the AIDs with a file in users/<uid>/bidded
  dirs,     \* the AIDs with a directory in auctions
  start,    \* auctions/<aid>/START_<aid>.txt
  bids,     \* auctions/<aid>/bids/<value>.txt: None, Blank or the bidder
  end,      \* auctions/<aid>/END_<aid>.txt: None, Blank or end_sec_time
  lockA,    \* who holds the flock of auctions
  lockU,    \* who holds the flock of users
  pc,       \* where each process is
  req,      \* the request each process serves
  aid,      \* the auction each process works on
  secs,     \* the end_sec_time a process is about to write
  todo,     \* the auctions a list request has yet to examine
  reply     \* the status a child has sent to its client

userVars    == <<pass, login, hosted, bidded>>
auctionVars == <<dirs, start, bids, end>>
lockVars    == <<lockA, lockU>>
localVars   == <<req, aid, secs, todo>>
vars == <<now, userVars, auctionVars, lockVars, pc, localVars, reply>>

(* Where a child is while it holds the lock of auctions.                   *)
WorkLabels ==
  {"read", "sendAsset", "user", "pass", "login", "host", "dirs", "start", "startWrite",
   "asset", "own", "oaEnd", "oaStart", "oaCreate", "oaWrite", "close",
   "closeWrite", "bid", "bidCreate", "bidWrite", "bidUser", "unlockA"}
LockedLabels == WorkLabels \cup {"lockU"}
Labels ==
  LockedLabels \cup {"idle", "lockA", "unlockU", "select", "down", "sendto", "linPass",
                     "linLogin", "unrLogin", "list", "src", "srcEnd"}
-------------------------------------------------------------------------------
(* Helpers.                                                                *)

Transition(p, from, to) == pc[p] = from /\ pc' = [pc EXCEPT ![p] = to]

Goto(p, l) == pc' = [pc EXCEPT ![p] = l] /\ UNCHANGED reply

(* write_tcp: the child sends its status and goes on to release the locks. *)
Reply(c, status) ==
  /\ pc' = [pc EXCEPT ![c] = "unlockA"]
  /\ reply' = [reply EXCEPT ![c] = status]

(* The locals of a process that has finished, or died, are gone.           *)
ClearLocals(p) ==
  /\ req' = [req EXCEPT ![p] = NoRequest]
  /\ aid' = [aid EXCEPT ![p] = NoAid]
  /\ secs' = [secs EXCEPT ![p] = 0]
  /\ reply' = [reply EXCEPT ![p] = None]
  /\ todo' = IF p = Server THEN {} ELSE todo

(* A process dies without returning from its handler.  The kernel releases *)
(* its locks.                                                              *)
Die(p) ==
  /\ pc' = [pc EXCEPT ![p] = IF p = Server THEN "down" ELSE "idle"]
  /\ lockA' = IF lockA = p THEN None ELSE lockA
  /\ lockU' = IF lockU = p THEN None ELSE lockU
  /\ ClearLocals(p)

(* What verify_password_correct may return for a user with a pass.txt: a   *)
(* Blank file leaves correct_pass uninitialized, so anything.              *)
PasswordChecks(u, p) == IF pass[u] = Blank THEN BOOLEAN ELSE {pass[u] = p}

Written(file) == file \notin {None, Blank}

(* Mutant: the time the auction is active is taken for the time it closes. *)
ActiveTime(a) == start[a].active

ClosingTime(a) == start[a].at + start[a].active

(* Mutant: the wrong directory of the user is searched.                    *)
BiddedBySelf(a, u) == a \in bidded[u]

HostedBySelf(a, u) == a \in hosted[u]

(* Mutant: the bids on record are not looked at.                           *)
BeatsZero(a, v) == v > 0

(* bid_accepted starts from a maximum of 0.                                *)
BeatsBids(a, v) == v > 0 /\ \A w \in Values : bids[a][w] # None => w < v

(* a is one more than the largest identifier in auctions, or 1.            *)
IsNextAuctionId(a) ==
  /\ \A b \in dirs : b < a
  /\ a = 1 \/ a - 1 \in dirs

-------------------------------------------------------------------------------
(* Children: accept, fork and the two directory locks.                     *)

(* Mutant: the child serves its request without lock_dir.                  *)
ForkUnlocked(c) ==
  /\ pc[Server] = "select"
  /\ Transition(c, "idle", "read")
  /\ UNCHANGED <<now, userVars, auctionVars, lockVars, localVars, reply>>

Fork(c) ==
  /\ pc[Server] = "select"
  /\ Transition(c, "idle", "lockA")
  /\ UNCHANGED <<now, userVars, auctionVars, lockVars, localVars, reply>>

(* lock_dir waits for the flock; if it fails the child goes on without it. *)
LockAuctions(c) ==
  /\ Transition(c, "lockA", "lockU")
  /\ \/ lockA = None /\ lockA' = c
     \/ "lock" \in Faults /\ UNCHANGED lockA
  /\ UNCHANGED <<now, userVars, auctionVars, lockU, localVars, reply>>

(* Mutant: auctions is locked again, through a descriptor of its own.      *)
LockAuctionsTwice(c) ==
  /\ Transition(c, "lockU", "read")
  /\ lockA = None
  /\ lockU' = c
  /\ UNCHANGED <<now, userVars, auctionVars, lockA, localVars, reply>>

LockUsers(c) ==
  /\ Transition(c, "lockU", "read")
  /\ \/ lockU = None /\ lockU' = c
     \/ "lock" \in Faults /\ UNCHANGED lockU
  /\ UNCHANGED <<now, userVars, auctionVars, lockA, localVars, reply>>

(* A request that is malformed, of no known kind, or still incomplete when *)
(* the receive timeout of the socket expires.                              *)
ReadNothing(c) ==
  /\ pc[c] = "read"
  /\ Reply(c, "ERR")
  /\ UNCHANGED <<now, userVars, auctionVars, lockVars, localVars>>

(* Bound: auctions are opened while identifiers up to MaxAid are left.      *)
RoomForAuction ==
  \A b \in dirs \cup {NoAid} :
    b + Cardinality({c \in Children : req[c].op = "OPA"}) < MaxAid

ReadOpen(c) ==
  /\ "OPA" \in TcpOps
  /\ RoomForAuction
  /\ Transition(c, "read", "user")
  /\ \E u \in Users, p \in Passwords, v \in Values, d \in Durations :
       req' = [req EXCEPT ![c] = RequestOf("OPA", u, p, v, d)]
  /\ UNCHANGED <<now, userVars, auctionVars, lockVars, aid, secs, todo, reply>>

ReadBid(c) ==
  /\ "BID" \in TcpOps
  /\ Transition(c, "read", "login")
  /\ \E u \in Users, p \in Passwords, v \in Values, a \in Aids :
       /\ req' = [req EXCEPT ![c] = RequestOf("BID", u, p, v, 0)]
       /\ aid' = [aid EXCEPT ![c] = a]
  /\ UNCHANGED <<now, userVars, auctionVars, lockVars, secs, todo, reply>>

ReadClose(c) ==
  /\ "CLS" \in TcpOps
  /\ Transition(c, "read", "login")
  /\ \E u \in Users, p \in Passwords, a \in Aids :
       /\ req' = [req EXCEPT ![c] = RequestOf("CLS", u, p, 0, 0)]
       /\ aid' = [aid EXCEPT ![c] = a]
  /\ UNCHANGED <<now, userVars, auctionVars, lockVars, secs, todo, reply>>

(* handle_show_asset changes no file; what it sends is data.  A directory  *)
(* without its asset subdirectory, which only a fault makes visible, kills *)
(* the child in readdir.                                                   *)
ShowAsset(c) ==
  /\ "SAS" \in TcpOps
  /\ pc[c] = "read"
  /\ \E a \in Aids :
       \/ /\ a \notin dirs
          /\ Reply(c, "NOK")
          /\ UNCHANGED <<lockVars, localVars>>
       \/ /\ a \in dirs
          /\ Goto(c, "sendAsset")
          /\ req' = [req EXCEPT ![c] = RequestOf("SAS", None, None, 0, 0)]
          /\ UNCHANGED <<lockVars, aid, secs, todo>>
       \/ a \in dirs /\ Faults # {} /\ Die(c)
  /\ UNCHANGED <<now, userVars, auctionVars>>

(* The asset may be large and there is no timeout on sending: the child is *)
(* here until the client has read it all.                                  *)
SendAsset(c) ==
  /\ pc[c] = "sendAsset"
  /\ Reply(c, "OK")
  /\ UNCHANGED <<now, userVars, auctionVars, lockVars, localVars>>

UnlockAuctions(c) ==
  /\ Transition(c, "unlockA", "unlockU")
  /\ lockA' = IF lockA = c THEN None ELSE lockA
  /\ UNCHANGED <<now, userVars, auctionVars, lockU, localVars, reply>>

(* The child releases users and exits.                                     *)
UnlockUsers(c) ==
  /\ Transition(c, "unlockU", "idle")
  /\ lockU' = IF lockU = c THEN None ELSE lockU
  /\ ClearLocals(c)
  /\ UNCHANGED <<now, userVars, auctionVars, lockA>>

-------------------------------------------------------------------------------
(* Children: the checks that OPA, BID and CLS share.                       *)

VerifyUserExists(c) ==
  /\ pc[c] = "user"
  /\ \/ pass[req[c].uid] = None  /\ Reply(c, "NOK")
     \/ pass[req[c].uid] # None  /\ Goto(c, "pass")
  /\ UNCHANGED <<now, userVars, auctionVars, lockVars, localVars>>

(* With pass.txt gone the handler closes a null FILE and the child dies.   *)
VerifyPassword(c) ==
  /\ pc[c] = "pass"
  /\ \/ /\ pass[req[c].uid] = None
        /\ Die(c)
     \/ /\ pass[req[c].uid] # None
        /\ \E matches \in PasswordChecks(req[c].uid, req[c].pw) :
             \/ ~matches /\ Reply(c, "NOK")
             \/ matches /\ Goto(c, CASE req[c].op = "OPA" -> "login"
                                     [] req[c].op = "BID" -> "oaEnd"
                                     [] req[c].op = "CLS" -> "own")
        /\ UNCHANGED <<lockVars, localVars>>
  /\ UNCHANGED <<now, userVars, auctionVars>>

IsUserLogin(c) ==
  /\ pc[c] = "login"
  /\ \/ ~login[req[c].uid] /\ Reply(c, "NLG")
     \/ login[req[c].uid] /\ Goto(c, IF req[c].op = "OPA" THEN "host" ELSE "pass")
  /\ UNCHANGED <<now, userVars, auctionVars, lockVars, localVars>>

-------------------------------------------------------------------------------
(* Children: create_auction.                                               *)

(* The next identifier is taken and a file put in the hosted directory.    *)
CreateHosted(c) ==
  /\ pc[c] = "host"
  /\ \/ \E a \in Aids :
          /\ IsNextAuctionId(a)
          /\ aid' = [aid EXCEPT ![c] = a]
          /\ hosted' = [hosted EXCEPT ![req[c].uid] = @ \cup {a}]
          /\ Goto(c, "dirs")
     \/ "io" \in Faults /\ Reply(c, "NOK") /\ UNCHANGED <<aid, hosted>>
  /\ UNCHANGED <<now, pass, login, bidded, auctionVars, lockVars, req, secs, todo>>

(* Mutant: a directory that exists is not an error.                        *)
MakeDirsAgain(c) ==
  /\ pc[c] = "dirs"
  /\ dirs' = dirs \cup {aid[c]}
  /\ Goto(c, "start")
  /\ UNCHANGED <<now, userVars, start, bids, end, lockVars, localVars>>

(* The three mkdir calls: the first fails if the directory exists.         *)
MakeDirs(c) ==
  /\ pc[c] = "dirs"
  /\ \/ aid[c] \notin dirs /\ dirs' = dirs \cup {aid[c]} /\ Goto(c, "start")
     \/ aid[c] \in dirs /\ UNCHANGED dirs /\ Reply(c, "NOK")
     \/ "io" \in Faults /\ dirs' \in {dirs, dirs \cup {aid[c]}} /\ Reply(c, "NOK")
  /\ UNCHANGED <<now, userVars, start, bids, end, lockVars, localVars>>

CreateStart(c) ==
  /\ pc[c] = "start"
  /\ \/ start' = [start EXCEPT ![aid[c]] = Blank] /\ Goto(c, "startWrite")
     \/ "io" \in Faults /\ UNCHANGED start /\ Reply(c, "NOK")
  /\ UNCHANGED <<now, userVars, dirs, bids, end, lockVars, localVars>>

WriteStart(c) ==
  /\ Transition(c, "startWrite", "asset")
  /\ start' = [start EXCEPT ![aid[c]] =
                 [host |-> req[c].uid, value |-> req[c].value,
                  active |-> req[c].active, at |-> now]]
  /\ UNCHANGED <<now, userVars, dirs, bids, end, lockVars, localVars, reply>>

(* Mutant: an auction whose asset does not arrive is taken back.           *)
StoreAssetOrUndo(c) ==
  /\ pc[c] = "asset"
  /\ \/ Reply(c, "OK") /\ UNCHANGED start
     \/ Reply(c, "NOK") /\ start' = [start EXCEPT ![aid[c]] = None]
  /\ UNCHANGED <<now, userVars, dirs, bids, end, lockVars, localVars>>

(* store_file fails when the client sends too little, too much, or stops.  *)
StoreAsset(c) ==
  /\ pc[c] = "asset"
  /\ \/ Reply(c, "OK")
     \/ Reply(c, "NOK")
  /\ UNCHANGED <<now, userVars, auctionVars, lockVars, localVars>>

-------------------------------------------------------------------------------
(* ongoing_auction, called by the children and by the parent: its caller   *)
(* goes on where the result takes it.                                      *)

OngoingReturns(p, ongoing) ==
  \/ req[p].op = "BID" /\ ongoing  /\ Goto(p, "bid")
  \/ req[p].op = "BID" /\ ~ongoing /\ Reply(p, "NOK")
  \/ req[p].op = "CLS" /\ ongoing  /\ Goto(p, "close")
  \/ req[p].op = "CLS" /\ ~ongoing /\ Reply(p, "END")
  \/ req[p].op \in {"LMA", "LMB", "LST"} /\ Goto(p, "list")
  \/ req[p].op = "SRC" /\ ongoing  /\ Goto(p, "sendto")
  \/ req[p].op = "SRC" /\ ~ongoing /\ Goto(p, "srcEnd")

(* Mutant: END is not looked for.                                          *)
SkipEnd(p) ==
  /\ pc[p] = "oaEnd"
  /\ Goto(p, "oaStart")
  /\ UNCHANGED <<now, userVars, auctionVars, lockVars, localVars>>

AccessEnd(p) ==
  /\ pc[p] = "oaEnd"
  /\ \/ end[aid[p]] # None /\ OngoingReturns(p, FALSE)
     \/ end[aid[p]] = None /\ Goto(p, "oaStart")
  /\ UNCHANGED <<now, userVars, auctionVars, lockVars, localVars>>

(* A Blank START leaves timeactive and start_fulltime uninitialized.       *)
ReadStart(p) ==
  /\ pc[p] = "oaStart"
  /\ \/ /\ start[aid[p]] = None
        /\ OngoingReturns(p, FALSE)
        /\ UNCHANGED secs
     \/ /\ start[aid[p]] = Blank \/ (Written(start[aid[p]]) /\ now < ClosingTime(aid[p]))
        /\ OngoingReturns(p, TRUE)
        /\ UNCHANGED secs
     \/ /\ Written(start[aid[p]]) /\ now >= ClosingTime(aid[p])
        /\ secs' = [secs EXCEPT ![p] = start[aid[p]].active]
        /\ Goto(p, "oaCreate")
     \/ /\ start[aid[p]] = Blank
        /\ \E garbage \in Times : secs' = [secs EXCEPT ![p] = garbage]
        /\ Goto(p, "oaCreate")
  /\ UNCHANGED <<now, userVars, auctionVars, lockVars, req, aid, todo>>

(* The auction is over: END is created, truncating one that appeared since.*)
CreateEnd(p) ==
  /\ pc[p] = "oaCreate"
  /\ \/ end' = [end EXCEPT ![aid[p]] = Blank] /\ Goto(p, "oaWrite")
     \/ "io" \in Faults /\ UNCHANGED end /\ OngoingReturns(p, FALSE)
  /\ UNCHANGED <<now, userVars, dirs, start, bids, lockVars, localVars>>

WriteEnd(p) ==
  /\ pc[p] = "oaWrite"
  /\ end' = [end EXCEPT ![aid[p]] = secs[p]]
  /\ OngoingReturns(p, FALSE)
  /\ UNCHANGED <<now, userVars, dirs, start, bids, lockVars, localVars>>

-------------------------------------------------------------------------------
(* Children: the rest of handle_bid.                                       *)

(* hosted_by_self, then the comparisons of bid_accepted.                   *)
CheckBid(c) ==
  LET a == aid[c]
      v == req[c].value
  IN
  /\ pc[c] = "bid"
  /\ \/ HostedBySelf(a, req[c].uid) /\ Reply(c, "ILG")
     \/ /\ ~HostedBySelf(a, req[c].uid)
        /\ \/ /\ Written(start[a]) /\ BeatsBids(a, v) /\ v > start[a].value
              /\ Goto(c, "bidCreate")
           \/ /\ Written(start[a]) => ~(BeatsBids(a, v) /\ v > start[a].value)
              /\ Reply(c, "REF")
           \/ /\ start[a] = Blank /\ BeatsBids(a, v)    \* start_value is uninitialized
              /\ Goto(c, "bidCreate")
  /\ UNCHANGED <<now, userVars, auctionVars, lockVars, localVars>>

CreateBid(c) ==
  /\ pc[c] = "bidCreate"
  /\ \/ bids' = [bids EXCEPT ![aid[c]][req[c].value] = Blank] /\ Goto(c, "bidWrite")
     \/ "io" \in Faults /\ UNCHANGED bids /\ Reply(c, "REF")
  /\ UNCHANGED <<now, userVars, dirs, start, end, lockVars, localVars>>

(* Mutant: the password is written in the place of the user.               *)
WriteBidPassword(c) ==
  /\ Transition(c, "bidWrite", "bidUser")
  /\ bids' = [bids EXCEPT ![aid[c]][req[c].value] = req[c].pw]
  /\ UNCHANGED <<now, userVars, dirs, start, end, lockVars, localVars, reply>>

WriteBid(c) ==
  /\ Transition(c, "bidWrite", "bidUser")
  /\ bids' = [bids EXCEPT ![aid[c]][req[c].value] = req[c].uid]
  /\ UNCHANGED <<now, userVars, dirs, start, end, lockVars, localVars, reply>>

(* Mutant: the file is created in hosted.                                  *)
CreateBidInHosted(c) ==
  /\ pc[c] = "bidUser"
  /\ hosted' = [hosted EXCEPT ![req[c].uid] = @ \cup {aid[c]}]
  /\ Reply(c, "ACC")
  /\ UNCHANGED <<now, pass, login, bidded, auctionVars, lockVars, localVars>>

CreateBidded(c) ==
  /\ pc[c] = "bidUser"
  /\ \/ /\ bidded' = [bidded EXCEPT ![req[c].uid] = @ \cup {aid[c]}]
        /\ Reply(c, "ACC")
     \/ "io" \in Faults /\ UNCHANGED bidded /\ Reply(c, "REF")
  /\ UNCHANGED <<now, pass, login, hosted, auctionVars, lockVars, localVars>>

-------------------------------------------------------------------------------
(* Children: the rest of handle_close.                                     *)

(* Mutant: the owner may close an auction that is over.                    *)
CheckOwnerOnly(c) ==
  /\ pc[c] = "own"
  /\ \/ aid[c] \notin dirs /\ Reply(c, "EAU")
     \/ aid[c] \in dirs /\ ~HostedBySelf(aid[c], req[c].uid) /\ Reply(c, "EOW")
     \/ aid[c] \in dirs /\ HostedBySelf(aid[c], req[c].uid) /\ Goto(c, "close")
  /\ UNCHANGED <<now, userVars, auctionVars, lockVars, localVars>>

CheckOwner(c) ==
  /\ pc[c] = "own"
  /\ \/ aid[c] \notin dirs /\ Reply(c, "EAU")
     \/ aid[c] \in dirs /\ ~HostedBySelf(aid[c], req[c].uid) /\ Reply(c, "EOW")
     \/ aid[c] \in dirs /\ HostedBySelf(aid[c], req[c].uid) /\ Goto(c, "oaEnd")
  /\ UNCHANGED <<now, userVars, auctionVars, lockVars, localVars>>

(* close_auction reads the clock and START, then creates END.  A Blank     *)
(* START leaves start_fulltime uninitialized.                              *)
CloseAuction(c) ==
  /\ pc[c] = "close"
  /\ \/ /\ start[aid[c]] # None
        /\ \E s \in IF start[aid[c]] = Blank THEN Times ELSE {now - start[aid[c]].at} :
             secs' = [secs EXCEPT ![c] = s]
        /\ end' = [end EXCEPT ![aid[c]] = Blank]
        /\ Goto(c, "closeWrite")
     \/ /\ start[aid[c]] # None => "io" \in Faults
        /\ Reply(c, "NOK")
        /\ UNCHANGED <<secs, end>>
  /\ UNCHANGED <<now, userVars, dirs, start, bids, lockVars, req, aid, todo>>

WriteClose(c) ==
  /\ pc[c] = "closeWrite"
  /\ end' = [end EXCEPT ![aid[c]] = secs[c]]
  /\ Reply(c, "OK")
  /\ UNCHANGED <<now, userVars, dirs, start, bids, lockVars, localVars>>

-------------------------------------------------------------------------------
(* The parent: login, logout and unregister.  It alone writes pass.txt and *)
(* login.txt, so a check and the change it guards are not separated.       *)

Receive(op, u, p) ==
  /\ op \in UdpOps
  /\ pc[Server] = "select"
  /\ req' = [req EXCEPT ![Server] = RequestOf(op, u, p, 0, 0)]

(* create_user truncates pass.txt first; for a user that exists login.txt  *)
(* is created if the password is right and it is not there.                *)
HandleLogin ==
  /\ \E u \in Users, p \in Passwords :
       /\ Receive("LIN", u, p)
       /\ \/ /\ pass[u] = None
             /\ pass' = [pass EXCEPT ![u] = Blank]
             /\ Goto(Server, "linPass")
          \/ /\ pass[u] = None /\ "io" \in Faults
             /\ Goto(Server, "sendto")
             /\ UNCHANGED pass
          \/ /\ pass[u] # None
             /\ \E matches \in PasswordChecks(u, p) :
                  Goto(Server, IF matches /\ ~login[u] THEN "linLogin" ELSE "sendto")
             /\ UNCHANGED pass
  /\ UNCHANGED <<now, login, hosted, bidded, auctionVars, lockVars, aid, secs, todo>>

WritePass ==
  /\ Transition(Server, "linPass", "linLogin")
  /\ pass' = [pass EXCEPT ![req[Server].uid] = req[Server].pw]
  /\ UNCHANGED <<now, login, hosted, bidded, auctionVars, lockVars, localVars, reply>>

(* If login.txt cannot be created the parent closes a null FILE and dies.  *)
CreateLogin ==
  /\ pc[Server] = "linLogin"
  /\ \/ /\ login' = [login EXCEPT ![req[Server].uid] = TRUE]
        /\ Goto(Server, "sendto")
        /\ UNCHANGED <<lockVars, localVars>>
     \/ "io" \in Faults /\ UNCHANGED login /\ Die(Server)
  /\ UNCHANGED <<now, pass, hosted, bidded, auctionVars>>

HandleLogout ==
  /\ \E u \in Users, p \in Passwords :
       /\ Receive("LOU", u, p)
       /\ \/ pass[u] = None /\ UNCHANGED login
          \/ /\ pass[u] # None
             /\ \E matches \in PasswordChecks(u, p) :
                  login' = [login EXCEPT ![u] = @ /\ ~matches]
       /\ Goto(Server, "sendto")
  /\ UNCHANGED <<now, pass, hosted, bidded, auctionVars, lockVars, aid, secs, todo>>

(* delete_user removes pass.txt, then login.txt; the auctions stay.        *)
HandleUnregister ==
  /\ \E u \in Users, p \in Passwords :
       /\ Receive("UNR", u, p)
       /\ \E matches \in IF pass[u] = None THEN {FALSE} ELSE PasswordChecks(u, p) :
            \/ /\ matches /\ login[u]
               /\ pass' = [pass EXCEPT ![u] = None]
               /\ Goto(Server, "unrLogin")
            \/ /\ ~(matches /\ login[u])
               /\ Goto(Server, "sendto")
               /\ UNCHANGED pass
  /\ UNCHANGED <<now, login, hosted, bidded, auctionVars, lockVars, aid, secs, todo>>

RemoveLogin ==
  /\ Transition(Server, "unrLogin", "sendto")
  /\ login' = [login EXCEPT ![req[Server].uid] = FALSE]
  /\ UNCHANGED <<now, pass, hosted, bidded, auctionVars, lockVars, localVars, reply>>

-------------------------------------------------------------------------------
(* The parent: the requests that list auctions or show one.                *)

(* A directory is read at once; its auctions are examined one by one.      *)
ListAuctions(auctions) ==
  /\ todo' = auctions
  /\ Goto(Server, IF auctions = {} THEN "sendto" ELSE "list")

HandleMyAuctions ==
  /\ \E u \in Users :
       /\ Receive("LMA", u, None)
       /\ ListAuctions(IF login[u] THEN hosted[u] ELSE {})
  /\ UNCHANGED <<now, userVars, auctionVars, lockVars, aid, secs>>

HandleMyBids ==
  /\ \E u \in Users :
       /\ Receive("LMB", u, None)
       /\ ListAuctions(IF login[u] THEN bidded[u] ELSE {})
  /\ UNCHANGED <<now, userVars, auctionVars, lockVars, aid, secs>>

HandleList ==
  /\ Receive("LST", None, None)
  /\ ListAuctions(dirs)
  /\ UNCHANGED <<now, userVars, auctionVars, lockVars, aid, secs>>

(* Mutant: the loop over the auctions does not advance.                    *)
SameListed ==
  /\ pc[Server] = "list"
  /\ \/ \E a \in todo :
          /\ \A b \in todo : a <= b
          /\ aid' = [aid EXCEPT ![Server] = a]
          /\ Goto(Server, "oaEnd")
     \/ todo = {} /\ Goto(Server, "sendto") /\ UNCHANGED aid
  /\ UNCHANGED <<now, userVars, auctionVars, lockVars, req, secs, todo>>

NextListed ==
  /\ pc[Server] = "list"
  /\ \/ \E a \in todo :
          /\ \A b \in todo : a <= b
          /\ aid' = [aid EXCEPT ![Server] = a]
          /\ todo' = todo \ {a}
          /\ Goto(Server, "oaEnd")
     \/ todo = {} /\ Goto(Server, "sendto") /\ UNCHANGED <<aid, todo>>
  /\ UNCHANGED <<now, userVars, auctionVars, lockVars, req, secs>>

HandleShowRecord ==
  /\ Receive("SRC", None, None)
  /\ \E a \in Aids :
       /\ aid' = [aid EXCEPT ![Server] = a]
       /\ Goto(Server, IF a \in dirs THEN "src" ELSE "sendto")
  /\ UNCHANGED <<now, userVars, auctionVars, lockVars, secs, todo>>

(* get_auc_info: START and the bids, then ongoing_auction, then END.       *)
ReadRecord ==
  /\ pc[Server] = "src"
  /\ Goto(Server, IF start[aid[Server]] = None THEN "sendto" ELSE "oaEnd")
  /\ UNCHANGED <<now, userVars, auctionVars, lockVars, localVars>>

ReadClosing ==
  /\ Transition(Server, "srcEnd", "sendto")
  /\ UNCHANGED <<now, userVars, auctionVars, lockVars, localVars, reply>>

ReplyMsg ==
  /\ Transition(Server, "sendto", "select")
  /\ ClearLocals(Server)
  /\ UNCHANGED <<now, userVars, auctionVars, lockVars>>

-------------------------------------------------------------------------------
(* The environment.                                                        *)

Kill(p) ==
  /\ "kill" \in Faults
  /\ pc[p] \notin {"idle", "down"}
  /\ Die(p)
  /\ UNCHANGED <<now, userVars, auctionVars>>

(* The operator starts the server again.  It cannot bind its UDP port      *)
(* while a child, which inherited the socket, is still alive.              *)
Restart ==
  /\ Transition(Server, "down", "select")
  /\ \A c \in Children : pc[c] = "idle"
  /\ UNCHANGED <<now, userVars, auctionVars, lockVars, localVars, reply>>

Tick ==
  /\ now < MaxTime
  /\ now' = now + 1
  /\ UNCHANGED <<userVars, auctionVars, lockVars, pc, localVars, reply>>

-------------------------------------------------------------------------------
(* Users and their logins survive a restart of the server; auctions do too *)
(* but a run starts with none.                                             *)

Init ==
  /\ now = 0
  /\ pass \in [Users -> Passwords \cup {None}]
  /\ login \in [Users -> BOOLEAN]
  /\ \A u \in Users : login[u] => pass[u] # None
  /\ hosted = [u \in Users |-> {}]
  /\ bidded = [u \in Users |-> {}]
  /\ dirs = {}
  /\ start = [a \in Aids |-> None]
  /\ bids = [a \in Aids |-> [v \in Values |-> None]]
  /\ end = [a \in Aids |-> None]
  /\ lockA = None
  /\ lockU = None
  /\ pc = [p \in Procs |-> IF p = Server THEN "select" ELSE "idle"]
  /\ req = [p \in Procs |-> NoRequest]
  /\ aid = [p \in Procs |-> NoAid]
  /\ secs = [p \in Procs |-> 0]
  /\ todo = {}
  /\ reply = [p \in Procs |-> None]

OngoingStep(p) == AccessEnd(p) \/ ReadStart(p) \/ CreateEnd(p) \/ WriteEnd(p)

ChildStep(c) ==
  \/ LockAuctions(c) \/ LockUsers(c)
  \/ ReadNothing(c) \/ ReadOpen(c) \/ ReadBid(c) \/ ReadClose(c) \/ ShowAsset(c)
  \/ VerifyUserExists(c) \/ VerifyPassword(c) \/ IsUserLogin(c)
  \/ CreateHosted(c) \/ MakeDirs(c) \/ CreateStart(c) \/ WriteStart(c) \/ StoreAsset(c)
  \/ CheckBid(c) \/ CreateBid(c) \/ WriteBid(c) \/ CreateBidded(c)
  \/ CheckOwner(c) \/ CloseAuction(c) \/ WriteClose(c)
  \/ OngoingStep(c)
  \/ UnlockAuctions(c) \/ UnlockUsers(c)

Receives ==
  \/ HandleLogin \/ HandleLogout \/ HandleUnregister
  \/ HandleMyAuctions \/ HandleMyBids \/ HandleList \/ HandleShowRecord

ServerStep ==
  \/ WritePass \/ CreateLogin \/ RemoveLogin
  \/ NextListed \/ ReadRecord \/ ReadClosing \/ ReplyMsg
  \/ OngoingStep(Server)

Next ==
  \/ \E c \in Children : Fork(c) \/ ChildStep(c) \/ SendAsset(c)
  \/ Receives
  \/ ServerStep
  \/ \E p \in Procs : Kill(p)
  \/ Restart
  \/ Tick

Spec == Init /\ [][Next]_vars

(* A process that can run does: a read of the request gives up after the   *)
(* socket's timeout.  Clients need not send requests, nor read an asset.   *)
Fairness == (\A c \in Children : WF_vars(ChildStep(c))) /\ WF_vars(ServerStep)

FairSpec == Spec /\ Fairness
===============================================================================
