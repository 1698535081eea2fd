-------------------------- MODULE AuctionServerProofs --------------------------
(***************************************************************************)
(* Proofs about the auction server.  Everything rests on Locals, which     *)
(* says what request and which auction a process has at each label; TypeOK *)
(* is not inductive without it.                                            *)
(***************************************************************************)
EXTENDS AuctionServerProperties, TLAPS

(* What req and aid hold, by operation and by label.                       *)
LocalsOf(p) ==
  /\ req[p].op \in {"OPA", "BID", "CLS", "LIN", "LOU", "UNR", "LMA", "LMB"} => req[p].uid \in Users
  /\ req[p].op \in {"LIN", "LOU", "UNR"} => req[p].pw \in Passwords
  /\ req[p].op = "OPA" => req[p].active \in Durations
  /\ req[p].op \in {"BID", "CLS"} => aid[p] \in Aids
  /\ pc[p] \in {"user", "host", "dirs", "start", "startWrite", "asset"} => req[p].op = "OPA"
  /\ pc[p] \in {"pass", "login"} => req[p].op \in {"OPA", "BID", "CLS"}
  /\ pc[p] \in {"own", "close", "closeWrite"} => req[p].op = "CLS"
  /\ pc[p] \in {"bid", "bidCreate", "bidWrite", "bidUser"} => req[p].op = "BID"
  /\ pc[p] \in {"oaEnd", "oaStart", "oaCreate", "oaWrite"} =>
       req[p].op \in {"BID", "CLS", "LMA", "LMB", "LST", "SRC"}
  /\ pc[p] \in {"dirs", "start", "startWrite", "oaEnd", "oaStart", "oaCreate", "oaWrite",
                "src", "srcEnd"} => aid[p] \in Aids
  /\ pc[p] \in {"linPass", "linLogin"} => req[p].op = "LIN"
  /\ pc[p] = "unrLogin" => req[p].op = "UNR"
  /\ pc[p] = "list" => req[p].op \in {"LMA", "LMB", "LST"}
  /\ pc[p] \in {"src", "srcEnd"} => req[p].op = "SRC"
Locals == \A p \in Procs : LocalsOf(p)

TypeInv == TypeOK /\ Locals

(* The initial files, locks and processes have their types.                *)
LEMMA TypeInit == Init => TypeInv
  BY ConstantsAssumption
  DEF Init, TypeInv, TypeOK, FilesTypeOK, ProcsTypeOK, Locals, LocalsOf, Procs, Labels,
      LockedLabels, WorkLabels,
      Times, Values, Aids, NoAid, NoRequest, RequestOf, Request, Replies

(* The locals of one process change at a time.                             *)
LEMMA LocalsFrame ==
  ASSUME Locals, NEW q \in Procs, LocalsOf(q)',
         \A p \in Procs \ {q} : pc'[p] = pc[p] /\ req'[p] = req[p] /\ aid'[p] = aid[p]
  PROVE  Locals'
  BY DEF Locals, LocalsOf

(* A request has the fields that it was made of.                           *)
LEMMA RequestType ==
  ASSUME NEW o \in {"none"} \cup TcpOps \cup UdpOps, NEW u \in Users \cup {None},
         NEW p \in Passwords \cup {None}, NEW v \in Values, NEW d \in Durations \cup {0}
  PROVE  /\ RequestOf(o, u, p, v, d) \in Request
         /\ RequestOf(o, u, p, v, d).op = o
         /\ RequestOf(o, u, p, v, d).uid = u
         /\ RequestOf(o, u, p, v, d).pw = p
         /\ RequestOf(o, u, p, v, d).active = d
  BY DEF RequestOf, Request

(* An idle process serves a request of no operation.                       *)
LEMMA NoRequestType == NoRequest \in Request /\ NoRequest.op = "none"
  BY ConstantsAssumption DEF NoRequest, RequestOf, Request, Values

(* The labels and the statuses that the actions name are labels and        *)
(* statuses.                                                               *)
LEMMA Names ==
  /\ \A l \in {"read", "sendAsset", "user", "pass", "login", "host", "dirs", "start",
               "startWrite", "asset", "own", "oaEnd", "oaStart", "oaCreate", "oaWrite",
               "close", "closeWrite", "bid", "bidCreate", "bidWrite", "bidUser", "unlockA",
               "lockU", "idle", "lockA", "unlockU", "select", "down", "sendto", "linPass",
               "linLogin", "unrLogin", "list", "src", "srcEnd"} : l \in Labels
  /\ \A s \in {"ERR", "NLG", "NOK", "OK", "ACC", "REF", "ILG", "EAU", "EOW", "END"} :
       s \in Replies
  BY DEF Labels, LockedLabels, WorkLabels, Replies

(* One step per action; each leaf is the action's own definition against   *)
(* the type of what it assigns.                                            *)
LEMMA TypeNext == TypeInv /\ [Next]_vars => TypeInv'
<1> SUFFICES ASSUME TypeInv, [Next]_vars PROVE TypeInv'
  OBVIOUS
<1> USE ConstantsAssumption
    DEF TypeInv, TypeOK, Transition, Goto, Reply, userVars, auctionVars, lockVars,
        localVars
<1>1. ASSUME NEW c \in Children, Fork(c) PROVE TypeInv'
  <2>1. FilesTypeOK'
    BY <1>1 DEF FilesTypeOK, Fork
  <2>2. ProcsTypeOK'
    BY <1>1, Names DEF ProcsTypeOK, Procs, Fork
  <2>3. c \in Procs /\ LocalsOf(c)'
    BY <1>1 DEF ProcsTypeOK, Procs, Locals, LocalsOf, Fork
  <2>4. \A q \in Procs \ {c} : pc'[q] = pc[q] /\ req'[q] = req[q] /\ aid'[q] = aid[q]
    BY <1>1 DEF ProcsTypeOK, Procs, Fork
  <2> QED
    BY <2>1, <2>2, <2>3, <2>4, LocalsFrame DEF TypeOK
<1>2. ASSUME NEW c \in Children, LockAuctions(c) PROVE TypeInv'
  <2>1. FilesTypeOK'
    BY <1>2 DEF FilesTypeOK, LockAuctions
  <2>2. ProcsTypeOK'
    BY <1>2, Names DEF ProcsTypeOK, Procs, LockAuctions
  <2>3. c \in Procs /\ LocalsOf(c)'
    BY <1>2 DEF ProcsTypeOK, Procs, Locals, LocalsOf, LockAuctions
  <2>4. \A q \in Procs \ {c} : pc'[q] = pc[q] /\ req'[q] = req[q] /\ aid'[q] = aid[q]
    BY <1>2 DEF ProcsTypeOK, Procs, LockAuctions
  <2> QED
    BY <2>1, <2>2, <2>3, <2>4, LocalsFrame DEF TypeOK
<1>3. ASSUME NEW c \in Children, LockUsers(c) PROVE TypeInv'
  <2>1. FilesTypeOK'
    BY <1>3 DEF FilesTypeOK, LockUsers
  <2>2. ProcsTypeOK'
    BY <1>3, Names DEF ProcsTypeOK, Procs, LockUsers
  <2>3. c \in Procs /\ LocalsOf(c)'
    BY <1>3 DEF ProcsTypeOK, Procs, Locals, LocalsOf, LockUsers
  <2>4. \A q \in Procs \ {c} : pc'[q] = pc[q] /\ req'[q] = req[q] /\ aid'[q] = aid[q]
    BY <1>3 DEF ProcsTypeOK, Procs, LockUsers
  <2> QED
    BY <2>1, <2>2, <2>3, <2>4, LocalsFrame DEF TypeOK
<1>4. ASSUME NEW c \in Children, ReadNothing(c) PROVE TypeInv'
  <2>1. FilesTypeOK'
    BY <1>4 DEF FilesTypeOK, ReadNothing
  <2>2. ProcsTypeOK'
    BY <1>4, Names DEF ProcsTypeOK, Procs, ReadNothing
  <2>3. c \in Procs /\ LocalsOf(c)'
    BY <1>4 DEF ProcsTypeOK, Procs, Locals, LocalsOf, ReadNothing
  <2>4. \A q \in Procs \ {c} : pc'[q] = pc[q] /\ req'[q] = req[q] /\ aid'[q] = aid[q]
    BY <1>4 DEF ProcsTypeOK, Procs, ReadNothing
  <2> QED
    BY <2>1, <2>2, <2>3, <2>4, LocalsFrame DEF TypeOK
<1>5. ASSUME NEW c \in Children, ReadOpen(c) PROVE TypeInv'
  <2>1. FilesTypeOK'
    BY <1>5 DEF FilesTypeOK, ReadOpen
  <2>2. ProcsTypeOK'
    BY <1>5, RequestType, Names DEF ProcsTypeOK, Procs, ReadOpen, Values
  <2>3. c \in Procs /\ LocalsOf(c)'
    BY <1>5, RequestType DEF ProcsTypeOK, Procs, Locals, LocalsOf, ReadOpen, Values
  <2>4. \A q \in Procs \ {c} : pc'[q] = pc[q] /\ req'[q] = req[q] /\ aid'[q] = aid[q]
    BY <1>5 DEF ProcsTypeOK, Procs, ReadOpen
  <2> QED
    BY <2>1, <2>2, <2>3, <2>4, LocalsFrame DEF TypeOK
<1>6. ASSUME NEW c \in Children, ReadBid(c) PROVE TypeInv'
  <2>1. FilesTypeOK'
    BY <1>6 DEF FilesTypeOK, ReadBid
  <2>2. ProcsTypeOK'
    BY <1>6, RequestType, Names DEF ProcsTypeOK, Procs, ReadBid, Values
  <2>3. c \in Procs /\ LocalsOf(c)'
    BY <1>6, RequestType DEF ProcsTypeOK, Procs, Locals, LocalsOf, ReadBid, Values
  <2>4. \A q \in Procs \ {c} : pc'[q] = pc[q] /\ req'[q] = req[q] /\ aid'[q] = aid[q]
    BY <1>6 DEF ProcsTypeOK, Procs, ReadBid
  <2> QED
    BY <2>1, <2>2, <2>3, <2>4, LocalsFrame DEF TypeOK
<1>7. ASSUME NEW c \in Children, ReadClose(c) PROVE TypeInv'
  <2>1. FilesTypeOK'
    BY <1>7 DEF FilesTypeOK, ReadClose
  <2>2. ProcsTypeOK'
    BY <1>7, RequestType, Names DEF ProcsTypeOK, Procs, ReadClose, Values
  <2>3. c \in Procs /\ LocalsOf(c)'
    BY <1>7, RequestType DEF ProcsTypeOK, Procs, Locals, LocalsOf, ReadClose, Values
  <2>4. \A q \in Procs \ {c} : pc'[q] = pc[q] /\ req'[q] = req[q] /\ aid'[q] = aid[q]
    BY <1>7 DEF ProcsTypeOK, Procs, ReadClose
  <2> QED
    BY <2>1, <2>2, <2>3, <2>4, LocalsFrame DEF TypeOK
<1>8. ASSUME NEW c \in Children, ShowAsset(c) PROVE TypeInv'
  <2>1. FilesTypeOK'
    BY <1>8 DEF FilesTypeOK, ShowAsset, Die, ClearLocals
  <2>2. ProcsTypeOK'
    BY <1>8, RequestType, NoRequestType, Names
    DEF ProcsTypeOK, Procs, ShowAsset, Die, ClearLocals, Values, NoAid
  <2>3. c \in Procs /\ LocalsOf(c)'
    BY <1>8, RequestType, NoRequestType
    DEF ProcsTypeOK, Procs, Locals, LocalsOf, ShowAsset, Die, ClearLocals, Values, NoAid
  <2>4. \A q \in Procs \ {c} : pc'[q] = pc[q] /\ req'[q] = req[q] /\ aid'[q] = aid[q]
    BY <1>8 DEF ProcsTypeOK, Procs, ShowAsset, Die, ClearLocals
  <2> QED
    BY <2>1, <2>2, <2>3, <2>4, LocalsFrame DEF TypeOK
<1>9. ASSUME NEW c \in Children, SendAsset(c) PROVE TypeInv'
  <2>1. FilesTypeOK'
    BY <1>9 DEF FilesTypeOK, SendAsset
  <2>2. ProcsTypeOK'
    BY <1>9, Names DEF ProcsTypeOK, Procs, SendAsset
  <2>3. c \in Procs /\ LocalsOf(c)'
    BY <1>9 DEF ProcsTypeOK, Procs, Locals, LocalsOf, SendAsset
  <2>4. \A q \in Procs \ {c} : pc'[q] = pc[q] /\ req'[q] = req[q] /\ aid'[q] = aid[q]
    BY <1>9 DEF ProcsTypeOK, Procs, SendAsset
  <2> QED
    BY <2>1, <2>2, <2>3, <2>4, LocalsFrame DEF TypeOK
<1>10. ASSUME NEW c \in Children, UnlockAuctions(c) PROVE TypeInv'
  <2>1. FilesTypeOK'
    BY <1>10 DEF FilesTypeOK, UnlockAuctions
  <2>2. ProcsTypeOK'
    BY <1>10, Names DEF ProcsTypeOK, Procs, UnlockAuctions
  <2>3. c \in Procs /\ LocalsOf(c)'
    BY <1>10 DEF ProcsTypeOK, Procs, Locals, LocalsOf, UnlockAuctions
  <2>4. \A q \in Procs \ {c} : pc'[q] = pc[q] /\ req'[q] = req[q] /\ aid'[q] = aid[q]
    BY <1>10 DEF ProcsTypeOK, Procs, UnlockAuctions
  <2> QED
    BY <2>1, <2>2, <2>3, <2>4, LocalsFrame DEF TypeOK
<1>11. ASSUME NEW c \in Children, UnlockUsers(c) PROVE TypeInv'
  <2>1. FilesTypeOK'
    BY <1>11 DEF FilesTypeOK, UnlockUsers, ClearLocals
  <2>2. ProcsTypeOK'
    BY <1>11, NoRequestType, Names DEF ProcsTypeOK, Procs, UnlockUsers, ClearLocals, NoAid
  <2>3. c \in Procs /\ LocalsOf(c)'
    BY <1>11, NoRequestType
    DEF ProcsTypeOK, Procs, Locals, LocalsOf, UnlockUsers, ClearLocals, NoAid
  <2>4. \A q \in Procs \ {c} : pc'[q] = pc[q] /\ req'[q] = req[q] /\ aid'[q] = aid[q]
    BY <1>11 DEF ProcsTypeOK, Procs, UnlockUsers, ClearLocals
  <2> QED
    BY <2>1, <2>2, <2>3, <2>4, LocalsFrame DEF TypeOK
<1>12. ASSUME NEW c \in Children, VerifyUserExists(c) PROVE TypeInv'
  <2>1. FilesTypeOK'
    BY <1>12 DEF FilesTypeOK, VerifyUserExists
  <2>2. ProcsTypeOK'
    BY <1>12, Names DEF ProcsTypeOK, Procs, VerifyUserExists
  <2>3. c \in Procs /\ LocalsOf(c)'
    BY <1>12 DEF ProcsTypeOK, Procs, Locals, LocalsOf, VerifyUserExists
  <2>4. \A q \in Procs \ {c} : pc'[q] = pc[q] /\ req'[q] = req[q] /\ aid'[q] = aid[q]
    BY <1>12 DEF ProcsTypeOK, Procs, VerifyUserExists
  <2> QED
    BY <2>1, <2>2, <2>3, <2>4, LocalsFrame DEF TypeOK
<1>13. ASSUME NEW c \in Children, VerifyPassword(c) PROVE TypeInv'
  <2>1. FilesTypeOK'
    BY <1>13 DEF FilesTypeOK, VerifyPassword, Die, ClearLocals
  <2>a. ASSUME pass[req[c].uid] = None PROVE ProcsTypeOK'
    <3>1. Die(c)
      BY <1>13, <2>a DEF VerifyPassword
    <3> QED
      BY <3>1, NoRequestType, Names DEF ProcsTypeOK, Procs, Die, ClearLocals, NoAid
  <2>b. ASSUME pass[req[c].uid] # None PROVE ProcsTypeOK'
    <3>1. req[c].op \in {"OPA", "BID", "CLS"}
      BY <1>13 DEF Procs, Locals, LocalsOf, VerifyPassword
    <3>2. /\ Reply(c, "NOK") \/ \E l \in {"login", "oaEnd", "own"} : Goto(c, l)
          /\ UNCHANGED <<lockA, lockU, req, aid, secs, todo>>
      BY <1>13, <2>b, <3>1 DEF VerifyPassword
    <3> QED
      BY <3>2, Names DEF ProcsTypeOK, Procs
  <2>2. ProcsTypeOK'
    BY <2>a, <2>b
  <2>3. c \in Procs /\ LocalsOf(c)'
    BY <1>13, NoRequestType
    DEF ProcsTypeOK, Procs, Locals, LocalsOf, VerifyPassword, Die, ClearLocals, NoAid
  <2>4. \A q \in Procs \ {c} : pc'[q] = pc[q] /\ req'[q] = req[q] /\ aid'[q] = aid[q]
    BY <1>13 DEF ProcsTypeOK, Procs, VerifyPassword, Die, ClearLocals
  <2> QED
    BY <2>1, <2>2, <2>3, <2>4, LocalsFrame DEF TypeOK
<1>14. ASSUME NEW c \in Children, IsUserLogin(c) PROVE TypeInv'
  <2>1. FilesTypeOK'
    BY <1>14 DEF FilesTypeOK, IsUserLogin
  <2>2. ProcsTypeOK'
    BY <1>14, Names DEF ProcsTypeOK, Procs, IsUserLogin
  <2>3. c \in Procs /\ LocalsOf(c)'
    BY <1>14 DEF ProcsTypeOK, Procs, Locals, LocalsOf, IsUserLogin
  <2>4. \A q \in Procs \ {c} : pc'[q] = pc[q] /\ req'[q] = req[q] /\ aid'[q] = aid[q]
    BY <1>14 DEF ProcsTypeOK, Procs, IsUserLogin
  <2> QED
    BY <2>1, <2>2, <2>3, <2>4, LocalsFrame DEF TypeOK
<1>15. ASSUME NEW c \in Children, CreateHosted(c) PROVE TypeInv'
  <2>1. FilesTypeOK'
    BY <1>15 DEF FilesTypeOK, ProcsTypeOK, Procs, Locals, LocalsOf, CreateHosted
  <2>2. ProcsTypeOK'
    BY <1>15, Names DEF ProcsTypeOK, Procs, CreateHosted
  <2>3. c \in Procs /\ LocalsOf(c)'
    BY <1>15 DEF ProcsTypeOK, Procs, Locals, LocalsOf, CreateHosted
  <2>4. \A q \in Procs \ {c} : pc'[q] = pc[q] /\ req'[q] = req[q] /\ aid'[q] = aid[q]
    BY <1>15 DEF ProcsTypeOK, Procs, CreateHosted
  <2> QED
    BY <2>1, <2>2, <2>3, <2>4, LocalsFrame DEF TypeOK
<1>16. ASSUME NEW c \in Children, MakeDirs(c) PROVE TypeInv'
  <2>1. FilesTypeOK'
    BY <1>16 DEF FilesTypeOK, ProcsTypeOK, Procs, Locals, LocalsOf, MakeDirs
  <2>2. ProcsTypeOK'
    BY <1>16, Names DEF ProcsTypeOK, Procs, MakeDirs
  <2>3. c \in Procs /\ LocalsOf(c)'
    BY <1>16 DEF ProcsTypeOK, Procs, Locals, LocalsOf, MakeDirs
  <2>4. \A q \in Procs \ {c} : pc'[q] = pc[q] /\ req'[q] = req[q] /\ aid'[q] = aid[q]
    BY <1>16 DEF ProcsTypeOK, Procs, MakeDirs
  <2> QED
    BY <2>1, <2>2, <2>3, <2>4, LocalsFrame DEF TypeOK
<1>17. ASSUME NEW c \in Children, CreateStart(c) PROVE TypeInv'
  <2>1. FilesTypeOK'
    BY <1>17 DEF FilesTypeOK, ProcsTypeOK, Procs, Locals, LocalsOf, CreateStart
  <2>2. ProcsTypeOK'
    BY <1>17, Names DEF ProcsTypeOK, Procs, CreateStart
  <2>3. c \in Procs /\ LocalsOf(c)'
    BY <1>17 DEF ProcsTypeOK, Procs, Locals, LocalsOf, CreateStart
  <2>4. \A q \in Procs \ {c} : pc'[q] = pc[q] /\ req'[q] = req[q] /\ aid'[q] = aid[q]
    BY <1>17 DEF ProcsTypeOK, Procs, CreateStart
  <2> QED
    BY <2>1, <2>2, <2>3, <2>4, LocalsFrame DEF TypeOK
<1>18. ASSUME NEW c \in Children, WriteStart(c) PROVE TypeInv'
  <2>a. req[c] \in Request /\ req[c].uid \in Users /\ req[c].active \in Durations
    BY <1>18 DEF ProcsTypeOK, Procs, Locals, LocalsOf, WriteStart
  <2>b. [host |-> req[c].uid, value |-> req[c].value, active |-> req[c].active, at |-> now]
          \in StartRecord
    BY <2>a DEF FilesTypeOK, Request, StartRecord
  <2>1. FilesTypeOK'
    BY <1>18, <2>b DEF FilesTypeOK, WriteStart
  <2>2. ProcsTypeOK'
    BY <1>18, Names DEF ProcsTypeOK, Procs, WriteStart, StartRecord
  <2>3. c \in Procs /\ LocalsOf(c)'
    BY <1>18 DEF ProcsTypeOK, Procs, Locals, LocalsOf, WriteStart, StartRecord
  <2>4. \A q \in Procs \ {c} : pc'[q] = pc[q] /\ req'[q] = req[q] /\ aid'[q] = aid[q]
    BY <1>18 DEF ProcsTypeOK, Procs, WriteStart
  <2> QED
    BY <2>1, <2>2, <2>3, <2>4, LocalsFrame DEF TypeOK
<1>19. ASSUME NEW c \in Children, StoreAsset(c) PROVE TypeInv'
  <2>1. FilesTypeOK'
    BY <1>19 DEF FilesTypeOK, StoreAsset
  <2>2. ProcsTypeOK'
    BY <1>19, Names DEF ProcsTypeOK, Procs, StoreAsset
  <2>3. c \in Procs /\ LocalsOf(c)'
    BY <1>19 DEF ProcsTypeOK, Procs, Locals, LocalsOf, StoreAsset
  <2>4. \A q \in Procs \ {c} : pc'[q] = pc[q] /\ req'[q] = req[q] /\ aid'[q] = aid[q]
    BY <1>19 DEF ProcsTypeOK, Procs, StoreAsset
  <2> QED
    BY <2>1, <2>2, <2>3, <2>4, LocalsFrame DEF TypeOK
<1>20. ASSUME NEW c \in Children, CheckBid(c) PROVE TypeInv'
  <2>1. FilesTypeOK'
    BY <1>20 DEF FilesTypeOK, CheckBid
  <2>2. ProcsTypeOK'
    BY <1>20, Names DEF ProcsTypeOK, Procs, CheckBid
  <2>3. c \in Procs /\ LocalsOf(c)'
    BY <1>20 DEF ProcsTypeOK, Procs, Locals, LocalsOf, CheckBid
  <2>4. \A q \in Procs \ {c} : pc'[q] = pc[q] /\ req'[q] = req[q] /\ aid'[q] = aid[q]
    BY <1>20 DEF ProcsTypeOK, Procs, CheckBid
  <2> QED
    BY <2>1, <2>2, <2>3, <2>4, LocalsFrame DEF TypeOK
<1>21. ASSUME NEW c \in Children, CreateBid(c) PROVE TypeInv'
  <2>a. req[c].uid \in Users /\ aid[c] \in Aids /\ req[c].value \in Values
    BY <1>21 DEF ProcsTypeOK, Procs, Locals, LocalsOf, Request, CreateBid
  <2>b. [bids EXCEPT ![aid[c]][req[c].value] = Blank]
          \in [Aids -> [Values -> Users \cup {None, Blank}]]
    BY <2>a DEF FilesTypeOK
  <2>c. bids' \in [Aids -> [Values -> Users \cup {None, Blank}]]
    BY <1>21, <2>b DEF FilesTypeOK, CreateBid
  <2>1. FilesTypeOK'
    BY <1>21, <2>c DEF FilesTypeOK, CreateBid
  <2>2. ProcsTypeOK'
    BY <1>21, Names DEF ProcsTypeOK, Procs, CreateBid
  <2>3. c \in Procs /\ LocalsOf(c)'
    BY <1>21 DEF ProcsTypeOK, Procs, Locals, LocalsOf, CreateBid
  <2>4. \A q \in Procs \ {c} : pc'[q] = pc[q] /\ req'[q] = req[q] /\ aid'[q] = aid[q]
    BY <1>21 DEF ProcsTypeOK, Procs, CreateBid
  <2> QED
    BY <2>1, <2>2, <2>3, <2>4, LocalsFrame DEF TypeOK
<1>22. ASSUME NEW c \in Children, WriteBid(c) PROVE TypeInv'
  <2>1. FilesTypeOK'
    BY <1>22 DEF FilesTypeOK, ProcsTypeOK, Procs, Locals, LocalsOf, WriteBid
  <2>2. ProcsTypeOK'
    BY <1>22, Names DEF ProcsTypeOK, Procs, WriteBid
  <2>3. c \in Procs /\ LocalsOf(c)'
    BY <1>22 DEF ProcsTypeOK, Procs, Locals, LocalsOf, WriteBid
  <2>4. \A q \in Procs \ {c} : pc'[q] = pc[q] /\ req'[q] = req[q] /\ aid'[q] = aid[q]
    BY <1>22 DEF ProcsTypeOK, Procs, WriteBid
  <2> QED
    BY <2>1, <2>2, <2>3, <2>4, LocalsFrame DEF TypeOK
<1>23. ASSUME NEW c \in Children, CreateBidded(c) PROVE TypeInv'
  <2>1. FilesTypeOK'
    BY <1>23 DEF FilesTypeOK, ProcsTypeOK, Procs, Locals, LocalsOf, CreateBidded
  <2>2. ProcsTypeOK'
    BY <1>23, Names DEF ProcsTypeOK, Procs, CreateBidded
  <2>3. c \in Procs /\ LocalsOf(c)'
    BY <1>23 DEF ProcsTypeOK, Procs, Locals, LocalsOf, CreateBidded
  <2>4. \A q \in Procs \ {c} : pc'[q] = pc[q] /\ req'[q] = req[q] /\ aid'[q] = aid[q]
    BY <1>23 DEF ProcsTypeOK, Procs, CreateBidded
  <2> QED
    BY <2>1, <2>2, <2>3, <2>4, LocalsFrame DEF TypeOK
<1>24. ASSUME NEW c \in Children, CheckOwner(c) PROVE TypeInv'
  <2>1. FilesTypeOK'
    BY <1>24 DEF FilesTypeOK, CheckOwner
  <2>2. ProcsTypeOK'
    BY <1>24, Names DEF ProcsTypeOK, Procs, CheckOwner
  <2>3. c \in Procs /\ LocalsOf(c)'
    BY <1>24 DEF ProcsTypeOK, Procs, Locals, LocalsOf, CheckOwner
  <2>4. \A q \in Procs \ {c} : pc'[q] = pc[q] /\ req'[q] = req[q] /\ aid'[q] = aid[q]
    BY <1>24 DEF ProcsTypeOK, Procs, CheckOwner
  <2> QED
    BY <2>1, <2>2, <2>3, <2>4, LocalsFrame DEF TypeOK
<1>25. ASSUME NEW c \in Children, CloseAuction(c) PROVE TypeInv'
  <2>1. FilesTypeOK'
    BY <1>25 DEF FilesTypeOK, ProcsTypeOK, Procs, Locals, LocalsOf, CloseAuction
  <2>a. start[aid[c]] \in StartRecord \cup {None, Blank}
    BY <1>25 DEF ProcsTypeOK, Procs, FilesTypeOK, Locals, LocalsOf, CloseAuction
  <2>b. start[aid[c]] \notin {None, Blank} => now - start[aid[c]].at \in Int
    BY <2>a DEF FilesTypeOK, StartRecord, Times
  <2>c. secs' \in [Procs -> Int]
    BY <1>25, <2>b DEF ProcsTypeOK, Procs, CloseAuction, Times
  <2>2. ProcsTypeOK'
    BY <1>25, <2>c, Names DEF ProcsTypeOK, Procs, CloseAuction
  <2>3. c \in Procs /\ LocalsOf(c)'
    BY <1>25 DEF ProcsTypeOK, Procs, Locals, LocalsOf, CloseAuction, StartRecord, Times
  <2>4. \A q \in Procs \ {c} : pc'[q] = pc[q] /\ req'[q] = req[q] /\ aid'[q] = aid[q]
    BY <1>25 DEF ProcsTypeOK, Procs, CloseAuction
  <2> QED
    BY <2>1, <2>2, <2>3, <2>4, LocalsFrame DEF TypeOK
<1>26. ASSUME NEW c \in Children, WriteClose(c) PROVE TypeInv'
  <2>1. FilesTypeOK'
    BY <1>26 DEF FilesTypeOK, ProcsTypeOK, Procs, Locals, LocalsOf, WriteClose
  <2>2. ProcsTypeOK'
    BY <1>26, Names DEF ProcsTypeOK, Procs, WriteClose
  <2>3. c \in Procs /\ LocalsOf(c)'
    BY <1>26 DEF ProcsTypeOK, Procs, Locals, LocalsOf, WriteClose
  <2>4. \A q \in Procs \ {c} : pc'[q] = pc[q] /\ req'[q] = req[q] /\ aid'[q] = aid[q]
    BY <1>26 DEF ProcsTypeOK, Procs, WriteClose
  <2> QED
    BY <2>1, <2>2, <2>3, <2>4, LocalsFrame DEF TypeOK
<1>27. ASSUME NEW p \in Procs, AccessEnd(p) PROVE TypeInv'
  <2>1. FilesTypeOK'
    BY <1>27 DEF FilesTypeOK, AccessEnd, OngoingReturns
  <2>2. ProcsTypeOK'
    BY <1>27, Names DEF ProcsTypeOK, Procs, AccessEnd, OngoingReturns
  <2>3. p \in Procs /\ LocalsOf(p)'
    BY <1>27 DEF ProcsTypeOK, Procs, Locals, LocalsOf, AccessEnd, OngoingReturns
  <2>4. \A q \in Procs \ {p} : pc'[q] = pc[q] /\ req'[q] = req[q] /\ aid'[q] = aid[q]
    BY <1>27 DEF ProcsTypeOK, Procs, AccessEnd, OngoingReturns
  <2> QED
    BY <2>1, <2>2, <2>3, <2>4, LocalsFrame DEF TypeOK
<1>28. ASSUME NEW p \in Procs, ReadStart(p) PROVE TypeInv'
  <2>1. FilesTypeOK'
    BY <1>28 DEF FilesTypeOK, ReadStart, OngoingReturns
  <2>a. start[aid[p]] \in StartRecord \cup {None, Blank}
    BY <1>28 DEF ProcsTypeOK, FilesTypeOK, Locals, LocalsOf, ReadStart
  <2>b. Written(start[aid[p]]) => start[aid[p]].active \in Int
    BY <2>a DEF Written, StartRecord
  <2>d. \/ secs' = secs
        \/ /\ Written(start[aid[p]])
           /\ secs' = [secs EXCEPT ![p] = start[aid[p]].active]
        \/ \E garbage \in Times : secs' = [secs EXCEPT ![p] = garbage]
    BY <1>28 DEF ReadStart
  <2>c. secs' \in [Procs -> Int]
    BY <2>b, <2>d DEF ProcsTypeOK, Times
  <2>2. ProcsTypeOK'
    BY <1>28, <2>c, Names DEF ProcsTypeOK, ReadStart, OngoingReturns
  <2>3. p \in Procs /\ LocalsOf(p)'
    BY <1>28
    DEF ProcsTypeOK, Procs, Locals, LocalsOf, ReadStart, OngoingReturns, StartRecord,
        Times, Written
  <2>4. \A q \in Procs \ {p} : pc'[q] = pc[q] /\ req'[q] = req[q] /\ aid'[q] = aid[q]
    BY <1>28 DEF ProcsTypeOK, Procs, ReadStart, OngoingReturns
  <2> QED
    BY <2>1, <2>2, <2>3, <2>4, LocalsFrame DEF TypeOK
<1>29. ASSUME NEW p \in Procs, CreateEnd(p) PROVE TypeInv'
  <2>1. FilesTypeOK'
    BY <1>29
    DEF FilesTypeOK, ProcsTypeOK, Procs, Locals, LocalsOf, CreateEnd, OngoingReturns
  <2>2. ProcsTypeOK'
    BY <1>29, Names DEF ProcsTypeOK, Procs, CreateEnd, OngoingReturns
  <2>3. p \in Procs /\ LocalsOf(p)'
    BY <1>29 DEF ProcsTypeOK, Procs, Locals, LocalsOf, CreateEnd, OngoingReturns
  <2>4. \A q \in Procs \ {p} : pc'[q] = pc[q] /\ req'[q] = req[q] /\ aid'[q] = aid[q]
    BY <1>29 DEF ProcsTypeOK, Procs, CreateEnd, OngoingReturns
  <2> QED
    BY <2>1, <2>2, <2>3, <2>4, LocalsFrame DEF TypeOK
<1>30. ASSUME NEW p \in Procs, WriteEnd(p) PROVE TypeInv'
  <2>1. FilesTypeOK'
    BY <1>30
    DEF FilesTypeOK, ProcsTypeOK, Procs, Locals, LocalsOf, WriteEnd, OngoingReturns
  <2>2. ProcsTypeOK'
    BY <1>30, Names DEF ProcsTypeOK, Procs, WriteEnd, OngoingReturns
  <2>3. p \in Procs /\ LocalsOf(p)'
    BY <1>30 DEF ProcsTypeOK, Procs, Locals, LocalsOf, WriteEnd, OngoingReturns
  <2>4. \A q \in Procs \ {p} : pc'[q] = pc[q] /\ req'[q] = req[q] /\ aid'[q] = aid[q]
    BY <1>30 DEF ProcsTypeOK, Procs, WriteEnd, OngoingReturns
  <2> QED
    BY <2>1, <2>2, <2>3, <2>4, LocalsFrame DEF TypeOK
<1>31. ASSUME NEW p \in Procs, Kill(p) PROVE TypeInv'
  <2>1. FilesTypeOK'
    BY <1>31 DEF FilesTypeOK, Kill, Die, ClearLocals
  <2>2. ProcsTypeOK'
    BY <1>31, NoRequestType, Names DEF ProcsTypeOK, Procs, Kill, Die, ClearLocals, NoAid
  <2>3. p \in Procs /\ LocalsOf(p)'
    BY <1>31, NoRequestType
    DEF ProcsTypeOK, Procs, Locals, LocalsOf, Kill, Die, ClearLocals, NoAid
  <2>4. \A q \in Procs \ {p} : pc'[q] = pc[q] /\ req'[q] = req[q] /\ aid'[q] = aid[q]
    BY <1>31 DEF ProcsTypeOK, Procs, Kill, Die, ClearLocals
  <2> QED
    BY <2>1, <2>2, <2>3, <2>4, LocalsFrame DEF TypeOK
<1>32. CASE HandleLogin
  <2>1. FilesTypeOK'
    BY <1>32 DEF FilesTypeOK, HandleLogin, Receive
  <2>2. ProcsTypeOK'
    BY <1>32, RequestType, Names DEF ProcsTypeOK, Procs, HandleLogin, Receive, Values
  <2>3. Server \in Procs /\ LocalsOf(Server)'
    BY <1>32, RequestType
    DEF ProcsTypeOK, Procs, Locals, LocalsOf, HandleLogin, Receive, Values
  <2>4. \A q \in Procs \ {Server} : pc'[q] = pc[q] /\ req'[q] = req[q] /\ aid'[q] = aid[q]
    BY <1>32 DEF ProcsTypeOK, Procs, HandleLogin, Receive
  <2> QED
    BY <2>1, <2>2, <2>3, <2>4, LocalsFrame DEF TypeOK
<1>33. CASE HandleLogout
  <2>1. FilesTypeOK'
    BY <1>33 DEF FilesTypeOK, HandleLogout, Receive
  <2>2. ProcsTypeOK'
    BY <1>33, RequestType, Names DEF ProcsTypeOK, Procs, HandleLogout, Receive, Values
  <2>3. Server \in Procs /\ LocalsOf(Server)'
    BY <1>33, RequestType
    DEF ProcsTypeOK, Procs, Locals, LocalsOf, HandleLogout, Receive, Values
  <2>4. \A q \in Procs \ {Server} : pc'[q] = pc[q] /\ req'[q] = req[q] /\ aid'[q] = aid[q]
    BY <1>33 DEF ProcsTypeOK, Procs, HandleLogout, Receive
  <2> QED
    BY <2>1, <2>2, <2>3, <2>4, LocalsFrame DEF TypeOK
<1>34. CASE HandleUnregister
  <2>1. FilesTypeOK'
    BY <1>34 DEF FilesTypeOK, HandleUnregister, Receive
  <2>2. ProcsTypeOK'
    BY <1>34, RequestType, Names DEF ProcsTypeOK, Procs, HandleUnregister, Receive, Values
  <2>3. Server \in Procs /\ LocalsOf(Server)'
    BY <1>34, RequestType
    DEF ProcsTypeOK, Procs, Locals, LocalsOf, HandleUnregister, Receive, Values
  <2>4. \A q \in Procs \ {Server} : pc'[q] = pc[q] /\ req'[q] = req[q] /\ aid'[q] = aid[q]
    BY <1>34 DEF ProcsTypeOK, Procs, HandleUnregister, Receive
  <2> QED
    BY <2>1, <2>2, <2>3, <2>4, LocalsFrame DEF TypeOK
<1>35. CASE HandleMyAuctions
  <2>1. FilesTypeOK'
    BY <1>35 DEF FilesTypeOK, HandleMyAuctions, ListAuctions, Receive
  <2>2. ProcsTypeOK'
    BY <1>35, RequestType, Names
    DEF ProcsTypeOK, Procs, FilesTypeOK, Locals, LocalsOf, HandleMyAuctions,
        ListAuctions, Receive, Values
  <2>3. Server \in Procs /\ LocalsOf(Server)'
    BY <1>35, RequestType
    DEF ProcsTypeOK, Procs, Locals, LocalsOf, HandleMyAuctions, ListAuctions, Receive,
        Values
  <2>4. \A q \in Procs \ {Server} : pc'[q] = pc[q] /\ req'[q] = req[q] /\ aid'[q] = aid[q]
    BY <1>35 DEF ProcsTypeOK, Procs, HandleMyAuctions, ListAuctions, Receive
  <2> QED
    BY <2>1, <2>2, <2>3, <2>4, LocalsFrame DEF TypeOK
<1>36. CASE HandleMyBids
  <2>1. FilesTypeOK'
    BY <1>36 DEF FilesTypeOK, HandleMyBids, ListAuctions, Receive
  <2>2. ProcsTypeOK'
    BY <1>36, RequestType, Names
    DEF ProcsTypeOK, Procs, FilesTypeOK, Locals, LocalsOf, HandleMyBids, ListAuctions,
        Receive, Values
  <2>3. Server \in Procs /\ LocalsOf(Server)'
    BY <1>36, RequestType
    DEF ProcsTypeOK, Procs, Locals, LocalsOf, HandleMyBids, ListAuctions, Receive,
        Values
  <2>4. \A q \in Procs \ {Server} : pc'[q] = pc[q] /\ req'[q] = req[q] /\ aid'[q] = aid[q]
    BY <1>36 DEF ProcsTypeOK, Procs, HandleMyBids, ListAuctions, Receive
  <2> QED
    BY <2>1, <2>2, <2>3, <2>4, LocalsFrame DEF TypeOK
<1>37. CASE HandleList
  <2>1. FilesTypeOK'
    BY <1>37 DEF FilesTypeOK, HandleList, ListAuctions, Receive
  <2>2. ProcsTypeOK'
    BY <1>37, RequestType, Names
    DEF ProcsTypeOK, Procs, FilesTypeOK, Locals, LocalsOf, HandleList, ListAuctions,
        Receive, Values
  <2>3. Server \in Procs /\ LocalsOf(Server)'
    BY <1>37, RequestType
    DEF ProcsTypeOK, Procs, Locals, LocalsOf, HandleList, ListAuctions, Receive, Values
  <2>4. \A q \in Procs \ {Server} : pc'[q] = pc[q] /\ req'[q] = req[q] /\ aid'[q] = aid[q]
    BY <1>37 DEF ProcsTypeOK, Procs, HandleList, ListAuctions, Receive
  <2> QED
    BY <2>1, <2>2, <2>3, <2>4, LocalsFrame DEF TypeOK
<1>38. CASE HandleShowRecord
  <2>1. FilesTypeOK'
    BY <1>38 DEF FilesTypeOK, HandleShowRecord, Receive
  <2>2. ProcsTypeOK'
    BY <1>38, RequestType, Names DEF ProcsTypeOK, Procs, HandleShowRecord, Receive, Values
  <2>3. Server \in Procs /\ LocalsOf(Server)'
    BY <1>38, RequestType
    DEF ProcsTypeOK, Procs, Locals, LocalsOf, HandleShowRecord, Receive, Values
  <2>4. \A q \in Procs \ {Server} : pc'[q] = pc[q] /\ req'[q] = req[q] /\ aid'[q] = aid[q]
    BY <1>38 DEF ProcsTypeOK, Procs, HandleShowRecord, Receive
  <2> QED
    BY <2>1, <2>2, <2>3, <2>4, LocalsFrame DEF TypeOK
<1>39. CASE WritePass
  <2>1. FilesTypeOK'
    BY <1>39 DEF FilesTypeOK, ProcsTypeOK, Procs, Locals, LocalsOf, WritePass
  <2>2. ProcsTypeOK'
    BY <1>39, Names DEF ProcsTypeOK, Procs, WritePass
  <2>3. Server \in Procs /\ LocalsOf(Server)'
    BY <1>39 DEF ProcsTypeOK, Procs, Locals, LocalsOf, WritePass
  <2>4. \A q \in Procs \ {Server} : pc'[q] = pc[q] /\ req'[q] = req[q] /\ aid'[q] = aid[q]
    BY <1>39 DEF ProcsTypeOK, Procs, WritePass
  <2> QED
    BY <2>1, <2>2, <2>3, <2>4, LocalsFrame DEF TypeOK
<1>40. CASE CreateLogin
  <2>1. FilesTypeOK'
    BY <1>40 DEF FilesTypeOK, CreateLogin, Die, ClearLocals
  <2>2. ProcsTypeOK'
    BY <1>40, NoRequestType, Names
    DEF ProcsTypeOK, Procs, CreateLogin, Die, ClearLocals, NoAid
  <2>3. Server \in Procs /\ LocalsOf(Server)'
    BY <1>40, NoRequestType
    DEF ProcsTypeOK, Procs, Locals, LocalsOf, CreateLogin, Die, ClearLocals, NoAid
  <2>4. \A q \in Procs \ {Server} : pc'[q] = pc[q] /\ req'[q] = req[q] /\ aid'[q] = aid[q]
    BY <1>40 DEF ProcsTypeOK, Procs, CreateLogin, Die, ClearLocals
  <2> QED
    BY <2>1, <2>2, <2>3, <2>4, LocalsFrame DEF TypeOK
<1>41. CASE RemoveLogin
  <2>1. FilesTypeOK'
    BY <1>41 DEF FilesTypeOK, RemoveLogin
  <2>2. ProcsTypeOK'
    BY <1>41, Names DEF ProcsTypeOK, Procs, RemoveLogin
  <2>3. Server \in Procs /\ LocalsOf(Server)'
    BY <1>41 DEF ProcsTypeOK, Procs, Locals, LocalsOf, RemoveLogin
  <2>4. \A q \in Procs \ {Server} : pc'[q] = pc[q] /\ req'[q] = req[q] /\ aid'[q] = aid[q]
    BY <1>41 DEF ProcsTypeOK, Procs, RemoveLogin
  <2> QED
    BY <2>1, <2>2, <2>3, <2>4, LocalsFrame DEF TypeOK
<1>42. CASE NextListed
  <2>1. FilesTypeOK'
    BY <1>42 DEF FilesTypeOK, NextListed
  <2>2. ProcsTypeOK'
    BY <1>42, Names DEF ProcsTypeOK, Procs, NextListed
  <2>3. Server \in Procs /\ LocalsOf(Server)'
    BY <1>42 DEF ProcsTypeOK, Procs, Locals, LocalsOf, NextListed
  <2>4. \A q \in Procs \ {Server} : pc'[q] = pc[q] /\ req'[q] = req[q] /\ aid'[q] = aid[q]
    BY <1>42 DEF ProcsTypeOK, Procs, NextListed
  <2> QED
    BY <2>1, <2>2, <2>3, <2>4, LocalsFrame DEF TypeOK
<1>43. CASE ReadRecord
  <2>1. FilesTypeOK'
    BY <1>43 DEF FilesTypeOK, ReadRecord
  <2>2. ProcsTypeOK'
    BY <1>43, Names DEF ProcsTypeOK, Procs, ReadRecord
  <2>3. Server \in Procs /\ LocalsOf(Server)'
    BY <1>43 DEF ProcsTypeOK, Procs, Locals, LocalsOf, ReadRecord
  <2>4. \A q \in Procs \ {Server} : pc'[q] = pc[q] /\ req'[q] = req[q] /\ aid'[q] = aid[q]
    BY <1>43 DEF ProcsTypeOK, Procs, ReadRecord
  <2> QED
    BY <2>1, <2>2, <2>3, <2>4, LocalsFrame DEF TypeOK
<1>44. CASE ReadClosing
  <2>1. FilesTypeOK'
    BY <1>44 DEF FilesTypeOK, ReadClosing
  <2>2. ProcsTypeOK'
    BY <1>44, Names DEF ProcsTypeOK, Procs, ReadClosing
  <2>3. Server \in Procs /\ LocalsOf(Server)'
    BY <1>44 DEF ProcsTypeOK, Procs, Locals, LocalsOf, ReadClosing
  <2>4. \A q \in Procs \ {Server} : pc'[q] = pc[q] /\ req'[q] = req[q] /\ aid'[q] = aid[q]
    BY <1>44 DEF ProcsTypeOK, Procs, ReadClosing
  <2> QED
    BY <2>1, <2>2, <2>3, <2>4, LocalsFrame DEF TypeOK
<1>45. CASE ReplyMsg
  <2>1. FilesTypeOK'
    BY <1>45 DEF FilesTypeOK, ReplyMsg, ClearLocals
  <2>2. ProcsTypeOK'
    BY <1>45, NoRequestType, Names DEF ProcsTypeOK, Procs, ReplyMsg, ClearLocals, NoAid
  <2>3. Server \in Procs /\ LocalsOf(Server)'
    BY <1>45, NoRequestType
    DEF ProcsTypeOK, Procs, Locals, LocalsOf, ReplyMsg, ClearLocals, NoAid
  <2>4. \A q \in Procs \ {Server} : pc'[q] = pc[q] /\ req'[q] = req[q] /\ aid'[q] = aid[q]
    BY <1>45 DEF ProcsTypeOK, Procs, ReplyMsg, ClearLocals
  <2> QED
    BY <2>1, <2>2, <2>3, <2>4, LocalsFrame DEF TypeOK
<1>46. CASE Tick
  <2>1. FilesTypeOK'
    BY <1>46 DEF FilesTypeOK, Tick, Times
  <2>2. ProcsTypeOK'
    BY <1>46, Names DEF ProcsTypeOK, Procs, Tick, Times
  <2>3. Server \in Procs /\ LocalsOf(Server)'
    BY <1>46 DEF ProcsTypeOK, Procs, Locals, LocalsOf, Tick, Times
  <2>4. \A q \in Procs \ {Server} : pc'[q] = pc[q] /\ req'[q] = req[q] /\ aid'[q] = aid[q]
    BY <1>46 DEF ProcsTypeOK, Procs, Tick
  <2> QED
    BY <2>1, <2>2, <2>3, <2>4, LocalsFrame DEF TypeOK
<1>47. CASE Restart
  <2>1. FilesTypeOK'
    BY <1>47 DEF FilesTypeOK, Restart
  <2>2. ProcsTypeOK'
    BY <1>47, Names DEF ProcsTypeOK, Procs, Restart
  <2>3. Server \in Procs /\ LocalsOf(Server)'
    BY <1>47 DEF ProcsTypeOK, Procs, Locals, LocalsOf, Restart
  <2>4. \A q \in Procs \ {Server} : pc'[q] = pc[q] /\ req'[q] = req[q] /\ aid'[q] = aid[q]
    BY <1>47 DEF ProcsTypeOK, Procs, Restart
  <2> QED
    BY <2>1, <2>2, <2>3, <2>4, LocalsFrame DEF TypeOK
<1>48. CASE UNCHANGED vars
  BY <1>48 DEF vars, TypeOK, FilesTypeOK, ProcsTypeOK, Locals, LocalsOf
<1> QED
  BY <1>1, <1>2, <1>3, <1>4, <1>5, <1>6, <1>7, <1>8, <1>9, <1>10, <1>11,
     <1>12, <1>13, <1>14, <1>15, <1>16, <1>17, <1>18, <1>19, <1>20, <1>21,
     <1>22, <1>23, <1>24, <1>25, <1>26, <1>27, <1>28, <1>29, <1>30, <1>31,
     <1>32, <1>33, <1>34, <1>35, <1>36, <1>37, <1>38, <1>39, <1>40, <1>41,
     <1>42, <1>43, <1>44, <1>45, <1>46, <1>47, <1>48
  DEF Procs, Next, ChildStep, OngoingStep, Receives, ServerStep

(* Every reachable state has the types; for all values of the constants.   *)
THEOREM TypeCorrect == Spec => []TypeOK
<1>1. Spec => []TypeInv
  BY TypeInit, TypeNext, PTL DEF Spec
<1> QED
  BY <1>1, PTL DEF TypeInv

-------------------------------------------------------------------------------
(* Mutual exclusion, where lock_dir does not fail: the owner of the lock   *)
(* is the child that runs.                                                 *)

LockInv == \A c \in Children : pc[c] \in LockedLabels => lockA = c

(* Most steps leave the lock alone and bring nobody to a place behind it.  *)
LockKept ==
  /\ lockA' = lockA
  /\ \A c \in Children : pc'[c] \in LockedLabels => pc[c] \in LockedLabels

(* A step either keeps the lock as it is, or takes it, or is that of a     *)
(* child that gives it up or dies.                                         *)
LEMMA LockSteps ==
  ASSUME TypeInv, [Next]_vars, "lock" \notin Faults
  PROVE  \/ LockKept
         \/ \E c \in Children : LockAuctions(c) \/ UnlockAuctions(c) \/ Die(c)
<1> USE ConstantsAssumption
    DEF TypeInv, TypeOK, ProcsTypeOK, Procs, LockKept, LockedLabels, WorkLabels,
        Transition, Goto, Reply, lockVars
<1>1. ASSUME NEW c \in Children, 
             Fork(c) \/ LockUsers(c) \/ ReadNothing(c) \/ ReadOpen(c) \/ ReadBid(c)
               \/ ReadClose(c) \/ SendAsset(c) \/ UnlockUsers(c)
      PROVE  LockKept
  BY <1>1 DEF Fork, LockUsers, ReadNothing, ReadOpen, ReadBid, ReadClose, SendAsset,
              UnlockUsers, ClearLocals
<1>2. ASSUME NEW c \in Children, ShowAsset(c) PROVE LockKept \/ Die(c)
  BY <1>2 DEF ShowAsset
<1>3. ASSUME NEW c \in Children, VerifyPassword(c) PROVE LockKept \/ Die(c)
  <2>1. req[c].op \in {"OPA", "BID", "CLS"}
    BY <1>3 DEF Locals, LocalsOf, VerifyPassword
  <2> QED
    BY <1>3, <2>1 DEF VerifyPassword
<1>4. ASSUME NEW c \in Children,
             VerifyUserExists(c) \/ IsUserLogin(c) \/ CreateHosted(c) \/ MakeDirs(c)
               \/ CreateStart(c) \/ WriteStart(c) \/ StoreAsset(c)
      PROVE  LockKept
  BY <1>4 DEF VerifyUserExists, IsUserLogin, CreateHosted, MakeDirs, CreateStart,
              WriteStart, StoreAsset
<1>5. ASSUME NEW c \in Children,
             CheckBid(c) \/ CreateBid(c) \/ WriteBid(c) \/ CreateBidded(c)
               \/ CheckOwner(c) \/ CloseAuction(c) \/ WriteClose(c)
      PROVE  LockKept
  BY <1>5 DEF CheckBid, CreateBid, WriteBid, CreateBidded, CheckOwner, CloseAuction,
              WriteClose
<1>6. ASSUME NEW p \in Procs, OngoingStep(p) PROVE LockKept
  BY <1>6 DEF OngoingStep, AccessEnd, ReadStart, CreateEnd, WriteEnd, OngoingReturns
<1>7. ASSUME Receives PROVE LockKept
  <2>1. CASE HandleLogin
    BY <2>1 DEF HandleLogin
  <2>3. CASE HandleLogout
    BY <2>3 DEF HandleLogout
  <2>4. CASE HandleUnregister
    BY <2>4 DEF HandleUnregister
  <2>2. CASE HandleMyAuctions \/ HandleMyBids \/ HandleList \/ HandleShowRecord
    BY <2>2 DEF HandleMyAuctions, HandleMyBids, HandleList, HandleShowRecord, ListAuctions
  <2> QED
    BY <1>7, <2>1, <2>2, <2>3, <2>4 DEF Receives
<1>8. CASE WritePass \/ CreateLogin \/ RemoveLogin \/ NextListed \/ ReadRecord
             \/ ReadClosing \/ ReplyMsg
  BY <1>8 DEF WritePass, CreateLogin, RemoveLogin, NextListed, ReadRecord, ReadClosing,
              ReplyMsg, Die, ClearLocals
<1>9. ASSUME NEW p \in Procs, Kill(p) PROVE LockKept \/ (p \in Children /\ Die(p))
  <2>1. CASE p = Server
    BY <1>9, <2>1 DEF Kill, Die
  <2> QED
    BY <1>9, <2>1 DEF Kill
<1>10. CASE Restart \/ Tick \/ UNCHANGED vars
  BY <1>10 DEF Restart, Tick, vars
<1> QED
  BY <1>1, <1>2, <1>3, <1>4, <1>5, <1>6, <1>7, <1>8, <1>9, <1>10
  DEF Next, ChildStep, ServerStep

(* At first no child is behind the lock.                                   *)
LEMMA LockInit == Init => LockInv
  BY DEF Init, LockInv, Procs, LockedLabels, WorkLabels

(* A child takes the lock only when nobody has it, so that, by LockInv, no *)
(* other child is behind it.                                               *)
LEMMA LockNext ==
  ASSUME TypeInv, LockInv, [Next]_vars, "lock" \notin Faults
  PROVE  LockInv'
<1> USE DEF TypeInv, TypeOK, ProcsTypeOK, Procs, LockInv
<1>1. CASE LockKept
  BY <1>1 DEF LockKept
<1>2. ASSUME NEW c \in Children, LockAuctions(c) PROVE LockInv'
  <2>1. lockA = None /\ lockA' = c /\ pc' = [pc EXCEPT ![c] = "lockU"]
    BY <1>2 DEF LockAuctions, Transition
  <2>2. \A d \in Children : pc[d] \notin LockedLabels
    BY <2>1, ConstantsAssumption
  <2> QED
    BY <2>1, <2>2
<1>3. ASSUME NEW c \in Children, UnlockAuctions(c) \/ Die(c) PROVE LockInv'
  <2>1. /\ pc'[c] \notin LockedLabels
        /\ \A d \in Children \ {c} : pc'[d] = pc[d]
        /\ lockA' = lockA \/ lockA = c
    BY <1>3, ConstantsAssumption
    DEF UnlockAuctions, Die, Transition, LockedLabels, WorkLabels
  <2> QED
    BY <2>1
<1> QED
  BY <1>1, <1>2, <1>3, LockSteps

(* Without a lock_dir that fails, children exclude each other.             *)
THEOREM LockSafe == "lock" \notin Faults => (Spec => []MutualExclusion)
<1> SUFFICES ASSUME "lock" \notin Faults PROVE Spec => []MutualExclusion
  OBVIOUS
<1>1. LockInv => MutualExclusion
  BY DEF LockInv, MutualExclusion, LockedLabels
<1>2. TypeInv /\ LockInv /\ [Next]_vars => (TypeInv /\ LockInv)'
  BY TypeNext, LockNext
<1> QED
  BY <1>1, <1>2, TypeInit, LockInit, PTL DEF Spec

-------------------------------------------------------------------------------
(* The rest is about the files that hold an auction.  Eight actions of a   *)
(* child carry the arguments; the others are quiet.                        *)

AuctionLabels == {"dirs", "start", "startWrite", "bid", "bidCreate", "bidWrite"}

QuietStep ==
  /\ UNCHANGED <<hosted, dirs, start, bids>>
  /\ \A c \in Children :
       \/ pc'[c] = pc[c] /\ req'[c] = req[c] /\ aid'[c] = aid[c]
       \/ pc'[c] \notin AuctionLabels

AuctionStep(c) ==
  \/ CreateHosted(c) \/ MakeDirs(c) \/ CreateStart(c) \/ WriteStart(c)
  \/ ReadStart(c) \/ CheckBid(c) \/ CreateBid(c) \/ WriteBid(c)

(* Whatever a step does, it is quiet or one of the eight.                  *)
LEMMA StepKinds ==
  ASSUME TypeInv, [Next]_vars
  PROVE  QuietStep \/ \E c \in Children : AuctionStep(c)
<1> USE ConstantsAssumption
    DEF TypeInv, TypeOK, ProcsTypeOK, Procs, QuietStep, AuctionLabels,
        Transition, Goto, Reply, userVars, auctionVars, localVars
<1>1. ASSUME NEW c \in Children,
             Fork(c) \/ LockAuctions(c) \/ LockUsers(c) \/ ReadNothing(c) \/ ReadOpen(c)
               \/ ReadBid(c) \/ ReadClose(c)
      PROVE  QuietStep
  BY <1>1 DEF Fork, LockAuctions, LockUsers, ReadNothing, ReadOpen, ReadBid, ReadClose
<1>2. ASSUME NEW c \in Children,
             ShowAsset(c) \/ SendAsset(c) \/ UnlockAuctions(c) \/ UnlockUsers(c)
      PROVE  QuietStep
  BY <1>2 DEF ShowAsset, SendAsset, UnlockAuctions, UnlockUsers, Die, ClearLocals
<1>3. ASSUME NEW c \in Children, VerifyPassword(c) PROVE QuietStep
  <2>1. req[c].op \in {"OPA", "BID", "CLS"}
    BY <1>3 DEF Locals, LocalsOf, VerifyPassword
  <2> QED
    BY <1>3, <2>1 DEF VerifyPassword, Die, ClearLocals
<1>4. ASSUME NEW c \in Children,
             VerifyUserExists(c) \/ IsUserLogin(c) \/ StoreAsset(c) \/ CreateBidded(c)
               \/ CheckOwner(c) \/ CloseAuction(c) \/ WriteClose(c)
      PROVE  QuietStep
  BY <1>4 DEF VerifyUserExists, IsUserLogin, StoreAsset, CreateBidded, CheckOwner,
              CloseAuction, WriteClose
<1>5. ASSUME NEW p \in Procs, AccessEnd(p) \/ CreateEnd(p) \/ WriteEnd(p) PROVE QuietStep
  BY <1>5 DEF AccessEnd, CreateEnd, WriteEnd, OngoingReturns
<1>6. ASSUME ReadStart(Server) PROVE QuietStep
  BY <1>6 DEF ReadStart, OngoingReturns
<1>7. ASSUME Receives PROVE QuietStep
  <2>1. CASE HandleLogin
    BY <2>1 DEF HandleLogin, Receive
  <2>3. CASE HandleLogout
    BY <2>3 DEF HandleLogout, Receive
  <2>4. CASE HandleUnregister
    BY <2>4 DEF HandleUnregister, Receive
  <2>2. CASE HandleMyAuctions \/ HandleMyBids \/ HandleList \/ HandleShowRecord
    BY <2>2 DEF HandleMyAuctions, HandleMyBids, HandleList, HandleShowRecord,
                ListAuctions, Receive
  <2> QED
    BY <1>7, <2>1, <2>2, <2>3, <2>4 DEF Receives
<1>8. ASSUME WritePass \/ CreateLogin \/ RemoveLogin \/ NextListed \/ ReadRecord
               \/ ReadClosing \/ ReplyMsg
      PROVE  QuietStep
  BY <1>8 DEF WritePass, CreateLogin, RemoveLogin, NextListed, ReadRecord, ReadClosing,
              ReplyMsg, Die, ClearLocals
<1>9. ASSUME NEW p \in Procs, Kill(p) PROVE QuietStep
  BY <1>9 DEF Kill, Die, ClearLocals
<1>10. CASE Restart \/ Tick \/ UNCHANGED vars
  BY <1>10 DEF Restart, Tick, vars
<1> QED
  BY <1>1, <1>2, <1>3, <1>4, <1>5, <1>6, <1>7, <1>8, <1>9, <1>10
  DEF Next, ChildStep, ServerStep, OngoingStep, AuctionStep

-------------------------------------------------------------------------------
(* Hosts and bidders, whatever faults happen: a directory comes before the *)
(* files in it, the hosted file before the directory, and mkdir gives a    *)
(* directory to one child only.                                            *)

FilesInDirs ==
  \A a \in Aids : start[a] # None \/ (\E v \in Values : bids[a][v] # None) => a \in dirs

HostsKnown ==
  \A a \in Aids :
    /\ Written(start[a]) => a \in hosted[start[a].host]
    /\ \A v \in Values, u \in Users : bids[a][v] = u => a \notin hosted[u]

ChildKnows(c) ==
  /\ pc[c] \in {"dirs", "start", "startWrite"} => aid[c] \in hosted[req[c].uid]
  /\ pc[c] \in {"start", "startWrite"} => aid[c] \in dirs /\ ~Written(start[aid[c]])
  /\ pc[c] = "bid" => aid[c] \in dirs
  /\ pc[c] \in {"bidCreate", "bidWrite"} => aid[c] \in dirs /\ aid[c] \notin hosted[req[c].uid]
ChildrenKnow == \A c \in Children : ChildKnows(c)

OneOpener ==
  \A c, d \in Children :
    /\ pc[c] \in {"start", "startWrite"}
    /\ pc[d] \in {"start", "startWrite"}
    /\ aid[c] = aid[d]
    => c = d

HostInv == FilesInDirs /\ HostsKnown /\ ChildrenKnow /\ OneOpener

(* At first there are no auctions and no children.                         *)
LEMMA HostInit == Init => HostInv
  BY ConstantsAssumption
  DEF Init, HostInv, FilesInDirs, HostsKnown, ChildrenKnow, ChildKnows, OneOpener,
      Written, Procs

(* One step per kind of step; the child that acts is the only one whose    *)
(* label, request and auction change.                                      *)
LEMMA HostNext == ASSUME TypeInv, HostInv, [Next]_vars PROVE HostInv'
<1> USE ConstantsAssumption
    DEF TypeInv, TypeOK, FilesTypeOK, ProcsTypeOK, Procs, HostInv, ChildrenKnow
<1>1. CASE QuietStep
  <2>1. FilesInDirs' /\ HostsKnown'
    BY <1>1 DEF QuietStep, FilesInDirs, HostsKnown
  <2>2. ASSUME NEW c \in Children PROVE ChildKnows(c)'
    BY <1>1, <2>2 DEF QuietStep, AuctionLabels, ChildKnows
  <2>3. OneOpener'
    BY <1>1 DEF QuietStep, AuctionLabels, OneOpener
  <2> QED
    BY <2>1, <2>2, <2>3
<1>2. ASSUME NEW c \in Children, CreateHosted(c) PROVE HostInv'
  <2> USE DEF Goto, Reply, auctionVars
  <2>1. /\ pc[c] = "host" /\ UNCHANGED <<auctionVars, req>>
        /\ \/ \E a \in Aids \ dirs :
                /\ aid' = [aid EXCEPT ![c] = a]
                /\ hosted' = [hosted EXCEPT ![req[c].uid] = @ \cup {a}]
                /\ Goto(c, "dirs")
           \/ Reply(c, "NOK") /\ UNCHANGED <<aid, hosted>>
    <3>1. ASSUME NEW a \in Aids, IsNextAuctionId(a) PROVE a \notin dirs
      BY <3>1 DEF IsNextAuctionId, Aids
    <3> QED
      BY <1>2, <3>1 DEF CreateHosted
  <2>2. CASE Reply(c, "NOK") /\ UNCHANGED <<aid, hosted>>
    BY <2>1, <2>2 DEF FilesInDirs, HostsKnown, ChildKnows, OneOpener
  <2>3. ASSUME NEW a \in Aids \ dirs,
               aid' = [aid EXCEPT ![c] = a],
               hosted' = [hosted EXCEPT ![req[c].uid] = @ \cup {a}],
               Goto(c, "dirs")
        PROVE  HostInv'
    <3>1. FilesInDirs'
      BY <2>1 DEF FilesInDirs
    <3>2. HostsKnown'
      BY <2>1, <2>3 DEF HostsKnown, FilesInDirs, StartRecord, Written
    <3>3. req[c].uid \in Users /\ a \in hosted'[req[c].uid]
      BY <2>1, <2>3 DEF Locals, LocalsOf
    <3>4. \A u \in Users : hosted[u] \subseteq hosted'[u] /\ hosted'[u] \subseteq hosted[u] \cup {a}
      BY <2>3
    <3>5. ASSUME NEW d \in Children, d # c PROVE ChildKnows(d)'
      <4>1. pc'[d] = pc[d] /\ req'[d] = req[d] /\ aid'[d] = aid[d] /\ dirs' = dirs /\ start' = start
        BY <2>1, <2>3, <3>5
      <4>2. pc[d] \in {"dirs", "start", "startWrite", "bidCreate", "bidWrite"} => req[d].uid \in Users
        BY DEF Locals, LocalsOf
      <4> QED
        BY <3>4, <4>1, <4>2 DEF ChildKnows
    <3>6. ChildKnows(c)'
      BY <2>1, <2>3, <3>3 DEF ChildKnows
    <3>7. OneOpener'
      BY <2>1, <2>3 DEF OneOpener
    <3> QED
      BY <3>1, <3>2, <3>5, <3>6, <3>7
  <2> QED
    BY <2>1, <2>2, <2>3
<1>3. ASSUME NEW c \in Children, MakeDirs(c) PROVE HostInv'
  <2> USE <1>3 DEF MakeDirs, Goto, Reply, userVars, localVars
  <2>1. FilesInDirs' /\ HostsKnown'
    BY DEF FilesInDirs, HostsKnown
  <2>2. ASSUME NEW d \in Children PROVE ChildKnows(d)'
    BY <2>2 DEF ChildKnows, FilesInDirs, Locals, LocalsOf, Written
  <2>3. OneOpener'
    BY DEF OneOpener, ChildKnows
  <2> QED
    BY <2>1, <2>2, <2>3
<1>4. ASSUME NEW c \in Children, CreateStart(c) \/ WriteStart(c) PROVE HostInv'
  <2> USE <1>4 DEF CreateStart, WriteStart, Transition, Goto, Reply, userVars, localVars
  <2>1. FilesInDirs'
    BY DEF FilesInDirs, ChildKnows
  <2>5. ASSUME NEW a \in Aids, Written(start'[a])
        PROVE  start'[a] = start[a] \/ (a = aid[c] /\ start'[a].host = req[c].uid)
    BY <2>5 DEF Written
  <2>2. HostsKnown'
    BY <2>5 DEF HostsKnown, ChildKnows, Written
  <2>3. ASSUME NEW d \in Children PROVE ChildKnows(d)'
    BY <2>3 DEF ChildKnows, OneOpener, Written, Locals, LocalsOf
  <2>4. OneOpener'
    BY DEF OneOpener
  <2> QED
    BY <2>1, <2>2, <2>3, <2>4
<1>5. ASSUME NEW c \in Children, ReadStart(c) PROVE HostInv'
  <2> USE <1>5 DEF ReadStart, OngoingReturns, Goto, Reply, userVars, auctionVars
  <2>1. FilesInDirs' /\ HostsKnown'
    BY DEF FilesInDirs, HostsKnown
  <2>2. ASSUME NEW d \in Children PROVE ChildKnows(d)'
    BY <2>2 DEF ChildKnows, FilesInDirs, Locals, LocalsOf, Written
  <2>3. OneOpener'
    BY DEF OneOpener
  <2> QED
    BY <2>1, <2>2, <2>3
<1>6. ASSUME NEW c \in Children, CheckBid(c) PROVE HostInv'
  <2> USE <1>6 DEF CheckBid, HostedBySelf, Goto, Reply, userVars, auctionVars, localVars
  <2>1. FilesInDirs' /\ HostsKnown'
    BY DEF FilesInDirs, HostsKnown
  <2>2. ASSUME NEW d \in Children PROVE ChildKnows(d)'
    BY <2>2 DEF ChildKnows
  <2>3. OneOpener'
    BY DEF OneOpener
  <2> QED
    BY <2>1, <2>2, <2>3
<1>7. ASSUME NEW c \in Children, CreateBid(c) \/ WriteBid(c) PROVE HostInv'
  <2> USE <1>7 DEF CreateBid, WriteBid, Transition, Goto, Reply, userVars, localVars
  <2>5. ASSUME NEW a \in Aids, NEW v \in Values
        PROVE  bids'[a][v] = bids[a][v] \/ (a = aid[c] /\ bids'[a][v] \in {Blank, req[c].uid})
    OBVIOUS
  <2>1. FilesInDirs'
    BY <2>5 DEF FilesInDirs, ChildKnows
  <2>2. HostsKnown'
    BY <2>5 DEF HostsKnown, ChildKnows, Written
  <2>3. ASSUME NEW d \in Children PROVE ChildKnows(d)'
    BY <2>3 DEF ChildKnows
  <2>4. OneOpener'
    BY DEF OneOpener
  <2> QED
    BY <2>1, <2>2, <2>3, <2>4
<1> QED
  BY StepKinds, <1>1, <1>2, <1>3, <1>4, <1>5, <1>6, <1>7 DEF AuctionStep

(* No host has a bid on record in an auction of theirs, with any faults.   *)
THEOREM HostsNeverBid == Spec => []NoSelfBid
<1>1. TypeInv /\ HostInv => NoSelfBid
  BY ConstantsAssumption
  DEF TypeInv, TypeOK, FilesTypeOK, HostInv, HostsKnown, NoSelfBid, Written, StartRecord
<1>2. TypeInv /\ HostInv /\ [Next]_vars => (TypeInv /\ HostInv)'
  BY TypeNext, HostNext
<1> QED
  BY <1>1, <1>2, TypeInit, HostInit, PTL DEF Spec

(* A START that has been written stays as it is, with any faults.          *)
THEOREM StartNeverRewritten == Spec => StartImmutable
<1> DEFINE Kept == \A a \in Aids : Written(start[a]) => start'[a] = start[a]
<1>1. TypeInv /\ HostInv /\ [Next]_vars => Kept
  <2> SUFFICES ASSUME TypeInv, HostInv, [Next]_vars PROVE Kept
    OBVIOUS
  <2> USE DEF TypeInv, TypeOK, FilesTypeOK
  <2>1. CASE QuietStep
    BY <2>1 DEF QuietStep
  <2>2. ASSUME NEW c \in Children, CreateStart(c) \/ WriteStart(c) PROVE Kept
    BY <2>2 DEF CreateStart, WriteStart, Transition, HostInv, ChildrenKnow, ChildKnows
  <2>3. ASSUME NEW c \in Children, AuctionStep(c), ~(CreateStart(c) \/ WriteStart(c))
        PROVE  Kept
    BY <2>3 DEF AuctionStep, CreateHosted, MakeDirs, ReadStart, CheckBid, CreateBid,
                WriteBid, auctionVars
  <2> QED
    BY StepKinds, <2>1, <2>2, <2>3
<1>2. TypeInv /\ HostInv /\ [Next]_vars => (TypeInv /\ HostInv)'
  BY TypeNext, HostNext
<1>3. TypeInv /\ HostInv /\ [Next]_vars => [Kept]_vars
  BY <1>1
<1> QED
  BY <1>2, <1>3, TypeInit, HostInit, PTL DEF Spec, StartImmutable

-------------------------------------------------------------------------------
(* Bids only rise.  This is where the lock matters: between comparing a    *)
(* bid and creating its file nobody else touches bids/ or START.           *)

BestBid(c) ==
  /\ pc[c] = "bidCreate" =>
       /\ \A w \in Values : bids[aid[c]][w] # None => w < req[c].value
       /\ Written(start[aid[c]]) => req[c].value > start[aid[c]].value
  /\ pc[c] = "bidWrite" => bids[aid[c]][req[c].value] # None
BidInv == \A c \in Children : BestBid(c)

(* At first no child places a bid.                                         *)
LEMMA BidInit == Init => BidInv
  BY DEF Init, BidInv, BestBid, Procs

(* While a child places a bid the others are outside the lock, so that     *)
(* only its own steps can disturb what it compared.                        *)
LEMMA BidNext == ASSUME TypeInv, LockInv, BidInv, [Next]_vars PROVE BidInv'
<1> USE ConstantsAssumption
    DEF TypeInv, TypeOK, FilesTypeOK, ProcsTypeOK, Procs, BidInv
<1>1. CASE QuietStep
  BY <1>1 DEF QuietStep, AuctionLabels, BestBid
<1>2. ASSUME NEW c \in Children, AuctionStep(c) PROVE BidInv'
  <2>1. /\ pc[c] \in LockedLabels
        /\ \A d \in Children \ {c} : pc'[d] = pc[d]
    BY <1>2 DEF AuctionStep, CreateHosted, MakeDirs, CreateStart, WriteStart, ReadStart,
                CheckBid, CreateBid, WriteBid, OngoingReturns, Transition, Goto, Reply,
                LockedLabels, WorkLabels
  <2>2. \A d \in Children \ {c} : pc[d] \notin LockedLabels
    BY <2>1 DEF LockInv
  <2>3. \A d \in Children \ {c} : BestBid(d)'
    BY <2>1, <2>2 DEF BestBid, LockedLabels, WorkLabels
  <2>4. BestBid(c)'
    <3>1. CASE CheckBid(c)
      <4>1. UNCHANGED <<bids, start, aid, req>> /\ pc'[c] # "bidWrite"
        BY <3>1 DEF CheckBid, Goto, Reply, auctionVars, localVars
      <4>2. pc'[c] = "bidCreate" =>
              /\ \A w \in Values : bids[aid[c]][w] # None => w < req[c].value
              /\ Written(start[aid[c]]) => req[c].value > start[aid[c]].value
        BY <3>1 DEF CheckBid, BeatsBids, Goto, Reply, Written
      <4> QED
        BY <4>1, <4>2 DEF BestBid
    <3>2. CASE CreateBid(c)
      <4>1. \/ bids' = [bids EXCEPT ![aid[c]][req[c].value] = Blank] /\ pc'[c] = "bidWrite"
            \/ pc'[c] = "unlockA"
        BY <3>2 DEF CreateBid, Goto, Reply
      <4>2. aid[c] \in Aids /\ req[c].value \in Values /\ UNCHANGED <<aid, req>>
        BY <3>2 DEF CreateBid, Locals, LocalsOf, Request, localVars
      <4> QED
        BY <4>1, <4>2 DEF BestBid
    <3>3. CASE ~(CheckBid(c) \/ CreateBid(c))
      <4>1. pc'[c] \notin {"bidCreate", "bidWrite"}
        BY <1>2, <3>3 DEF AuctionStep, CreateHosted, MakeDirs, CreateStart, WriteStart,
                          ReadStart, WriteBid, OngoingReturns, Transition, Goto, Reply
      <4> QED
        BY <4>1 DEF BestBid
    <3> QED
      BY <3>1, <3>2, <3>3
  <2> QED
    BY <2>3, <2>4
<1> QED
  BY StepKinds, <1>1, <1>2

(* Without a lock_dir that fails, a new bid beats every bid on record.     *)
THEOREM BidsOnlyRise == "lock" \notin Faults => (Spec => BidsRise)
<1> SUFFICES ASSUME "lock" \notin Faults PROVE Spec => BidsRise
  OBVIOUS
<1> DEFINE Inv == TypeInv /\ LockInv /\ BidInv
           Rising == \A a \in Aids, v \in Values : RisingBid(a, v)
<1>1. Inv /\ [Next]_vars => Rising
  <2> SUFFICES ASSUME Inv, [Next]_vars, NEW a \in Aids, NEW v \in Values,
                      bids[a][v] = None, bids'[a][v] # None
               PROVE  RisingBid(a, v)
    BY DEF RisingBid
  <2>1. PICK c \in Children : CreateBid(c) \/ WriteBid(c)
    BY StepKinds DEF QuietStep, AuctionStep, CreateHosted, MakeDirs, CreateStart,
                     WriteStart, ReadStart, CheckBid, auctionVars
  <2>2. aid[c] \in Aids /\ req[c].value \in Values
    BY <2>1 DEF TypeInv, TypeOK, ProcsTypeOK, Procs, Locals, LocalsOf, Request, CreateBid,
                WriteBid, Transition
  <2>3. a = aid[c] /\ v = req[c].value
    BY <2>1, <2>2 DEF TypeInv, TypeOK, FilesTypeOK, CreateBid, WriteBid
  <2>4. pc[c] = "bidCreate"
    BY <2>1, <2>3 DEF BidInv, BestBid, CreateBid, WriteBid, Transition
  <2> QED
    BY <2>3, <2>4 DEF RisingBid, BidInv, BestBid
<1>2. Inv /\ [Next]_vars => Inv'
  BY TypeNext, LockNext, BidNext
<1>3. Inv /\ [Next]_vars => [Rising]_vars
  BY <1>1
<1>4. Init => Inv
  BY TypeInit, LockInit, BidInit
<1> QED
  BY <1>2, <1>3, <1>4, PTL DEF Spec, BidsRise
===============================================================================
