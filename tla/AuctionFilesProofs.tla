--------------------------- MODULE AuctionFilesProofs ---------------------------
(***************************************************************************)
(* Proofs about the records that the server keeps twice: a bid in bids/    *)
(* and in bidded/, a host in START and in hosted/, a closing beside an     *)
(* opening.                                                                *)
(***************************************************************************)
EXTENDS AuctionServerProofs

(* Where a process is between two accesses of the files of one auction,    *)
(* and knows from the first what the second relies on.                     *)
BusyLabels ==
  {"dirs", "start", "startWrite", "oaStart", "oaCreate", "oaWrite", "close", "closeWrite",
   "bid", "bidCreate", "bidWrite", "bidUser"}

fileVars == <<hosted, bidded, dirs, start, bids, end>>

SameLocals(p) ==
  /\ pc'[p] = pc[p] /\ req'[p] = req[p] /\ aid'[p] = aid[p]
  /\ secs'[p] = secs[p] /\ reply'[p] = reply[p]

NotBusy(p) == pc[p] \notin BusyLabels /\ ~(pc[p] = "unlockA" /\ reply[p] = "ACC")

(* A step that no busy process takes and that makes none busy.             *)
QuietFiles ==
  /\ UNCHANGED fileVars
  /\ now' >= now
  /\ \A p \in Procs : SameLocals(p) \/ (pc[p] \notin BusyLabels /\ NotBusy(p)')

(* Those that busy processes take, or that make them busy.                 *)
OpenStep(c)  == CreateHosted(c) \/ MakeDirs(c) \/ CreateStart(c) \/ WriteStart(c)
BidStep(c)   == CheckBid(c) \/ CreateBid(c) \/ WriteBid(c) \/ CreateBidded(c)
CloseStep(c) == CloseAuction(c) \/ WriteClose(c)
FileStep(c)  == OpenStep(c) \/ BidStep(c) \/ CloseStep(c)

(* Whatever a step does, it is quiet, a step of those, or a death.         *)
LEMMA FileSteps ==
  ASSUME TypeInv, [Next]_vars
  PROVE  \/ QuietFiles
         \/ \E c \in Children : FileStep(c)
         \/ \E p \in Procs : OngoingStep(p)
         \/ \E p \in Procs : Kill(p)
<1> USE ConstantsAssumption
    DEF TypeInv, TypeOK, FilesTypeOK, ProcsTypeOK, Procs, Times, QuietFiles, fileVars,
        BusyLabels, NotBusy, SameLocals, Transition, Goto, Reply, userVars, auctionVars,
        localVars
<1>1. ASSUME NEW c \in Children,
             Fork(c) \/ LockAuctions(c) \/ LockUsers(c) \/ ReadNothing(c) \/ ReadOpen(c)
               \/ ReadBid(c) \/ ReadClose(c)
      PROVE  QuietFiles
  BY <1>1 DEF Fork, LockAuctions, LockUsers, ReadNothing, ReadOpen, ReadBid, ReadClose
<1>2. ASSUME NEW c \in Children,
             ShowAsset(c) \/ SendAsset(c) \/ UnlockAuctions(c) \/ UnlockUsers(c)
      PROVE  QuietFiles
  BY <1>2 DEF ShowAsset, SendAsset, UnlockAuctions, UnlockUsers, Die, ClearLocals
<1>3. ASSUME NEW c \in Children, VerifyPassword(c) PROVE QuietFiles
  <2>1. req[c].op \in {"OPA", "BID", "CLS"}
    BY <1>3 DEF Locals, LocalsOf, VerifyPassword
  <2> QED
    BY <1>3, <2>1 DEF VerifyPassword, Die, ClearLocals
<1>4. ASSUME NEW c \in Children,
             VerifyUserExists(c) \/ IsUserLogin(c) \/ StoreAsset(c) \/ CheckOwner(c)
      PROVE  QuietFiles
  BY <1>4 DEF VerifyUserExists, IsUserLogin, StoreAsset, CheckOwner
<1>5. ASSUME Receives PROVE QuietFiles
  <2>1. CASE HandleLogin
    BY <2>1 DEF HandleLogin, Receive
  <2>2. CASE HandleLogout
    BY <2>2 DEF HandleLogout, Receive
  <2>3. CASE HandleUnregister
    BY <2>3 DEF HandleUnregister, Receive
  <2>4. CASE HandleMyAuctions \/ HandleMyBids \/ HandleList \/ HandleShowRecord
    BY <2>4 DEF HandleMyAuctions, HandleMyBids, HandleList, HandleShowRecord,
                ListAuctions, Receive
  <2> QED
    BY <1>5, <2>1, <2>2, <2>3, <2>4 DEF Receives
<1>6. CASE WritePass \/ CreateLogin \/ RemoveLogin \/ NextListed
  BY <1>6 DEF WritePass, CreateLogin, RemoveLogin, NextListed, Die, ClearLocals
<1>7. CASE ReadRecord \/ ReadClosing \/ ReplyMsg
  BY <1>7 DEF ReadRecord, ReadClosing, ReplyMsg, ClearLocals
<1>8. CASE Restart \/ Tick \/ UNCHANGED vars
  BY <1>8 DEF Restart, Tick, vars
<1> QED
  BY <1>1, <1>2, <1>3, <1>4, <1>5, <1>6, <1>7, <1>8
  DEF Next, ChildStep, ServerStep, FileStep, OpenStep, BidStep, CloseStep

(* A process that dies takes its locals with it, and nothing else.         *)
LEMMA Deaths ==
  ASSUME TypeInv, NEW p \in Procs, Kill(p)
  PROVE  /\ "kill" \in Faults
         /\ UNCHANGED fileVars /\ now' = now
         /\ pc'[p] \in {"idle", "down"}
         /\ \A q \in Procs \ {p} : SameLocals(q)
  BY DEF Kill, Die, ClearLocals, TypeInv, TypeOK, ProcsTypeOK, SameLocals, fileVars,
         userVars, auctionVars

(* The steps of a child with files are taken behind the lock, and leave    *)
(* the locals of the other processes alone.                                *)
LEMMA FileStepsLocked ==
  ASSUME TypeInv, NEW c \in Children, FileStep(c) \/ OngoingStep(c)
  PROVE  /\ pc[c] \in LockedLabels
         /\ \A q \in Procs \ {c} : SameLocals(q)
<1> USE DEF TypeInv, TypeOK, ProcsTypeOK, SameLocals, LockedLabels, WorkLabels,
            Transition, Goto, Reply, localVars
<1>1. CASE OpenStep(c)
  BY <1>1 DEF OpenStep, CreateHosted, MakeDirs, CreateStart, WriteStart
<1>2. CASE BidStep(c)
  BY <1>2 DEF BidStep, CheckBid, CreateBid, WriteBid, CreateBidded
<1>3. CASE CloseStep(c)
  BY <1>3 DEF CloseStep, CloseAuction, WriteClose
<1>4. CASE OngoingStep(c)
  BY <1>4 DEF OngoingStep, AccessEnd, ReadStart, CreateEnd, WriteEnd, OngoingReturns
<1> QED
  BY <1>1, <1>2, <1>3, <1>4 DEF FileStep

(* Behind the lock a child is alone.                                       *)
LEMMA LockedAlone ==
  ASSUME LockInv, NEW c \in Children, pc[c] \in LockedLabels
  PROVE  \A d \in Children \ {c} : pc[d] \notin LockedLabels
  BY DEF LockInv

-------------------------------------------------------------------------------
(* An END beside a START, whatever faults happen: who is about to create   *)
(* END has seen START, which nobody removes.                               *)

StartSeen ==
  \A p \in Procs : pc[p] \in {"oaCreate", "oaWrite", "closeWrite"} => start[aid[p]] # None

ClosedInv == ClosedWasOpened /\ StartSeen

(* A START never goes.                                                     *)
LEMMA StartStays ==
  ASSUME TypeInv, [Next]_vars, NEW a \in Aids, start[a] # None
  PROVE  start'[a] # None
<1> USE ConstantsAssumption DEF TypeInv, TypeOK, FilesTypeOK, ProcsTypeOK, Procs
<1>1. ASSUME NEW c \in Children, CreateStart(c) PROVE start'[a] # None
  BY <1>1 DEF CreateStart
<1>2. ASSUME NEW c \in Children, WriteStart(c) PROVE start'[a] # None
  <2>1. /\ req[c] \in Request /\ req[c].uid \in Users /\ req[c].active \in Durations
    BY <1>2 DEF Locals, LocalsOf, WriteStart, Transition
  <2>2. [host |-> req[c].uid, value |-> req[c].value, active |-> req[c].active, at |-> now]
          \in StartRecord
    BY <2>1 DEF Request, StartRecord
  <2> QED
    BY <1>2, <2>2 DEF WriteStart
<1>3. CASE UNCHANGED start
  BY <1>3
<1> QED
  BY FileSteps, Deaths, <1>1, <1>2, <1>3
  DEF QuietFiles, fileVars, FileStep, OpenStep, BidStep, CloseStep, OngoingStep,
      CreateHosted, MakeDirs, CheckBid, CreateBid, WriteBid, CreateBidded, CloseAuction,
      WriteClose, AccessEnd, ReadStart, CreateEnd, WriteEnd, auctionVars

(* At first nothing is open and nothing is closed.                         *)
LEMMA ClosedInit == Init => ClosedInv
  BY DEF Init, ClosedInv, ClosedWasOpened, StartSeen, Procs

(* END is created by ongoing_auction, at any process, and by close_auction *)
(* when they have seen START.                                              *)
LEMMA ClosedNext == ASSUME TypeInv, ClosedInv, [Next]_vars PROVE ClosedInv'
<1> USE ConstantsAssumption DEF TypeInv, TypeOK, FilesTypeOK, ProcsTypeOK, Procs, ClosedInv
<1> DEFINE Seen(p) == pc[p] \in {"oaCreate", "oaWrite", "closeWrite"} => start[aid[p]] # None
<1>1. \A a \in Aids : start[a] # None => start'[a] # None
  BY StartStays
<1>2. ASSUME NEW q \in Procs, SameLocals(q) PROVE Seen(q)'
  BY <1>1, <1>2 DEF SameLocals, StartSeen, Locals, LocalsOf
<1>3. CASE QuietFiles
  <2>1. ClosedWasOpened'
    BY <1>3 DEF QuietFiles, fileVars, ClosedWasOpened
  <2> QED
    BY <1>2, <1>3, <2>1 DEF QuietFiles, NotBusy, BusyLabels, StartSeen
<1>4. ASSUME NEW p \in Procs, Kill(p) PROVE ClosedInv'
  <2>1. ClosedWasOpened'
    BY <1>4, Deaths DEF fileVars, ClosedWasOpened
  <2> QED
    BY <1>2, <1>4, <2>1, Deaths DEF StartSeen
<1>5. ASSUME NEW c \in Children, OpenStep(c) \/ BidStep(c) PROVE ClosedInv'
  <2>1. UNCHANGED end /\ pc'[c] \notin {"oaCreate", "oaWrite", "closeWrite"}
    BY <1>5 DEF OpenStep, BidStep, CreateHosted, MakeDirs, CreateStart, WriteStart, CheckBid,
                CreateBid, WriteBid, CreateBidded, Transition, Goto, Reply, auctionVars
  <2>2. ClosedWasOpened'
    BY <1>1, <2>1 DEF ClosedWasOpened
  <2> QED
    BY <1>2, <1>5, <2>1, <2>2, FileStepsLocked DEF FileStep, StartSeen
<1>6. ASSUME NEW c \in Children, CloseStep(c) PROVE ClosedInv'
  <2>1. /\ start[aid[c]] # None \/ UNCHANGED end
        /\ pc'[c] \in {"oaCreate", "oaWrite", "closeWrite"} => start[aid[c]] # None
        /\ \A a \in Aids \ {aid[c]} : end'[a] = end[a]
        /\ UNCHANGED <<start, aid>>
    BY <1>6 DEF CloseStep, CloseAuction, WriteClose, Goto, Reply, localVars, StartSeen
  <2>2. ClosedWasOpened'
    BY <2>1 DEF ClosedWasOpened
  <2> QED
    BY <1>2, <1>6, <2>1, <2>2, FileStepsLocked DEF FileStep, StartSeen
<1>7. ASSUME NEW p \in Procs, OngoingStep(p) PROVE ClosedInv'
  <2>1. /\ start[aid[p]] # None \/ UNCHANGED end
        /\ pc'[p] \in {"oaCreate", "oaWrite", "closeWrite"} => start[aid[p]] # None
        /\ \A a \in Aids \ {aid[p]} : end'[a] = end[a]
        /\ UNCHANGED <<start, aid>>
    BY <1>7 DEF OngoingStep, AccessEnd, ReadStart, CreateEnd, WriteEnd, OngoingReturns,
                Written, Goto, Reply, localVars, auctionVars, StartSeen
  <2>2. \A q \in Procs \ {p} : SameLocals(q)
    BY <1>7 DEF OngoingStep, AccessEnd, ReadStart, CreateEnd, WriteEnd, OngoingReturns,
                Goto, Reply, localVars, SameLocals
  <2>3. ClosedWasOpened'
    BY <2>1 DEF ClosedWasOpened
  <2> QED
    BY <1>2, <2>1, <2>2, <2>3 DEF StartSeen
<1> QED
  BY FileSteps, <1>3, <1>4, <1>5, <1>6, <1>7 DEF FileStep

(* An END is never without a START, with any faults.                       *)
THEOREM ClosedAfterOpened == Spec => []ClosedWasOpened
<1>1. TypeInv /\ ClosedInv /\ [Next]_vars => (TypeInv /\ ClosedInv)'
  BY TypeNext, ClosedNext
<1>2. ClosedInv => ClosedWasOpened
  BY DEF ClosedInv
<1> QED
  BY <1>1, <1>2, TypeInit, ClosedInit, PTL DEF Spec

-------------------------------------------------------------------------------
(* A bid and its two files.  This needs the lock: nobody else writes bids/ *)
(* between the comparison and the answer.                                  *)

Accepted(c) == pc[c] = "unlockA" /\ reply[c] = "ACC"

PlacedBid(c) ==
  LET placed == bids[aid[c]]
      v == req[c].value
  IN
  /\ pc[c] = "bidCreate" => \A w \in Values : placed[w] # None => w < v
  /\ pc[c] = "bidWrite" => placed[v] = Blank
  /\ pc[c] = "bidUser" => placed[v] = req[c].uid
  /\ Accepted(c) =>
       req[c].op = "BID" /\ placed[v] = req[c].uid /\ aid[c] \in bidded[req[c].uid]
  /\ pc[c] \in {"bidWrite", "bidUser"} \/ Accepted(c) =>
       \A w \in Values : placed[w] # None => w <= v
PlacedInv == \A c \in Children : PlacedBid(c)

(* At first no child places a bid.                                         *)
LEMMA PlacedInit == Init => PlacedInv
  BY DEF Init, PlacedInv, PlacedBid, Accepted, Procs

(* The child that has the lock takes its bid from step to step.            *)
LEMMA PlacedByChild ==
  ASSUME TypeInv, PlacedInv, NEW c \in Children, BidStep(c)
  PROVE  PlacedBid(c)'
<1> USE ConstantsAssumption
    DEF TypeInv, TypeOK, FilesTypeOK, ProcsTypeOK, Procs, PlacedInv, Accepted
<1>1. UNCHANGED <<aid, req>>
  BY DEF BidStep, CheckBid, CreateBid, WriteBid, CreateBidded, localVars
<1>2. /\ req[c].op = "BID" /\ req[c].uid \in Users /\ aid[c] \in Aids
      /\ req[c].value \in Values /\ Values \subseteq Int
  BY DEF BidStep, CheckBid, CreateBid, WriteBid, CreateBidded, Transition, Locals, LocalsOf,
         Request, Values
<1>3. CASE CheckBid(c)
  <2>1. UNCHANGED bids /\ pc'[c] \notin {"bidWrite", "bidUser"} /\ ~Accepted(c)'
    BY <1>3 DEF CheckBid, Goto, Reply, auctionVars
  <2>2. pc'[c] = "bidCreate" => \A w \in Values : bids[aid[c]][w] # None => w < req[c].value
    BY <1>3 DEF CheckBid, BeatsBids, Goto, Reply
  <2> QED
    BY <1>1, <2>1, <2>2 DEF PlacedBid
<1>4. CASE CreateBid(c)
  <2>1. \/ pc'[c] = "unlockA" /\ reply'[c] # "ACC"
        \/ pc'[c] = "bidWrite" /\ bids' = [bids EXCEPT ![aid[c]][req[c].value] = Blank]
    BY <1>4 DEF CreateBid, Goto, Reply
  <2>2. \A w \in Values : bids[aid[c]][w] # None => w < req[c].value
    BY <1>4 DEF CreateBid, PlacedBid
  <2>3. ASSUME bids' = [bids EXCEPT ![aid[c]][req[c].value] = Blank]
        PROVE  /\ bids'[aid[c]][req[c].value] = Blank
               /\ \A w \in Values : bids'[aid[c]][w] # None => w <= req[c].value
    <3>1. /\ bids'[aid[c]][req[c].value] = Blank
          /\ \A w \in Values \ {req[c].value} : bids'[aid[c]][w] = bids[aid[c]][w]
      BY <1>2, <2>3
    <3>2. ASSUME NEW w \in Values PROVE w < req[c].value \/ w = req[c].value => w <= req[c].value
      BY <1>2
    <3> QED
      BY <2>2, <3>1, <3>2
  <2> QED
    BY <1>1, <2>1, <2>3 DEF PlacedBid
<1>5. CASE WriteBid(c)
  <2>1. pc'[c] = "bidUser" /\ bids' = [bids EXCEPT ![aid[c]][req[c].value] = req[c].uid]
    BY <1>5 DEF WriteBid, Transition
  <2>2. \A w \in Values : bids[aid[c]][w] # None => w <= req[c].value
    BY <1>5 DEF WriteBid, Transition, PlacedBid
  <2> QED
    BY <1>1, <1>2, <2>1, <2>2 DEF PlacedBid
<1>6. CASE CreateBidded(c)
  <2>1. /\ UNCHANGED bids /\ pc'[c] = "unlockA"
        /\ reply'[c] = "ACC" => aid[c] \in bidded'[req[c].uid]
    BY <1>2, <1>6 DEF CreateBidded, Reply, auctionVars
  <2>2. /\ bids[aid[c]][req[c].value] = req[c].uid
        /\ \A w \in Values : bids[aid[c]][w] # None => w <= req[c].value
    BY <1>6 DEF CreateBidded, PlacedBid
  <2> QED
    BY <1>1, <1>2, <2>1, <2>2 DEF PlacedBid
<1> QED
  BY <1>3, <1>4, <1>5, <1>6 DEF BidStep

(* No other process can disturb it.                                        *)
LEMMA PlacedNext == ASSUME TypeInv, LockInv, PlacedInv, [Next]_vars PROVE PlacedInv'
<1> USE DEF TypeInv, TypeOK, ProcsTypeOK, Procs
<1>1. ASSUME NEW c \in Children, UNCHANGED <<bids, bidded>>, SameLocals(c)
      PROVE  PlacedBid(c)'
  BY <1>1 DEF SameLocals, PlacedInv, PlacedBid, Accepted
<1>2. ASSUME NEW c \in Children, NotBusy(c)' PROVE PlacedBid(c)'
  BY <1>2 DEF NotBusy, BusyLabels, PlacedBid, Accepted
<1>3. CASE QuietFiles
  BY <1>1, <1>2, <1>3 DEF QuietFiles, fileVars, PlacedInv
<1>4. ASSUME NEW p \in Procs, Kill(p) PROVE PlacedInv'
  <2>1. UNCHANGED <<bids, bidded>> /\ NotBusy(p)' /\ \A q \in Procs \ {p} : SameLocals(q)
    BY <1>4, Deaths DEF fileVars, NotBusy, BusyLabels
  <2> QED
    BY <1>1, <1>2, <2>1 DEF PlacedInv
<1>5. ASSUME NEW c \in Children, FileStep(c) \/ OngoingStep(c) PROVE PlacedInv'
  <2>1. \A d \in Children \ {c} : SameLocals(d) /\ pc[d] \notin LockedLabels
    BY <1>5, FileStepsLocked, LockedAlone
  <2>2. \A d \in Children \ {c} : PlacedBid(d)'
    BY <1>2, <2>1 DEF SameLocals, LockedLabels, WorkLabels, NotBusy, BusyLabels
  <2>3. CASE BidStep(c)
    BY <2>2, <2>3, PlacedByChild DEF PlacedInv
  <2>4. CASE OpenStep(c) \/ CloseStep(c) \/ OngoingStep(c)
    <3>1. /\ pc'[c] \notin {"bidCreate", "bidWrite", "bidUser"}
          /\ ~(pc'[c] = "unlockA" /\ reply'[c] = "ACC")
      BY <2>4 DEF OpenStep, CloseStep, OngoingStep, CreateHosted, MakeDirs, CreateStart,
                  WriteStart, CloseAuction, WriteClose, AccessEnd, ReadStart, CreateEnd,
                  WriteEnd, OngoingReturns, Transition, Goto, Reply
    <3> QED
      BY <2>2, <3>1 DEF PlacedInv, PlacedBid, Accepted
  <2> QED
    BY <1>5, <2>3, <2>4 DEF FileStep
<1>6. CASE OngoingStep(Server)
  <2>1. UNCHANGED <<bids, bidded>> /\ \A c \in Children : SameLocals(c)
    BY <1>6, ConstantsAssumption
    DEF OngoingStep, AccessEnd, ReadStart, CreateEnd, WriteEnd, OngoingReturns, Goto, Reply,
        localVars, userVars, auctionVars, SameLocals
  <2> QED
    BY <1>1, <2>1 DEF PlacedInv
<1> QED
  BY FileSteps, <1>3, <1>4, <1>5, <1>6

(* Without a lock_dir that fails, an accepted bid is on record twice and   *)
(* the highest, as long as its child has not given up the lock.            *)
THEOREM AcceptedBidsStand == "lock" \notin Faults => (Spec => []AcceptedBidStands)
<1> SUFFICES ASSUME "lock" \notin Faults PROVE Spec => []AcceptedBidStands
  OBVIOUS
<1> DEFINE Inv == TypeInv /\ LockInv /\ PlacedInv
<1>1. Inv => AcceptedBidStands
  BY DEF AcceptedBidStands, PlacedInv, PlacedBid, Accepted
<1>2. Inv /\ [Next]_vars => Inv'
  BY TypeNext, LockNext, PlacedNext
<1>3. Init => Inv
  BY TypeInit, LockInit, PlacedInit
<1> QED
  BY <1>1, <1>2, <1>3, PTL DEF Spec

-------------------------------------------------------------------------------
(* The two records of a bid.  Whoever has a file in bidded has a bid on    *)
(* record, even if files cannot be created and processes die; the converse *)
(* takes a server without faults.                                          *)

BiddedHasBid ==
  \A a \in Aids, u \in Users : a \in bidded[u] => \E v \in Values : bids[a][v] = u

BidIsKnown ==
  \A a \in Aids, v \in Values, u \in Users : bids[a][v] = u =>
    \/ a \in bidded[u]
    \/ \E c \in Children : pc[c] = "bidUser" /\ aid[c] = a /\ req[c].uid = u

(* What one step does to the two records: nothing, a file of its own in    *)
(* bids created or written by the child that may, or one in bidded.        *)
LEMMA BidRecords ==
  ASSUME TypeInv, PlacedInv, [Next]_vars
  PROVE  /\ \A a \in Aids, v \in Values : Written(bids[a][v]) => bids'[a][v] = bids[a][v]
         /\ \A a \in Aids, v \in Values, u \in Users :
              bids'[a][v] = u /\ bids[a][v] # u =>
                \E c \in Children : pc'[c] = "bidUser" /\ aid'[c] = a /\ req'[c].uid = u
         /\ \A u \in Users : \A a \in bidded'[u] : a \in bidded[u] \/
              \E c \in Children : pc[c] = "bidUser" /\ aid[c] = a /\ req[c].uid = u
         /\ \A u \in Users : bidded[u] \subseteq bidded'[u]
<1> DEFINE
      Kept == \A a \in Aids, v \in Values : Written(bids[a][v]) => bids'[a][v] = bids[a][v]
      Wrote == \A a \in Aids, v \in Values, u \in Users :
                 bids'[a][v] = u /\ bids[a][v] # u =>
                   \E c \in Children : pc'[c] = "bidUser" /\ aid'[c] = a /\ req'[c].uid = u
      Noted == \A u \in Users : \A a \in bidded'[u] : a \in bidded[u] \/
                 \E c \in Children : pc[c] = "bidUser" /\ aid[c] = a /\ req[c].uid = u
      Grows == \A u \in Users : bidded[u] \subseteq bidded'[u]
<1> USE ConstantsAssumption DEF TypeInv, TypeOK, FilesTypeOK, ProcsTypeOK, Procs
<1>1. CASE UNCHANGED <<bids, bidded>>
  BY <1>1
<1>2. ASSUME NEW c \in Children, CreateBid(c) \/ WriteBid(c) \/ CreateBidded(c)
      PROVE  Kept /\ Wrote /\ Noted /\ Grows
  <2>1. /\ req[c].uid \in Users /\ aid[c] \in Aids /\ req[c].value \in Values
        /\ Values \subseteq Int /\ UNCHANGED <<aid, req>>
    BY <1>2 DEF CreateBid, WriteBid, CreateBidded, Transition, Locals, LocalsOf, Request,
                Values, localVars
  <2>2. CASE CreateBid(c)
    <3>1. \A w \in Values : bids[aid[c]][w] # None => w < req[c].value
      BY <2>2 DEF CreateBid, PlacedInv, PlacedBid
    <3>2. \A v \in Int : ~(v < v)
      OBVIOUS
    <3>3. bids[aid[c]][req[c].value] = None
      BY <2>1, <3>1, <3>2
    <3>4. UNCHANGED bidded /\ bids' \in {bids, [bids EXCEPT ![aid[c]][req[c].value] = Blank]}
      BY <2>2 DEF CreateBid, userVars
    <3>5. \A a \in Aids, v \in Values :
            \/ bids'[a][v] = bids[a][v]
            \/ a = aid[c] /\ v = req[c].value /\ bids'[a][v] = Blank
      BY <2>1, <3>4
    <3>6. Kept
      BY <3>3, <3>5 DEF Written
    <3>7. Wrote
      BY <3>5
    <3> QED
      BY <3>4, <3>6, <3>7
  <2>3. CASE WriteBid(c)
    <3>1. bids[aid[c]][req[c].value] = Blank
      BY <2>3 DEF WriteBid, Transition, PlacedInv, PlacedBid
    <3>2. /\ UNCHANGED bidded /\ pc'[c] = "bidUser"
          /\ bids' = [bids EXCEPT ![aid[c]][req[c].value] = req[c].uid]
      BY <2>3 DEF WriteBid, Transition, userVars
    <3>3. \A a \in Aids, v \in Values :
            \/ bids'[a][v] = bids[a][v]
            \/ a = aid[c] /\ v = req[c].value /\ bids'[a][v] = req[c].uid
      BY <2>1, <3>2
    <3> QED
      BY <2>1, <3>1, <3>2, <3>3 DEF Written
  <2>4. CASE CreateBidded(c)
    BY <2>1, <2>4 DEF CreateBidded, auctionVars
  <2> QED
    BY <1>2, <2>2, <2>3, <2>4
<1> QED
  BY FileSteps, Deaths, <1>1, <1>2
  DEF QuietFiles, fileVars, FileStep, OpenStep, BidStep, CloseStep, OngoingStep,
      CreateHosted, MakeDirs, CreateStart, WriteStart, CheckBid, CloseAuction, WriteClose,
      AccessEnd, ReadStart, CreateEnd, WriteEnd, userVars, auctionVars

(* A bid that has been written stays, and so does what bidded says of it.  *)
LEMMA BiddedNext ==
  ASSUME TypeInv, PlacedInv, BiddedHasBid, [Next]_vars PROVE BiddedHasBid'
<1> SUFFICES ASSUME NEW a \in Aids, NEW u \in Users, a \in bidded'[u]
             PROVE  \E v \in Values : bids'[a][v] = u
  BY DEF BiddedHasBid
<1>1. \E v \in Values : bids[a][v] = u
  <2>1. CASE a \in bidded[u]
    BY <2>1 DEF BiddedHasBid
  <2>2. ASSUME NEW c \in Children, pc[c] = "bidUser", aid[c] = a, req[c].uid = u
        PROVE  \E v \in Values : bids[a][v] = u
    BY <2>2 DEF PlacedInv, PlacedBid, TypeInv, TypeOK, ProcsTypeOK, Procs, Request
  <2> QED
    BY <2>1, <2>2, BidRecords
<1> QED
  BY <1>1, BidRecords, ConstantsAssumption DEF Written

(* Without faults a child between the two files gets to the second.        *)
LEMMA KnownNext ==
  ASSUME TypeInv, PlacedInv, BidIsKnown, [Next]_vars, Faults = {} PROVE BidIsKnown'
<1> SUFFICES ASSUME NEW a \in Aids, NEW v \in Values, NEW u \in Users, bids'[a][v] = u
             PROVE  \/ a \in bidded'[u]
                    \/ \E c \in Children : pc'[c] = "bidUser" /\ aid'[c] = a /\ req'[c].uid = u
  BY DEF BidIsKnown
<1>1. CASE bids[a][v] # u
  BY <1>1, BidRecords
<1>2. CASE a \in bidded[u]
  BY <1>2, BidRecords
<1>3. ASSUME NEW c \in Children, pc[c] = "bidUser", aid[c] = a, req[c].uid = u,
             ~SameLocals(c)
      PROVE  a \in bidded'[u]
  <2> USE DEF TypeInv, TypeOK, FilesTypeOK, ProcsTypeOK, Procs
  <2>1. ~QuietFiles /\ \A p \in Procs : ~Kill(p)
    BY <1>3, Deaths DEF QuietFiles, BusyLabels
  <2>2. \A d \in Children \ {c} : ~(FileStep(d) \/ OngoingStep(d))
    BY <1>3, FileStepsLocked
  <2>3. ~OngoingStep(Server)
    BY <1>3, ConstantsAssumption
    DEF OngoingStep, AccessEnd, ReadStart, CreateEnd, WriteEnd, OngoingReturns, Goto, Reply,
        localVars, SameLocals
  <2>4. FileStep(c) \/ OngoingStep(c)
    BY <2>1, <2>2, <2>3, FileSteps
  <2>5. CreateBidded(c)
    BY <1>3, <2>4
    DEF FileStep, OpenStep, BidStep, CloseStep, OngoingStep, CreateHosted, MakeDirs,
        CreateStart, WriteStart, CheckBid, CreateBid, WriteBid, CloseAuction, WriteClose,
        AccessEnd, ReadStart, CreateEnd, WriteEnd, Transition
  <2> QED
    BY <1>3, <2>5 DEF CreateBidded
<1> QED
  BY <1>1, <1>2, <1>3 DEF BidIsKnown, SameLocals

(* Without a lock_dir that fails, bidded shows no bid that is not there.   *)
THEOREM BiddedAlwaysHasBid == "lock" \notin Faults => (Spec => []BiddedHasBid)
<1> SUFFICES ASSUME "lock" \notin Faults PROVE Spec => []BiddedHasBid
  OBVIOUS
<1> DEFINE Inv == TypeInv /\ LockInv /\ PlacedInv /\ BiddedHasBid
<1>1. Inv /\ [Next]_vars => Inv'
  BY TypeNext, LockNext, PlacedNext, BiddedNext
<1>2. Init => Inv
  BY TypeInit, LockInit, PlacedInit DEF Init, BiddedHasBid
<1> QED
  BY <1>1, <1>2, PTL DEF Spec

(* Without faults the two records of a bid agree, but for the child that   *)
(* is between writing the one and the other.                               *)
THEOREM BiddersKnow == Faults = {} => (Spec => []BidderKnows)
<1> SUFFICES ASSUME Faults = {} PROVE Spec => []BidderKnows
  OBVIOUS
<1> DEFINE Inv == TypeInv /\ LockInv /\ PlacedInv /\ BiddedHasBid /\ BidIsKnown
<1>1. Inv => BidderKnows
  BY DEF BidderKnows, BiddedHasBid, BidIsKnown, PlacedInv, PlacedBid, TypeInv, TypeOK,
         ProcsTypeOK, Procs, Request
<1>2. Inv /\ [Next]_vars => Inv'
  BY TypeNext, LockNext, PlacedNext, BiddedNext, KnownNext
<1>3. Init => Inv
  BY TypeInit, LockInit, PlacedInit, ConstantsAssumption DEF Init, BiddedHasBid, BidIsKnown
<1> QED
  BY <1>1, <1>2, <1>3, PTL DEF Spec

-------------------------------------------------------------------------------
(* A host and its two files.  A hosted file without its directory would    *)
(* give the identifier away again, so this takes a server without faults:  *)
(* only the child about to make the directory has one.                     *)

MakesDir(a, u) == \E c \in Children : pc[c] = "dirs" /\ aid[c] = a /\ req[c].uid = u

HostedOnce ==
  /\ \A a \in Aids, u, w \in Users : a \in hosted[u] /\ a \in hosted[w] => u = w
  /\ \A a \in Aids, u \in Users : a \in hosted[u] => a \in dirs \/ MakesDir(a, u)
  /\ \A c \in Children : pc[c] = "dirs" => aid[c] \notin dirs

(* The lock keeps a second child from taking the identifier.               *)
LEMMA HostedNext ==
  ASSUME TypeInv, LockInv, HostedOnce, [Next]_vars, Faults = {} PROVE HostedOnce'
<1> USE DEF TypeInv, TypeOK, FilesTypeOK, ProcsTypeOK, Procs
<1>1. ASSUME UNCHANGED <<hosted, dirs>>, \A c \in Children :
             SameLocals(c) \/ (pc[c] # "dirs" /\ pc'[c] # "dirs")
      PROVE  HostedOnce'
  <2>1. \A a \in Aids, u \in Users : MakesDir(a, u) => MakesDir(a, u)'
    BY <1>1 DEF MakesDir, SameLocals
  <2> QED
    BY <1>1, <2>1 DEF HostedOnce, SameLocals
<1>2. CASE QuietFiles
  BY <1>1, <1>2 DEF QuietFiles, fileVars, BusyLabels, NotBusy
<1>3. ASSUME NEW c \in Children, CreateHosted(c) PROVE HostedOnce'
  <2>1. PICK a \in Aids : /\ \A b \in dirs : b < a
                          /\ aid' = [aid EXCEPT ![c] = a]
                          /\ hosted' = [hosted EXCEPT ![req[c].uid] = @ \cup {a}]
                          /\ pc' = [pc EXCEPT ![c] = "dirs"]
    BY <1>3 DEF CreateHosted, IsNextAuctionId, Goto
  <2>2. a \notin dirs /\ UNCHANGED <<dirs, req>>
    <3>1. ~(a < a)
      BY DEF Aids
    <3> QED
      BY <1>3, <2>1, <3>1 DEF CreateHosted, auctionVars
  <2>3. \A d \in Children : pc[d] # "dirs"
    BY <1>3, LockedAlone DEF CreateHosted, LockedLabels, WorkLabels
  <2>4. \A u \in Users : a \notin hosted[u]
    BY <2>2, <2>3 DEF HostedOnce, MakesDir
  <2>5. \A b \in Aids, u \in Users :
          b \in hosted'[u] <=> b \in hosted[u] \/ (b = a /\ u = req[c].uid)
    BY <2>1
  <2>6. \A b \in Aids, u, w \in Users : b \in hosted'[u] /\ b \in hosted'[w] => u = w
    BY <2>4, <2>5 DEF HostedOnce
  <2>7. pc'[c] = "dirs" /\ aid'[c] = a /\ \A d \in Children \ {c} : pc'[d] # "dirs"
    BY <2>1, <2>3
  <2>8. MakesDir(a, req[c].uid)'
    BY <2>2, <2>7 DEF MakesDir
  <2>9. \A b \in Aids, u \in Users : b \in hosted'[u] => b \in dirs' \/ MakesDir(b, u)'
    BY <2>2, <2>3, <2>5, <2>8 DEF HostedOnce, MakesDir
  <2> QED
    BY <2>2, <2>6, <2>7, <2>9 DEF HostedOnce
<1>4. ASSUME NEW c \in Children, MakeDirs(c) PROVE HostedOnce'
  <2>1. /\ dirs' = dirs \cup {aid[c]} /\ UNCHANGED <<hosted, aid, req>>
        /\ pc' = [pc EXCEPT ![c] = "start"]
    BY <1>4 DEF MakeDirs, HostedOnce, Goto, userVars, localVars
  <2>2. \A d \in Children \ {c} : pc[d] # "dirs"
    BY <1>4, LockedAlone DEF MakeDirs, LockedLabels, WorkLabels
  <2> QED
    BY <2>1, <2>2 DEF HostedOnce, MakesDir
<1>5. ASSUME NEW c \in Children, FileStep(c) \/ OngoingStep(c),
             ~(CreateHosted(c) \/ MakeDirs(c))
      PROVE  HostedOnce'
  <2>1. UNCHANGED <<hosted, dirs>> /\ pc[c] # "dirs" /\ pc'[c] # "dirs"
    BY <1>5
    DEF FileStep, OpenStep, BidStep, CloseStep, OngoingStep, CreateStart, WriteStart, CheckBid,
        CreateBid, WriteBid, CreateBidded, CloseAuction, WriteClose, AccessEnd, ReadStart,
        CreateEnd, WriteEnd, OngoingReturns, Transition, Goto, Reply, userVars, auctionVars
  <2> QED
    BY <1>1, <1>5, <2>1, FileStepsLocked
<1>6. CASE OngoingStep(Server)
  <2>1. UNCHANGED <<hosted, dirs>> /\ \A c \in Children : SameLocals(c)
    BY <1>6, ConstantsAssumption
    DEF OngoingStep, AccessEnd, ReadStart, CreateEnd, WriteEnd, OngoingReturns, Goto, Reply,
        localVars, userVars, auctionVars, SameLocals
  <2> QED
    BY <1>1, <2>1
<1> QED
  BY FileSteps, Deaths, <1>2, <1>3, <1>4, <1>5, <1>6 DEF FileStep, OpenStep

(* Without faults an opened auction is in the hosted directory of its host *)
(* and in no other.                                                        *)
THEOREM HostIsOne == Faults = {} => (Spec => []OneHost)
<1> SUFFICES ASSUME Faults = {} PROVE Spec => []OneHost
  OBVIOUS
<1> DEFINE Inv == TypeInv /\ LockInv /\ HostInv /\ HostedOnce
<1>1. Inv => OneHost
  <2> SUFFICES ASSUME Inv, NEW a \in Aids, Written(start[a])
               PROVE  {u \in Users : a \in hosted[u]} = {start[a].host}
    BY DEF OneHost
  <2>1. start[a].host \in Users
    BY DEF TypeInv, TypeOK, FilesTypeOK, Written, StartRecord
  <2>2. a \in hosted[start[a].host]
    BY DEF HostInv, HostsKnown
  <2> QED
    BY <2>1, <2>2 DEF HostedOnce
<1>2. Inv /\ [Next]_vars => Inv'
  BY TypeNext, LockNext, HostNext, HostedNext
<1>3. Init => Inv
  BY TypeInit, LockInit, HostInit DEF Init, HostedOnce, MakesDir, Procs
<1> QED
  BY <1>1, <1>2, <1>3, PTL DEF Spec
===============================================================================
