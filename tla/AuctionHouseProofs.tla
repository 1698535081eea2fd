--------------------------- MODULE AuctionHouseProofs ---------------------------
(***************************************************************************)
(* Proofs that the server, seen through its files, is an auction house,    *)
(* and that it closes auctions in order while only children, who hold the  *)
(* lock, touch END.                                                        *)
(***************************************************************************)
EXTENDS AuctionFilesProofs

(* A step that leaves the files alone and makes no child busy.             *)
RestStep ==
  /\ UNCHANGED fileVars
  /\ now' >= now
  /\ \A c \in Children : SameLocals(c) \/ NotBusy(c)'

(* Where lock_dir does not fail: a step is one of those, or that of the    *)
(* one child behind the lock, or of the parent in ongoing_auction.         *)
LEMMA LoneSteps ==
  ASSUME TypeInv, LockInv, [Next]_vars
  PROVE  \/ RestStep
         \/ \E c \in Children :
              /\ FileStep(c) \/ OngoingStep(c)
              /\ \A d \in Children \ {c} : SameLocals(d) /\ pc[d] \notin LockedLabels
         \/ OngoingStep(Server)
<1>1. CASE QuietFiles
  BY <1>1 DEF QuietFiles, RestStep, Procs
<1>2. ASSUME NEW p \in Procs, Kill(p) PROVE RestStep
  BY <1>2, Deaths DEF RestStep, Procs, NotBusy, BusyLabels, TypeInv, TypeOK, FilesTypeOK, Times
<1>3. ASSUME NEW c \in Children, FileStep(c) \/ OngoingStep(c)
      PROVE  \A d \in Children \ {c} : SameLocals(d) /\ pc[d] \notin LockedLabels
  BY <1>3, FileStepsLocked, LockedAlone DEF Procs
<1> QED
  BY FileSteps, <1>1, <1>2, <1>3 DEF Procs

(* In ongoing_auction the parent changes END only, and no child.           *)
LEMMA ParentOngoing ==
  ASSUME TypeInv, OngoingStep(Server)
  PROVE  /\ UNCHANGED <<now, hosted, bidded, dirs, start, bids>>
         /\ \A c \in Children : SameLocals(c)
  BY ConstantsAssumption
  DEF TypeInv, TypeOK, ProcsTypeOK, Procs, OngoingStep, AccessEnd, ReadStart, CreateEnd,
      WriteEnd, OngoingReturns, Goto, Reply, localVars, userVars, auctionVars, SameLocals

-------------------------------------------------------------------------------
(* What the house relies on.  A Blank START is being written, so that      *)
(* nobody else behind the lock sees one; the identifier being opened is    *)
(* the newest; the bid being placed beats the start value.                 *)

BlankIsWritten ==
  \A a \in Aids : start[a] = Blank => \E c \in Children : pc[c] = "startWrite" /\ aid[c] = a

HouseKnows(c) ==
  /\ pc[c] = "dirs" => \A b \in dirs : b < aid[c]
  /\ pc[c] \in {"start", "startWrite"} => \A b \in dirs : b <= aid[c]
  /\ pc[c] \in {"bid", "bidCreate", "bidWrite"} => Written(start[aid[c]])
  /\ pc[c] \in {"bidCreate", "bidWrite"} => req[c].value > start[aid[c]].value

HouseInv == BlankIsWritten /\ \A c \in Children : HouseKnows(c)

(* At first no child has anything to know.                                 *)
LEMMA HouseInit == Init => HouseInv
  BY ConstantsAssumption DEF Init, HouseInv, BlankIsWritten, HouseKnows, Procs

(* What a child in a step of its own learns or keeps.                      *)
LEMMA HouseByChild ==
  ASSUME TypeInv, HouseInv, NEW c \in Children, FileStep(c) \/ OngoingStep(c),
         \A d \in Children \ {c} : pc[d] \notin LockedLabels
  PROVE  HouseKnows(c)'
<1> USE ConstantsAssumption DEF TypeInv, TypeOK, FilesTypeOK, ProcsTypeOK, Procs, HouseInv
<1>1. CASE CreateHosted(c)
  <2>1. UNCHANGED dirs /\ \/ pc'[c] = "unlockA"
                          \/ pc'[c] = "dirs" /\ \A b \in dirs : b < aid'[c]
    BY <1>1 DEF CreateHosted, IsNextAuctionId, Goto, Reply, auctionVars
  <2> QED
    BY <2>1 DEF HouseKnows
<1>2. CASE MakeDirs(c)
  <2>1. aid[c] \in Aids /\ dirs \subseteq Aids /\ Aids \subseteq Int
    BY <1>2 DEF MakeDirs, Locals, LocalsOf, Aids
  <2>2. /\ dirs' \subseteq dirs \cup {aid[c]} /\ aid' = aid
        /\ pc'[c] \in {"start", "unlockA"}
        /\ \A b \in dirs : b < aid[c]
    BY <1>2 DEF MakeDirs, Goto, Reply, localVars, HouseKnows
  <2>3. ASSUME NEW b \in dirs' PROVE b <= aid'[c]
    <3>1. b \in Int /\ aid[c] \in Int /\ (b < aid[c] \/ b = aid[c])
      BY <2>1, <2>2
    <3>2. b <= aid[c]
      BY <3>1
    <3> QED
      BY <2>2, <3>2
  <2> QED
    BY <2>2, <2>3 DEF HouseKnows
<1>3. CASE CreateStart(c) \/ WriteStart(c)
  BY <1>3 DEF CreateStart, WriteStart, Transition, Goto, Reply, localVars, HouseKnows
<1>4. CASE ReadStart(c)
  <2>1. UNCHANGED <<start, aid>> /\ pc'[c] \notin {"dirs", "start", "startWrite", "bidCreate", "bidWrite"}
    BY <1>4 DEF ReadStart, OngoingReturns, Goto, Reply, auctionVars
  <2>2. start[aid[c]] # Blank
    BY <1>4 DEF ReadStart, BlankIsWritten, Locals, LocalsOf, LockedLabels, WorkLabels
  <2>3. pc'[c] = "bid" => Written(start[aid[c]])
    BY <1>4, <2>2 DEF ReadStart, OngoingReturns, Goto, Reply, Written
  <2> QED
    BY <2>1, <2>3 DEF HouseKnows
<1>5. CASE CheckBid(c)
  <2>1. UNCHANGED <<start, aid, req>> /\ pc'[c] \in {"bidCreate", "unlockA"}
    BY <1>5 DEF CheckBid, Goto, Reply, auctionVars, localVars
  <2>2. Written(start[aid[c]])
    BY <1>5 DEF CheckBid, HouseKnows
  <2>3. pc'[c] = "bidCreate" => req[c].value > start[aid[c]].value
    BY <1>5, <2>2 DEF CheckBid, Goto, Reply, Written
  <2> QED
    BY <2>1, <2>2, <2>3 DEF HouseKnows
<1>6. CASE CreateBid(c)
  BY <1>6 DEF CreateBid, Goto, Reply, localVars, HouseKnows
<1>7. CASE WriteBid(c) \/ CreateBidded(c) \/ CloseStep(c)
             \/ AccessEnd(c) \/ CreateEnd(c) \/ WriteEnd(c)
  <2>1. pc'[c] \notin {"dirs", "start", "startWrite", "bid", "bidCreate", "bidWrite"}
    BY <1>7 DEF WriteBid, CreateBidded, CloseStep, CloseAuction, WriteClose, AccessEnd,
                CreateEnd, WriteEnd, OngoingReturns, Transition, Goto, Reply
  <2> QED
    BY <2>1 DEF HouseKnows
<1> QED
  BY <1>1, <1>2, <1>3, <1>4, <1>5, <1>6, <1>7 DEF FileStep, OpenStep, BidStep, OngoingStep

(* A Blank START is left by nobody: children are not killed, and the one   *)
(* that created it writes it.                                              *)
LEMMA BlankNext ==
  ASSUME TypeInv, LockInv, HouseInv, [Next]_vars, "kill" \notin Faults
  PROVE  BlankIsWritten'
<1> SUFFICES ASSUME NEW a \in Aids, start'[a] = Blank
             PROVE  \E c \in Children : pc'[c] = "startWrite" /\ aid'[c] = a
  BY DEF BlankIsWritten
<1> USE ConstantsAssumption
    DEF TypeInv, TypeOK, FilesTypeOK, ProcsTypeOK, Procs, HouseInv, BlankIsWritten
<1>1. CASE QuietFiles
  BY <1>1 DEF QuietFiles, fileVars, SameLocals, BusyLabels
<1>2. CASE OngoingStep(Server)
  BY <1>2, ParentOngoing DEF SameLocals
<1>3. ASSUME NEW c \in Children, FileStep(c) \/ OngoingStep(c)
      PROVE  \E d \in Children : pc'[d] = "startWrite" /\ aid'[d] = a
  <2>1. \A d \in Children \ {c} : SameLocals(d) /\ pc[d] \notin LockedLabels
    BY <1>3, FileStepsLocked, LockedAlone
  <2>2. CASE CreateStart(c)
    <3>1. \/ UNCHANGED start
          \/ start' = [start EXCEPT ![aid[c]] = Blank] /\ pc'[c] = "startWrite" /\ aid' = aid
      BY <2>2 DEF CreateStart, Goto, localVars
    <3>2. pc[c] = "start" /\ ~(\E d \in Children : pc[d] = "startWrite")
      BY <2>1, <2>2 DEF CreateStart, LockedLabels, WorkLabels
    <3> QED
      BY <3>1, <3>2
  <2>3. CASE WriteStart(c)
    <3>1. /\ start' = [start EXCEPT ![aid[c]] =
                         [host |-> req[c].uid, value |-> req[c].value,
                          active |-> req[c].active, at |-> now]]
          /\ aid[c] \in Aids /\ req[c] \in Request /\ req[c].uid \in Users
          /\ req[c].active \in Durations
      BY <2>3 DEF WriteStart, Transition, Locals, LocalsOf
    <3>2. start'[aid[c]] # Blank
      BY <3>1 DEF Request, StartRecord
    <3>3. start[a] = Blank /\ a # aid[c]
      BY <3>1, <3>2
    <3> QED
      BY <2>1, <2>3, <3>3 DEF WriteStart, Transition, LockedLabels, WorkLabels
  <2>4. CASE ~(CreateStart(c) \/ WriteStart(c))
    <3>1. UNCHANGED start /\ pc[c] # "startWrite"
      BY <1>3, <2>4
      DEF FileStep, OpenStep, BidStep, CloseStep, OngoingStep, CreateHosted, MakeDirs, CheckBid,
          CreateBid, WriteBid, CreateBidded, CloseAuction, WriteClose, AccessEnd, ReadStart,
          CreateEnd, WriteEnd, Transition, auctionVars
    <3> QED
      BY <2>1, <3>1 DEF SameLocals
  <2> QED
    BY <2>2, <2>3, <2>4
<1> QED
  BY FileSteps, Deaths, <1>1, <1>2, <1>3

(* The lock keeps the others from disturbing what a child knows.           *)
LEMMA HouseNext ==
  ASSUME TypeInv, LockInv, HouseInv, [Next]_vars, "kill" \notin Faults
  PROVE  HouseInv'
<1>1. ASSUME NEW d \in Children, NotBusy(d)' PROVE HouseKnows(d)'
  BY <1>1 DEF NotBusy, BusyLabels, HouseKnows
<1>2. ASSUME NEW d \in Children, SameLocals(d), UNCHANGED <<dirs, start>>
      PROVE  HouseKnows(d)'
  BY <1>2 DEF SameLocals, HouseInv, HouseKnows
<1>3. ASSUME NEW d \in Children PROVE HouseKnows(d)'
  <2>1. CASE RestStep
    BY <1>1, <1>2, <2>1 DEF RestStep, fileVars
  <2>2. CASE OngoingStep(Server)
    BY <1>2, <2>2, ParentOngoing
  <2>3. ASSUME NEW c \in Children, FileStep(c) \/ OngoingStep(c),
               \A e \in Children \ {c} : SameLocals(e) /\ pc[e] \notin LockedLabels
        PROVE  HouseKnows(d)'
    <3>1. CASE d = c
      BY <2>3, <3>1, HouseByChild
    <3>2. CASE d # c
      BY <1>1, <2>3, <3>2 DEF SameLocals, LockedLabels, WorkLabels, NotBusy, BusyLabels
    <3> QED
      BY <3>1, <3>2
  <2> QED
    BY LoneSteps, <2>1, <2>2, <2>3
<1> QED
  BY BlankNext, <1>3 DEF HouseInv

-------------------------------------------------------------------------------
(* Refinement.  Writing START opens an auction, writing a bid makes an     *)
(* offer, creating END ends an auction, and nothing else can be seen.      *)

(* Integers are in a strict order.                                         *)
LEMMA StrictlyLess == \A x, y \in Int : x <= y /\ x # y => x < y
  OBVIOUS

(* A START that is written is an auction of the house.                     *)
LEMMA WrittenIsOpened ==
  ASSUME TypeInv, NEW a \in Aids, Written(start[a])
  PROVE  /\ AuctionsOnFile[a] = [host |-> start[a].host, value |-> start[a].value]
         /\ House!Opened(a)
  BY NoneIsNoAuction
  DEF TypeInv, TypeOK, FilesTypeOK, Written, StartRecord, AuctionsOnFile, House!Opened

(* A bid that is written is one more offer on file.                        *)
LEMMA OneMoreOffer ==
  ASSUME TypeInv, NEW a \in Aids, NEW v \in Values, NEW u \in Users,
         bids' = [bids EXCEPT ![a][v] = u]
  PROVE  OffersOnFile' = [OffersOnFile EXCEPT ![a][v] = u]
<1>1. \A b \in Aids, w \in Values : bids'[b][w] = IF b = a /\ w = v THEN u ELSE bids[b][w]
  BY DEF TypeInv, TypeOK, FilesTypeOK
<1>2. u # Blank
  BY ConstantsAssumption
<1>3. OffersOnFile' =
        [b \in Aids |-> [w \in Values |-> IF b = a /\ w = v THEN u ELSE OffersOnFile[b][w]]]
  BY <1>1, <1>2 DEF OffersOnFile
<1>4. ASSUME NEW b \in Aids
      PROVE  /\ [OffersOnFile[b] EXCEPT ![v] = u] =
                  [w \in Values |-> IF w = v THEN u ELSE OffersOnFile[b][w]]
             /\ OffersOnFile[b] = [w \in Values |-> OffersOnFile[b][w]]
  BY DEF OffersOnFile
<1>5. [OffersOnFile EXCEPT ![a][v] = u] =
        [b \in Aids |-> IF b = a THEN [OffersOnFile[b] EXCEPT ![v] = u] ELSE OffersOnFile[b]]
  BY DEF OffersOnFile
<1>6. [OffersOnFile EXCEPT ![a][v] = u] =
        [b \in Aids |-> [w \in Values |-> IF b = a /\ w = v THEN u ELSE OffersOnFile[b][w]]]
  BY <1>4, <1>5
<1> QED
  BY <1>3, <1>6

(* What is written to START is an auction that was not there, and newest.  *)
LEMMA WriteStartOpens ==
  ASSUME TypeInv, HostInv, HouseInv, NEW c \in Children, WriteStart(c)
  PROVE  House!OpenAuction(aid[c], req[c].uid, req[c].value)
<1> USE ConstantsAssumption DEF TypeInv, TypeOK, FilesTypeOK, ProcsTypeOK, Procs
<1>1. /\ aid[c] \in Aids /\ req[c] \in Request /\ req[c].uid \in Users
      /\ req[c].active \in Durations
      /\ pc[c] = "startWrite" /\ UNCHANGED <<bids, end>>
      /\ start' = [start EXCEPT ![aid[c]] = [host |-> req[c].uid, value |-> req[c].value,
                                            active |-> req[c].active, at |-> now]]
  BY DEF WriteStart, Transition, Locals, LocalsOf
<1> DEFINE written == [host |-> req[c].uid, value |-> req[c].value,
                       active |-> req[c].active, at |-> now]
           opened == [host |-> req[c].uid, value |-> req[c].value]
<1>2. Written(written) /\ written.host = req[c].uid /\ written.value = req[c].value
  BY <1>1 DEF Written, Request, StartRecord
<1>3. \A b \in Aids : House!Opened(b) => b < aid[c]
  <2> SUFFICES ASSUME NEW b \in Aids, House!Opened(b) PROVE b < aid[c]
    OBVIOUS
  <2>1. Written(start[b])
    BY DEF House!Opened, AuctionsOnFile
  <2>2. b \in dirs /\ b # aid[c]
    BY <1>1, <2>1 DEF HostInv, FilesInDirs, ChildrenKnow, ChildKnows, Written
  <2>3. b <= aid[c] /\ b \in Int /\ aid[c] \in Int
    BY <1>1, <2>2 DEF HouseInv, HouseKnows, Aids
  <2> QED
    BY <2>2, <2>3, StrictlyLess
<1>4. AuctionsOnFile' = [AuctionsOnFile EXCEPT ![aid[c]] = opened]
  BY <1>1, <1>2 DEF AuctionsOnFile
<1>5. OffersOnFile' = OffersOnFile /\ ClosedOnFile' = ClosedOnFile
  BY <1>1 DEF OffersOnFile, ClosedOnFile
<1> QED
  BY <1>3, <1>4, <1>5 DEF House!OpenAuction

(* A bid is written for an opened auction, not by its host, and beats the  *)
(* start value and the offers on file.                                     *)
LEMMA WriteBidOffers ==
  ASSUME TypeInv, HostInv, PlacedInv, HouseInv, NEW c \in Children, WriteBid(c)
  PROVE  House!MakeOffer(aid[c], req[c].uid, req[c].value)
<1> USE ConstantsAssumption DEF TypeInv, TypeOK, FilesTypeOK, ProcsTypeOK, Procs
<1>1. /\ aid[c] \in Aids /\ req[c].uid \in Users /\ req[c].value \in Values
      /\ pc[c] = "bidWrite" /\ UNCHANGED <<start, end>>
      /\ bids' = [bids EXCEPT ![aid[c]][req[c].value] = req[c].uid]
  BY DEF WriteBid, Transition, Locals, LocalsOf, Request
<1>2. /\ Written(start[aid[c]])
      /\ start[aid[c]] \in StartRecord
      /\ req[c].value > start[aid[c]].value
  BY <1>1 DEF HouseInv, HouseKnows, Written
<1>3. AuctionsOnFile[aid[c]] = [host |-> start[aid[c]].host, value |-> start[aid[c]].value]
  BY <1>1, <1>2, WrittenIsOpened
<1>4. House!Opened(aid[c])
  BY <1>1, <1>2, WrittenIsOpened
<1>5. req[c].uid # AuctionsOnFile[aid[c]].host
  BY <1>1, <1>2, <1>3 DEF HostInv, HostsKnown, ChildrenKnow, ChildKnows
<1>6. req[c].value > AuctionsOnFile[aid[c]].value
  BY <1>2, <1>3
<1>7. \A w \in Values : OffersOnFile[aid[c]][w] # None => w < req[c].value
  <2> SUFFICES ASSUME NEW w \in Values, OffersOnFile[aid[c]][w] # None
               PROVE  w < req[c].value
    OBVIOUS
  <2>1. bids[aid[c]][w] # None /\ bids[aid[c]][w] # Blank
    BY <1>1 DEF OffersOnFile
  <2>2. w <= req[c].value /\ w # req[c].value
    BY <1>1, <2>1 DEF PlacedInv, PlacedBid
  <2>3. w \in Int /\ req[c].value \in Int
    BY <1>1 DEF Values
  <2> QED
    BY <2>2, <2>3, StrictlyLess
<1>8. OffersOnFile' = [OffersOnFile EXCEPT ![aid[c]][req[c].value] = req[c].uid]
  BY <1>1, OneMoreOffer
<1>9. AuctionsOnFile' = AuctionsOnFile /\ ClosedOnFile' = ClosedOnFile
  BY <1>1 DEF AuctionsOnFile, ClosedOnFile
<1> QED
  BY <1>4, <1>5, <1>6, <1>7, <1>8, <1>9 DEF House!MakeOffer

(* A change of END ends the auction if there was no END.                   *)
LEMMA EndEnds ==
  ASSUME TypeInv, NEW a \in Aids, NEW e \in Int \cup {Blank},
         end' = [end EXCEPT ![a] = e], UNCHANGED <<start, bids>>
  PROVE  \/ end[a] = None /\ House!EndAuction(a)
         \/ end[a] # None /\ UNCHANGED House!houseVars
<1>1. e # None /\ end \in [Aids -> Int \cup {None, Blank}]
  BY ConstantsAssumption DEF TypeInv, TypeOK, FilesTypeOK
<1>2. ClosedOnFile' = ClosedOnFile \cup {a}
  BY <1>1 DEF ClosedOnFile
<1>3. AuctionsOnFile' = AuctionsOnFile /\ OffersOnFile' = OffersOnFile
  BY DEF AuctionsOnFile, OffersOnFile
<1> QED
  BY <1>2, <1>3 DEF ClosedOnFile, House!EndAuction, House!houseVars

(* A file created is not seen before it is written.                        *)
LEMMA CreationUnseen ==
  ASSUME TypeInv, HostInv, PlacedInv, NEW c \in Children, CreateStart(c) \/ CreateBid(c)
  PROVE  UNCHANGED House!houseVars
<1> USE ConstantsAssumption DEF TypeInv, TypeOK, FilesTypeOK, ProcsTypeOK, Procs
<1>1. CASE CreateStart(c)
  <2>1. /\ UNCHANGED <<bids, end>> /\ ~Written(start[aid[c]])
        /\ start' \in {start, [start EXCEPT ![aid[c]] = Blank]}
    BY <1>1 DEF CreateStart, HostInv, ChildrenKnow, ChildKnows
  <2>2. AuctionsOnFile' = AuctionsOnFile
    BY <2>1 DEF AuctionsOnFile, Written
  <2> QED
    BY <2>1, <2>2 DEF House!houseVars, OffersOnFile, ClosedOnFile
<1>2. CASE CreateBid(c)
  <2>1. /\ UNCHANGED <<start, end>>
        /\ bids' \in {bids, [bids EXCEPT ![aid[c]][req[c].value] = Blank]}
    BY <1>2 DEF CreateBid
  <2>2. req[c].value \in Values /\ aid[c] \in Aids /\ Values \subseteq Int
    BY <1>2 DEF CreateBid, Locals, LocalsOf, Request, Values
  <2>3. \A w \in Values : bids[aid[c]][w] # None => w < req[c].value
    BY <1>2 DEF CreateBid, PlacedInv, PlacedBid
  <2>4. \A v \in Int : ~(v < v)
    OBVIOUS
  <2>5. bids[aid[c]][req[c].value] = None
    BY <2>2, <2>3, <2>4
  <2>6. OffersOnFile' = OffersOnFile
    BY <2>1, <2>2, <2>5 DEF OffersOnFile
  <2> QED
    BY <2>1, <2>6 DEF House!houseVars, AuctionsOnFile, ClosedOnFile
<1> QED
  BY <1>1, <1>2

(* A step of the server is a step of the house, or is not seen.            *)
LEMMA HouseSteps ==
  ASSUME TypeInv, HostInv, PlacedInv, HouseInv, [Next]_vars
  PROVE  \/ \E c \in Children :
              /\ WriteStart(c) /\ aid[c] \in Aids /\ req[c].uid \in Users
              /\ req[c].value \in Values
              /\ House!OpenAuction(aid[c], req[c].uid, req[c].value)
         \/ \E c \in Children :
              /\ WriteBid(c) /\ aid[c] \in Aids /\ req[c].uid \in Users
              /\ req[c].value \in Values
              /\ House!MakeOffer(aid[c], req[c].uid, req[c].value)
         \/ \E p \in Procs :
              /\ CreateEnd(p) \/ WriteEnd(p) \/ (p \in Children /\ CloseStep(p))
              /\ aid[p] \in Aids /\ end[aid[p]] = None
              /\ House!EndAuction(aid[p])
         \/ UNCHANGED House!houseVars
<1> USE ConstantsAssumption DEF TypeInv, TypeOK, FilesTypeOK, ProcsTypeOK, Procs
<1>1. ASSUME UNCHANGED <<start, bids, end>> PROVE UNCHANGED House!houseVars
  BY <1>1 DEF House!houseVars, AuctionsOnFile, OffersOnFile, ClosedOnFile
<1>2. ASSUME NEW c \in Children, WriteStart(c)
      PROVE  /\ aid[c] \in Aids /\ req[c].uid \in Users /\ req[c].value \in Values
             /\ House!OpenAuction(aid[c], req[c].uid, req[c].value)
  BY <1>2, WriteStartOpens DEF WriteStart, Transition, Locals, LocalsOf, Request
<1>3. ASSUME NEW c \in Children, WriteBid(c)
      PROVE  /\ aid[c] \in Aids /\ req[c].uid \in Users /\ req[c].value \in Values
             /\ House!MakeOffer(aid[c], req[c].uid, req[c].value)
  BY <1>3, WriteBidOffers DEF WriteBid, Transition, Locals, LocalsOf, Request
<1>4. ASSUME NEW p \in Procs, CreateEnd(p) \/ WriteEnd(p) \/ (p \in Children /\ CloseStep(p))
      PROVE  \/ aid[p] \in Aids /\ end[aid[p]] = None /\ House!EndAuction(aid[p])
             \/ UNCHANGED House!houseVars
  <2>1. aid[p] \in Aids /\ UNCHANGED <<start, bids>>
    BY <1>4 DEF CreateEnd, WriteEnd, CloseStep, CloseAuction, WriteClose, Locals, LocalsOf
  <2>2. UNCHANGED end \/ \E e \in Int \cup {Blank} : end' = [end EXCEPT ![aid[p]] = e]
    BY <1>4 DEF CreateEnd, WriteEnd, CloseStep, CloseAuction, WriteClose
  <2> QED
    BY <1>1, <2>1, <2>2, EndEnds
<1>5. ASSUME NEW c \in Children, CreateHosted(c) \/ MakeDirs(c) \/ CheckBid(c) \/ CreateBidded(c)
      PROVE  UNCHANGED <<start, bids, end>>
  BY <1>5 DEF CreateHosted, MakeDirs, CheckBid, CreateBidded, auctionVars
<1>6. ASSUME NEW p \in Procs, AccessEnd(p) \/ ReadStart(p) PROVE UNCHANGED <<start, bids, end>>
  BY <1>6 DEF AccessEnd, ReadStart, auctionVars
<1>7. CASE QuietFiles \/ \E p \in Procs : Kill(p)
  BY <1>1, <1>7, Deaths DEF QuietFiles, fileVars
<1>8. ASSUME NEW c \in Children, FileStep(c)
      PROVE  \/ WriteStart(c) \/ WriteBid(c) \/ CloseStep(c) \/ UNCHANGED House!houseVars
  BY <1>1, <1>5, <1>8, CreationUnseen DEF FileStep, OpenStep, BidStep
<1>9. ASSUME NEW p \in Procs, OngoingStep(p)
      PROVE  CreateEnd(p) \/ WriteEnd(p) \/ UNCHANGED House!houseVars
  BY <1>1, <1>6, <1>9 DEF OngoingStep
<1> HIDE DEF TypeInv
<1> QED
  BY FileSteps, <1>2, <1>3, <1>4, <1>7, <1>8, <1>9

(* Files that do not exist are no auctions, no offers and no closings.     *)
LEMMA HouseStart == Init => House!NoneOpened
  BY ConstantsAssumption
  DEF Init, House!NoneOpened, AuctionsOnFile, OffersOnFile, ClosedOnFile, Written

(* While lock_dir does not fail and no process is killed, the server is an *)
(* auction house, also when files cannot be created and the parent, which  *)
(* takes no lock, lists auctions at any time.                              *)
THEOREM IsAuctionHouse == Faults \cap {"kill", "lock"} = {} => (Spec => ImplementsHouse)
<1> SUFFICES ASSUME "kill" \notin Faults, "lock" \notin Faults PROVE Spec => ImplementsHouse
  OBVIOUS
<1> DEFINE Inv == TypeInv /\ LockInv /\ HostInv /\ PlacedInv /\ HouseInv
<1>1. Init => Inv /\ House!NoneOpened
  BY TypeInit, LockInit, HostInit, PlacedInit, HouseInit, HouseStart
<1>2. Inv /\ [Next]_vars => Inv'
  BY TypeNext, LockNext, HostNext, PlacedNext, HouseNext
<1>3. Inv /\ [Next]_vars => [House!Deal]_(House!houseVars)
  BY HouseSteps DEF House!Deal
<1> QED
  BY <1>1, <1>2, <1>3, PTL DEF Spec, ImplementsHouse, House!HouseSpec

-------------------------------------------------------------------------------
(* Without requests that list auctions the parent does not call            *)
(* ongoing_auction, and END belongs to the child behind the lock.          *)

Lists == {"LMA", "LMB", "LST", "SRC"}

ParentAway == pc[Server] \notin {"list", "src", "oaEnd", "oaStart", "oaCreate", "oaWrite"}

(* The parent gets to those labels from one another or by such a request.  *)
LEMMA AwayNext ==
  ASSUME TypeInv, ParentAway, [Next]_vars, UdpOps \cap Lists = {} PROVE ParentAway'
<1> USE ConstantsAssumption
    DEF TypeInv, TypeOK, ProcsTypeOK, Procs, ParentAway, Lists, Transition, Goto, Reply
<1>1. CASE UNCHANGED pc
  BY <1>1
<1>2. ASSUME NEW c \in Children, Fork(c) \/ ChildStep(c) \/ SendAsset(c)
      PROVE  pc'[Server] = pc[Server]
  <2>1. CASE Fork(c) \/ LockAuctions(c) \/ LockUsers(c) \/ ReadNothing(c) \/ ReadOpen(c)
               \/ ReadBid(c) \/ ReadClose(c) \/ SendAsset(c) \/ UnlockAuctions(c)
               \/ UnlockUsers(c)
    BY <2>1 DEF Fork, LockAuctions, LockUsers, ReadNothing, ReadOpen, ReadBid, ReadClose,
                SendAsset, UnlockAuctions, UnlockUsers
  <2>2. CASE ShowAsset(c) \/ VerifyUserExists(c) \/ VerifyPassword(c) \/ IsUserLogin(c)
               \/ StoreAsset(c) \/ CheckOwner(c)
    BY <2>2 DEF ShowAsset, VerifyUserExists, VerifyPassword, IsUserLogin, StoreAsset,
                CheckOwner, Die
  <2>3. CASE FileStep(c) \/ OngoingStep(c)
    BY <2>3, FileStepsLocked DEF SameLocals
  <2> QED
    BY <1>2, <2>1, <2>2, <2>3 DEF ChildStep, FileStep, OpenStep, BidStep, CloseStep
<1>3. CASE Receives
  <2>1. CASE HandleLogin
    BY <2>1 DEF HandleLogin
  <2>2. CASE HandleLogout
    BY <2>2 DEF HandleLogout
  <2>3. CASE HandleUnregister
    BY <2>3 DEF HandleUnregister
  <2>4. CASE HandleMyAuctions \/ HandleMyBids \/ HandleList \/ HandleShowRecord
    BY <2>4 DEF HandleMyAuctions, HandleMyBids, HandleList, HandleShowRecord, Receive
  <2> QED
    BY <1>3, <2>1, <2>2, <2>3, <2>4 DEF Receives
<1>4. CASE ServerStep
  BY <1>4 DEF ServerStep, WritePass, CreateLogin, RemoveLogin, NextListed, ReadRecord,
              ReadClosing, ReplyMsg, OngoingStep, AccessEnd, ReadStart, CreateEnd, WriteEnd, Die
<1>5. ASSUME NEW p \in Procs, Kill(p) PROVE ParentAway'
  BY <1>5 DEF Kill, Die
<1>6. CASE Restart \/ Tick \/ UNCHANGED vars
  BY <1>1, <1>6 DEF Restart, Tick, vars
<1> QED
  BY <1>2, <1>3, <1>4, <1>5, <1>6 DEF Next

(* The child behind the lock knows whether there is an END.                *)
EndKnows(c) ==
  /\ pc[c] \in {"oaStart", "oaCreate", "close", "bid", "bidCreate", "bidWrite"} =>
       end[aid[c]] = None
  /\ pc[c] \in {"oaWrite", "closeWrite"} => end[aid[c]] = Blank

EndInv == ParentAway /\ \A c \in Children : EndKnows(c)

(* At first the parent listens and no child has anything to know.          *)
LEMMA EndInit == Init => EndInv
  BY ConstantsAssumption DEF Init, EndInv, ParentAway, EndKnows, Procs

(* END is looked for before, and nobody else creates one.                  *)
LEMMA EndNext ==
  ASSUME TypeInv, LockInv, EndInv, [Next]_vars, UdpOps \cap Lists = {} PROVE EndInv'
<1> USE DEF TypeInv, TypeOK, FilesTypeOK, ProcsTypeOK, Procs, EndInv
<1>1. ASSUME NEW d \in Children, NotBusy(d)' PROVE EndKnows(d)'
  BY <1>1 DEF NotBusy, BusyLabels, EndKnows
<1>2. ASSUME NEW c \in Children, FileStep(c) \/ OngoingStep(c) PROVE EndKnows(c)'
  <2>1. CASE OpenStep(c)
    BY <2>1 DEF OpenStep, CreateHosted, MakeDirs, CreateStart, WriteStart, Transition, Goto,
                Reply, EndKnows
  <2>2. CASE BidStep(c)
    BY <2>2 DEF BidStep, CheckBid, CreateBid, WriteBid, CreateBidded, Transition, Goto, Reply,
                auctionVars, localVars, EndKnows
  <2>3. CASE CloseStep(c)
    BY <2>3 DEF CloseStep, CloseAuction, WriteClose, Goto, Reply, Locals, LocalsOf, EndKnows
  <2>4. CASE OngoingStep(c)
    BY <2>4 DEF OngoingStep, AccessEnd, ReadStart, CreateEnd, WriteEnd, OngoingReturns, Goto,
                Reply, auctionVars, localVars, Locals, LocalsOf, EndKnows
  <2> QED
    BY <1>2, <2>1, <2>2, <2>3, <2>4 DEF FileStep
<1>3. ~OngoingStep(Server)
  BY DEF OngoingStep, AccessEnd, ReadStart, CreateEnd, WriteEnd, ParentAway
<1>4. ASSUME NEW d \in Children PROVE EndKnows(d)'
  <2>1. CASE RestStep
    BY <1>1, <2>1 DEF RestStep, fileVars, SameLocals, EndKnows
  <2>2. ASSUME NEW c \in Children, FileStep(c) \/ OngoingStep(c),
               \A e \in Children \ {c} : SameLocals(e) /\ pc[e] \notin LockedLabels
        PROVE  EndKnows(d)'
    <3>1. CASE d # c
      BY <1>1, <2>2, <3>1 DEF SameLocals, LockedLabels, WorkLabels, NotBusy, BusyLabels
    <3> QED
      BY <1>2, <2>2, <3>1
  <2> QED
    BY LoneSteps, <1>3, <2>1, <2>2
<1> QED
  BY AwayNext, <1>4

(* Only these steps change END, and only that of the auction they are on.  *)
LEMMA EndSteps ==
  ASSUME TypeInv, EndInv, [Next]_vars, NEW a \in Aids, end'[a] # end[a]
  PROVE  \E c \in Children :
           /\ aid[c] = a /\ pc[c] \in {"oaCreate", "oaWrite", "close", "closeWrite"}
           /\ CreateEnd(c) \/ WriteEnd(c) \/ CloseStep(c)
<1> USE DEF TypeInv, TypeOK, FilesTypeOK
<1>1. end' # end
  OBVIOUS
<1>2. ~QuietFiles /\ \A p \in Procs : ~Kill(p)
  BY <1>1, Deaths DEF QuietFiles, fileVars
<1>3. ~OngoingStep(Server)
  BY DEF OngoingStep, AccessEnd, ReadStart, CreateEnd, WriteEnd, EndInv, ParentAway
<1>4. PICK c \in Children : FileStep(c) \/ OngoingStep(c)
  BY FileSteps, <1>2, <1>3 DEF Procs
<1>5. CreateEnd(c) \/ WriteEnd(c) \/ CloseStep(c)
  BY <1>1, <1>4
  DEF FileStep, OpenStep, BidStep, OngoingStep, CreateHosted, MakeDirs, CreateStart,
      WriteStart, CheckBid, CreateBid, WriteBid, CreateBidded, AccessEnd, ReadStart, auctionVars
<1>6. aid[c] = a /\ pc[c] \in {"oaCreate", "oaWrite", "close", "closeWrite"}
  BY <1>5 DEF CreateEnd, WriteEnd, CloseStep, CloseAuction, WriteClose
<1> QED
  BY <1>5, <1>6

(* Without lists and without a lock_dir that fails an END that has been    *)
(* written stays as it is, even if processes are killed.                   *)
THEOREM EndNeverRewritten ==
  "lock" \notin Faults /\ UdpOps \cap Lists = {} => (Spec => EndWriteOnce)
<1> SUFFICES ASSUME "lock" \notin Faults, UdpOps \cap Lists = {} PROVE Spec => EndWriteOnce
  OBVIOUS
<1> DEFINE Inv == TypeInv /\ LockInv /\ EndInv
           Kept == \A a \in Aids : Written(end[a]) => end'[a] = end[a]
<1>1. Inv /\ [Next]_vars => Inv'
  BY TypeNext, LockNext, EndNext
<1>2. Inv /\ [Next]_vars => [Kept]_vars
  <2> SUFFICES ASSUME Inv, [Next]_vars, NEW a \in Aids, end'[a] # end[a] PROVE ~Written(end[a])
    OBVIOUS
  <2> QED
    BY EndSteps DEF EndInv, EndKnows, Written
<1>3. Init => Inv
  BY TypeInit, LockInit, EndInit
<1> QED
  BY <1>1, <1>2, <1>3, PTL DEF Spec, EndWriteOnce

(* Without lists and without a lock_dir that fails no bid appears in an    *)
(* auction with an END, even if processes are killed: with lists one does. *)
THEOREM NoBidAfterEnd ==
  "lock" \notin Faults /\ UdpOps \cap Lists = {} => (Spec => BidOnlyWhileOngoing)
<1> SUFFICES ASSUME "lock" \notin Faults, UdpOps \cap Lists = {}
             PROVE  Spec => BidOnlyWhileOngoing
  OBVIOUS
<1> DEFINE Inv == TypeInv /\ LockInv /\ PlacedInv /\ EndInv
           Ongoing == \A a \in Aids, v \in Values :
                        bids[a][v] = None /\ bids'[a][v] # None => end[a] = None
<1>1. Inv /\ [Next]_vars => Inv'
  BY TypeNext, LockNext, PlacedNext, EndNext
<1>2. Inv /\ [Next]_vars => [Ongoing]_vars
  <2> SUFFICES ASSUME Inv, [Next]_vars, NEW a \in Aids, NEW v \in Values,
                      bids[a][v] = None, bids'[a][v] # None
               PROVE  end[a] = None
    OBVIOUS
  <2>1. PICK c \in Children : CreateBid(c) \/ WriteBid(c)
    BY StepKinds DEF QuietStep, AuctionStep, CreateHosted, MakeDirs, CreateStart,
                     WriteStart, ReadStart, CheckBid, auctionVars
  <2>2. a = aid[c]
    BY <2>1 DEF TypeInv, TypeOK, FilesTypeOK, CreateBid, WriteBid
  <2>3. pc[c] \in {"bidCreate", "bidWrite"}
    BY <2>1 DEF CreateBid, WriteBid, Transition
  <2> QED
    BY <2>2, <2>3 DEF EndInv, EndKnows
<1>3. Init => Inv
  BY TypeInit, LockInit, PlacedInit, EndInit
<1> QED
  BY <1>1, <1>2, <1>3, PTL DEF Spec, BidOnlyWhileOngoing

-------------------------------------------------------------------------------
(* An auction that ongoing_auction is about to close was read from its     *)
(* START, and its time was up.                                             *)

OverInv ==
  \A c \in Children :
    pc[c] = "oaCreate" => Written(start[aid[c]]) /\ now >= ClosingTime(aid[c])

(* At first nobody closes anything.                                        *)
LEMMA OverInit == Init => OverInv
  BY ConstantsAssumption DEF Init, OverInv, Procs

(* Time does not go back, and START is not written behind the lock.        *)
LEMMA OverNext ==
  ASSUME TypeInv, LockInv, HouseInv, OverInv, ~OngoingStep(Server), [Next]_vars
  PROVE  OverInv'
<1> USE DEF TypeInv, TypeOK, FilesTypeOK, ProcsTypeOK, Procs
<1>1. ASSUME NEW d \in Children, SameLocals(d), pc[d] = "oaCreate", UNCHANGED start, now' >= now
      PROVE  Written(start[aid[d]])' /\ now' >= ClosingTime(aid[d])'
  <2>1. aid[d] \in Aids /\ Written(start[aid[d]]) /\ now >= ClosingTime(aid[d])
    BY <1>1 DEF OverInv, Locals, LocalsOf
  <2>2. ClosingTime(aid[d]) \in Int /\ ClosingTime(aid[d])' = ClosingTime(aid[d])
    <3>1. start[aid[d]] \in StartRecord
      BY <2>1 DEF Written
    <3>2. Durations \subseteq Int /\ Times \subseteq Int
      BY ConstantsAssumption DEF Times
    <3>3. start[aid[d]].at \in Int /\ start[aid[d]].active \in Int
      BY <3>1, <3>2 DEF StartRecord
    <3> QED
      BY <1>1, <3>3 DEF ClosingTime, SameLocals
  <2>3. \A x, y, z \in Int : x >= y /\ y >= z => x >= z
    OBVIOUS
  <2>4. now \in Int /\ now' \in Int
    BY TypeNext DEF Times
  <2> QED
    BY <1>1, <2>1, <2>2, <2>3, <2>4 DEF SameLocals
<1>2. CASE RestStep
  BY <1>1, <1>2 DEF RestStep, fileVars, OverInv, SameLocals, NotBusy, BusyLabels
<1>3. ASSUME NEW c \in Children, FileStep(c) \/ OngoingStep(c),
             \A d \in Children \ {c} : SameLocals(d) /\ pc[d] \notin LockedLabels
      PROVE  OverInv'
  <2>1. \A d \in Children \ {c} : pc'[d] # "oaCreate"
    BY <1>3 DEF SameLocals, LockedLabels, WorkLabels
  <2>2. CASE ReadStart(c)
    <3>1. start[aid[c]] # Blank
      BY <1>3, <2>2 DEF ReadStart, HouseInv, BlankIsWritten, Locals, LocalsOf, LockedLabels,
                        WorkLabels
    <3>2. pc'[c] = "oaCreate" => Written(start[aid[c]]) /\ now >= ClosingTime(aid[c])
      BY <2>2, <3>1 DEF ReadStart, OngoingReturns, Goto, Reply
    <3>3. UNCHANGED <<now, start, aid>>
      BY <2>2 DEF ReadStart, auctionVars
    <3> QED
      BY <2>1, <3>2, <3>3 DEF OverInv, ClosingTime
  <2>3. CASE ~ReadStart(c)
    <3>1. pc'[c] # "oaCreate"
      BY <1>3, <2>3
      DEF FileStep, OpenStep, BidStep, CloseStep, OngoingStep, CreateHosted, MakeDirs,
          CreateStart, WriteStart, CheckBid, CreateBid, WriteBid, CreateBidded, CloseAuction,
          WriteClose, AccessEnd, CreateEnd, WriteEnd, OngoingReturns, Transition, Goto, Reply
    <3> QED
      BY <2>1, <3>1 DEF OverInv
  <2> QED
    BY <2>2, <2>3
<1> QED
  BY LoneSteps, <1>2, <1>3

(* What holds while END belongs to the children.                           *)
OrderlyInv ==
  /\ TypeInv /\ LockInv
  /\ HostInv /\ PlacedInv
  /\ HouseInv /\ EndInv /\ OverInv

Orderly == Faults \cap {"kill", "lock"} = {} /\ UdpOps \cap Lists = {}

(* It holds at first.                                                     *)
LEMMA OrderlyInit == Init => OrderlyInv
  BY TypeInit, LockInit, HostInit, PlacedInit, HouseInit, EndInit, OverInit DEF OrderlyInv

(* Every step keeps it.                                                   *)
LEMMA OrderlyNext == ASSUME OrderlyInv, [Next]_vars, Orderly PROVE OrderlyInv'
<1>1. "kill" \notin Faults /\ "lock" \notin Faults /\ UdpOps \cap Lists = {}
  BY DEF Orderly
<1>2. ~OngoingStep(Server)
  BY DEF OngoingStep, AccessEnd, ReadStart, CreateEnd, WriteEnd, OrderlyInv, EndInv, ParentAway
<1> QED
  BY <1>1, <1>2, TypeNext, LockNext, HostNext, PlacedNext, HouseNext, EndNext, OverNext
  DEF OrderlyInv

(* An auction that its host does not close gets an END only after its      *)
(* time, without lists, kills and a lock_dir that fails.                   *)
THEOREM EndsOnlyWhenOver == Orderly => (Spec => EndOnlyWhenOver)
<1> SUFFICES ASSUME Orderly PROVE Spec => EndOnlyWhenOver
  OBVIOUS
<1> DEFINE InTime == \A a \in Aids : EndsInTime(a)
<1>1. OrderlyInv /\ [Next]_vars => OrderlyInv'
  BY OrderlyNext
<1>2. OrderlyInv /\ [Next]_vars => [InTime]_vars
  <2> SUFFICES ASSUME OrderlyInv, [Next]_vars, NEW a \in Aids, end[a] = None, end'[a] # None,
                      ~\E c \in Children : aid[c] = a /\ pc[c] = "close"
               PROVE  Written(start[a]) /\ now >= start[a].at + start[a].active
    BY DEF EndsInTime
  <2>1. PICK c \in Children : aid[c] = a /\ pc[c] \in {"oaCreate", "oaWrite", "closeWrite"}
    BY EndSteps DEF OrderlyInv
  <2>2. pc[c] = "oaCreate"
    BY <2>1, ConstantsAssumption DEF OrderlyInv, EndInv, EndKnows
  <2> QED
    BY <2>1, <2>2 DEF OrderlyInv, OverInv, ClosingTime
<1> QED
  BY <1>1, <1>2, OrderlyInit, PTL DEF Spec, EndOnlyWhenOver

(* A house that is open for business: it closes what it opened, and takes  *)
(* no offer for what it closed.                                            *)
THEOREM IsOrderlyHouse == Orderly => (Spec => ImplementsOrderlyHouse)
<1> SUFFICES ASSUME Orderly PROVE Spec => ImplementsOrderlyHouse
  OBVIOUS
<1>1. Init => OrderlyInv /\ House!NoneOpened
  BY OrderlyInit, HouseStart
<1>2. OrderlyInv /\ [Next]_vars => OrderlyInv'
  BY OrderlyNext
<1>3. OrderlyInv /\ [Next]_vars => [House!OrderlyDeal]_(House!houseVars)
  <2> SUFFICES ASSUME OrderlyInv, [Next]_vars
               PROVE  House!OrderlyDeal \/ UNCHANGED House!houseVars
    OBVIOUS
  <2>1. ASSUME NEW c \in Children, WriteBid(c) PROVE aid[c] \notin ClosedOnFile
    BY <2>1 DEF WriteBid, Transition, OrderlyInv, EndInv, EndKnows, ClosedOnFile
  <2>2. ASSUME NEW p \in Procs, CreateEnd(p) \/ WriteEnd(p) \/ (p \in Children /\ CloseStep(p)),
               aid[p] \in Aids, end[aid[p]] = None, House!EndAuction(aid[p])
        PROVE  House!Opened(aid[p])
    <3>1. p \in Children
      BY <2>2 DEF Procs, CreateEnd, WriteEnd, OrderlyInv, EndInv, ParentAway
    <3>2. ~WriteEnd(p) /\ ~WriteClose(p)
      BY <2>2, <3>1, ConstantsAssumption
      DEF WriteEnd, WriteClose, OrderlyInv, EndInv, EndKnows
    <3>3. CASE CreateEnd(p)
      BY <2>2, <3>1, <3>3, WrittenIsOpened DEF CreateEnd, OrderlyInv, OverInv
    <3>4. CASE CloseAuction(p)
      <4>1. aid[p] \in ClosedOnFile' /\ aid[p] \notin ClosedOnFile
        BY <2>2 DEF House!EndAuction
      <4>2. start[aid[p]] # None
        BY <3>4, <4>1 DEF CloseAuction, ClosedOnFile
      <4>3. \A d \in Children : pc[d] # "startWrite"
        BY <3>1, <3>4, LockedAlone DEF CloseAuction, OrderlyInv, LockedLabels, WorkLabels
      <4>4. Written(start[aid[p]])
        BY <2>2, <4>2, <4>3 DEF OrderlyInv, HouseInv, BlankIsWritten, Written
      <4> QED
        BY <2>2, <4>4, WrittenIsOpened DEF OrderlyInv
    <3> QED
      BY <2>2, <3>2, <3>3, <3>4 DEF CloseStep
  <2> QED
    BY <2>1, <2>2, HouseSteps DEF House!OrderlyDeal, OrderlyInv
<1> QED
  BY <1>1, <1>2, <1>3, PTL DEF Spec, ImplementsOrderlyHouse, House!OrderlyHouseSpec
===============================================================================
