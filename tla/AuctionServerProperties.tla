------------------------ MODULE AuctionServerProperties ------------------------
(***************************************************************************)
(* What is claimed of the auction server.                                  *)
(***************************************************************************)
EXTENDS AuctionServer

(* The type of every variable: the files, then the locks and processes.    *)
FilesTypeOK ==
  /\ now \in Times
  /\ pass \in [Users -> Passwords \cup {None, Blank}]
  /\ login \in [Users -> BOOLEAN]
  /\ hosted \in [Users -> SUBSET Aids]
  /\ bidded \in [Users -> SUBSET Aids]
  /\ dirs \in SUBSET Aids
  /\ start \in [Aids -> StartRecord \cup {None, Blank}]
  /\ bids \in [Aids -> [Values -> Users \cup {None, Blank}]]
  /\ end \in [Aids -> Int \cup {None, Blank}]

ProcsTypeOK ==
  /\ lockA \in Children \cup {None}
  /\ lockU \in Children \cup {None}
  /\ pc \in [Procs -> Labels]
  /\ req \in [Procs -> Request]
  /\ aid \in [Procs -> Aids \cup {NoAid}]
  /\ secs \in [Procs -> Int]
  /\ todo \in SUBSET Aids
  /\ reply \in [Procs -> Replies \cup {None}]

TypeOK == FilesTypeOK /\ ProcsTypeOK

-------------------------------------------------------------------------------
(* Safety of the shared directory tree.                                    *)

(* Two children are never between lock_dir and unlock_dir at one time.     *)
MutualExclusion ==
  \A c, d \in Children : pc[c] \in WorkLabels /\ pc[d] \in WorkLabels => c = d

(* A file that appears in bids/ is worth more than every bid already there *)
(* and than the start value: two children that both saw the old maximum    *)
(* would break it.                                                         *)
RisingBid(a, v) ==
  bids[a][v] = None /\ bids'[a][v] # None =>
    /\ \A w \in Values : bids[a][w] # None => w < v
    /\ Written(start[a]) => v > start[a].value
BidsRise == [][\A a \in Aids, v \in Values : RisingBid(a, v)]_vars

(* Nobody's bid is on record in an auction of their own, whatever else     *)
(* happened between the opening and the bid.                               *)
NoSelfBid ==
  \A a \in Aids, v \in Values :
    Written(start[a]) /\ Written(bids[a][v]) => bids[a][v] # start[a].host

(* While a child that answered ACC still holds the lock of auctions, its   *)
(* bid is the highest on record and its bidder's bidded directory has it.  *)
AcceptedBidStands ==
  \A c \in Children : pc[c] = "unlockA" /\ reply[c] = "ACC" =>
    /\ bids[aid[c]][req[c].value] = req[c].uid
    /\ aid[c] \in bidded[req[c].uid]
    /\ \A v \in Values : bids[aid[c]][v] # None => v <= req[c].value

(* The two records of a bid, bids/<value>.txt and bidded/<aid>.txt, agree  *)
(* except while a child is between writing the one and the other.          *)
BidderKnows ==
  \A a \in Aids, u \in Users :
    (\E v \in Values : bids[a][v] = u) <=>
      \/ a \in bidded[u]
      \/ \E c \in Children : pc[c] = "bidUser" /\ aid[c] = a /\ req[c].uid = u

(* The two records of a host, START and hosted/<aid>.txt, agree: an opened *)
(* auction is in the hosted directory of its host and in no other.         *)
OneHost ==
  \A a \in Aids : Written(start[a]) => {u \in Users : a \in hosted[u]} = {start[a].host}

(* START, once written, is never written again: identifiers are not reused *)
(* even by children that hold no lock, since mkdir refuses the second.     *)
StartImmutable ==
  [][\A a \in Aids : Written(start[a]) => start'[a] = start[a]]_vars

(* END is only ever created beside a START, also by a parent that runs     *)
(* while a child is still opening the auction.                             *)
ClosedWasOpened == \A a \in Aids : end[a] # None => start[a] # None

-------------------------------------------------------------------------------
(* Closing.  These hold as long as only children, who hold the lock, touch *)
(* END.                                                                    *)

(* END, once written, is the record of the closing for good.               *)
EndWriteOnce == [][\A a \in Aids : Written(end[a]) => end'[a] = end[a]]_vars

(* Unless the host closes it, an auction gets an END only after its time.  *)
EndsInTime(a) ==
  (/\ end[a] = None
   /\ end'[a] # None
   /\ ~\E c \in Children : aid[c] = a /\ pc[c] = "close")
    => (Written(start[a]) /\ now >= start[a].at + start[a].active)
EndOnlyWhenOver == [][\A a \in Aids : EndsInTime(a)]_vars

(* A bid appears only in an auction without an END.                        *)
BidOnlyWhileOngoing ==
  [][\A a \in Aids, v \in Values :
       bids[a][v] = None /\ bids'[a][v] # None => end[a] = None]_vars

-------------------------------------------------------------------------------
(* The server as an auction house.                                         *)

(* A START counts when it is written, a bid too, and an END when it exists. *)
AuctionsOnFile ==
  [a \in Aids |-> IF Written(start[a])
                  THEN [host |-> start[a].host, value |-> start[a].value]
                  ELSE None]
OffersOnFile ==
  [a \in Aids |-> [v \in Values |-> IF bids[a][v] = Blank THEN None ELSE bids[a][v]]]
ClosedOnFile == {a \in Aids : end[a] # None}

ASSUME NoneIsNoAuction == None \notin [host : Users, value : Values]

House == INSTANCE AuctionHouse WITH
  Auctions <- Aids, Amounts <- Values, Nothing <- None,
  auction <- AuctionsOnFile, offer <- OffersOnFile, closed <- ClosedOnFile

(* Seen through its files the server is an auction house.                  *)
ImplementsHouse == House!HouseSpec

(* Served over TCP only, it also closes and refuses in order.              *)
ImplementsOrderlyHouse == House!OrderlyHouseSpec

-------------------------------------------------------------------------------
(* Liveness.                                                               *)

(* A child gives the lock of auctions back, unless it sends an asset to a  *)
(* client that does not read.                                              *)
LockReleased ==
  \A c \in Children : lockA = c ~> lockA # c \/ pc[c] = "sendAsset"

(* The parent comes back to select() from every UDP request.               *)
ServerReturns == pc[Server] # "select" ~> pc[Server] = "select"
===============================================================================
