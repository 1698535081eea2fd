------------------------------ MODULE AuctionHouse ------------------------------
(***************************************************************************)
(* What the server promises about auctions, with no files, no processes    *)
(* and no clock: an auction is opened once by its host, offers only rise   *)
(* and never come from the host, and a closed auction stays closed.        *)
(***************************************************************************)
EXTENDS Integers

CONSTANTS
  Users,     \* who opens auctions and bids
  Auctions,  \* the identifiers of auctions
  Amounts,   \* start values and offers
  Nothing    \* no auction, no offer

VARIABLES
  auction,   \* Nothing, or the host and start value of an opened auction
  offer,     \* who offered each amount, or Nothing
  closed     \* the auctions that are closed

houseVars == <<auction, offer, closed>>

Opened(a) == auction[a] # Nothing

NoneOpened ==
  /\ auction = [a \in Auctions |-> Nothing]
  /\ offer = [a \in Auctions |-> [v \in Amounts |-> Nothing]]
  /\ closed = {}

(* Identifiers are never used twice and grow.                              *)
OpenAuction(a, u, v) ==
  /\ \A b \in Auctions : Opened(b) => b < a
  /\ auction' = [auction EXCEPT ![a] = [host |-> u, value |-> v]]
  /\ UNCHANGED <<offer, closed>>

(* An offer is not the host's, and beats the start value and all offers.   *)
MakeOffer(a, u, v) ==
  /\ Opened(a)
  /\ u # auction[a].host
  /\ v > auction[a].value
  /\ \A w \in Amounts : offer[a][w] # Nothing => w < v
  /\ offer' = [offer EXCEPT ![a][v] = u]
  /\ UNCHANGED <<auction, closed>>

EndAuction(a) ==
  /\ a \notin closed
  /\ closed' = closed \cup {a}
  /\ UNCHANGED <<auction, offer>>

Deal ==
  \E a \in Auctions :
    \/ \E u \in Users, v \in Amounts : OpenAuction(a, u, v) \/ MakeOffer(a, u, v)
    \/ EndAuction(a)

HouseSpec == NoneOpened /\ [][Deal]_houseVars

(* The same with a house that closes only what is open and takes no offer  *)
(* for what is closed.                                                     *)
OrderlyDeal ==
  \E a \in Auctions :
    \/ \E u \in Users, v \in Amounts : OpenAuction(a, u, v)
    \/ \E u \in Users, v \in Amounts : a \notin closed /\ MakeOffer(a, u, v)
    \/ Opened(a) /\ EndAuction(a)

OrderlyHouseSpec == NoneOpened /\ [][OrderlyDeal]_houseVars
=================================================================================
