--------------------------- MODULE MessagesProperties ---------------------------
(***************************************************************************)
(* What is claimed of requests and listings.                               *)
(***************************************************************************)
EXTENDS Messages

Aids == 0..(Power[AidSize] - 1)

(* The server acts on a request as the user meant it, or not at all: a     *)
(* number that is too long, cut by snprintf or by a broken connection is   *)
(* never taken for another, and an AID names the directory it should.      *)
ActsAsAsked ==
  server = "acts" =>
    /\ Len(got) = Len(Fields(op))
    /\ \A i \in 1..Len(got) :
         LET f == Fields(op)[i]
         IN  IF f \in Numbers(op) THEN Value(got[i]) = num[f] ELSE got[i] = Text(f)
    /\ "aid" \in Numbers(op) =>
         num["aid"] \in Aids /\ Decimal(num["aid"], AidSize) \in Range(got)

(* The limits of the client's formats are those of the server: what the    *)
(* protocol allows is not refused, unless the client stops half way.       *)
InLimits ==
  /\ \A f \in DOMAIN num : num[f] \in 0..(Power[Size(f)] - 1)
  /\ \A f \in DOMAIN word : Valid(word[f], WordSize, Alnum)
ValidIsServed == server = "refuses" => ~InLimits

(* The server never waits for the timeout because of what was typed: a     *)
(* request that has lost its newline in snprintf is refused without it.    *)
NoWaitForTyped == server = "fails" => pos < Len(msg)

(* The client prints the auctions that the server listed, each beside its  *)
(* state: what is in between ends where the list does.                     *)
ListShown ==
  /\ Len(shown) <= Len(auctions)
  /\ \A i \in 1..Len(shown) :
       shown[i] = <<Decimal(auctions[i].aid, AidSize), <<auctions[i].state>>>>
  /\ ~listing /\ shown # <<>> => Len(shown) = Len(auctions)
===============================================================================
