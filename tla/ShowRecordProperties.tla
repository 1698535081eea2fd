-------------------------- MODULE ShowRecordProperties --------------------------
(***************************************************************************)
(* What is claimed of the record of an auction.                            *)
(***************************************************************************)
EXTENDS ShowRecord

Labels ==
  {"idle", "select", "access", "time", "expire", "close", "writeEnd", "bid", "writeBid",
   "bids", "readEnd", "reply"}

Kinds == {t.kind : t \in Range(AuctionTokens \o BidTokens(HostLine) \o EndTokens)}
Token == [kind : Kinds, line : Values \cup {HostLine}]

(* The type of every variable.                                             *)
TypeOK ==
  /\ over \in BOOLEAN
  /\ bids \in [Values -> File]
  /\ end \in File
  /\ pc \in [Procs -> Labels]
  /\ offer \in Values \cup {HostLine}
  /\ before \subseteq Values /\ present \subseteq Values /\ visited \subseteq Values
  /\ shut \in BOOLEAN /\ cut \in BOOLEAN
  /\ lines \in Seq(Values \cup {HostLine})
  /\ closing \in {"none", "end", "stale"}
  /\ wire \in Seq(Token)
  /\ part \in 0..12
  /\ shown \in Seq([part : 0..12, tokens : Seq(Token)])

Answered == pc["parent"] = "reply" /\ ~cut

(* The bids that came since the request are the only ones that may be      *)
(* missing, and there are never more lines than bids: what a line shows    *)
(* for a bid that was not flushed doubles another or is the host's.        *)
BidsAreListed ==
  Answered =>
    /\ before \subseteq Range(lines)
    /\ Range(lines) \subseteq OnRecord \cup {HostLine}
    /\ Len(lines) <= Cardinality(OnRecord)

(* Each such line stands for a bid that was being written, or whose child  *)
(* was killed: lines are right but for as many as have come.               *)
FalseLines ==
  {i \in 1..Len(lines) : lines[i] = HostLine \/ \E j \in 1..(i - 1) : lines[j] = lines[i]}
FalseLinesAreNew ==
  Answered => Cardinality(FalseLines) <= Cardinality(OnRecord \ before)

(* The record of an auction that was closed, with nobody at work in it,    *)
(* shows every bid once and when the auction was closed.                   *)
ClosedRecordIsFinal ==
  Answered /\ shut =>
    /\ closing = "end"
    /\ before = OnRecord => Range(lines) = before /\ FalseLines = {}

(* What the client prints beside each of its labels.                       *)
Label(p) ==
  CASE p = 0 -> <<"host">>   [] p = 1 -> <<"name">>   [] p = 2 -> <<"file">>
    [] p = 3 -> <<"value">>  [] p = 4 -> <<"day", "hour">>  [] p = 5 -> <<"active">>
    [] p = 7 -> <<"bidder">> [] p = 8 -> <<"bid">>
    [] p = 9 -> <<"bidDay", "bidHour">> [] p = 10 -> <<"bidSecs">>
    [] p = 11 -> <<"endDay", "endHour">> [] p = 12 -> <<"endSecs">>

(* Whatever the server sends, each part of it stands beside its own label  *)
(* on the screen, and nothing is left out.                                 *)
ShownAsSent ==
  /\ \A s \in Range(shown) :
       IF s.part = 6 THEN s.tokens[1].kind \in {"B", "E"}
       ELSE [i \in 1..Len(s.tokens) |-> s.tokens[i].kind] = Label(s.part)
  /\ shown # <<>> => FlattenSeq([i \in 1..Len(shown) |-> shown[i].tokens]) \o wire = Message
===============================================================================
