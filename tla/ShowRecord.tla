------------------------------ MODULE ShowRecord ------------------------------
(***************************************************************************)
(* The record of one auction: SRC, from the files to the user's screen.    *)
(*                                                                         *)
(* The parent reads the bids file by file, then asks whether the auction   *)
(* is over, then reads END, and holds no lock: meanwhile a child, the one  *)
(* that has the lock, may bid or close.  AuctionServer has these requests  *)
(* for all auctions and their checks; here is what the reader sees.  The   *)
(* answer goes over UDP as a list of tokens, which the client takes apart. *)
(***************************************************************************)
EXTENDS Integers, Sequences, SequencesExt, FiniteSets

CONSTANTS
  MaxValue,    \* bound: bids are 1..MaxValue
  Faults       \* "kill": the child may be killed; "io": fopen may fail

ASSUME RecordAssumption ==
  /\ MaxValue \in Nat
  /\ Faults \subseteq {"kill", "io"}

Values == 1..MaxValue
File   == {"none", "blank", "written"}

(* A line of the record, by its value.  The first bid, if its file cannot  *)
(* be read, is shown with the host and the start of the auction.           *)
HostLine == 0

VARIABLES
  over,        \* whether the time of the auction is over
  bids,        \* bids/<value>.txt
  end,         \* END_<aid>.txt
  pc,          \* where the child that has the lock and the parent are
  offer,       \* child: its bid
  before,      \* parent, history: the bids on record when SRC came
  shut,        \* parent, history: closed when SRC came, and no child at work
  present,     \* parent: the entries of bids/ when it was opened
  visited,     \* parent: those that readdir has returned, later ones included
  lines,       \* parent: the bids that the answer shows so far
  closing,     \* parent: what it says of END: "none", "end" or "stale"
  cut,         \* parent, history: a file could not be opened
  wire,        \* client: the tokens it has not read yet
  part,        \* client: message_part
  shown        \* client: what it has printed, label and token

Procs == {"child", "parent"}
files == <<bids, end>>
record == <<before, shut, present, visited, lines, closing, cut>>
screen == <<wire, part, shown>>
vars == <<over, files, pc, offer, record, screen>>

OnRecord == {v \in Values : bids[v] # "none"}
Readable == {v \in Values : bids[v] = "written"}

Goto(p, l) == pc' = [pc EXCEPT ![p] = l]

-------------------------------------------------------------------------------
(* ongoing_auction, for the child before it bids or closes and for the     *)
(* parent after it has read the bids.                                      *)

IfOver(p) == IF p = "parent" THEN "readEnd" ELSE "idle"

(* Mutant: only the time says whether the auction is over.                 *)
SkipEnd(p) ==
  /\ pc[p] = "access"
  /\ Goto(p, "time")
  /\ UNCHANGED <<over, files, offer, record, screen>>

AccessEnd(p) ==
  /\ pc[p] = "access"
  /\ Goto(p, IF end # "none" THEN IfOver(p) ELSE "time")
  /\ UNCHANGED <<over, files, offer, record, screen>>

IfOngoing(p) ==
  IF p = "parent" THEN "reply" ELSE IF offer \in Values THEN "bid" ELSE "close"

(* START is written before anybody asks.  An auction whose START cannot be *)
(* opened is taken for over.                                               *)
CheckTime(p) ==
  /\ pc[p] = "time"
  /\ \/ Goto(p, IF over THEN "expire" ELSE IfOngoing(p))
     \/ "io" \in Faults /\ Goto(p, IfOver(p))
  /\ UNCHANGED <<over, files, offer, record, screen>>

(* END is created, or truncated, when the time is over or the host closes. *)
CreateEnd(p) ==
  /\ pc[p] \in {"expire", "close"}
  /\ \/ end' = "blank" /\ Goto(p, "writeEnd")
     \/ "io" \in Faults /\ Goto(p, IfOver(p)) /\ UNCHANGED end
  /\ UNCHANGED <<over, bids, offer, record, screen>>

WriteEnd(p) ==
  /\ pc[p] = "writeEnd"
  /\ end' = "written"
  /\ Goto(p, IfOver(p))
  /\ UNCHANGED <<over, bids, offer, record, screen>>

-------------------------------------------------------------------------------
(* The child: BID and CLS.                                                 *)

BidOrClose ==
  /\ pc["child"] = "idle"
  /\ \E v \in Values \cup {HostLine} :
       /\ \A w \in OnRecord : v # HostLine => w < v
       /\ offer' = v
  /\ Goto("child", "access")
  /\ UNCHANGED <<over, files, record, screen>>

CreateBid ==
  /\ pc["child"] = "bid"
  /\ bids' = [bids EXCEPT ![offer] = "blank"]
  /\ Goto("child", "writeBid")
  /\ UNCHANGED <<over, end, offer, record, screen>>

WriteBid ==
  /\ pc["child"] = "writeBid"
  /\ bids' = [bids EXCEPT ![offer] = "written"]
  /\ Goto("child", "idle")
  /\ UNCHANGED <<over, end, offer, record, screen>>

(* A killed child leaves a file as it is, blank or not.                    *)
KillChild ==
  /\ "kill" \in Faults
  /\ Goto("child", "idle")
  /\ UNCHANGED <<over, files, offer, record, screen>>

Expire ==
  /\ ~over
  /\ over' = TRUE
  /\ UNCHANGED <<files, pc, offer, record, screen>>

-------------------------------------------------------------------------------
(* The parent: get_auc_info.                                               *)

(* What fscanf makes of a file: a blank one leaves the variables as they   *)
(* are, with the bid read before it or the host.                           *)
LineOf(v) ==
  IF bids[v] = "written" THEN v ELSE IF lines = <<>> THEN HostLine ELSE Last(lines)

(* If START cannot be opened, the client is sent an OK and nothing else.   *)
HandleShowRecord ==
  /\ pc["parent"] = "select" /\ wire = <<>>
  /\ before' = Readable
  /\ shut' = (end = "written" /\ pc["child"] = "idle")
  /\ present' = OnRecord
  /\ visited' = {} /\ lines' = <<>> /\ closing' = "none"
  /\ shown' = <<>>
  /\ \/ Goto("parent", "bids") /\ cut' = FALSE
     \/ "io" \in Faults /\ cut' = TRUE /\ UNCHANGED pc
  /\ UNCHANGED <<over, files, offer, wire, part>>

(* Mutant: readdir is called once more before the file is read.            *)
SkipBid ==
  /\ pc["parent"] = "bids"
  /\ \E v \in OnRecord \ visited, w \in OnRecord :
       /\ visited' = visited \cup {v, w}
       /\ lines' = Append(lines, LineOf(w))
  /\ UNCHANGED <<over, files, pc, offer, before, shut, present, closing, cut, screen>>

(* readdir returns the entries in no particular order.                     *)
ReadBid ==
  /\ pc["parent"] = "bids"
  /\ \E v \in OnRecord \ visited :
       /\ visited' = visited \cup {v}
       /\ lines' = Append(lines, LineOf(v))
  /\ UNCHANGED <<over, files, pc, offer, before, shut, present, closing, cut, screen>>

(* It ends when it has returned those that were there when it began: what  *)
(* comes later it may return or not.                                       *)
EndOfBids ==
  /\ pc["parent"] = "bids"
  /\ present \subseteq visited
  /\ Goto("parent", "access")
  /\ UNCHANGED <<over, files, offer, record, screen>>

ReadEnd ==
  /\ pc["parent"] = "readEnd"
  /\ end # "none"
  /\ closing' = IF end = "written" THEN "end" ELSE "stale"
  /\ Goto("parent", "reply")
  /\ UNCHANGED <<over, files, offer, before, shut, present, visited, lines, cut, screen>>

(* fopen fails: get_auc_info returns, and what there is is sent with OK.   *)
CannotOpen ==
  /\ "io" \in Faults
  /\ pc["parent"] \in {"bids", "readEnd"}
  /\ pc["parent"] = "bids" => OnRecord \ visited # {}
  /\ cut' = TRUE
  /\ Goto("parent", "reply")
  /\ UNCHANGED <<over, files, offer, before, shut, present, visited, lines, closing, screen>>

(* The tokens of the answer: what each says, and of which line.            *)
Tokens(kinds, line) == [i \in 1..Len(kinds) |-> [kind |-> kinds[i], line |-> line]]

AuctionTokens ==
  Tokens(<<"host", "name", "file", "value", "day", "hour", "active">>, HostLine)
BidTokens(v) == Tokens(<<"B", "bidder", "bid", "bidDay", "bidHour", "bidSecs">>, v)
EndTokens == Tokens(<<"E", "endDay", "endHour", "endSecs">>, HostLine)

Message ==
  AuctionTokens
    \o FlattenSeq([i \in 1..Len(lines) |-> BidTokens(lines[i])])
    \o IF closing = "none" THEN <<>> ELSE EndTokens

ReplyMsg ==
  /\ pc["parent"] = "reply"
  /\ wire' = Message
  /\ part' = 0
  /\ Goto("parent", "select")
  /\ UNCHANGED <<over, files, offer, record, shown>>

-------------------------------------------------------------------------------
(* The client: showRecord.                                                 *)

(* Mutant: after a bid, the next one is expected with no "B" before it.    *)
NextPartWithoutB(token) ==
  IF part = 6 THEN IF token.kind = "B" THEN 7 ELSE 11
  ELSE IF part = 10 THEN 7 ELSE IF part = 12 THEN 12 ELSE part + 1

(* Mutant: the last part has a successor too.                              *)
NextPartAlways(token) ==
  IF part = 6 THEN IF token.kind = "B" THEN 7 ELSE 11
  ELSE IF part = 10 THEN 6 ELSE part + 1

NextPart(token) ==
  IF part = 6 THEN IF token.kind = "B" THEN 7 ELSE 11
  ELSE IF part = 10 THEN 6 ELSE IF part = 12 THEN 12 ELSE part + 1

(* A date and time are two tokens.                                         *)
Taken == IF part \in {4, 9, 11} THEN 2 ELSE 1

(* One turn of the loop, which ends with the message or with END.          *)
ShowToken ==
  /\ wire # <<>>
  /\ part' = NextPart(wire[1])
  /\ wire' = IF part = 12 THEN <<>> ELSE SubSeq(wire, Taken + 1, Len(wire))
  /\ shown' = Append(shown, [part |-> part, tokens |-> SubSeq(wire, 1, Taken)])
  /\ UNCHANGED <<over, files, pc, offer, record>>

-------------------------------------------------------------------------------
Init ==
  /\ over = FALSE
  /\ bids = [v \in Values |-> "none"] /\ end = "none"
  /\ pc = [p \in Procs |-> IF p = "parent" THEN "select" ELSE "idle"]
  /\ offer = HostLine
  /\ before = {} /\ shut = FALSE /\ present = {} /\ visited = {}
  /\ lines = <<>> /\ closing = "none" /\ cut = FALSE
  /\ wire = <<>> /\ part = 0 /\ shown = <<>>

OngoingStep(p) == AccessEnd(p) \/ CheckTime(p) \/ CreateEnd(p) \/ WriteEnd(p)

ChildStep == OngoingStep("child") \/ BidOrClose \/ CreateBid \/ WriteBid

ParentStep ==
  \/ HandleShowRecord \/ ReadBid \/ EndOfBids \/ OngoingStep("parent")
  \/ ReadEnd \/ CannotOpen \/ ReplyMsg

Next == ChildStep \/ ParentStep \/ ShowToken \/ KillChild \/ Expire

Spec == Init /\ [][Next]_vars
===============================================================================
