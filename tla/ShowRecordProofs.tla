---------------------------- MODULE ShowRecordProofs ----------------------------
(***************************************************************************)
(* What a record may miss or invent: proofs for any number of bids, with   *)
(* children killed and files that cannot be opened.                        *)
(***************************************************************************)
EXTENDS ShowRecordProperties, SequenceLemmas, FiniteSetTheorems

(* The types of what the proofs need; the screen is not part of it.        *)
ServerType ==
  /\ bids \in [Values -> File]
  /\ end \in File
  /\ pc \in [Procs -> Labels]
  /\ pc["child"] \in {"idle", "access", "time", "expire", "close", "writeEnd", "bid", "writeBid"}
  /\ pc["parent"] \in {"select", "bids", "access", "time", "expire", "writeEnd", "readEnd", "reply"}
  /\ offer \in Values \cup {HostLine}
  /\ before \in SUBSET Values /\ present \in SUBSET Values /\ visited \in SUBSET Values
  /\ shut \in BOOLEAN /\ cut \in BOOLEAN
  /\ lines \in Seq(Values \cup {HostLine})
  /\ closing \in {"none", "end", "stale"}

(* A child does not touch the file of another bid.                         *)
OfferInv ==
  /\ pc["child"] \in {"access", "time", "bid"} /\ offer \in Values => bids[offer] = "none"
  /\ pc["child"] \in {"bid", "writeBid"} => offer \in Values
  /\ pc["child"] = "writeBid" => bids[offer] = "blank"

(* What has been visited, and what the lines show of it.                   *)
LinesInv ==
  /\ before \subseteq Readable
  /\ before \subseteq present /\ present \subseteq OnRecord /\ visited \subseteq OnRecord
  /\ Len(lines) = Cardinality(visited)
  /\ \A i \in 1..Len(lines) : lines[i] \in visited \cup {HostLine}
  /\ \A v \in visited \cap before : \E i \in 1..Len(lines) : lines[i] = v /\ i \notin FalseLines
  /\ \/ pc["parent"] \in {"access", "time", "expire", "writeEnd", "readEnd"}
     \/ Answered
     => present \subseteq visited

(* When nobody was at work in a closed auction, END stays as it is.        *)
ClosedInv ==
  shut /\ pc["parent"] # "select" =>
    /\ end = "written"
    /\ pc["child"] \in {"idle", "access"}
    /\ pc["parent"] \in {"bids", "access", "readEnd", "reply"}
    /\ Answered => closing = "end"

RecordInv == ServerType /\ OfferInv /\ LinesInv /\ ClosedInv

-------------------------------------------------------------------------------
(* The steps.                                                              *)

(* All steps, one by one.                                                  *)
LEMMA Steps ==
  ASSUME [Next]_vars
  PROVE  \/ \E p \in Procs : AccessEnd(p) \/ CheckTime(p) \/ CreateEnd(p) \/ WriteEnd(p)
         \/ BidOrClose \/ CreateBid \/ WriteBid \/ KillChild
         \/ HandleShowRecord \/ ReadBid \/ EndOfBids \/ ReadEnd \/ CannotOpen \/ ReplyMsg
         \/ ShowToken \/ Expire \/ UNCHANGED vars
BY DEF Next, ChildStep, ParentStep, OngoingStep, Procs

(* Bids are numbers, and their sets are finite.                            *)
LEMMA ValuesFinite ==
  /\ Values \subseteq Nat \ {0} /\ HostLine = 0
  /\ \A S \in SUBSET Values : IsFiniteSet(S) /\ Cardinality(S) \in Nat
<1>1. Values \subseteq Nat \ {0} /\ HostLine = 0
  BY RecordAssumption DEF Values, HostLine
<1>2. IsFiniteSet(Values)
  BY FS_Interval, RecordAssumption DEF Values
<1> QED
  BY <1>1, <1>2, FS_Subset, FS_CardinalityType

(* A line shows a bid that has been visited, that of the entry, or the     *)
(* host.                                                                   *)
LEMMA LineShows ==
  ASSUME ServerType, LinesInv, NEW v \in OnRecord
  PROVE  /\ LineOf(v) \in visited \cup {v, HostLine}
         /\ bids[v] = "written" => LineOf(v) = v
<1>1. CASE lines = <<>>
  BY <1>1 DEF LineOf
<1>2. CASE lines # <<>>
  <2>1. Len(lines) \in 1..Len(lines)
    BY <1>2, EmptySeq, LenProperties DEF ServerType
  <2>2. Last(lines) \in visited \cup {HostLine}
    BY <2>1 DEF LinesInv, Last
  <2> QED
    BY <2>2 DEF LineOf
<1> QED
  BY <1>1, <1>2

-------------------------------------------------------------------------------
(* Types.                                                                  *)

(* The invariant holds at first.                                           *)
LEMMA InitRecord == Init => RecordInv
<1> SUFFICES ASSUME Init PROVE RecordInv
  OBVIOUS
<1>1. ServerType
  <2>1. lines \in Seq(Values \cup {HostLine})
    BY EmptySeq DEF Init
  <2>2. /\ pc \in [Procs -> Labels]
        /\ pc["child"] = "idle" /\ pc["parent"] = "select"
    BY DEF Init, Labels, Procs
  <2> QED
    BY <2>1, <2>2 DEF Init, ServerType, File
<1>2. OfferInv
  BY ValuesFinite DEF Init, OfferInv, Procs
<1>3. LinesInv
  <2>1. Len(lines) = 0 /\ Cardinality(visited) = 0
    BY FS_EmptySet DEF Init
  <2> QED
    BY <2>1 DEF Init, LinesInv, Procs, Answered
<1>4. ClosedInv
  BY DEF Init, ClosedInv
<1> QED
  BY <1>1, <1>2, <1>3, <1>4 DEF RecordInv

(* Every step keeps the types of what is on disk and in the processes.     *)
LEMMA TypeStep ==
  ASSUME RecordInv, [Next]_vars
  PROVE  ServerType'
<1> USE DEF RecordInv, ServerType, Procs, Labels, File
<1>1. CASE \E p \in Procs : AccessEnd(p) \/ CheckTime(p) \/ CreateEnd(p) \/ WriteEnd(p)
  BY <1>1 DEF AccessEnd, CheckTime, IfOngoing, CreateEnd, WriteEnd, Goto, IfOver, files, record
<1>2. CASE BidOrClose
  BY <1>2 DEF BidOrClose, Goto, files, record
<1>3. CASE CreateBid \/ WriteBid
  BY <1>3 DEF CreateBid, WriteBid, Goto, record
<1>4. CASE KillChild \/ EndOfBids
  BY <1>4 DEF KillChild, EndOfBids, Goto, files, record
<1>5. CASE HandleShowRecord
  <2>1. lines' \in Seq(Values \cup {HostLine})
    BY <1>5, EmptySeq DEF HandleShowRecord
  <2> QED
    BY <1>5, <2>1 DEF HandleShowRecord, Goto, files, Readable, OnRecord
<1>6. CASE ReadBid
  <2>1. PICK v \in OnRecord \ visited :
          /\ visited' = visited \cup {v}
          /\ lines' = Append(lines, LineOf(v))
    BY <1>6 DEF ReadBid
  <2>2. LineOf(v) \in Values \cup {HostLine}
    BY <2>1, LineShows DEF OnRecord
  <2>3. lines' \in Seq(Values \cup {HostLine}) /\ visited' \in SUBSET Values
    BY <2>1, <2>2, AppendProperties DEF OnRecord
  <2> QED
    BY <1>6, <2>3 DEF ReadBid, files
<1>7. CASE ReadEnd
  BY <1>7 DEF ReadEnd, Goto, files
<1>8. CASE CannotOpen
  BY <1>8 DEF CannotOpen, Goto, files
<1>9. CASE ReplyMsg
  BY <1>9 DEF ReplyMsg, Goto, files, record
<1>10. CASE ShowToken \/ Expire \/ UNCHANGED vars
  BY <1>10 DEF ShowToken, Expire, vars, files, record
<1> QED
  BY Steps, <1>1, <1>2, <1>3, <1>4, <1>5, <1>6, <1>7, <1>8, <1>9, <1>10

-------------------------------------------------------------------------------
(* The file of a bid.                                                      *)

(* Every step keeps what is known of the bid that is being made.           *)
LEMMA OfferStep ==
  ASSUME RecordInv, [Next]_vars
  PROVE  OfferInv'
<1> USE DEF RecordInv, ServerType, OfferInv, Procs
<1>1. CASE \E p \in Procs : AccessEnd(p) \/ CheckTime(p) \/ CreateEnd(p) \/ WriteEnd(p)
  BY <1>1 DEF AccessEnd, CheckTime, IfOngoing, CreateEnd, WriteEnd, Goto, IfOver, files
<1>2. CASE BidOrClose
  <2>1. PICK v \in Values \cup {HostLine} :
          /\ \A w \in OnRecord : v # HostLine => w < v
          /\ offer' = v
    BY <1>2 DEF BidOrClose
  <2>2. v \in Values => v \notin OnRecord
    BY <2>1, ValuesFinite
  <2> QED
    BY <1>2, <2>1, <2>2 DEF BidOrClose, Goto, files, OnRecord
<1>3. CASE CreateBid \/ WriteBid
  BY <1>3 DEF CreateBid, WriteBid, Goto
<1>4. CASE KillChild \/ EndOfBids \/ HandleShowRecord \/ ReadBid \/ ReadEnd \/ CannotOpen
  BY <1>4 DEF KillChild, EndOfBids, HandleShowRecord, ReadBid, ReadEnd, CannotOpen, Goto, files
<1>5. CASE ReplyMsg \/ ShowToken \/ Expire \/ UNCHANGED vars
  BY <1>5 DEF ReplyMsg, ShowToken, Expire, Goto, vars, files
<1> QED
  BY Steps, <1>1, <1>2, <1>3, <1>4, <1>5

-------------------------------------------------------------------------------
(* The lines.                                                              *)

(* Bids on record stay, and readable ones stay readable.                   *)
LEMMA BidsStay ==
  ASSUME RecordInv, [Next]_vars
  PROVE  OnRecord \subseteq OnRecord' /\ Readable \subseteq Readable'
<1> USE DEF RecordInv, ServerType, OfferInv, Procs, OnRecord, Readable
<1>1. CASE CreateBid \/ WriteBid
  BY <1>1 DEF CreateBid, WriteBid
<1>2. CASE UNCHANGED bids
  BY <1>2
<1> QED
  BY Steps, <1>1, <1>2
  DEF AccessEnd, CheckTime, CreateEnd, WriteEnd, BidOrClose, KillChild, HandleShowRecord,
      ReadBid, EndOfBids, ReadEnd, CannotOpen, ReplyMsg, ShowToken, Expire, vars, files

(* A step that leaves the record alone, and after which the parent is not  *)
(* past the bids unless it was before.                                     *)
LEMMA LinesKept ==
  ASSUME RecordInv, [Next]_vars, UNCHANGED <<before, present, visited, lines>>,
         \/ pc'["parent"] \in {"select", "bids"}
         \/ pc'["parent"] = "reply" /\ cut'
         \/ present \subseteq visited
  PROVE  LinesInv'
<1>1. OnRecord \subseteq OnRecord' /\ Readable \subseteq Readable'
  BY BidsStay
<1>2. FalseLines' = FalseLines
  BY DEF FalseLines
<1>3. \A v \in visited' \cap before' :
        \E i \in 1..Len(lines') : lines'[i] = v /\ i \notin FalseLines'
  BY <1>2 DEF RecordInv, LinesInv
<1>4. /\ before' \subseteq Readable'
      /\ before' \subseteq present' /\ present' \subseteq OnRecord'
      /\ visited' \subseteq OnRecord'
  BY <1>1 DEF RecordInv, LinesInv
<1>5. /\ Len(lines') = Cardinality(visited')
      /\ \A i \in 1..Len(lines') : lines'[i] \in visited' \cup {HostLine}
  BY DEF RecordInv, LinesInv
<1>6. \/ pc'["parent"] \in {"access", "time", "expire", "writeEnd", "readEnd"}
      \/ pc'["parent"] = "reply" /\ ~cut'
      => present' \subseteq visited'
  OBVIOUS
<1> QED
  BY <1>3, <1>4, <1>5, <1>6 DEF LinesInv, Answered

(* What a new line does to those that are false.                           *)
LEMMA NewLine ==
  ASSUME ServerType, LinesInv, NEW v \in OnRecord \ visited,
         lines' = Append(lines, LineOf(v)), visited' = visited \cup {v}
  PROVE  /\ Len(lines') = Len(lines) + 1 /\ Len(lines) \in Nat
         /\ \A i \in 1..Len(lines) : lines'[i] = lines[i]
         /\ lines'[Len(lines) + 1] = LineOf(v)
         /\ \A i \in 1..Len(lines) : i \in FalseLines' => i \in FalseLines
         /\ bids[v] = "written" => Len(lines) + 1 \notin FalseLines'
<1>1. LineOf(v) \in Values \cup {HostLine}
  BY LineShows DEF ServerType, OnRecord
<1>2. /\ Len(lines') = Len(lines) + 1 /\ Len(lines) \in Nat
      /\ \A i \in 1..Len(lines) : lines'[i] = lines[i]
      /\ lines'[Len(lines) + 1] = LineOf(v)
  BY <1>1, AppendProperties, LenProperties DEF ServerType
<1>3. \A i \in 1..Len(lines) : i \in FalseLines' => i \in FalseLines
  BY <1>2 DEF FalseLines
<1>4. ASSUME bids[v] = "written" PROVE Len(lines) + 1 \notin FalseLines'
  <2>1. LineOf(v) = v /\ v # HostLine
    BY <1>4, LineShows, ValuesFinite DEF OnRecord
  <2>2. \A j \in 1..Len(lines) : lines[j] # v
    BY <2>1 DEF LinesInv
  <2> QED
    BY <1>2, <2>1, <2>2 DEF FalseLines
<1> QED
  BY <1>2, <1>3, <1>4

(* Every step keeps what is known of the lines of the answer.              *)
LEMMA LinesStep ==
  ASSUME RecordInv, [Next]_vars
  PROVE  LinesInv'
<1> USE DEF RecordInv, ServerType, Procs
<1>1. CASE \E p \in Procs : AccessEnd(p) \/ CheckTime(p) \/ CreateEnd(p) \/ WriteEnd(p)
  <2>1. \/ pc'["parent"] = pc["parent"] /\ cut' = cut
        \/ pc["parent"] \in {"access", "time", "expire", "writeEnd"}
    BY <1>1 DEF AccessEnd, CheckTime, CreateEnd, WriteEnd, Goto, record
  <2> QED
    BY <1>1, <2>1, LinesKept
    DEF AccessEnd, CheckTime, CreateEnd, WriteEnd, record, LinesInv, Answered
<1>2. CASE BidOrClose \/ CreateBid \/ WriteBid \/ KillChild
  <2>1. pc'["parent"] = pc["parent"] /\ UNCHANGED record
    BY <1>2 DEF BidOrClose, CreateBid, WriteBid, KillChild, Goto
  <2> QED
    BY <2>1, LinesKept DEF record, LinesInv, Answered
<1>3. CASE HandleShowRecord
  <2>1. Len(lines') = 0 /\ Cardinality(visited') = 0
    BY <1>3, FS_EmptySet DEF HandleShowRecord
  <2>2. pc'["parent"] \in {"bids", "select"}
    BY <1>3 DEF HandleShowRecord, Goto
  <2>3. OnRecord' = OnRecord /\ Readable' = Readable
    BY <1>3 DEF HandleShowRecord, files, OnRecord, Readable
  <2> QED
    BY <1>3, <2>1, <2>2, <2>3 DEF HandleShowRecord, LinesInv, Answered, OnRecord, Readable
<1>4. CASE ReadBid
  <2>1. PICK v \in OnRecord \ visited :
          /\ visited' = visited \cup {v}
          /\ lines' = Append(lines, LineOf(v))
    BY <1>4 DEF ReadBid
  <2>2. UNCHANGED <<bids, pc, before, present>> /\ pc["parent"] = "bids"
    BY <1>4 DEF ReadBid, files
  <2>3. /\ Len(lines') = Len(lines) + 1 /\ Len(lines) \in Nat
        /\ \A i \in 1..Len(lines) : lines'[i] = lines[i]
        /\ lines'[Len(lines) + 1] = LineOf(v)
        /\ \A i \in 1..Len(lines) : i \in FalseLines' => i \in FalseLines
        /\ bids[v] = "written" => Len(lines) + 1 \notin FalseLines'
    BY <2>1, NewLine
  <2>4. LineOf(v) \in visited \cup {v, HostLine} /\ (bids[v] = "written" => LineOf(v) = v)
    BY <2>1, LineShows
  <2>5. OnRecord' = OnRecord /\ Readable' = Readable
    BY <2>2 DEF OnRecord, Readable
  <2>6. Cardinality(visited') = Cardinality(visited) + 1
    BY <2>1, FS_AddElement, ValuesFinite
  <2>7. \A i \in 1..Len(lines') : lines'[i] \in visited' \cup {HostLine}
    BY <2>1, <2>3, <2>4 DEF LinesInv
  <2>8. \A w \in visited' \cap before' :
          \E i \in 1..Len(lines') : lines'[i] = w /\ i \notin FalseLines'
    <3>1. CASE v \in before
      <4>1. bids[v] = "written"
        BY <3>1 DEF LinesInv, Readable
      <4> QED
        BY <2>1, <2>2, <2>3, <2>4, <4>1 DEF LinesInv
    <3>2. CASE v \notin before
      BY <2>1, <2>2, <2>3, <3>2 DEF LinesInv
    <3> QED
      BY <3>1, <3>2
  <2> QED
    BY <2>1, <2>2, <2>3, <2>5, <2>6, <2>7, <2>8 DEF LinesInv, Answered
<1>5. CASE EndOfBids
  BY <1>5, LinesKept DEF EndOfBids, record
<1>6. CASE ReadEnd \/ CannotOpen
  BY <1>6, LinesKept DEF ReadEnd, CannotOpen, Goto, LinesInv
<1>7. CASE ReplyMsg
  BY <1>7, LinesKept DEF ReplyMsg, Goto, record
<1>8. CASE ShowToken \/ Expire \/ UNCHANGED vars
  BY <1>8, LinesKept DEF ShowToken, Expire, vars, record, LinesInv, Answered
<1> QED
  BY Steps, <1>1, <1>2, <1>3, <1>4, <1>5, <1>6, <1>7, <1>8

-------------------------------------------------------------------------------
(* A closed auction.                                                       *)

(* Every step keeps what is known of END.                                  *)
LEMMA ClosedStep ==
  ASSUME RecordInv, [Next]_vars
  PROVE  ClosedInv'
<1> USE DEF RecordInv, ServerType, ClosedInv, Procs, Answered
<1>1. CASE \E p \in Procs : AccessEnd(p) \/ CheckTime(p) \/ CreateEnd(p) \/ WriteEnd(p)
  <2>1. CASE AccessEnd("child") \/ AccessEnd("parent")
    BY <2>1 DEF AccessEnd, Goto, IfOver, record, files
  <2>2. CASE \E p \in Procs : CheckTime(p) \/ CreateEnd(p) \/ WriteEnd(p)
    BY <2>2 DEF CheckTime, CreateEnd, WriteEnd, Goto, IfOver, record, files
  <2> QED
    BY <1>1, <2>1, <2>2
<1>2. CASE BidOrClose \/ CreateBid \/ WriteBid \/ KillChild
  BY <1>2 DEF BidOrClose, CreateBid, WriteBid, KillChild, Goto, record, files
<1>3. CASE HandleShowRecord
  BY <1>3 DEF HandleShowRecord, Goto, files
<1>4. CASE ReadBid \/ EndOfBids
  BY <1>4 DEF ReadBid, EndOfBids, Goto, record, files
<1>5. CASE ReadEnd \/ CannotOpen \/ ReplyMsg
  BY <1>5 DEF ReadEnd, CannotOpen, ReplyMsg, Goto, record, files
<1>6. CASE ShowToken \/ Expire \/ UNCHANGED vars
  BY <1>6 DEF ShowToken, Expire, vars, record, files
<1> QED
  BY Steps, <1>1, <1>2, <1>3, <1>4, <1>5, <1>6

(* The invariant holds of every behaviour.                                 *)
LEMMA RecordInvariant == Spec => []RecordInv
<1>1. RecordInv /\ [Next]_vars => RecordInv'
  BY TypeStep, OfferStep, LinesStep, ClosedStep DEF RecordInv
<1> QED
  BY InitRecord, <1>1, PTL DEF Spec

-------------------------------------------------------------------------------
(* The theorems.                                                           *)

(* An answer has the bids that were readable when the request came.        *)
LEMMA EarlierBidsShown ==
  ASSUME RecordInv, Answered
  PROVE  /\ before \subseteq visited /\ visited \subseteq OnRecord
         /\ \A v \in before : \E i \in 1..Len(lines) : lines[i] = v /\ i \notin FalseLines
BY DEF RecordInv, LinesInv

(* There are no more false lines than bids that came since.                *)
LEMMA FewFalseLines ==
  ASSUME RecordInv, Answered
  PROVE  /\ IsFiniteSet(FalseLines)
         /\ Cardinality(FalseLines) <= Cardinality(OnRecord \ before)
<1> DEFINE lastLine == Len(lines)
           sound == (1..lastLine) \ FalseLines
           lineFor == [v \in before |-> CHOOSE i \in 1..lastLine : lines[i] = v /\ i \notin FalseLines]
<1>1. lastLine \in Nat /\ lastLine = Cardinality(visited)
  BY LenProperties DEF RecordInv, ServerType, LinesInv
<1>2. IsFiniteSet(1..lastLine) /\ Cardinality(1..lastLine) = lastLine
  BY <1>1, FS_Interval
<1>3. FalseLines \subseteq 1..lastLine
  BY DEF FalseLines
<1>4. \A v \in before : lineFor[v] \in sound /\ lines[lineFor[v]] = v
  BY EarlierBidsShown
<1>5. lineFor \in Injection(before, sound)
  <2>1. lineFor \in [before -> sound]
    BY <1>4
  <2>2. \A v, w \in before : lineFor[v] = lineFor[w] => v = w
    BY <1>4
  <2> HIDE DEF lineFor, sound
  <2> QED
    BY <2>1, <2>2 DEF Injection, IsInjective
<1>6. /\ IsFiniteSet(sound)
      /\ Cardinality(sound) = lastLine - Cardinality(FalseLines)
  <2>1. (1..lastLine) \cap FalseLines = FalseLines
    BY <1>3
  <2>2. /\ IsFiniteSet(sound)
        /\ Cardinality(sound)
             = Cardinality(1..lastLine) - Cardinality((1..lastLine) \cap FalseLines)
    BY <1>2, FS_Difference, Zenon
  <2> QED
    BY <1>2, <2>1, <2>2
<1>7. Cardinality(before) <= Cardinality(sound)
  <2> HIDE DEF lineFor, sound
  <2> QED
    BY <1>5, <1>6, FS_Injection
<1>8. /\ IsFiniteSet(FalseLines) /\ Cardinality(FalseLines) \in Nat
  BY <1>2, <1>3, FS_Subset, FS_CardinalityType
<1>9. Cardinality(visited \ before) = lastLine - Cardinality(before)
  <2>1. visited \cap before = before
    BY EarlierBidsShown
  <2> QED
    BY <1>1, <2>1, ValuesFinite, FS_Difference DEF RecordInv, ServerType
<1>10. Cardinality(visited \ before) <= Cardinality(OnRecord \ before)
  <2>1. visited \ before \in SUBSET (OnRecord \ before) /\ OnRecord \ before \in SUBSET Values
    BY EarlierBidsShown DEF OnRecord
  <2> QED
    BY <2>1, ValuesFinite, FS_Subset
<1>11. /\ Cardinality(before) \in Nat /\ Cardinality(OnRecord \ before) \in Nat
  BY ValuesFinite DEF RecordInv, ServerType, OnRecord
<1> HIDE DEF sound, lastLine
<1> QED
  BY <1>1, <1>6, <1>7, <1>8, <1>9, <1>10, <1>11

(* No bid that was readable when SRC came is missing, and there are never  *)
(* more lines than bids, for any number of bids and any faults.            *)
THEOREM BidsAlwaysListed == Spec => []BidsAreListed
<1>1. ASSUME RecordInv
      PROVE  BidsAreListed
  <2> SUFFICES ASSUME Answered
               PROVE  /\ before \subseteq Range(lines)
                      /\ Range(lines) \subseteq OnRecord \cup {HostLine}
                      /\ Len(lines) <= Cardinality(OnRecord)
    BY DEF BidsAreListed
  <2>1. DOMAIN lines = 1..Len(lines)
    BY <1>1, LenProperties DEF RecordInv, ServerType
  <2>2. before \subseteq Range(lines)
    BY <1>1, <2>1, EarlierBidsShown DEF Range
  <2>3. Range(lines) \subseteq OnRecord \cup {HostLine}
    BY <1>1, <2>1 DEF RecordInv, LinesInv, Range
  <2>4. Cardinality(visited) <= Cardinality(OnRecord)
    BY <1>1, EarlierBidsShown, ValuesFinite, FS_Subset DEF OnRecord
  <2> QED
    BY <1>1, <2>2, <2>3, <2>4 DEF RecordInv, LinesInv
<1> QED
  BY <1>1, RecordInvariant, PTL

(* As many lines may be false as bids have come since SRC, and no more.    *)
THEOREM FalseLinesAlwaysNew == Spec => []FalseLinesAreNew
<1>1. RecordInv => FalseLinesAreNew
  BY FewFalseLines DEF FalseLinesAreNew
<1> QED
  BY <1>1, RecordInvariant, PTL

(* The record of an auction that was closed, and where nobody was at work, *)
(* is whole.                                                               *)
THEOREM ClosedRecordsFinal == Spec => []ClosedRecordIsFinal
<1>1. ASSUME RecordInv
      PROVE  ClosedRecordIsFinal
  <2> SUFFICES ASSUME Answered, shut
               PROVE  /\ closing = "end"
                      /\ before = OnRecord => Range(lines) = before /\ FalseLines = {}
    BY DEF ClosedRecordIsFinal
  <2>1. closing = "end"
    BY <1>1 DEF RecordInv, ClosedInv, Answered
  <2>2. ASSUME before = OnRecord
        PROVE  Range(lines) = before /\ FalseLines = {}
    <3>1. OnRecord \ before = {} /\ Cardinality(OnRecord \ before) = 0
      BY <2>2, FS_EmptySet
    <3>2. Cardinality(FalseLines) = 0
      BY <1>1, <3>1, FewFalseLines, FS_CardinalityType
    <3>3. FalseLines = {}
      BY <1>1, <3>2, FewFalseLines, FS_EmptySet
    <3>4. DOMAIN lines = 1..Len(lines)
      BY <1>1, LenProperties DEF RecordInv, ServerType
    <3>5. \A i \in 1..Len(lines) : lines[i] \in visited /\ lines[i] # HostLine
      BY <1>1, <3>3 DEF RecordInv, LinesInv, FalseLines
    <3> QED
      BY <1>1, <2>2, <3>3, <3>4, <3>5, EarlierBidsShown DEF Range
  <2> QED
    BY <2>1, <2>2
<1> QED
  BY <1>1, RecordInvariant, PTL

-------------------------------------------------------------------------------
(* The answer, token by token.                                             *)

Lines == Values \cup {HostLine}

AuctionKinds == <<"host", "name", "file", "value", "day", "hour", "active">>
BidKinds == <<"B", "bidder", "bid", "bidDay", "bidHour", "bidSecs">>
EndKinds == <<"E", "endDay", "endHour", "endSecs">>
Vocabulary ==
  {"host", "name", "file", "value", "day", "hour", "active", "B", "bidder", "bid", "bidDay",
   "bidHour", "bidSecs", "E", "endDay", "endHour", "endSecs"}

AnyToken == [kind : Vocabulary, line : Lines]

(* The tokens of given kinds, for one line.                                *)
LEMMA TokensOf ==
  ASSUME NEW K, NEW kinds \in Seq(K), NEW line \in Lines
  PROVE  /\ Tokens(kinds, line) \in Seq([kind : K, line : Lines])
         /\ Len(Tokens(kinds, line)) = Len(kinds)
         /\ \A i \in 1..Len(kinds) : Tokens(kinds, line)[i] = [kind |-> kinds[i], line |-> line]
<1>1. Len(kinds) \in Nat /\ \A i \in 1..Len(kinds) : kinds[i] \in K
  BY LenProperties, ElementOfSeq
<1> DEFINE t == Tokens(kinds, line)
<1>2. t = [i \in 1..Len(kinds) |-> [kind |-> kinds[i], line |-> line]]
  BY DEF Tokens
<1>3. \A i \in 1..Len(kinds) : t[i] = [kind |-> kinds[i], line |-> line]
  BY <1>2
<1>4. t \in [1..Len(kinds) -> [kind : K, line : Lines]]
  BY <1>1, <1>2
<1>5. t \in Seq([kind : K, line : Lines]) /\ Len(t) = Len(kinds)
  BY <1>1, <1>4, FunctionIsSeq
<1> QED
  BY <1>3, <1>5

(* All kinds are kinds of the answer.                                      *)
LEMMA KindsOf ==
  /\ AuctionKinds \in Seq(Kinds) /\ Len(AuctionKinds) = 7
  /\ BidKinds \in Seq(Kinds) /\ Len(BidKinds) = 6
  /\ EndKinds \in Seq(Kinds) /\ Len(EndKinds) = 4
<1>1. /\ AuctionKinds \in Seq(Vocabulary) /\ Len(AuctionKinds) = 7
      /\ BidKinds \in Seq(Vocabulary) /\ Len(BidKinds) = 6
      /\ EndKinds \in Seq(Vocabulary) /\ Len(EndKinds) = 4
  <2>1. AuctionKinds \in Seq(Vocabulary) /\ Len(AuctionKinds) = 7
    BY DEF AuctionKinds, Vocabulary
  <2>2. BidKinds \in Seq(Vocabulary) /\ Len(BidKinds) = 6
    BY DEF BidKinds, Vocabulary
  <2>3. EndKinds \in Seq(Vocabulary) /\ Len(EndKinds) = 4
    BY DEF EndKinds, Vocabulary
  <2> QED
    BY <2>1, <2>2, <2>3
<1> DEFINE a == AuctionTokens
           b == BidTokens(HostLine)
           e == EndTokens
           all == a \o b \o e
<1>2. HostLine \in Lines
  BY DEF Lines
<1>3. /\ a \in Seq(AnyToken) /\ b \in Seq(AnyToken) /\ e \in Seq(AnyToken)
      /\ Len(a) = 7 /\ \A i \in 1..7 : a[i].kind = AuctionKinds[i]
      /\ Len(b) = 6 /\ \A i \in 1..6 : b[i].kind = BidKinds[i]
      /\ Len(e) = 4 /\ \A i \in 1..4 : e[i].kind = EndKinds[i]
  <2>1. a = Tokens(AuctionKinds, HostLine) /\ b = Tokens(BidKinds, HostLine)
          /\ e = Tokens(EndKinds, HostLine)
    BY DEF AuctionTokens, BidTokens, EndTokens, AuctionKinds, BidKinds, EndKinds
  <2> HIDE DEF a, b, e
  <2>2. ASSUME NEW kinds \in Seq(Vocabulary), NEW n \in Nat, Len(kinds) = n
        PROVE  /\ Tokens(kinds, HostLine) \in Seq(AnyToken) /\ Len(Tokens(kinds, HostLine)) = n
               /\ \A i \in 1..n : Tokens(kinds, HostLine)[i].kind = kinds[i]
    <3> DEFINE t == Tokens(kinds, HostLine)
    <3>1. /\ t \in Seq([kind : Vocabulary, line : Lines]) /\ Len(t) = Len(kinds)
          /\ \A i \in 1..Len(kinds) : t[i] = [kind |-> kinds[i], line |-> HostLine]
      BY <1>2, TokensOf
    <3> QED
      BY <2>2, <3>1 DEF AnyToken
  <2> QED
    BY <1>1, <2>1, <2>2
<1> HIDE DEF a, b, e
<1>4. /\ all \in Seq(AnyToken) /\ Len(all) = 17
      /\ \A i \in 1..7 : all[i] = a[i]
      /\ \A i \in 1..6 : all[7 + i] = b[i]
      /\ \A i \in 1..4 : all[13 + i] = e[i]
  <2>1. a \in Seq(AnyToken) /\ b \in Seq(AnyToken) /\ e \in Seq(AnyToken)
    BY <1>3
  <2>2. PICK ab \in Seq(AnyToken) : ab = a \o b /\ IsJoin(ab, a, b)
    BY <2>1, JoinTwo
  <2>3. PICK abe \in Seq(AnyToken) : abe = ab \o e /\ IsJoin(abe, ab, e)
    BY <2>1, JoinTwo
  <2>4. /\ Len(ab) = Len(a) + Len(b)
        /\ \A i \in 1..Len(a) : ab[i] = a[i]
        /\ \A i \in 1..Len(b) : ab[Len(a) + i] = b[i]
    BY <2>2 DEF IsJoin
  <2>5. /\ Len(abe) = Len(ab) + Len(e)
        /\ \A i \in 1..Len(ab) : abe[i] = ab[i]
        /\ \A i \in 1..Len(e) : abe[Len(ab) + i] = e[i]
    BY <2>3 DEF IsJoin
  <2>6. /\ Len(abe) = 17
        /\ \A i \in 1..7 : abe[i] = a[i]
        /\ \A i \in 1..6 : abe[7 + i] = b[i]
        /\ \A i \in 1..4 : abe[13 + i] = e[i]
    BY <1>3, <2>4, <2>5
  <2>7. all = abe
    BY <2>2, <2>3
  <2> HIDE DEF all
  <2> QED
    BY <2>6, <2>7
<1>5. \A i \in 1..17 : all[i].kind \in Kinds
  <2>1. Kinds = {t.kind : t \in Range(all)}
    BY DEF Kinds, a, b, e
  <2>2. Range(all) = {all[i] : i \in 1..17}
    BY <1>4, LenProperties DEF Range
  <2> QED
    BY <2>1, <2>2
<1>6. /\ \A i \in 1..7 : AuctionKinds[i] \in Kinds
      /\ \A i \in 1..6 : BidKinds[i] \in Kinds
      /\ \A i \in 1..4 : EndKinds[i] \in Kinds
  <2> HIDE DEF all
  <2>1. \A i \in 1..7 : AuctionKinds[i] \in Kinds
    BY <1>3, <1>4, <1>5
  <2>2. \A i \in 1..6 : 7 + i \in 1..17 /\ all[7 + i].kind = BidKinds[i]
    <3>1. \A i \in 1..6 : all[7 + i] = b[i]
      BY <1>4
    <3>2. \A i \in 1..6 : b[i].kind = BidKinds[i]
      BY <1>3
    <3> QED
      BY <3>1, <3>2
  <2>3. \A i \in 1..4 : 13 + i \in 1..17 /\ all[13 + i].kind = EndKinds[i]
    <3>1. \A i \in 1..4 : all[13 + i] = e[i]
      BY <1>4
    <3>2. \A i \in 1..4 : e[i].kind = EndKinds[i]
      BY <1>3
    <3> QED
      BY <3>1, <3>2
  <2> QED
    BY <1>5, <2>1, <2>2, <2>3
<1>7. ASSUME NEW kinds \in Seq(Vocabulary), NEW n \in Nat, Len(kinds) = n,
             \A i \in 1..n : kinds[i] \in Kinds
      PROVE  kinds \in Seq(Kinds)
  <2>1. kinds \in [1..n -> Kinds]
    BY <1>7, LenProperties
  <2> QED
    BY <2>1, FunctionIsSeq
<1> QED
  BY <1>1, <1>6, <1>7

(* The three kinds of lists of tokens.                                     *)
LEMMA TokenLists ==
  /\ AuctionTokens \in Seq(Token) /\ Len(AuctionTokens) = 7
  /\ \A i \in 1..7 : AuctionTokens[i].kind = AuctionKinds[i]
  /\ EndTokens \in Seq(Token) /\ Len(EndTokens) = 4
  /\ \A i \in 1..4 : EndTokens[i].kind = EndKinds[i]
  /\ \A v \in Lines : /\ BidTokens(v) \in Seq(Token) /\ Len(BidTokens(v)) = 6
                      /\ \A i \in 1..6 : BidTokens(v)[i].kind = BidKinds[i]
<1>1. ASSUME NEW kinds \in Seq(Kinds), NEW n \in Nat, Len(kinds) = n, NEW line \in Lines
      PROVE  /\ Tokens(kinds, line) \in Seq(Token) /\ Len(Tokens(kinds, line)) = n
             /\ \A i \in 1..n : Tokens(kinds, line)[i].kind = kinds[i]
  <2> DEFINE t == Tokens(kinds, line)
  <2>1. /\ t \in Seq([kind : Kinds, line : Lines]) /\ Len(t) = Len(kinds)
        /\ \A i \in 1..Len(kinds) : t[i] = [kind |-> kinds[i], line |-> line]
    BY TokensOf
  <2> QED
    BY <1>1, <2>1 DEF Token, Lines
<1>2. HostLine \in Lines
  BY DEF Lines
<1>3. /\ AuctionTokens = Tokens(AuctionKinds, HostLine)
      /\ EndTokens = Tokens(EndKinds, HostLine)
      /\ \A v : BidTokens(v) = Tokens(BidKinds, v)
  BY DEF AuctionTokens, BidTokens, EndTokens, AuctionKinds, BidKinds, EndKinds
<1> QED
  BY <1>1, <1>2, <1>3, KindsOf

(* The tokens of the bids, one line after the other.                       *)
TokenLines(l) == [i \in 1..Len(l) |-> BidTokens(l[i])]
IsBidPart(m, n) ==
  /\ Len(m) = 6 * n
  /\ \A j \in 0..(n - 1), k \in 1..6 : m[6 * j + k].kind = BidKinds[k]

(* Line by line, the tokens are of the kinds that the client expects.      *)
LEMMA BidPart ==
  \A l \in Seq(Lines) :
    FlattenSeq(TokenLines(l)) \in Seq(Token) /\ IsBidPart(FlattenSeq(TokenLines(l)), Len(l))
<1> DEFINE Good(l) == /\ FlattenSeq(TokenLines(l)) \in Seq(Token)
                      /\ IsBidPart(FlattenSeq(TokenLines(l)), Len(l))
           T == {n \in Nat : \A l \in Seq(Lines) : Len(l) = n => Good(l)}
<1>1. \A l \in Seq(Lines) : TokenLines(l) \in Seq(Seq(Token)) /\ Len(TokenLines(l)) = Len(l)
  <2> SUFFICES ASSUME NEW l \in Seq(Lines)
               PROVE  TokenLines(l) \in Seq(Seq(Token)) /\ Len(TokenLines(l)) = Len(l)
    OBVIOUS
  <2>1. Len(l) \in Nat /\ TokenLines(l) \in [1..Len(l) -> Seq(Token)]
    BY TokenLists, LenProperties, ElementOfSeq DEF TokenLines
  <2> QED
    BY <2>1, FunctionIsSeq
<1>2. 0 \in T
  <2> SUFFICES ASSUME NEW l \in Seq(Lines), Len(l) = 0 PROVE Good(l)
    OBVIOUS
  <2>1. TokenLines(l) = <<>>
    BY <1>1, EmptySeq
  <2>2. FlattenSeq(<<>>) = <<>>
    BY EmptySeq DEF FlattenSeq
  <2>3. <<>> \in Seq(Token) /\ IsBidPart(<<>>, 0)
    BY EmptySeq DEF IsBidPart
  <2> QED
    BY <2>1, <2>2, <2>3
<1>3. ASSUME NEW n \in Nat, NEW s \in Seq(Lines), Len(s) = n, Good(s), NEW v \in Lines
      PROVE  Good(Append(s, v))
  <2> DEFINE l == Append(s, v)
             m == FlattenSeq(TokenLines(s))
             b == BidTokens(v)
  <2>1. l \in Seq(Lines) /\ Len(l) = n + 1 /\ (\A i \in 1..n : l[i] = s[i]) /\ l[n + 1] = v
    BY <1>3, AppendProperties
  <2>2. b \in Seq(Token) /\ Len(b) = 6 /\ \A i \in 1..6 : b[i].kind = BidKinds[i]
    BY TokenLists
  <2>3. TokenLines(l) = Append(TokenLines(s), b)
    <3> DEFINE t == TokenLines(s)
               u == TokenLines(l)
    <3>1. /\ t \in Seq(Seq(Token)) /\ Len(t) = n
          /\ u \in Seq(Seq(Token)) /\ Len(u) = n + 1
      BY <1>1, <1>3, <2>1
    <3>2. \A i \in 1..n : u[i] = t[i]
      BY <1>3, <2>1 DEF TokenLines
    <3>3. u[n + 1] = b
      BY <2>1 DEF TokenLines
    <3>4. /\ Append(t, b) \in Seq(Seq(Token)) /\ Len(Append(t, b)) = n + 1
          /\ \A i \in 1..n : Append(t, b)[i] = t[i]
          /\ Append(t, b)[n + 1] = b
      BY <2>2, <3>1, AppendProperties
    <3> HIDE DEF t, u
    <3>5. \A i \in 1..(n + 1) : u[i] = Append(t, b)[i]
      BY <3>2, <3>3, <3>4
    <3> QED
      BY <3>1, <3>4, <3>5, SeqEqual DEF t, u
  <2>4. FlattenSeq(TokenLines(l)) = m \o b
    <3>1. FlattenSeq(Append(TokenLines(s), b)) = IF TokenLines(s) = <<>> THEN b ELSE m \o b
      BY <1>1, <2>2, FlattenAppend
    <3>2. TokenLines(s) = <<>> => m = <<>>
      BY EmptySeq DEF FlattenSeq
    <3>3. <<>> \o b = b
      BY <2>2, ConcatEmptySeq
    <3> HIDE DEF m, b
    <3> QED
      BY <2>3, <3>1, <3>2, <3>3
  <2>5. m \in Seq(Token) /\ IsBidPart(m, n)
    BY <1>3
  <2> HIDE DEF m, b, l
  <2>6. PICK u \in Seq(Token) : u = m \o b /\ IsJoin(u, m, b)
    BY <2>2, <2>5, JoinTwo
  <2>7. /\ Len(u) = Len(m) + Len(b)
        /\ \A i \in 1..Len(m) : u[i] = m[i]
        /\ \A i \in 1..Len(b) : u[Len(m) + i] = b[i]
    BY <2>6 DEF IsJoin
  <2>8. Len(u) = 6 * (n + 1)
    BY <2>2, <2>5, <2>7 DEF IsBidPart
  <2>9. ASSUME NEW j \in 0..n, NEW k \in 1..6
        PROVE  u[6 * j + k].kind = BidKinds[k]
    <3>1. CASE j = n
      <4>1. u[Len(m) + k] = b[k] /\ b[k].kind = BidKinds[k]
        BY <2>2, <2>7
      <4> QED
        BY <2>5, <3>1, <4>1 DEF IsBidPart
    <3>2. CASE j # n
      <4>1. j \in 0..(n - 1) /\ 6 * j + k \in 1..(6 * n)
        BY <3>2
      <4> QED
        BY <2>5, <2>7, <4>1 DEF IsBidPart
    <3> QED
      BY <3>1, <3>2
  <2>10. IsBidPart(u, n + 1)
    <3>1. (n + 1) - 1 = n
      OBVIOUS
    <3> QED
      BY <2>8, <2>9, <3>1 DEF IsBidPart
  <2> QED
    BY <2>1, <2>4, <2>6, <2>10 DEF l
<1>4. ASSUME NEW n \in T PROVE n + 1 \in T
  <2> SUFFICES ASSUME NEW l \in Seq(Lines), Len(l) = n + 1 PROVE Good(l)
    OBVIOUS
  <2>1. l # <<>>
    BY EmptySeq
  <2>2. PICK s \in Seq(Lines), v \in Lines : l = Append(s, v)
    BY <2>1, SequenceEmptyOrAppend
  <2>3. Len(s) = n
    BY <2>2, AppendProperties, LenProperties
  <2>4. n \in Nat /\ Good(s)
    BY <1>4, <2>3
  <2> HIDE DEF Good, T
  <2> QED
    BY <1>3, <2>2, <2>3, <2>4
<1> HIDE DEF T, Good
<1>5. T = Nat
  BY <1>2, <1>4, NatSetInduction DEF T
<1>6. ASSUME NEW l \in Seq(Lines) PROVE Good(l)
  BY <1>5, LenProperties DEF T
<1> QED
  BY <1>6 DEF Good

(* What stands where in the answer.                                        *)
EndTail == IF closing = "none" THEN 0 ELSE 4
Laid(m, n) ==
  /\ Len(m) = 7 + 6 * n + EndTail
  /\ \A i \in 1..7 : m[i].kind = AuctionKinds[i]
  /\ \A j \in 0..(n - 1), k \in 1..6 : m[7 + 6 * j + k].kind = BidKinds[k]
  /\ \A i \in 1..EndTail : m[7 + 6 * n + i].kind = EndKinds[i]

(* The answer of the server is laid out so.                                *)
LEMMA MessageLaid ==
  ASSUME lines \in Seq(Lines)
  PROVE  Message \in Seq(Token) /\ Laid(Message, Len(lines))
<1> DEFINE a == AuctionTokens
           b == FlattenSeq(TokenLines(lines))
           e == IF closing = "none" THEN <<>> ELSE EndTokens
           n == Len(lines)
<1>1. n \in Nat /\ EndTail \in {0, 4}
  BY LenProperties DEF EndTail
<1>2. /\ a \in Seq(Token) /\ Len(a) = 7
      /\ \A i \in 1..7 : a[i].kind = AuctionKinds[i]
  BY TokenLists
<1>3. b \in Seq(Token) /\ IsBidPart(b, n)
  BY BidPart
<1>4. /\ e \in Seq(Token) /\ Len(e) = EndTail
      /\ \A i \in 1..EndTail : e[i].kind = EndKinds[i]
  <2>1. CASE closing = "none"
    BY <2>1, EmptySeq DEF EndTail
  <2>2. CASE closing # "none"
    BY <2>2, TokenLists DEF EndTail
  <2> QED
    BY <2>1, <2>2
<1>5. Message = a \o b \o e
  BY DEF Message, TokenLines
<1> HIDE DEF a, b, e, n
<1>6. PICK ab \in Seq(Token) : ab = a \o b /\ IsJoin(ab, a, b)
  <2>1. a \in Seq(Token) /\ b \in Seq(Token)
    BY <1>2, <1>3
  <2> QED
    BY <2>1, JoinTwo
<1>7. PICK m \in Seq(Token) : m = ab \o e /\ IsJoin(m, ab, e)
  <2>1. e \in Seq(Token)
    BY <1>4
  <2> QED
    BY <2>1, JoinTwo
<1>8. Message = m
  BY <1>5, <1>6, <1>7
<1>9. /\ Len(ab) = 7 + 6 * n
      /\ \A i \in 1..7 : ab[i] = a[i]
      /\ \A i \in 1..(6 * n) : ab[7 + i] = b[i]
  BY <1>2, <1>3, <1>6 DEF IsJoin, IsBidPart
<1>10. /\ Len(m) = 7 + 6 * n + EndTail
       /\ \A i \in 1..(7 + 6 * n) : m[i] = ab[i]
       /\ \A i \in 1..EndTail : m[7 + 6 * n + i] = e[i]
  BY <1>4, <1>7, <1>9 DEF IsJoin
<1>11. \A i \in 1..7 : m[i].kind = AuctionKinds[i]
  BY <1>1, <1>2, <1>9, <1>10
<1>12. ASSUME NEW j \in 0..(n - 1), NEW k \in 1..6
       PROVE  m[7 + 6 * j + k].kind = BidKinds[k]
  <2>1. 6 * j + k \in 1..(6 * n) /\ 7 + (6 * j + k) \in 1..(7 + 6 * n)
    BY <1>1
  <2>2. m[7 + (6 * j + k)] = b[6 * j + k]
    BY <1>9, <1>10, <2>1
  <2>3. b[6 * j + k].kind = BidKinds[k]
    BY <1>3 DEF IsBidPart
  <2>4. 7 + 6 * j + k = 7 + (6 * j + k)
    BY <1>1
  <2> QED
    BY <2>2, <2>3, <2>4
<1>13. \A i \in 1..EndTail : m[7 + 6 * n + i].kind = EndKinds[i]
  BY <1>4, <1>10
<1> QED
  BY <1>8, <1>10, <1>11, <1>12, <1>13 DEF Laid, n

-------------------------------------------------------------------------------
(* The screen.                                                             *)

(* The client, about to read part p, has read k tokens.                    *)
Stands(p, k) ==
  \/ p \in 0..4 /\ k = p
  \/ p = 5 /\ k = 6
  \/ p = 6 /\ \E j \in 0..Len(lines) : k = 7 + 6 * j
  \/ p = 7 /\ \E j \in 0..(Len(lines) - 1) : k = 8 + 6 * j
  \/ p = 8 /\ \E j \in 0..(Len(lines) - 1) : k = 9 + 6 * j
  \/ p = 9 /\ \E j \in 0..(Len(lines) - 1) : k = 10 + 6 * j
  \/ p = 10 /\ \E j \in 0..(Len(lines) - 1) : k = 12 + 6 * j
  \/ p = 11 /\ k = 8 + 6 * Len(lines) /\ EndTail = 4
  \/ p = 12 /\ k = 10 + 6 * Len(lines) /\ EndTail = 4

(* A part that is shown stands beside its label.                           *)
Beside(s) ==
  IF s.part = 6 THEN s.tokens[1].kind \in {"B", "E"}
  ELSE [i \in 1..Len(s.tokens) |-> s.tokens[i].kind] = Label(s.part)

TokensShown == [i \in 1..Len(shown) |-> shown[i].tokens]

ScreenInv ==
  /\ over \in BOOLEAN
  /\ wire \in Seq(Token) /\ part \in 0..12
  /\ shown \in Seq([part : 0..12, tokens : Seq(Token)])
  /\ pc["parent"] # "select" => wire = <<>> /\ shown = <<>>
  /\ \A i \in 1..Len(shown) : Beside(shown[i])
  /\ shown # <<>> => FlattenSeq(TokensShown) \o wire = Message
  /\ shown = <<>> /\ wire # <<>> => wire = Message
  /\ wire # <<>> =>
       /\ Len(wire) <= Len(Message)
       /\ \A i \in 1..Len(wire) : wire[i] = Message[Len(Message) - Len(wire) + i]
       /\ Stands(part, Len(Message) - Len(wire))

(* What the client takes, k tokens having been read, is the part it        *)
(* expects, and it will be right about the next one.                       *)
LEMMA TakesPart ==
  ASSUME NEW m, lines \in Seq(Lines), Laid(m, Len(lines)), part \in 0..12,
         NEW k \in Nat, k < Len(m), Stands(part, k)
  PROVE  /\ k + Taken <= Len(m)
         /\ IF part = 6 THEN m[k + 1].kind \in {"B", "E"}
            ELSE Len(Label(part)) = Taken /\ \A i \in 1..Taken : m[k + i].kind = Label(part)[i]
         /\ part = 12 => k + 1 = Len(m)
         /\ NextPart(m[k + 1]) \in 0..12
         /\ k + Taken < Len(m) => Stands(NextPart(m[k + 1]), k + Taken)
<1> DEFINE n == Len(lines)
<1>1. n \in Nat /\ EndTail \in {0, 4} /\ Len(m) = 7 + 6 * n + EndTail
  BY LenProperties DEF EndTail, Laid
<1>2. \A i \in 1..7 : m[i].kind = AuctionKinds[i]
  BY DEF Laid
<1>3. \A j \in 0..(n - 1), i \in 1..6 : m[7 + 6 * j + i].kind = BidKinds[i]
  BY DEF Laid
<1>4. \A i \in 1..EndTail : m[7 + 6 * n + i].kind = EndKinds[i]
  BY DEF Laid
<1> HIDE DEF n
<1>5. CASE part \in 0..3
  <2>1. k = part /\ Taken = 1
    BY <1>5 DEF Stands, Taken
  <2>2. m[k + 1].kind = AuctionKinds[k + 1]
    BY <1>2, <1>5, <2>1
  <2>3. Label(part) = <<AuctionKinds[k + 1]>>
    BY <1>5, <2>1 DEF Label, AuctionKinds
  <2>4. NextPart(m[k + 1]) = part + 1
    BY <1>5 DEF NextPart
  <2>5. Stands(part + 1, k + 1)
    BY <1>5, <2>1 DEF Stands
  <2> QED
    BY <1>1, <1>5, <2>1, <2>2, <2>3, <2>4, <2>5
<1>6. CASE part = 4
  <2>1. k = 4 /\ Taken = 2 /\ NextPart(m[k + 1]) = 5
    BY <1>6 DEF Stands, Taken, NextPart
  <2>2. m[5].kind = AuctionKinds[5] /\ m[6].kind = AuctionKinds[6]
    BY <1>2
  <2>3. Label(part) = <<AuctionKinds[5], AuctionKinds[6]>>
    BY <1>6 DEF Label, AuctionKinds
  <2>4. Stands(5, 6)
    BY DEF Stands
  <2> QED
    BY <1>1, <1>6, <2>1, <2>2, <2>3, <2>4
<1>7. CASE part = 5
  <2>1. k = 6 /\ Taken = 1 /\ NextPart(m[k + 1]) = 6
    BY <1>7 DEF Stands, Taken, NextPart
  <2>2. m[7].kind = AuctionKinds[7]
    BY <1>2
  <2>3. Label(part) = <<AuctionKinds[7]>>
    BY <1>7 DEF Label, AuctionKinds
  <2>4. Stands(6, 7)
    <3>1. 0 \in 0..Len(lines) /\ 7 = 7 + 6 * 0
      BY <1>1 DEF n
    <3> QED
      BY <3>1 DEF Stands
  <2> QED
    BY <1>1, <1>7, <2>1, <2>2, <2>3, <2>4
<1>8. CASE part = 6
  <2>1. PICK j \in 0..n : k = 7 + 6 * j
    BY <1>8 DEF Stands, n
  <2>2. Taken = 1 /\ NextPart(m[k + 1]) = IF m[k + 1].kind = "B" THEN 7 ELSE 11
    BY <1>8 DEF Taken, NextPart
  <2>3. CASE j # n
    <3>1. j \in 0..(n - 1)
      BY <1>1, <2>3
    <3>2. m[7 + 6 * j + 1].kind = BidKinds[1] /\ BidKinds[1] = "B"
      BY <1>3, <3>1 DEF BidKinds
    <3>3. k + 1 = 8 + 6 * j /\ 7 + 6 * j + 1 = k + 1 /\ k + 1 <= Len(m)
      BY <1>1, <2>1, <3>1
    <3>4. Stands(7, k + 1)
      BY <3>1, <3>3 DEF Stands, n
    <3> QED
      BY <1>8, <2>2, <3>2, <3>3, <3>4
  <2>4. CASE j = n
    <3>1. EndTail = 4
      BY <1>1, <2>1, <2>4
    <3>2. m[7 + 6 * n + 1].kind = EndKinds[1] /\ EndKinds[1] = "E"
      BY <1>4, <3>1 DEF EndKinds
    <3>3. k + 1 = 8 + 6 * n /\ 7 + 6 * n + 1 = k + 1 /\ k + 1 <= Len(m)
      BY <1>1, <2>1, <2>4, <3>1
    <3>4. Stands(11, k + 1)
      BY <3>1, <3>3 DEF Stands, n
    <3> QED
      BY <1>8, <2>2, <3>2, <3>3, <3>4
  <2> QED
    BY <2>3, <2>4
<1>9. CASE part \in {7, 8}
  <2> DEFINE i == part - 5
  <2>1. i \in {2, 3} /\ part = i + 5
    BY <1>9
  <2>2. PICK j \in 0..(n - 1) : k = 6 + i + 6 * j
    BY <1>9 DEF Stands, n
  <2>3. Taken = 1 /\ NextPart(m[k + 1]) = part + 1
    BY <1>9 DEF Taken, NextPart
  <2>4. m[7 + 6 * j + i].kind = BidKinds[i]
    <3>1. i \in 1..6
      BY <2>1
    <3> HIDE DEF i
    <3> QED
      BY <1>3, <3>1
  <2>5. Label(part) = <<BidKinds[i]>>
    BY <1>9 DEF Label, BidKinds
  <2>6. 7 + 6 * j + i = k + 1 /\ k + 1 <= Len(m)
    BY <1>1, <2>1, <2>2
  <2>7. Stands(part + 1, k + 1)
    BY <1>9, <2>2 DEF Stands, n
  <2> HIDE DEF i
  <2> QED
    BY <1>9, <2>3, <2>4, <2>5, <2>6, <2>7
<1>10. CASE part = 9
  <2>1. PICK j \in 0..(n - 1) : k = 10 + 6 * j
    BY <1>10 DEF Stands, n
  <2>2. Taken = 2 /\ NextPart(m[k + 1]) = 10
    BY <1>10 DEF Taken, NextPart
  <2>3. m[7 + 6 * j + 4].kind = BidKinds[4] /\ m[7 + 6 * j + 5].kind = BidKinds[5]
    BY <1>3
  <2>4. Label(part) = <<BidKinds[4], BidKinds[5]>>
    BY <1>10 DEF Label, BidKinds
  <2>5. 7 + 6 * j + 4 = k + 1 /\ 7 + 6 * j + 5 = k + 2 /\ k + 2 <= Len(m)
    BY <1>1, <2>1
  <2>6. Stands(10, k + 2)
    BY <2>1 DEF Stands, n
  <2> QED
    BY <1>10, <2>2, <2>3, <2>4, <2>5, <2>6
<1>11. CASE part = 10
  <2>1. PICK j \in 0..(n - 1) : k = 12 + 6 * j
    BY <1>11 DEF Stands, n
  <2>2. Taken = 1 /\ NextPart(m[k + 1]) = 6
    BY <1>11 DEF Taken, NextPart
  <2>3. m[7 + 6 * j + 6].kind = BidKinds[6]
    BY <1>3
  <2>4. Label(part) = <<BidKinds[6]>>
    BY <1>11 DEF Label, BidKinds
  <2>5. 7 + 6 * j + 6 = k + 1 /\ k + 1 <= Len(m)
    BY <1>1, <2>1
  <2>6. Stands(6, k + 1)
    <3>1. j + 1 \in 0..n /\ k + 1 = 7 + 6 * (j + 1)
      BY <1>1, <2>1
    <3> QED
      BY <3>1 DEF Stands, n
  <2> QED
    BY <1>11, <2>2, <2>3, <2>4, <2>5, <2>6
<1>12. CASE part = 11
  <2>1. k = 8 + 6 * n /\ EndTail = 4 /\ Taken = 2 /\ NextPart(m[k + 1]) = 12
    BY <1>12 DEF Stands, Taken, NextPart, n
  <2>2. m[7 + 6 * n + 2].kind = EndKinds[2] /\ m[7 + 6 * n + 3].kind = EndKinds[3]
    BY <1>4, <2>1
  <2>3. Label(part) = <<EndKinds[2], EndKinds[3]>>
    BY <1>12 DEF Label, EndKinds
  <2>4. 7 + 6 * n + 2 = k + 1 /\ 7 + 6 * n + 3 = k + 2 /\ k + 2 <= Len(m)
    BY <1>1, <2>1
  <2>5. Stands(12, k + 2)
    BY <1>1, <2>1 DEF Stands, n
  <2> QED
    BY <1>12, <2>1, <2>2, <2>3, <2>4, <2>5
<1>13. CASE part = 12
  <2>1. k = 10 + 6 * n /\ EndTail = 4 /\ Taken = 1 /\ NextPart(m[k + 1]) = 12
    BY <1>13 DEF Stands, Taken, NextPart, n
  <2>2. m[7 + 6 * n + 4].kind = EndKinds[4]
    BY <1>4, <2>1
  <2>3. Label(part) = <<EndKinds[4]>>
    BY <1>13 DEF Label, EndKinds
  <2>4. 7 + 6 * n + 4 = k + 1 /\ k + 1 = Len(m)
    BY <1>1, <2>1
  <2> QED
    BY <1>13, <2>1, <2>2, <2>3, <2>4
<1> QED
  BY <1>5, <1>6, <1>7, <1>8, <1>9, <1>10, <1>11, <1>12, <1>13

(* A label is a list of words.                                             *)
LEMMA LabelType == \A p \in (0..12) \ {6} : Label(p) \in Seq(Vocabulary)
<1> SUFFICES ASSUME NEW p \in (0..12) \ {6} PROVE Label(p) \in Seq(Vocabulary)
  OBVIOUS
<1>1. /\ Label(0) \in Seq(Vocabulary) /\ Label(1) \in Seq(Vocabulary)
      /\ Label(2) \in Seq(Vocabulary) /\ Label(3) \in Seq(Vocabulary)
  BY DEF Label, Vocabulary
<1>2. /\ Label(4) \in Seq(Vocabulary) /\ Label(5) \in Seq(Vocabulary)
      /\ Label(7) \in Seq(Vocabulary) /\ Label(8) \in Seq(Vocabulary)
  BY DEF Label, Vocabulary
<1>3. /\ Label(9) \in Seq(Vocabulary) /\ Label(10) \in Seq(Vocabulary)
      /\ Label(11) \in Seq(Vocabulary) /\ Label(12) \in Seq(Vocabulary)
  BY DEF Label, Vocabulary
<1>4. \/ p = 0 \/ p = 1 \/ p = 2 \/ p = 3 \/ p = 4 \/ p = 5
      \/ p = 7 \/ p = 8 \/ p = 9 \/ p = 10 \/ p = 11 \/ p = 12
  OBVIOUS
<1> QED
  BY <1>1, <1>2, <1>3, <1>4, Zenon

(* At first nothing is on the screen.                                      *)
LEMMA ScreenInit == Init => ScreenInv
<1> SUFFICES ASSUME Init PROVE ScreenInv
  OBVIOUS
<1>1. <<>> \in Seq(Token) /\ <<>> \in Seq([part : 0..12, tokens : Seq(Token)])
  BY EmptySeq
<1>2. Len(shown) = 0 /\ wire = <<>> /\ shown = <<>> /\ part = 0 /\ over = FALSE
  BY EmptySeq DEF Init
<1>3. \A i \in 1..Len(shown) : Beside(shown[i])
  BY <1>2
<1>4. over \in BOOLEAN /\ part \in 0..12
  <2>1. over \in BOOLEAN
    BY <1>2, Zenon
  <2>2. part \in 0..12
    BY <1>2
  <2> QED
    BY <2>1, <2>2
<1>5. wire \in Seq(Token) /\ shown \in Seq([part : 0..12, tokens : Seq(Token)])
  BY <1>1, <1>2, Zenon
<1> QED
  BY <1>2, <1>3, <1>4, <1>5 DEF ScreenInv

(* One more part on the screen.                                            *)
LEMMA ScreenShow ==
  ASSUME lines \in Seq(Lines), ScreenInv, ShowToken
  PROVE  ScreenInv'
<1> DEFINE m == Message
           n == Len(m)
           w == Len(wire)
           k == n - w
           head == SubSeq(wire, 1, Taken)
           rest == SubSeq(wire, Taken + 1, w)
           new == [part |-> part, tokens |-> head]
<1>1. m \in Seq(Token) /\ Laid(m, Len(lines))
  BY MessageLaid
<1>2. /\ wire # <<>> /\ wire \in Seq(Token) /\ part \in 0..12
      /\ n \in Nat /\ w \in Nat /\ w > 0 /\ w <= n
      /\ \A i \in 1..w : wire[i] = m[k + i]
      /\ Stands(part, k)
  BY <1>1, LenProperties, EmptySeq DEF ShowToken, ScreenInv
<1>3. k \in Nat /\ k < n /\ wire[1] = m[k + 1]
  BY <1>2
<1>4. /\ k + Taken <= n
      /\ IF part = 6 THEN m[k + 1].kind \in {"B", "E"}
         ELSE Len(Label(part)) = Taken /\ \A i \in 1..Taken : m[k + i].kind = Label(part)[i]
      /\ part = 12 => k + 1 = n
      /\ part' \in 0..12
      /\ k + Taken < n => Stands(part', k + Taken)
  <2>1. part' = NextPart(m[k + 1])
    BY <1>3 DEF ShowToken
  <2> HIDE DEF k, m
  <2> QED
    BY <1>1, <1>2, <1>3, <2>1, TakesPart
<1>5. Taken \in {1, 2} /\ Taken <= w /\ (part = 12 => Taken = 1 /\ w = 1)
  <2>1. Taken \in {1, 2} /\ (part = 12 => Taken = 1)
    BY DEF Taken
  <2>2. k + Taken <= n /\ (part = 12 => k + 1 = n) /\ n \in Nat /\ w \in Nat
    BY <1>2, <1>4
  <2> HIDE DEF n, w
  <2> QED
    BY <2>1, <2>2
<1>6. /\ head \in Seq(Token) /\ Len(head) = Taken
      /\ \A i \in 1..Taken : head[i] = wire[i]
  <2>1. \A i \in 1..Taken : wire[i] \in Token
    BY <1>2, <1>5, ElementOfSeq
  <2> QED
    BY <1>5, <2>1, SubSeqProperties
<1>7. /\ rest \in Seq(Token) /\ Len(rest) = w - Taken
      /\ \A i \in 1..(w - Taken) : rest[i] = wire[Taken + i]
  <2>1. \A i \in (Taken + 1)..w : wire[i] \in Token
    BY <1>2, <1>5, ElementOfSeq
  <2> QED
    BY <1>2, <1>5, <2>1, SubSeqProperties
<1>8. wire' = rest
  <2>1. CASE part = 12
    <3> HIDE DEF rest, w
    <3>1. rest \in Seq(Token) /\ Len(rest) = 0
      BY <1>5, <1>7, <2>1
    <3>2. rest = <<>>
      BY <3>1, EmptySeq
    <3> QED
      BY <2>1, <3>2 DEF ShowToken
  <2>2. CASE part # 12
    BY <2>2 DEF ShowToken
  <2> QED
    BY <2>1, <2>2
<1>9. head \o rest = wire
  <2>1. SubSeq(wire, 1, Taken) \o SubSeq(wire, Taken + 1, w) = SubSeq(wire, 1, w)
    <3>1. /\ 1 \in 1..(w + 1) /\ Taken \in (1 - 1)..w /\ w \in Taken..w
      BY <1>2, <1>5
    <3> QED
      BY <1>2, <3>1, ConcatAdjacentSubSeq
  <2> QED
    BY <1>2, <2>1, SubSeqFull
<1>10. Message' = m /\ lines' = lines /\ EndTail' = EndTail /\ pc' = pc
  BY DEF ShowToken, record, Message, EndTail
<1>11. new \in [part : 0..12, tokens : Seq(Token)]
  BY <1>2, <1>6
<1>12. Beside(new)
  <2>1. new.part = part /\ new.tokens = head
    OBVIOUS
  <2>2. CASE part = 6
    <3>1. head[1].kind = m[k + 1].kind
      BY <1>3, <1>5, <1>6
    <3> QED
      BY <1>4, <2>1, <2>2, <3>1 DEF Beside
  <2>3. CASE part # 6
    <3>1. /\ Label(part) \in [1..Taken -> Vocabulary]
          /\ \A i \in 1..Taken : m[k + i].kind = Label(part)[i]
      BY <1>2, <1>4, <2>3, LabelType, LenProperties
    <3>2. \A i \in 1..Taken : head[i] = m[k + i]
      BY <1>2, <1>5, <1>6
    <3>3. \A i \in 1..Taken : head[i].kind = Label(part)[i]
      BY <3>1, <3>2
    <3> HIDE DEF head
    <3>4. [i \in 1..Len(head) |-> head[i].kind] = Label(part)
      BY <1>6, <3>1, <3>3
    <3> QED
      BY <2>1, <2>3, <3>4 DEF Beside
  <2> QED
    BY <2>2, <2>3
<1>13. /\ shown' = Append(shown, new) /\ shown' # <<>>
       /\ shown' \in Seq([part : 0..12, tokens : Seq(Token)])
       /\ Len(shown') = Len(shown) + 1 /\ Len(shown) \in Nat
       /\ \A i \in 1..Len(shown) : shown'[i] = shown[i]
       /\ shown'[Len(shown) + 1] = new
  <2>1. shown' = Append(shown, new) /\ shown \in Seq([part : 0..12, tokens : Seq(Token)])
    BY DEF ShowToken, ScreenInv
  <2> HIDE DEF new
  <2> QED
    BY <1>11, <2>1, AppendProperties, LenProperties
<1>14. \A i \in 1..Len(shown') : Beside(shown'[i])
  <2>1. \A i \in 1..Len(shown) : Beside(shown[i])
    BY DEF ScreenInv
  <2> HIDE DEF new
  <2> QED
    BY <1>12, <1>13, <2>1
<1>15. FlattenSeq(TokensShown') \o wire' = m
  <2> DEFINE t == TokensShown
             u == TokensShown'
  <2>1. /\ t \in Seq(Seq(Token)) /\ Len(t) = Len(shown)
        /\ u \in Seq(Seq(Token)) /\ Len(u) = Len(shown) + 1
    <3>1. \A i \in 1..Len(shown) : shown[i].tokens \in Seq(Token)
      <4> DEFINE Shown == [part : 0..12, tokens : Seq(Token)]
      <4>1. shown \in Seq(Shown)
        BY DEF ScreenInv
      <4>2. \A i \in 1..Len(shown) : shown[i] \in Shown
        BY <4>1, ElementOfSeq
      <4> QED
        BY <4>2
    <3>2. \A i \in 1..Len(shown') : shown'[i].tokens \in Seq(Token)
      <4> DEFINE Shown == [part : 0..12, tokens : Seq(Token)]
      <4>1. shown' \in Seq(Shown)
        BY <1>13
      <4>2. \A i \in 1..Len(shown') : shown'[i] \in Shown
        BY <4>1, ElementOfSeq
      <4> QED
        BY <4>2
    <3>3. t \in [1..Len(shown) -> Seq(Token)] /\ u \in [1..(Len(shown) + 1) -> Seq(Token)]
      BY <1>13, <3>1, <3>2 DEF TokensShown
    <3>4. Len(shown) \in Nat /\ Len(shown) + 1 \in Nat
      BY <1>13
    <3> HIDE DEF t, u
    <3> QED
      BY <3>3, <3>4, FunctionIsSeq
  <2>2. (\A i \in 1..Len(shown) : u[i] = t[i]) /\ u[Len(shown) + 1] = head
    BY <1>13 DEF TokensShown
  <2> HIDE DEF t, u, head, rest, m
  <2>3. u = Append(t, head)
    <3>1. /\ Append(t, head) \in Seq(Seq(Token)) /\ Len(Append(t, head)) = Len(shown) + 1
          /\ \A i \in 1..Len(shown) : Append(t, head)[i] = t[i]
          /\ Append(t, head)[Len(shown) + 1] = head
      BY <1>6, <2>1, AppendProperties
    <3>2. \A i \in 1..(Len(shown) + 1) : u[i] = Append(t, head)[i]
      BY <1>13, <2>2, <3>1
    <3> QED
      BY <2>1, <3>1, <3>2, SeqEqual
  <2>4. FlattenSeq(u) = IF t = <<>> THEN head ELSE FlattenSeq(t) \o head
    BY <1>6, <2>1, <2>3, FlattenAppend
  <2>5. FlattenSeq(t) \in Seq(Token)
    BY <2>1, FlattenType
  <2>6. CASE shown = <<>>
    <3>1. t = <<>>
      BY <2>1, <2>6, EmptySeq
    <3>2. wire = m
      BY <1>2, <2>6 DEF ScreenInv, m
    <3> QED
      BY <1>8, <1>9, <2>4, <3>1, <3>2 DEF u
  <2>7. CASE shown # <<>>
    <3>1. t # <<>>
      BY <2>1, <2>7, EmptySeq DEF ScreenInv
    <3>2. FlattenSeq(t) \o wire = m
      BY <2>7 DEF ScreenInv, m, t
    <3>3. (FlattenSeq(t) \o head) \o rest = FlattenSeq(t) \o (head \o rest)
      <4>1. head \in Seq(Token) /\ rest \in Seq(Token)
        BY <1>6, <1>7
      <4> QED
        BY <2>5, <4>1, ConcatAssociative
    <3> QED
      BY <1>8, <1>9, <2>4, <3>1, <3>2, <3>3 DEF u
  <2> QED
    BY <2>6, <2>7
<1>16. rest # <<>> =>
         /\ Len(rest) <= n
         /\ \A i \in 1..Len(rest) : rest[i] = m[n - Len(rest) + i]
         /\ Stands(part', n - Len(rest))
  <2> SUFFICES ASSUME rest # <<>>
               PROVE  /\ Len(rest) <= n
                      /\ \A i \in 1..Len(rest) : rest[i] = m[n - Len(rest) + i]
                      /\ Stands(part', n - Len(rest))
    OBVIOUS
  <2>1. Len(rest) \in Nat /\ Len(rest) # 0
    BY <1>7, EmptySeq
  <2> HIDE DEF rest, m, n, w
  <2>2. n - Len(rest) = k + Taken /\ k + Taken < n
    BY <1>2, <1>5, <1>7, <2>1
  <2>3. ASSUME NEW i \in 1..Len(rest) PROVE rest[i] = m[n - Len(rest) + i]
    <3>1. rest[i] = wire[Taken + i] /\ Taken + i \in 1..w
      BY <1>2, <1>5, <1>7
    <3>2. wire[Taken + i] = m[k + (Taken + i)]
      BY <1>2, <3>1
    <3>3. k + (Taken + i) = n - Len(rest) + i
      <4>1. n \in Nat /\ k \in Nat /\ Taken \in Nat /\ i \in Nat
        BY <1>2, <1>3, <1>5, <2>1
      <4> HIDE DEF k
      <4> QED
        BY <2>1, <2>2, <4>1
    <3> QED
      BY <3>1, <3>2, <3>3
  <2> QED
    BY <1>2, <1>4, <1>5, <2>1, <2>2, <2>3
<1>17. pc["parent"] = "select" /\ over' \in BOOLEAN
  BY <1>2 DEF ScreenInv, ShowToken
<1>18. rest # <<>> =>
         /\ Len(wire') <= Len(Message')
         /\ \A i \in 1..Len(wire') : wire'[i] = Message'[Len(Message') - Len(wire') + i]
         /\ Stands(part, Len(Message) - Len(wire))'
  BY <1>8, <1>10, <1>16 DEF Stands
<1> HIDE DEF m, n, w, k, head, rest, new
<1> QED
  BY <1>4, <1>7, <1>8, <1>10, <1>13, <1>14, <1>15, <1>17, <1>18 DEF ScreenInv, Beside

(* Every step keeps what the screen shows true.                            *)
LEMMA ScreenNext ==
  ASSUME RecordInv, ScreenInv, [Next]_vars
  PROVE  ScreenInv'
<1>1. lines \in Seq(Lines) /\ lines' \in Seq(Lines)
  BY TypeStep DEF RecordInv, ServerType, Lines
<1>2. CASE ShowToken
  BY <1>1, <1>2, ScreenShow
<1>3. CASE HandleShowRecord
  <2>1. wire' = <<>> /\ shown' = <<>> /\ part' = part /\ over' = over
    BY <1>3 DEF HandleShowRecord
  <2>2. /\ wire' \in Seq(Token) /\ shown' \in Seq([part : 0..12, tokens : Seq(Token)])
        /\ Len(shown') = 0
    BY <2>1, EmptySeq
  <2>3. \A i \in 1..Len(shown') : Beside(shown[i])'
    BY <2>2
  <2> QED
    BY <2>1, <2>2, <2>3 DEF ScreenInv
<1>4. CASE ReplyMsg
  <2>1. wire' = Message /\ part' = 0 /\ pc["parent"] = "reply"
        /\ UNCHANGED <<over, shown, lines, closing>>
    BY <1>4 DEF ReplyMsg, record
  <2>2. shown = <<>> /\ Len(shown) = 0 /\ shown' = <<>>
    BY <2>1, EmptySeq DEF ScreenInv
  <2>3. Message \in Seq(Token) /\ Message' = Message
    BY <1>1, <2>1, MessageLaid DEF Message
  <2>4. /\ Len(Message) \in Nat
        /\ \A i \in 1..Len(Message) : Message[i] = Message[Len(Message) - Len(Message) + i]
    BY <2>3, LenProperties
  <2>5. Stands(0, 0)'
    BY DEF Stands
  <2>6. Len(Message) - Len(Message) = 0
    BY <2>4
  <2>7. \A i \in 1..Len(shown') : Beside(shown[i])'
    BY <2>2
  <2>8. pc'["parent"] = "select"
    BY <1>4 DEF ReplyMsg, Goto, RecordInv, ServerType, Procs
  <2> QED
    BY <2>1, <2>2, <2>3, <2>4, <2>5, <2>6, <2>7, <2>8 DEF ScreenInv
<1>5. ASSUME UNCHANGED <<over, wire, part, shown>>,
             \/ UNCHANGED <<lines, closing>> /\ pc'["parent"] = pc["parent"]
             \/ pc["parent"] # "select"
      PROVE  ScreenInv'
  <2>1. CASE pc["parent"] # "select"
    <3>1. wire = <<>> /\ shown = <<>> /\ wire' = <<>> /\ shown' = <<>>
      BY <1>5, <2>1 DEF ScreenInv
    <3>2. \A i \in 1..Len(shown') : Beside(shown[i])'
      BY <1>5 DEF ScreenInv, Beside
    <3> QED
      BY <1>5, <3>1, <3>2 DEF ScreenInv
  <2>2. CASE UNCHANGED <<lines, closing>> /\ pc'["parent"] = pc["parent"]
    <3>1. Message' = Message /\ TokensShown' = TokensShown
      BY <1>5, <2>2 DEF Message, TokensShown
    <3>2. \A p, k : Stands(p, k)' <=> Stands(p, k)
      BY <2>2 DEF Stands, EndTail
    <3>3. \A i \in 1..Len(shown') : Beside(shown[i])'
      BY <1>5 DEF ScreenInv, Beside
    <3> QED
      BY <1>5, <2>2, <3>1, <3>2, <3>3 DEF ScreenInv
  <2> QED
    BY <1>5, <2>1, <2>2
<1>6. CASE \E p \in Procs : AccessEnd(p) \/ CheckTime(p) \/ CreateEnd(p) \/ WriteEnd(p)
  <2>1. UNCHANGED <<over, wire, part, shown>>
    BY <1>6 DEF AccessEnd, CheckTime, CreateEnd, WriteEnd, screen
  <2>2. UNCHANGED <<lines, closing>>
    BY <1>6 DEF AccessEnd, CheckTime, CreateEnd, WriteEnd, record
  <2>3. pc'["parent"] = pc["parent"] \/ pc["parent"] # "select"
    BY <1>6 DEF AccessEnd, CheckTime, CreateEnd, WriteEnd, Goto, RecordInv, ServerType, Procs
  <2> QED
    BY <1>5, <2>1, <2>2, <2>3
<1>7. CASE BidOrClose \/ CreateBid \/ WriteBid \/ KillChild
  <2>1. UNCHANGED <<over, wire, part, shown, lines, closing>> /\ pc'["parent"] = pc["parent"]
    BY <1>7 DEF BidOrClose, CreateBid, WriteBid, KillChild, Goto, screen, record, RecordInv,
                ServerType, Procs
  <2> QED
    BY <1>5, <2>1
<1>8. CASE ReadBid \/ EndOfBids \/ ReadEnd \/ CannotOpen
  <2>1. UNCHANGED <<over, wire, part, shown>> /\ pc["parent"] # "select"
    BY <1>8 DEF ReadBid, EndOfBids, ReadEnd, CannotOpen, screen
  <2> QED
    BY <1>5, <2>1
<1>9. CASE Expire
  <2>1. over' \in BOOLEAN /\ UNCHANGED <<wire, part, shown, lines, closing, pc>>
    BY <1>9 DEF Expire, screen, record
  <2>2. Message' = Message /\ TokensShown' = TokensShown
    BY <2>1 DEF Message, TokensShown
  <2>3. \A p, k : Stands(p, k)' <=> Stands(p, k)
    BY <2>1 DEF Stands, EndTail
  <2>4. \A i \in 1..Len(shown') : Beside(shown[i])'
    BY <2>1 DEF ScreenInv, Beside
  <2> QED
    BY <2>1, <2>2, <2>3, <2>4 DEF ScreenInv
<1>10. CASE UNCHANGED vars
  <2>1. UNCHANGED <<over, wire, part, shown, lines, closing>> /\ pc'["parent"] = pc["parent"]
    BY <1>10 DEF vars, screen, record
  <2> QED
    BY <1>5, <2>1
<1> QED
  BY Steps, <1>2, <1>3, <1>4, <1>6, <1>7, <1>8, <1>9, <1>10

(* The screen and the server's answer, in every reachable state.           *)
LEMMA ScreenInvariant == Spec => [](RecordInv /\ ScreenInv)
<1>1. RecordInv /\ ScreenInv /\ [Next]_vars => (RecordInv /\ ScreenInv)'
  BY ScreenNext, TypeStep, OfferStep, LinesStep, ClosedStep DEF RecordInv
<1> QED
  BY <1>1, InitRecord, ScreenInit, PTL DEF Spec

(* Every variable has its type, for any number of bids and any faults: the *)
(* client shows no part that the protocol does not have.                   *)
THEOREM RecordTypeCorrect == Spec => []TypeOK
<1>1. ASSUME RecordInv, ScreenInv PROVE TypeOK
  BY <1>1 DEF RecordInv, ServerType, ScreenInv, TypeOK
<1> QED
  BY <1>1, ScreenInvariant, PTL

(* For any number of bids, whatever the server makes of them, each part of *)
(* the answer stands beside its own label and nothing is left out.         *)
THEOREM AlwaysShownAsSent == Spec => []ShownAsSent
<1>1. ASSUME ScreenInv PROVE ShownAsSent
  <2>1. \A s \in Range(shown) : Beside(s)
    <3>1. DOMAIN shown = 1..Len(shown)
      BY <1>1, LenProperties DEF ScreenInv
    <3> QED
      BY <1>1, <3>1 DEF ScreenInv, Range
  <2> QED
    BY <1>1, <2>1 DEF ScreenInv, ShownAsSent, Beside, TokensShown
<1> QED
  BY <1>1, ScreenInvariant, PTL
===============================================================================
