-------------------------- MODULE AssetTransferProofs --------------------------
(***************************************************************************)
(* A file that is taken for received is the file: proofs for all sizes.    *)
(***************************************************************************)
EXTENDS AssetTransferProperties, SequenceTheorems, TLAPS

(* Who plays which part, and how much the receiver has read where it is.   *)
PartsInv ==
  /\ op = "OPA" => /\ client \in {"send", "wait", "done", "gone"}
                   /\ child \in {"queue", "serve", "store", "last", "done", "gone"}
                   /\ fetched = FALSE
  /\ op = "SAS" => /\ client \in {"wait", "store", "last", "done", "gone"}
                   /\ child \in {"queue", "serve", "send", "done", "gone"}
                   /\ reply # "OK"
  /\ child \in {"queue", "serve"} => got = 0
  /\ client = "wait" /\ op = "SAS" => got = 0
  /\ child = "store" \/ client = "store" => got >= 1 /\ got <= Size
  /\ child = "last" \/ client = "last" => got = 1 + Size
  /\ child \in {"queue", "serve"} /\ op = "SAS" => sent = 0

SuccessInv ==
  /\ reply = "OK" => op = "OPA" /\ got = 1 + Size
  /\ fetched => op = "SAS" /\ got = 1 + Size /\ client \in {"done", "gone"}
  /\ reply = "OK" => child = "done"
  /\ told = "opened" /\ ~stale => reply = "OK"

TransferInv == TypeOK /\ PartsInv /\ SuccessInv
-------------------------------------------------------------------------------
(* Operators.                                                              *)

(* The request never changes, and with it the length of the stream.        *)
LEMMA StreamFixed ==
  ASSUME TypeOK
  PROVE  /\ Size \in Nat /\ Length \in Nat /\ body \in Nat
         /\ sent \in Nat /\ got \in Nat /\ got <= sent /\ sent <= Length
         /\ UNCHANGED request =>
              /\ UNCHANGED <<op, asset, body, stale>>
              /\ Size' = Size /\ Length' = Length
<1>1. Size \in Nat
  BY LenProperties DEF TypeOK, Size
<1>2. body \in Nat /\ Length \in Nat
  BY <1>1 DEF TypeOK, Length, Newlines
<1>3. sent \in Nat /\ got \in Nat /\ got <= sent /\ sent <= Length
  BY <1>2 DEF TypeOK
<1>4. ASSUME UNCHANGED request
      PROVE  /\ UNCHANGED <<op, asset, body, stale>>
             /\ Size' = Size /\ Length' = Length
  BY <1>4 DEF request, Size, Length, Newlines
<1> QED
  BY <1>1, <1>2, <1>3, <1>4

(* A write stays within the stream and within the buffers.                 *)
LEMMA Written ==
  ASSUME TypeOK, NEW n \in 1..Capacity, Write(n), sent' = sent + n,
         UNCHANGED request, UNCHANGED got
  PROVE  sent' \in 0..Length' /\ got' \in 0..sent' /\ Arrived' <= Capacity
<1>1. /\ Length \in Nat /\ sent \in Nat /\ got \in Nat /\ got <= sent
      /\ Length' = Length
  BY StreamFixed
<1> QED
  BY <1>1, TransferAssumption DEF Write, Arrived

(* A read takes no more than has arrived and than the file needs.          *)
LEMMA ReadOn ==
  ASSUME TypeOK, got >= 1, got <= Size, Read, UNCHANGED request, UNCHANGED sent
  PROVE  /\ got' \in 0..sent' /\ Arrived' <= Capacity /\ first' \in Bytes
         /\ got' >= 1 /\ got' <= 1 + Size
<1>1. /\ Size \in Nat /\ sent \in Nat /\ got \in Nat /\ got <= sent
  BY StreamFixed
<1>2. PICK n \in 1..Chunk :
        n <= Arrived /\ n <= Size - (got - 1) /\ got' = got + n /\ first' = Item(got + 1)
  BY DEF Read
<1>3. n \in Nat /\ n >= 1
  BY <1>2, TransferAssumption
<1>4. got' \in 0..sent' /\ Arrived' <= Capacity /\ got' >= 1 /\ got' <= 1 + Size
  BY <1>1, <1>2, <1>3, TransferAssumption DEF Arrived, TypeOK
<1>5. Item(got + 1) \in Bytes
  <2>1. asset \in Seq(Bytes) /\ body \in Nat /\ body <= Size
    BY <1>1 DEF TypeOK
  <2>2. CASE got <= body
    <3>1. asset[got] \in Bytes
      BY <1>1, <2>1, <2>2, ElementOfSeq DEF Size
    <3>2. Item(got + 1) = asset[got]
      BY <1>1, <2>1, <2>2 DEF Item
    <3> QED
      BY <3>1, <3>2
  <2>3. CASE got > body
    BY <1>1, <2>1, <2>3 DEF Item, Bytes
  <2> QED
    BY <1>1, <2>1, <2>2, <2>3
<1> QED
  BY <1>2, <1>4, <1>5

(* Where a read of n items leads the receiver.                             *)
LEMMA ReadLeads ==
  ASSUME TypeOK, NEW n \in Nat, n >= 1, n <= 1 + Size
  PROVE  /\ NextState(n) \in {"store", "last"}
         /\ NextState(n) = "store" => n <= Size
         /\ NextState(n) = "last" => n = 1 + Size
<1>1. Size \in Nat
  BY StreamFixed
<1> QED
  BY <1>1 DEF NextState, Complete

-------------------------------------------------------------------------------
(* The invariant.                                                          *)

(* Counts that a step leaves alone stay in their bounds.                   *)
LEMMA CountsKept ==
  ASSUME TypeOK, UNCHANGED <<request, sent, got, first>>
  PROVE  /\ sent' \in 0..Length' /\ got' \in 0..sent' /\ Arrived' <= Capacity
         /\ first' \in Bytes
<1>1. Length' = Length
  BY StreamFixed
<1> QED
  BY <1>1 DEF TypeOK, Arrived

(* The client of open: it sends, and reads the answer or gives up.         *)
LEMMA ClientSends ==
  ASSUME TransferInv, ClientSend \/ ClientReply \/ ClientNoReply
  PROVE  TransferInv'
<1>1. TypeOK /\ PartsInv /\ SuccessInv
  BY DEF TransferInv
<1>2. UNCHANGED request
  BY DEF ClientSend, ClientReply, ClientNoReply
<1>3. /\ Size \in Nat /\ Length \in Nat /\ sent \in Nat /\ got \in Nat
      /\ UNCHANGED <<op, asset, body, stale>> /\ Size' = Size /\ Length' = Length
  BY <1>1, <1>2, StreamFixed
<1>4. CASE ClientSend
  <2>1. /\ sent' \in 0..Length' /\ got' \in 0..sent' /\ Arrived' <= Capacity
        /\ first' \in Bytes
    BY <1>1, <1>2, <1>4, Written DEF ClientSend, TypeOK
  <2>2. TypeOK' /\ PartsInv' /\ SuccessInv'
    BY <1>1, <1>3, <1>4, <2>1 DEF ClientSend, TypeOK, PartsInv, SuccessInv
  <2> QED
    BY <2>2 DEF TransferInv
<1>5. CASE ClientReply
  <2>1. /\ sent' \in 0..Length' /\ got' \in 0..sent' /\ Arrived' <= Capacity
        /\ first' \in Bytes
    BY <1>1, <1>2, <1>5, CountsKept DEF ClientReply
  <2>2. TypeOK' /\ PartsInv' /\ SuccessInv'
    BY <1>1, <1>3, <1>5, <2>1 DEF ClientReply, TypeOK, PartsInv, SuccessInv
  <2> QED
    BY <2>2 DEF TransferInv
<1>6. CASE ClientNoReply
  <2>1. /\ sent' \in 0..Length' /\ got' \in 0..sent' /\ Arrived' <= Capacity
        /\ first' \in Bytes
    BY <1>1, <1>2, <1>6, CountsKept DEF ClientNoReply
  <2>2. TypeOK' /\ PartsInv' /\ SuccessInv'
    BY <1>1, <1>3, <1>6, <2>1 DEF ClientNoReply, TypeOK, PartsInv, SuccessInv
  <2> QED
    BY <2>2 DEF TransferInv
<1> QED
  BY <1>4, <1>5, <1>6

(* The client of show_asset.                                              *)
LEMMA ClientStores ==
  ASSUME TransferInv, ClientFields \/ ClientStore \/ ClientStoreFails \/ ClientLast
  PROVE  TransferInv'
<1>1. TypeOK /\ PartsInv /\ SuccessInv
  BY DEF TransferInv
<1>2. UNCHANGED request
  BY DEF ClientFields, ClientStore, ClientStoreFails, ClientLast
<1>3. /\ Size \in Nat /\ Length \in Nat /\ sent \in Nat /\ got \in Nat
      /\ UNCHANGED <<op, asset, body, stale>> /\ Size' = Size /\ Length' = Length
  BY <1>1, <1>2, StreamFixed
<1>4. CASE ClientFields
  <2>1. /\ sent' \in 0..Length' /\ got' \in 0..sent' /\ Arrived' <= Capacity
        /\ first' \in Bytes
    BY <1>1, <1>3, <1>4, TransferAssumption DEF ClientFields, Shown, TypeOK, PartsInv, Arrived
  <2>2. /\ NextState(1) \in {"store", "last"}
        /\ NextState(1) = "store" => 1 <= Size
        /\ NextState(1) = "last" => 1 = 1 + Size
    BY <1>1, <1>3, ReadLeads
  <2>3. TypeOK'
    BY <1>1, <1>3, <1>4, <2>1, <2>2 DEF ClientFields, Shown, TypeOK
  <2>4. PartsInv'
    BY <1>1, <1>3, <1>4, <2>1, <2>2 DEF ClientFields, Shown, TypeOK, PartsInv
  <2>5. SuccessInv'
    <3>1. ~fetched /\ ~fetched' /\ reply # "OK" /\ reply' = reply /\ (told' = "opened" => told = "opened")
      BY <1>1, <1>4 DEF ClientFields, Shown, TypeOK, PartsInv, SuccessInv
    <3> QED
      BY <1>1, <1>3, <3>1 DEF SuccessInv
  <2> QED
    BY <2>3, <2>4, <2>5 DEF TransferInv
<1>5. CASE ClientStore
  <2>1. /\ got >= 1 /\ got <= Size
        /\ got' \in 0..sent' /\ Arrived' <= Capacity /\ first' \in Bytes
        /\ got' >= 1 /\ got' <= 1 + Size
    BY <1>1, <1>2, <1>5, ReadOn DEF ClientStore, PartsInv
  <2>2. /\ NextState(got') \in {"store", "last"}
        /\ NextState(got') = "store" => got' <= Size
        /\ NextState(got') = "last" => got' = 1 + Size
    BY <1>1, <1>3, <2>1, ReadLeads DEF TypeOK
  <2>3. TypeOK' /\ PartsInv' /\ SuccessInv'
    BY <1>1, <1>3, <1>5, <2>1, <2>2 DEF ClientStore, TypeOK, PartsInv, SuccessInv
  <2> QED
    BY <2>3 DEF TransferInv
<1>6. CASE ClientStoreFails
  <2>1. /\ sent' \in 0..Length' /\ got' \in 0..sent' /\ Arrived' <= Capacity
        /\ first' \in Bytes
    BY <1>1, <1>2, <1>6, CountsKept DEF ClientStoreFails, Shown
  <2>2. TypeOK' /\ PartsInv' /\ SuccessInv'
    BY <1>1, <1>3, <1>6, <2>1 DEF ClientStoreFails, Shown, TypeOK, PartsInv, SuccessInv
  <2> QED
    BY <2>2 DEF TransferInv
<1>7. CASE ClientLast
  <2>1. /\ sent' \in 0..Length' /\ got' \in 0..sent' /\ Arrived' <= Capacity
        /\ first' \in Bytes
    BY <1>1, <1>2, <1>7, CountsKept DEF ClientLast, Shown
  <2>2. TypeOK' /\ PartsInv' /\ SuccessInv'
    BY <1>1, <1>3, <1>7, <2>1 DEF ClientLast, Shown, TypeOK, PartsInv, SuccessInv
  <2> QED
    BY <2>2 DEF TransferInv
<1> QED
  BY <1>4, <1>5, <1>6, <1>7

(* The child that serves open.                                            *)
LEMMA ChildStores ==
  ASSUME TransferInv, ChildOpen \/ ChildStore \/ ChildStoreFails \/ ChildLast
  PROVE  TransferInv'
<1>1. TypeOK /\ PartsInv /\ SuccessInv
  BY DEF TransferInv
<1>2. UNCHANGED request
  BY DEF ChildOpen, ChildStore, ChildStoreFails, ChildLast
<1>3. /\ Size \in Nat /\ Length \in Nat /\ sent \in Nat /\ got \in Nat
      /\ UNCHANGED <<op, asset, body, stale>> /\ Size' = Size /\ Length' = Length
  BY <1>1, <1>2, StreamFixed
<1>4. CASE ChildOpen
  <2>1. /\ sent' \in 0..Length' /\ got' \in 0..sent' /\ Arrived' <= Capacity
        /\ first' \in Bytes
    BY <1>1, <1>3, <1>4, TransferAssumption DEF ChildOpen, TypeOK, PartsInv, Arrived
  <2>2. /\ NextState(1) \in {"store", "last"}
        /\ NextState(1) = "store" => 1 <= Size
        /\ NextState(1) = "last" => 1 = 1 + Size
    BY <1>1, <1>3, ReadLeads
  <2>3. TypeOK' /\ PartsInv' /\ SuccessInv'
    BY <1>1, <1>3, <1>4, <2>1, <2>2 DEF ChildOpen, Answer, TypeOK, PartsInv, SuccessInv
  <2> QED
    BY <2>3 DEF TransferInv
<1>5. CASE ChildStore
  <2>1. /\ got >= 1 /\ got <= Size
        /\ got' \in 0..sent' /\ Arrived' <= Capacity /\ first' \in Bytes
        /\ got' >= 1 /\ got' <= 1 + Size
    BY <1>1, <1>2, <1>5, ReadOn DEF ChildStore, PartsInv
  <2>2. /\ NextState(got') \in {"store", "last"}
        /\ NextState(got') = "store" => got' <= Size
        /\ NextState(got') = "last" => got' = 1 + Size
    BY <1>1, <1>3, <2>1, ReadLeads DEF TypeOK
  <2>3. TypeOK' /\ PartsInv' /\ SuccessInv'
    BY <1>1, <1>3, <1>5, <2>1, <2>2 DEF ChildStore, TypeOK, PartsInv, SuccessInv
  <2> QED
    BY <2>3 DEF TransferInv
<1>6. CASE ChildStoreFails
  <2>1. /\ sent' \in 0..Length' /\ got' \in 0..sent' /\ Arrived' <= Capacity
        /\ first' \in Bytes
    BY <1>1, <1>2, <1>6, CountsKept DEF ChildStoreFails, Answer
  <2>2. TypeOK' /\ PartsInv' /\ SuccessInv'
    BY <1>1, <1>3, <1>6, <2>1 DEF ChildStoreFails, Answer, TypeOK, PartsInv, SuccessInv
  <2> QED
    BY <2>2 DEF TransferInv
<1>7. CASE ChildLast
  <2>1. /\ sent' \in 0..Length' /\ got' \in 0..sent' /\ Arrived' <= Capacity
        /\ first' \in Bytes
    BY <1>1, <1>2, <1>7, CountsKept DEF ChildLast, Answer
  <2>2. TypeOK' /\ PartsInv' /\ SuccessInv'
    BY <1>1, <1>3, <1>7, <2>1 DEF ChildLast, Answer, TypeOK, PartsInv, SuccessInv
  <2> QED
    BY <2>2 DEF TransferInv
<1> QED
  BY <1>4, <1>5, <1>6, <1>7

(* The child that serves show_asset.                                      *)
LEMMA ChildSends ==
  ASSUME TransferInv, ChildShow \/ ChildSend
  PROVE  TransferInv'
<1>1. TypeOK /\ PartsInv /\ SuccessInv
  BY DEF TransferInv
<1>2. UNCHANGED request
  BY DEF ChildShow, ChildSend
<1>3. /\ Size \in Nat /\ Length \in Nat /\ sent \in Nat /\ got \in Nat
      /\ UNCHANGED <<op, asset, body, stale>> /\ Size' = Size /\ Length' = Length
  BY <1>1, <1>2, StreamFixed
<1>4. CASE ChildShow
  <2>1. /\ sent' \in 0..Length' /\ got' \in 0..sent' /\ Arrived' <= Capacity
        /\ first' \in Bytes
    BY <1>1, <1>2, <1>4, CountsKept DEF ChildShow, Answer
  <2>2. TypeOK' /\ PartsInv' /\ SuccessInv'
    BY <1>1, <1>3, <1>4, <2>1 DEF ChildShow, Answer, TypeOK, PartsInv, SuccessInv
  <2> QED
    BY <2>2 DEF TransferInv
<1>5. CASE ChildSend
  <2>1. /\ sent' \in 0..Length' /\ got' \in 0..sent' /\ Arrived' <= Capacity
        /\ first' \in Bytes
    <3>1. CASE client = "gone"
      BY <1>1, <1>2, <1>5, <3>1, CountsKept DEF ChildSend
    <3>2. CASE client # "gone"
      BY <1>1, <1>2, <1>5, <3>2, Written DEF ChildSend, TypeOK
    <3> QED
      BY <3>1, <3>2
  <2>2. TypeOK' /\ PartsInv' /\ SuccessInv'
    BY <1>1, <1>3, <1>5, <2>1 DEF ChildSend, TypeOK, PartsInv, SuccessInv
  <2> QED
    BY <2>2 DEF TransferInv
<1> QED
  BY <1>4, <1>5

(* The child's turn comes, or either side ends before the other.           *)
LEMMA OtherSteps ==
  ASSUME TransferInv, ChildLocks \/ ClientLeaves \/ KillChild
  PROVE  TransferInv'
<1>1. TypeOK /\ PartsInv /\ SuccessInv
  BY DEF TransferInv
<1>2. UNCHANGED request
  BY DEF ChildLocks, ClientLeaves, KillChild
<1>3. /\ Size \in Nat /\ Length \in Nat /\ sent \in Nat /\ got \in Nat
      /\ UNCHANGED <<op, asset, body, stale>> /\ Size' = Size /\ Length' = Length
  BY <1>1, <1>2, StreamFixed
<1>4. CASE ClientLeaves
  <2>1. /\ sent' \in 0..Length' /\ got' \in 0..sent' /\ Arrived' <= Capacity
        /\ first' \in Bytes
    BY <1>1, <1>2, <1>4, CountsKept DEF ClientLeaves
  <2>2. TypeOK' /\ PartsInv' /\ SuccessInv'
    BY <1>1, <1>3, <1>4, <2>1 DEF ClientLeaves, TypeOK, PartsInv, SuccessInv
  <2> QED
    BY <2>2 DEF TransferInv
<1>5. CASE KillChild
  <2>1. /\ sent' \in 0..Length' /\ got' \in 0..sent' /\ Arrived' <= Capacity
        /\ first' \in Bytes
    BY <1>1, <1>2, <1>5, CountsKept DEF KillChild
  <2>2. TypeOK' /\ PartsInv' /\ SuccessInv'
    BY <1>1, <1>3, <1>5, <2>1 DEF KillChild, TypeOK, PartsInv, SuccessInv
  <2> QED
    BY <2>2 DEF TransferInv
<1>6. CASE ChildLocks
  <2>1. /\ sent' \in 0..Length' /\ got' \in 0..sent' /\ Arrived' <= Capacity
        /\ first' \in Bytes
    BY <1>1, <1>2, <1>6, CountsKept DEF ChildLocks
  <2>2. TypeOK' /\ PartsInv' /\ SuccessInv'
    BY <1>1, <1>3, <1>6, <2>1 DEF ChildLocks, TypeOK, PartsInv, SuccessInv
  <2> QED
    BY <2>2 DEF TransferInv
<1> QED
  BY <1>4, <1>5, <1>6

(* Nothing is read or written when the user types the command.             *)
LEMMA TransferInit ==
  ASSUME Init
  PROVE  TransferInv
<1>1. asset \in Seq(Bytes) /\ Size \in Nat
  <2>1. PICK n \in MinSize..MaxSize : asset \in [1..n -> Bytes]
    BY DEF Init
  <2>2. n \in Nat
    BY <2>1, TransferAssumption DEF MinSize
  <2>3. asset \in Seq(Bytes)
    BY <2>1, <2>2, SeqDef
  <2> QED
    BY <2>3, LenProperties DEF Size
<1>2. body \in 0..Size /\ Length \in Nat
  BY <1>1 DEF Init, Length, Newlines
<1>3. TypeOK
  <2>1. sent \in 0..Length /\ got \in 0..sent /\ Arrived <= Capacity
    BY <1>2, TransferAssumption DEF Init, Arrived
  <2> QED
    BY <1>1, <1>2, <2>1 DEF Init, TypeOK
<1>4. PartsInv /\ SuccessInv
  BY DEF Init, PartsInv, SuccessInv
<1> QED
  BY <1>3, <1>4 DEF TransferInv

(* Every step keeps the invariant.                                         *)
LEMMA TransferNext ==
  ASSUME TransferInv, [Next]_vars
  PROVE  TransferInv'
<1>1. CASE ClientStep
  BY <1>1, ClientSends, ClientStores DEF ClientStep
<1>2. CASE ChildStep
  BY <1>2, ChildStores, ChildSends DEF ChildStep
<1>3. CASE ChildLocks \/ ClientLeaves \/ KillChild
  BY <1>3, OtherSteps
<1>4. CASE UNCHANGED vars
  <2>1. UNCHANGED <<op, asset, body, stale>> /\ Size' = Size /\ Length' = Length
    BY <1>4, StreamFixed DEF vars, TransferInv
  <2> QED
    BY <1>4, <2>1 DEF vars, TransferInv, TypeOK, PartsInv, SuccessInv, Arrived
<1> QED
  BY <1>1, <1>2, <1>3, <1>4 DEF Next

(* It holds always.                                                        *)
LEMMA TransferInvariant == Spec => []TransferInv
<1>1. Init => TransferInv
  BY TransferInit
<1>2. TransferInv /\ [Next]_vars => TransferInv'
  BY TransferNext
<1> QED
  BY <1>1, <1>2, PTL DEF Spec
-------------------------------------------------------------------------------
(* The theorems.                                                           *)

(* Whoever has read Size bytes misses at most as many as there are         *)
(* newlines, and none of an asset that was sent as told.                   *)
LEMMA ReadIsHeld ==
  ASSUME TypeOK, got = 1 + Size
  PROVE  HoldsAllBut(IF Sound THEN 0 ELSE Newlines)
<1>1. /\ Size \in Nat /\ body \in Nat /\ got <= Length
  BY StreamFixed
<1>2. Size - body <= Newlines /\ Newlines \in Nat
  BY <1>1 DEF Length, Newlines
<1>3. \A i \in 1..Size : i <= body => Item(i + 1) = asset[i]
  BY <1>1 DEF Item
<1>4. CASE Sound
  BY <1>1, <1>3, <1>4 DEF Sound, HoldsAllBut
<1>5. CASE ~Sound
  BY <1>1, <1>2, <1>3, <1>5 DEF HoldsAllBut
<1> QED
  BY <1>4, <1>5

(* TypeOK, with the bounds of the counts, for any sizes and faults.        *)
THEOREM TransferTypeCorrect == Spec => []TypeOK
<1>1. TransferInv => TypeOK
  BY DEF TransferInv
<1> QED
  BY <1>1, TransferInvariant, PTL

(* The server says OK only of an asset that it has stored, for any sizes   *)
(* of the asset, of the socket buffers and of the pieces that are read.    *)
THEOREM AcceptedMeansStored == Spec => []AcceptedIsStored
<1>1. ASSUME TransferInv
      PROVE  AcceptedIsStored
  <2>1. ASSUME reply = "OK"
        PROVE  got = 1 + Size /\ Newlines = 1
    BY <1>1, <2>1 DEF TransferInv, SuccessInv, Newlines
  <2> QED
    BY <1>1, <2>1, ReadIsHeld DEF TransferInv, AcceptedIsStored
<1> QED
  BY <1>1, TransferInvariant, PTL

(* The same of read_file at the client.                                    *)
THEOREM FetchedMeansStored == Spec => []FetchedIsStored
<1>1. ASSUME TransferInv
      PROVE  FetchedIsStored
  <2>1. ASSUME fetched
        PROVE  got = 1 + Size /\ Newlines = 2
    BY <1>1, <2>1 DEF TransferInv, SuccessInv, Newlines
  <2> QED
    BY <1>1, <2>1, ReadIsHeld DEF TransferInv, FetchedIsStored
<1> QED
  BY <1>1, TransferInvariant, PTL

(* What the user of open is told of a new auction is so.                   *)
THEOREM OpenedMeansStored == Spec => []OpenedIsStored
<1>1. ASSUME TransferInv
      PROVE  OpenedIsStored
  BY <1>1, ReadIsHeld DEF TransferInv, SuccessInv, OpenedIsStored
<1> QED
  BY <1>1, TransferInvariant, PTL
===============================================================================
