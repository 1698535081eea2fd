----------------------------- MODULE AssetTransfer -----------------------------
(***************************************************************************)
(* The bytes of an asset on one TCP connection: open sends them to the     *)
(* child that serves it (OPA), show_asset asks for them (SAS).             *)
(*                                                                         *)
(* The message that carries the asset is a stream of items: the header,    *)
(* the bytes, and the newlines behind them.  What matters is how many the  *)
(* sender has written and the receiver has read, so the two counts are the *)
(* state of the connection; the difference is what the socket buffers      *)
(* hold.  When the server refuses, and what else it does, is in            *)
(* AuctionServer: here it may refuse anything.                             *)
(***************************************************************************)
EXTENDS Integers, Sequences, FiniteSets

CONSTANTS
  MaxSize,     \* bound: the bytes of an asset
  Capacity,    \* the items the socket buffers hold
  Chunk,       \* the bytes that one read asks for
  Faults       \* "slow": 5 seconds may pass while the other side is at work;
               \* "kill": the client or the child may be killed;
               \* "shrink": sendfile may find or send less than the size told;
               \* "fopen": the client may fail to create its file

(* The bytes that matter: the newline and any other.                       *)
Bytes == {"nl", "x"}

ASSUME TransferAssumption ==
  /\ MaxSize \in Nat \ {0}
  /\ Capacity \in Nat \ {0, 1}
  /\ Chunk \in Nat \ {0}
  /\ Faults \subseteq {"slow", "kill", "shrink", "fopen"}

VARIABLES
  op,          \* the request: "OPA" or "SAS"
  asset,       \* the file, as long as the header says it is
  body,        \* how many of its bytes sendfile sends
  stale,       \* client: openAuction's buffer still holds an earlier "ROA OK"
  client,      \* client: "send", "wait", "store", "last", "done" or "gone"
  child,       \* server: "queue", where it waits for the locks, "serve", "send",
               \* "store", "last", "done" or "gone"
  sent, got,   \* the items written to and read from the connection
  first,       \* receiver: buffer[0], where a read puts its first byte
  reply,       \* server: the status it has sent: "none", "OK" or "NOK"
  fetched,     \* client: read_file has returned the size, not 0
  told         \* client: what the user reads in the end

request == <<op, asset, body, stale>>
vars == <<request, client, child, sent, got, first, reply, fetched, told>>

Size == Len(asset)

-------------------------------------------------------------------------------
(* The stream.                                                             *)

(* connect_TCP writes one newline; send_auc_file one, handle_show_asset    *)
(* another.                                                                *)
Newlines == IF op = "OPA" THEN 1 ELSE 2

Length == 1 + body + Newlines

Item(i) == IF i = 1 THEN "header" ELSE IF i <= 1 + body THEN asset[i - 1] ELSE "nl"

Arrived == sent - got

(* Mutant: the counts of the two sides do not stop at the newlines.        *)
WriteBeyond(n) == n \in 1..(Capacity - Arrived)

(* One write: as much as is left and as the buffers take.                  *)
Write(n) == n \in 1..(Capacity - Arrived) /\ n <= Length - sent

(* Mutant: the file is complete when a byte is missing.                    *)
CompleteButOne(n) == n >= Size - 1

Complete(n) == n >= Size

(* One read of store_file or read_file: a chunk at most, and no more than  *)
(* the file still needs.                                                   *)
Read ==
  \E n \in 1..Chunk :
    /\ n <= Arrived
    /\ n <= Size - (got - 1)
    /\ got' = got + n
    /\ first' = Item(got + 1)

NextState(n) == IF Complete(n - 1) THEN "last" ELSE "store"

(* Mutant: a read that returns 0, at the end of the connection, is no      *)
(* failure.                                                                *)
SilentAlive(side) ==
  /\ Arrived = 0
  /\ side \notin {"done", "gone"}
  /\ side = "wait" \/ "slow" \in Faults

(* A read fails: the other side sends nothing more, or not within 5        *)
(* seconds.  Only the child may see the connection closed: the parent      *)
(* keeps a copy of the server's end open.                                  *)
Silent(side) ==
  /\ Arrived = 0
  /\ side \in {"wait", "done", "gone"} \/ "slow" \in Faults

(* The last read, of the newline, which is not counted: none comes after.  *)
(* If it fails, buffer[0] is as before.                                    *)
LastByte(side) ==
  {c \in Bytes : \/ Arrived > 0 /\ c = Item(got + 1)
                 \/ Silent(side) /\ c = first}

-------------------------------------------------------------------------------
(* Another child holds the locks until it is through, which may be never:  *)
(* how long this one waits for them is not its own doing.                  *)
ChildLocks ==
  /\ child = "queue"
  /\ child' = "serve"
  /\ UNCHANGED <<request, client, sent, got, first, reply, fetched, told>>

-------------------------------------------------------------------------------
(* open: the client sends, the child stores.                               *)

(* write_tcp of the header, sendfile, write of the newline.                *)
ClientSend ==
  /\ client = "send"
  /\ \E n \in 1..Capacity : Write(n) /\ sent' = sent + n
  /\ client' = IF sent' = Length THEN "wait" ELSE "send"
  /\ UNCHANGED <<request, child, got, first, reply, fetched, told>>

Answer(status) == reply' = status /\ child' = "done"

(* The child reads the header and answers a refusal, which                 *)
(* leaves the asset unread, or creates the auction and opens the file.     *)
ChildOpen ==
  /\ op = "OPA" /\ child = "serve"
  /\ \/ /\ sent >= 1
        /\ got' = 1
        /\ \/ Answer("NOK")
           \/ child' = NextState(1) /\ UNCHANGED reply
     \/ Silent(client) /\ Answer("NOK") /\ UNCHANGED got
  /\ UNCHANGED <<request, client, sent, first, fetched, told>>

ChildStore ==
  /\ op = "OPA" /\ child = "store"
  /\ Read
  /\ child' = NextState(got')
  /\ UNCHANGED <<request, client, sent, reply, fetched, told>>

(* Mutant: create_auction does not look at what store_file returns.        *)
ChildStoreFailsUnseen ==
  /\ op = "OPA" /\ child = "store"
  /\ Silent(client)
  /\ Answer("OK")
  /\ UNCHANGED <<request, client, sent, got, first, fetched, told>>

ChildStoreFails ==
  /\ op = "OPA" /\ child = "store"
  /\ Silent(client)
  /\ Answer("NOK")
  /\ UNCHANGED <<request, client, sent, got, first, fetched, told>>

ChildLast ==
  /\ op = "OPA" /\ child = "last"
  /\ \E c \in LastByte(client) : Answer(IF c = "nl" THEN "OK" ELSE "NOK")
  /\ UNCHANGED <<request, client, sent, got, first, fetched, told>>

ClientReply ==
  /\ op = "OPA" /\ client = "wait" /\ reply # "none"
  /\ told' = IF reply = "OK" THEN "opened" ELSE "refused"
  /\ client' = "done"
  /\ UNCHANGED <<request, child, sent, got, first, reply, fetched>>

(* The answer does not come in 5 seconds.  The buffer is parsed as it is:  *)
(* what an earlier open left there may pass for the answer to this one.    *)
ClientNoReply ==
  /\ op = "OPA" /\ client = "wait" /\ reply = "none"
  /\ child = "gone" \/ "slow" \in Faults
  /\ told' \in IF stale THEN {"opened", "error"} ELSE {"error"}
  /\ client' = "done"
  /\ UNCHANGED <<request, child, sent, got, first, reply, fetched>>

-------------------------------------------------------------------------------
(* show_asset: the child sends, the client stores.                         *)

ChildShow ==
  /\ op = "SAS" /\ child = "serve"
  /\ \/ Answer("NOK")
     \/ child' = "send" /\ UNCHANGED reply
  /\ UNCHANGED <<request, client, sent, got, first, fetched, told>>

(* write_tcp, sendfile, write, write_tcp: when the client has gone they    *)
(* fail, and the count of write_tcp, less than nothing, ends its loop.     *)
ChildSend ==
  /\ child = "send"
  /\ IF client = "gone" THEN child' = "done" /\ UNCHANGED sent
     ELSE /\ \E n \in 1..Capacity : Write(n) /\ sent' = sent + n
          /\ child' = IF sent' = Length THEN "done" ELSE "send"
  /\ UNCHANGED <<request, client, got, first, reply, fetched, told>>

(* showAsset prints its success whatever read_file returns, and returns    *)
(* with the socket open.                                                   *)
Shown(success) ==
  /\ fetched' = success
  /\ told' = "stored"
  /\ client' = "done"

ClientFields ==
  /\ op = "SAS" /\ client = "wait"
  /\ \/ /\ reply = "NOK"
        /\ told' = "refused" /\ client' = "done"
        /\ UNCHANGED <<got, fetched>>
     \/ /\ sent >= 1
        /\ got' = 1
        /\ \/ client' = NextState(1) /\ UNCHANGED <<fetched, told>>
           \/ "fopen" \in Faults /\ Shown(FALSE)
     \/ /\ reply = "none" /\ Silent(child)
        /\ told' = "error" /\ client' = "done"
        /\ UNCHANGED <<got, fetched>>
  /\ UNCHANGED <<request, child, sent, first, reply>>

ClientStore ==
  /\ op = "SAS" /\ client = "store"
  /\ Read
  /\ client' = NextState(got')
  /\ UNCHANGED <<request, child, sent, reply, fetched, told>>

ClientStoreFails ==
  /\ op = "SAS" /\ client = "store"
  /\ Silent(child)
  /\ Shown(FALSE)
  /\ UNCHANGED <<request, child, sent, got, first, reply>>

ClientLast ==
  /\ op = "SAS" /\ client = "last"
  /\ \E c \in LastByte(child) : Shown(c = "nl")
  /\ UNCHANGED <<request, child, sent, got, first, reply>>

-------------------------------------------------------------------------------
(* The client closes after open; after show_asset only when it exits.      *)
ClientLeaves ==
  /\ client \in {"send", "wait", "store", "last"} => "kill" \in Faults
  /\ client # "gone"
  /\ client' = "gone"
  /\ UNCHANGED <<request, child, sent, got, first, reply, fetched, told>>

KillChild ==
  /\ "kill" \in Faults
  /\ child \notin {"done", "gone"}
  /\ child' = "gone"
  /\ UNCHANGED <<request, client, sent, got, first, reply, fetched, told>>

(* getFileSize refuses an empty file; at the server there is one when an   *)
(* open broke off before the first byte.                                   *)
MinSize == IF op = "OPA" THEN 1 ELSE 0

Init ==
  /\ op \in {"OPA", "SAS"}
  /\ asset \in UNION {[1..n -> Bytes] : n \in MinSize..MaxSize}
  /\ body \in IF "shrink" \in Faults THEN 0..Size ELSE {Size}
  /\ stale \in BOOLEAN
  /\ client = IF op = "OPA" THEN "send" ELSE "wait"
  /\ child = "queue"
  /\ sent = 0 /\ got = 0
  /\ first \in Bytes
  /\ reply = "none" /\ fetched = FALSE /\ told = "nothing"

ClientStep ==
  \/ ClientSend \/ ClientReply \/ ClientNoReply
  \/ ClientFields \/ ClientStore \/ ClientStoreFails \/ ClientLast

ChildStep ==
  \/ ChildOpen \/ ChildStore \/ ChildStoreFails \/ ChildLast
  \/ ChildShow \/ ChildSend

Next == ClientStep \/ ChildLocks \/ ChildStep \/ ClientLeaves \/ KillChild

(* Whoever is not killed goes on: a timeout ends a read that would wait    *)
(* for ever.  Nothing ends the wait for the locks: ChildLocks is not part  *)
(* of ChildStep.                                                           *)
Fairness == WF_vars(ClientStep) /\ WF_vars(ChildStep)

Spec == Init /\ [][Next]_vars /\ Fairness
===============================================================================
