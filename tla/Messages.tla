------------------------------- MODULE Messages -------------------------------
(***************************************************************************)
(* The text of requests and listings: what the user types, how the client  *)
(* formats it, how the server reads it back, and how the client reads a    *)
(* list of auctions.  What else the server does is in AuctionServer.       *)
(*                                                                         *)
(* Characters matter here, but few of them, and sizes are scaled down: a   *)
(* number has Base digits to choose from, an AID AidSize of them.  The     *)
(* command and the status are one character each.  LOU and UNR are read    *)
(* like LIN, LMB like LMA.                                                 *)
(***************************************************************************)
EXTENDS Integers, Sequences, SequencesExt, FiniteSetsExt

CONSTANTS
  Base,        \* the digits: 10 in the program
  AidSize,     \* the digits of an AID: 3
  ValueSize,   \* of a bid or start value: 6
  TimeSize,    \* of timeactive: 5
  FsizeSize,   \* of the size of an asset: 8
  MaxFsize,    \* MAX_FILESIZE
  WordSize,    \* the characters of a UID, password, name or file name
  MaxTyped,    \* bound: the user types numbers in -1..MaxTyped
  MaxAid,      \* bound: auctions are 1..MaxAid
  Faults       \* "cut": the client may be killed, or stop for 5 seconds,
               \* before it has sent everything

(* Base to the power of i.                                                 *)
Power[i \in Nat] == IF i = 0 THEN 1 ELSE Base * Power[i - 1]

ASSUME MessagesAssumption ==
  /\ Base \in 2..10
  /\ {AidSize, ValueSize, TimeSize, FsizeSize, WordSize, MaxTyped} \subseteq Nat \ {0}
  /\ AidSize >= 2
  /\ MaxFsize \in 1..(Power[FsizeSize] - 1)
  /\ MaxAid \in Nat
  /\ Faults \subseteq {"cut"}

DigitSeq == <<"0", "1", "2", "3", "4", "5", "6", "7", "8", "9">>
Digit == Range(DigitSeq)
Alnum == Digit \cup {"a"}

(* The alphabet of words: a digit, a letter, and what no name may have.    *)
Words == UNION {[1..n -> {"0", "a", "?"}] : n \in 1..(WordSize + 1)}

Ops == {"OPA", "BID", "CLS", "SAS", "LIN", "LMA", "LST", "SRC"}
Tcp == {"OPA", "BID", "CLS", "SAS"}

(* The arguments of each request, in the order in which they are sent.     *)
Fields(o) ==
  CASE o = "OPA" -> <<"uid", "pw", "name", "start", "time", "fname", "fsize">>
    [] o = "BID" -> <<"uid", "pw", "aid", "value">>
    [] o = "CLS" -> <<"uid", "pw", "aid">>
    [] o \in {"SAS", "SRC"} -> <<"aid">>
    [] o = "LIN" -> <<"uid", "pw">>
    [] o = "LMA" -> <<"uid">>
    [] o = "LST" -> <<>>

Size(f) ==
  CASE f \in {"uid", "pw", "name", "fname"} -> WordSize
    [] f = "aid" -> AidSize
    [] f \in {"value", "start"} -> ValueSize
    [] f = "time" -> TimeSize
    [] f = "fsize" -> FsizeSize

(* What is typed; the UID and password of a session were typed at login.   *)
Numbers(o) == Range(Fields(o)) \cap {"aid", "value", "start", "time", "fsize"}
TypedWords(o) == Range(Fields(o)) \cap IF o = "LIN" THEN {"uid", "pw"} ELSE {"name", "fname"}

VARIABLES
  op,          \* what the user asks for, "none" at the prompt
  num, word,   \* the numbers and the words that were typed
  msg,         \* the request, then the list, as it is sent
  pos,         \* how many characters of it are used up
  server,      \* "idle", "read", "acts", "refuses" or "fails"
  buf,         \* server: the characters of the field that is being read
  got,         \* server: the fields that have been read
  auctions,    \* server: what it lists: [aid, state]
  listing,     \* client: whether it reads the list
  shown        \* client: what it has printed of the list

ask == <<op, num, word>>
vars == <<ask, msg, pos, server, buf, got, auctions, listing, shown>>

-------------------------------------------------------------------------------
(* printf and atoi.                                                        *)

(* "%0<width>d"; "%d" is of width 1.                                       *)
Decimal(n, width) ==
  LET sign  == IF n < 0 THEN <<"-">> ELSE <<>>
      m     == IF n < 0 THEN -n ELSE n
      k     == Max({width - Len(sign), Min({i \in 1..(m + 1) : m < Power[i]})})
  IN  sign \o [i \in 1..k |-> DigitSeq[((m \div Power[k - i]) % Base) + 1]]

DigitValue(c) == (CHOOSE d \in 1..10 : DigitSeq[d] = c) - 1

Value(text) ==
  LET upTo[i \in 0..Len(text)] ==
        IF i = 0 THEN 0 ELSE upTo[i - 1] * Base + DigitValue(text[i])
  IN  upTo[Len(text)]

SessionWord(f) == [i \in 1..WordSize |-> IF f = "uid" THEN "0" ELSE "a"]

Width(f) == IF f = "aid" THEN AidSize ELSE IF f = "value" THEN ValueSize ELSE 1

Text(f) ==
  IF f \in DOMAIN num THEN Decimal(num[f], Width(f))
  ELSE IF f \in DOMAIN word THEN word[f] ELSE SessionWord(f)

(* Mutant: the end of the string is not counted in bid_request.            *)
RoomShort(o) ==
  CASE o = "BID" -> 2 * WordSize + AidSize + ValueSize + 5
    [] o = "CLS" -> 2 * WordSize + AidSize + 5
    [] o \in {"SAS", "SRC"} -> AidSize + 4
    [] OTHER -> 10 * (WordSize + MaxTyped)

(* The characters snprintf has room for: those of a valid request, and one *)
(* more in SAS and SRC.  In OPA and LIN there is room for all.             *)
Room(o) ==
  CASE o = "BID" -> 2 * WordSize + AidSize + ValueSize + 6
    [] o = "CLS" -> 2 * WordSize + AidSize + 5
    [] o \in {"SAS", "SRC"} -> AidSize + 4
    [] OTHER -> 10 * (WordSize + MaxTyped)

Fit(text, room) == SubSeq(text, 1, Min({room, Len(text)}))

(* The asset follows the header of OPA; one character stands for it.       *)
Format ==
  Fit(<<op>> \o FlattenSeq([i \in 1..Len(Fields(op)) |-> <<" ">> \o Text(Fields(op)[i])])
        \o IF op = "OPA" THEN <<" ", "?">> ELSE <<"\n">>,
      Room(op))

-------------------------------------------------------------------------------
(* The client: the checks it makes itself, and the request.                *)

Valid(text, size, chars) == Len(text) <= size /\ \A i \in 1..Len(text) : text[i] \in chars
Exact(text, size, chars) == Len(text) = size /\ Valid(text, size, chars)

ClientChecks ==
  /\ op = "OPA" =>
       /\ Len(word["name"]) <= WordSize
       /\ Valid(word["fname"], WordSize, Alnum)
       /\ num["start"] >= 0
       /\ num["time"] \in 0..(Power[TimeSize] - 1)
       /\ num["fsize"] \in 1..MaxFsize
  /\ op = "CLS" => num["aid"] \in 0..(Power[AidSize] - 1)
  /\ op = "LIN" => Exact(word["uid"], WordSize, Digit) /\ Exact(word["pw"], WordSize, Alnum)

(* What does not pass is not sent, and the user is at the prompt again.    *)
Ask ==
  /\ op = "none"
  /\ op' \in Ops
  /\ num' \in [Numbers(op') -> -1..MaxTyped]
  /\ word' \in [TypedWords(op') -> Words]
  /\ ClientChecks'
  /\ msg' = Format'
  /\ pos' = IF op' \in Tcp THEN 2 ELSE 0
  /\ server' = "read"
  /\ UNCHANGED <<buf, got, auctions, listing, shown>>

-------------------------------------------------------------------------------
(* The server: the checks of the fields.                                   *)

ValidField(f, text) ==
  CASE f = "uid"   -> Exact(text, WordSize, Digit)
    [] f = "pw"    -> Exact(text, WordSize, Alnum)
    [] f \in {"name", "fname"} -> Valid(text, WordSize, Alnum) /\ text # <<>>
    [] f = "aid"   -> Valid(text, Len(text), Digit) /\ Value(text) < Power[AidSize]
    [] f \in {"value", "start", "time"} -> Valid(text, Size(f), Digit) /\ text # <<>>
    [] f = "fsize" -> /\ Valid(text, Size(f), Digit) /\ text # <<>>
                      /\ Value(text) <= MaxFsize

ValidFields(texts) == \A i \in 1..Len(texts) : ValidField(Fields(op)[i], texts[i])

Decide(good) == server' = IF good THEN "acts" ELSE "refuses"

-------------------------------------------------------------------------------
(* TCP: read_field, a character at a time.  The command has been read.      *)

Field == Fields(op)[Len(got) + 1]
IsLast == Len(got) + 1 = Len(Fields(op))

EndOfField(c) == c = IF IsLast /\ op # "OPA" THEN "\n" ELSE " "

(* Mutant: the character after the last is not waited for.                 *)
TakeFewer(c) ==
  IF Len(buf) + 1 < Size(Field)
  THEN buf' = Append(buf, c) /\ UNCHANGED <<got, server>>
  ELSE Decide(FALSE) /\ UNCHANGED <<buf, got>>

Take(c) ==
  IF Len(buf) < Size(Field)
  THEN buf' = Append(buf, c) /\ UNCHANGED <<got, server>>
  ELSE Decide(FALSE) /\ UNCHANGED <<buf, got>>

(* A field of no characters is none, unless it is the last.                *)
ReadChar ==
  /\ server = "read" /\ op \in Tcp /\ pos < Len(msg)
  /\ LET c == msg[pos + 1]
     IN  IF c \notin {" ", "\n"} THEN Take(c)
         ELSE IF EndOfField(c) /\ ~(c = " " /\ buf = <<>>)
         THEN /\ got' = Append(got, buf) /\ buf' = <<>>
              /\ IF IsLast THEN Decide(ValidFields(got')) ELSE UNCHANGED server
         ELSE Decide(FALSE) /\ UNCHANGED <<buf, got>>
  /\ pos' = pos + 1
  /\ UNCHANGED <<ask, msg, auctions, listing, shown>>

(* Nothing more comes: the client has gone or has sent all, and 5 seconds  *)
(* pass.                                                                   *)
NothingComes ==
  /\ server = "read" /\ op \in Tcp
  /\ pos = Len(msg) \/ "cut" \in Faults

(* Mutant: what there is of the last field is taken for the whole.         *)
TakeWhatThereIs ==
  /\ NothingComes
  /\ Decide(IsLast /\ buf # <<>> /\ ValidFields(Append(got, buf)))
  /\ got' = Append(got, buf)
  /\ UNCHANGED <<ask, msg, pos, buf, auctions, listing, shown>>

ReadFails ==
  /\ NothingComes
  /\ server' = "fails"
  /\ UNCHANGED <<ask, msg, pos, buf, got, auctions, listing, shown>>

-------------------------------------------------------------------------------
(* UDP: the fields are at fixed places, but for an AID.                    *)

Slice(from, n) == SubSeq(msg, from, from + n - 1)
At(i, c) == i <= Len(msg) /\ msg[i] = c

(* The AID is formatted anew, as the directory is called.                  *)
Parsed ==
  CASE op = "LIN" -> <<Slice(3, WordSize), Slice(4 + WordSize, WordSize)>>
    [] op = "LMA" -> <<Slice(3, WordSize)>>
    [] op = "LST" -> <<>>
    [] op = "SRC" -> <<Decimal(Value(Slice(3, Len(msg) - 3)), AidSize)>>

Understood ==
  CASE op = "LIN" -> At(3 + WordSize, " ") /\ At(4 + 2 * WordSize, "\n") /\ ValidFields(Parsed)
    [] op = "LMA" -> At(3 + WordSize, "\n") /\ ValidFields(Parsed)
    [] op = "LST" -> At(2, "\n")
    [] op = "SRC" -> /\ Len(msg) \in 4..(AidSize + 3) /\ At(Len(msg), "\n")
                     /\ Valid(Slice(3, Len(msg) - 3), AidSize, Digit)

ReadDatagram ==
  /\ server = "read" /\ op \notin Tcp
  /\ Decide(Understood)
  /\ got' = IF Understood THEN Parsed ELSE <<>>
  /\ UNCHANGED <<ask, msg, pos, buf, auctions, listing, shown>>

-------------------------------------------------------------------------------
(* Answers.                                                                *)

ListWanted == server = "acts" /\ op \in {"LST", "LMA"} /\ shown = <<>>

(* Every request is answered; the answers but lists are statuses, and      *)
(* after an answer, or a list, the user is at the prompt.                  *)
Reply ==
  /\ server \in {"acts", "refuses", "fails"} /\ ~listing /\ ~ListWanted
  /\ op' = "none" /\ num' = <<>> /\ word' = <<>>
  /\ msg' = <<>> /\ pos' = 0
  /\ server' = "idle" /\ buf' = <<>> /\ got' = <<>>
  /\ auctions' = <<>> /\ shown' = <<>>
  /\ UNCHANGED listing

(* Mutant: one character too many of ".txt" is counted.                    *)
NameCut(a) == IF op = "LST" THEN Decimal(a, AidSize) ELSE Fit(Decimal(a, AidSize), AidSize - 1)

(* append_auctions takes the name of a directory, fetch_auctions the first *)
(* characters of the name of a file.                                       *)
Name(a) == IF op = "LST" THEN Decimal(a, AidSize) ELSE Fit(Decimal(a, AidSize), AidSize)

(* alphasort is the order of the AIDs as long as they are of one length.   *)
Lists ==
  {l \in UNION {[1..n -> [aid : 1..MaxAid, state : {"0", "1"}]] : n \in 1..MaxAid} :
     \A i, j \in 1..Len(l) : i < j => l[i].aid < l[j].aid}

ReplyList ==
  /\ ListWanted /\ ~listing
  /\ auctions' \in Lists
  /\ msg' = <<"OK">>
       \o FlattenSeq([i \in 1..Len(auctions') |->
            <<" ">> \o Name(auctions'[i].aid) \o <<" ", auctions'[i].state>>])
       \o <<"\n">>
  /\ pos' = 2
  /\ listing' = TRUE
  /\ UNCHANGED <<ask, server, buf, got, shown>>

(* read_buffer_token: where the token that begins after n characters ends, *)
(* and what is used up then: all is, or nothing, after the newline.        *)
TokenEnd(n) ==
  Min({j \in (n + 1)..Len(msg) : msg[j] \in {" ", "\n"} \/ j = n + 1 + AidSize})
AtNewline(n) == msg[TokenEnd(n)] = "\n" /\ TokenEnd(n) < n + 1 + AidSize
UsedUp(n) == IF AtNewline(n) THEN 0 ELSE TokenEnd(n)
TokenAt(n) == SubSeq(msg, n + 1, TokenEnd(n) - 1)

(* One turn of the loop of listAllAuctions, myAuctions and myBids.         *)
ListTurn ==
  /\ listing
  /\ LET n == UsedUp(pos)
     IN  /\ shown' = Append(shown, <<TokenAt(pos), TokenAt(n)>>)
         /\ pos' = UsedUp(n)
         /\ listing' = ~AtNewline(n)
  /\ UNCHANGED <<ask, msg, server, buf, got, auctions>>

-------------------------------------------------------------------------------
Init ==
  /\ op = "none" /\ num = <<>> /\ word = <<>>
  /\ msg = <<>> /\ pos = 0
  /\ server = "idle" /\ buf = <<>> /\ got = <<>>
  /\ auctions = <<>> /\ listing = FALSE /\ shown = <<>>

Next ==
  \/ Ask \/ ReadChar \/ ReadFails \/ ReadDatagram
  \/ Reply \/ ReplyList \/ ListTurn

Spec == Init /\ [][Next]_vars
===============================================================================
