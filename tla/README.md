# Auction Simulator: a TLA+ verification project

The repository holds an auction server (`src/server`, the AS) and a command-line client
(`src/client`), written in C. Clients send short requests over UDP and longer ones over TCP;
everything the server knows is files in two directories, `server/users` and `server/auctions`.
This project models the server down to each access of a shared file, the sessions, transfers and
messages that connect it with its clients, checks the models with TLC and proves their central safety
properties with TLAPS.

## 1. Inventory

| Component | Source | State | Operations |
|---|---|---|---|
| Request loop and children | `server/server.c` | the parent in `select()`, one forked child per TCP connection | receive and serve a UDP request, accept and fork, exit, die, restart |
| Directory locks | `server/aux_functions.c` 703-723 | an exclusive `flock` on each directory | `lock_dir`, `unlock_dir` |
| Accounts | `server/udp_functions.c` 3-96, `aux_functions.c` 3-108 | `users/<uid>/pass.txt`, `login.txt` | LIN (log in or register), LOU, UNR |
| Opening | `tcp_functions.c` 3-50, `aux_functions.c` 221-301, 450-465 | `users/<uid>/hosted`, `auctions/<aid>`, `START_<aid>.txt`, the asset | OPA |
| Closing and expiry | `tcp_functions.c` 137-183, `aux_functions.c` 468-512, 607-634 | `END_<aid>.txt` | CLS, and `ongoing_auction`, which also *creates* END when the time is over |
| Bidding | `tcp_functions.c` 88-134, `aux_functions.c` 516-603 | `auctions/<aid>/bids/<value>.txt`, `users/<uid>/bidded` | BID |
| Listings and records | `udp_functions.c` 100-197, `aux_functions.c` 110-185, 342-368, 637-700 | none of their own, but they call `ongoing_auction` | LMA, LMB, LST, SRC |
| Asset transfer | `aux_functions.c` 221-252, 383-447; `client/aux_functions.c` 150-182 | the asset file, bytes left to send | the data of OPA and SAS |
| Request parsing | `server/input_funcs.c`, `aux_functions.c` 189-218 | none | syntax checks |
| Client session | `client/client.c`, `client/functions.c` | `user_loggedin`, `uid`, `password` | the commands of the user |
| Client connections | `client/aux_functions.c` | a socket per request | `connect_UDP`, `connect_TCP` |

How they interact. The parent serves UDP requests *in place and without any lock*
(`server.c` 144-157). For each TCP connection it forks a child, which takes the lock of
`server/auctions`, then that of `server/users`, serves one request, gives both back and exits
(`server.c` 168-182). So there is always one parent, and never more than one working child, but
parent and child interleave at every system call. There is no other communication between
processes than the files.

What is hard:

* the parent writes files children rely on: `pass.txt` and `login.txt` (LIN, LOU, UNR), and END
  files, which every listing creates for auctions whose time is over;
* a file is created by `fopen` and written by `fclose`; a reader in between finds it empty, and the
  code does not look at what `fscanf` returns, so that it uses uninitialized variables;
* checks and what they guard are separate calls (login, then bid; END absent, then END created);
* creating an auction is seven file operations, any of which may fail, or be the last before the
  process is killed; nothing is rolled back;
* `lock_dir` returns 0 when it fails, and `main` does not look;
* a child holds both locks while it talks to its client; reads time out after 5 s, writes do not;
* UDP may lose, delay or repeat both the request and the reply; the client waits 5 s, and then parses
  a buffer that nobody has written to;
* a transfer is many reads and writes, either side of which may stop, while the child holds the locks;
* a record is put together from files that change while they are read.

What makes each component right, in words: children exclude each other and always give the lock
back; an identifier is used once and START never changes; an auction has one host, who never has a
bid in it; bids only rise, and an accepted bid is the highest when its bidder is told; END is written
once, beside a START, when the time is over or the host closes; a login takes the password on file;
the parent always comes back to `select()`. A client believes that it is logged in exactly when the
server does; an asset that is reported as stored is, byte by byte; a record misses no bid that was
there when it was asked for; the server acts on a request as it was meant, or not at all. Where the code does not keep to this (section 5), the
weaker property it does keep is stated and checked as well.

## 2. Modules

| Module | Role |
|---|---|
| `AuctionServer` | the server: state, one action per step between accesses of shared files, faults, `Spec` and `FairSpec` |
| `AuctionHouse` | the abstract specification: auctions are opened once, offers rise, closed stays closed |
| `UserSession` | clients that log in, log out, unregister, leave and are killed, against `pass.txt` and `login.txt`, over UDP |
| `AssetTransfer` | one connection of `open` or `show_asset`: the bytes that are written and read, the two sides' reactions |
| `ShowRecord` | one auction as SRC sees it: its files, the child that changes them, the answer, the client's parser |
| `Messages` | what the user types, the request as text, its way through the server's readers and checks; lists as text |
| `<M>Properties` | of each `M` but the house: type invariant, safety, action properties, liveness, refinement mapping |
| `<M>Proofs` | theorems and proofs, of each `M` |
| `AuctionFilesProofs` | proofs about the server's files: bids and hosts on record, START and END |
| `AuctionHouseProofs` | proofs that the server implements `AuctionHouse`, and about closing |
| `SequenceLemmas` | lemmas for `ShowRecordProofs` and `MessagesProofs`: induction and recursion over the numbers, and where each part of a text stands |
| `MC<M>` | the instance for TLC; symmetry |

`AuctionServer` has the whole server with its data abstracted; each of the four others looks closely
at what `AuctionServer` leaves out, and takes from the server only what its question needs. The cut
between them is a place where the code itself leaves no other interleaving:

* In `UserSession` a handler of an account is one step. The parent alone writes `pass.txt` and
  `login.txt`, one datagram at a time; children only read them, and no property there is about children.
* In `AssetTransfer` whether the server refuses is a free choice, and the creation of START and the
  directories, which come before the first byte is read, is part of `ChildOpen`. Other connections
  matter only through the locks: `ChildLocks` is the end of the wait for them, which may not come.
* In `ShowRecord` there is one child, the one with the lock, that bids or closes, and the parent with
  `ongoing_auction` and END as in `AuctionServer`. START is on disk: an auction nobody can know about
  yet is not asked for.
* In `Messages` the server acts, refuses or fails; what it does when it acts is the other modules.

### State and code: `AuctionServer`

| Variable | In the program |
|---|---|
| `now` | the wall clock, `time()` |
| `pass[u]`, `login[u]` | `users/<u>/pass.txt` (`None`, `Blank` or the password) and whether `login.txt` exists |
| `hosted[u]`, `bidded[u]` | the auctions with a file in the user's two directories |
| `dirs` | the auctions with a directory |
| `start[a]` | START: `None`, `Blank`, or host, start value, duration and time |
| `bids[a][v]` | `bids/<v>.txt`: `None`, `Blank` or the bidder |
| `end[a]` | END: `None`, `Blank` or `end_sec_time` |
| `lockA`, `lockU` | who holds the `flock` of `auctions` and of `users` |
| `pc[p]` | where a process is: its next access of a shared file |
| `req[p]`, `aid[p]`, `secs[p]` | the request it serves, the auction it works on, the `end_sec_time` it is about to write |
| `todo`, `reply[c]` | the auctions a listing has left; the status a child has sent |

`None` is a file that is not there, `Blank` one that `fopen(.., "w")` has created or truncated and
`fclose` has not flushed. A read of a `Blank` file leaves the variables of `fscanf` uninitialized;
what the code then computes is a nondeterministic choice (`PasswordChecks`, `ReadStart`, `CheckBid`,
`CloseAuction`).

A step is the code from one access of a shared file to the next, so that all interleavings of
parent and children at system calls are there. Steps join only what no other process can tell
apart: reading the fields of a request; the scan of `auctions` for the next identifier and the `fopen` in
`hosted` (`CreateHosted`; only children with the lock create directories, and when locks fail it is `mkdir`
that decides); `time()` and the flush of START (`WriteStart`; a tick in between only makes the auction
older by it); the three `mkdir` of one auction (a directory without START
looks the same to everybody but SAS, whose crash on the missing `asset` is an alternative of
`ShowAsset`); the scan of `bids/`, which only a child writes; the checks of the parent on `pass.txt`
and `login.txt`, which only the parent writes. `ongoing_auction` is four actions with a
continuation, `OngoingReturns`, because children and parent call it from six handlers.

Faults are a constant: `"io"` (a file or directory cannot be created), `"kill"` (a process is
killed at any step, the parent is started again by its operator), `"lock"` (`lock_dir` fails).

Bounds: `MaxAid` (`RoomForAuction` stops OPA requests when identifiers run out), `MaxValue`,
`Durations`, `MaxTime` (`Tick` stops). Every other set is given by the configuration.

### State and code: the other modules

`UserSession`: `believes`, `uid` and `pw` are `user_loggedin`, `uid` and `password` of the client's
`main`; `doing` is the call it is in. Each call has a socket of its own (`connect_UDP` opens and closes
one), so a datagram carries the client that waits for its answer, and after the client has given up
nobody: `from = None`. `stale` says which successes the buffers of `login`, `logout` and `unregister` still
hold; the last two have theirs in the same place of the stack (`SameBuffer`). After a timeout the buffer
is parsed unwritten, and a success from the last time may pass for a success now (`Timeout`), but only for
one of the same operation, since each looks for its own text (`RLI`, `RLO` or `RUR`). `disturbed` is history:
the accounts on which a fault may have told.

`AssetTransfer`: a message is header, bytes and newlines; the connection is two counts, `sent` and
`got`, and their difference what the socket buffers hold. `first` is `buffer[0]` of `store_file` and
`read_file`, which is compared with the newline even if the last read failed. `body < Size` when
`sendfile` sends less than the header says (neither side repeats it). The header is one item: nothing
about it differs from byte to byte that `Messages` does not have. `read` of the child fails when the client has
closed or has sent nothing for 5 s; the client's fails only after 5 s, since the parent never closes
its copy of the connection (`server.c` 160). An asset has at least one byte when it is sent by `open`
(`getFileSize` refuses an empty file, `client/aux_functions.c` 112), but `show_asset` may meet an empty one,
left by an open that broke off.

`ShowRecord`: `bids` and `end` are the files; `visited` what `readdir` has returned, `present` what it
must return (the entries there when the directory was opened; later ones are its choice); `lines` the
bids that the answer shows. A file that is not flushed leaves `uid`, `bid_value` and the dates as they
were: the bid before is shown again, or, if there is none, the host (`LineOf`). `part` is
`message_part` of `showRecord`, `wire` the tokens it has not read yet and `shown` what it has printed.
`before`, `shut` and `cut` are history.

`Messages`: `num` and `word` is what was typed, `msg` the request, cut to the room `snprintf` has,
`got` and `buf` what `read_field` has read, character by character. `-`, `_` and `.` count as letters,
and a file name's extension is not looked at. `sscanf` finds all its arguments: a number that is not
typed is an uninitialized variable of the client, any number, and so among those that are. `auctions` is
a directory in the order of `scandir` (`Lists`: `alphasort` is the order of the numbers while they are
of one length), `shown` what `listAllAuctions`, `myAuctions` or `myBids` have printed of it. `Decimal`
and `Value` are `printf` and `atoi`; what they do to each other is proved, not assumed.

### The abstract specification

`AuctionHouse` knows no files, processes or time. `HouseSpec` says: auctions are opened under growing
identifiers and never change; an offer is for an opened auction, is not its host's, and exceeds the
start value and all offers; what is closed stays closed. `OrderlyHouseSpec` adds that only an opened
auction is closed and a closed one takes no offer. The server's files are mapped to it in
`AuctionServerProperties` (`House`; `AuctionsOnFile`, `OffersOnFile`, `ClosedOnFile`): a START that is written is an opened auction, a bid file that is
written an offer, an END file, blank or not, a closed auction.

## 3. Runs

| Run | Instance | Checked | Shows |
|---|---|---|---|
| `server_orderly` | OPA CLS BID, LIN UNR; `"io"`; durations 0 and 1 | `ImplementsOrderlyHouse`, `BidsRise`, `EndWriteOnce`, `EndOnlyWhenOver` | while no listing is served the server is an orderly house, whatever file cannot be created and whoever comes and goes |
| `server_listing` | all of TCP, LMA LMB LST SRC; clock up to 2 | `TypeOK`, `MutualExclusion`, `AcceptedBidStands`, `BidderKnows`, `NoSelfBid`, `OneHost`, `ImplementsHouse` | what stays true when the parent closes auctions under the children's feet |
| `server_faults` | OPA, LST; `"kill"`, `"lock"`; two auctions | `ClosedWasOpened`, `StartImmutable` | what survives deaths and failing locks: `mkdir` alone keeps identifiers unique |
| `server_liveness` | all of TCP, LST LOU; `FairSpec` | `LockReleased`, `ServerReturns` | no deadlock over the two locks; no request that keeps the parent |
| `session_faults` | one account, two clients, two passwords; all faults; two strays | `TypeOK`, `SessionsAgree`, `PasswordsAgree` | an account no fault has struck is in session at both ends or at neither |
| `transfer` | assets of up to 4 bytes, buffers of 5 items, reads of 2; all faults | `TypeOK`, `AcceptedIsStored`, `FetchedIsStored`, `OpenedIsStored`, `EndsIfItFits`, `OpenReleasesLocks` | what is said to be stored is; once the child has the locks, transfers end unless the buffers are full |
| `record` | three bids; `"kill"`, `"io"` | `TypeOK`, `BidsAreListed`, `FalseLinesAreNew`, `ClosedRecordIsFinal`, `ShownAsSent` | what a record may miss or invent, and that the parser keeps step |
| `messages` | two digits, sizes 1 to 3, numbers -1..17, three auctions; `"cut"` | `ActsAsAsked`, `ValidIsServed`, `NoWaitForTyped`, `ListShown` | no request is taken for another, none that is valid is refused |
| `find_*` | the two or three steps involved | one property each | the disagreements of section 5 |

Server. Two users and two child slots are what it takes for two bidders, a host and a bidder, or two
children to meet; two bid values above the start for one bid to beat another. One auction is enough
where auctions do not interact; two are needed for identifiers (`server_faults`). Two ticks let an
auction of one second be bid on, expire and be listed afterwards; one tick and durations 0 and 1
contain both sides of the comparison at the closing second. `MaxTime` is 0 where the clock plays no
part: in `server_faults` an auction may still be closed early, through an unflushed START.
Symmetry over users and children is used except for liveness.

Sessions. An account's state does not depend on any other account: one is enough, with two clients
that may both use it, the right password and a wrong one, and two requests nobody waits for any more
(a late or repeated login *and* a late or repeated logout, in either order).

Transfers. Reads of 2 of up to 4 bytes have a full and a remaining chunk; buffers of 5 items hold
the whole of an `open` of 1 to 3 bytes and of a `show_asset` of 0 to 2, and are filled by larger ones. Bytes are a newline or another, since the
receivers compare with nothing else.

Records. Three bids allow one before the request, one while it is served and one that a killed child
leaves blank, in any order of `readdir`.

Messages. A field is as long as it may be, one shorter, one longer; numbers go beyond every field, also
beyond the room `snprintf` has (`-1`, and `MaxTyped` two digits longer than a bid). Base 2 makes that
17; nothing in the code depends on the base but `printf` and `atoi`. Auctions are 1..3, all that two
binary digits can name, as 999 are all that three decimal ones can.

Not every property holds under every fault: `ImplementsHouse`, for one, is false under `"kill"`, where
a killed child may leave START empty and bids are then compared with an uninitialized start value.

Every property of a passing run has a mutant: an operator marked *Mutant*, which is the definition
after it with a plausible bug. Three remarks they led to. Removing *one* of the two `flock`s changes
nothing, since every child takes both and holds them as long: only a child that takes neither
(`ForkUnlocked`) breaks mutual exclusion. Locking the same directory twice (`LockAuctionsTwice`) is a
deadlock with oneself, since each `lock_dir` opens its own descriptor. And a `buffer[0]` that is a
newline by chance does pass for the last newline, and does no harm to a file that was sent whole: that
read comes only after all of its bytes.

### Fairness

`FairSpec` assumes that a child that can take a step does, and the parent likewise while it serves a
request: processes are scheduled, file operations return, and a child that waits for its client's
request does not wait for ever, because accepted sockets inherit the 5-second `SO_RCVTIMEO` set on
the listening socket (`server.c` 90-94). Nothing is assumed of clients: neither that they send
requests, nor that they read an asset (`SendAsset` is outside the fairness condition, since nothing
limits the time `sendfile` blocks; `LockReleased` makes the exception explicit). Weak fairness of the
whole step of a child suffices for the locks because the runs have two children; with more, `flock`
promises no order among those that wait, and no property here says that a given child gets the lock.

`AssetTransfer` assumes the same of both sides of a connection: whoever is not killed goes on, and a
read ends after 5 s (`SO_RCVTIMEO` on either side). It does not assume that the other side goes on:
a side that is killed or has left is no longer part of the step that is fair. Two things are *not* fair, because
the code bounds them nowhere. One is a write: `sendfile` into full buffers is simply not enabled. The
other is the wait for the locks (`ChildLocks`): who holds them may be such a writer (`find_locks_held`). So
`EndsIfItFits` and `OpenReleasesLocks` lead from a child that has its turn, and say nothing of one in the queue.
`UserSession`, `ShowRecord` and `Messages` state safety only.

## 4. Proofs

Of the server, for all values of the constants allowed by `ConstantsAssumption`, that is for any
number of users, children, auctions, bid values and ticks, and any set of requests:

| Theorem | States | Holds under | Module |
|---|---|---|---|
| `TypeCorrect` | `Spec => []TypeOK` | all faults | `AuctionServerProofs` |
| `LockSafe` | `Spec => []MutualExclusion` | no `"lock"` | |
| `HostsNeverBid` | `Spec => []NoSelfBid` | all faults, with no lock at all | |
| `StartNeverRewritten` | `Spec => StartImmutable` | all faults, with no lock at all | |
| `BidsOnlyRise` | `Spec => BidsRise` | no `"lock"` | |
| `ClosedAfterOpened` | `Spec => []ClosedWasOpened` | all faults, with no lock at all | `AuctionFilesProofs` |
| `AcceptedBidsStand` | `Spec => []AcceptedBidStands` | no `"lock"` | |
| `BiddedAlwaysHasBid` | `Spec => []BiddedHasBid` | no `"lock"` | |
| `BiddersKnow` | `Spec => []BidderKnows` | no faults | |
| `HostIsOne` | `Spec => []OneHost` | no faults | |
| `IsAuctionHouse` | `Spec => ImplementsHouse` | no `"lock"`, no `"kill"` | `AuctionHouseProofs` |
| `EndNeverRewritten` | `Spec => EndWriteOnce` | no `"lock"`, no lists | |
| `NoBidAfterEnd` | `Spec => BidOnlyWhileOngoing` | no `"lock"`, no lists | |
| `EndsOnlyWhenOver` | `Spec => EndOnlyWhenOver` | no `"lock"`, no `"kill"`, no lists | |
| `IsOrderlyHouse` | `Spec => ImplementsOrderlyHouse` | no `"lock"`, no `"kill"`, no lists | |

The restrictions are in the statements, and are where the code needs them. A file that cannot be created
leaves `hosted` or `bids/` with one record of two (`BidderKnows`, `OneHost`; a child that is killed
between the two does the same, and `BiddedHasBid` is the half that survives). A child that is killed in
front of START leaves it Blank, and later bids are compared with what the stack holds
(`ImplementsHouse`). A list (LMA, LMB, LST, SRC) makes the parent write END without a lock (section 5);
that `BidOnlyWhileOngoing` is a theorem without lists and violated in `find_bid_after_end` with one says
that the parent is the only culprit.

The argument of each:

* *Types.* `TypeOK` is not inductive: an action applies `start` to `aid[p]`, which may be `NoAid`.
  `Locals` says what `req[p]` and `aid[p]` are at each label, and `TypeInv == TypeOK /\ Locals` is
  inductive. One step per action; only the acting process' locals change (`LocalsFrame`).
* *Mutual exclusion.* `LockInv`: a child behind the lock of `auctions` owns it. `LockSteps` sorts all
  steps into those that keep the lock and those that take or release it.
* *Hosts.* Eight actions of a child touch what matters for bids and hosts, all others are quiet
  (`StepKinds`). `HostInv` says that START and bids exist only in directories that exist; that a
  written START's host has it in `hosted` and no bidder does; what a child between two steps knows;
  and that at most one child is between `mkdir` and START of an auction. The last is where `mkdir`
  does the work of a lock: it succeeds for one child only. A host's `hosted` file comes *before* the
  directory, bids come after: hence no bid by a host, even when locks fail or processes die.
* *Rising bids.* `BidInv`: a child about to create a bid file has a value above all on record and
  above the start value, and one about to write it has created it. Others cannot disturb it, by
  `LockInv`. This is the theorem that needs the lock.
* *Closed after opened.* `ClosedInv`: who is about to create END has seen a START, and no START goes.
* *Accepted bids.* `FileSteps` sorts the steps once more: by a child behind the lock, by whoever runs
  `ongoing_auction`, deaths, and those that leave the files alone. `PlacedInv` follows a bid through
  the labels of its child: it is blank, then written, then in `bidded`, then answered, and all along no
  other is higher. The others are not behind the lock (`LockedAlone`), and nobody else writes bids.
* *Two records of one fact.* `BiddedHasBid` is inductive with `PlacedInv`, because `bidded` is written
  last. The converse needs `BidIsKnown`, which the child between the two files is exempt from.
  `HostedOnce` says that a directory's number is in one `hosted` at most, with the child between
  `hosted` and `mkdir` as the one exception; it needs that child to be alone and `mkdir` to succeed.
* *The house.* `HouseInv` has what every step of the house needs: a Blank START is being written, so
  nobody behind the lock reads one (`BlankIsWritten`); the identifier being opened is above all
  directories; the bid being placed is above the start value. Writing START, a bid and END are then
  `OpenAuction`, `MakeOffer` and `EndAuction` of `AuctionHouse` (`WriteStartOpens`, `WriteBidOffers`,
  `EndEnds`), and every other step a stutter: a Blank START or bid does not count, and a closed
  auction whose START is not written yet (a list may do that) has no START in the house either.
* *Closing.* Without lists the parent is never in `ongoing_auction` (`ParentAway`), and END belongs to
  the child behind the lock. `EndInv`: from the look for END to its creation there is none, from then to
  the write it is Blank. `OverInv`: who is about to create END because the time is over read a written
  START, and the clock does not go back. Together with `HouseInv` this is what `OrderlyDeal` asks for.

The mapping of the refinement assumes `NoneIsNoAuction`, that the model value for "no file" is not
a pair of a host and a value.

For the sessions, transfers, records and messages:

| Theorem | States | Module |
|---|---|---|
| `SessionTypeCorrect`, `SessionsAlwaysAgree`, `PasswordsAlwaysAgree` | `Spec => []TypeOK`, `[]SessionsAgree`, `[]PasswordsAgree` | `UserSessionProofs` |
| `TransferTypeCorrect`, `AcceptedMeansStored`, `FetchedMeansStored`, `OpenedMeansStored` | `Spec => []TypeOK`, `[]AcceptedIsStored`, `[]FetchedIsStored`, `[]OpenedIsStored` | `AssetTransferProofs` |
| `BidsAlwaysListed`, `FalseLinesAlwaysNew`, `ClosedRecordsFinal` | `Spec => []BidsAreListed`, `[]FalseLinesAreNew`, `[]ClosedRecordIsFinal` | `ShowRecordProofs` |
| `RecordTypeCorrect`, `AlwaysShownAsSent` | `Spec => []TypeOK`, `[]ShownAsSent` | |
| `ServerActsAsAsked`, `LimitsAreServed`, `TypedIsNotWaitedFor` | `Spec => []ActsAsAsked`, `[]ValidIsServed`, `[]NoWaitForTyped` | `MessagesProofs` |
| `ListIsShown` | `Spec => []ListShown`, if `MaxAid < Power[AidSize]` | |

They hold for any numbers of users, clients, bids and bytes, any sizes of buffers, chunks and fields, any
base up to 10, any numbers and words that are typed, and all faults. The condition of `ListIsShown` is that there are no
more than 999 auctions. The client counts on that (`client/client.h` 38: "999*6"); the server does
not see to it. From the thousandth on `fetch_auctions` cuts the name to that of another auction (`Name`),
and the client takes the fourth digit for the end of a token.

* *Sessions.* `SessionsAgree` speaks of quiet accounts only and is not inductive. `HoldersInv` extends
  it to busy ones: a client *holds* the session of its account if it believes in it and no answer on its way
  will end that, or does not and one will begin it (`Holder`). An undisturbed account that is logged in
  has exactly one holder, with the password on file, and one that is not has none. `NetworkInv` is what makes this stable: a
  stray request is of a disturbed account, and a request and its answer are not both on their way.
* *Transfers.* `SuccessInv`: a success is reported only by a side that has read as many bytes as the
  header told. `ReadIsHeld` then says what that means: the items read are a prefix of the stream,
  which begins with the asset when it was sent whole, and else has at most `Newlines` items that are
  no bytes of it.
* *Records.* `LinesInv`: there is a line for each file visited; a line that repeats no other and is not
  the host's shows the bid of its file; each readable file of before has such a line. So the lines
  that are not false are at least as many as the bids from before (`FewFalseLines`, by an injection), and
  what is left for the false ones is what came since. `OfferInv` keeps a child from rewriting a bid
  that is on record, and `ClosedInv` keeps everybody from END once it is written and nobody is
  between looking for it and creating it.
* *The screen.* `MessageLaid` says which kind of token stands where in an answer of any number of
  bids, `Stands` where the client is in it when it expects a certain part, `TakesPart` that from there
  it takes the right tokens and is right about what comes next. `ScreenInv` has that, and that what was
  shown and what is left make up the answer. The answer is a flattened sequence of sequences, which
  takes an induction; it is done over a *set* of numbers (`NatSetInduction`, from the well-foundedness of
  `<`), from which follow that a function defined by recursion exists (`NatRecursion`), that the one in
  `FlattenSeq` does (`JoinExists`), is unique (`JoinUnique`) and grows at its end (`FlattenAppend`),
  and so where each part begins (`FlattenPlaces`, `FramedPlaces`).
* *Numbers.* `Power` is such a function (`PowerLaw`, `PowerGrows`). The digit that `printf` writes at
  each place is the remainder of a quotient (`Quotient`, `Rest`), so `atoi`, which is one more
  recursion (`ValueLaw`), comes back to the number (`DigitsReadBack`). `DecimalLaw` is what the
  rest needs: a number that is not negative is read back as itself, is no shorter than its width and has
  no more digits than it must. `ValidNumber`: what passes a check for digits had no sign.
* *Requests.* `RequestLaid` says where each field of a request stands and that `snprintf` keeps the
  beginning. `RoomLaw` is the arithmetic of the buffers' sizes: as long as no field has been found too long,
  at least one character more has been sent. That makes `NextChar` right: what `read_field` reads next is
  the next character of the field or what ends it, never what was cut off. `ReadingInv` is that in between
  two characters (`CharTaken`, `FieldTaken`). When all fields are read they are those that were typed
  (`OneMoreField`), and then `ActsLaw` and `LimitsValid` decide. `LoginDatagram` and
  `SearchDatagram` do the same for the requests that are read at fixed places; the one of SRC that is cut
  lacks its newline and is not understood.
* *Lists.* `ListingLaid` says where each AID and state stands, `TurnLaw` that a turn of the client's loop
  that starts in front of an item takes both and stops in front of the next, or at the newline. `ListInv`
  is that it always starts there.

The inductive invariants were checked by TLC on the configurations of the runs before they were
proved.

Left to TLC: liveness (`LockReleased`, `ServerReturns`, `EndsIfItFits`, `OpenReleasesLocks`), which
TLAPS cannot prove under fairness. Every invariant and action property of a passing run is a
theorem. The runs `find_*` are counterexamples and need no proof.

## 5. Disagreements between the code and what it says of itself

Each is a run that TLC finds violated, and an entry of `findings`:

| Run | What happens |
|---|---|
| `find_bid_after_end` | a listing closes an auction between the check and the bid of a child |
| `find_told_open` | the reply to an open is late; the reply to an earlier one, still in the buffer, tells the user that it is open, under the earlier identifier |
| `find_locks_held` | `show_asset` cannot create the file and returns without closing its socket; the child that still sends the asset keeps both locks until the client exits (a read of `show_asset` that times out leads to the same) |
| `find_refusal_not_told` | an open of an asset larger than the socket buffers is refused; nobody reads the asset, and the client never reads the refusal |

More follow from the models and have no run of their own.

* A listing that reads a START not flushed yet finds no times in it and may close the auction that is
  being opened (`ReadStart` of a `Blank` START, by the parent; `EndOnlyWhenOver` is false with LST, as TLC
  shows). The comment says "auction is over -> create END.txt file" (`server/aux_functions.c` 494).
* A listing finds no END, the host closes the auction, its time runs out, and the listing writes END again,
  with the whole duration (`EndWriteOnce` is false with LST, as TLC shows). The comment says "here, the
  auction wasn't closed prematurely" (`server/aux_functions.c` 497).
* An asset that does not arrive makes the server answer NOK ("Auction could not be started.",
  `client/functions.c` 167) for an auction that stays, is listed and takes bids (`StoreAsset`).
* The file in `hosted` comes before the directory and stays when `mkdir` fails; the next auction of that
  number has two owners, and either may close it (`MakeDirs` under `"io"`; `HostedBySelf`).
* UNR between a child's check that the user exists and that of the password makes it call
  `fclose(NULL)`: it dies without a reply (`VerifyPassword`, `Die`).
* A user may log out between the login check and the bid.
* A client that lost the answer to a logout believes in a session that the server has ended: it
  can neither log out (NOK) nor exit ("You are still logged in. Please logout first.",
  `client/client.c` 89). One that lost the answer to a login, or was killed, cannot log in again, since
  LIN refuses who is logged in (`UserSession` with its faults; such accounts are `disturbed`).
* `showAsset` says that the asset is stored whatever `read_file` returns (`client/functions.c` 301-302).
* A bid that is not above the start value is refused with the status for which the client prints that
  a larger bid was placed (`client/functions.c` 330), though nobody has bid. A close of an auction that
  is not there is answered with EAU, and the client looks for OAU (`client/functions.c` 199).
* The record lists all bids in the order of `readdir`, the description asks for at most 50.

## 6. Not modelled, and the plan

Left out: dates, verbose output and the arguments of the programs; the descriptors the parent leaks,
but for their effect on a connection; a server that cannot be reached. File contents are written in
one step by `fclose`: the longest is far below a stdio buffer, an asset excepted, whose writes nobody
else sees. That a write fails is not modelled: `store_file` and `read_file` look neither at `fwrite` nor at
`fclose` (`server/aux_functions.c` 242-244), so that on a full disk an asset that is not whole is answered
with OK. `select()` failing, `fork` failing and
`sendto` failing end or skip one request and touch no file. `Messages` has the requests of this
repository's client, not those of another. The sizes of the buffers for lists and records (9999 bytes
at the server, 1024 to 6100 at the client) are not modelled: no list that TLC can enumerate reaches
them.

Next:

1. `AcceptLoop`: the parent's descriptors, accepted sockets and the limit at which `accept` fails.
2. `ShowRecord` with two children when `lock_dir` fails: two bids of one value, written twice.
3. Proofs: which of the server's theorems survive a lock that fails, property by property, and the type
   of every variable of `Messages`.
