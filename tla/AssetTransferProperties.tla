------------------------ MODULE AssetTransferProperties ------------------------
(***************************************************************************)
(* What is claimed of the transfer of an asset.                            *)
(***************************************************************************)
EXTENDS AssetTransfer

(* The type of every variable, and what the two counts can be.             *)
TypeOK ==
  /\ op \in {"OPA", "SAS"}
  /\ asset \in Seq(Bytes)
  /\ body \in 0..Size
  /\ stale \in BOOLEAN
  /\ client \in {"send", "wait", "store", "last", "done", "gone"}
  /\ child \in {"queue", "serve", "send", "store", "last", "done", "gone"}
  /\ sent \in 0..Length
  /\ got \in 0..sent
  /\ Arrived <= Capacity
  /\ first \in Bytes
  /\ reply \in {"none", "OK", "NOK"}
  /\ fetched \in BOOLEAN
  /\ told \in {"nothing", "opened", "refused", "error", "stored"}

(* The receiver holds the asset, byte by byte but for the last k.          *)
HoldsAllBut(k) ==
  /\ got > Size
  /\ \A i \in 1..(Size - k) : Item(i + 1) = asset[i]

(* The asset was sent as it was told.                                      *)
Sound == body = Size

(* A status OK means that the server has stored the asset whole.  When the *)
(* file shrank under the sender, a single newline may stand for its last   *)
(* byte: it was read as a byte, and again from buffer[0] as the newline.   *)
AcceptedIsStored ==
  reply = "OK" => HoldsAllBut(IF Sound THEN 0 ELSE 1)

(* A size returned by read_file means that the client has the asset whole, *)
(* but for two bytes that the two newlines may stand for.                  *)
FetchedIsStored ==
  fetched => HoldsAllBut(IF Sound THEN 0 ELSE 2)

(* The user of open is told that it is open only if the server has stored  *)
(* the asset whole, when nothing of an earlier open is in the buffer.      *)
OpenedIsStored ==
  told = "opened" /\ ~stale /\ Sound => HoldsAllBut(0)

Over == client \in {"done", "gone"} /\ child \in {"done", "gone"}

(* Once the child has its turn, an asset that fits into the socket buffers *)
(* is transferred or given up, whoever is refused, killed or slow.         *)
EndsIfItFits == (Length <= Capacity /\ child # "queue") ~> Over

HoldsLocks == child \in {"serve", "send", "store", "last"}

(* The child of an open lets go of the locks when it has them, however     *)
(* large the asset.                                                        *)
OpenReleasesLocks == (op = "OPA" /\ HoldsLocks) ~> ~HoldsLocks

(* Every child that has the locks lets go of them.                         *)
LocksReleased == HoldsLocks ~> ~HoldsLocks

(* What the server has answered reaches the user.                          *)
AnswerIsTold == (reply # "none") ~> (client \in {"done", "gone"})

(* The user is told that the auction is open when the server has said so.  *)
ToldOpened == told = "opened" => reply = "OK"
===============================================================================
