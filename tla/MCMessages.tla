------------------------------ MODULE MCMessages ------------------------------
(* Messages for TLC.                                                       *)
EXTENDS MessagesProperties
===============================================================================
