----------------------------- MODULE MCShowRecord -----------------------------
(* ShowRecord for TLC.                                                     *)
EXTENDS ShowRecordProperties
===============================================================================
