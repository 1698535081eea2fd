---------------------------- MODULE MCAssetTransfer ----------------------------
(* AssetTransfer for TLC.                                                  *)
EXTENDS AssetTransferProperties
===============================================================================
