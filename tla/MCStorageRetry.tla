---------------------------- MODULE MCStorageRetry ----------------------------
(***************************************************************************)
(* Bounds for StorageRetry. A clock of 16 ticks and a period of 2: half    *)
(* the range is four periods, which one quiet stretch passes.              *)
(***************************************************************************)
EXTENDS StorageRetry
=============================================================================
