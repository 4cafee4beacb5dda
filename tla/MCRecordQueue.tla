--------------------------- MODULE MCRecordQueue ----------------------------
(* A queue of three slots whose counters wrap at six, with two records: the *)
(* ring index and every counter wrap many times within the state space.    *)
EXTENDS RecordQueue
=============================================================================
