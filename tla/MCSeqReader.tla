------------------------------ MODULE MCSeqReader ------------------------------
(* The configurations TLC checks SeqReader in. *)
EXTENDS SeqReader

AllModes == [withL1 : BOOLEAN, full : BOOLEAN]
================================================================================
