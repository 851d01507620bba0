------------------------------ MODULE MCNSFReader ------------------------------
(***************************************************************************)
(* An instance of NSFReader: two windows of three bytes above a RAM of two *)
(* bytes, and files of every length up to more than three banks.           *)
(***************************************************************************)
EXTENDS NSFReader

MCDriverCells == 10 .. 11
MCLengths     == 0 .. 10
MCHeaders ==
  [load : {4, 15, 16, 20}, initial : [0 .. 1 -> 0 .. 2]]
MCStoreAddresses == {1, 5, 8, 12, 13, 16, 20}
=============================================================================
