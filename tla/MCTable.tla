--------------------------------- MODULE MCTable --------------------------------
(***************************************************************************)
(* Every hash function from the keys to some hashes: all keys in one chain, *)
(* chains that run into each other or around the end of the array, and     *)
(* chains that no longer do when the array grows.                          *)
(***************************************************************************)
EXTENDS Table

CONSTANT Hashes

MCHashFunctions == [Keys -> Hashes]
=============================================================================
