----------------------------- MODULE MCBlobStore ----------------------------
(* Small instances of BlobStore.                                           *)
EXTENDS BlobStore, TLC

TaskSymmetry == Permutations(Tasks)
=============================================================================
