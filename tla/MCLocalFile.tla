---------------------------- MODULE MCLocalFile ----------------------------
(* Instances of LocalFile for TLC: a configuration of one piece and one of *)
(* two, so that a short one may be written over a long one.                *)
EXTENDS LocalFile, TLC

CONSTANTS short, long, scrape, api, main

MCSize == short :> 1 @@ long :> 2
Symmetry == Permutations(Inode)
=============================================================================
