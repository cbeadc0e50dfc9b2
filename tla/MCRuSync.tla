------------------------------ MODULE MCRuSync ------------------------------
(* Small instances of RuSync.                                              *)
EXTENDS RuSync, TLC

SiteSymmetry == Permutations(Pages) \cup Permutations(Slugs)
=============================================================================
