----------------------------- MODULE MCPipeline -----------------------------
(* Small instances of Pipeline.                                            *)
EXTENDS Pipeline, TLC

SiteSymmetry == Permutations(Pages) \cup Permutations(Slugs)
=============================================================================
