----------------------------- MODULE MCFeedScan -----------------------------
(* Small instances of FeedScan.                                            *)
EXTENDS FeedScan
=============================================================================
