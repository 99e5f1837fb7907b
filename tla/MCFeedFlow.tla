------------------------------ MODULE MCFeedFlow ------------------------------
(***************************************************************************)
(* FeedFlow for TLC, with the documents of FeedDocuments.                   *)
(***************************************************************************)
EXTENDS FeedDocuments, FeedFlow
=============================================================================
