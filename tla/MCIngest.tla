------------------------------- MODULE MCIngest --------------------------------
(***************************************************************************)
(* Model checking of Ingest, and the statement of the documentation the    *)
(* scraping source does not keep.                                          *)
(***************************************************************************)
EXTENDS Ingest

TwoFeeds == <<{1, 2}, {3}>>
QuietAndBusy == <<{}, {1, 2, 3}>>

\* quant_reddit_spec.md: "Ingest posts and selected comments idempotently by Reddit
\* fullname".  The scraped comments of two posts share the names t1_1, t1_2, ..., so
\* the comments of the second post are taken for duplicates and dropped.
ScrapedCommentsAreStored == NothingIsDropped
===============================================================================
