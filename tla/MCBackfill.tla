------------------------------ MODULE MCBackfill ------------------------------
EXTENDS Backfill

\* Document 3 fills a batch of its own.
MCTokens == [d \in Docs |-> IF d = 3 THEN 2 ELSE 1]
=============================================================================
