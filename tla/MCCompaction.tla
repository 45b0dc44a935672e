---------------------------- MODULE MCCompaction ----------------------------
EXTENDS Compaction
=============================================================================
