----------------------------- MODULE MCExtraction -----------------------------
EXTENDS Extraction

\* Two surfaces of one entity, and an entry that is skipped.
MCCanonical == [s \in Surfaces |-> IF s = "PR" THEN "pr" ELSE s]
MCOutputs == [d \in Leaves |-> {{"pr", "junk"}, {"pr", "PR"}}]
=============================================================================
