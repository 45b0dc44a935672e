------------------------------ MODULE MCIngest ------------------------------
EXTENDS Ingest

\* A message that may be dropped, one that may be moved out or stay inline, and one
\* with the first one's text, which comes after whatever befell them and repeats the
\* first row or, when that message was dropped, does not.
MCTurns ==
    <<[text : {"hello"}, kind : {"plain", "skip"}],
      [text : {"data"}, kind : {"big"}],
      [text : {"hello"}, kind : {"plain"}]>>
=============================================================================
