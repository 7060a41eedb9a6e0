-------------------------------- MODULE MCOT --------------------------------
(* Small documents and edits: inserts that are equal, that are a prefix of *)
(* each other, and that sort before and after each other.                  *)
EXTENDS OTEdits

MCTexts == {<<>>, <<7>>, <<7, 8>>}
MCInserts == {<<>>, <<1>>, <<2>>, <<1, 2>>}
MCDrafts == UNION {[1..n -> {1, 7, 8}] : n \in 0..3}

=============================================================================
