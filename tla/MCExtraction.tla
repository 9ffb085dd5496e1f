------------------------------ MODULE MCExtraction -----------------------------
(***************************************************************************)
(* Instances of Extraction for TLC: two dump files, one more exchange than *)
(* files, files of two records, or of one or two.                          *)
(***************************************************************************)
EXTENDS ExtractionInvariant

MCFiles     == {"artists", "labels"}
MCDataTypes == {"artists", "labels", "releases"}
OneImage    == {2}
TwoImages   == {1, 2}
================================================================================
