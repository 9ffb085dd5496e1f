----------------------------- MODULE MCDownloader ------------------------------
(***************************************************************************)
(* Downloader for TLC: two entities of the four, any number of runs.       *)
(***************************************************************************)
EXTENDS Downloader
================================================================================
