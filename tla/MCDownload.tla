----------------------------- MODULE MCDownload -----------------------------
(* Two mirrors for the safety of downloads. *)
EXTENDS Download
CONSTANTS x, y
TwoMirrors == <<x, y>>
=============================================================================
