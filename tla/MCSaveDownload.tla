--------------------------- MODULE MCSaveDownload ---------------------------
(* Three attempts: one that fails late, one that meets what it left behind,  *)
(* and one that replaces it.                                                 *)
EXTENDS SaveDownload
=============================================================================
