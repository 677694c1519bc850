--------------------------- MODULE MCDocumentTable ---------------------------
(* Model values for TLC: a folder, a document in it, and one below or      *)
(* beside it.                                                              *)
EXTENDS DocumentTable

MCMaxDocs == 3
MCMaxOps == 4
=============================================================================
