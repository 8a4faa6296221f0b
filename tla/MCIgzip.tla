------------------------------- MODULE MCIgzip -------------------------------
(* Small instances of Igzip.                                               *)
EXTENDS Igzip, MCThreadPool, MCIgzipFiles

MCFiles == MCLists \cup {<<>>}
=============================================================================
