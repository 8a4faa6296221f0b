---------------------------- MODULE MCGzipHeader ----------------------------
(* Small instances of GzipHeader.                                          *)
EXTENDS GzipHeader

Both == {"name", "comment"}

GzipHeaders ==
  [format : {"gzip"}, extra : {Null, 0, 2, 3}, name : {Null, 0, 2}, comment : {Null, 1},
   hcrc : BOOLEAN, dict : {FALSE}, intact : BOOLEAN, ended : {Both}]

(* Strings without a NUL: the reader takes what follows for the rest.      *)
OpenHeaders ==
  [format : {"gzip"}, extra : {Null, 2}, name : {Null, 0, 2}, comment : {Null, 1},
   hcrc : BOOLEAN, dict : {FALSE}, intact : {TRUE}, ended : SUBSET Both \ {Both}]

ZlibHeaders ==
  [format : {"zlib"}, extra : {Null}, name : {Null}, comment : {Null},
   hcrc : {FALSE}, dict : BOOLEAN, intact : BOOLEAN, ended : {Both}]

MCHeaders == GzipHeaders \cup OpenHeaders \cup ZlibHeaders
MCBufLens == {Null, 1, 2}
=============================================================================
