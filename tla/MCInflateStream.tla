-------------------------- MODULE MCInflateStream --------------------------
(* A small instance of InflateStream: bytes of two bits, a history of      *)
(* three bytes, and streams of a few headers and groups.                   *)
EXTENDS InflateStream

MCTrailerLen == [f \in {"raw", "zlib", "gzip"} |->
                   CASE f = "raw" -> 0 [] f = "zlib" -> 2 [] f = "gzip" -> 4]
(* A gzip stream has no dictionary.                                        *)
MCDictSizes == [f \in {"raw", "zlib", "gzip"} |-> IF f = "zlib" THEN {2} ELSE {0}]
MCRaw == [f \in {"raw"} |-> 0]

(* A distance as long as the history, and one a match overlaps with.       *)
MCMatches == [m \in {"far", "near"} |->
                IF m = "far" THEN [len |-> 3, dist |-> 3, code |-> 2, extra |-> 1]
                             ELSE [len |-> 4, dist |-> 1, code |-> 1, extra |-> 0]]

G(lits, tail, bits) == [kind |-> "group", lits |-> lits, tail |-> tail, bits |-> bits]
MCGroups == {G(3, "none", 4), G(2, "far", 4), G(2, "near", 3),
             G(0, "eob", 1), G(1, "eob", 3), G(1, "bad", 2)}

H(kind, first, last, len, final) ==
  [kind |-> kind, first |-> first, last |-> last, len |-> len, final |-> final]
MCHeaders == {H("coded", 0, 1, 0, TRUE), H("coded", 7, 3, 0, FALSE),
              H("stored", 0, 1, 4, FALSE), H("stored", 0, 1, 5, TRUE),
              H("bad", 1, 2, 0, TRUE)}
MCFewHeaders == {H("coded", 0, 1, 0, TRUE), H("stored", 0, 1, 2, TRUE)}
=============================================================================
