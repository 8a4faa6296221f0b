-------------------------- MODULE MCDeflateStream --------------------------
(* Small instances of DeflateStream.                                       *)
EXTENDS DeflateStream

(* hufftables_static has a header of three bits; hufftables_default has    *)
(* 109 bytes and no odd bits, scaled down to a size that still spans       *)
(* several calls; a custom table may have both.                            *)
StaticTable  == [hdr |-> 0,  extra |-> 3, eob |-> 7]
DefaultTable == [hdr |-> 12, extra |-> 0, eob |-> 9]
CustomTable  == [hdr |-> 3,  extra |-> 6, eob |-> 11]

MCAllTables  == {StaticTable, DefaultTable, CustomTable}

MCFormats    == {"raw", "gzip", "zlib", "gzip_no_hdr"}
MCFlushes    == {NO_FLUSH, SYNC_FLUSH, FULL_FLUSH}
=============================================================================
