---------------------------- MODULE MCIgzipFiles ----------------------------
EXTENDS IgzipFiles

\* Plain files about the sizes of one and two buffers.
Compressing ==
  {[mode |-> "compress", plain |-> n, code |-> c, remove |-> TRUE, faulty |-> f] :
     n \in {0, 1, 3, 4, 6, 7}, c \in {2, 3, 4, 6, 9}, f \in BOOLEAN}

\* Members with data that fills no, one or several output buffers; tails that
\* are cut, damaged, junk, or junk that looks like a header for one unit.
Small   == <<"m1", "m2", "e", "b1", "t">>
Large   == <<"m1", "m2", "h", "e", "b3", "b3", "b0", "t">>
Empty   == <<"m1", "m2", "e", "t">>
Members == {<<>>, <<Small>>, <<Large>>, <<Small, Large>>, <<Large, Empty, Small>>, <<Empty, Large>>}
Tails   == {<<>>, <<"x">>, <<"x", "x", "x">>, <<"m1">>, <<"m1", "x">>, <<"m1", "m2">>, <<"m1", "m2", "h">>,
            <<"m1", "m2", "e", "b3">>, <<"m1", "m2", "e", "b1", "b3", "x">>}
Expanding(mode, m, s, f) == [mode |-> mode, members |-> m, tail |-> s, remove |-> TRUE, faulty |-> f]

MCLists ==
  {<<f>> : f \in Compressing} \cup
  {<<Expanding(mode, m, s, f)>> : mode \in {"decompress", "test"}, m \in Members, s \in Tails, f \in BOOLEAN} \cup
  {<<Expanding("decompress", <<>>, <<"x">>, FALSE), Expanding("decompress", <<Small>>, <<>>, FALSE)>>}
=============================================================================
