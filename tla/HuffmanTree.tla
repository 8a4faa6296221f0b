---------------------------- MODULE HuffmanTree ----------------------------
(***************************************************************************)
(* How igzip makes a Huffman code of a histogram (gen_huff_code_lens and   *)
(* set_huff_codes): the symbols go into a heap, the two lightest nodes are *)
(* joined until one is left, the tree is walked for the depth of each      *)
(* symbol, depths over the limit are traded in pairs, and codes follow     *)
(* from the lengths:                                                       *)
(*                                                                         *)
(*   InitHeap -> Merge* -> Root -> Walk* -> Limit* -> Assign -> SetCodes   *)
(*                                                                         *)
(* Heap, tree and count of lengths share one array (struct heap_tree): the *)
(* heap from its bottom, nodes from its top downwards, and the counts over *)
(* the heap once that is empty.                                            *)
(***************************************************************************)
EXTENDS HuffmanCode

CONSTANTS
  MAX_HISTHEAP_SIZE,  (* Symbols a histogram can have.                      *)
  Freqs,              (* Frequencies a symbol may have.                     *)
  HistSizes,          (* Sizes of the histograms.                           *)
  Limits              (* Values of max_code_len.                            *)

HEAP_TREE_SIZE       == 3 * MAX_HISTHEAP_SIZE + 1
HEAP_TREE_NODE_START == HEAP_TREE_SIZE - 1

ASSUME TreeAssumption ==
  /\ MAX_HISTHEAP_SIZE \in Nat \ {0} /\ Freqs \subseteq Nat
  /\ HistSizes \subseteq 2..MAX_HISTHEAP_SIZE
  /\ Limits \subseteq Nat /\ \A l \in Limits, n \in HistSizes : 2^l >= n

VARIABLES
  histogram,
  complete_start,     (* Symbols from this one on get a code in any case.   *)
  max_code_len,
  making,             (* The step of the construction.                      *)
  heap,               (* heap[1 .. heap_size + 1], the last a sentinel.     *)
  node_ptr,           (* The next free node, going down.                    *)
  tree,               (* The nodes: child, and depth once it is known.      *)
  at,                 (* i of fix_code_lens                                 *)
  leaves,             (* tree[root_node .. j - 1], packed by fix_code_lens. *)
  code_len_count,     (* code_len_count[1 .. code_len]                      *)
  lens, code          (* codes[].length and codes[].code                    *)

treeVars == <<node_ptr, tree>>
codeVars == <<histogram, complete_start, max_code_len, making, heap, treeVars, at, leaves,
          code_len_count, lens, code>>

Symbols   == DOMAIN histogram
heap_size == Len(heap) - 1
code_len  == Len(code_len_count)

(* An element of the heap: a frequency above the index of a symbol or node. *)
Key(freq, node) == freq * HEAP_TREE_SIZE + node
Freq(key) == key \div HEAP_TREE_SIZE
Node(key) == key % HEAP_TREE_SIZE

(* The sentinel, -1 in the code: above all keys.                            *)
Top == Key((MAX_HISTHEAP_SIZE + 1) * (Largest(Freqs) + 1), 0)

-----------------------------------------------------------------------------
(* The histogram's symbols in order, and at least two of them.              *)
Present == {s \in Symbols : histogram[s] # 0 \/ s >= complete_start}

Rank(S, s) == Cardinality({t \in S : t < s})

Elements ==
  LET keys == [i \in 1..Cardinality(Present) |->
                 LET s == CHOOSE s \in Present : Rank(Present, s) = i - 1
                 IN Key(histogram[s], s)]
  IN CASE Present = {} -> <<Key(1, 0), Key(1, 1)>>
       [] Cardinality(Present) = 1 ->
            Append(keys, IF histogram[0] = 0 THEN Key(1, 0) ELSE Key(1, 1))
       [] OTHER -> keys

(* h[i] sinks below lighter children.                                       *)
Lighter(h, c) == IF h[c] <= h[c + 1] THEN c ELSE c + 1

heapify(start, size, index) ==
  LET Sift[h \in Seq(Nat), i \in Nat] ==
        IF 2 * i > size THEN h
        ELSE LET c == Lighter(h, 2 * i)
             IN IF h[i] > h[c] THEN Sift[[h EXCEPT ![i] = h[c], ![c] = h[i]], c] ELSE h
  IN Sift[start, index]

build_heap(start, size) ==
  LET From[i \in Nat] ==
        IF i > size \div 2 THEN Append(start, Top) ELSE heapify(From[i + 1], size, i)
  IN From[1]

NoNodes == [i \in 1..HEAP_TREE_NODE_START |-> [child |-> 0, depth |-> 0]]

InitCode ==
  /\ histogram = <<>> /\ complete_start = 0 /\ max_code_len = 0
  /\ making = "idle"
  /\ heap = <<>> /\ node_ptr = HEAP_TREE_NODE_START /\ tree = NoNodes
  /\ at = 0 /\ leaves = <<>> /\ code_len_count = <<>>
  /\ lens = <<>> /\ code = <<>>

Start(freqs, complete, limit) ==
  /\ making' = "init"
  /\ histogram' = freqs /\ complete_start' = complete /\ max_code_len' = limit
  /\ UNCHANGED <<heap, treeVars, at, leaves, code_len_count, lens, code>>

InitHeap ==
  /\ making = "init"
  /\ heap' = build_heap(Elements, Len(Elements))
  /\ making' = "merge"
  /\ UNCHANGED <<histogram, complete_start, max_code_len, treeVars, at, leaves,
                 code_len_count, lens, code>>

(* build_huff_tree: one iteration.  Of the pair the heavier node comes      *)
(* first in the array.                                                      *)
Join_Mut(h1, h2, node) == Key(Freq(h1), node)

Join(h1, h2, node) == Key(Freq(h1) + Freq(h2), node)

Store(h1, h2) ==
  [tree EXCEPT ![node_ptr].child = Node(h1), ![node_ptr - 1].child = Node(h2)]

Merge ==
  /\ making = "merge" /\ heap_size > 1
  /\ LET n == heap_size - 1
         last == [i \in 1..(n + 1) |->
                    IF i = n + 1 THEN Top ELSE IF i = 1 THEN heap[heap_size] ELSE heap[i]]
     IN \E h \in {heapify(last, n, 1)} :
          /\ heap' = heapify([h EXCEPT ![1] = Join(heap[1], h[1], node_ptr)], n, 1)
          /\ tree' = Store(heap[1], h[1])
  /\ node_ptr' = node_ptr - 2
  /\ UNCHANGED <<histogram, complete_start, max_code_len, making, at, leaves,
                 code_len_count, lens, code>>

Root ==
  /\ making = "merge" /\ heap_size = 1
  /\ tree' = [tree EXCEPT ![node_ptr].child = Node(heap[1])]
  /\ at' = node_ptr
  /\ making' = "walk"
  /\ UNCHANGED <<histogram, complete_start, max_code_len, heap, node_ptr, leaves,
                 code_len_count, lens, code>>

-----------------------------------------------------------------------------
(* fix_code_lens.  The walk goes up the array, parents before children.     *)
Longer(count, depth) == count \o [l \in 1..(depth - Len(count)) |-> 0]

IsInternal(child) == child > MAX_HISTHEAP_SIZE

Walk ==
  /\ making = "walk" /\ at <= HEAP_TREE_NODE_START
  /\ LET child == tree[at].child
         depth == tree[at].depth
     IN IF IsInternal(child)
          THEN /\ tree' = [tree EXCEPT ![child].depth = depth + 1,
                                       ![child - 1].depth = depth + 1]
               /\ UNCHANGED <<leaves, code_len_count>>
          ELSE /\ leaves' = Append(leaves, tree[at])
               /\ code_len_count' = [Longer(code_len_count, depth) EXCEPT ![depth] = @ + 1]
               /\ UNCHANGED tree
  /\ at' = at + 1
  /\ UNCHANGED <<histogram, complete_start, max_code_len, making, heap, node_ptr, lens, code>>

(* Two of the longest codes go: one becomes a bit shorter, the other the    *)
(* sibling of the longest code under the limit, which gets a bit longer.    *)
Shorter == {l \in 1..(max_code_len - 1) : code_len_count[l] # 0}

Trade_Mut(count, l, long) ==
  [count EXCEPT ![l] = @ - 1, ![l + 1] = @ + 1, ![long - 1] = @ + 1, ![long] = @ - 2]

Trade(count, l, long) ==
  [count EXCEPT ![l] = @ - 1, ![l + 1] = @ + 2, ![long - 1] = @ + 1, ![long] = @ - 2]

Limit ==
  /\ making = "walk" /\ at > HEAP_TREE_NODE_START /\ code_len > max_code_len
  /\ \E count \in {Trade(code_len_count, Largest(Shorter), code_len)} :
       code_len_count' = IF count[code_len] = 0 THEN SubSeq(count, 1, code_len - 1) ELSE count
  /\ UNCHANGED <<histogram, complete_start, max_code_len, making, heap, treeVars, at, leaves,
                 lens, code>>

(* After trades the leaves keep their order: the p-th gets the length the   *)
(* counts say.                                                              *)
UpTo(l) == SumTo(l, LAMBDA k : code_len_count[k])
LengthOf(p) == Least({l \in 1..code_len : UpTo(l) >= p})

Lengths ==
  IF \E p \in DOMAIN leaves : leaves[p].depth > max_code_len
    THEN [p \in DOMAIN leaves |-> LengthOf(p)]
    ELSE [p \in DOMAIN leaves |-> leaves[p].depth]

Assign ==
  /\ making = "walk" /\ at > HEAP_TREE_NODE_START /\ code_len <= max_code_len
  /\ \E length \in {Lengths} :
       lens' = [s \in Symbols |->
                  IF \E p \in DOMAIN leaves : leaves[p].child = s
                    THEN length[CHOOSE p \in DOMAIN leaves : leaves[p].child = s]
                    ELSE 0]
  /\ making' = "codes"
  /\ UNCHANGED <<histogram, complete_start, max_code_len, heap, treeVars, at, leaves,
                 code_len_count, code>>

(* set_huff_codes and set_dist_huff_codes, with the counts of fix_code_lens. *)
BlCount(l) == IF l \in 1..code_len THEN code_len_count[l] ELSE 0

SetCodes ==
  /\ making = "codes"
  /\ code' = AssignCodes(lens, [l \in 0..max_code_len |-> BlCount(l)])
  /\ making' = "done"
  /\ UNCHANGED <<histogram, complete_start, max_code_len, heap, treeVars, at, leaves,
                 code_len_count, lens>>

(* The array and the counts are gone when their function returns.           *)
Return ==
  /\ making = "done" /\ making' = "returned"
  /\ histogram' = <<>> /\ complete_start' = 0 /\ max_code_len' = 0
  /\ heap' = <<>> /\ node_ptr' = HEAP_TREE_NODE_START /\ tree' = NoNodes
  /\ at' = 0 /\ leaves' = <<>> /\ code_len_count' = <<>>
  /\ UNCHANGED <<lens, code>>

gen_huff_code_lens == InitHeap \/ Merge \/ Root \/ Walk \/ Limit \/ Assign

Generate ==
  \/ /\ making = "idle"
     /\ \E n \in HistSizes, limit \in Limits :
          \E freqs \in [0..(n - 1) -> Freqs], complete \in {0, n - 1, n} :
            Start(freqs, complete, limit)
  \/ gen_huff_code_lens
  \/ SetCodes

-----------------------------------------------------------------------------
(* Properties.                                                             *)

(* Heap, nodes and counts never meet in the array they share, and a node's  *)
(* index is never taken for a symbol's (child > MAX_HISTHEAP_SIZE): every   *)
(* size of histogram up to the largest has room.  code_len_count has two    *)
(* elements per element of the tree.                                        *)
ArrayIsShared ==
  /\ node_ptr > MAX_HISTHEAP_SIZE + 1
  /\ making = "merge" => heap_size + 1 < node_ptr
  /\ making = "walk"  => code_len \div 2 < node_ptr

(* Kraft's sum of the code lengths is 1 when the walk is over and after     *)
(* each trade, and no trade loses a symbol; the two assertions in the loop  *)
(* of fix_code_lens hold.                                                   *)
TradesKeepCode ==
  making = "walk" /\ at > HEAP_TREE_NODE_START =>
    /\ SumTo(code_len, LAMBDA l : code_len_count[l] * 2^(code_len - l)) = 2^code_len
    /\ UpTo(code_len) = Len(leaves)
    /\ code_len > max_code_len => code_len_count[code_len] > 1 /\ Shorter # {}

(* The result: every symbol that occurs has a code of at most max_code_len  *)
(* bits, no code begins another, and there is no bit string that begins no  *)
(* code.                                                                    *)
CodeIsComplete ==
  making = "done" =>
    /\ \A s \in Symbols : lens[s] <= max_code_len /\ (s \in Present => lens[s] > 0)
    /\ PrefixFree(lens, code)
    /\ Kraft(lens, max_code_len) = 2^max_code_len

(* A symbol that occurs more often never has the longer code, also when     *)
(* lengths were traded (what is left of the tree is its leaves' order).     *)
FrequentIsShort ==
  making = "done" =>
    \A s, t \in Coded(lens) : histogram[s] > histogram[t] => lens[s] <= lens[t]

(* If no length was over the limit, no complete code has a smaller size.    *)
(* A complete code is known by its sorted lengths.                          *)
Profiles ==
  [n \in 2..MAX_HISTHEAP_SIZE |->
     {p \in [1..n -> 1..(n - 1)] :
        /\ \A i \in 1..(n - 1) : p[i] <= p[i + 1]
        /\ SumTo(n, LAMBDA i : 2^(n - p[i])) = 2^n}]

CodeIsOptimal ==
  making = "done" /\ Cardinality(Present) >= 2
      /\ (\A p \in DOMAIN leaves : leaves[p].depth <= max_code_len) =>
    LET n == Cardinality(Present)
        Heavier(s) == {t \in Present : Key(histogram[t], t) > Key(histogram[s], s)}
        heaviest == [i \in 1..n |-> CHOOSE s \in Present : Cardinality(Heavier(s)) = i - 1]
        size == SumTo(n, LAMBDA i : histogram[heaviest[i]] * lens[heaviest[i]])
    IN \A p \in Profiles[n] :
         SumTo(n, LAMBDA i : histogram[heaviest[i]] * p[i]) >= size

(* The code of a histogram is a code at every step of its making, and in    *)
(* the end complete and limited (build_huff_tree, fix_code_lens and         *)
(* set_huff_codes together).                                                *)
CodeIsRight == ArrayIsShared /\ TradesKeepCode /\ CodeIsComplete

(* And it is as short as it can be (proc_heap_base.c, whose heap finds the  *)
(* two lightest subtrees).                                                  *)
CodeIsShort == FrequentIsShort /\ CodeIsOptimal
=============================================================================
