----------------------------- MODULE RadixTree ------------------------------
(***************************************************************************)
(* The radix tree of src/Algorithm/radix-tree/radix_tree.cpp, on the heap: *)
(* a node is a block at an address, edges are pointers, and a block that   *)
(* is resized moves, after which every pointer to it has to be corrected.  *)
(* When realloc leaves the block in place the same corrections store what  *)
(* is there already, so moving is the case to check.  Keys are sequences   *)
(* of bytes; the byte behind a key, which match may read, is the           *)
(* terminator of the C string that main.cpp passes.                        *)
(***************************************************************************)
EXTENDS Naturals, Sequences, SequencesExt

CONSTANTS
    Keys,       \* the keys used, sequences of bytes
    MaxSize,    \* bound: copies in the tree
    NUL         \* the terminator

ASSUME RadixAssumption ==
    /\ \A k \in Keys : k # <<>> /\ NUL \notin ToSet(k)
    /\ MaxSize \in Nat

VARIABLES
    heap,   \* address -> node, for the allocated blocks
    root_,  \* the address of the root
    size_,  \* the number of copies, as the tree counts them
    ret,    \* the answer of the last operation
    alive   \* not destroyed

vars == <<heap, root_, size_, ret, alive>>

-----------------------------------------------------------------------------
(* Blocks of memory.  An edge is the first byte of the child and a pointer *)
(* to it; edges are numbered from 1 here, from 0 in the code.              *)

make_node(refs, prefix, edges) == [refs |-> refs, prefix |-> prefix, edges |-> edges]

(* The address malloc, or a realloc that moves, returns: a free one, all   *)
(* are alike.  A block is named after the word spelled on the way to it    *)
(* and a number, so that equal trees have few different heaps.             *)
malloc(h, word) ==
    LET a(n) == [word |-> word, n |-> n]
    IN a(CHOOSE n \in 0..2 : a(n) \notin DOMAIN h /\ \A l \in 0..n - 1 : a(l) \in DOMAIN h)

put(h, a, n) == [x \in DOMAIN h \cup {a} |-> IF x = a THEN n ELSE h[x]]

free(h, S) == [x \in DOMAIN h \ S |-> h[x]]

edge_to(h, a) == [byte |-> h[a].prefix[1], node |-> a]

set_node_at(h, a, i, n) == [h EXCEPT ![a].edges[i].node = n]

-----------------------------------------------------------------------------
(* One round of the loop of match: compare the prefix of the current node, *)
(* then follow the edge of the next byte, if there is one.                 *)

Agreed(s, t) == LongestCommonPrefix({s, t})

RECURSIVE descend(_, _)
descend(key, m) ==
    LET n      == heap[m.current]
        j      == Len(Agreed(n.prefix, SubSeq(key, m.nkey + 1, Len(key))))
        i      == m.nkey + j
        here   == [m EXCEPT !.nkey = i, !.nprefix = j]
        onward == {k \in DOMAIN n.edges :
                     i + 1 < Len(key) /\ n.edges[k].byte = key[i + 1]}
    IN IF n.prefix = <<>> /\ n.edges = <<>> THEN m
       ELSE IF j # Len(n.prefix) \/ onward = {} THEN here
       ELSE LET k == CHOOSE k \in onward : \A l \in onward : k <= l
            IN descend(key, [here EXCEPT !.gp_edge = m.edge, !.edge = k,
                               !.grandparent = m.parent, !.parent = m.current,
                               !.current = n.edges[k].node])

match_result == [nkey |-> 0, nprefix |-> 0, edge |-> 1, gp_edge |-> 1,
                 current |-> root_, parent |-> root_, grandparent |-> root_]

match(k) == descend(Append(k, NUL), match_result)

(* match found the key's own place, and the node there holds the key. *)
Found(k, m) == /\ m.nkey = Len(k)
               /\ m.nprefix = Len(heap[m.current].prefix)
               /\ heap[m.current].refs > 0

-----------------------------------------------------------------------------
Init == /\ root_ = malloc(<<>>, <<>>)
        /\ heap = put(<<>>, root_, make_node(0, <<>>, <<>>))
        /\ size_ = 0
        /\ ret = FALSE
        /\ alive = TRUE

(* A new leaf under the current node, which is resized for one more edge.  *)
(* The root is known by its empty prefix.                                  *)
AddLeaf(k, m) ==
    LET cur  == heap[m.current]
        leaf == malloc(heap, k)
        h1   == put(heap, leaf, make_node(1, SubSeq(k, m.nkey + 1, Len(k)), <<>>))
        at   == malloc(h1, SubSeq(k, 1, m.nkey))
        h2   == put(free(h1, {m.current}), at,
                    [cur EXCEPT !.edges = Append(@, edge_to(h1, leaf))])
    IN /\ m.nkey # Len(k)
       /\ m.nkey = 0 \/ m.nprefix = Len(cur.prefix)
       /\ IF cur.prefix = <<>>
          THEN /\ root_' = at
               /\ heap' = h2
          ELSE /\ heap' = set_node_at(h2, m.parent, m.edge, at)
               /\ UNCHANGED root_
       /\ ret' = TRUE

(* The key leaves the current node's prefix in the middle: the node keeps  *)
(* the common part and gets two children, the key's rest and its own.      *)
SplitTwoWay(k, m) ==
    LET cur   == heap[m.current]
        j     == m.nprefix
        word  == SubSeq(k, 1, m.nkey)
        rest  == SubSeq(cur.prefix, j + 1, Len(cur.prefix))
        leaf  == malloc(heap, k)
        h1    == put(heap, leaf, make_node(1, SubSeq(k, m.nkey + 1, Len(k)), <<>>))
        split == malloc(h1, word \o rest)
        h2    == put(h1, split, make_node(cur.refs, rest, cur.edges))
        at    == malloc(h2, word)
        h3    == put(free(h2, {m.current}), at,
                     make_node(0, SubSeq(cur.prefix, 1, j),
                               <<edge_to(h2, leaf), edge_to(h2, split)>>))
    IN /\ m.nkey # Len(k)
       /\ m.nkey # 0 /\ j # Len(cur.prefix)
       /\ heap' = set_node_at(h3, m.parent, m.edge, at)
       /\ ret' = TRUE
       /\ UNCHANGED root_

(* Mutant: the parent still points to the block that moved. *)
SplitPrefix_StalePointer(k, m) ==
    LET cur   == heap[m.current]
        j     == m.nprefix
        rest  == SubSeq(cur.prefix, j + 1, Len(cur.prefix))
        split == malloc(heap, k \o rest)
        h1    == put(heap, split, make_node(cur.refs, rest, cur.edges))
        at    == malloc(h1, k)
    IN /\ m.nkey = Len(k) /\ j # Len(cur.prefix)
       /\ heap' = put(free(h1, {m.current}), at,
                      make_node(1, SubSeq(cur.prefix, 1, j), <<edge_to(h1, split)>>))
       /\ ret' = TRUE
       /\ UNCHANGED root_

(* The key ends inside the current node's prefix. *)
SplitPrefix(k, m) ==
    LET cur   == heap[m.current]
        j     == m.nprefix
        rest  == SubSeq(cur.prefix, j + 1, Len(cur.prefix))
        split == malloc(heap, k \o rest)
        h1    == put(heap, split, make_node(cur.refs, rest, cur.edges))
        at    == malloc(h1, k)
        h2    == put(free(h1, {m.current}), at,
                     make_node(1, SubSeq(cur.prefix, 1, j), <<edge_to(h1, split)>>))
    IN /\ m.nkey = Len(k) /\ j # Len(cur.prefix)
       /\ heap' = set_node_at(h2, m.parent, m.edge, at)
       /\ ret' = TRUE
       /\ UNCHANGED root_

(* Mutant: the answer does not depend on the count. *)
Bump_AlwaysNew(k, m) ==
    /\ m.nkey = Len(k) /\ m.nprefix = Len(heap[m.current].prefix)
    /\ heap' = [heap EXCEPT ![m.current].refs = @ + 1]
    /\ ret' = TRUE
    /\ UNCHANGED root_

(* The place exists: one more copy. *)
Bump(k, m) ==
    /\ m.nkey = Len(k) /\ m.nprefix = Len(heap[m.current].prefix)
    /\ heap' = [heap EXCEPT ![m.current].refs = @ + 1]
    /\ ret' = (heap[m.current].refs = 0)
    /\ UNCHANGED root_

insert(k) ==
    /\ alive /\ size_ < MaxSize
    /\ \/ Bump(k, match(k))
       \/ AddLeaf(k, match(k))
       \/ SplitTwoWay(k, match(k))
       \/ SplitPrefix(k, match(k))
    /\ size_' = size_ + 1
    /\ UNCHANGED alive

-----------------------------------------------------------------------------
(* Node a takes over its child c: prefixes joined, the child's edges and   *)
(* count.  The blocks in gone are freed.                                   *)
Absorb(a, c, gone, at) ==
    put(free(heap, {a, c} \cup gone), at,
        make_node(heap[c].refs, heap[a].prefix \o heap[c].prefix, heap[c].edges))

(* The word of the parent, for the name of its block. *)
ParentWord(k, m) == SubSeq(k, 1, Len(k) - Len(heap[m.current].prefix))

(* Other copies remain, or the node is a fork: only the count changes. *)
EraseCount(m) ==
    /\ heap[m.current].refs > 1 \/ Len(heap[m.current].edges) > 1
    /\ heap' = [heap EXCEPT ![m.current].refs = @ - 1]
    /\ UNCHANGED root_

(* The node has one child left and is merged with it. *)
EraseAbsorb(k, m) ==
    LET cur == heap[m.current]
        at  == malloc(heap, k \o heap[cur.edges[1].node].prefix)
    IN /\ cur.refs = 1 /\ Len(cur.edges) = 1
       /\ heap' = set_node_at(Absorb(m.current, cur.edges[1].node, {}, at),
                              m.parent, m.edge, at)
       /\ UNCHANGED root_

(* A leaf goes and its parent, which holds no key and is not the root, is  *)
(* merged with its other child.                                            *)
MergesParent(m) ==
    /\ Len(heap[m.parent].edges) = 2
    /\ heap[m.parent].refs = 0
    /\ m.parent # root_

EraseMerge(k, m) ==
    LET other == heap[m.parent].edges[3 - m.edge].node
        at    == malloc(heap, ParentWord(k, m) \o heap[other].prefix)
    IN /\ heap[m.current].refs = 1 /\ heap[m.current].edges = <<>>
       /\ MergesParent(m)
       /\ heap' = set_node_at(Absorb(m.parent, other, {m.current}, at),
                              m.grandparent, m.gp_edge, at)
       /\ UNCHANGED root_

(* A leaf goes: the last edge of the parent takes its place. *)
EraseLeaf(k, m) ==
    LET par   == heap[m.parent]
        at    == malloc(heap, ParentWord(k, m))
        edges == Front([par.edges EXCEPT ![m.edge] = Last(par.edges)])
        h1    == put(free(heap, {m.current, m.parent}), at,
                     [par EXCEPT !.edges = edges])
    IN /\ heap[m.current].refs = 1 /\ heap[m.current].edges = <<>>
       /\ ~MergesParent(m)
       /\ IF par.prefix = <<>>
          THEN /\ root_' = at
               /\ heap' = h1
          ELSE /\ heap' = set_node_at(h1, m.grandparent, m.gp_edge, at)
               /\ UNCHANGED root_

erase(k) ==
    /\ alive
    /\ \/ /\ ~Found(k, match(k))
          /\ ret' = FALSE
          /\ UNCHANGED <<heap, root_, size_>>
       \/ /\ Found(k, match(k))
          /\ \/ EraseCount(match(k))
             \/ EraseAbsorb(k, match(k))
             \/ EraseMerge(k, match(k))
             \/ EraseLeaf(k, match(k))
          /\ size_' = size_ - 1
          /\ ret' = TRUE
    /\ UNCHANGED alive

contains(k) ==
    /\ alive
    /\ ret' = Found(k, match(k))
    /\ UNCHANGED <<heap, root_, size_, alive>>

-----------------------------------------------------------------------------
(* The blocks free_nodes reaches from a, one entry for each visit. *)
RECURSIVE free_nodes(_)
free_nodes(a) ==
    FlattenSeq([i \in DOMAIN heap[a].edges |-> free_nodes(heap[a].edges[i].node)])
        \o <<a>>

(* The destructor. *)
destroy ==
    /\ alive
    /\ heap' = free(heap, ToSet(free_nodes(root_)))
    /\ alive' = FALSE
    /\ UNCHANGED <<root_, size_, ret>>

Next == destroy \/ \E k \in Keys : insert(k) \/ erase(k) \/ contains(k)

Spec == Init /\ [][Next]_vars

-----------------------------------------------------------------------------
(* The nodes for which apply calls back, with the word it passes. *)
RECURSIVE visit_keys(_, _)
visit_keys(a, buffer) ==
    LET n    == heap[a]
        word == buffer \o n.prefix
    IN UNION {visit_keys(n.edges[i].node, word) : i \in DOMAIN n.edges}
         \cup (IF n.refs > 0 THEN {[node |-> a, word |-> word, refs |-> n.refs]} ELSE {})

apply == IF alive THEN visit_keys(root_, <<>>) ELSE {}

(* The multiset apply visits (no word twice, says SizeIsCopies). *)
Contents == LET seen == apply IN
    [w \in {v.word : v \in seen} |-> (CHOOSE v \in seen : v.word = w).refs]

TypeOK ==
    /\ \A a \in DOMAIN heap : heap[a].refs \in 0..MaxSize
    /\ size_ \in 0..MaxSize
    /\ ret \in BOOLEAN /\ alive \in BOOLEAN

(* Every allocated block is reached from the root, exactly once, and no    *)
(* other address is: the pointers to a moved block were all corrected, no  *)
(* block leaks and none is freed twice, by the destructor either.          *)
HeapIsTree ==
    /\ \A a \in DOMAIN heap : \A i \in DOMAIN heap[a].edges :
         heap[a].edges[i].node \in DOMAIN heap
    /\ alive => /\ ToSet(free_nodes(root_)) = DOMAIN heap
                /\ IsInjective(free_nodes(root_))
    /\ ~alive => heap = <<>>

(* The tree stays compact: a node other than the root spells something,    *)
(* and is a key or a fork; its edges are told apart by the first bytes of  *)
(* the children.  match relies on all three.                               *)
Compact ==
    alive => \A a \in DOMAIN heap :
        LET n == heap[a] IN
        /\ a # root_ => n.prefix # <<>> /\ (n.refs > 0 \/ Len(n.edges) > 1)
        /\ a = root_ => n.prefix = <<>> /\ n.refs = 0
        /\ \A i, j \in DOMAIN n.edges :
             /\ n.edges[i].byte = heap[n.edges[i].node].prefix[1]
             /\ i # j => n.edges[i].byte # n.edges[j].byte

(* size() is the number of copies held, and apply visits no word twice. *)
SizeIsCopies ==
    alive => /\ size_ = MapThenSumSet(LAMBDA v : v.refs, apply)
             /\ \A u, v \in apply : u.word = v.word => u = v

(* match, which looks at one path and one byte per edge, finds exactly the *)
(* keys that apply, which walks everything, visits.                        *)
MatchFinds ==
    alive => \A k \in Keys : Found(k, match(k)) <=> k \in DOMAIN Contents

Bag == INSTANCE KeyBag WITH bag <- Contents

(* The tree is a multiset of keys: whatever nodes insert and erase split,  *)
(* merge and move, the keys apply visits change as a multiset would, and   *)
(* insert and erase answer as it would.                                    *)
IsMultiset == Bag!Spec
=============================================================================
