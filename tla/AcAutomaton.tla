---------------------------- MODULE AcAutomaton -----------------------------
(***************************************************************************)
(* The Aho-Corasick automaton of src/Algorithm/ac_automation.cpp: patterns *)
(* go into a trie, a breadth-first pass sets the failure pointers, a text  *)
(* is searched.  A node of the trie is the word spelled on the way to it.  *)
(***************************************************************************)
EXTENDS Integers, Sequences, SequencesExt

CONSTANTS
    Letters,        \* small numbers, in the order of the next array
    MaxPattern,     \* bound: length of a pattern
    MaxPatterns,    \* bound: number of patterns
    MaxText         \* bound: length of the text

AcAssumption == Letters \subseteq Nat /\ MaxPattern \in Nat /\ MaxText \in Nat

VARIABLES
    patterns,   \* patterns still to be inserted
    inserted,   \* patterns inserted (the input, for the properties)
    nodes,      \* the trie
    is_word,    \* nodes that end a pattern
    is_marked,  \* words already counted
    fail_ptr,   \* failure pointers, for the nodes that have got one
    Q,          \* the queue of build_fail_ptr
    text,       \* the text to search
    idx,        \* letters of it read
    cur,        \* the node the search is at
    iCount,     \* the result
    pc          \* "insert", "build", "search", "done"

trie   == <<patterns, inserted, nodes, is_word>>
vars   == <<trie, is_marked, fail_ptr, Q, text, idx, cur, iCount, pc>>

Words(n) == UNION {[1..k -> Letters] : k \in 0..n}
root     == <<>>

Init ==
    /\ patterns \in {S \in SUBSET (Words(MaxPattern) \ {<<>>}) : Cardinality(S) \in 1..MaxPatterns}
    /\ inserted = {}
    /\ nodes = {root} /\ is_word = {} /\ is_marked = {}
    /\ fail_ptr = <<>>
    /\ Q = <<>>
    /\ text \in [1..MaxText -> Letters]
    /\ idx = 0 /\ cur = root /\ iCount = 0
    /\ pc = "insert"

(* insert_tree: the missing nodes on the way, and the mark of a word. *)
insert_tree ==
    /\ pc = "insert"
    /\ \E words \in patterns :
         /\ patterns' = patterns \ {words}
         /\ inserted' = inserted \cup {words}
         /\ nodes' = nodes \cup Prefixes(words)
         /\ is_word' = is_word \cup {words}
    /\ pc' = IF patterns' = {} THEN "build" ELSE "insert"
    /\ Q' = IF patterns' = {} THEN <<root>> ELSE <<>>
    /\ UNCHANGED <<is_marked, fail_ptr, text, idx, cur, iCount>>

next(node, ch) == Append(node, ch)
Has(node, ch)  == Append(node, ch) \in nodes

(* Mutant: the chain is not followed. *)
do_find_fail_ptr_OneStep(node, ch) ==
    IF node # root /\ Has(fail_ptr[node], ch) THEN next(fail_ptr[node], ch) ELSE root

(* do_find_fail_ptr: along the failure pointers of node, the first one     *)
(* with a child ch; root if there is none.  The root has no pointer.       *)
RECURSIVE do_find_fail_ptr(_, _)
do_find_fail_ptr(node, ch) ==
    IF node = root THEN root
    ELSE IF Has(fail_ptr[node], ch) THEN next(fail_ptr[node], ch)
    ELSE do_find_fail_ptr(fail_ptr[node], ch)

(* One round of build_fail_ptr: the children of the first node in the      *)
(* queue get their pointer and join the queue, in the order of the array.  *)
build_fail_ptr ==
    /\ pc = "build" /\ Q # <<>>
    /\ LET node     == Head(Q)
           children == {ch \in Letters : Has(node, ch)}
       IN /\ fail_ptr' = [n \in DOMAIN fail_ptr \cup {next(node, ch) : ch \in children} |->
                            IF n \in DOMAIN fail_ptr THEN fail_ptr[n]
                            ELSE do_find_fail_ptr(node, Last(n))]
          /\ Q' = Tail(Q) \o [i \in DOMAIN SetToSortSeq(children, <) |->
                                next(node, SetToSortSeq(children, <)[i])]
    /\ pc' = IF Q' = <<>> THEN "search" ELSE "build"
    /\ UNCHANGED <<trie, is_marked, text, idx, cur, iCount>>

(* do_check_and_return_cnt for a set of nodes: words not yet marked count  *)
(* and are marked.                                                         *)
do_check(visited) ==
    /\ iCount' = iCount + Cardinality((visited \cap is_word) \ is_marked)
    /\ is_marked' = is_marked \cup (visited \cap is_word)

(* The nodes the mismatch loop visits: all along the failure pointers. *)
RECURSIVE Failures(_)
Failures(node) == IF node = root THEN {} ELSE {fail_ptr[node]} \cup Failures(fail_ptr[node])

(* search, a letter that continues the match. *)
search_match ==
    /\ pc = "search" /\ idx < Len(text) /\ Has(cur, text[idx + 1])
    /\ cur' = next(cur, text[idx + 1])
    /\ do_check({cur'})
    /\ idx' = idx + 1
    /\ UNCHANGED <<trie, fail_ptr, Q, text, pc>>

(* search, a letter that does not: count along the failure pointers down   *)
(* to the root.  The letter is used up.                                    *)
search_mismatch ==
    /\ pc = "search" /\ idx < Len(text) /\ ~Has(cur, text[idx + 1])
    /\ do_check(Failures(cur))
    /\ cur' = root
    /\ idx' = idx + 1
    /\ UNCHANGED <<trie, fail_ptr, Q, text, pc>>

search_return ==
    /\ pc = "search" /\ idx = Len(text)
    /\ pc' = "done"
    /\ UNCHANGED <<trie, is_marked, fail_ptr, Q, text, idx, cur, iCount>>

Next == insert_tree \/ build_fail_ptr \/ search_match \/ search_mismatch \/ search_return

Spec == Init /\ [][Next]_vars

-----------------------------------------------------------------------------
TypeOK ==
    /\ nodes \subseteq Words(MaxPattern) /\ root \in nodes
    /\ is_marked \subseteq is_word /\ is_word \subseteq nodes
    /\ DOMAIN fail_ptr \subseteq nodes
    /\ idx \in 0..Len(text) /\ cur \in nodes
    /\ iCount \in Nat
    /\ pc \in {"insert", "build", "search", "done"}

Read == SubSeq(text, 1, idx)

Occurs(w, t) == \E i \in 0..Len(t) - Len(w) : SubSeq(t, i + 1, i + Len(w)) = w

ProperSuffixNodes(n) == {m \in Suffixes(n) : m \in nodes /\ m # n}

(* The failure pointer of a node is the longest proper suffix of its word  *)
(* that is a node, as soon as it is set: the breadth-first order makes     *)
(* sure that the pointers the search for it follows are final.             *)
FailIsLongestSuffix ==
    \A n \in DOMAIN fail_ptr :
        /\ fail_ptr[n] \in ProperSuffixNodes(n)
        /\ \A m \in ProperSuffixNodes(n) : Len(m) <= Len(fail_ptr[n])

(* The search is at a suffix of what it has read: what is counted did      *)
(* occur, each pattern once.                                               *)
OnlyOccurrences ==
    /\ pc \in {"search", "done"} => IsSuffix(cur, Read)
    /\ \A w \in is_marked : Occurs(w, Read)
    /\ iCount = Cardinality(is_marked)

(* "返回有几种模式串出现过": search returns how many of the patterns occur in  *)
(* the text.                                                               *)
CountsPatterns ==
    pc = "done" => iCount = Cardinality({w \in inserted : Occurs(w, text)})
=============================================================================
