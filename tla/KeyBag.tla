------------------------------- MODULE KeyBag -------------------------------
(***************************************************************************)
(* What a tree of reference-counted keys promises: it is a multiset.       *)
(* insert adds one copy and tells whether the key was absent, erase        *)
(* removes one copy and tells whether there was one.                       *)
(***************************************************************************)
EXTENDS Naturals

CONSTANT Keys

VARIABLES
    bag,    \* the number of copies of each key that is present
    ret     \* the answer of the last operation

(* The copies of k in b, and b with n copies of k. *)
Copies(b, k) == IF k \in DOMAIN b THEN b[k] ELSE 0

With(b, k, n) == [x \in (DOMAIN b \ {k}) \cup (IF n = 0 THEN {} ELSE {k}) |->
                    IF x = k THEN n ELSE b[x]]

Init == /\ bag = <<>>
        /\ ret = FALSE

Insert(k) == LET b == bag IN
    /\ ret' = (Copies(b, k) = 0)
    /\ bag' = With(b, k, Copies(b, k) + 1)

Erase(k) == LET b == bag IN
    /\ ret' = (Copies(b, k) > 0)
    /\ bag' = With(b, k, IF ret' THEN Copies(b, k) - 1 ELSE 0)

Contains(k) == /\ ret' = (k \in DOMAIN bag)
               /\ UNCHANGED bag

(* The destructor gives everything up. *)
Destroy == /\ bag' = <<>>
           /\ UNCHANGED ret

Next == Destroy \/ \E k \in Keys : Insert(k) \/ Erase(k) \/ Contains(k)

Spec == Init /\ [][Next]_<<bag, ret>>
=============================================================================
