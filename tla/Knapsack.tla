------------------------------ MODULE Knapsack ------------------------------
(***************************************************************************)
(* The receipt planner of src/Algorithm (min_receipt_plan): a 0-1 knapsack *)
(* whose items cost what they are worth.  It looks for the smallest sum of *)
(* receipts that is at least DEST_V and prints receipts that make it up.   *)
(***************************************************************************)
EXTENDS Integers, Sequences, SequencesExt

CONSTANTS
    Values,     \* values an item may have
    MaxItems,   \* bound: number of items
    DEST_V, MAX_V

KnapsackAssumption ==
    /\ Values \subseteq Nat \ {0} /\ MaxItems \in Nat
    /\ DEST_V \in Nat \ {0} /\ MAX_V \in Nat /\ DEST_V <= MAX_V

VARIABLES
    items,      \* the input
    dp,         \* for each volume the best value and the last item selected
    id,         \* items packed
    V,          \* the loop variable of zero_one_pack, or of the final search
    plan,       \* items printed, in reverse
    pc          \* "pack", "find", "print", "found", "none"

vars == <<items, dp, id, V, plan, pc>>

Init ==
    /\ items \in UNION {[1..n -> Values] : n \in 1..MaxItems}
    /\ dp = [v \in 0..MAX_V |-> [value |-> IF v = 0 THEN 0 ELSE -1, select_value |-> -1]]
    /\ id = 0 /\ V = MAX_V
    /\ plan = <<>>
    /\ pc = "pack"

item == items[id + 1]

(* After the last volume main goes on to the next item or to its search. *)
NextVolume ==
    IF V > item THEN V' = V - 1 /\ UNCHANGED <<id, pc>>
    ELSE /\ id' = id + 1
         /\ IF id' = Len(items) THEN pc' = "find" /\ V' = DEST_V
            ELSE V' = MAX_V /\ UNCHANGED pc

(* Mutant: an equal value replaces the item selected. *)
zero_one_pack_Replaces ==
    /\ pc = "pack"
    /\ dp' = IF V >= item /\ dp[V - item].value >= 0 /\ dp[V - item].value + item >= dp[V].value
             THEN [dp EXCEPT ![V] = [value |-> dp[V - item].value + item, select_value |-> item]]
             ELSE dp
    /\ NextVolume
    /\ UNCHANGED <<items, plan>>

(* One round of the loop of zero_one_pack, for the volume V. *)
zero_one_pack ==
    /\ pc = "pack"
    /\ dp' = IF V >= item /\ dp[V - item].value >= 0 /\ dp[V - item].value + item > dp[V].value
             THEN [dp EXCEPT ![V] = [value |-> dp[V - item].value + item, select_value |-> item]]
             ELSE dp
    /\ NextVolume
    /\ UNCHANGED <<items, plan>>

(* One round of main's search for the first volume that can be made up. *)
find ==
    /\ pc = "find"
    /\ IF V > MAX_V THEN pc' = "none" /\ UNCHANGED V
       ELSE IF dp[V].value > 0 THEN pc' = "print" /\ V' = dp[V].value
       ELSE V' = V + 1 /\ UNCHANGED pc
    /\ UNCHANGED <<items, dp, id, plan>>

(* One call of recursive_print_plan. *)
recursive_print_plan ==
    /\ pc = "print"
    /\ IF V > 0 THEN /\ V' = V - dp[V].select_value
                     /\ plan' = Append(plan, dp[V].select_value)
                     /\ UNCHANGED pc
       ELSE pc' = "found" /\ UNCHANGED <<V, plan>>
    /\ UNCHANGED <<items, dp, id>>

Next == zero_one_pack \/ find \/ recursive_print_plan

Spec == Init /\ [][Next]_vars

-----------------------------------------------------------------------------
TypeOK ==
    /\ \A v \in 0..MAX_V : /\ dp[v].value \in -1..MAX_V
                           /\ dp[v].select_value \in Values \cup {-1}
    /\ id \in 0..Len(items) /\ V \in 0..MAX_V + 1
    /\ plan \in Seq(Values)
    /\ pc \in {"pack", "find", "print", "found", "none"}

Total(s) == FoldSeq(LAMBDA x, y : x + y, 0, s)

(* Sums of the first n items, each used once at most: the definition the   *)
(* table is to be compared with.                                           *)
Sums(n) == {MapThenSumSet(LAMBDA i : items[i], S) : S \in SUBSET (1..n)}

(* While an item is packed the volumes above V know it and the others do   *)
(* not: a volume has a value if and only if it is the sum of some of the   *)
(* items it knows, and the value is the volume.                            *)
TableIsSums ==
    \A v \in 0..MAX_V :
        /\ dp[v].value \in {-1, v}
        /\ dp[v].value = v <=> v \in Sums(IF pc = "pack" /\ v > V THEN id + 1 ELSE id)

(* Copies of x in s. *)
Copies(s, x) == Cardinality({i \in DOMAIN s : s[i] = x})

(* "凑满5000金额的最小的发票选取方案": the plan printed takes no receipt      *)
(* twice, and its sum is the smallest that is enough; "can't find the      *)
(* plan!" is said only when there is none.                                 *)
PlanIsMinimal ==
    /\ pc = "found" =>
        /\ \A x \in Values : Copies(plan, x) <= Copies(items, x)
        /\ Total(plan) \in DEST_V..MAX_V
        /\ \A w \in Sums(Len(items)) : w >= DEST_V => Total(plan) <= w
    /\ pc = "none" => Sums(Len(items)) \cap DEST_V..MAX_V = {}
=============================================================================
