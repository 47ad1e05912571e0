---------------------------- MODULE MCAlgorithms ----------------------------
(* The algorithms of src/Algorithm, one at a time: program says which of   *)
(* them a behaviour is about, and the others stay as they began.           *)
(*   radix     keys over two letters that are prefixes of each other, fork *)
(*             at every depth and share no letter;                         *)
(*   ac        all sets of up to two patterns of up to three of two        *)
(*             letters, and all texts of four;                             *)
(*   knapsack  all sequences of up to four receipts worth 2, 3, 5 or more  *)
(*             than MAX_V.                                                 *)
EXTENDS RadixTree, Integers

VARIABLES
    program,
    \* ac
    patterns, inserted, nodes, is_word, is_marked, fail_ptr, Q, text, idx, cur,
    iCount, pc,
    \* knapsack
    items, dp, id, V, plan, stage

acVars       == <<patterns, inserted, nodes, is_word, is_marked, fail_ptr, Q, text, idx,
                  cur, iCount, pc>>
knapsackVars == <<items, dp, id, V, plan, stage>>

MCKeys == {<<1>>, <<1, 1>>, <<1, 2>>, <<1, 2, 1>>, <<1, 2, 2>>, <<1, 2, 1, 1>>, <<2, 1>>}

Ac == INSTANCE AcAutomaton WITH Letters <- {1, 2}, MaxPattern <- 3, MaxPatterns <- 2,
                                MaxText <- 4
Kn == INSTANCE Knapsack WITH Values <- {2, 3, 5, 12}, MaxItems <- 4, DEST_V <- 7,
                             MAX_V <- 10, pc <- stage

ASSUME Ac!AcAssumption /\ Kn!KnapsackAssumption

MCInit ==
    /\ program \in {"radix", "ac", "knapsack"}
    /\ program = "ac" \/ (patterns = {<<1>>} /\ text = <<1, 1, 1, 1>>)
    /\ program = "knapsack" \/ items = <<2>>
    /\ Init /\ Ac!Init /\ Kn!Init

MCNext ==
    /\ UNCHANGED program
    /\ \/ program = "radix" /\ Next /\ UNCHANGED <<acVars, knapsackVars>>
       \/ program = "ac" /\ Ac!Next /\ UNCHANGED <<vars, knapsackVars>>
       \/ program = "knapsack" /\ Kn!Next /\ UNCHANGED <<vars, acVars>>

MCSpec == MCInit /\ [][MCNext]_<<program, vars, acVars, knapsackVars>>

-----------------------------------------------------------------------------
(* Properties of the other two programs, which say in their modules what   *)
(* they state.                                                             *)

(* ac_automation.cpp: failure pointers are longest suffixes once set.      *)
FailIsLongestSuffix == Ac!FailIsLongestSuffix

(* min_receipt_plan: the plan is a smallest one, and none is missed.       *)
PlanIsMinimal == Kn!PlanIsMinimal
=============================================================================
