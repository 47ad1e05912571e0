------------------------------- MODULE AioRead ------------------------------
(***************************************************************************)
(* aio_sample.cpp: test_aio_sample, which asks aio_error until its read is *)
(* done, and then test_aio_suspend, which waits for its read for a second. *)
(* Each keeps its aiocb in its stack frame; the library's thread writes    *)
(* the result there when the read is done.                                 *)
(*                                                                         *)
(* External: the aio library, and the contents of a buffer from malloc:    *)
(* where the first NUL after the bytes read is, if there is one.           *)
(***************************************************************************)
EXTENDS Integers

CONSTANTS MaxLen        \* the longest file (bound)

LenAssumption == MaxLen \in Nat

Tests == {"sample", "suspend"}
BUFSIZE == [sample |-> 5, suspend |-> 20]

VARIABLES
    flen,       \* the length of file.txt
    pc,         \* where the running test is, or "exit"
    test,       \* the test that runs
    req,        \* by test: "none", "in progress" or "done"
    ret,        \* by test, __return_value
    frame,      \* by test: its stack frame exists
    stray,      \* a result was written into a frame that had gone
    shown       \* by test, the length of the string printed; -1 before

vars == <<flen, pc, test, req, ret, frame, stray, shown>>

Init ==
    /\ flen \in 0..MaxLen
    /\ pc = "open" /\ test = "sample"
    /\ req = [t \in Tests |-> "none"] /\ ret = [t \in Tests |-> 0]
    /\ frame = [t \in Tests |-> t = "sample"]
    /\ stray = FALSE /\ shown = [t \in Tests |-> -1]

-----------------------------------------------------------------------------
(* open, malloc or aio_read fails: exit(1). *)
start_fails ==
    /\ pc = "open"
    /\ pc' = "exit"
    /\ UNCHANGED <<flen, test, req, ret, frame, stray, shown>>

(* The aiocb is zeroed and filled, and the read started. *)
aio_read ==
    /\ pc = "open"
    /\ req' = [req EXCEPT ![test] = "in progress"]
    /\ pc' = IF test = "sample" THEN "poll" ELSE "wait"
    /\ UNCHANGED <<flen, test, ret, frame, stray, shown>>

(* What a read of a file of flen bytes returns. *)
Results(t) == {-1, IF flen < BUFSIZE[t] THEN flen ELSE BUFSIZE[t]}

(* The library's thread. *)
Complete(t) ==
    /\ pc # "exit" /\ req[t] = "in progress"
    /\ req' = [req EXCEPT ![t] = "done"]
    /\ \E r \in Results(t) : ret' = [ret EXCEPT ![t] = r]
    /\ stray' = (stray \/ ~frame[t])
    /\ UNCHANGED <<flen, pc, test, frame, shown>>

(* Mutant: aio_error is asked once. *)
aio_error_Once ==
    /\ pc = "poll" /\ pc' = "print"
    /\ UNCHANGED <<flen, test, req, ret, frame, stray, shown>>

(* A turn of the loop over aio_error, which ends unless EINPROGRESS. *)
aio_error ==
    /\ pc = "poll"
    /\ pc' = IF req[test] = "done" THEN "print" ELSE "poll"
    /\ UNCHANGED <<flen, test, req, ret, frame, stray, shown>>

(* It returns when the read is done, and on EAGAIN (a second has passed)   *)
(* or EINTR; rc is not looked at.                                          *)
aio_suspend ==
    /\ pc = "wait" /\ pc' = "print"
    /\ UNCHANGED <<flen, test, req, ret, frame, stray, shown>>

(* The string ends at the first NUL at or after the bytes read;            *)
(* BUFSIZE + 1 stands for none in the buffer.                              *)
print ==
    /\ pc = "print"
    /\ LET n == IF req[test] = "done" /\ ret[test] > 0 THEN ret[test] ELSE 0 IN
       \E len \in n..(BUFSIZE[test] + 1) : shown' = [shown EXCEPT ![test] = len]
    /\ pc' = "return"
    /\ UNCHANGED <<flen, test, req, ret, frame, stray>>

(* The test returns, and main goes on to the next or ends the process. *)
return ==
    /\ pc = "return"
    /\ IF test = "sample"
       THEN /\ test' = "suspend" /\ pc' = "open"
            /\ frame' = [sample |-> FALSE, suspend |-> TRUE]
       ELSE /\ pc' = "main returns" /\ frame' = [t \in Tests |-> FALSE]
            /\ UNCHANGED test
    /\ UNCHANGED <<flen, req, ret, stray, shown>>

main_returns ==
    /\ pc = "main returns" /\ pc' = "exit"
    /\ UNCHANGED <<flen, test, req, ret, frame, stray, shown>>

-----------------------------------------------------------------------------
Main == start_fails \/ aio_read \/ aio_error \/ aio_suspend \/ print \/ return \/ main_returns

Next == Main \/ (\E t \in Tests : Complete(t)) \/ (pc = "exit" /\ UNCHANGED vars)

Spec == Init /\ [][Next]_vars

-----------------------------------------------------------------------------
(* The types; no read returns more than its buffer holds. *)
TypeOK ==
    /\ flen \in 0..MaxLen /\ test \in Tests
    /\ pc \in {"open", "poll", "wait", "print", "return", "main returns", "exit"}
    /\ req \in [Tests -> {"none", "in progress", "done"}]
    /\ \A t \in Tests : ret[t] \in -1..BUFSIZE[t] /\ shown[t] \in -1..(BUFSIZE[t] + 1)
    /\ frame \in [Tests -> BOOLEAN] /\ stray \in BOOLEAN

(* What line 66 says of test_aio_sample holds: when it prints the result   *)
(* the read is done; and so no result is ever written into its frame once  *)
(* test_aio_suspend has taken its place.                                   *)
SampleComplete ==
    /\ shown["sample"] # -1 => req["sample"] = "done"
    /\ stray => req["suspend"] = "done"
    /\ req["suspend"] # "none" => req["sample"] = "done"

-----------------------------------------------------------------------------
(* Line 137: here the asynchronous operation is done. *)
SuspendComplete == shown["suspend"] # -1 => req["suspend"] = "done"

(* The output in the header (lines 11 and 12): the five bytes read are     *)
(* printed, and nothing after them.                                        *)
PrintsWhatItRead ==
    shown["sample"] # -1 /\ ret["sample"] >= 0 => shown["sample"] = ret["sample"]
=============================================================================
