----------------------------- MODULE CloseAllFd -----------------------------
(***************************************************************************)
(* close_all_fd of tcp_reuse_port_test.c, for the process's own pid: walk  *)
(* /proc/<pid>/fd, close what is found, and walk again as long as a walk   *)
(* has closed something.                                                   *)
(*                                                                         *)
(* External: the directory.  A walk may miss entries once the table has    *)
(* changed under it (readdir leaves that open); one during which nothing   *)
(* is closed sees them all.                                                *)
(***************************************************************************)
EXTENDS Integers

CONSTANTS MaxFd,        \* descriptors are 0..MaxFd
          MaxErrors     \* readdir_r or close that fail (bound)

FdAssumption == MaxFd \in Nat /\ MaxFd >= 3 /\ MaxErrors \in Nat

Std == 0..2
Fds == 0..MaxFd

VARIABLES
    pc,         \* "opendir", "walk", "closedir" or "returned"
    open,       \* the process's descriptors
    sockets,    \* those that are sockets
    initial,    \* what was open at the call
    dir,        \* dirfd(dir), -1 before and after
    left,       \* entries the walk has still to return
    rewind, retval, errors

vars == <<pc, open, sockets, initial, dir, left, rewind, retval, errors>>

Init ==
    /\ pc = "opendir"
    /\ \E s \in SUBSET (Fds \ Std) : s # Fds \ Std /\ open = Std \cup s
    /\ sockets \in SUBSET (open \ Std)
    /\ initial = open
    /\ dir = -1 /\ left = {} /\ rewind = FALSE /\ retval = 0 /\ errors = 0

-----------------------------------------------------------------------------
(* The kernel gives out the lowest number that is free. *)
Lowest(S) == {f \in S : \A g \in S : f <= g}

opendir ==
    /\ pc = "opendir"
    /\ dir' \in Lowest(Fds \ open)
    /\ open' = open \cup {dir'} /\ left' = open'
    /\ pc' = "walk"
    /\ UNCHANGED <<sockets, initial, rewind, retval, errors>>

opendir_fails ==
    /\ pc = "opendir" /\ errors < MaxErrors
    /\ errors' = errors + 1 /\ retval' = -1
    /\ pc' = "returned"
    /\ UNCHANGED <<open, sockets, initial, dir, left, rewind>>

readdir_fails ==
    /\ pc = "walk" /\ errors < MaxErrors
    /\ errors' = errors + 1 /\ retval' = -1
    /\ pc' = "closedir"
    /\ UNCHANGED <<open, sockets, initial, dir, left, rewind>>

(* Mutant: one walk. *)
walk_ends_Once ==
    /\ pc = "walk" /\ left = {}
    /\ retval' = 0
    /\ pc' = "closedir"
    /\ UNCHANGED <<open, sockets, initial, dir, left, rewind, errors>>

(* entry == NULL: again from the start if something was closed. *)
walk_ends ==
    /\ pc = "walk" /\ left = {}
    /\ retval' = 0
    /\ IF rewind THEN left' = open /\ rewind' = FALSE /\ UNCHANGED pc
       ELSE pc' = "closedir" /\ UNCHANGED <<left, rewind>>
    /\ UNCHANGED <<open, sockets, initial, dir, errors>>

(* Lines 50-55.  readlink gives -1 (the name is relative to the working    *)
(* directory, not to /proc) or the length of what it wrote to link_name.   *)
LinkResults == {[ret |-> -1, name |-> ""], [ret |-> 0, name |-> ""],
                [ret |-> 7, name |-> "socket:"]}
IsSkipped(link) == link.ret = 0 /\ link.name = "socket:"

Kept(fd) == fd = dir \/ fd < 3

(* An entry that is skipped. *)
skip ==
    /\ pc = "walk"
    /\ \E fd \in left : \E link \in LinkResults :
        /\ IsSkipped(link) \/ Kept(fd)
        /\ left' = left \ {fd}
    /\ retval' = 0
    /\ UNCHANGED <<pc, open, sockets, initial, dir, rewind, errors>>

(* An entry whose descriptor is closed; the walk may now miss others. *)
close ==
    /\ pc = "walk"
    /\ \E fd \in left : \E link \in LinkResults :
        /\ ~IsSkipped(link) /\ ~Kept(fd)
        /\ open' = open \ {fd} /\ sockets' = sockets \ {fd}
        /\ \E seen \in SUBSET (left \ {fd}) : left' = seen
    /\ retval' = 0 /\ rewind' = TRUE
    /\ UNCHANGED <<pc, initial, dir, errors>>

(* close fails: the loop is left with its result. *)
close_fails ==
    /\ pc = "walk" /\ errors < MaxErrors
    /\ \E fd \in left : ~Kept(fd)
    /\ errors' = errors + 1 /\ retval' = -1
    /\ pc' = "closedir"
    /\ UNCHANGED <<open, sockets, initial, dir, left, rewind>>

closedir ==
    /\ pc = "closedir"
    /\ open' = open \ {dir} /\ dir' = -1
    /\ pc' = "returned"
    /\ UNCHANGED <<sockets, initial, left, rewind, retval, errors>>

-----------------------------------------------------------------------------
Step ==
    \/ opendir \/ opendir_fails \/ readdir_fails \/ walk_ends \/ skip \/ close
    \/ close_fails \/ closedir

Next == Step \/ (pc = "returned" /\ UNCHANGED vars)

Spec == Init /\ [][Next]_vars

-----------------------------------------------------------------------------
(* The types; the directory is open while it is walked. *)
TypeOK ==
    /\ pc \in {"opendir", "walk", "closedir", "returned"}
    /\ open \subseteq Fds /\ sockets \subseteq open /\ initial \subseteq Fds
    /\ left \subseteq Fds /\ dir \in Fds \cup {-1}
    /\ pc \in {"walk", "closedir"} => dir \in open
    /\ rewind \in BOOLEAN /\ retval \in {-1, 0} /\ errors \in 0..MaxErrors

(* The standard streams stay, and when close_all_fd returns 0 nothing else *)
(* is open, whatever single walks have missed.  However it ends, it leaves *)
(* nothing open that was not open before.                                  *)
ClosesAll ==
    /\ Std \subseteq open
    /\ pc = "returned" => open \subseteq initial
    /\ pc = "returned" /\ retval = 0 => open = Std

-----------------------------------------------------------------------------
(* Line 48: a descriptor that is no socket is not to be closed. *)
SparesOthers ==
    [][\A fd \in (open \ Std) \ open' : fd \in sockets \/ fd = dir]_vars
=============================================================================
