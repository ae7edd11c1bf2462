----------------------------- MODULE MCDispatch -----------------------------
(***************************************************************************)
(* Instances of module Dispatch for TLC.                                   *)
(***************************************************************************)
EXTENDS Dispatch

\* Every order of every choice of one or two pids.
MCPidLists ==
    {s \in UNION {[1..n -> Pid] : n \in 1..2} :
        \A i, j \in DOMAIN s : s[i] = s[j] => i = j}

\* Any three descriptors above the standard streams are free, the daemon's
\* or left open by the launcher, the highest beyond the walk's cap.
MCTables ==
    {[fd \in Fd |->
        IF fd \in Stdio THEN [file |-> "launcher", cloexec |-> FALSE]
        ELSE IF fd \in launcher THEN [file |-> "launcher", cloexec |-> FALSE]
        ELSE IF fd \in own THEN [file |-> "own", cloexec |-> TRUE]
        ELSE Closed] : launcher, own \in SUBSET {3, 4, MaxFd}}
=============================================================================
