------------------------------ MODULE Reclaim ------------------------------
(***************************************************************************)
(* What mini-lmk promises, without the machinery: it watches packages      *)
(* rest, and evicts only packages that are tracked, not shielded, not in   *)
(* front, and have rested for the shortest ceiling its configuration       *)
(* allows - a bounded number of them at a time.  A package that only just  *)
(* came into view has not rested at all, and can be evicted at once only   *)
(* if that ceiling is zero.  An eviction ends the tracking of a package,   *)
(* unless the package is protected and was only asked to go.  Module       *)
(* IdleAge shows that the daemon's handlers do this.                       *)
(***************************************************************************)
EXTENDS Integers, FiniteSets

CONSTANTS Pkg, None, Second

VARIABLES
    tracked,    \* the packages that may be evicted
    front,      \* the package in use
    rested,     \* the real time each package has rested, at least
    shielded,   \* the packages no rest makes evictable
    patience,   \* the seconds a package must have rested
    burst,      \* how many packages one decision may evict
    evictions   \* the evictions of the last step

vars == <<tracked, front, rested, shielded, patience, burst, evictions>>

Evicted == {r.pkg : r \in evictions'}

\* Gone for good: an eviction nothing protects from.
Removed == {r.pkg : r \in {s \in evictions' : ~s.ams_protected}}

Init ==
    /\ tracked = {}
    /\ front = None
    /\ rested = [k \in Pkg |-> 0]
    /\ shielded \subseteq Pkg
    /\ patience \in Nat
    /\ burst \in Nat \ {0}
    /\ evictions = {}

\* Time passes for every package alike, except for those whose rest begins
\* anew: the package in front, and one that was just seen to start.
Rested(fresh) ==
    /\ \A k \in fresh : rested'[k] = 0
    /\ \A k \in Pkg \ fresh : rested'[k] >= rested[k]
    /\ \A j, k \in Pkg \ fresh : rested'[k] - rested[k] = rested'[j] - rested[j]

Evictable(k) ==
    /\ k \notin shielded
    /\ k # front'
    /\ rested'[k] \div Second >= patience

\* The daemon sees something happen: at most one package comes into view,
\* any may drop out of it, and some of those in view that have rested are
\* evicted.
Observe ==
    /\ front' \in Pkg \cup {None}
    /\ \E seen \in {{}} \cup {{k} : k \in Pkg \ tracked} :
         /\ tracked' \subseteq tracked \cup seen
         /\ Evicted \subseteq tracked \cup seen
         /\ Rested(seen \cup ({front} \cap Pkg))
    /\ \A k \in Evicted : Evictable(k)
    /\ Removed \cap tracked' = {}
    /\ Evicted \ Removed \subseteq tracked'
    /\ Cardinality(Evicted) <= burst
    /\ UNCHANGED <<shielded, patience, burst>>

\* The operator edits the configuration.
Reconfigure ==
    /\ shielded' \subseteq Pkg
    /\ patience' \in Nat
    /\ burst' \in Nat \ {0}
    /\ evictions' = {}
    /\ UNCHANGED <<tracked, front, rested>>

Next == Observe \/ Reconfigure

Spec == Init /\ [][Next]_vars
=============================================================================
