--------------------------- MODULE Reactor_proofs ---------------------------
(***************************************************************************)
(* Proofs about module Reactor, for any number of children and lines.      *)
(***************************************************************************)
EXTENDS Reactor, FiniteSetTheorems, TLAPS

Unreaped == {c \in Child : child[c] # "absent"}

\* TypeOK without the bound on the spawner's count.
ControlTyped ==
    /\ RUNNING \in BOOLEAN
    /\ pc \in {"top", "entering", "asleep", "woken", "handling", "stopping", "exited"}
    /\ timeout \in {"unbounded", "60s"}
    /\ interrupted \in BOOLEAN
    /\ batch \subseteq Token
    /\ logcat \in {"running", "exiting", "zombie", "reaped"}
    /\ inotify \in BOOLEAN
    /\ unflushed \in BOOLEAN

DataTyped ==
    /\ pipe \in 0..MaxLines
    /\ child \in [Child -> {"absent", "running", "zombie"}]
    /\ reaps_pending \in Nat

Typed == ControlTyped /\ DataTyped

\* A count survives a fatal exit, but never exceeds the children that it
\* may stand for.
CountCovered ==
    /\ reaps_pending <= Cardinality(Child)
    /\ pc # "exited" => reaps_pending <= Cardinality(Unreaped)

\* Records are buffered by a batch only.
BufferedInBatch == pc # "handling" => unflushed = FALSE

ReactorInv == Typed /\ CountCovered /\ BufferedInBatch

-----------------------------------------------------------------------------

\* The subsets of Child are finite and no larger than Child.
LEMMA ChildSubset ==
    ASSUME NEW S \in SUBSET Child
    PROVE  IsFiniteSet(S) /\ Cardinality(S) \in Nat /\ Cardinality(S) <= Cardinality(Child)
  BY ReactorAssumption, FS_Subset, FS_CardinalityType

\* Forking adds to the unreaped children exactly the forked ones.
LEMMA ForkCounted ==
    ASSUME Typed, NEW forked \in SUBSET {c \in Child : child[c] = "absent"},
           child' = [c \in Child |-> IF c \in forked THEN "running" ELSE child[c]]
    PROVE  /\ Cardinality(forked) \in Nat
           /\ Cardinality(Unreaped') = Cardinality(Unreaped) + Cardinality(forked)
<1>1. Unreaped' = Unreaped \cup forked /\ Unreaped \cap forked = {}
  BY DEF Unreaped, Typed, DataTyped
<1>2. IsFiniteSet(Unreaped) /\ IsFiniteSet(forked)
  <2>1. Unreaped \in SUBSET Child /\ forked \in SUBSET Child
    BY DEF Unreaped
  <2>. QED BY <2>1, ChildSubset
<1>3. Cardinality(Unreaped \cup forked)
        = Cardinality(Unreaped) + Cardinality(forked) - Cardinality(Unreaped \cap forked)
  BY <1>2, FS_Union
<1>4. Cardinality(Unreaped \cap forked) = 0
  BY <1>1, FS_EmptySet
<1>5. Cardinality(Unreaped) \in Nat /\ Cardinality(forked) \in Nat
  BY <1>2, FS_CardinalityType
<1>. QED BY <1>1, <1>3, <1>4, <1>5

-----------------------------------------------------------------------------

LEMMA InitReactorInv == Init => ReactorInv
<1>. SUFFICES ASSUME Init PROVE ReactorInv
  OBVIOUS
<1>1. Unreaped \in SUBSET Child
  BY DEF Unreaped
<1>2. Cardinality(Unreaped) \in Nat /\ Cardinality(Child) \in Nat
  <2>1. Child \in SUBSET Child
    OBVIOUS
  <2>. QED BY <1>1, <2>1, ChildSubset
<1>3. Typed
  <2>1. ControlTyped
    BY DEF Init, ControlTyped, Token
  <2>2. DataTyped
    BY ReactorAssumption DEF Init, DataTyped
  <2>. QED BY <2>1, <2>2 DEF Typed
<1>. QED BY <1>2, <1>3 DEF Init, ReactorInv, CountCovered, BufferedInBatch

LEMMA NextReactorInv == ReactorInv /\ [Next]_vars => ReactorInv'
<1>. SUFFICES ASSUME ReactorInv, [Next]_vars PROVE ReactorInv'
  OBVIOUS
<1>. USE DEF ReactorInv
<1>0. /\ Cardinality(Child) \in Nat
      /\ Cardinality(Unreaped) \in Nat /\ Cardinality(Unreaped) <= Cardinality(Child)
      /\ Cardinality(Unreaped') \in Nat /\ Cardinality(Unreaped') <= Cardinality(Child)
  <2>1. Unreaped \in SUBSET Child /\ Unreaped' \in SUBSET Child /\ Child \in SUBSET Child
    BY DEF Unreaped
  <2>. QED BY <2>1, ChildSubset
<1>1. ControlTyped'
  <2>. USE DEF Typed, ControlTyped, Token, loop, spawner, device
  <2>1. CASE TestRunning \/ EnterEpollWait \/ EpollReturns
    BY <2>1 DEF TestRunning, EnterEpollWait, EpollReturns, Ready
  <2>2. CASE Reap
    BY <2>2 DEF Reap, reap_terminated_children, fatal
  <2>3. CASE DispatchLine \/ PipeDrained \/ PipeHungUp
    BY <2>3 DEF DispatchLine, PipeDrained, PipeHungUp, fatal
  <2>4. CASE ReloadConfigs \/ EndBatch \/ Shutdown
    BY <2>4 DEF ReloadConfigs, EndBatch, Shutdown
  <2>5. CASE Environment
    BY <2>5, ZenonT(30)
    DEF Environment, sig_handler, Continued, LogcatWrites, LogcatDies, ConfigWritten,
        ChildExits
  <2>6. CASE UNCHANGED vars
    BY <2>6 DEF vars
  <2>. QED BY <2>1, <2>2, <2>3, <2>4, <2>5, <2>6 DEF Next, Thread
<1>2. DataTyped'
  <2>. USE DEF Typed, DataTyped, spawner, device
  <2>1. CASE DispatchLine
    <3>1. PICK forked \in SUBSET {c \in Child : child[c] = "absent"} :
            /\ child' = [c \in Child |-> IF c \in forked THEN "running" ELSE child[c]]
            /\ reaps_pending' = reaps_pending + Cardinality(forked)
      BY <2>1 DEF DispatchLine
    <3>2. Cardinality(forked) \in Nat
      BY <3>1, ForkCounted
    <3>3. pipe' \in 0..MaxLines
      BY <2>1, ReactorAssumption DEF DispatchLine
    <3>. QED BY <3>1, <3>2, <3>3
  <2>2. CASE Reap
    BY <2>2 DEF Reap, reap_terminated_children
  <2>3. CASE Shutdown
    BY <2>3 DEF Shutdown
  <2>4. CASE LogcatWrites
    BY <2>4, ReactorAssumption DEF LogcatWrites
  <2>5. CASE \E c \in Child : ChildExits(c)
    BY <2>5 DEF ChildExits
  <2>6. CASE UNCHANGED <<pipe, child, reaps_pending>>
    BY <2>6
  <2>7. Next \/ UNCHANGED vars =>
          \/ DispatchLine \/ Reap \/ Shutdown \/ LogcatWrites
          \/ (\E c \in Child : ChildExits(c)) \/ UNCHANGED <<pipe, child, reaps_pending>>
    BY DEF Next, Thread, Environment, vars, TestRunning, EnterEpollWait, EpollReturns,
           PipeDrained, PipeHungUp, ReloadConfigs, EndBatch, sig_handler, Continued,
           LogcatDies, ConfigWritten
  <2>. QED BY <2>1, <2>2, <2>3, <2>4, <2>5, <2>6, <2>7
<1>3. CountCovered'
  <2>. USE DEF CountCovered, loop, spawner, device
  <2>1. CASE DispatchLine
    <3>1. PICK forked \in SUBSET {c \in Child : child[c] = "absent"} :
            /\ child' = [c \in Child |-> IF c \in forked THEN "running" ELSE child[c]]
            /\ reaps_pending' = reaps_pending + Cardinality(forked)
      BY <2>1 DEF DispatchLine
    <3>2. /\ Cardinality(forked) \in Nat
          /\ Cardinality(Unreaped') = Cardinality(Unreaped) + Cardinality(forked)
      BY <3>1, ForkCounted
    <3>3. reaps_pending <= Cardinality(Unreaped) /\ reaps_pending \in Nat
      BY <2>1 DEF DispatchLine, Typed, DataTyped
    <3>. QED BY <1>0, <3>1, <3>2, <3>3
  <2>2. CASE Reap
    <3>1. CASE logcat = "zombie" /\ RUNNING
      BY <2>2, <3>1 DEF Reap, reap_terminated_children, fatal
    <3>2. CASE ~(logcat = "zombie" /\ RUNNING)
      BY <1>0, <2>2, <3>2 DEF Reap, reap_terminated_children
    <3>. QED BY <3>1, <3>2
  <2>3. CASE Shutdown
    BY <1>0, <2>3 DEF Shutdown
  <2>4. CASE \E c \in Child : ChildExits(c)
    <3>1. Unreaped' = Unreaped
      BY <2>4 DEF ChildExits, Unreaped, Typed, DataTyped
    <3>. QED BY <2>4, <3>1 DEF ChildExits
  <2>5. CASE UNCHANGED spawner /\ (pc = "exited" => pc' = "exited")
    BY <2>5 DEF Unreaped
  <2>6. Next \/ UNCHANGED vars =>
          \/ DispatchLine \/ Reap \/ Shutdown \/ (\E c \in Child : ChildExits(c))
          \/ UNCHANGED spawner /\ (pc = "exited" => pc' = "exited")
    BY DEF Next, Thread, Environment, vars, TestRunning, EnterEpollWait, EpollReturns,
           PipeDrained, PipeHungUp, ReloadConfigs, EndBatch, sig_handler, Continued,
           LogcatWrites, LogcatDies, ConfigWritten
  <2>. QED BY <2>1, <2>2, <2>3, <2>4, <2>5, <2>6
<1>4. BufferedInBatch'
  <2>. USE DEF BufferedInBatch, loop, device, spawner
  <2>1. CASE Thread
    BY <2>1 DEF Typed, ControlTyped, Thread, TestRunning, EnterEpollWait, EpollReturns, Reap, DispatchLine,
                PipeDrained, PipeHungUp, ReloadConfigs, EndBatch, Shutdown, fatal
  <2>2. CASE Environment
    BY <2>2 DEF Environment, sig_handler, Continued, LogcatWrites, LogcatDies, ConfigWritten,
                ChildExits
  <2>3. CASE UNCHANGED vars
    BY <2>3 DEF vars
  <2>. QED BY <2>1, <2>2, <2>3 DEF Next
<1>. QED BY <1>1, <1>2, <1>3, <1>4 DEF Typed

LEMMA AlwaysReactorInv == Spec => []ReactorInv
  BY InitReactorInv, NextReactorInv, PTL DEF Spec

-----------------------------------------------------------------------------

\* The reactor's state keeps its types; in particular the spawner's count
\* of children to reap never exceeds the children there can be.
THEOREM ReactorTypeCorrect == Spec => []TypeOK
<1>1. ReactorInv => TypeOK
  <2>1. Child \in SUBSET Child
    OBVIOUS
  <2>2. Cardinality(Child) \in Nat
    BY <2>1, ChildSubset
  <2>. QED BY <2>2 DEF ReactorInv, Typed, ControlTyped, DataTyped, CountCovered, TypeOK
<1>. QED BY <1>1, AlwaysReactorInv, PTL

\* No record is lost in the buffer: not in a sleep, which may be unbounded,
\* and not in any of the exits.
THEOREM LogWritten == Spec => []NothingUnwritten
<1>1. ReactorInv => NothingUnwritten
  BY DEF ReactorInv, BufferedInBatch, NothingUnwritten
<1>. QED BY <1>1, AlwaysReactorInv, PTL
=============================================================================
