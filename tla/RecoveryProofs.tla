--------------------------- MODULE RecoveryProofs ---------------------------
(***************************************************************************)
(* Proofs about Recovery for every set of nodes, every choice of the       *)
(* thresholds in the order of the code, any number of crashes and QMP      *)
(* commands that may fail.                                                 *)
(***************************************************************************)
EXTENDS Recovery, TLAPS

\* A capped sum of naturals stays between its first term and the cap.
LEMMA MinLemma ==
  ASSUME NEW a \in Nat, NEW b \in Nat, NEW m \in Nat, a <= m
  PROVE  Min(a + b, m) \in a .. m
BY SMT DEF Min

\* Everything the three table-free thread steps and the QMP commands do keeps
\* the machines' types.
LEMMA MachinesType ==
  ASSUME TypeOK, NEW n \in Nodes, SaveVm(n) \/ LoadVm(n) \/ ResetVm(n)
  PROVE  /\ vm' \in [Nodes -> {"up", "crashed"}]
         /\ snapshot' \in [Nodes -> {"none", "up", "crashed"}]
         /\ saved' \subseteq Nodes
         /\ UNCHANGED crashes
BY DEF TypeOK, SaveVm, LoadVm, ResetVm

\* TypeOK is inductive.
LEMMA TypeOKStep ==
  ASSUME TypeOK, [Next]_vars
  PROVE  TypeOK'
<1> USE ThresholdsAssumption, CrashesAssumption, NoneAssumption, KindsAssumption
        DEF TypeOK, machines, tables, HandlerSteps, CheckerSteps, Unchecked
<1>1. ASSUME NEW n \in Nodes, Send(n) PROVE TypeOK'
  BY <1>1 DEF Send
<1>2. ASSUME NEW n \in Nodes, Crash(n) PROVE TypeOK'
  BY <1>2, SMT DEF Crash
<1>3. CASE Lose
  BY <1>3 DEF Lose
<1>4. CASE Tick
  <2>1. \A n \in Nodes : Min(age[n] + 1, MaxAge) \in 0 .. MaxAge
    BY SMT DEF Min
  <2>2. (IF checker.rest > 0 THEN checker.rest - 1 ELSE 0) \in 0 .. Pause
    BY SMT
  <2>3. checker' \in [pc : CheckerSteps, node : Nodes \cup {None},
                     diff : 0 .. MaxAge, sum : 0 .. MaxAge,
                     rest : 0 .. Pause, todo : SUBSET Nodes]
    BY <1>4, <2>2 DEF Tick
  <2> QED
    BY <1>4, <2>1, <2>3 DEF Tick
<1>5. CASE Handle
  BY <1>5 DEF Handle
<1>6. CASE HandlerSave
  BY <1>6, MachinesType DEF HandlerSave
<1>7. CASE HandlerWiden
  BY <1>7 DEF HandlerWiden
<1>8. CASE HandlerStamp
  BY <1>8, SMT DEF HandlerStamp
<1>9. CASE HandlerArm
  BY <1>9, SMT DEF HandlerArm
<1>10. CASE CheckerList
  BY <1>10 DEF CheckerList
<1>11. CASE CheckerSample
  <2>1. PICK n \in checker.todo :
          checker' = [checker EXCEPT !.pc = "window?", !.node = n, !.diff = age[n],
                                     !.todo = @ \ {n}]
    BY <1>11 DEF CheckerSample
  <2>2. n \in Nodes /\ age[n] \in 0 .. MaxAge
    OBVIOUS
  <2> QED
    BY <1>11, <2>1, <2>2 DEF CheckerSample
<1>12. CASE CheckerFresh
  BY <1>12 DEF CheckerFresh
<1>13. CASE CheckerSave
  BY <1>13, MachinesType DEF CheckerSave
<1>14. CASE CheckerRearm
  BY <1>14, SMT DEF CheckerRearm
<1>15. CASE CheckerSilent
  BY <1>15 DEF CheckerSilent
<1>16. CASE CheckerLoad
  BY <1>16, MachinesType DEF CheckerLoad
<1>17. CASE CheckerBackoff
  <2>1. checker.node \in Nodes /\ checker.diff \in Nat
    BY <1>17, SMT DEF CheckerBackoff
  <2>2. checker.diff * Backoff \in Nat /\ peers_load[checker.node] \in 0 .. MaxAge
    BY <2>1, SMT
  <2>3. Min(peers_load[checker.node] + checker.diff * Backoff, MaxAge) \in 0 .. MaxAge
    BY <2>2, MinLemma, SMT
  <2> QED
    BY <1>17, <2>1, <2>3 DEF CheckerBackoff
<1>18. CASE CheckerLost
  <2>1. Pause \in 0 .. Pause
    BY SMT
  <2>2. checker.node \in Nodes
    BY <1>18 DEF CheckerLost
  <2>3. CASE checker' = [checker EXCEPT !.pc = "reset"]
    BY <1>18, <2>2, <2>3 DEF CheckerLost
  <2>4. CASE checker' = FallAsleep
    BY <1>18, <2>1, <2>2, <2>4 DEF CheckerLost, FallAsleep
  <2> QED
    BY <1>18, <2>3, <2>4 DEF CheckerLost
<1>19. CASE CheckerReset
  BY <1>19, MachinesType DEF CheckerReset
<1>20. CASE CheckerReload
  <2>1. Pause \in 0 .. Pause
    BY SMT
  <2> QED
    BY <1>20, <2>1, MachinesType DEF CheckerReload, FallAsleep
<1>21. CASE CheckerWake
  <2>1. checker' = [pc |-> "next", node |-> None, diff |-> 0, sum |-> checker.sum,
                   rest |-> checker.rest, todo |-> checker.todo]
    BY <1>21 DEF CheckerWake
  <2>2. 0 \in 0 .. MaxAge
    BY SMT
  <2> QED
    BY <1>21, <2>1, <2>2 DEF CheckerWake
<1>22. CASE UNCHANGED vars
  BY <1>22 DEF vars
<1>23. CASE CheckerWindow
  BY <1>23 DEF CheckerWindow
<1>24. CASE CheckerFirstWindow
  BY <1>24 DEF CheckerFirstWindow, NarrowWindow
<1>25. CASE CheckerShow
  BY <1>25 DEF CheckerShow
<1>26. CASE CheckerNarrow
  BY <1>26 DEF CheckerNarrow, NarrowWindow
<1>27. CASE CheckerStore
  <2>1. 0 \in 0 .. MaxAge
    BY SMT
  <2>2. checker.node \in Nodes
    BY <1>27 DEF CheckerStore
  <2> QED
    BY <1>27, <2>1, <2>2 DEF CheckerStore
<1> HIDE DEF TypeOK, machines, tables, HandlerSteps, CheckerSteps, Unchecked
<1> QED
  BY <1>1, <1>2, <1>3, <1>4, <1>5, <1>6, <1>7, <1>8, <1>9, <1>10, <1>11, <1>12, <1>13,
     <1>14, <1>15, <1>16, <1>17, <1>18, <1>19, <1>20, <1>21, <1>22, <1>23,
     <1>24, <1>25, <1>26, <1>27
     DEF Next, HandlerStep, CheckerStep

\* The thresholds the threads share keep their lower bound, and what the threads
\* remember of them stays true while the other one writes.
LEMMA IndInvStep ==
  ASSUME IndInv, [Next]_vars
  PROVE  IndInv'
<1> DEFINE Rest == /\ ThresholdsHigh
                   /\ SumHigh
                   /\ ListedAreKnown
                   /\ SampledHasThreshold
                   /\ SaveOnlyWhenFresh
                   /\ LoadOnlyAfterSilence
                   /\ ThresholdMissingOnlyAtFirst
<1>0. TypeOK'
  BY TypeOKStep DEF IndInv
<1> SUFFICES Rest'
  BY <1>0 DEF IndInv
<1> USE ThresholdsAssumption, NoneAssumption
        DEF IndInv, TypeOK, ThresholdsHigh, SumHigh, ListedAreKnown, SampledHasThreshold,
            SaveOnlyWhenFresh, LoadOnlyAfterSilence, ThresholdMissingOnlyAtFirst,
            machines, tables, HandlerSteps, CheckerSteps, Unchecked
<1>1. ASSUME NEW n \in Nodes, Send(n) PROVE Rest'
  BY <1>1 DEF Send
<1>2. ASSUME NEW n \in Nodes, Crash(n) PROVE Rest'
  BY <1>2 DEF Crash
<1>3. CASE Lose
  BY <1>3 DEF Lose
<1>4. CASE Tick
  BY <1>4 DEF Tick
<1>5. CASE Handle
  BY <1>5 DEF Handle
<1>6. CASE HandlerSave
  BY <1>6 DEF HandlerSave
<1>7. CASE HandlerWiden
  BY <1>7 DEF HandlerWiden
<1>8. CASE HandlerStamp
  BY <1>8 DEF HandlerStamp
<1>9. CASE HandlerArm
  BY <1>9, SMT DEF HandlerArm
<1>10. CASE CheckerList
  BY <1>10 DEF CheckerList
<1>11. CASE CheckerSample
  BY <1>11 DEF CheckerSample
<1>12. CASE CheckerFresh
  BY <1>12, SMT DEF CheckerFresh, Fresh
<1>13. CASE CheckerSave
  BY <1>13 DEF CheckerSave
<1>14. CASE CheckerRearm
  BY <1>14, SMT DEF CheckerRearm
<1>15. CASE CheckerSilent
  BY <1>15, SMT DEF CheckerSilent, Silent
<1>16. CASE CheckerLoad
  BY <1>16 DEF CheckerLoad
<1>17. CASE CheckerBackoff
  <2>1. checker.node \in Nodes /\ checker.diff \in Nat
    BY <1>17, SMT DEF CheckerBackoff
  <2>2. /\ checker.diff * Backoff \in Nat
        /\ peers_load[checker.node] \in LoadWait .. MaxAge
    BY <1>17, <2>1, SMT DEF CheckerBackoff
  <2>3. Min(peers_load[checker.node] + checker.diff * Backoff, MaxAge)
          \in LoadWait .. MaxAge
    BY <2>2, MinLemma, SMT
  <2> QED
    BY <1>17, <2>1, <2>3, SMT DEF CheckerBackoff
<1>18. CASE CheckerLost
  BY <1>18, SMT DEF CheckerLost, FallAsleep
<1>19. CASE CheckerReset
  BY <1>19 DEF CheckerReset
<1>20. CASE CheckerReload
  BY <1>20 DEF CheckerReload, FallAsleep
<1>21. CASE CheckerWake
  BY <1>21, SMT DEF CheckerWake
<1>22. CASE UNCHANGED vars
  BY <1>22 DEF vars
<1>23. CASE CheckerWindow
  BY <1>23 DEF CheckerWindow
<1>24. CASE CheckerFirstWindow
  BY <1>24 DEF CheckerFirstWindow, NarrowWindow
<1>25. CASE CheckerShow
  BY <1>25 DEF CheckerShow
<1>26. CASE CheckerNarrow
  BY <1>26 DEF CheckerNarrow, NarrowWindow
<1>27. CASE CheckerStore
  BY <1>27, SMT DEF CheckerStore
<1> QED
  BY <1>1, <1>2, <1>3, <1>4, <1>5, <1>6, <1>7, <1>8, <1>9, <1>10, <1>11, <1>12, <1>13,
     <1>14, <1>15, <1>16, <1>17, <1>18, <1>19, <1>20, <1>21, <1>22, <1>23,
     <1>24, <1>25, <1>26, <1>27
     DEF Next, HandlerStep, CheckerStep

\* The inductive invariant holds in every reachable state of the controller.
THEOREM Invariance == Spec => []IndInv
<1>1. Init => IndInv
  BY ThresholdsAssumption, CrashesAssumption, SMT
     DEF Init, IndInv, TypeOK, ThresholdsHigh, SumHigh, ListedAreKnown, SampledHasThreshold,
         SaveOnlyWhenFresh, LoadOnlyAfterSilence, ThresholdMissingOnlyAtFirst,
         HandlerSteps, CheckerSteps, Unchecked
<1>2. IndInv /\ [Next]_vars => IndInv'
  BY IndInvStep
<1> QED
  BY <1>1, <1>2, PTL DEF Spec

\* Every variable of the controller keeps its type.
THEOREM TypeCorrect == Spec => []TypeOK
<1>1. IndInv => TypeOK
  BY DEF IndInv
<1> QED
  BY <1>1, Invariance, PTL

\* No machine is rolled back that was not silent for more than load_wait when
\* hb_checker sampled it.
THEOREM NoEarlyRollback == Spec => []LoadOnlyAfterSilence
<1>1. IndInv => LoadOnlyAfterSilence
  BY DEF IndInv
<1> QED
  BY <1>1, Invariance, PTL

\* The KeyError that ends hb_checker is possible only while the handler registers
\* a node for the first time.
THEOREM KeyErrorOnlyAtFirst == Spec => []ThresholdMissingOnlyAtFirst
<1>1. IndInv => ThresholdMissingOnlyAtFirst
  BY DEF IndInv
<1> QED
  BY <1>1, Invariance, PTL

\* A snapshot of a dead kernel is taken only inside the fresh window or on a
\* "savevm" entry.
THEOREM PoisonBounded == Spec => PoisonedOnlyWhenFresh
<1> DEFINE A == \A n \in Nodes : (snapshot[n] # "crashed" /\ snapshot'[n] = "crashed") =>
                  \/ checker.pc = "save" /\ checker.node = n /\ checker.diff < HbWaitSaved
                  \/ handler.pc = "save" /\ handler.node = n
<1>1. ASSUME IndInv, [Next]_vars PROVE [A]_vars
  <2> SUFFICES ASSUME NEW n \in Nodes, snapshot[n] # "crashed", snapshot'[n] = "crashed"
               PROVE  \/ checker.pc = "save" /\ checker.node = n /\ checker.diff < HbWaitSaved
                      \/ handler.pc = "save" /\ handler.node = n
    OBVIOUS
  <2>1. HandlerSave \/ CheckerSave
    BY <1>1 DEF Next, HandlerStep, CheckerStep, Send, Crash, Lose, Tick, Handle,
         HandlerWiden, HandlerStamp, HandlerArm, CheckerList, CheckerSample,
         CheckerWindow, CheckerFirstWindow, CheckerShow, NarrowWindow, CheckerFresh,
         CheckerRearm, CheckerNarrow, CheckerSilent, CheckerLoad, CheckerBackoff,
         CheckerStore, CheckerLost, CheckerReset, CheckerReload, CheckerWake, LoadVm, ResetVm,
         machines, vars
  <2>2. CASE HandlerSave
    BY <1>1, <2>2 DEF HandlerSave, SaveVm, IndInv, TypeOK
  <2>3. CASE CheckerSave
    BY <1>1, <2>3 DEF CheckerSave, SaveVm, IndInv, TypeOK, SaveOnlyWhenFresh
  <2> QED
    BY <2>1, <2>2, <2>3
<1>2. IndInv /\ [Next]_vars => [A]_vars
  BY <1>1
<1> QED
  BY <1>2, Invariance, PTL DEF Spec, PoisonedOnlyWhenFresh

=============================================================================
