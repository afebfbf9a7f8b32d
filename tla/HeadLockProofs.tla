--------------------------- MODULE HeadLockProofs ---------------------------
(***************************************************************************)
(* What the races of the head lock cannot do, for any number of processes  *)
(* and any assignment of host ids to them: an abandoned lock word never    *)
(* carries the id of a process that will not come back to release it.      *)
(***************************************************************************)
EXTENDS HeadLock, TLAPS

(* Every lock word and label keeps its type: is_locked never becomes READ,  *)
(* nor any value outside the enum, whatever the interleaving.               *)
THEOREM LockTypeCorrect == LockSpec => []LockTypeOK
<1>1. LockInit => LockTypeOK
  BY DEF LockInit, LockTypeOK, Labels, IDLE, WRITE
<1>2. LockTypeOK /\ [LockNext]_lockVars => LockTypeOK'
  <2> SUFFICES ASSUME LockTypeOK, [LockNext]_lockVars PROVE LockTypeOK'
    OBVIOUS
  <2> USE DEF LockTypeOK, Labels, Goto, lockWords, IDLE, WRITE, NO_HOST
  <2>1. ASSUME NEW p \in Procs, Enter(p) PROVE LockTypeOK'
    BY <2>1 DEF Enter
  <2>2. ASSUME NEW p \in Procs, Leave(p) \/ StrayUnlock(p) PROVE LockTypeOK'
    BY <2>2 DEF Leave, StrayUnlock
  <2>3. ASSUME NEW p \in Procs, OverrideCheck(p) \/ OverrideWho(p) \/ OverrideIdle(p)
        PROVE LockTypeOK'
    BY <2>3 DEF OverrideCheck, OverrideWho, OverrideIdle
  <2>4. ASSUME NEW p \in Procs, LockCheck(p) \/ LockSet(p)
        PROVE LockTypeOK'
    BY <2>4 DEF LockCheck, LockSet
  <2>5. ASSUME NEW p \in Procs, LockWho(p) PROVE LockTypeOK'
    BY <2>5, LockAssumption DEF LockWho
  <2>6. ASSUME NEW p \in Procs, UnlockCheck(p) \/ UnlockIdle(p) \/ UnlockWho(p)
        PROVE LockTypeOK'
    BY <2>6 DEF UnlockCheck, UnlockIdle, UnlockWho
  <2>7. CASE UNCHANGED lockVars
    BY <2>7 DEF lockVars
  <2>8. QED
    BY <2>1, <2>2, <2>3, <2>4, <2>5, <2>6, <2>7 DEF LockNext, LockStep
<1>3. QED
  BY <1>1, <1>2, PTL DEF LockSpec

(* The inductive invariant.  A step can only break OwnerPresent by leaving  *)
(* WRITE with an id in the words and nobody behind it; the process that     *)
(* sets WRITE is at lk_who until it has written its id, and the one whose   *)
(* id is there stays in Holding until is_locked is IDLE again.              *)
LEMMA OwnerPresentStep ==
  ASSUME LockTypeOK, OwnerPresent, [LockNext]_lockVars
  PROVE  OwnerPresent'
<1> USE DEF LockTypeOK, OwnerPresent, Holding, Goto, lockWords, IDLE, WRITE, NO_HOST
<1>1. ASSUME NEW p \in Procs, Enter(p) PROVE OwnerPresent'
  BY <1>1 DEF Enter
<1>2. ASSUME NEW p \in Procs, Leave(p) \/ StrayUnlock(p) PROVE OwnerPresent'
  BY <1>2 DEF Leave, StrayUnlock
<1>3. ASSUME NEW p \in Procs, OverrideCheck(p) PROVE OwnerPresent'
  BY <1>3 DEF OverrideCheck
<1>4. ASSUME NEW p \in Procs, OverrideWho(p) \/ OverrideIdle(p) PROVE OwnerPresent'
  BY <1>4 DEF OverrideWho, OverrideIdle
<1>5. ASSUME NEW p \in Procs, LockCheck(p) PROVE OwnerPresent'
  BY <1>5 DEF LockCheck
<1>6. ASSUME NEW p \in Procs, LockSet(p) PROVE OwnerPresent'
  <2>1. pc'[p] = "lk_who"
    BY <1>6 DEF LockSet
  <2>2. QED BY <2>1
<1>7. ASSUME NEW p \in Procs, LockWho(p) PROVE OwnerPresent'
  <2>1. pc'[p] = "cs" /\ whoLocked' = IdOf[p]
    BY <1>7 DEF LockWho
  <2>2. QED BY <2>1
<1>8. ASSUME NEW p \in Procs, UnlockCheck(p) PROVE OwnerPresent'
  BY <1>8 DEF UnlockCheck
<1>9. ASSUME NEW p \in Procs, UnlockIdle(p) \/ UnlockWho(p) PROVE OwnerPresent'
  BY <1>9 DEF UnlockIdle, UnlockWho
<1>10. CASE UNCHANGED lockVars
  BY <1>10 DEF lockVars
<1>11. QED
  BY <1>1, <1>2, <1>3, <1>4, <1>5, <1>6, <1>7, <1>8, <1>9, <1>10 DEF LockNext, LockStep

(* A locked word with an id in it always has that process, or one about to  *)
(* overwrite the id, behind it.                                             *)
THEOREM LockOwnerPresent == LockSpec => []OwnerPresent
<1>1. LockInit => OwnerPresent
  BY DEF LockInit, OwnerPresent, IDLE, WRITE
<1>2. LockTypeOK /\ OwnerPresent /\ [LockNext]_lockVars => OwnerPresent'
  BY OwnerPresentStep
<1>3. QED
  BY <1>1, <1>2, LockTypeCorrect, PTL DEF LockSpec

(* However many processes raced for it, a lock that nobody holds can be     *)
(* reset by the next create_head.                                           *)
THEOREM LockAbandonedIsOverridable == LockSpec => []AbandonedIsOverridable
<1>1. LockTypeOK /\ OwnerPresent => AbandonedIsOverridable
  BY DEF LockTypeOK, OwnerPresent, AbandonedIsOverridable, Overridable, Holding,
         IDLE, WRITE, NO_HOST
<1>2. QED
  BY <1>1, LockTypeCorrect, LockOwnerPresent, PTL
=============================================================================
