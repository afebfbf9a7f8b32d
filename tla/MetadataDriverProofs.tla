------------------------ MODULE MetadataDriverProofs ------------------------
(***************************************************************************)
(* The composed protocol, for any hosts, ids, scripts, limits and deaths,  *)
(* from a fresh region and from a running one: the type invariant, the     *)
(* agreement of the FAM's counter with the table.  From a fresh region     *)
(* alone: the programs are clients of HeadLock, and a single founder's     *)
(* create_head() excludes the FAM.                                         *)
(* Each invariant is a conjunction of parts, one per group of variables,   *)
(* that are inductive together with the earlier ones.                      *)
(***************************************************************************)
EXTENDS MetadataDriver, PermissionOpsProofs

-----------------------------------------------------------------------------
(* Where processes are, and what they are doing there.                     *)

(* Labels of create_head() between the override and the end of the enrolment *)
(* are reached by a creator only, unlock() also from request_extension(),    *)
(* and the FAM is in the lock and at the slot only with a task.              *)
PlacesOK ==
  /\ pc \in [Procs -> HostLabels \cup FamLabels]
  /\ doing \in [Procs -> {"none", "create", "join", "extend", "remove", "move"}]
  /\ pc[Fam] \in FamLabels /\ doing[Fam] \in {"none", "remove", "move"}
  /\ pc[Fam] \in Labels \cup {"read", "move", "remove", "clear", "clear_del"} =>
       \/ doing[Fam] \in {"remove", "move"}
       \/ pc[Fam] = "idle"
  /\ \A p \in Hosts :
       /\ pc[p] \in HostLabels
       /\ pc[p] \in {"ov_check", "ov_who", "ov_idle", "lk_check", "lk_set",
                     "lk_who", "cs", "enrol"} => doing[p] = "create"
       /\ pc[p] = "write" => doing[p] \in {"create", "extend", "remove"}
       /\ pc[p] \in {"un_check", "un_idle", "un_who"} =>
            doing[p] \in {"create", "extend"}

LEMMA PlacesInit == InitFresh \/ InitFounded => PlacesOK
BY DriverAssumption
DEF InitFresh, InitFounded, ProcInit, PlacesOK, Hosts, HostLabels, FamLabels, Labels

(* What is left of a script are operations. *)
ScriptsOK == todo \in [Hosts -> Seq(Operation)]

LEMMA ScriptsStep == ScriptsOK /\ [Next]_vars => ScriptsOK'
<1> SUFFICES ASSUME ScriptsOK, [Next]_vars PROVE ScriptsOK'
  OBVIOUS
<1>1. CASE todo' = todo
  BY <1>1 DEF ScriptsOK
<1>2. ASSUME NEW p \in Hosts, StartOperation(p) PROVE ScriptsOK'
  <2>1. Tail(todo[p]) \in Seq(Operation)
    BY <1>2 DEF StartOperation, ScriptsOK
  <2>2. QED
    BY <1>2, <2>1 DEF StartOperation, ScriptsOK
<1>3. QED
  BY <1>1, <1>2, Zenon
  DEF Next, Environment, HostStep, FamStep, InLock, Deaths, Launch, Attach, ResetCount,
      ChooseCreate, ChooseJoin, EnterCreateHead, SetParticipantCount, Enrol, WriteField,
      JoinField, LoadField, StoreField, WaitForVote, Return, FamPoll, FamVote, FamRead,
      FamMove, FamRemove, FamClearValid, FamClearDel, FamTally, FamStart, Die, FamDie,
      FamCut, Vanish, vars, procVars

LEMMA PlacesStep ==
  ASSUME PlacesOK, ScriptsOK, [Next]_vars
  PROVE  PlacesOK'
<1> USE DEF PlacesOK, Hosts, Goto, Labels, HostLabels, FamLabels
<1>a. Fam \in Procs
  BY DriverAssumption
<1>1. ASSUME NEW p \in Hosts, Environment(p) PROVE PlacesOK'
  <2>1. CASE Launch(p)
    BY <1>a, <2>1 DEF Launch, procVars
  <2>2. CASE StartOperation(p)
    <3>1. Head(todo[p]) \in Operation
      BY <2>2 DEF StartOperation, ScriptsOK
    <3>2. Head(todo[p]).op \in {"extend", "remove"}
      BY <3>1 DEF Operation
    <3>3. QED
      BY <1>a, <2>2, <3>1, <3>2 DEF StartOperation
  <2>3. QED
    BY <1>1, <2>1, <2>2 DEF Environment
<1>2. ASSUME NEW p \in Hosts, HostStep(p) PROVE PlacesOK'
  <2>1. CASE Attach(p) \/ ResetCount(p) \/ ChooseCreate(p)
    BY <1>a, <2>1 DEF Attach, ResetCount, ChooseCreate, procVars
  <2>2. CASE ChooseJoin(p) \/ EnterCreateHead(p)
    BY <1>a, <2>2 DEF ChooseJoin, EnterCreateHead
  <2>3. CASE SetParticipantCount(p) \/ Enrol(p)
    BY <1>a, <2>3 DEF SetParticipantCount, Enrol, procVars
  <2>4. CASE WriteField(p)
    BY <1>a, <2>4 DEF WriteField
  <2>5. CASE JoinField(p) \/ LoadField(p) \/ StoreField(p)
    BY <1>a, <2>5 DEF JoinField, LoadField, StoreField
  <2>6. CASE WaitForVote(p) \/ Return(p)
    BY <1>a, <2>6 DEF WaitForVote, Return
  <2>7. QED
    BY <1>2, <2>1, <2>2, <2>3, <2>4, <2>5, <2>6 DEF HostStep
<1>3. ASSUME FamStep PROVE PlacesOK'
  <2>1. CASE FamPoll \/ FamVote
    BY <1>a, <2>1 DEF FamPoll, FamVote
  <2>2. CASE FamRead
    BY <1>a, <2>2 DEF FamRead
  <2>3. CASE FamMove \/ FamRemove
    <3>1. /\ pc' = [pc EXCEPT ![Fam] = "dead"] \/ pc' = [pc EXCEPT ![Fam] = "clear"]
          /\ doing' = doing /\ doing[Fam] \in {"remove", "move"}
      BY <2>3 DEF FamMove, FamRemove
    <3>2. QED
      BY <1>a, <3>1
  <2>4. CASE FamClearValid \/ FamClearDel
    BY <1>a, <2>4 DEF FamClearValid, FamClearDel, procVars
  <2>5. CASE FamTally \/ FamStart
    BY <1>a, <2>5 DEF FamTally, FamStart, lockVars, procVars
  <2>6. QED
    BY <1>3, <2>1, <2>2, <2>3, <2>4, <2>5 DEF FamStep
<1>4. ASSUME NEW p \in Procs, InLock(p) PROVE PlacesOK'
  <2>1. doing' = doing
    BY <1>4 DEF InLock, procVars
  <2>2. CASE OverrideCheck(p) \/ OverrideWho(p) \/ OverrideIdle(p)
    BY <1>a, <2>1, <2>2 DEF OverrideCheck, OverrideWho, OverrideIdle
  <2>3. CASE LockCheck(p) \/ LockSet(p) \/ LockWho(p)
    BY <1>a, <2>1, <2>3 DEF LockCheck, LockSet, LockWho
  <2>4. CASE UnlockCheck(p) \/ UnlockIdle(p) \/ UnlockWho(p)
    BY <1>a, <2>1, <2>4 DEF UnlockCheck, UnlockIdle, UnlockWho
  <2>5. QED
    BY <1>4, <2>2, <2>3, <2>4 DEF InLock, LockStep
<1>5. ASSUME Deaths PROVE PlacesOK'
  BY <1>a, <1>5 DEF Deaths, Die, FamDie, FamCut, Vanish
<1>6. CASE UNCHANGED vars
  BY <1>6 DEF vars, lockVars, procVars
<1>7. QED
  BY <1>1, <1>2, <1>3, <1>4, <1>5, <1>6 DEF Next

(* Both hold from either initial state on. *)
LEMMA PlacesInvariant == SpecFresh \/ SpecFounded => []PlacesOK /\ []ScriptsOK
<1>1. InitFresh \/ InitFounded => ScriptsOK
  BY DriverAssumption DEF InitFresh, InitFounded, ProcInit, ScriptsOK
<1>2. PlacesOK /\ ScriptsOK /\ [Next]_vars => PlacesOK'
  BY PlacesStep
<1>3. QED
  BY <1>1, <1>2, PlacesInit, ScriptsStep, PTL DEF SpecFresh, SpecFounded

-----------------------------------------------------------------------------
(* The programs are clients of the lock as HeadLock describes them.        *)

(* Without deaths the FAM is never started again. *)
NobodyDies == Mortal = {} /\ MaxRestarts = 0 /\ restarts = 0 /\ pc[Fam] \notin {"off", "cut"}

LEMMA NobodyDiesStep ==
  ASSUME PlacesOK, NobodyDies, [Next]_vars
  PROVE  NobodyDies' /\ ~Deaths
<1>1. ~Deaths
  BY DEF Deaths, Die, FamDie, FamCut, Goto, NobodyDies
<1>2. restarts' = restarts
  BY <1>1, Zenon
  DEF Next, Environment, HostStep, FamStep, InLock, Launch, StartOperation, Attach,
      ResetCount, ChooseCreate, ChooseJoin, EnterCreateHead, SetParticipantCount, Enrol,
      WriteField, JoinField, LoadField, StoreField, WaitForVote, Return, FamPoll, FamVote,
      FamRead, FamMove, FamRemove, FamClearValid, FamClearDel, FamTally, FamStart, vars,
      procVars
<1>3. pc'[Fam] \notin {"off", "cut"}
  <2>a. Fam \in Procs
    BY DriverAssumption
  <2> USE DEF PlacesOK, NobodyDies, Hosts, Goto
  <2>1. ASSUME NEW p \in Hosts, Environment(p) \/ HostStep(p) PROVE pc'[Fam] \notin {"off", "cut"}
    <3>1. pc'[Fam] = pc[Fam]
      BY <2>a, <2>1
      DEF Environment, HostStep, Launch, StartOperation, Attach, ResetCount, ChooseCreate,
          ChooseJoin, EnterCreateHead, SetParticipantCount, Enrol, WriteField, JoinField,
          LoadField, StoreField, WaitForVote, Return
    <3>2. QED
      BY <3>1
  <2>2. ASSUME FamStep PROVE pc'[Fam] \notin {"off", "cut"}
    BY <2>a, <2>2
    DEF FamStep, FamPoll, FamVote, FamRead, FamMove, FamRemove, FamClearValid,
        FamClearDel, FamTally, FamStart, lockVars
  <2>3. ASSUME NEW p \in Procs, InLock(p) PROVE pc'[Fam] \notin {"off", "cut"}
    BY <2>a, <2>3
    DEF InLock, LockStep, OverrideCheck, OverrideWho, OverrideIdle, LockCheck, LockSet,
        LockWho, UnlockCheck, UnlockIdle, UnlockWho
  <2>4. CASE UNCHANGED vars
    BY <2>4 DEF vars, lockVars
  <2>5. QED
    BY <1>1, <2>1, <2>2, <2>3, <2>4 DEF Next
<1>4. QED
  BY <1>1, <1>2, <1>3 DEF NobodyDies

(* A step of p moves p alone in the lock, from where it was to where it is. *)
LEMMA LockPcStep ==
  ASSUME NEW p \in Procs, NEW from, NEW to, lockPc[p] = from, lockPc'[p] = to,
         \A q \in Procs : q # p => pc'[q] = pc[q] /\ doing'[q] = doing[q]
  PROVE  Lock!Goto(p, from, to)
<1>1. \A q \in Procs : q # p => lockPc'[q] = lockPc[q]
  BY DEF lockPc, HasLock
<1>2. lockPc \in [Procs -> {lockPc[q] : q \in Procs}] /\ DOMAIN lockPc' = Procs
  BY DEF lockPc
<1>3. lockPc' = [q \in Procs |-> lockPc'[q]]
  BY DEF lockPc
<1>4. lockPc' = [lockPc EXCEPT ![p] = to]
  BY <1>1, <1>2, <1>3
<1>5. QED
  BY <1>4 DEF Lock!Goto

LEMMA LockPcStutter ==
  ASSUME NEW p \in Procs, lockPc'[p] = lockPc[p], UNCHANGED lockWords,
         \A q \in Procs : q # p => pc'[q] = pc[q] /\ doing'[q] = doing[q]
  PROVE  UNCHANGED Lock!lockVars
<1>1. \A q \in Procs : lockPc'[q] = lockPc[q]
  BY DEF lockPc, HasLock
<1>2. lockPc' = [q \in Procs |-> lockPc'[q]] /\ lockPc = [q \in Procs |-> lockPc[q]]
  BY DEF lockPc
<1>3. QED
  BY <1>1, <1>2 DEF Lock!lockVars, lockWords

(* The host's part outside write_lock() and unlock(): creating a head enters *)
(* the lock, the end of an announcement leaves it or unlocks without it.     *)
LEMMA HostUsesLock ==
  ASSUME PlacesOK, ScriptsOK, NEW p \in Hosts, Environment(p) \/ HostStep(p)
  PROVE  Lock!LockNext \/ UNCHANGED Lock!lockVars
<1> DEFINE Client(from, to) ==
             /\ lockPc[p] = from /\ lockPc'[p] = to /\ UNCHANGED lockWords
             /\ \A q \in Procs : q # p => pc'[q] = pc[q] /\ doing'[q] = doing[q]
<1>1. /\ p \in Procs /\ p # Fam /\ p \in Creators
      /\ pc \in [Procs -> HostLabels \cup FamLabels]
      /\ doing \in [Procs -> {"none", "create", "join", "extend", "remove", "move"}]
  BY DriverAssumption DEF PlacesOK, Hosts
<1>2. lockPc[p] = IF pc[p] \in Labels THEN pc[p] ELSE IF HasLock(p) THEN "cs" ELSE "idle"
  BY <1>1 DEF lockPc
<1>3. lockPc'[p] = IF pc'[p] \in Labels THEN pc'[p]
                   ELSE IF HasLock(p)' THEN "cs" ELSE "idle"
  BY <1>1 DEF lockPc
<1> USE DEF Goto, Labels, HasLock
<1>4. CASE Client("idle", "ov_check")
  BY <1>1, <1>4, LockPcStep DEF Lock!LockNext, Lock!Enter, Lock!lockWords, lockWords
<1>5. CASE Client("cs", "un_check")
  BY <1>1, <1>5, LockPcStep DEF Lock!LockNext, Lock!Leave, Lock!lockWords, lockWords
<1>6. CASE Client("idle", "un_check")
  BY <1>1, <1>6, LockPcStep DEF Lock!LockNext, Lock!StrayUnlock, Lock!lockWords, lockWords
<1>7. CASE Client(lockPc[p], lockPc[p])
  BY <1>1, <1>7, LockPcStutter
<1>8. CASE EnterCreateHead(p)
  <2>1. Client("idle", "ov_check") \/ Client(lockPc[p], lockPc[p])
    BY <1>1, <1>2, <1>3, <1>8 DEF EnterCreateHead
  <2>2. QED
    BY <2>1, <1>4, <1>7
<1>9. CASE WriteField(p)
  <2>1. doing[p] \in {"create", "extend", "remove"}
    BY <1>9 DEF WriteField, PlacesOK
  <2>2. \/ Client("cs", "un_check") \/ Client("idle", "un_check")
        \/ Client(lockPc[p], lockPc[p])
    BY <1>1, <1>2, <1>3, <1>9, <2>1 DEF WriteField
  <2>3. QED
    BY <2>2, <1>5, <1>6, <1>7
<1>10. CASE SetParticipantCount(p) \/ Enrol(p)
  <2>1. doing[p] = "create"
    BY <1>10 DEF SetParticipantCount, Enrol, PlacesOK
  <2>2. Client(lockPc[p], lockPc[p])
    BY <1>1, <1>2, <1>3, <1>10, <2>1 DEF SetParticipantCount, Enrol, procVars
  <2>3. QED
    BY <2>2, <1>7
<1>11. CASE \/ Launch(p) \/ Attach(p) \/ ResetCount(p) \/ ChooseCreate(p)
            \/ ChooseJoin(p)
  <2>1. Client(lockPc[p], lockPc[p])
    BY <1>1, <1>2, <1>3, <1>11
    DEF Launch, Attach, ResetCount, ChooseCreate, ChooseJoin, procVars
  <2>2. QED
    BY <2>1, <1>7
<1>12. CASE \/ JoinField(p) \/ LoadField(p) \/ StoreField(p) \/ WaitForVote(p)
            \/ Return(p)
  <2>1. Client(lockPc[p], lockPc[p])
    BY <1>1, <1>2, <1>3, <1>12
    DEF JoinField, LoadField, StoreField, WaitForVote, Return
  <2>2. QED
    BY <2>1, <1>7
<1>13. CASE StartOperation(p)
  <2>1. Head(todo[p]) \in Operation
    BY <1>13 DEF StartOperation, ScriptsOK
  <2>2. doing'[p] \in {"extend", "remove"}
    BY <1>1, <1>13, <2>1 DEF StartOperation, Operation
  <2>3. Client(lockPc[p], lockPc[p])
    BY <1>1, <1>2, <1>3, <1>13, <2>2 DEF StartOperation
  <2>4. QED
    BY <2>3, <1>7
<1>14. QED
  BY <1>8, <1>9, <1>10, <1>11, <1>12, <1>13 DEF HostStep, Environment

(* The FAM's part: it enters without the override and leaves at the end of  *)
(* its update.                                                              *)
LEMMA FamUsesLock ==
  ASSUME PlacesOK, FamStep, pc[Fam] # "cut"
  PROVE  Lock!LockNext \/ UNCHANGED Lock!lockVars
<1> DEFINE Client(from, to) ==
             /\ lockPc[Fam] = from /\ lockPc'[Fam] = to /\ UNCHANGED lockWords
             /\ \A q \in Procs : q # Fam => pc'[q] = pc[q] /\ doing'[q] = doing[q]
<1>1. /\ Fam \in Procs /\ Fam \notin Creators
      /\ pc \in [Procs -> HostLabels \cup FamLabels]
      /\ doing \in [Procs -> {"none", "create", "join", "extend", "remove", "move"}]
  BY DriverAssumption DEF PlacesOK, Hosts
<1>2. lockPc[Fam] = IF pc[Fam] \in Labels THEN pc[Fam]
                    ELSE IF HasLock(Fam) THEN "cs" ELSE "idle"
  BY <1>1 DEF lockPc
<1>3. lockPc'[Fam] = IF pc'[Fam] \in Labels THEN pc'[Fam]
                     ELSE IF HasLock(Fam)' THEN "cs" ELSE "idle"
  BY <1>1 DEF lockPc
<1> USE DEF Goto, Labels, HasLock
<1>4. CASE Client("idle", "lk_check")
  BY <1>1, <1>4, LockPcStep DEF Lock!LockNext, Lock!Enter, Lock!lockWords, lockWords
<1>5. CASE Client("cs", "un_check")
  BY <1>1, <1>5, LockPcStep DEF Lock!LockNext, Lock!Leave, Lock!lockWords, lockWords
<1>6. CASE Client(lockPc[Fam], lockPc[Fam])
  BY <1>1, <1>6, LockPcStutter
<1>7. CASE FamPoll
  <2>1. Client("idle", "lk_check")
    BY <1>1, <1>2, <1>3, <1>7 DEF FamPoll
  <2>2. QED
    BY <2>1, <1>4
<1>8. CASE FamClearDel
  <2>1. Client("cs", "un_check")
    BY <1>1, <1>2, <1>3, <1>8 DEF FamClearDel, procVars
  <2>2. QED
    BY <2>1, <1>5
<1>9. CASE FamVote \/ FamClearValid \/ FamTally
  <2>1. Client(lockPc[Fam], lockPc[Fam])
    BY <1>1, <1>2, <1>3, <1>9
    DEF FamVote, FamClearValid, FamTally, procVars, lockVars, lockWords
  <2>2. QED
    BY <2>1, <1>6
<1>10. CASE FamRead
  <2>1. doing[Fam] \in {"remove", "move"}
    BY <1>10 DEF FamRead, PlacesOK
  <2>2. Client(lockPc[Fam], lockPc[Fam])
    BY <1>1, <1>2, <1>3, <1>10, <2>1 DEF FamRead
  <2>3. QED
    BY <2>2, <1>6
<1>11. CASE FamMove \/ FamRemove
  <2>1. /\ pc' = [pc EXCEPT ![Fam] = "dead"] \/ pc' = [pc EXCEPT ![Fam] = "clear"]
        /\ pc[Fam] \in {"move", "remove"}
        /\ doing' = doing /\ UNCHANGED lockWords
    BY <1>11 DEF FamMove, FamRemove
  <2>2. Client(lockPc[Fam], lockPc[Fam])
    BY <1>1, <1>2, <1>3, <2>1
  <2>3. QED
    BY <2>2, <1>6
<1>12. QED
  BY <1>7, <1>8, <1>9, <1>10, <1>11 DEF FamStep, FamStart, Goto

(* The steps inside write_lock() and unlock() are the lock's own. *)
LEMMA LockStepIsLockStep ==
  ASSUME PlacesOK, NEW p \in Procs, InLock(p)
  PROVE  Lock!LockNext
<1>1. doing' = doing
  BY DEF InLock, procVars
<1>2. ASSUME NEW from \in Labels, NEW to \in Labels, Goto(p, from, to)
      PROVE  Lock!Goto(p, from, to)
  <2>1. /\ pc[p] = from /\ pc'[p] = to
        /\ \A q \in Procs : q # p => pc'[q] = pc[q]
    BY <1>2 DEF Goto, PlacesOK
  <2>2. lockPc[p] = from /\ lockPc'[p] = to
    BY <2>1 DEF lockPc
  <2>3. QED
    BY <1>1, <2>1, <2>2, LockPcStep
<1> USE DEF Lock!LockNext, Lock!LockStep, Lock!lockWords, lockWords, Labels
<1>3. CASE OverrideCheck(p) \/ OverrideWho(p) \/ OverrideIdle(p)
  BY <1>2, <1>3
  DEF OverrideCheck, OverrideWho, OverrideIdle, Overridable, Lock!OverrideCheck,
      Lock!OverrideWho, Lock!OverrideIdle, Lock!Overridable, Lock!IDLE, IDLE, Lock!WRITE,
      WRITE, Lock!NO_HOST, NO_HOST
<1>4. CASE LockCheck(p) \/ LockSet(p) \/ LockWho(p)
  BY <1>2, <1>4
  DEF LockCheck, LockSet, LockWho, Lock!LockCheck, Lock!LockSet, Lock!LockWho,
      Lock!IDLE, IDLE, Lock!WRITE, WRITE
<1>5. CASE UnlockCheck(p) \/ UnlockIdle(p) \/ UnlockWho(p)
  BY <1>2, <1>5
  DEF UnlockCheck, UnlockIdle, UnlockWho, Lock!UnlockCheck, Lock!UnlockIdle,
      Lock!UnlockWho, Lock!IDLE, IDLE, Lock!WRITE, WRITE, Lock!NO_HOST, NO_HOST
<1>6. QED
  BY <1>3, <1>4, <1>5 DEF InLock, LockStep

(* Started on a fresh region and with nobody killed, hosts and FAM use the  *)
(* lock as HeadLock has its clients use it, so what HeadLockProofs proves    *)
(* of its races holds of the programs.                                       *)
THEOREM DriverUsesLock ==
  ASSUME Mortal = {}, MaxRestarts = 0
  PROVE  SpecFresh => UsesLock
<1>1. InitFresh => Lock!LockInit /\ NobodyDies
  BY DriverAssumption
  DEF InitFresh, ProcInit, Lock!LockInit, lockPc, HasLock, Labels, Lock!IDLE, IDLE,
      NobodyDies
<1>2. PlacesOK /\ ScriptsOK /\ NobodyDies /\ [Next]_vars
        => [Lock!LockNext]_Lock!lockVars /\ NobodyDies'
  <2> SUFFICES ASSUME PlacesOK, ScriptsOK, NobodyDies, [Next]_vars
               PROVE  (Lock!LockNext \/ UNCHANGED Lock!lockVars) /\ NobodyDies'
    OBVIOUS
  <2>1. ~Deaths /\ NobodyDies'
    BY NobodyDiesStep
  <2>2. CASE UNCHANGED vars
    BY <2>1, <2>2 DEF vars, lockVars, procVars, Lock!lockVars, lockPc, HasLock
  <2>3. QED
    BY <2>1, <2>2, HostUsesLock, FamUsesLock, LockStepIsLockStep DEF Next, NobodyDies
<1>3. QED
  BY <1>1, <1>2, PlacesInvariant, PTL DEF SpecFresh, UsesLock, Lock!LockSpec

-----------------------------------------------------------------------------
(* The slot, the processes' own entries, and where they are in them.       *)

Fields ==
  {"host", "used", "range", "initiator", "permission", "is_del", "is_valid"}

(* A process at a label that stores or loads a field has one left to do. *)
Room(p, label, n) ==
  /\ p # Fam /\ label \in {"write", "join", "load", "store"} => n # 8
  /\ p = Fam /\ label = "read" => n \in 1..5

SlotOK ==
  /\ slot \in ProposedEntry
  /\ copy \in [Procs -> ProposedEntry]
  /\ next \in [Procs -> 1..8]
  /\ \A p \in Procs : Room(p, pc[p], next[p])

(* The orders name fields; the last of seven comes before 8. *)
LEMMA OrderFacts ==
  /\ Len(CopyOrder) = 7 /\ Len(JoinOrder) = 7 /\ Len(ReadOrder) = 5
  /\ \A i \in 1..7 : CopyOrder[i] \in Fields /\ JoinOrder[i] \in Fields
  /\ \A i \in 1..5 : ReadOrder[i] \in Fields
BY DEF CopyOrder, JoinOrder, ReadOrder, Fields

(* Taking one field of another entry keeps an entry an entry. *)
LEMMA FieldStore ==
  ASSUME NEW s \in ProposedEntry, NEW e \in ProposedEntry, NEW f \in Fields
  PROVE  [s EXCEPT ![f] = e[f]] \in ProposedEntry
<1>1. CASE f = "host"
  BY <1>1 DEF ProposedEntry
<1>2. CASE f = "used"
  BY <1>2 DEF ProposedEntry
<1>3. CASE f = "range"
  BY <1>3 DEF ProposedEntry
<1>4. CASE f = "initiator"
  BY <1>4 DEF ProposedEntry
<1>5. CASE f \in {"permission", "is_del", "is_valid"}
  BY <1>5 DEF ProposedEntry
<1>6. QED
  BY <1>1, <1>2, <1>3, <1>4, <1>5 DEF Fields

(* The entries that processes write are entries. *)
LEMMA EntriesTyped ==
  /\ Blank \in ProposedEntry
  /\ \A p \in Hosts :
       /\ JoinEntry(p) \in ProposedEntry
       /\ \A r \in Ranges, w \in BOOLEAN : AllocatedEntries(p, r, w) \subseteq ProposedEntry
  /\ \A o \in [op: {"remove"}, host: Nat, initiator: Nat, range: Ranges] :
       RemovalEntries(o) \subseteq ProposedEntry
<1>1. 0 \in 0..MaxContext /\ 1 \in 0..MaxContext
  BY TableAssumption
<1>2. \A p \in Hosts : /\ IdOf[p] \in Nat /\ Asks[p].range \in Ranges
                       /\ Asks[p].permission \in BOOLEAN
  BY DriverAssumption DEF Slots
<1>3. \A w \in JunkWord : w \in Nat /\ w \in 0..MaxContext
  BY DriverAssumption, TableAssumption
<1>4. \A d \in JunkFlag : d \in BOOLEAN
  BY DriverAssumption
<1>5. Blank \in ProposedEntry
  BY <1>1 DEF Blank, ProposedEntry
<1>6. ASSUME NEW p \in Hosts PROVE JoinEntry(p) \in ProposedEntry
  BY <1>1, <1>2 DEF JoinEntry, ProposedEntry
<1>7. ASSUME NEW p \in Hosts, NEW r \in Ranges, NEW w \in BOOLEAN,
             NEW e \in AllocatedEntries(p, r, w)
      PROVE  e \in ProposedEntry
  <2>1. PICK v \in JunkWord, d \in JunkFlag :
           e = [host |-> IdOf[p], used |-> 1, range |-> r, initiator |-> v,
                permission |-> w, is_del |-> d, is_valid |-> TRUE]
    BY <1>7 DEF AllocatedEntries
  <2>2. /\ v \in Nat /\ d \in BOOLEAN /\ TRUE \in BOOLEAN
        /\ r \in Ranges \cup {ZeroRange}
    BY <1>3, <1>4
  <2>3. QED
    BY <1>1, <1>2, <2>1, <2>2 DEF ProposedEntry
<1>8. ASSUME NEW o \in [op: {"remove"}, host: Nat, initiator: Nat, range: Ranges],
             NEW e \in RemovalEntries(o)
      PROVE  e \in ProposedEntry
  <2>1. PICK v \in JunkWord, d \in BOOLEAN :
           e = [host |-> o.host, used |-> v, range |-> o.range,
                initiator |-> o.initiator, permission |-> d, is_del |-> TRUE,
                is_valid |-> TRUE]
    BY <1>8 DEF RemovalEntries
  <2>2. /\ v \in 0..MaxContext /\ TRUE \in BOOLEAN
        /\ o.host \in Nat /\ o.initiator \in Nat /\ o.range \in Ranges \cup {ZeroRange}
    BY <1>3
  <2>3. QED
    BY <2>1, <2>2 DEF ProposedEntry
<1>9. QED
  BY <1>5, <1>6, <1>7, <1>8

LEMMA SlotInit == InitFresh \/ InitFounded => SlotOK
<1>1. /\ Blank \in ProposedEntry /\ Fam \in Procs
      /\ Founder.host \in Nat /\ Founder.range \in Ranges /\ Founder.permission \in BOOLEAN
      /\ 0 \in 0..MaxContext /\ 1 \in 0..MaxContext
  BY EntriesTyped, DriverAssumption, TableAssumption DEF Slots
<1>2. [Blank EXCEPT !.host = Founder.host, !.used = 1, !.range = Founder.range,
                    !.permission = Founder.permission] \in ProposedEntry
  BY <1>1 DEF ProposedEntry
<1>3. ProcInit /\ slot \in ProposedEntry => SlotOK
  BY <1>1 DEF ProcInit, SlotOK, Room
<1>4. QED
  BY <1>1, <1>2, <1>3 DEF InitFresh, InitFounded

(* A step that moves p to a label and to a field that the label has. *)
LEMMA SlotMoved ==
  ASSUME PlacesOK, SlotOK, NEW p \in Procs,
         slot' \in ProposedEntry, copy' \in [Procs -> ProposedEntry],
         next' \in [Procs -> 1..8], Room(p, pc'[p], next'[p]),
         \A q \in Procs : q # p => next'[q] = next[q] /\ pc'[q] = pc[q]
  PROVE  SlotOK'
<1>1. \A q \in Procs : Room(q, pc'[q], next'[q])
  BY DEF SlotOK
<1>2. QED
  BY <1>1 DEF SlotOK, Room

(* A step of p that leaves the slot alone and either keeps p's place in an  *)
(* entry, away from the labels that use it, or puts p at the start of one.   *)
LEMMA SlotKept ==
  ASSUME PlacesOK, SlotOK, NEW p \in Procs, NEW to, NEW e \in ProposedEntry,
         slot' = slot, pc' = [pc EXCEPT ![p] = to],
         copy' = [copy EXCEPT ![p] = e] \/ copy' = copy,
         \/ next' = [next EXCEPT ![p] = 1]
         \/ next' = next /\ to \notin {"write", "join", "load", "store", "read"}
  PROVE  SlotOK'
<1>1. slot' \in ProposedEntry /\ copy' \in [Procs -> ProposedEntry]
  BY DEF SlotOK
<1>2. /\ next' \in [Procs -> 1..8] /\ Room(p, pc'[p], next'[p])
      /\ \A q \in Procs : q # p => next'[q] = next[q] /\ pc'[q] = pc[q]
  BY DEF SlotOK, PlacesOK, Room
<1>3. QED
  BY <1>1, <1>2, SlotMoved

LEMMA SlotStep ==
  ASSUME PlacesOK, ScriptsOK, SlotOK, [Next]_vars
  PROVE  SlotOK'
<1>a. Fam \in Procs /\ Blank \in ProposedEntry
  BY DriverAssumption, EntriesTyped
<1>1. ASSUME NEW p \in Hosts, Environment(p) PROVE SlotOK'
  <2>a. p \in Procs
    BY DEF Hosts
  <2>1. CASE Launch(p)
    BY <1>a, <2>a, <2>1, SlotKept DEF Launch, Goto, headVars, procVars
  <2>2. CASE StartOperation(p)
    <3> DEFINE o == Head(todo[p])
    <3>1. o \in Operation
      BY <2>2 DEF StartOperation, ScriptsOK
    <3> HIDE DEF o
    <3>2. IF o.op = "remove"
          THEN o \in [op: {"remove"}, host: Nat, initiator: Nat, range: Ranges]
          ELSE o.range \in Ranges /\ o.permission \in BOOLEAN
      BY <3>1 DEF Operation
    <3>3. \E e \in IF o.op = "remove" THEN RemovalEntries(o)
                   ELSE AllocatedEntries(p, o.range, o.permission) :
             copy' = [copy EXCEPT ![p] = e]
      BY <2>2 DEF StartOperation, o
    <3>4. PICK e \in ProposedEntry : copy' = [copy EXCEPT ![p] = e]
      <4>1. CASE o.op = "remove"
        BY <3>2, <3>3, <4>1, EntriesTyped
      <4>2. CASE o.op # "remove"
        BY <3>2, <3>3, <4>2, EntriesTyped
      <4>3. QED
        BY <4>1, <4>2
    <3>5. QED
      <4>1. /\ slot' = slot /\ pc' = [pc EXCEPT ![p] = "write"]
            /\ next' = [next EXCEPT ![p] = 1]
        BY <2>2 DEF StartOperation, Goto, Rewind, headVars
      <4>2. QED
        BY <2>a, <3>4, <4>1, SlotKept
  <2>3. QED
    BY <1>1, <2>1, <2>2 DEF Environment
<1>2. ASSUME NEW p \in Hosts, HostStep(p) PROVE SlotOK'
  <2>a. p \in Procs /\ p # Fam
    BY DEF Hosts
  <2>1. CASE Attach(p) \/ ResetCount(p) \/ ChooseCreate(p) \/ EnterCreateHead(p)
    <3>1. /\ slot' = slot /\ copy' = copy /\ next' = next
          /\ \E to \in {"reset", "role", "head", "role2", "ov_check", "exit"} :
               pc' = [pc EXCEPT ![p] = to]
      BY <2>1
      DEF Attach, ResetCount, ChooseCreate, EnterCreateHead, Goto, headVars, procVars
    <3>2. QED
      BY <1>a, <2>a, <3>1, SlotKept
  <2>2. CASE ChooseJoin(p)
    <3>1. /\ slot' = slot /\ copy' = copy /\ next' = [next EXCEPT ![p] = 1]
          /\ \E to \in {"join", "exit"} : pc' = [pc EXCEPT ![p] = to]
      BY <2>2 DEF ChooseJoin, Goto, Rewind, headVars
    <3>2. QED
      BY <1>a, <2>a, <3>1, SlotKept
  <2>3. CASE SetParticipantCount(p)
    BY <1>a, <2>a, <2>3, SlotKept DEF SetParticipantCount, Goto, procVars
  <2>4. CASE Enrol(p)
    <3>1. Asks[p].range \in Ranges /\ Asks[p].permission \in BOOLEAN
      BY DriverAssumption
    <3>2. AllocatedEntries(p, Asks[p].range, Asks[p].permission) \subseteq ProposedEntry
      BY <3>1, EntriesTyped
    <3>3. PICK e \in ProposedEntry : copy' = [copy EXCEPT ![p] = e]
      BY <2>4, <3>2 DEF Enrol
    <3>4. QED
      <4>1. /\ slot' = slot /\ pc' = [pc EXCEPT ![p] = "write"]
            /\ next' = [next EXCEPT ![p] = 1]
        BY <2>4 DEF Enrol, Goto, Rewind
      <4>2. QED
        BY <2>a, <3>3, <4>1, SlotKept
  <2>5. CASE WriteField(p)
    <3>1. next[p] \in 1..7 /\ copy[p] \in ProposedEntry /\ slot \in ProposedEntry
      BY <2>a, <2>5 DEF WriteField, Goto, SlotOK, Room
    <3>2. slot' \in ProposedEntry
      BY <2>5, <3>1, OrderFacts, FieldStore DEF WriteField, SetSlot
    <3>3. /\ pc[p] = "write"
          /\ \E to \in {"write", "idle", "un_check"} :
               /\ pc' = [pc EXCEPT ![p] = to]
               /\ \/ copy' = copy /\ next' = [next EXCEPT ![p] = @ + 1] /\ next[p] # 7
                  \/ /\ copy' = [copy EXCEPT ![p] = Blank]
                     /\ next' = [next EXCEPT ![p] = 1]
      BY <2>5, OrderFacts DEF WriteField, Goto, Rewind, Advance
    <3>4. copy' \in [Procs -> ProposedEntry]
      BY <1>a, <3>3 DEF SlotOK
    <3>5. /\ next' \in [Procs -> 1..8] /\ Room(p, pc'[p], next'[p])
          /\ \A q \in Procs : q # p => next'[q] = next[q] /\ pc'[q] = pc[q]
      BY <2>a, <3>1, <3>3 DEF SlotOK, PlacesOK, Room
    <3>6. QED
      BY <2>a, <3>2, <3>4, <3>5, SlotMoved
  <2>6. CASE JoinField(p)
    <3>1. next[p] \in 1..7 /\ JoinEntry(p) \in ProposedEntry /\ slot \in ProposedEntry
      BY <2>a, <2>6, EntriesTyped DEF JoinField, Goto, SlotOK, Room
    <3>2. slot' \in ProposedEntry
      BY <2>6, <3>1, OrderFacts, FieldStore DEF JoinField, SetSlot
    <3>3. /\ copy' = copy
          /\ \E to \in {"join", "load"} :
               /\ pc' = [pc EXCEPT ![p] = to]
               /\ \/ next' = [next EXCEPT ![p] = @ + 1] /\ next[p] # 7
                  \/ next' = [next EXCEPT ![p] = 1]
      BY <2>6, OrderFacts DEF JoinField, Goto, Rewind, Advance
    <3>4. copy' \in [Procs -> ProposedEntry]
      BY <1>a, <3>3 DEF SlotOK
    <3>5. /\ next' \in [Procs -> 1..8] /\ Room(p, pc'[p], next'[p])
          /\ \A q \in Procs : q # p => next'[q] = next[q] /\ pc'[q] = pc[q]
      BY <2>a, <3>1, <3>3 DEF SlotOK, PlacesOK, Room
    <3>6. QED
      BY <2>a, <3>2, <3>4, <3>5, SlotMoved
  <2>7. CASE LoadField(p)
    <3>1. next[p] \in 1..7 /\ slot \in ProposedEntry
      BY <2>a, <2>7 DEF LoadField, Goto, SlotOK, Room
    <3>2. PICK e \in ProposedEntry : copy' = [copy EXCEPT ![p] = e]
      BY <1>a, <2>7, <3>1, OrderFacts, FieldStore DEF LoadField
    <3>3. /\ next' = next /\ slot' = slot
          /\ \E to \in {"wait", "store"} : pc' = [pc EXCEPT ![p] = to]
      BY <2>7 DEF LoadField, Goto, headVars
    <3>4. copy' \in [Procs -> ProposedEntry] /\ slot' \in ProposedEntry
      BY <3>2, <3>3 DEF SlotOK
    <3>5. /\ next' \in [Procs -> 1..8] /\ Room(p, pc'[p], next'[p])
          /\ \A q \in Procs : q # p => next'[q] = next[q] /\ pc'[q] = pc[q]
      BY <2>a, <3>1, <3>3 DEF SlotOK, PlacesOK, Room
    <3>6. QED
      BY <2>a, <3>4, <3>5, SlotMoved
  <2>8. CASE StoreField(p)
    <3>1. next[p] \in 1..7 /\ copy[p] \in ProposedEntry /\ slot \in ProposedEntry
      BY <2>a, <2>8 DEF StoreField, Goto, SlotOK, Room
    <3>2. slot' \in ProposedEntry
      BY <2>8, <3>1, OrderFacts, FieldStore DEF StoreField, SetSlot
    <3>3. /\ copy' = [copy EXCEPT ![p] = Blank] /\ next' = [next EXCEPT ![p] = @ + 1]
          /\ \/ pc' = [pc EXCEPT ![p] = "wait"]
             \/ pc' = [pc EXCEPT ![p] = "load"] /\ next[p] # 7
      BY <2>8, OrderFacts DEF StoreField, Goto, Advance
    <3>4. copy' \in [Procs -> ProposedEntry]
      BY <1>a, <3>3 DEF SlotOK
    <3>5. /\ next' \in [Procs -> 1..8] /\ Room(p, pc'[p], next'[p])
          /\ \A q \in Procs : q # p => next'[q] = next[q] /\ pc'[q] = pc[q]
      BY <2>a, <3>1, <3>3 DEF SlotOK, PlacesOK, Room
    <3>6. QED
      BY <2>a, <3>2, <3>4, <3>5, SlotMoved
  <2>9. CASE WaitForVote(p) \/ Return(p)
    <3>1. CASE WaitForVote(p)
      BY <1>a, <2>a, <3>1, SlotKept DEF WaitForVote, Goto, Rewind, headVars
    <3>2. CASE Return(p)
      BY <1>a, <2>a, <3>2, SlotKept DEF Return, Goto, headVars
    <3>3. QED
      BY <2>9, <3>1, <3>2
  <2>10. QED
    BY <1>2, <2>1, <2>2, <2>3, <2>4, <2>5, <2>6, <2>7, <2>8, <2>9 DEF HostStep
<1>3. ASSUME FamStep PROVE SlotOK'
  <2>1. CASE FamPoll \/ FamVote
    <3>1. CASE FamPoll
      BY <1>a, <3>1, SlotKept DEF FamPoll, Goto, headVars
    <3>2. CASE FamVote
      BY <1>a, <3>2, SlotKept DEF FamVote, Goto, Rewind
    <3>3. QED
      BY <2>1, <3>1, <3>2
  <2>2. CASE FamRead
    <3>1. /\ next[Fam] \in 1..5 /\ slot \in ProposedEntry /\ copy[Fam] \in ProposedEntry
          /\ doing[Fam] \in {"remove", "move"}
      BY <1>a, <2>2 DEF FamRead, Goto, SlotOK, PlacesOK, Room
    <3>2. PICK e \in ProposedEntry : copy' = [copy EXCEPT ![Fam] = e]
      <4> DEFINE f == ReadOrder[next[Fam]]
      <4>1. copy' = [copy EXCEPT ![Fam] = [copy[Fam] EXCEPT ![f] = slot[f]]]
        BY <2>2 DEF FamRead
      <4>2. f \in Fields
        BY <3>1, OrderFacts
      <4> HIDE DEF f
      <4>3. QED
        BY <3>1, <4>1, <4>2, FieldStore
    <3>3. /\ slot' = slot
          /\ \/ /\ pc' = [pc EXCEPT ![Fam] = "read"] /\ next[Fam] # 5
                /\ next' = [next EXCEPT ![Fam] = @ + 1]
             \/ pc' = [pc EXCEPT ![Fam] = doing[Fam]] /\ next' = [next EXCEPT ![Fam] = 1]
      BY <2>2, OrderFacts DEF FamRead, Goto, Rewind, Advance, headVars
    <3>4. copy' \in [Procs -> ProposedEntry] /\ slot' \in ProposedEntry
      BY <3>2, <3>3 DEF SlotOK
    <3>5. /\ next' \in [Procs -> 1..8] /\ Room(Fam, pc'[Fam], next'[Fam])
          /\ \A q \in Procs : q # Fam => next'[q] = next[q] /\ pc'[q] = pc[q]
      BY <1>a, <3>1, <3>3 DEF SlotOK, PlacesOK, Room
    <3>6. QED
      BY <1>a, <3>4, <3>5, SlotMoved
  <2>3. CASE FamMove \/ FamRemove
    <3>1. /\ pc' = [pc EXCEPT ![Fam] = "dead"] \/ pc' = [pc EXCEPT ![Fam] = "clear"]
          /\ copy' = [copy EXCEPT ![Fam] = Blank] /\ next' = next /\ slot' = slot
      BY <2>3 DEF FamMove, FamRemove, Goto
    <3>2. QED
      BY <1>a, <3>1, SlotKept
  <2>4. CASE FamClearValid \/ FamClearDel
    <3>1. slot' \in ProposedEntry
      <4>1. \/ slot' = [slot EXCEPT !["is_valid"] = Blank["is_valid"]]
            \/ slot' = [slot EXCEPT !["is_del"] = Blank["is_del"]]
        BY <2>4 DEF FamClearValid, FamClearDel, SetSlot, Blank
      <4>2. slot \in ProposedEntry
        BY DEF SlotOK
      <4>3. QED
        BY <1>a, <4>1, <4>2, FieldStore DEF Fields
    <3>2. /\ copy' = copy /\ next' = next
          /\ \E to \in {"clear_del", "un_check"} : pc' = [pc EXCEPT ![Fam] = to]
      BY <2>4 DEF FamClearValid, FamClearDel, Goto, procVars
    <3>3. /\ next' \in [Procs -> 1..8] /\ Room(Fam, pc'[Fam], next'[Fam])
          /\ \A q \in Procs : q # Fam => next'[q] = next[q] /\ pc'[q] = pc[q]
      BY <1>a, <3>2 DEF SlotOK, PlacesOK, Room
    <3>4. copy' \in [Procs -> ProposedEntry]
      BY <3>2 DEF SlotOK
    <3>5. QED
      BY <1>a, <3>1, <3>3, <3>4, SlotMoved
  <2>5. CASE FamTally
    BY <2>5 DEF FamTally, SlotOK, lockVars
  <2>7. CASE FamStart
    BY <1>a, <2>7, SlotKept DEF FamStart, procVars, Goto
  <2>6. QED
    BY <1>3, <2>1, <2>2, <2>3, <2>4, <2>5, <2>7 DEF FamStep
<1>4. ASSUME NEW p \in Procs, InLock(p) PROVE SlotOK'
  <2>1. slot' = slot /\ copy' = copy /\ next' = next
    BY <1>4 DEF InLock, headVars, procVars
  <2>2. \E to \in Labels : pc' = [pc EXCEPT ![p] = to]
    BY <1>4
    DEF InLock, LockStep, OverrideCheck, OverrideWho, OverrideIdle, LockCheck, LockSet,
        LockWho, UnlockCheck, UnlockIdle, UnlockWho, Goto, Labels
  <2>3. QED
    BY <1>a, <2>1, <2>2, SlotKept DEF Labels
<1>5. ASSUME Deaths PROVE SlotOK'
  <2>1. CASE \E p \in Hosts : Die(p)
    BY <1>a, <2>1, SlotKept DEF Die, Vanish, Rewind, Hosts, headVars
  <2>2. CASE FamDie
    BY <1>a, <2>2, SlotKept DEF FamDie, Vanish, Rewind, headVars
  <2>3. CASE FamCut
    BY <1>a, <2>3 DEF FamCut, Goto, SlotOK, PlacesOK, Room
  <2>4. QED
    BY <1>5, <2>1, <2>2, <2>3 DEF Deaths
<1>6. CASE UNCHANGED vars
  BY <1>6 DEF vars, lockVars, headVars, procVars, SlotOK
<1>7. QED
  BY <1>1, <1>2, <1>3, <1>4, <1>5, <1>6 DEF Next

-----------------------------------------------------------------------------
(* The counts.                                                             *)

(* The vote count stands at its limit from the FAM's vote to the moment it  *)
(* adds one more, so it never passes the limit by more than one.             *)
CountsOK ==
  /\ pcount \in 0..1 /\ count \in 0..(MaxParticipant + 1)
  /\ participants \subseteq HostIds
  /\ granted \subseteq Hosts /\ restarts \in 0..MaxRestarts
  /\ pc[Fam] = "off" => restarts < MaxRestarts
  /\ pc[Fam] \in {"off", "cut"} => doing[Fam] = "none"
  /\ \/ pc[Fam] \in {"read", "move", "remove", "clear", "clear_del", "un_check",
                     "un_idle", "un_who"}
     \/ pc[Fam] = "idle" /\ doing[Fam] # "none"
     => count = MaxParticipant

LEMMA CountsInit == InitFresh \/ InitFounded => CountsOK
<1>1. Fam \in Procs /\ Founder.host \in Nat /\ MaxParticipant \in Nat /\ MaxRestarts \in Nat
  BY DriverAssumption, TableAssumption
<1>2. QED
  BY <1>1 DEF InitFresh, InitFounded, ProcInit, CountsOK, HostIds

(* A step of a host leaves the FAM where it is and its count alone. *)
LEMMA CountsKept ==
  ASSUME CountsOK, pc'[Fam] = pc[Fam], doing'[Fam] = doing[Fam], count' = count,
         pcount' \in 0..1, participants' \subseteq HostIds,
         granted' \subseteq Hosts, restarts' = restarts
  PROVE  CountsOK'
BY DEF CountsOK

LEMMA CountsStep ==
  ASSUME PlacesOK, CountsOK, [Next]_vars
  PROVE  CountsOK'
<1>a. /\ Fam \in Procs /\ MaxParticipant \in Nat /\ MaxRestarts \in Nat
      /\ FAM_ID \in HostIds /\ \A p \in Hosts : IdOf[p] \in HostIds
  BY DriverAssumption, TableAssumption DEF HostIds
<1>1. ASSUME NEW p \in Hosts, Environment(p) \/ HostStep(p) PROVE CountsOK'
  <2>1. pc'[Fam] = pc[Fam] /\ doing'[Fam] = doing[Fam]
    BY <1>a, <1>1
    DEF PlacesOK, Hosts, Goto, Environment, HostStep, Launch, StartOperation, Attach,
        ResetCount, ChooseCreate, ChooseJoin, EnterCreateHead, SetParticipantCount, Enrol,
        WriteField, JoinField, LoadField, StoreField, WaitForVote, Return, procVars
  <2>2. count' = count /\ restarts' = restarts
    BY <1>1, Zenon
    DEF Environment, HostStep, Launch, StartOperation, Attach, ResetCount, ChooseCreate,
        ChooseJoin, EnterCreateHead, SetParticipantCount, Enrol, WriteField, JoinField,
        LoadField, StoreField, WaitForVote, Return, headVars, procVars
  <2>3. pcount' = pcount \/ pcount' = 0 \/ pcount' = 1
    BY <1>1, Zenon
    DEF Environment, HostStep, Launch, StartOperation, Attach, ResetCount, ChooseCreate,
        ChooseJoin, EnterCreateHead, SetParticipantCount, Enrol, WriteField, JoinField,
        LoadField, StoreField, WaitForVote, Return, headVars, procVars
  <2>4. participants' = participants \/ participants' = participants \cup {IdOf[p]}
    BY <1>1, Zenon
    DEF Environment, HostStep, Launch, StartOperation, Attach, ResetCount, ChooseCreate,
        ChooseJoin, EnterCreateHead, SetParticipantCount, Enrol, WriteField, JoinField,
        LoadField, StoreField, WaitForVote, Return, headVars, procVars
  <2>5. granted' = granted \/ granted' = granted \cup {p}
    BY <1>1, Zenon
    DEF Environment, HostStep, Launch, StartOperation, Attach, ResetCount, ChooseCreate,
        ChooseJoin, EnterCreateHead, SetParticipantCount, Enrol, WriteField, JoinField,
        LoadField, StoreField, WaitForVote, Return, headVars, procVars
  <2>6. /\ pcount' \in 0..1 /\ participants' \subseteq HostIds
        /\ granted' \subseteq Hosts
    BY <1>a, <2>3, <2>4, <2>5 DEF CountsOK
  <2>7. QED
    BY <2>1, <2>2, <2>6, CountsKept
<1>2. ASSUME FamStep PROVE CountsOK'
  <2> USE DEF Goto, CountsOK, PlacesOK
  <2>1. CASE FamPoll \/ FamVote
    BY <1>a, <2>1 DEF FamPoll, FamVote, headVars
  <2>2. CASE FamRead
    BY <1>a, <2>2 DEF FamRead, headVars
  <2>3. CASE FamMove \/ FamRemove
    <3>1. /\ pc[Fam] \in {"move", "remove"}
          /\ pc' = [pc EXCEPT ![Fam] = "dead"] \/ pc' = [pc EXCEPT ![Fam] = "clear"]
          /\ participants' = participants \/ participants' = participants \cup {FAM_ID}
          /\ UNCHANGED <<pcount, count, granted, restarts>>
      BY <2>3 DEF FamMove, FamRemove
    <3>2. QED
      BY <1>a, <3>1
  <2>4. CASE FamClearValid \/ FamClearDel
    BY <1>a, <2>4 DEF FamClearValid, FamClearDel, procVars
  <2>5. CASE FamTally \/ FamStart
    BY <1>a, <2>5 DEF FamTally, FamStart, lockVars, procVars
  <2>6. QED
    BY <1>2, <2>1, <2>2, <2>3, <2>4, <2>5 DEF FamStep
<1>3. ASSUME NEW p \in Procs, InLock(p) PROVE CountsOK'
  <2>1. UNCHANGED <<pcount, count, participants, granted, restarts, doing>>
    BY <1>3 DEF InLock, headVars, procVars
  <2>2. CASE p # Fam
    BY <1>a, <1>3, <2>1, <2>2
    DEF PlacesOK, CountsOK, InLock, LockStep, OverrideCheck, OverrideWho, OverrideIdle,
        LockCheck, LockSet, LockWho, UnlockCheck, UnlockIdle, UnlockWho, Goto
  <2>3. CASE p = Fam
    BY <1>a, <1>3, <2>1, <2>3
    DEF PlacesOK, CountsOK, InLock, LockStep, OverrideCheck, OverrideWho, OverrideIdle,
        LockCheck, LockSet, LockWho, UnlockCheck, UnlockIdle, UnlockWho, Goto
  <2>4. QED
    BY <2>2, <2>3
<1>4. ASSUME Deaths PROVE CountsOK'
  <2>1. CASE \E p \in Hosts : Die(p)
    BY <1>a, <2>1 DEF Die, Vanish, CountsOK, PlacesOK, Hosts, headVars
  <2>2. CASE FamDie
    BY <1>a, <2>2 DEF FamDie, Vanish, CountsOK, PlacesOK, headVars
  <2>3. CASE FamCut
    BY <1>a, <2>3 DEF FamCut, Goto, CountsOK, PlacesOK
  <2>4. QED
    BY <1>4, <2>1, <2>2, <2>3 DEF Deaths
<1>5. CASE UNCHANGED vars
  BY <1>5 DEF vars, lockVars, headVars, procVars, CountsOK
<1>6. QED
  BY <1>1, <1>2, <1>3, <1>4, <1>5 DEF Next

-----------------------------------------------------------------------------
(* The lock words and the table.                                           *)

WordsOK ==
  isLocked \in {IDLE, WRITE} /\ whoLocked \in {IdOf[p] : p \in Procs} \cup {0, NO_HOST}

LEMMA WordsStep == WordsOK /\ [Next]_vars => WordsOK'
<1> SUFFICES ASSUME WordsOK, [Next]_vars PROVE WordsOK'
  OBVIOUS
<1>1. CASE UNCHANGED lockWords
  BY <1>1 DEF WordsOK, lockWords
<1>2. ASSUME NEW p \in Procs, InLock(p) PROVE WordsOK'
  BY <1>2
  DEF WordsOK, InLock, LockStep, OverrideCheck, OverrideWho, OverrideIdle, LockCheck,
      LockSet, LockWho, UnlockCheck, UnlockIdle, UnlockWho, lockWords
<1>3. CASE FamCut \/ FamStart
  BY <1>3 DEF FamCut, FamStart, WordsOK
<1>4. QED
  BY <1>1, <1>2, <1>3, Zenon
  DEF Next, Environment, HostStep, FamStep, Deaths, Launch, StartOperation, Attach,
      ResetCount, ChooseCreate, ChooseJoin, EnterCreateHead, SetParticipantCount, Enrol,
      WriteField, JoinField, LoadField, StoreField, WaitForVote, Return, FamPoll, FamVote,
      FamRead, FamMove, FamRemove, FamClearValid, FamClearDel, FamTally, Die, FamDie,
      Vanish, vars, lockVars, lockWords

(* Ids are positions and keys distinct, and while the FAM runs its counter  *)
(* is the length of the table: whatever proposal it copied.                  *)
TableOK == table \in Seq(Entry) /\ domains \in Nat /\ CountersAgree

LEMMA TableInit == InitFresh \/ InitFounded => TableOK
<1>1. <<>> \in Seq(Entry) /\ Len(<<>>) = 0 /\ IdsArePositions(<<>>) /\ KeysAreDistinct(<<>>)
  BY DEF IdsArePositions, KeysAreDistinct
<1>2. InitFresh => TableOK
  BY <1>1 DEF InitFresh, TableOK, CountersAgree
<1>3. ASSUME InitFounded PROVE TableOK
  <2> DEFINE prop == [Blank EXCEPT !.host = Founder.host, !.used = 1,
                        !.range = Founder.range, !.permission = Founder.permission]
  <2>1. /\ Founder.host \in Nat /\ Founder.range \in Ranges
        /\ Founder.permission \in BOOLEAN
    BY DriverAssumption DEF Slots
  <2>2. IsRequest(prop)
    BY <2>1 DEF IsRequest, Blank
  <2>3. ~Mergeable(<<>>, prop)
    BY DEF Mergeable
  <2>4. table = Populate(<<>>, 0, prop) /\ domains = 1
    BY <1>3 DEF InitFounded
  <2> HIDE DEF prop
  <2>5. /\ table \in Seq(Entry) /\ DomainsAfter(<<>>, 0, prop) = Len(table)
        /\ IdsArePositions(table) /\ KeysAreDistinct(table)
    BY <1>1, <2>2, <2>4, PopulateStep
  <2>6. QED
    BY <2>3, <2>4, <2>5 DEF TableOK, CountersAgree, DomainsAfter
<1>4. QED
  BY <1>2, <1>3

LEMMA TableStep ==
  ASSUME PlacesOK, SlotOK, TableOK, [Next]_vars
  PROVE  TableOK'
<1>a. Fam \in Procs
  BY DriverAssumption
<1>b. IsRequest(copy[Fam])
  BY <1>a DEF SlotOK, ProposedEntry, IsRequest
<1>1. CASE /\ UNCHANGED <<table, domains>>
           /\ pc'[Fam] \in {"dead", "off", "cut"} \/ pc[Fam] \notin {"dead", "off", "cut"}
  BY <1>1 DEF TableOK, CountersAgree
<1>2. CASE UNCHANGED <<table, domains>> /\ pc'[Fam] = pc[Fam]
  BY <1>2 DEF TableOK, CountersAgree
<1>3. ASSUME NEW p \in Hosts, Environment(p) \/ HostStep(p) \/ Die(p) PROVE TableOK'
  <2>1. pc'[Fam] = pc[Fam]
    BY <1>a, <1>3
    DEF PlacesOK, Hosts, Goto, Environment, HostStep, Launch, StartOperation, Attach,
        ResetCount, ChooseCreate, ChooseJoin, EnterCreateHead, SetParticipantCount, Enrol,
        WriteField, JoinField, LoadField, StoreField, WaitForVote, Return, Die, Vanish
  <2>2. UNCHANGED <<table, domains>>
    BY <1>3, Zenon
    DEF Environment, HostStep, Launch, StartOperation, Attach, ResetCount, ChooseCreate,
        ChooseJoin, EnterCreateHead, SetParticipantCount, Enrol, WriteField, JoinField,
        LoadField, StoreField, WaitForVote, Return, Die, Vanish, headVars
  <2>3. QED
    BY <1>2, <2>1, <2>2
<1>4. CASE FamMove
  <2> DEFINE over == IndexOverflows(table, copy[Fam])
  <2>1. /\ pc[Fam] = "move" /\ pc' = [pc EXCEPT ![Fam] = IF over THEN "dead" ELSE "clear"]
        /\ table' = IF over THEN table ELSE Populate(table, domains, copy[Fam])
        /\ domains' = DomainsAfter(table, domains, copy[Fam])
    BY <1>4 DEF FamMove, Goto
  <2>2. /\ table \in Seq(Entry) /\ domains = Len(table)
        /\ IdsArePositions(table) /\ KeysAreDistinct(table)
    BY <2>1 DEF TableOK, CountersAgree
  <2>3. domains' \in Nat
    BY <2>1, <2>2 DEF DomainsAfter
  <2> HIDE DEF over
  <2>4. CASE over
    BY <1>a, <2>1, <2>2, <2>3, <2>4 DEF TableOK, CountersAgree, PlacesOK
  <2>5. CASE ~over
    <3>1. /\ table' \in Seq(Entry) /\ domains' = Len(table')
          /\ IdsArePositions(table') /\ KeysAreDistinct(table')
      BY <1>b, <2>1, <2>2, <2>5, PopulateStep
    <3>2. QED
      BY <2>3, <3>1 DEF TableOK, CountersAgree
  <2>6. QED
    BY <2>4, <2>5
<1>5. CASE FamRemove
  <2>1. /\ pc[Fam] = "remove" /\ domains' = domains
        /\ table' = table \/ table' = Remove(table, copy[Fam])
    BY <1>5 DEF FamRemove, Goto
  <2>2. /\ table \in Seq(Entry) /\ domains = Len(table) /\ domains \in Nat
        /\ IdsArePositions(table) /\ KeysAreDistinct(table)
    BY <2>1 DEF TableOK, CountersAgree
  <2>3. /\ table' \in Seq(Entry) /\ Len(table') = Len(table)
        /\ \A i \in 1..Len(table) : /\ table'[i].id = table[i].id
                                    /\ table'[i].range = table[i].range
                                    /\ table'[i].permission = table[i].permission
    BY <1>b, <2>1, <2>2, RemoveFacts
  <2>4. IdsArePositions(table')
    <3>1. DOMAIN table' = 1..Len(table) /\ DOMAIN table = 1..Len(table)
      BY <2>2, <2>3
    <3>2. \A i \in 1..Len(table) : table[i].id = i - 1 /\ table'[i].id = table[i].id
      BY <2>2, <2>3, <3>1 DEF IdsArePositions
    <3>3. QED
      BY <3>1, <3>2 DEF IdsArePositions
  <2>5. KeysAreDistinct(table')
    BY <2>2, <2>3 DEF KeysAreDistinct
  <2>6. QED
    BY <2>1, <2>2, <2>3, <2>4, <2>5 DEF TableOK, CountersAgree
<1>6. CASE FamPoll \/ FamVote \/ FamRead \/ FamClearValid \/ FamClearDel \/ FamTally
  <2>1. pc[Fam] \notin {"dead", "off", "cut"} /\ UNCHANGED <<table, domains>>
    BY <1>6
    DEF FamPoll, FamVote, FamRead, FamClearValid, FamClearDel, FamTally, Goto, headVars
  <2>2. QED
    BY <1>1, <2>1
<1>7. ASSUME NEW p \in Procs, InLock(p) PROVE TableOK'
  <2>1. UNCHANGED <<table, domains>>
    BY <1>7 DEF InLock, headVars
  <2>2. pc'[Fam] = pc[Fam] \/ pc[Fam] \notin {"dead", "off", "cut"}
    BY <1>a, <1>7
    DEF PlacesOK, InLock, LockStep, OverrideCheck, OverrideWho, OverrideIdle, LockCheck,
        LockSet, LockWho, UnlockCheck, UnlockIdle, UnlockWho, Goto
  <2>3. QED
    BY <1>1, <1>2, <2>1, <2>2
<1>8. CASE FamDie
  <2>1. pc'[Fam] = "off" /\ UNCHANGED <<table, domains>>
    BY <1>a, <1>8 DEF FamDie, Vanish, PlacesOK, headVars
  <2>2. QED
    BY <1>1, <2>1
<1>9. CASE FamCut
  <2>1. pc'[Fam] = "cut" /\ table' = <<>> /\ domains' = domains
    BY <1>a, <1>9 DEF FamCut, Goto, PlacesOK
  <2>2. QED
    BY <2>1 DEF TableOK, CountersAgree, IdsArePositions, KeysAreDistinct
<1>12. CASE FamStart
  <2>1. table' = <<>> /\ domains' = 0
    BY <1>12 DEF FamStart
  <2>2. QED
    BY <2>1 DEF TableOK, CountersAgree, IdsArePositions, KeysAreDistinct
<1>10. CASE UNCHANGED vars
  BY <1>10 DEF vars, lockVars, headVars, TableOK, CountersAgree
<1>11. QED
  BY <1>3, <1>4, <1>5, <1>6, <1>7, <1>8, <1>9, <1>10, <1>12 DEF Next, FamStep, Deaths

-----------------------------------------------------------------------------
(* The invariants together.                                                *)

(* The type invariant, whatever proposals mix and whoever is killed: the    *)
(* words of the head hold what the code may find there, the count of         *)
(* participants never passes 1 and the vote count its limit by one.          *)
THEOREM DriverTypeCorrect == SpecFresh \/ SpecFounded => []TypeOK
<1>1. InitFresh \/ InitFounded => WordsOK
  BY DriverAssumption DEF InitFresh, InitFounded, WordsOK
<1>2. PlacesOK /\ ScriptsOK /\ SlotOK /\ CountsOK /\ TableOK /\ WordsOK => TypeOK
  BY DEF PlacesOK, ScriptsOK, SlotOK, CountsOK, TableOK, WordsOK, TypeOK, CopyOrder
<1>3. /\ PlacesOK /\ ScriptsOK /\ SlotOK /\ [Next]_vars => SlotOK'
      /\ PlacesOK /\ CountsOK /\ [Next]_vars => CountsOK'
      /\ PlacesOK /\ SlotOK /\ TableOK /\ [Next]_vars => TableOK'
  BY SlotStep, CountsStep, TableStep
<1>4. QED
  BY <1>1, <1>2, <1>3, PlacesInvariant, SlotInit, CountsInit, TableInit, WordsStep, PTL
  DEF SpecFresh, SpecFounded

(* The table's ids, keys and counter survive every mixed proposal, every    *)
(* overflow, every death and every restart of the FAM.                       *)
THEOREM DriverCountersAgree == SpecFresh \/ SpecFounded => []CountersAgree
<1>1. /\ PlacesOK /\ ScriptsOK /\ SlotOK /\ [Next]_vars => SlotOK'
      /\ PlacesOK /\ SlotOK /\ TableOK /\ [Next]_vars => TableOK'
  BY SlotStep, TableStep
<1>2. TableOK => CountersAgree
  BY DEF TableOK
<1>3. QED
  BY <1>1, <1>2, PlacesInvariant, SlotInit, TableInit, PTL DEF SpecFresh, SpecFounded

-----------------------------------------------------------------------------
(* One host creates the head and the others come later.                    *)

(* The founder's way through create_head() to the lock, in it, and out.    *)
Arriving == {"off", "attach", "reset", "role", "head", "ov_check", "ov_who", "ov_idle",
             "lk_check", "lk_set", "lk_who"}
Before(f)  == pc[f] \in Arriving
Within(f)  == doing[f] = "create" /\ pc[f] \in {"cs", "enrol", "write", "un_check", "un_idle"}
Closing(f) == doing[f] = "create" /\ pc[f] = "un_who"

(* Until the founder has the lock nothing else happens; while it has it the *)
(* words are its own and the FAM waits; after that they are the FAM's.      *)
WordsOfFounder(f) ==
  /\ Before(f) =>
       /\ pcount = 0 /\ ~slot.is_valid /\ pc[Fam] = "idle" /\ doing[Fam] = "none"
       /\ \A q \in Hosts : q # f => pc[q] = "off"
       /\ isLocked = IF pc[f] = "lk_who" THEN WRITE ELSE IDLE
  /\ Within(f) =>
       isLocked = WRITE /\ whoLocked = IdOf[f] /\ pc[Fam] \in {"idle", "lk_check"}
  /\ Closing(f) => whoLocked \in {IdOf[f], FAM_ID, NO_HOST}
  /\ ~Before(f) /\ ~Within(f) /\ ~Closing(f) => whoLocked \in {FAM_ID, NO_HOST}

(* Those that come later find a head, never create one, and the unlock()    *)
(* of a request_extension() never gets past its test.                       *)
LateOnesJoin(f) ==
  /\ pc[f] \notin {"role2", "dead"}
  /\ \A q \in Hosts :
       /\ q # f => /\ doing[q] # "create"
                   /\ pc[q] \notin Arriving \ {"off", "attach", "role"}
                   /\ pc[q] # "off" => pcount > 0
       /\ pc[q] \in {"un_idle", "un_who"} => q = f /\ doing[q] = "create"

(* From its store to is_locked to its unlock() the FAM finds WRITE there. *)
FamLocks ==
  /\ pc[Fam] \notin {"ov_check", "ov_who", "ov_idle", "off", "cut"}
  /\ pc[Fam] = "lk_who" \/ HasLock(Fam) => isLocked = WRITE

FoundingOK(f) == WordsOfFounder(f) /\ LateOnesJoin(f) /\ FamLocks

(* One founder, everybody else late, ids that tell processes apart, and     *)
(* neither the founder nor the FAM is killed.                                *)
OneFounder(f) ==
  /\ f \in Hosts /\ Hosts \ {f} \subseteq Late
  /\ f \notin Mortal /\ MaxRestarts = 0
  /\ \A p, q \in Procs : IdOf[p] = IdOf[q] => p = q

LEMMA FoundingInit == ASSUME NEW f, OneFounder(f), InitFresh PROVE FoundingOK(f)
<1>1. Fam \in Procs
  BY DriverAssumption
<1>2. QED
  BY <1>1
  DEF InitFresh, ProcInit, FoundingOK, WordsOfFounder, LateOnesJoin, FamLocks, Before,
      Within, Closing, HasLock, Arriving, OneFounder, Hosts, Blank, IDLE, WRITE

(* What the steps below need of the constants and the invariants so far. *)
LEMMA FoundingFacts ==
  ASSUME NEW f, OneFounder(f), PlacesOK, CountsOK
  PROVE  /\ f \in Hosts /\ f \in Procs /\ f # Fam /\ Fam \in Procs
         /\ IdOf[Fam] = FAM_ID /\ FAM_ID = -2 /\ NO_HOST = -1
         /\ \A q \in Hosts : q \in Procs /\ q # Fam /\ IdOf[q] \in Nat
         /\ \A q \in Hosts : q # f => IdOf[q] # IdOf[f]
         /\ pcount \in 0..1
         /\ pc \in [Procs -> HostLabels \cup FamLabels]
         /\ doing \in [Procs -> {"none", "create", "join", "extend", "remove", "move"}]
BY DriverAssumption DEF OneFounder, Hosts, FAM_ID, NO_HOST, Slots, PlacesOK, CountsOK

(* Steps of a host that came later, outside the lock. *)
LEMMA LateHostStep ==
  ASSUME NEW f, OneFounder(f), PlacesOK, ScriptsOK, CountsOK, FoundingOK(f),
         NEW q \in Hosts, q # f, Environment(q) \/ HostStep(q)
  PROVE  FoundingOK(f)'
<1>1. ~Before(f) /\ pcount > 0
  <2>1. CASE pc[q] = "off"
    <3>1. Launch(q) /\ q \in Late
      BY <2>1
      DEF OneFounder, Environment, HostStep, StartOperation, Attach, ResetCount, ChooseCreate,
          ChooseJoin, EnterCreateHead, SetParticipantCount, Enrol, WriteField, JoinField,
          LoadField, StoreField, WaitForVote, Return, Goto
    <3>2. QED
      BY <3>1, FoundingFacts DEF Launch, FoundingOK, WordsOfFounder
  <2>2. CASE pc[q] # "off"
    BY <2>2 DEF FoundingOK, WordsOfFounder, LateOnesJoin
  <2>3. QED
    BY <2>1, <2>2
<1>2. /\ UNCHANGED <<isLocked, whoLocked>> /\ pcount' > 0
      /\ \A p \in Procs : p # q => pc'[p] = pc[p] /\ doing'[p] = doing[p]
      /\ doing'[q] # "create"
      /\ pc'[q] \notin (Arriving \ {"attach", "role"}) \cup {"un_idle", "un_who"}
  <2> USE FoundingFacts DEF FoundingOK, LateOnesJoin, Arriving, Goto, lockWords
  <2>1. CASE Launch(q)
    BY <1>1, <2>1 DEF Launch, headVars, procVars
  <2>2. CASE StartOperation(q)
    <3>1. Head(todo[q]) \in Operation
      BY <2>2 DEF StartOperation, ScriptsOK
    <3>2. Head(todo[q]).op \in {"extend", "remove"}
      BY <3>1 DEF Operation
    <3>3. QED
      BY <1>1, <2>2, <3>2 DEF StartOperation, headVars
  <2>3. CASE Attach(q) \/ ResetCount(q) \/ ChooseCreate(q)
    BY <1>1, <2>3 DEF Attach, ResetCount, ChooseCreate, headVars, procVars
  <2>4. CASE ChooseJoin(q) \/ EnterCreateHead(q)
    BY <1>1, <2>4 DEF ChooseJoin, EnterCreateHead, headVars
  <2>5. CASE SetParticipantCount(q) \/ Enrol(q)
    BY <2>5 DEF SetParticipantCount, Enrol, PlacesOK
  <2>6. CASE WriteField(q)
    BY <1>1, <2>6 DEF WriteField
  <2>7. CASE JoinField(q) \/ LoadField(q) \/ StoreField(q)
    BY <1>1, <2>7 DEF JoinField, LoadField, StoreField, headVars
  <2>8. CASE WaitForVote(q) \/ Return(q)
    BY <1>1, <2>8 DEF WaitForVote, Return, headVars
  <2>9. QED
    BY <2>1, <2>2, <2>3, <2>4, <2>5, <2>6, <2>7, <2>8 DEF Environment, HostStep
<1>3. QED
  BY <1>1, <1>2, FoundingFacts
  DEF FoundingOK, WordsOfFounder, LateOnesJoin, FamLocks, Before, Within, Closing, HasLock

(* Steps of the founder outside the lock. *)
LEMMA FounderStep ==
  ASSUME NEW f, OneFounder(f), PlacesOK, ScriptsOK, CountsOK, FoundingOK(f),
         Environment(f) \/ HostStep(f)
  PROVE  FoundingOK(f)'
<1> USE DEF FoundingOK, WordsOfFounder, LateOnesJoin, FamLocks, Before, Within, Closing,
            HasLock, Arriving, Goto, lockWords
<1>1. CASE Launch(f) \/ Attach(f) \/ ResetCount(f) \/ ChooseCreate(f) \/ EnterCreateHead(f)
  BY <1>1, FoundingFacts
  DEF Launch, Attach, ResetCount, ChooseCreate, EnterCreateHead, headVars, procVars
<1>2. CASE StartOperation(f)
  <2>1. Head(todo[f]) \in Operation
    BY <1>2, FoundingFacts DEF StartOperation, ScriptsOK
  <2>2. Head(todo[f]).op \in {"extend", "remove"}
    BY <2>1 DEF Operation
  <2>3. QED
    BY <1>2, <2>2, FoundingFacts DEF StartOperation, headVars
<1>3. CASE ChooseJoin(f)
  BY <1>3, FoundingFacts DEF ChooseJoin
<1>4. CASE SetParticipantCount(f) \/ Enrol(f)
  BY <1>4, FoundingFacts DEF SetParticipantCount, Enrol, PlacesOK, procVars
<1>5. CASE WriteField(f)
  BY <1>5, FoundingFacts DEF WriteField, PlacesOK
<1>6. CASE JoinField(f) \/ LoadField(f) \/ StoreField(f)
  BY <1>6, FoundingFacts DEF JoinField, LoadField, StoreField, headVars
<1>7. CASE WaitForVote(f) \/ Return(f)
  BY <1>7, FoundingFacts DEF WaitForVote, Return, headVars
<1>8. QED
  BY <1>1, <1>2, <1>3, <1>4, <1>5, <1>6, <1>7 DEF Environment, HostStep

(* Steps of the FAM outside the lock: it has nothing to poll before the     *)
(* founder is in, and only waits for the lock while the founder has it.     *)
LEMMA FamFoundingStep ==
  ASSUME NEW f, OneFounder(f), PlacesOK, CountsOK, FoundingOK(f), FamStep
  PROVE  FoundingOK(f)'
<1> USE DEF FoundingOK, WordsOfFounder, LateOnesJoin, FamLocks, Before, Within, Closing,
            HasLock, Arriving, Goto, lockWords
<1>1. CASE FamPoll
  BY <1>1, FoundingFacts DEF FamPoll, headVars
<1>2. CASE FamVote \/ FamClearValid \/ FamClearDel
  BY <1>2, FoundingFacts DEF FamVote, FamClearValid, FamClearDel, procVars
<1>3. CASE FamRead
  BY <1>3, FoundingFacts DEF FamRead, PlacesOK, headVars
<1>4. CASE FamMove \/ FamRemove
  <2>1. /\ pc[Fam] \in {"move", "remove"}
        /\ pc' = [pc EXCEPT ![Fam] = "dead"] \/ pc' = [pc EXCEPT ![Fam] = "clear"]
        /\ UNCHANGED <<isLocked, whoLocked, slot, pcount, doing>>
    BY <1>4 DEF FamMove, FamRemove
  <2>2. QED
    BY <2>1, FoundingFacts
<1>5. CASE FamTally \/ FamStart
  BY <1>5, FoundingFacts DEF FamTally, FamStart, lockVars
<1>6. QED
  BY <1>1, <1>2, <1>3, <1>4, <1>5 DEF FamStep

(* Steps in the lock: the founder's, the FAM's, and the test of an unlock() *)
(* by a host that has not locked, which fails.                               *)
LEMMA LockFoundingStep ==
  ASSUME NEW f, OneFounder(f), PlacesOK, CountsOK, FoundingOK(f), NEW p \in Procs, InLock(p)
  PROVE  FoundingOK(f)'
<1> USE DEF FoundingOK, WordsOfFounder, LateOnesJoin, FamLocks, Before, Within, Closing,
            HasLock, Arriving, Goto, lockWords
<1>1. UNCHANGED <<slot, pcount, doing>>
  BY DEF InLock, headVars, procVars
<1>2. CASE p \notin {f, Fam}
  <2>1. p \in Hosts /\ UnlockCheck(p) /\ pc[p] = "un_check" /\ doing[p] # "create"
    BY <1>2
    DEF Hosts, InLock, LockStep, OverrideCheck, OverrideWho, OverrideIdle, LockCheck,
        LockSet, LockWho, UnlockCheck, UnlockIdle, UnlockWho, PlacesOK
  <2>2. ~Before(f) /\ whoLocked # IdOf[p]
    BY <1>2, <2>1, FoundingFacts
  <2>3. pc' = [pc EXCEPT ![p] = "idle"] /\ UNCHANGED <<isLocked, whoLocked>>
    BY <2>1, <2>2 DEF UnlockCheck
  <2>4. QED
    BY <1>1, <1>2, <2>1, <2>2, <2>3, FoundingFacts
<1>3. CASE p = f
  <2>1. CASE OverrideCheck(f) \/ OverrideWho(f) \/ OverrideIdle(f)
    BY <1>1, <2>1, FoundingFacts DEF OverrideCheck, OverrideWho, OverrideIdle
  <2>2. CASE LockCheck(f) \/ LockSet(f)
    BY <1>1, <2>2, FoundingFacts DEF LockCheck, LockSet
  <2>3. CASE LockWho(f)
    BY <1>1, <2>3, FoundingFacts DEF LockWho, PlacesOK
  <2>4. CASE UnlockCheck(f)
    BY <1>1, <2>4, FoundingFacts DEF UnlockCheck, PlacesOK
  <2>5. CASE UnlockIdle(f) \/ UnlockWho(f)
    BY <1>1, <2>5, FoundingFacts DEF UnlockIdle, UnlockWho
  <2>6. QED
    BY <1>3, <2>1, <2>2, <2>3, <2>4, <2>5 DEF InLock, LockStep
<1>4. CASE p = Fam
  <2>1. ~Before(f)
    BY <1>4, FoundingFacts
    DEF InLock, LockStep, OverrideCheck, OverrideWho, OverrideIdle, LockCheck, LockSet,
        LockWho, UnlockCheck, UnlockIdle, UnlockWho
  <2>2. CASE LockCheck(Fam) \/ LockSet(Fam)
    BY <1>1, <2>1, <2>2, FoundingFacts DEF LockCheck, LockSet, IDLE, WRITE
  <2>3. CASE LockWho(Fam)
    BY <1>1, <2>1, <2>3, FoundingFacts DEF LockWho
  <2>4. CASE UnlockCheck(Fam)
    BY <1>1, <2>1, <2>4, FoundingFacts DEF UnlockCheck
  <2>5. CASE UnlockIdle(Fam) \/ UnlockWho(Fam)
    BY <1>1, <2>1, <2>5, FoundingFacts DEF UnlockIdle, UnlockWho
  <2>6. QED
    BY <1>4, <2>2, <2>3, <2>4, <2>5
    DEF InLock, LockStep, OverrideCheck, OverrideWho, OverrideIdle
<1>5. QED
  BY <1>2, <1>3, <1>4

(* Only hosts that came later die. *)
LEMMA DeathFoundingStep ==
  ASSUME NEW f, OneFounder(f), PlacesOK, CountsOK, FoundingOK(f), Deaths
  PROVE  FoundingOK(f)'
<1>1. PICK q \in Hosts : Die(q)
  BY DEF Deaths, FamDie, FamCut, Goto, FoundingOK, FamLocks, OneFounder, CountsOK
<1>2. /\ q # f /\ pc[q] # "off" /\ UNCHANGED <<isLocked, whoLocked, slot, pcount>>
      /\ pc' = [pc EXCEPT ![q] = "dead"] /\ doing' = [doing EXCEPT ![q] = "none"]
  BY <1>1 DEF Die, Vanish, OneFounder, lockWords, headVars
<1>3. QED
  BY <1>1, <1>2, FoundingFacts
  DEF FoundingOK, WordsOfFounder, LateOnesJoin, FamLocks, Before, Within, Closing,
      HasLock, Arriving

LEMMA FoundingInvariant == ASSUME NEW f, OneFounder(f) PROVE SpecFresh => []FoundingOK(f)
<1>1. InitFresh => FoundingOK(f)
  BY FoundingInit
<1>2. PlacesOK /\ ScriptsOK /\ CountsOK /\ FoundingOK(f) /\ [Next]_vars => FoundingOK(f)'
  <2> SUFFICES ASSUME PlacesOK, ScriptsOK, CountsOK, FoundingOK(f), [Next]_vars
               PROVE  FoundingOK(f)'
    OBVIOUS
  <2>1. CASE UNCHANGED vars
    BY <2>1
    DEF vars, lockVars, headVars, procVars, FoundingOK, WordsOfFounder, LateOnesJoin,
        FamLocks, Before, Within, Closing, HasLock
  <2>2. QED
    BY <2>1, LateHostStep, FounderStep, FamFoundingStep, LockFoundingStep,
       DeathFoundingStep
    DEF Next
<1>3. PlacesOK /\ CountsOK /\ [Next]_vars => CountsOK'
  BY CountsStep
<1>4. QED
  BY <1>1, <1>2, <1>3, PlacesInvariant, CountsInit, PTL DEF SpecFresh

(* When one host creates the head and the others come later, with ids that  *)
(* differ, creator and FAM are never in the critical section together:      *)
(* however many the others are, whatever they do, whichever of them die.    *)
THEOREM DriverCreatorExcludesFam ==
  ASSUME NEW f, OneFounder(f) PROVE SpecFresh => []CreatorExcludesFam
<1>1. FoundingOK(f) => CreatorExcludesFam
  BY DriverAssumption
  DEF FoundingOK, WordsOfFounder, LateOnesJoin, Within, HasLock, CreatorExcludesFam,
      OneFounder, Hosts
<1>2. QED
  BY <1>1, FoundingInvariant, PTL

(* And nobody frees the lock while the FAM has it: not the creator whose    *)
(* second store of unlock() comes late, nor an unlock() without a lock.      *)
THEOREM DriverFamKeepsLock ==
  ASSUME NEW f, OneFounder(f) PROVE SpecFresh => []FamKeepsLock
<1>1. FoundingOK(f) => FamKeepsLock
  BY DEF FoundingOK, FamLocks, FamKeepsLock
<1>2. QED
  BY <1>1, FoundingInvariant, PTL

-----------------------------------------------------------------------------
(* Requests one at a time.                                                 *)

(* One host at most is in a call. *)
SoleOK == \A p, q \in Hosts : p # q => pc[p] \in AtRest \/ pc[q] \in AtRest

(* A host that moves is the one that is in a call. *)
LEMMA SoleMove ==
  ASSUME SoleOK, NEW p \in Hosts, pc[p] \notin AtRest,
         \A q \in Hosts : q # p => pc'[q] = pc[q]
  PROVE  SoleOK'
BY DEF SoleOK, AtRest

LEMMA SoleKept ==
  ASSUME SoleOK, \A q \in Hosts : pc'[q] = pc[q] \/ pc'[q] = "dead"
  PROVE  SoleOK'
BY DEF SoleOK, AtRest

LEMMA SoleStep ==
  ASSUME Serial, PlacesOK, SoleOK, [Next]_vars
  PROVE  SoleOK'
<1>a. Fam \in Procs /\ \A p \in Hosts : p \in Procs /\ p # Fam
  BY DriverAssumption DEF Hosts
<1>b. pc \in [Procs -> HostLabels \cup FamLabels]
  BY DEF PlacesOK
<1>1. ASSUME NEW p \in Hosts, Environment(p) PROVE SoleOK'
  <2>1. /\ \A q \in Hosts : pc[q] \in AtRest
        /\ pc' = [pc EXCEPT ![p] = "attach"] \/ pc' = [pc EXCEPT ![p] = "write"]
    BY <1>1 DEF Environment, Launch, StartOperation, Calm, AtRest, Goto
  <2>2. QED
    BY <1>a, <1>b, <2>1 DEF SoleOK
<1>2. ASSUME NEW p \in Hosts, HostStep(p) PROVE SoleOK'
  <2>1. pc[p] \notin AtRest /\ \A q \in Hosts : q # p => pc'[q] = pc[q]
    BY <1>a, <1>b, <1>2
    DEF HostStep, Attach, ResetCount, ChooseCreate, ChooseJoin, EnterCreateHead,
        SetParticipantCount, Enrol, WriteField, JoinField, LoadField, StoreField,
        WaitForVote, Return, Goto, AtRest
  <2>2. QED
    BY <2>1, SoleMove
<1>3. ASSUME FamStep PROVE SoleOK'
  <2>1. \A q \in Hosts : pc'[q] = pc[q]
    BY <1>a, <1>b, <1>3
    DEF FamStep, FamPoll, FamVote, FamRead, FamMove, FamRemove, FamClearValid, FamClearDel,
        FamTally, FamStart, Goto, lockVars
  <2>2. QED
    BY <2>1, SoleKept
<1>4. ASSUME NEW p \in Procs, InLock(p) PROVE SoleOK'
  <2>1. pc[p] \notin AtRest /\ \A q \in Procs : q # p => pc'[q] = pc[q]
    BY <1>b, <1>4
    DEF InLock, LockStep, OverrideCheck, OverrideWho, OverrideIdle, LockCheck, LockSet,
        LockWho, UnlockCheck, UnlockIdle, UnlockWho, Goto, AtRest
  <2>2. CASE p = Fam
    BY <1>a, <2>1, <2>2, SoleKept
  <2>3. CASE p # Fam
    BY <1>a, <2>1, <2>3, SoleMove DEF Hosts
  <2>4. QED
    BY <2>2, <2>3
<1>5. ASSUME Deaths PROVE SoleOK'
  <2>1. \A q \in Hosts : pc'[q] = pc[q] \/ pc'[q] = "dead"
    BY <1>a, <1>b, <1>5 DEF Deaths, Die, FamDie, FamCut, Vanish, Goto
  <2>2. QED
    BY <2>1, SoleKept
<1>6. CASE UNCHANGED vars
  BY <1>6, SoleKept DEF vars, lockVars
<1>7. QED
  BY <1>1, <1>2, <1>3, <1>4, <1>5, <1>6 DEF Next
=============================================================================
