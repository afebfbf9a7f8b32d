------------------------------ MODULE HeadLock ------------------------------
(***************************************************************************)
(* The reader/writer word at the head of the shared region: is_locked and  *)
(* who_locked, with write_lock() and unlock() of s_permissions.cc.         *)
(*                                                                         *)
(* Both functions are sequences of plain loads and stores on memory that   *)
(* several processes map, so every store is a step of its own.  A test     *)
(* that reads both words is one step: is_locked alone decides it when the  *)
(* word is not WRITE, and a test that fails is only tried again.           *)
(*                                                                         *)
(* The labels of pc are shared with MetadataDriver, which composes these   *)
(* actions with the rest of the program.  LockSpec closes the component:   *)
(* its clients take and release the lock for ever.                         *)
(***************************************************************************)
EXTENDS Integers

CONSTANTS
  Procs,      (* the processes that use the lock: hosts and the FAM         *)
  Creators,   (* those that call create_head, which overrides before locking *)
  IdOf        (* the host id each process passes: two may share one         *)

(* enum states, and the id that stands for nobody. *)
IDLE    == 0
READ    == 1
WRITE   == 2
NO_HOST == -1

ASSUME LockAssumption ==
  /\ Creators \subseteq Procs
  /\ IdOf \in [Procs -> Int \ {NO_HOST}]

VARIABLES
  isLocked,   (* the is_locked word                *)
  whoLocked,  (* the who_locked word               *)
  pc          (* where each process is             *)

lockWords == <<isLocked, whoLocked>>
lockVars  == <<isLocked, whoLocked, pc>>

(* p moves from one label to another. *)
Goto(p, from, to) ==
  /\ pc[p] = from
  /\ pc' = [pc EXCEPT ![p] = to]

-----------------------------------------------------------------------------
(* write_lock(IDLE, -1), as create_head() calls it before it locks.        *)

(* The condition under which write_lock(IDLE, -1) resets the words.  The    *)
(* branch commented as the override needs IDLE again, so a lock that some   *)
(* host holds is never overridden.                                          *)
Overridable ==
  \/ isLocked = IDLE
  \/ isLocked = WRITE /\ whoLocked = NO_HOST
  \/ isLocked \notin IDLE..WRITE

OverrideCheck(p) ==
  /\ Goto(p, "ov_check", "ov_who")
  /\ Overridable
  /\ UNCHANGED lockWords

OverrideWho(p) ==
  /\ Goto(p, "ov_who", "ov_idle")
  /\ whoLocked' = NO_HOST
  /\ UNCHANGED isLocked

OverrideIdle(p) ==
  /\ Goto(p, "ov_idle", "lk_check")
  /\ isLocked' = IDLE
  /\ UNCHANGED whoLocked

-----------------------------------------------------------------------------
(* write_lock(WRITE, id) in its spin loop.                                 *)

(* Mutant: the lock word is not tested before it is taken. *)
LockCheckUntested(p) ==
  /\ Goto(p, "lk_check", "lk_set")
  /\ UNCHANGED lockWords

LockCheck(p) ==
  /\ Goto(p, "lk_check", "lk_set")
  /\ isLocked = IDLE
  /\ UNCHANGED lockWords

(* Mutant: set_is_locked is given the wrong state. *)
LockSetRead(p) ==
  /\ Goto(p, "lk_set", "lk_who")
  /\ isLocked' = READ
  /\ UNCHANGED whoLocked

LockSet(p) ==
  /\ Goto(p, "lk_set", "lk_who")
  /\ isLocked' = WRITE
  /\ UNCHANGED whoLocked

LockWho(p) ==
  /\ Goto(p, "lk_who", "cs")
  /\ whoLocked' = IdOf[p]
  /\ UNCHANGED isLocked

-----------------------------------------------------------------------------
(* unlock(id).  No caller passes -1, the id that skips the test.           *)

(* Mutant: an owner that finds its own id gives up instead of releasing. *)
UnlockCheckInverted(p) ==
  /\ UNCHANGED lockWords
  /\ \/ Goto(p, "un_check", "un_idle") /\ isLocked = WRITE /\ whoLocked # IdOf[p]
     \/ Goto(p, "un_check", "idle") /\ ~(isLocked = WRITE /\ whoLocked # IdOf[p])

(* Mutant: whoever calls unlock() frees a lock that is taken. *)
UnlockCheckAnyone(p) ==
  /\ UNCHANGED lockWords
  /\ \/ Goto(p, "un_check", "un_idle") /\ isLocked = WRITE
     \/ Goto(p, "un_check", "idle") /\ isLocked # WRITE

UnlockCheck(p) ==
  /\ UNCHANGED lockWords
  /\ \/ Goto(p, "un_check", "un_idle") /\ isLocked = WRITE /\ whoLocked = IdOf[p]
     \/ Goto(p, "un_check", "idle") /\ ~(isLocked = WRITE /\ whoLocked = IdOf[p])

UnlockIdle(p) ==
  /\ Goto(p, "un_idle", "un_who")
  /\ isLocked' = IDLE
  /\ UNCHANGED whoLocked

UnlockWho(p) ==
  /\ Goto(p, "un_who", "idle")
  /\ whoLocked' = NO_HOST
  /\ UNCHANGED isLocked

(* Every step inside write_lock() or unlock(). *)
LockStep(p) ==
  \/ OverrideCheck(p) \/ OverrideWho(p) \/ OverrideIdle(p)
  \/ LockCheck(p) \/ LockSet(p) \/ LockWho(p)
  \/ UnlockCheck(p) \/ UnlockIdle(p) \/ UnlockWho(p)

-----------------------------------------------------------------------------
(* The closed component: clients that lock and unlock for ever.            *)

Labels ==
  {"idle", "ov_check", "ov_who", "ov_idle", "lk_check", "lk_set", "lk_who",
   "cs", "un_check", "un_idle", "un_who"}

(* A client may lock at any time.  The programs do so less often: the FAM    *)
(* only for a valid proposal, which a creator stores under the lock, and a   *)
(* creator only while no head exists.  What holds here holds of them.        *)
Enter(p) ==
  /\ Goto(p, "idle", IF p \in Creators THEN "ov_check" ELSE "lk_check")
  /\ UNCHANGED lockWords

Leave(p) ==
  /\ Goto(p, "cs", "un_check")
  /\ UNCHANGED lockWords

(* request_extension() ends with an unlock() for a lock it never took. *)
StrayUnlock(p) ==
  /\ Goto(p, "idle", "un_check")
  /\ UNCHANGED lockWords

(* A region that munmap_memory() has just zeroed. *)
LockInit ==
  /\ isLocked = IDLE
  /\ whoLocked = 0
  /\ pc = [p \in Procs |-> "idle"]

LockNext ==
  \E p \in Procs : Enter(p) \/ Leave(p) \/ StrayUnlock(p) \/ LockStep(p)

LockSpec == LockInit /\ [][LockNext]_lockVars

-----------------------------------------------------------------------------
(* Properties.                                                             *)

(* Types: the words hold what set_is_locked() lets through and a host id.   *)
LockTypeOK ==
  /\ isLocked \in {IDLE, WRITE}
  /\ whoLocked \in Int
  /\ pc \in [Procs -> Labels]

(* p has taken the lock and has not released it yet, or is in an unlock()   *)
(* that would release it.                                                    *)
Holding(p) == pc[p] \in {"cs", "un_check", "un_idle"}

(* A lock word with an owner's id in it has that owner behind it, or a      *)
(* process about to overwrite the id.                                       *)
OwnerPresent ==
  isLocked = WRITE /\ whoLocked # NO_HOST =>
    \E p \in Procs : \/ Holding(p) /\ whoLocked = IdOf[p]
                     \/ pc[p] = "lk_who"

(* The races of write_lock() and unlock() can leave the region locked when  *)
(* no process holds the lock, and no unlock() will ever free it then.       *)
(* They never leave a process's id in who_locked, so the next create_head   *)
(* is able to reset the words with write_lock(IDLE, -1).                    *)
AbandonedIsOverridable ==
  (\A p \in Procs : ~Holding(p) /\ pc[p] # "lk_who") => Overridable
=============================================================================
