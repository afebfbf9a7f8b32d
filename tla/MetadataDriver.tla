---------------------------- MODULE MetadataDriver --------------------------
(***************************************************************************)
(* The whole protocol over the shared head: host processes that run        *)
(* main.cc (secure_alloc, then request_extension or a removal), and the    *)
(* FAM process that runs monitor_update(), with the lock of HeadLock, the  *)
(* table of PermissionOps, the proposed-update slot, the participant words *)
(* and the vote count between them.                                        *)
(*                                                                         *)
(* Every store to the shared head and every load that decides something is *)
(* a step.  The build has no optimisation and the processor keeps stores   *)
(* in order, so the steps of a process happen in program order.            *)
(***************************************************************************)
EXTENDS HeadLock, PermissionOps, FiniteSets

CONSTANTS
  Fam,          (* the FAM process, a member of Procs                      *)
  Late,         (* hosts that are only started once a head exists          *)
  Mortal,       (* hosts that may die at any point                         *)
  Serial,       (* TRUE: nobody starts anything before the last is settled *)
  Asks,         (* the range and permission each host gives secure_alloc   *)
  Script,       (* what each host then does: a sequence of operations      *)
  JunkFlag,     (* what is_del may hold in memory fresh from malloc()      *)
  JunkWord,     (* what an uninitialised integer of an entry may hold      *)
  MaxRestarts,  (* bound: how often the FAM is killed and started again    *)
  Founder       (* the access of the host that founded a running region    *)

Hosts == Procs \ {Fam}

(* request_extension for a range, or a removal of a host from a range. *)
Operation ==
  [op: {"extend"}, range: Ranges, permission: BOOLEAN]
    \cup [op: {"remove"}, host: Nat, initiator: Nat, range: Ranges]

ASSUME DriverAssumption ==
  /\ Fam \in Procs /\ Creators = Hosts /\ IdOf[Fam] = FAM_ID
  /\ \A p \in Hosts : IdOf[p] \in Nat
  /\ Late \subseteq Hosts /\ Mortal \subseteq Hosts /\ Serial \in BOOLEAN
  /\ Asks \in [Hosts -> [range: Ranges, permission: BOOLEAN]]
  /\ Script \in [Hosts -> Seq(Operation)]
  /\ JunkFlag \subseteq BOOLEAN /\ JunkWord \subseteq 0..MaxContext
  /\ Founder \in [host: Nat, range: Ranges, permission: BOOLEAN]
  /\ MaxRestarts \in Nat

VARIABLES
  slot,         (* proposed_update                                         *)
  pcount,       (* participant_count                                       *)
  participants, (* the indexes set in participant_host_ids                 *)
  count,        (* the vote count                                          *)
  table,        (* the permission table                                    *)
  domains,      (* the FAM's domain counter                                *)
  copy,         (* each process's own entry: the one it writes from, the   *)
                (* word it last loaded, the FAM's copy of a proposal       *)
  next,         (* which field each process is at                          *)
  doing,        (* what each process is in the middle of                   *)
  todo,         (* what is left of each host's script                      *)
  granted,      (* hosts whose data_start_address was set since the FAM    *)
                (* was last started                                        *)
  restarts      (* how often the FAM was started again                     *)

headVars == <<slot, pcount, participants, count, table, domains>>
procVars == <<copy, next, doing, todo, granted, restarts>>
vars == <<lockVars, headVars, procVars>>

-----------------------------------------------------------------------------
(* Entries and the order in which code touches their fields.               *)

Blank ==
  [host |-> 0, used |-> 0, range |-> ZeroRange, initiator |-> 0,
   permission |-> FALSE, is_del |-> FALSE, is_valid |-> FALSE]

ProposedEntry ==
  [host: Nat, used: 0..MaxContext, range: Ranges \cup {ZeroRange},
   initiator: Nat, permission: BOOLEAN, is_del: BOOLEAN, is_valid: BOOLEAN]

(* Mutant: the entry is announced before it is filled in. *)
JoinOrderValidFirst ==
  <<"is_valid", "host", "range", "initiator", "used", "permission", "is_del">>

(* secure_alloc() fills the shared slot itself, through its pointer. *)
JoinOrder ==
  <<"host", "range", "initiator", "used", "permission", "is_valid", "is_del">>

(* Mutant: the same in write_proposed_entry(). *)
CopyOrderValidFirst ==
  <<"is_valid", "host", "used", "range", "initiator", "permission", "is_del">>

(* write_proposed_entry() copies an entry into the slot, is_valid last. *)
CopyOrder ==
  <<"host", "used", "range", "initiator", "permission", "is_del", "is_valid">>

(* Passing *proposal by value reads the slot in the order of its fields. *)
ReadOrder == <<"host", "used", "range", "initiator", "permission">>

JoinEntry(p) ==
  [host |-> IdOf[p], used |-> 1, range |-> Asks[p].range, initiator |-> IdOf[p],
   permission |-> Asks[p].permission, is_del |-> FALSE, is_valid |-> TRUE]

(* The entry create_head() and request_extension() allocate: nobody sets    *)
(* its initiator or its is_del, which keep what malloc() returned.          *)
AllocatedEntries(p, range, permission) ==
  {[host |-> IdOf[p], used |-> 1, range |-> range, initiator |-> w,
    permission |-> permission, is_del |-> d, is_valid |-> TRUE] :
     w \in JunkWord, d \in JunkFlag}

(* main.cc's removal_entry is on the stack: its valid_contexts and its      *)
(* permission are whatever is there.                                        *)
RemovalEntries(o) ==
  {[host |-> o.host, used |-> w, range |-> o.range, initiator |-> o.initiator,
    permission |-> f, is_del |-> TRUE, is_valid |-> TRUE] :
     w \in JunkWord, f \in BOOLEAN}

SetSlot(f, v) == slot' = [slot EXCEPT ![f] = v]

Advance(p) == next' = [next EXCEPT ![p] = @ + 1]
Rewind(p)  == next' = [next EXCEPT ![p] = 1]

-----------------------------------------------------------------------------
(* A host process.                                                         *)

(* A host is in no call. *)
AtRest == {"off", "ready", "exit", "dead"}

(* Nothing is under way: what an operator who starts the programs by hand,  *)
(* one after the other, waits for.                                          *)
Calm ==
  /\ ~slot.is_valid
  /\ pc[Fam] \in {"idle", "off"} /\ doing[Fam] = "none"
  /\ \A p \in Hosts : pc[p] \in AtRest

Launch(p) ==
  /\ Goto(p, "off", "attach")
  /\ p \in Late => pcount > 0
  /\ Serial => Calm
  /\ UNCHANGED <<lockWords, headVars, procVars>>

(* secure_alloc(): a count that is not positive is written as 0. *)
Attach(p) ==
  /\ Goto(p, "attach", IF pcount <= 0 THEN "reset" ELSE "role")
  /\ UNCHANGED <<lockWords, headVars, procVars>>

ResetCount(p) ==
  /\ Goto(p, "reset", "role")
  /\ pcount' = 0
  /\ UNCHANGED <<lockWords, slot, participants, count, table, domains, procVars>>

(* The chain of branches reads the count again in each of them. *)
ChooseCreate(p) ==
  /\ Goto(p, "role", IF pcount = 0 THEN "head" ELSE "role2")
  /\ UNCHANGED <<lockWords, headVars, procVars>>

ChooseJoin(p) ==
  /\ Goto(p, "role2", IF pcount > 0 /\ IdOf[p] > 0 THEN "join" ELSE "exit")
  /\ doing' = [doing EXCEPT ![p] = "join"]
  /\ Rewind(p)
  /\ UNCHANGED <<lockWords, headVars, copy, todo, granted, restarts>>

(* Mutant: create_head() locks without write_lock(IDLE, -1) before. *)
EnterCreateHeadAsIs(p) ==
  /\ Goto(p, "head", IF IdOf[p] = 0 \/ pcount = 0 THEN "lk_check" ELSE "exit")
  /\ doing' = [doing EXCEPT ![p] = "create"]
  /\ UNCHANGED <<lockWords, headVars, copy, next, todo, granted, restarts>>

(* create_head() tests once more who may create it. *)
EnterCreateHead(p) ==
  /\ Goto(p, "head", IF IdOf[p] = 0 \/ pcount = 0 THEN "ov_check" ELSE "exit")
  /\ doing' = [doing EXCEPT ![p] = "create"]
  /\ UNCHANGED <<lockWords, headVars, copy, next, todo, granted, restarts>>

SetParticipantCount(p) ==
  /\ p # Fam
  /\ Goto(p, "cs", "enrol")
  /\ pcount' = 1
  /\ UNCHANGED <<lockWords, slot, participants, count, table, domains, procVars>>

Enrol(p) ==
  /\ Goto(p, "enrol", "write")
  /\ participants' = participants \cup {IdOf[p]}
  /\ \E e \in AllocatedEntries(p, Asks[p].range, Asks[p].permission) :
       copy' = [copy EXCEPT ![p] = e]
  /\ Rewind(p)
  /\ UNCHANGED <<lockWords, slot, pcount, count, table, domains, doing, todo, granted, restarts>>

(* write_proposed_entry() from an entry of the process's own. *)
WriteField(p) ==
  LET f    == CopyOrder[next[p]]
      last == next[p] = Len(CopyOrder)
  IN /\ Goto(p, "write", IF ~last THEN "write"
                         ELSE IF doing[p] = "remove" THEN "idle" ELSE "un_check")
     /\ SetSlot(f, copy[p][f])
     /\ copy' = IF last THEN [copy EXCEPT ![p] = Blank] ELSE copy
     /\ IF last THEN Rewind(p) ELSE Advance(p)
     /\ UNCHANGED <<lockWords, pcount, participants, count, table, domains,
                    doing, todo, granted, restarts>>

(* A new participant writes its proposal into the slot it points at. *)
JoinField(p) ==
  LET f    == JoinOrder[next[p]]
      last == next[p] = Len(JoinOrder)
  IN /\ Goto(p, "join", IF last THEN "load" ELSE "join")
     /\ SetSlot(f, JoinEntry(p)[f])
     /\ IF last THEN Rewind(p) ELSE Advance(p)
     /\ UNCHANGED <<lockWords, pcount, participants, count, table, domains,
                    copy, doing, todo, granted, restarts>>

(* It then has write_proposed_entry() copy the slot onto itself: each field *)
(* is loaded and stored back, is_valid only if it was loaded as set.        *)
LoadField(p) ==
  LET f == CopyOrder[next[p]]
  IN /\ Goto(p, "load", IF f = "is_valid" /\ ~slot[f] THEN "wait" ELSE "store")
     /\ copy' = [copy EXCEPT ![p] = [Blank EXCEPT ![f] = slot[f]]]
     /\ UNCHANGED <<lockWords, headVars, next, doing, todo, granted, restarts>>

StoreField(p) ==
  LET f    == CopyOrder[next[p]]
      last == next[p] = Len(CopyOrder)
  IN /\ Goto(p, "store", IF last THEN "wait" ELSE "load")
     /\ SetSlot(f, copy[p][f])
     /\ copy' = [copy EXCEPT ![p] = Blank]
     /\ Advance(p)
     /\ UNCHANGED <<lockWords, pcount, participants, count, table, domains,
                    doing, todo, granted, restarts>>

(* The vote is over once the count exceeds half of the participants. *)
WaitForVote(p) ==
  /\ Goto(p, "wait", "idle")
  /\ count > pcount \div 2
  /\ copy' = [copy EXCEPT ![p] = Blank]
  /\ Rewind(p)
  /\ UNCHANGED <<lockWords, headVars, doing, todo, granted, restarts>>

(* secure_alloc(), request_extension() or main's removal returns. *)
Return(p) ==
  /\ p # Fam
  /\ Goto(p, "idle", "ready")
  /\ granted' = IF doing[p] \in {"create", "join"} THEN granted \cup {p} ELSE granted
  /\ doing' = [doing EXCEPT ![p] = "none"]
  /\ UNCHANGED <<lockWords, headVars, copy, next, todo, restarts>>

StartOperation(p) ==
  /\ Goto(p, "ready", "write")
  /\ todo[p] # <<>>
  /\ Serial => Calm
  /\ LET o == Head(todo[p])
     IN /\ doing' = [doing EXCEPT ![p] = o.op]
        /\ \E e \in IF o.op = "remove" THEN RemovalEntries(o)
                    ELSE AllocatedEntries(p, o.range, o.permission) :
             copy' = [copy EXCEPT ![p] = e]
  /\ todo' = [todo EXCEPT ![p] = Tail(@)]
  /\ Rewind(p)
  /\ UNCHANGED <<lockWords, headVars, granted, restarts>>

-----------------------------------------------------------------------------
(* The FAM.                                                                *)

(* monitor_update() sees is_valid and decides by is_del, before the lock.   *)
(* The two loads are one step: is_valid stays set until the FAM clears it.  *)
FamPoll ==
  /\ doing[Fam] = "none"
  /\ slot.is_valid
  /\ Goto(Fam, "idle", "lk_check")
  /\ doing' = [doing EXCEPT ![Fam] = IF slot.is_del THEN "remove" ELSE "move"]
  /\ UNCHANGED <<lockWords, headVars, copy, next, todo, granted, restarts>>

(* Voting is skipped: the count is set as if everybody had agreed. *)
FamVote ==
  /\ Goto(Fam, "cs", "read")
  /\ count' = MaxParticipant
  /\ Rewind(Fam)
  /\ UNCHANGED <<lockWords, slot, pcount, participants, table, domains,
                 copy, doing, todo, granted, restarts>>

FamRead ==
  LET f    == ReadOrder[next[Fam]]
      last == next[Fam] = Len(ReadOrder)
  IN /\ Goto(Fam, "read", IF last THEN doing[Fam] ELSE "read")
     /\ copy' = [copy EXCEPT ![Fam][f] = slot[f]]
     /\ IF last THEN Rewind(Fam) ELSE Advance(Fam)
     /\ UNCHANGED <<lockWords, headVars, doing, todo, granted, restarts>>

(* populate_table_entry(), and participant_host_ids at the FAM's own id. *)
FamMove ==
  LET prop == copy[Fam]
      over == IndexOverflows(table, prop)
  IN /\ Goto(Fam, "move", IF over THEN "dead" ELSE "clear")
     /\ table' = IF over THEN table ELSE Populate(table, domains, prop)
     /\ domains' = DomainsAfter(table, domains, prop)
     /\ participants' = IF over THEN participants ELSE participants \cup {FAM_ID}
     /\ copy' = [copy EXCEPT ![Fam] = Blank]
     /\ UNCHANGED <<lockWords, slot, pcount, count, next, doing, todo, granted, restarts>>

FamRemove ==
  LET prop  == copy[Fam]
      fatal == RemoveFatal(table, prop)
  IN /\ Goto(Fam, "remove", IF fatal THEN "dead" ELSE "clear")
     /\ table' = IF fatal THEN table ELSE Remove(table, prop)
     /\ copy' = [copy EXCEPT ![Fam] = Blank]
     /\ UNCHANGED <<lockWords, slot, pcount, participants, count, domains,
                    next, doing, todo, granted, restarts>>

(* Mutant: the FAM forgets to clear is_valid. *)
FamClearValidKept ==
  /\ Goto(Fam, "clear", "clear_del")
  /\ UNCHANGED <<lockWords, headVars, procVars>>

FamClearValid ==
  /\ Goto(Fam, "clear", "clear_del")
  /\ SetSlot("is_valid", FALSE)
  /\ UNCHANGED <<lockWords, pcount, participants, count, table, domains, procVars>>

(* Mutant: move_proposed_entry() and remove_proposed_entry() clear is_valid only. *)
FamClearDelKept ==
  /\ Goto(Fam, "clear_del", "un_check")
  /\ UNCHANGED <<lockWords, headVars, procVars>>

FamClearDel ==
  /\ Goto(Fam, "clear_del", "un_check")
  /\ SetSlot("is_del", FALSE)
  /\ UNCHANGED <<lockWords, pcount, participants, count, table, domains, procVars>>

(* Mutant: set_count() adds what it is given. *)
FamTallyAll ==
  /\ pc[Fam] = "idle"
  /\ doing[Fam] # "none"
  /\ count' = count + MaxParticipant
  /\ doing' = [doing EXCEPT ![Fam] = "none"]
  /\ UNCHANGED <<lockVars, slot, pcount, participants, table, domains,
                 copy, next, todo, granted, restarts>>

(* set_count() adds one vote more; then the FAM sleeps and polls again. *)
FamTally ==
  /\ pc[Fam] = "idle"
  /\ doing[Fam] # "none"
  /\ count' = count + 1
  /\ doing' = [doing EXCEPT ![Fam] = "none"]
  /\ UNCHANGED <<lockVars, slot, pcount, participants, table, domains,
                 copy, next, todo, granted, restarts>>

-----------------------------------------------------------------------------
(* Deaths.                                                                 *)

(* A process is killed, or faults; what it wrote stays in the region. *)
Vanish(p, label) ==
  /\ pc' = [pc EXCEPT ![p] = label]
  /\ copy' = [copy EXCEPT ![p] = Blank]
  /\ Rewind(p)
  /\ doing' = [doing EXCEPT ![p] = "none"]
  /\ UNCHANGED <<lockWords, headVars, todo, granted, restarts>>

Die(p) ==
  /\ p \in Mortal
  /\ pc[p] \notin {"off", "exit", "dead"}
  /\ Vanish(p, "dead")

FamDie ==
  /\ restarts < MaxRestarts
  /\ pc[Fam] # "off"
  /\ Vanish(Fam, "off")

(* munmap_memory() cuts the object to two bytes: is_locked stays, the rest  *)
(* is zero from then on.  Hosts may be anywhere in the head; one that touches *)
(* what is cut off before the FAM has its size again faults, a Die.           *)
FamCut ==
  /\ Goto(Fam, "off", "cut")
  /\ Serial => \A p \in Hosts : pc[p] \in AtRest
  /\ restarts' = restarts + 1
  /\ whoLocked' = 0
  /\ slot' = Blank /\ pcount' = 0 /\ participants' = {} /\ count' = 0
  /\ table' = <<>>
  /\ granted' = {}
  /\ UNCHANGED <<isLocked, domains, copy, next, doing, todo>>

(* Mutant: the domain counter outlives the FAM's process. *)
FamStartKeepsDomains ==
  /\ Goto(Fam, "cut", "idle")
  /\ isLocked' = IDLE /\ table' = <<>>
  /\ UNCHANGED <<whoLocked, slot, pcount, participants, count, domains, procVars>>

(* It then writes zeros to those two bytes; init_fam() sets the index of    *)
(* the table, and monitor_update() starts its counter.                       *)
FamStart ==
  /\ Goto(Fam, "cut", "idle")
  /\ isLocked' = IDLE
  /\ table' = <<>> /\ domains' = 0
  /\ UNCHANGED <<whoLocked, slot, pcount, participants, count, procVars>>

-----------------------------------------------------------------------------
(* The system.                                                             *)

ProcInit ==
  /\ pc = [p \in Procs |-> IF p = Fam THEN "idle" ELSE "off"]
  /\ copy = [p \in Procs |-> Blank]
  /\ next = [p \in Procs |-> 1]
  /\ doing = [p \in Procs |-> "none"]
  /\ todo = Script
  /\ granted = {} /\ restarts = 0

(* fam_main.cc has zeroed the region and started its monitor. *)
InitFresh ==
  /\ isLocked = IDLE /\ whoLocked = 0
  /\ slot = Blank /\ pcount = 0 /\ participants = {} /\ count = 0
  /\ table = <<>> /\ domains = 0
  /\ ProcInit

(* A host has created the head, the FAM has taken its proposal, and the two *)
(* did not meet at the lock: the state a serial start ends in.              *)
InitFounded ==
  LET prop == [Blank EXCEPT !.host = Founder.host, !.used = 1,
                 !.range = Founder.range, !.permission = Founder.permission]
  IN /\ isLocked = IDLE /\ whoLocked = NO_HOST
     /\ slot = prop /\ pcount = 1
     /\ participants = {Founder.host, FAM_ID} /\ count = MaxParticipant + 1
     /\ table = Populate(<<>>, 0, prop) /\ domains = 1
     /\ ProcInit

(* An operator or a user decides whether these happen; the rest is code. *)
Environment(p) == Launch(p) \/ StartOperation(p)

HostStep(p) ==
  \/ Attach(p) \/ ResetCount(p) \/ ChooseCreate(p) \/ ChooseJoin(p)
  \/ EnterCreateHead(p) \/ SetParticipantCount(p) \/ Enrol(p)
  \/ WriteField(p) \/ JoinField(p) \/ LoadField(p) \/ StoreField(p)
  \/ WaitForVote(p) \/ Return(p)

FamStep ==
  \/ FamPoll \/ FamVote \/ FamRead \/ FamMove \/ FamRemove
  \/ FamClearValid \/ FamClearDel \/ FamTally \/ FamStart

InLock(p) == LockStep(p) /\ UNCHANGED <<headVars, procVars>>

Deaths == (\E p \in Hosts : Die(p)) \/ FamDie \/ FamCut

Next ==
  \/ \E p \in Hosts : Environment(p) \/ HostStep(p)
  \/ FamStep
  \/ \E p \in Procs : InLock(p)
  \/ Deaths

(* Every process is scheduled: a step of its code that stays possible is    *)
(* taken.  Nobody has to start a program, and nobody has to die.            *)
Fairness ==
  /\ \A p \in Hosts : WF_vars(HostStep(p) \/ InLock(p))
  /\ WF_vars(FamStep \/ InLock(Fam))

SpecFresh   == InitFresh /\ [][Next]_vars /\ Fairness
SpecFounded == InitFounded /\ [][Next]_vars /\ Fairness

-----------------------------------------------------------------------------
(* Properties.                                                             *)

HostLabels ==
  Labels \cup {"off", "attach", "reset", "role", "role2", "head", "enrol", "write",
              "join", "load", "store", "wait", "ready", "exit", "dead"}

FamLabels ==
  Labels \cup {"read", "move", "remove", "clear", "clear_del", "dead", "off", "cut"}

(* Types.  The count of participants never passes 1 and the vote count is   *)
(* set anew before it grows, whatever set_count() is given.                  *)
TypeOK ==
  /\ isLocked \in {IDLE, WRITE} /\ whoLocked \in {IdOf[p] : p \in Procs} \cup {0, NO_HOST}
  /\ slot \in ProposedEntry
  /\ pcount \in 0..1 /\ count \in 0..(MaxParticipant + 1)
  /\ participants \subseteq HostIds
  /\ table \in Seq(Entry) /\ domains \in Nat
  /\ pc \in [Procs -> HostLabels \cup FamLabels] /\ pc[Fam] \in FamLabels
  /\ \A p \in Hosts : pc[p] \in HostLabels
  /\ copy \in [Procs -> ProposedEntry]
  /\ next \in [Procs -> 1..(Len(CopyOrder) + 1)]
  /\ doing \in [Procs -> {"none", "create", "join", "extend", "remove", "move"}]
  /\ todo \in [Hosts -> Seq(Operation)]
  /\ granted \subseteq Hosts
  /\ restarts \in 0..MaxRestarts

(* p is between taking the lock and giving it back.  A FAM that an assert or *)
(* fatal() ended, and nobody killed, never gave it back.                     *)
HasLock(p) ==
  IF p = Fam
  THEN pc[p] \in {"cs", "read", "move", "remove", "clear", "clear_del",
                 "un_check", "un_idle", "dead"}
  ELSE doing[p] = "create" /\ pc[p] \in {"cs", "enrol", "write", "un_check", "un_idle"}

(* s_permissions.hh: "Writing to the metadata is done by the host that has  *)
(* the write lock.  This is the critical section of the code."              *)
MutualExclusion == \A p, q \in Procs : HasLock(p) /\ HasLock(q) => p = q

(* When one host creates the head and the others come later, the FAM is     *)
(* never in the critical section together with the creator: the creator's   *)
(* is_valid, which wakes the FAM, is stored under the lock.                  *)
CreatorExcludesFam == \A p \in Hosts : ~(HasLock(p) /\ HasLock(Fam))

(* While the FAM holds the lock the lock word says so: no host frees it,    *)
(* not the creator whose unlock() may end after the FAM has taken over, and *)
(* not the unlock() at the end of request_extension(), which never locked.  *)
FamKeepsLock == HasLock(Fam) => isLocked = WRITE

(* secure_alloc() returns in every host that is not killed in it: the lock  *)
(* of create_head() is obtained and the wait for votes ends.                *)
AllocReturns == \A p \in Hosts :
  pc[p] = "attach" ~> pc[p] \in {"ready", "exit", "dead"}

Asked(p) == <<IdOf[p], Asks[p].range, Asks[p].permission>>

(* create_head() gets the lock whoever held it before: s_permissions.cc, "If *)
(* the host_id is -1, then override the lock and reset it."                 *)
CreatorGetsLock == \A p \in Hosts : pc[p] = "ov_check" ~> pc[p] \in {"cs", "dead"}

(* The access that an entry stands for if its fields belong together. *)
AccessOf(e) == <<e.host, e.range, e.permission>>

(* An addition for p is announced as a whole and the FAM is not busy with    *)
(* another proposal: it is admitted in the end, in the presence of what a    *)
(* host that died in a proposal of its own left behind, unless another       *)
(* proposal overwrites it.  One that is announced while the FAM is between   *)
(* its copy and the clearing of is_valid is not covered: it is lost.         *)
AnnouncedIsTaken == \A p \in Hosts :
  (pc[Fam] = "idle" /\ slot.is_valid /\ AccessOf(slot) = Asked(p))
    ~> (Asked(p) \in Access(table) \/ AccessOf(slot) # Asked(p))

(* Removals of p that were or will be proposed. *)
IsVictim(p) ==
  \E q \in Hosts : \E i \in DOMAIN Script[q] :
    Script[q][i].op = "remove" /\ Script[q][i].host = IdOf[p]

(* Once nothing is under way, each host that was given data_start_address   *)
(* has its access in the table, unless a removal names it.  s_dmalloc.cc    *)
(* says of the entry that is proposed: "This entry will go through."        *)
CalmIsComplete ==
  Calm => \A p \in granted : Asked(p) \in Access(table) \/ IsVictim(p)

(* A host is given data_start_address only with its access in the table:    *)
(* s_dmalloc.cc: "I need to propose an entry and wait until the voting is   *)
(* done."                                                                   *)
GrantedIsRecorded ==
  \A p \in granted : Asked(p) \in Access(table) \/ IsVictim(p)

(* Who takes the lock gives it back: s_dmalloc.cc, "Now unlock the memory". *)
LockIsFreed == isLocked = WRITE ~> isLocked = IDLE

(* What the hosts of this configuration may come to have, and lose. *)
Proposable ==
  {Asked(p) : p \in Hosts} \cup
  UNION {{<<IdOf[p], Script[p][i].range, Script[p][i].permission>> :
            i \in {j \in DOMAIN Script[p] : Script[p][j].op = "extend"}} : p \in Hosts}

Removable ==
  UNION {{<<Script[p][i].host, Script[p][i].range>> :
            i \in {j \in DOMAIN Script[p] : Script[p][j].op = "remove"}} : p \in Hosts}

(* With requests one at a time, the stores to the slot, the copy onto       *)
(* itself that announces a proposal twice, and the FAM's polling together   *)
(* implement AccessControl: the table gains what a host asked for, whole,    *)
(* loses what a removal names, and never anything else, whichever host is    *)
(* killed at whichever store, until a new FAM starts from nothing.           *)
AC == INSTANCE AccessControl WITH
        access <- Access(table), Grants <- Proposable, Revocations <- Removable,
        Losable <- {}, MayReset <- MaxRestarts > 0

ServesAccessControl == AC!Spec

(* Nothing is admitted but what some host asked for.  s_dmalloc.cc on a new *)
(* participant: "If the voting goes through, I'll enter my proposed entry   *)
(* into the permission table."                                               *)
AdmittedWasAsked ==
  Access(table) \subseteq
    Proposable \cup {<<Founder.host, Founder.range, Founder.permission>>}

(* With requests one at a time no proposal mixes with another: the FAM      *)
(* never runs into fatal(), which needs the initiator of one and the victim *)
(* of another, nor into the assert on the index, with as many entries as    *)
(* there may be.                                                             *)
FamNeverFails == pc[Fam] # "dead"

(* A host has two contexts of a domain at most: a new participant announces *)
(* its proposal twice, before and in the copy of the slot onto itself, and   *)
(* the FAM may take it both times, but never once more, whoever is killed     *)
(* between the table, the slot and the lock.                                  *)
TwoContextsAtMost == \A i \in DOMAIN table : \A p \in Hosts :
  Cardinality({s \in LiveSlots(table[i]) : table[i].context[s] = IdOf[p]}) <= 2

(* A proposal starts from a slot without is_del: a new participant sets     *)
(* is_valid before it clears is_del, and would be removed instead of added. *)
CalmIsClean == Calm /\ pc[Fam] = "idle" => ~slot.is_del

(* The domains counter and the index belong to two memories, one of the     *)
(* FAM's process and one of the region: they agree, whatever proposals mix  *)
(* and whenever the FAM is killed and started again, so ids stay positions   *)
(* and keys distinct.                                                        *)
CountersAgree ==
  /\ IdsArePositions(table) /\ KeysAreDistinct(table)
  /\ pc[Fam] \notin {"dead", "off", "cut"} => domains = Len(table)

(* A lock with an id in it, which no create_head() can reset, is that of a  *)
(* process that has it, or of a host that was killed while it had an id in  *)
(* it; or somebody is about to store its own id.  A FAM that was killed is   *)
(* not looked at until the next one has zeroed the words.                    *)
LockNamesItsOwner ==
  pc[Fam] \notin {"off", "cut"} /\ isLocked = WRITE /\ whoLocked # NO_HOST =>
    \E p \in Procs :
      \/ pc[p] = "lk_who"
      \/ whoLocked = IdOf[p] /\ (HasLock(p) \/ (p # Fam /\ pc[p] = "dead"))

(* The lock as HeadLock sees it: between two calls a process is at "cs" if  *)
(* it has the lock and at "idle" if not.                                     *)
lockPc == [p \in Procs |->
  IF pc[p] \in Labels THEN pc[p] ELSE IF HasLock(p) THEN "cs" ELSE "idle"]

Lock == INSTANCE HeadLock WITH pc <- lockPc

(* The programs use the lock as HeadLock has its clients use it: create_head *)
(* resets it and then takes it once, the FAM takes it without, no lock is   *)
(* taken twice, and the only unlock() without a lock is request_extension's. *)
UsesLock == Lock!LockSpec
=============================================================================
