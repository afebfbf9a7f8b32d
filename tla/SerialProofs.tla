---------------------------- MODULE SerialProofs ----------------------------
(***************************************************************************)
(* Requests one at a time, as an operator makes them who starts one        *)
(* program after the other: each waits until nothing is under way.         *)
(* Then the slot, into which anybody may write at any time, carries one    *)
(* proposal whole, whoever is killed between which stores; the FAM takes   *)
(* what was asked for and nothing else; and the protocol implements        *)
(* AccessControl.  The invariant says, field by field, whose entry is in   *)
(* the slot at each step of the one host that is in a call and at each     *)
(* step of the FAM.                                                        *)
(***************************************************************************)
EXTENDS MetadataDriverProofs

-----------------------------------------------------------------------------
(* What is assumed of the use that is made of the programs.                *)

(* Requests come one at a time; what malloc() returns has is_del unset; and *)
(* nobody kills a host that runs a removal: between its store of is_del and *)
(* its store of is_valid that would leave is_del set for the next proposal. *)
OneAtATime ==
  /\ Serial
  /\ JunkFlag \subseteq {FALSE}
  /\ \A p \in Hosts : \A i \in DOMAIN Script[p] :
       Script[p][i].op = "remove" => p \notin Mortal

-----------------------------------------------------------------------------
(* The invariant.                                                          *)

(* An entry that adds an access of some host, one that takes one away, and  *)
(* an entry that is one of them as a whole.                                  *)
Grantable(e) == e.used = 1 /\ AccessOf(e) \in Proposable

Revocable(e) ==
  \E p \in Hosts : \E i \in DOMAIN Script[p] :
    /\ Script[p][i].op = "remove"
    /\ e.host = Script[p][i].host /\ e.range = Script[p][i].range
    /\ e.initiator = Script[p][i].initiator

Whole(e) == IF e.is_del THEN Revocable(e) ELSE Grantable(e)

(* p is in a call whose proposal is not announced yet. *)
Preparing ==
  {"attach", "reset", "role", "role2", "head", "ov_check", "ov_who", "ov_idle",
   "lk_check", "lk_set", "lk_who", "cs", "enrol", "write"}

Composing(p) == pc[p] \in Preparing \/ (pc[p] = "join" /\ next[p] <= 6)

(* p has announced its proposal and still stores to the slot. *)
Repeating(p) == pc[p] \in {"load", "store"} \/ (pc[p] = "join" /\ next[p] = 7)

(* Until it is announced the FAM does not look at the slot. *)
QuietOK == \A p \in Hosts :
  Composing(p) => ~slot.is_valid /\ pc[Fam] \in {"idle", "off"} /\ doing[Fam] = "none"

(* The entry that p writes is a whole one, and what it wrote is in the slot. *)
DraftOK(p) ==
  pc[p] = "write" =>
    /\ copy[p].is_valid /\ Whole(copy[p])
    /\ copy[p].is_del => p \notin Mortal
    /\ \A k \in 1..7 : k < next[p] => slot[CopyOrder[k]] = copy[p][CopyOrder[k]]
    /\ doing[p] = "create" => ~copy[p].is_del /\ AccessOf(copy[p]) = Asked(p)

(* The same for a host that joins: it stores the fields of its entry one by *)
(* one, then each field once more as it is.                                  *)
JoinOK(p) ==
  /\ pc[p] = "join" =>
       \A k \in 1..5 : k < next[p] => slot[JoinOrder[k]] = JoinEntry(p)[JoinOrder[k]]
  /\ Repeating(p) => slot.used = 1 /\ AccessOf(slot) = Asked(p)
  /\ Repeating(p) /\ pc[Fam] # "off" => ~slot.is_del /\ doing[Fam] # "remove"
  /\ pc[p] = "store" =>
       IF CopyOrder[next[p]] = "is_valid" THEN copy[p].is_valid
       ELSE copy[p][CopyOrder[next[p]]] = slot[CopyOrder[next[p]]]

(* From the moment the FAM sees the proposal until it clears is_valid the    *)
(* slot is as the FAM judged it, and the FAM's copy agrees with it.          *)
Taking == {"lk_check", "lk_set", "lk_who", "cs", "read", "move", "remove", "clear", "dead"}

FamOK ==
  /\ pc[Fam] \notin {"ov_check", "ov_who", "ov_idle"}
  /\ pc[Fam] \in Taking =>
       slot.is_valid /\ doing[Fam] = IF slot.is_del THEN "remove" ELSE "move"
  /\ pc[Fam] \notin Taking /\ doing[Fam] = "remove" => ~slot.is_valid
  /\ pc[Fam] \notin Taking /\ doing[Fam] = "move" => ~slot.is_del
  /\ pc[Fam] = "read" =>
       \A k \in 1..5 : k < next[Fam] => copy[Fam][ReadOrder[k]] = slot[ReadOrder[k]]
  /\ pc[Fam] \in {"move", "remove"} =>
       /\ doing[Fam] = pc[Fam]
       /\ \A k \in 1..5 : copy[Fam][ReadOrder[k]] = slot[ReadOrder[k]]
  /\ pc[Fam] = "cut" =>
       ~slot.is_valid /\ ~slot.is_del /\ \A p \in Hosts : pc[p] \in AtRest

(* What is announced to a FAM that runs is whole, and is_del does not stay   *)
(* behind, except for a moment of a removal that is announced or cleared.    *)
ValidIsWhole == pc[Fam] # "off" /\ slot.is_valid => Whole(slot)

DelIsCleared ==
  pc[Fam] # "off" /\ slot.is_del /\ ~slot.is_valid =>
    \/ pc[Fam] = "clear_del"
    \/ \E p \in Hosts : pc[p] = "write" /\ next[p] = 7 /\ copy[p].is_del

(* What is left of a script comes from the script. *)
Planned(p) == {Script[p][i] : i \in DOMAIN Script[p]}

PlannedOK == \A p \in Hosts : todo[p] \in Seq(Planned(p))

SerialOK ==
  /\ QuietOK /\ FamOK /\ ValidIsWhole /\ DelIsCleared /\ PlannedOK
  /\ \A p \in Hosts : DraftOK(p) /\ JoinOK(p)

-----------------------------------------------------------------------------
(* Entries.                                                                *)

(* The entries that hosts propose are whole. *)
LEMMA AskedIsProposable ==
  ASSUME NEW p \in Hosts
  PROVE  /\ Asked(p) \in Proposable
         /\ AccessOf(JoinEntry(p)) = Asked(p) /\ JoinEntry(p).used = 1
         /\ JoinEntry(p).is_valid /\ ~JoinEntry(p).is_del
BY DEF Proposable, AccessOf, JoinEntry, Asked

LEMMA AllocatedIsWhole ==
  ASSUME OneAtATime, NEW p \in Hosts, NEW r, NEW w, NEW e \in AllocatedEntries(p, r, w),
         <<IdOf[p], r, w>> \in Proposable
  PROVE  /\ e.is_valid /\ ~e.is_del /\ Whole(e)
         /\ AccessOf(e) = <<IdOf[p], r, w>>
<1>1. PICK v \in JunkWord, d \in JunkFlag :
         e = [host |-> IdOf[p], used |-> 1, range |-> r, initiator |-> v,
              permission |-> w, is_del |-> d, is_valid |-> TRUE]
  BY DEF AllocatedEntries
<1>2. d = FALSE
  BY DEF OneAtATime
<1>3. QED
  BY <1>1, <1>2 DEF Whole, Grantable, AccessOf

LEMMA RemovalIsWhole ==
  ASSUME OneAtATime, NEW p \in Hosts, NEW o \in Planned(p), o.op = "remove",
         NEW e \in RemovalEntries(o)
  PROVE  e.is_valid /\ e.is_del /\ Whole(e) /\ p \notin Mortal
<1>1. PICK v \in JunkWord, f \in BOOLEAN :
         e = [host |-> o.host, used |-> v, range |-> o.range, initiator |-> o.initiator,
              permission |-> f, is_del |-> TRUE, is_valid |-> TRUE]
  BY DEF RemovalEntries
<1>2. PICK i \in DOMAIN Script[p] : o = Script[p][i]
  BY DEF Planned
<1>3. Revocable(e)
  BY <1>1, <1>2 DEF Revocable
<1>4. QED
  BY <1>1, <1>2, <1>3 DEF Whole, OneAtATime

LEMMA ExtensionIsProposable ==
  ASSUME NEW p \in Hosts, NEW o \in Planned(p), o.op = "extend"
  PROVE  <<IdOf[p], o.range, o.permission>> \in Proposable
<1>1. PICK i \in DOMAIN Script[p] : o = Script[p][i]
  BY DEF Planned
<1>2. <<IdOf[p], o.range, o.permission>> \in
        {<<IdOf[p], Script[p][j].range, Script[p][j].permission>> :
           j \in {k \in DOMAIN Script[p] : Script[p][k].op = "extend"}}
  BY <1>1
<1>3. QED
  BY <1>2 DEF Proposable

(* A store changes one field. *)
LEMMA OneField ==
  ASSUME NEW s \in ProposedEntry, NEW f \in Fields, NEW v
  PROVE  \A g \in Fields : [s EXCEPT ![f] = v][g] = IF g = f THEN v ELSE s[g]
BY DEF ProposedEntry, Fields

LEMMA SameField ==
  ASSUME NEW s \in ProposedEntry, NEW f \in Fields
  PROVE  [s EXCEPT ![f] = s[f]] = s
<1>1. CASE f \in {"host", "used", "range", "initiator"}
  BY <1>1 DEF ProposedEntry
<1>2. CASE f \in {"permission", "is_del", "is_valid"}
  BY <1>2 DEF ProposedEntry
<1>3. QED
  BY <1>1, <1>2 DEF Fields

(* Entries that agree in the fields that matter are whole together. *)
LEMMA WholeFields ==
  ASSUME NEW s \in ProposedEntry, NEW e \in ProposedEntry,
         s.host = e.host, s.used = e.used, s.range = e.range, s.initiator = e.initiator,
         s.permission = e.permission, s.is_del = e.is_del, Whole(e)
  PROVE  Whole(s)
BY DEF Whole, Grantable, Revocable, AccessOf

-----------------------------------------------------------------------------
(* Steps of the host that is in a call.                                    *)

(* p moves and nobody else does; the other hosts are in no call. *)
Alone(p) ==
  /\ \A q \in Procs : q # p => /\ pc'[q] = pc[q] /\ doing'[q] = doing[q]
                              /\ copy'[q] = copy[q] /\ next'[q] = next[q]
  /\ \A q \in Hosts : q # p => pc[q] \in AtRest

(* Nothing is announced and the FAM has nothing to do. *)
Quiet == ~slot.is_valid /\ pc[Fam] \in {"idle", "off"} /\ doing[Fam] = "none"

(* The rest of the invariant is about others, who are not concerned. *)
LEMMA HostStores ==
  ASSUME NEW p \in Hosts, Alone(p), Composing(p)' => Quiet', PlannedOK',
         DraftOK(p)', JoinOK(p)', FamOK', ValidIsWhole', DelIsCleared'
  PROVE  SerialOK'
<1>1. ASSUME NEW q \in Hosts, q # p
      PROVE  ~Composing(q)' /\ DraftOK(q)' /\ JoinOK(q)'
  <2>1. q \in Procs
    BY DEF Hosts
  <2>2. pc'[q] \in AtRest
    BY <1>1, <2>1 DEF Alone
  <2>3. QED
    BY <2>2 DEF AtRest, Composing, Repeating, Preparing, DraftOK, JoinOK
<1>2. QuietOK'
  BY <1>1 DEF QuietOK, Quiet
<1>3. \A q \in Hosts : DraftOK(q)' /\ JoinOK(q)'
  BY <1>1
<1>4. QED
  BY <1>2, <1>3 DEF SerialOK

(* A step that leaves the slot as it is, and no removal half announced. *)
LEMMA HostKeeps ==
  ASSUME PlacesOK, SerialOK, NEW p \in Hosts, Alone(p), pc[Fam] # "cut", slot' = slot,
         Composing(p)' => Quiet, PlannedOK', DraftOK(p)', JoinOK(p)',
         pc[p] = "write" /\ next[p] = 7 => ~copy[p].is_del
  PROVE  SerialOK'
<1>1. /\ Fam \in Procs /\ Fam # p
      /\ pc'[Fam] = pc[Fam] /\ doing'[Fam] = doing[Fam]
      /\ copy'[Fam] = copy[Fam] /\ next'[Fam] = next[Fam]
  BY DriverAssumption DEF Alone, Hosts
<1>2. Composing(p)' => Quiet'
  BY <1>1 DEF Quiet
<1>3. FamOK'
  BY <1>1 DEF SerialOK, FamOK
<1>4. ValidIsWhole'
  BY <1>1 DEF SerialOK, ValidIsWhole, Whole, Revocable, Grantable, AccessOf
<1>5. DelIsCleared'
  <2>1. ASSUME pc'[Fam] # "off", slot'.is_del, ~slot'.is_valid, pc'[Fam] # "clear_del"
        PROVE  FALSE
    <3>1. PICK q \in Hosts : pc[q] = "write" /\ next[q] = 7 /\ copy[q].is_del
      BY <1>1, <2>1 DEF SerialOK, DelIsCleared
    <3>2. QED
      BY <3>1 DEF Alone, AtRest
  <2>2. QED
    BY <2>1 DEF DelIsCleared
<1>6. QED
  BY <1>2, <1>3, <1>4, <1>5, HostStores

(* A step to a place where nothing is stored yet or any more. *)
LEMMA HostMoves ==
  ASSUME PlacesOK, SerialOK, NEW p \in Hosts, Alone(p), pc[Fam] # "cut", slot' = slot,
         todo' = todo, Composing(p)' => Quiet,
         pc'[p] \notin {"write", "load", "store"}, pc'[p] = "join" => next'[p] = 1,
         pc[p] = "write" /\ next[p] = 7 => ~copy[p].is_del
  PROVE  SerialOK'
<1>1. DraftOK(p)' /\ JoinOK(p)'
  BY DEF DraftOK, JoinOK, Repeating
<1>2. PlannedOK'
  BY DEF SerialOK, PlannedOK
<1>3. QED
  BY <1>1, <1>2, HostKeeps

(* The host that is in a call, or starts one, is the only one. *)
LEMMA HostAlone ==
  ASSUME Serial, PlacesOK, SlotOK, SoleOK, SerialOK, NEW p \in Hosts,
         Environment(p) \/ HostStep(p) \/ InLock(p)
  PROVE  Alone(p) /\ pc[Fam] # "cut"
<1>1. p \in Procs /\ \A q \in Hosts : q \in Procs
  BY DEF Hosts
<1>2. /\ pc \in [Procs -> HostLabels \cup FamLabels]
      /\ doing \in [Procs -> {"none", "create", "join", "extend", "remove", "move"}]
      /\ copy \in [Procs -> ProposedEntry] /\ next \in [Procs -> 1..8]
  BY DEF PlacesOK, SlotOK
<1>3. \A q \in Procs : q # p => /\ pc'[q] = pc[q] /\ doing'[q] = doing[q]
                               /\ copy'[q] = copy[q] /\ next'[q] = next[q]
  <2> USE <1>1, <1>2 DEF Goto
  <2>1. CASE Environment(p)
    BY <2>1 DEF Environment, Launch, StartOperation, Rewind, procVars
  <2>2. CASE Attach(p) \/ ResetCount(p) \/ ChooseCreate(p) \/ ChooseJoin(p)
             \/ EnterCreateHead(p) \/ SetParticipantCount(p) \/ Enrol(p)
    BY <2>2
    DEF Attach, ResetCount, ChooseCreate, ChooseJoin, EnterCreateHead,
        SetParticipantCount, Enrol, Rewind, procVars
  <2>3. CASE WriteField(p)
    BY <2>3 DEF WriteField, Rewind, Advance
  <2>4. CASE JoinField(p) \/ LoadField(p) \/ StoreField(p)
    BY <2>4 DEF JoinField, LoadField, StoreField, Rewind, Advance
  <2>5. CASE WaitForVote(p) \/ Return(p)
    BY <2>5 DEF WaitForVote, Return, Rewind
  <2>6. CASE InLock(p)
    BY <2>6
    DEF InLock, LockStep, OverrideCheck, OverrideWho, OverrideIdle, LockCheck, LockSet,
        LockWho, UnlockCheck, UnlockIdle, UnlockWho, procVars
  <2>7. QED
    BY <2>1, <2>2, <2>3, <2>4, <2>5, <2>6 DEF HostStep
<1>4. CASE Environment(p)
  BY <1>3, <1>4 DEF Environment, Launch, StartOperation, Calm, Alone
<1>5. CASE HostStep(p) \/ InLock(p)
  <2>1. pc[p] \notin AtRest
    BY <1>5
    DEF HostStep, Attach, ResetCount, ChooseCreate, ChooseJoin, EnterCreateHead,
        SetParticipantCount, Enrol, WriteField, JoinField, LoadField, StoreField,
        WaitForVote, Return, InLock, LockStep, OverrideCheck, OverrideWho, OverrideIdle,
        LockCheck, LockSet, LockWho, UnlockCheck, UnlockIdle, UnlockWho, Goto, AtRest
  <2>2. QED
    BY <1>3, <2>1 DEF SoleOK, SerialOK, FamOK, Alone
<1>6. QED
  BY <1>4, <1>5

(* A request starts from a calm head, with an entry that is whole. *)
LEMMA SerialStarts ==
  ASSUME OneAtATime, PlacesOK, SlotOK, SoleOK, SerialOK, NEW p \in Hosts, Environment(p)
  PROVE  SerialOK'
<1>1. Alone(p) /\ pc[Fam] # "cut" /\ p \in Procs /\ p # Fam
  BY HostAlone DEF OneAtATime, Hosts
<1>2. /\ pc \in [Procs -> HostLabels \cup FamLabels] /\ next \in [Procs -> 1..8]
      /\ copy \in [Procs -> ProposedEntry]
      /\ doing \in [Procs -> {"none", "create", "join", "extend", "remove", "move"}]
  BY DEF PlacesOK, SlotOK
<1>3. Quiet
  BY DEF Environment, Launch, StartOperation, Calm, OneAtATime, Quiet
<1>4. CASE Launch(p)
  <2>1. /\ slot' = slot /\ todo' = todo /\ pc[p] = "off"
        /\ pc' = [pc EXCEPT ![p] = "attach"]
    BY <1>4 DEF Launch, Goto, headVars, procVars
  <2>2. QED
    BY <1>1, <1>2, <1>3, <2>1, HostMoves
<1>5. CASE StartOperation(p)
  <2> DEFINE o == Head(todo[p])
  <2>1. o \in Planned(p) /\ Tail(todo[p]) \in Seq(Planned(p))
    BY <1>5 DEF StartOperation, SerialOK, PlannedOK
  <2>2. todo' = [todo EXCEPT ![p] = Tail(todo[p])] /\ slot' = slot
    BY <1>5 DEF StartOperation, headVars
  <2>3. PlannedOK'
    BY <2>1, <2>2 DEF SerialOK, PlannedOK
  <2>4. /\ pc[p] = "ready" /\ pc'[p] = "write" /\ next'[p] = 1 /\ doing'[p] = o.op
    BY <1>1, <1>2, <1>5 DEF StartOperation, Goto, Rewind
  <2>5. PICK e \in IF o.op = "remove" THEN RemovalEntries(o)
                   ELSE AllocatedEntries(p, o.range, o.permission) :
          copy' = [copy EXCEPT ![p] = e]
    BY <1>5 DEF StartOperation
  <2>6. o.op \in {"extend", "remove"}
    <3>1. PICK i \in DOMAIN Script[p] : o = Script[p][i]
      BY <2>1 DEF Planned
    <3>2. Script[p][i] \in Operation
      BY <3>1, DriverAssumption
    <3>3. QED
      BY <3>1, <3>2 DEF Operation
  <2> HIDE DEF o
  <2>7. e.is_valid /\ Whole(e) /\ (e.is_del => p \notin Mortal)
    <3>1. CASE o.op = "remove"
      BY <2>1, <2>5, <3>1, RemovalIsWhole
    <3>2. CASE o.op = "extend"
      BY <2>1, <2>5, <3>2, AllocatedIsWhole, ExtensionIsProposable
    <3>3. QED
      BY <2>6, <3>1, <3>2
  <2>8. copy'[p] = e
    BY <1>1, <1>2, <2>5
  <2>9. DraftOK(p)'
    BY <2>4, <2>6, <2>7, <2>8 DEF DraftOK, Whole, Revocable, Grantable, AccessOf
  <2>10. JoinOK(p)'
    BY <2>4 DEF JoinOK, Repeating
  <2>11. QED
    BY <1>1, <1>3, <2>2, <2>3, <2>4, <2>9, <2>10, HostKeeps
<1>6. QED
  BY <1>4, <1>5 DEF Environment

(* Steps that store nothing to the slot. *)
LEMMA SerialMoves ==
  ASSUME OneAtATime, PlacesOK, SlotOK, SoleOK, SerialOK, NEW p \in Hosts,
         HostStep(p) \/ InLock(p), ~WriteField(p), ~JoinField(p), ~LoadField(p),
         ~StoreField(p)
  PROVE  SerialOK'
<1>1. Alone(p) /\ pc[Fam] # "cut" /\ p \in Procs /\ p # Fam
  BY HostAlone DEF OneAtATime, Hosts
<1>2. /\ pc \in [Procs -> HostLabels \cup FamLabels] /\ next \in [Procs -> 1..8]
      /\ copy \in [Procs -> ProposedEntry]
      /\ doing \in [Procs -> {"none", "create", "join", "extend", "remove", "move"}]
  BY DEF PlacesOK, SlotOK
<1>3. Composing(p) => Quiet
  BY DEF SerialOK, QuietOK, Quiet
<1> USE <1>1, <1>2, <1>3 DEF Goto, Composing, Preparing
<1>4. CASE Attach(p) \/ ResetCount(p) \/ ChooseCreate(p)
  <2>1. /\ slot' = slot /\ todo' = todo /\ pc[p] \in Preparing \ {"write"}
        /\ pc'[p] \in {"reset", "role", "head", "role2"}
    BY <1>4 DEF Attach, ResetCount, ChooseCreate, headVars, procVars
  <2>2. QED
    BY <2>1, HostMoves
<1>5. CASE ChooseJoin(p)
  <2>1. /\ slot' = slot /\ todo' = todo /\ pc[p] = "role2" /\ next'[p] = 1
        /\ pc'[p] \in {"join", "exit"}
    BY <1>5 DEF ChooseJoin, Rewind, headVars
  <2>2. QED
    BY <2>1, HostMoves
<1>6. CASE EnterCreateHead(p) \/ SetParticipantCount(p)
  <2>1. /\ slot' = slot /\ todo' = todo /\ pc[p] \in Preparing \ {"write"}
        /\ pc'[p] \in {"ov_check", "exit", "enrol"}
    BY <1>6 DEF EnterCreateHead, SetParticipantCount, headVars, procVars
  <2>2. QED
    BY <2>1, HostMoves
<1>7. CASE Enrol(p)
  <2>1. PICK e \in AllocatedEntries(p, Asks[p].range, Asks[p].permission) :
          copy' = [copy EXCEPT ![p] = e]
    BY <1>7 DEF Enrol
  <2>2. /\ slot' = slot /\ todo' = todo /\ pc[p] = "enrol" /\ pc'[p] = "write"
        /\ next'[p] = 1 /\ copy'[p] = e
    BY <1>7, <2>1 DEF Enrol, Rewind
  <2>3. Asked(p) = <<IdOf[p], Asks[p].range, Asks[p].permission>> /\ Asked(p) \in Proposable
    BY AskedIsProposable DEF Asked
  <2>4. e.is_valid /\ ~e.is_del /\ Whole(e) /\ AccessOf(e) = Asked(p)
    BY <2>3, AllocatedIsWhole
  <2>5. DraftOK(p)'
    BY <2>2, <2>4 DEF DraftOK, Whole, Revocable, Grantable, AccessOf
  <2>6. JoinOK(p)' /\ PlannedOK'
    BY <2>2 DEF JoinOK, Repeating, SerialOK, PlannedOK
  <2>7. QED
    BY <2>2, <2>5, <2>6, HostKeeps
<1>8. CASE WaitForVote(p) \/ Return(p)
  <2>1. /\ slot' = slot /\ todo' = todo /\ pc[p] \in {"wait", "idle"}
        /\ pc'[p] \in {"idle", "ready"}
    BY <1>8 DEF WaitForVote, Return, headVars
  <2>2. QED
    BY <2>1, HostMoves
<1>9. CASE InLock(p)
  <2>1. /\ slot' = slot /\ todo' = todo /\ pc[p] # "write"
        /\ \/ pc[p] \in Preparing /\ pc'[p] \in Preparing \ {"write"}
           \/ pc'[p] \in {"un_idle", "un_who", "idle"}
    BY <1>9
    DEF InLock, LockStep, OverrideCheck, OverrideWho, OverrideIdle, LockCheck, LockSet,
        LockWho, UnlockCheck, UnlockIdle, UnlockWho, headVars, procVars
  <2>2. QED
    BY <2>1, HostMoves
<1>10. QED
  BY <1>4, <1>5, <1>6, <1>7, <1>8, <1>9 DEF HostStep

(* Which field comes when. *)
LEMMA OrderPlaces ==
  /\ \A g \in Fields : \E k \in 1..7 : CopyOrder[k] = g
  /\ \A k \in 1..7 : /\ CopyOrder[k] = "is_valid" <=> k = 7
                     /\ CopyOrder[k] = "is_del" <=> k = 6
                     /\ JoinOrder[k] = "is_valid" <=> k = 6
                     /\ JoinOrder[k] = "is_del" <=> k = 7
  /\ JoinOrder[1] = "host" /\ JoinOrder[2] = "range" /\ JoinOrder[3] = "initiator"
  /\ JoinOrder[4] = "used" /\ JoinOrder[5] = "permission"
BY DEF CopyOrder, JoinOrder, Fields

(* write_proposed_entry() from an entry of p's own. *)
LEMMA SerialWrites ==
  ASSUME OneAtATime, PlacesOK, SlotOK, SoleOK, SerialOK, NEW p \in Hosts, WriteField(p)
  PROVE  SerialOK'
<1> DEFINE n == next[p]
           f == CopyOrder[n]
<1>1. Alone(p) /\ pc[Fam] # "cut" /\ p \in Procs /\ p # Fam
  BY HostAlone DEF OneAtATime, Hosts, HostStep
<1>2. /\ pc \in [Procs -> HostLabels \cup FamLabels] /\ next \in [Procs -> 1..8]
      /\ copy \in [Procs -> ProposedEntry] /\ slot \in ProposedEntry
      /\ doing \in [Procs -> {"none", "create", "join", "extend", "remove", "move"}]
  BY DEF PlacesOK, SlotOK
<1>3. /\ pc[p] = "write" /\ n \in 1..7 /\ f \in Fields /\ copy[p] \in ProposedEntry
      /\ slot' = [slot EXCEPT ![f] = copy[p][f]] /\ todo' = todo /\ doing' = doing
      /\ Quiet
  BY <1>1, <1>2, OrderFacts
  DEF WriteField, SetSlot, Goto, SlotOK, Room, SerialOK, QuietOK, Quiet, Composing, Preparing
<1>4. \A g \in Fields : slot'[g] = IF g = f THEN copy[p][g] ELSE slot[g]
  <2>1. slot \in ProposedEntry /\ f \in Fields /\ slot' = [slot EXCEPT ![f] = copy[p][f]]
    BY <1>2, <1>3
  <2> HIDE DEF f
  <2>2. \A g \in Fields : slot'[g] = IF g = f THEN copy[p][f] ELSE slot[g]
    BY <2>1, OneField
  <2>3. QED
    BY <2>2
<1>5. /\ Fam \in Procs /\ pc'[Fam] = pc[Fam] /\ doing'[Fam] = doing[Fam]
  BY <1>1, DriverAssumption DEF Alone
<1>6. FamOK' /\ PlannedOK'
  BY <1>3, <1>5 DEF Quiet, FamOK, Taking, SerialOK, PlannedOK
<1>7. /\ copy[p].is_valid /\ Whole(copy[p]) /\ (copy[p].is_del => p \notin Mortal)
      /\ \A k \in 1..7 : k < n => slot[CopyOrder[k]] = copy[p][CopyOrder[k]]
      /\ doing[p] = "create" => ~copy[p].is_del /\ AccessOf(copy[p]) = Asked(p)
  BY <1>3 DEF SerialOK, DraftOK
<1>8. \A k \in 1..7 : k < n + 1 => slot'[CopyOrder[k]] = copy[p][CopyOrder[k]]
  BY <1>3, <1>4, <1>7, OrderFacts
<1>9. CASE n # 7
  <2>1. pc'[p] = "write" /\ next'[p] = n + 1 /\ copy' = copy
    BY <1>1, <1>2, <1>3, <1>9, OrderFacts DEF WriteField, Goto, Advance
  <2>2. f # "is_valid" /\ (f = "is_del" <=> n = 6)
    BY <1>3, <1>9, OrderPlaces
  <2>3. ~slot'.is_valid
    BY <1>3, <1>4, <2>2 DEF Quiet, Fields
  <2>4. DraftOK(p)' /\ JoinOK(p)' /\ (Composing(p)' => Quiet') /\ ValidIsWhole'
    <3>1. DraftOK(p)'
      BY <1>3, <1>7, <1>8, <2>1 DEF DraftOK, Whole, Revocable, Grantable, AccessOf
    <3>2. QED
      BY <1>3, <1>5, <2>1, <2>3, <3>1 DEF JoinOK, Repeating, Quiet, ValidIsWhole
  <2>5. DelIsCleared'
    <3>1. ASSUME pc[Fam] # "off", slot'.is_del PROVE n = 6 /\ copy[p].is_del
      <4>1. CASE f = "is_del"
        BY <1>4, <2>2, <3>1, <4>1 DEF Fields
      <4>2. CASE f # "is_del"
        <5>1. slot.is_del /\ ~slot.is_valid /\ pc[Fam] # "clear_del"
          BY <1>3, <1>4, <3>1, <4>2 DEF Fields, Quiet
        <5>2. PICK q \in Hosts : pc[q] = "write" /\ next[q] = 7
          BY <3>1, <5>1 DEF SerialOK, DelIsCleared
        <5>3. q = p
          BY <1>1, <5>2 DEF Alone, AtRest
        <5>4. QED
          BY <1>9, <5>2, <5>3
      <4>3. QED
        BY <4>1, <4>2
    <3>2. QED
      BY <1>5, <2>1, <3>1 DEF DelIsCleared
  <2>6. QED
    BY <1>1, <1>6, <2>4, <2>5, HostStores
<1>10. CASE n = 7
  <2>1. pc'[p] \in {"idle", "un_check"} /\ next'[p] = 1
    BY <1>1, <1>2, <1>3, <1>10, OrderFacts DEF WriteField, Goto, Rewind
  <2>2. \A g \in Fields : slot'[g] = copy[p][g]
    BY <1>8, <1>10, OrderPlaces
  <2>3. /\ slot' \in ProposedEntry
    BY <1>2, <1>3, FieldStore
  <2>4. Whole(slot')
    BY <1>3, <1>7, <2>2, <2>3, WholeFields DEF Fields
  <2>5. Whole(slot)' /\ slot'.is_valid
    BY <1>7, <2>2, <2>4 DEF Whole, Revocable, Grantable, AccessOf, Fields
  <2>6. DraftOK(p)' /\ JoinOK(p)' /\ ~Composing(p)'
    BY <2>1 DEF DraftOK, JoinOK, Repeating, Composing, Preparing
  <2>7. ValidIsWhole' /\ DelIsCleared'
    BY <2>5 DEF ValidIsWhole, DelIsCleared
  <2>8. QED
    BY <1>1, <1>6, <2>6, <2>7, HostStores
<1>11. QED
  BY <1>9, <1>10

(* secure_alloc()'s own stores to the slot. *)
LEMMA SerialJoins ==
  ASSUME OneAtATime, PlacesOK, SlotOK, CountsOK, SoleOK, SerialOK, NEW p \in Hosts,
         JoinField(p)
  PROVE  SerialOK'
<1> DEFINE n == next[p]
           f == JoinOrder[n]
           e == JoinEntry(p)
<1>1. Alone(p) /\ pc[Fam] # "cut" /\ p \in Procs /\ p # Fam
  BY HostAlone DEF OneAtATime, Hosts, HostStep
<1>2. /\ pc \in [Procs -> HostLabels \cup FamLabels] /\ next \in [Procs -> 1..8]
      /\ copy \in [Procs -> ProposedEntry] /\ slot \in ProposedEntry
      /\ doing \in [Procs -> {"none", "create", "join", "extend", "remove", "move"}]
  BY DEF PlacesOK, SlotOK
<1>3. /\ pc[p] = "join" /\ n \in 1..7 /\ f \in Fields
      /\ slot' = [slot EXCEPT ![f] = e[f]] /\ todo' = todo /\ doing' = doing
      /\ copy' = copy
  BY <1>1, <1>2, OrderFacts DEF JoinField, SetSlot, Goto, SlotOK, Room
<1>4. \A g \in Fields : slot'[g] = IF g = f THEN e[g] ELSE slot[g]
  <2> HIDE DEF e, f
  <2>1. slot \in ProposedEntry /\ f \in Fields /\ slot' = [slot EXCEPT ![f] = e[f]]
    BY <1>2, <1>3
  <2>2. \A g \in Fields : slot'[g] = IF g = f THEN e[f] ELSE slot[g]
    BY <2>1, OneField
  <2>3. QED
    BY <2>2
<1>5. /\ Fam \in Procs /\ pc'[Fam] = pc[Fam] /\ doing'[Fam] = doing[Fam]
      /\ copy'[Fam] = copy[Fam] /\ next'[Fam] = next[Fam]
  BY <1>1, DriverAssumption DEF Alone
<1>6. PlannedOK'
  BY <1>3 DEF SerialOK, PlannedOK
<1>7. /\ e.used = 1 /\ AccessOf(e) = Asked(p) /\ Asked(p) \in Proposable
      /\ e.is_valid /\ ~e.is_del
  BY AskedIsProposable
<1>8. \A k \in 1..5 : k < n => slot[JoinOrder[k]] = e[JoinOrder[k]]
  BY <1>3 DEF SerialOK, JoinOK
<1>9. \A k \in 1..5 : k < n + 1 => slot'[JoinOrder[k]] = e[JoinOrder[k]]
  BY <1>3, <1>4, <1>8, OrderFacts
<1>10. ASSUME n \in 1..6 PROVE Quiet /\ (pc[Fam] # "off" => ~slot.is_del)
  <2>1. Composing(p)
    BY <1>3, <1>10 DEF Composing
  <2>2. Quiet
    BY <2>1 DEF SerialOK, QuietOK, Quiet
  <2>3. \A q \in Hosts : pc[q] # "write"
    BY <1>1, <1>3 DEF Alone, AtRest
  <2>4. QED
    BY <2>2, <2>3 DEF SerialOK, DelIsCleared, Quiet
<1>t. slot' \in ProposedEntry
  BY <1>2, <1>3, EntriesTyped, FieldStore
<1> HIDE DEF e
<1>11. CASE n \in 1..5
  <2>1. pc'[p] = "join" /\ next'[p] = n + 1 /\ n + 1 # 7
    BY <1>1, <1>2, <1>3, <1>11, OrderFacts DEF JoinField, Goto, Advance
  <2>2. f \notin {"is_valid", "is_del"}
    BY <1>11, OrderPlaces
  <2>3. slot'.is_valid = slot.is_valid /\ slot'.is_del = slot.is_del
    BY <1>4, <2>2 DEF Fields
  <2>4. Quiet /\ (pc[Fam] # "off" => ~slot.is_del)
    BY <1>10, <1>11
  <2>5. JoinOK(p)'
    BY <1>9, <2>1 DEF JoinOK, Repeating, e, JoinEntry
  <2>6. /\ DraftOK(p)' /\ FamOK' /\ (Composing(p)' => Quiet')
        /\ ValidIsWhole' /\ DelIsCleared'
    BY <1>5, <2>1, <2>3, <2>4
    DEF DraftOK, FamOK, Taking, Quiet, ValidIsWhole, DelIsCleared
  <2>7. QED
    BY <1>1, <1>6, <2>5, <2>6, HostStores
<1>12. CASE n = 6
  <2>1. pc'[p] = "join" /\ next'[p] = 7
    BY <1>1, <1>2, <1>3, <1>12, OrderFacts DEF JoinField, Goto, Advance
  <2>2. f = "is_valid"
    BY <1>12, OrderPlaces
  <2>3. slot'.is_valid /\ slot'.is_del = slot.is_del
    BY <1>4, <1>7, <2>2 DEF Fields
  <2>4. Quiet /\ (pc[Fam] # "off" => ~slot.is_del)
    BY <1>10, <1>12
  <2>5. slot'.used = 1 /\ AccessOf(slot)' = Asked(p)
    BY <1>7, <1>9, <1>12, OrderPlaces DEF AccessOf
  <2>6. JoinOK(p)'
    <3>1. \A k \in 1..5 : slot'[JoinOrder[k]] = JoinEntry(p)[JoinOrder[k]]
      BY <1>9, <1>12 DEF e
    <3>2. slot'.used = 1 /\ AccessOf(slot)' = Asked(p)'
      BY <2>5 DEF Asked
    <3>3. pc'[Fam] # "off" => ~slot'.is_del /\ doing'[Fam] # "remove"
      BY <1>2, <1>5, <2>3, <2>4 DEF ProposedEntry, Quiet
    <3>4. QED
      BY <2>1, <3>1, <3>2, <3>3 DEF JoinOK, JoinEntry
  <2>7. DraftOK(p)' /\ FamOK' /\ ~Composing(p)' /\ DelIsCleared'
    BY <1>5, <2>1, <2>3, <2>4
    DEF DraftOK, FamOK, Taking, Quiet, DelIsCleared, Composing, Preparing
  <2>8. ValidIsWhole'
    BY <1>5, <1>7, <2>3, <2>4, <2>5 DEF ValidIsWhole, Whole, Grantable, Proposable
  <2>9. QED
    BY <1>1, <1>6, <2>6, <2>7, <2>8, HostStores
<1>13. CASE n = 7
  <2>1. pc'[p] = "load" /\ next'[p] = 1
    BY <1>1, <1>2, <1>3, <1>13, OrderFacts DEF JoinField, Goto, Rewind
  <2>2. f = "is_del"
    BY <1>13, OrderPlaces
  <2>3. ~slot'.is_del /\ \A g \in Fields : g # "is_del" => slot'[g] = slot[g]
    BY <1>4, <1>7, <2>2 DEF Fields
  <2>4. /\ slot.used = 1 /\ AccessOf(slot) = Asked(p)
        /\ pc[Fam] # "off" => ~slot.is_del /\ doing[Fam] # "remove"
    BY <1>3, <1>13 DEF SerialOK, JoinOK, Repeating
  <2>5. slot'.used = 1 /\ AccessOf(slot)' = Asked(p)
    BY <2>3, <2>4 DEF AccessOf, Fields
  <2>6. JoinOK(p)'
    BY <1>5, <2>1, <2>3, <2>4, <2>5 DEF JoinOK, Asked
  <2>7. DraftOK(p)' /\ ~Composing(p)' /\ DelIsCleared'
    BY <2>1, <2>3 DEF DraftOK, Composing, Preparing, DelIsCleared
  <2>8. ValidIsWhole'
    BY <1>7, <2>3, <2>5 DEF ValidIsWhole, Whole, Grantable, Proposable
  <2>9. FamOK'
    <3>1. CASE pc[Fam] = "off"
      BY <1>5, <3>1 DEF FamOK, Taking, CountsOK
    <3>2. CASE pc[Fam] # "off"
      <4>1. ~slot.is_del /\ \A g \in Fields : slot'[g] = slot[g]
        <5>1. slot.is_del \in BOOLEAN /\ slot'.is_del \in BOOLEAN
          BY <1>2, <1>t DEF ProposedEntry
        <5>2. QED
          BY <2>3, <2>4, <3>2, <5>1 DEF Fields
      <4>2. \A k \in 1..5 : slot'[ReadOrder[k]] = slot[ReadOrder[k]]
        BY <4>1, OrderFacts
      <4>3. QED
        BY <1>1, <1>5, <2>4, <3>2, <4>1, <4>2 DEF SerialOK, FamOK, Fields
    <3>3. QED
      BY <3>1, <3>2
  <2>10. QED
    BY <1>1, <1>6, <2>6, <2>7, <2>8, <2>9, HostStores
<1>14. QED
  BY <1>3, <1>11, <1>12, <1>13

(* write_proposed_entry() from the slot onto the slot: what p stores is      *)
(* what is there, but for an is_valid that the FAM has cleared meanwhile.    *)
LEMMA SerialCopies ==
  ASSUME OneAtATime, PlacesOK, SlotOK, CountsOK, SoleOK, SerialOK, NEW p \in Hosts,
         LoadField(p) \/ StoreField(p)
  PROVE  SerialOK'
<1> DEFINE n == next[p]
           f == CopyOrder[n]
<1>1. Alone(p) /\ pc[Fam] # "cut" /\ p \in Procs /\ p # Fam
  BY HostAlone DEF OneAtATime, Hosts, HostStep
<1>2. /\ pc \in [Procs -> HostLabels \cup FamLabels] /\ next \in [Procs -> 1..8]
      /\ copy \in [Procs -> ProposedEntry] /\ slot \in ProposedEntry
  BY DEF PlacesOK, SlotOK
<1>3. /\ pc[p] \in {"load", "store"} /\ n \in 1..7 /\ f \in Fields /\ todo' = todo
      /\ copy[p] \in ProposedEntry
  BY <1>1, <1>2, OrderFacts DEF LoadField, StoreField, Goto, SlotOK, Room
<1>4. /\ Fam \in Procs /\ pc'[Fam] = pc[Fam] /\ doing'[Fam] = doing[Fam]
      /\ copy'[Fam] = copy[Fam] /\ next'[Fam] = next[Fam]
  BY <1>1, DriverAssumption DEF Alone
<1>5. /\ slot.used = 1 /\ AccessOf(slot) = Asked(p) /\ Asked(p) \in Proposable
      /\ pc[Fam] # "off" => ~slot.is_del /\ doing[Fam] # "remove"
  BY <1>3, AskedIsProposable DEF SerialOK, JoinOK, Repeating
<1>6. PlannedOK'
  BY <1>3 DEF SerialOK, PlannedOK
<1>7. ASSUME slot' = slot, pc'[p] \in {"load", "store", "wait"},
             pc'[p] = "store" => IF CopyOrder[next'[p]] = "is_valid" THEN copy'[p].is_valid
                                 ELSE copy'[p][CopyOrder[next'[p]]] = slot[CopyOrder[next'[p]]]
      PROVE  SerialOK'
  <2>1. DraftOK(p)' /\ ~Composing(p)'
    BY <1>7 DEF DraftOK, Composing, Preparing
  <2>2. JoinOK(p)'
    BY <1>4, <1>5, <1>7 DEF JoinOK, AccessOf, Asked
  <2>3. QED
    BY <1>1, <1>3, <1>6, <1>7, <2>1, <2>2, HostKeeps
<1>8. CASE LoadField(p)
  <2>1. /\ slot' = slot /\ next' = next /\ copy' = [copy EXCEPT ![p] = [Blank EXCEPT ![f] = slot[f]]]
        /\ pc'[p] = IF f = "is_valid" /\ ~slot[f] THEN "wait" ELSE "store"
    BY <1>1, <1>2, <1>8 DEF LoadField, Goto, headVars
  <2>2. copy'[p][f] = slot[f]
    <3>1. copy'[p] = [Blank EXCEPT ![f] = slot[f]]
      BY <1>1, <1>2, <2>1
    <3>2. Blank \in ProposedEntry /\ f \in Fields
      BY <1>3, EntriesTyped
    <3> HIDE DEF f
    <3>3. QED
      BY <3>1, <3>2, OneField
  <2>3. pc'[p] = "store" => IF CopyOrder[next'[p]] = "is_valid" THEN copy'[p].is_valid
                            ELSE copy'[p][CopyOrder[next'[p]]] = slot[CopyOrder[next'[p]]]
    BY <2>1, <2>2
  <2>4. QED
    BY <1>7, <2>1, <2>3
<1>9. CASE StoreField(p)
  <2>1. /\ slot' = [slot EXCEPT ![f] = copy[p][f]]
        /\ pc'[p] \in {"wait", "load"} /\ pc[p] = "store"
    BY <1>1, <1>2, <1>9 DEF StoreField, SetSlot, Goto
  <2>2. IF f = "is_valid" THEN copy[p].is_valid ELSE copy[p][f] = slot[f]
    BY <2>1 DEF SerialOK, JoinOK
  <2>3. CASE f # "is_valid"
    <3>1. slot' = slot
      <4>1. slot' = [slot EXCEPT ![f] = slot[f]]
        BY <2>1, <2>2, <2>3
      <4>2. QED
        BY <1>2, <1>3, <4>1, SameField
    <3>2. QED
      BY <1>7, <2>1, <3>1
  <2>4. CASE f = "is_valid"
    <3>1. \A g \in Fields : slot'[g] = IF g = f THEN copy[p][f] ELSE slot[g]
      <4>1. slot \in ProposedEntry /\ f \in Fields
        BY <1>2, <1>3
      <4> HIDE DEF f
      <4>2. QED
        BY <2>1, <4>1, OneField
    <3>2. slot'.is_valid /\ \A g \in Fields : g # "is_valid" => slot'[g] = slot[g]
      BY <2>2, <2>4, <3>1 DEF Fields
    <3>3. slot'.used = 1 /\ AccessOf(slot)' = Asked(p)
      BY <1>5, <3>2 DEF AccessOf, Fields
    <3>4. slot'.is_del = slot.is_del
      BY <3>2 DEF Fields
    <3>5. DraftOK(p)' /\ ~Composing(p)' /\ DelIsCleared'
      BY <2>1, <3>2 DEF DraftOK, Composing, Preparing, DelIsCleared
    <3>6. JoinOK(p)'
      BY <1>4, <1>5, <2>1, <3>3, <3>4 DEF JoinOK, Asked
    <3>7. ValidIsWhole'
      BY <1>4, <1>5, <3>3, <3>4 DEF ValidIsWhole, Whole, Grantable, Proposable
    <3>8. FamOK'
      <4>1. \A k \in 1..5 : slot'[ReadOrder[k]] = slot[ReadOrder[k]]
        BY <3>2 DEF ReadOrder, Fields
      <4>2. pc[Fam] = "off" => doing[Fam] # "remove"
        BY DEF CountsOK
      <4>3. QED
        BY <1>1, <1>4, <1>5, <3>2, <3>4, <4>1, <4>2 DEF SerialOK, FamOK, Taking
    <3>9. QED
      BY <1>1, <1>6, <3>5, <3>6, <3>7, <3>8, HostStores
  <2>5. QED
    BY <2>3, <2>4
<1>10. QED
  BY <1>8, <1>9

(* A host is killed: what it stored stays, and that is nothing that counts. *)
LEMMA SerialDies ==
  ASSUME OneAtATime, PlacesOK, SlotOK, SerialOK, NEW p \in Hosts, Die(p)
  PROVE  SerialOK'
<1>1. /\ p \in Procs /\ p # Fam /\ Fam \in Procs /\ p \in Mortal
      /\ slot' = slot /\ todo' = todo /\ pc'[p] = "dead"
      /\ \A q \in Procs : q # p => /\ pc'[q] = pc[q] /\ doing'[q] = doing[q]
                                  /\ copy'[q] = copy[q] /\ next'[q] = next[q]
  BY DriverAssumption DEF Die, Vanish, Rewind, headVars, Hosts, PlacesOK, SlotOK
<1>2. \A q \in Hosts : q \in Procs
  BY DEF Hosts
<1>3. ASSUME NEW q \in Hosts PROVE DraftOK(q)' /\ JoinOK(q)'
  <2>1. CASE q = p
    BY <1>1, <2>1 DEF DraftOK, JoinOK, Repeating
  <2>2. CASE q # p
    <3>1. DraftOK(q) /\ JoinOK(q)
      BY DEF SerialOK
    <3>2. /\ pc'[q] = pc[q] /\ doing'[q] = doing[q] /\ copy'[q] = copy[q]
          /\ next'[q] = next[q] /\ pc'[Fam] = pc[Fam] /\ doing'[Fam] = doing[Fam]
      BY <1>1, <1>2, <2>2
    <3>3. DraftOK(q)'
      BY <1>1, <3>1, <3>2
      DEF DraftOK, Whole, Revocable, Grantable, AccessOf, Asked, Proposable
    <3>4. JoinOK(q)'
      BY <1>1, <3>1, <3>2 DEF JoinOK, Repeating, AccessOf, Asked, JoinEntry
    <3>5. QED
      BY <3>3, <3>4
  <2>3. QED
    BY <2>1, <2>2
<1>4. QuietOK' /\ PlannedOK'
  BY <1>1, <1>2 DEF SerialOK, QuietOK, PlannedOK, Composing, Preparing
<1>5. FamOK'
  BY <1>1, <1>2 DEF SerialOK, FamOK, Taking, AtRest
<1>6. ValidIsWhole'
  BY <1>1 DEF SerialOK, ValidIsWhole, Whole, Revocable, Grantable, AccessOf
<1>7. DelIsCleared'
  <2>1. ASSUME NEW q \in Hosts, pc[q] = "write", next[q] = 7, copy[q].is_del
        PROVE  pc'[q] = "write" /\ next'[q] = 7 /\ copy'[q].is_del
    <3>1. q # p
      BY <1>1, <2>1 DEF SerialOK, DraftOK
    <3>2. QED
      BY <1>1, <1>2, <2>1, <3>1
  <2>2. QED
    BY <1>1, <2>1 DEF SerialOK, DelIsCleared
<1>8. QED
  BY <1>3, <1>4, <1>5, <1>6, <1>7 DEF SerialOK

-----------------------------------------------------------------------------
(* Steps of the FAM.                                                       *)

HostsStay ==
  /\ todo' = todo
  /\ \A q \in Hosts : /\ pc'[q] = pc[q] /\ doing'[q] = doing[q]
                     /\ copy'[q] = copy[q] /\ next'[q] = next[q]

(* A step of the FAM that leaves the slot as it is. *)
LEMMA FamKeeps ==
  ASSUME SerialOK, HostsStay, slot' = slot, FamOK',
         \/ pc'[Fam] \in {"idle", "off"} /\ doing'[Fam] = "none"
         \/ pc[Fam] \notin {"idle", "off"} \/ doing[Fam] # "none" \/ slot.is_valid,
         pc'[Fam] # "off" => /\ pc[Fam] \notin {"off", "clear_del"}
                             /\ doing'[Fam] = "remove" => doing[Fam] = "remove" \/ slot.is_del
  PROVE  SerialOK'
<1>1. ASSUME NEW q \in Hosts PROVE DraftOK(q)' /\ JoinOK(q)'
  <2>1. /\ pc'[q] = pc[q] /\ doing'[q] = doing[q] /\ copy'[q] = copy[q]
        /\ next'[q] = next[q] /\ DraftOK(q) /\ JoinOK(q)
    BY DEF HostsStay, SerialOK
  <2>2. DraftOK(q)'
    BY <2>1 DEF DraftOK, Whole, Revocable, Grantable, AccessOf, Asked, Proposable
  <2>3. JoinOK(q)'
    BY <2>1 DEF JoinOK, Repeating, AccessOf, Asked, JoinEntry
  <2>4. QED
    BY <2>2, <2>3
<1>2. QuietOK' /\ PlannedOK'
  BY DEF SerialOK, HostsStay, QuietOK, PlannedOK, Composing, Preparing
<1>3. ValidIsWhole'
  BY DEF SerialOK, ValidIsWhole, Whole, Revocable, Grantable, AccessOf
<1>4. DelIsCleared'
  BY DEF SerialOK, HostsStay, DelIsCleared
<1>5. QED
  BY <1>1, <1>2, <1>3, <1>4 DEF SerialOK

(* FAM steps do not concern the hosts. *)
LEMMA FamAlone ==
  ASSUME PlacesOK, SlotOK, FamStep \/ InLock(Fam) \/ FamDie \/ FamCut
  PROVE  HostsStay
<1>1. /\ pc \in [Procs -> HostLabels \cup FamLabels] /\ next \in [Procs -> 1..8]
      /\ copy \in [Procs -> ProposedEntry] /\ \A q \in Hosts : q \in Procs /\ q # Fam
      /\ doing \in [Procs -> {"none", "create", "join", "extend", "remove", "move"}]
  BY DEF PlacesOK, SlotOK, Hosts
<1> USE <1>1 DEF HostsStay, Goto
<1>2. CASE FamPoll \/ FamVote
  BY <1>2 DEF FamPoll, FamVote, Rewind
<1>3. CASE FamRead
  BY <1>3 DEF FamRead, Rewind, Advance
<1>4. CASE FamMove \/ FamRemove
  BY <1>4 DEF FamMove, FamRemove
<1>5. CASE FamClearValid \/ FamClearDel
  BY <1>5 DEF FamClearValid, FamClearDel, procVars
<1>6. CASE FamTally \/ FamStart
  BY <1>6 DEF FamTally, FamStart, lockVars, procVars
<1>7. CASE InLock(Fam)
  BY <1>7
  DEF InLock, LockStep, OverrideCheck, OverrideWho, OverrideIdle, LockCheck, LockSet,
      LockWho, UnlockCheck, UnlockIdle, UnlockWho, procVars
<1>8. CASE FamDie \/ FamCut
  BY <1>8 DEF FamDie, FamCut, Vanish, Rewind
<1>9. QED
  BY <1>2, <1>3, <1>4, <1>5, <1>6, <1>7, <1>8 DEF FamStep

(* The FAM copies one field after the other. *)
LEMMA SerialReads ==
  ASSUME PlacesOK, SlotOK, SerialOK, FamRead
  PROVE  SerialOK'
<1> DEFINE n == next[Fam]
           f == ReadOrder[n]
<1>1. /\ Fam \in Procs /\ HostsStay
      /\ pc \in [Procs -> HostLabels \cup FamLabels] /\ next \in [Procs -> 1..8]
      /\ copy \in [Procs -> ProposedEntry]
  BY FamAlone, DriverAssumption DEF PlacesOK, SlotOK, FamStep
<1>2. /\ pc[Fam] = "read" /\ n \in 1..5 /\ f \in Fields /\ slot' = slot /\ doing' = doing
      /\ slot.is_valid /\ doing[Fam] = IF slot.is_del THEN "remove" ELSE "move"
      /\ \A k \in 1..5 : k < n => copy[Fam][ReadOrder[k]] = slot[ReadOrder[k]]
  BY <1>1, OrderFacts DEF FamRead, Goto, headVars, SlotOK, Room, SerialOK, FamOK, Taking
<1>3. copy'[Fam] = [copy[Fam] EXCEPT ![f] = slot[f]] /\ copy[Fam] \in ProposedEntry
  BY <1>1 DEF FamRead
<1>4. \A g \in Fields : copy'[Fam][g] = IF g = f THEN slot[f] ELSE copy[Fam][g]
  <2>1. copy[Fam] \in ProposedEntry /\ f \in Fields
    BY <1>2, <1>3
  <2> HIDE DEF f
  <2>2. QED
    BY <1>3, <2>1 DEF ProposedEntry, Fields
<1>5. \A k \in 1..5 : k < n + 1 => copy'[Fam][ReadOrder[k]] = slot[ReadOrder[k]]
  BY <1>2, <1>4, OrderFacts
<1>6. \/ pc'[Fam] = "read" /\ next'[Fam] = n + 1
      \/ pc'[Fam] = doing[Fam] /\ n = 5
  BY <1>1, <1>2, OrderFacts DEF FamRead, Goto, Advance
<1>7. FamOK'
  <2>1. CASE pc'[Fam] = "read" /\ next'[Fam] = n + 1
    BY <1>2, <1>5, <2>1 DEF FamOK, Taking
  <2>2. CASE pc'[Fam] = doing[Fam] /\ n = 5
    BY <1>2, <1>5, <2>2 DEF FamOK, Taking
  <2>3. QED
    BY <1>6, <2>1, <2>2
<1>8. QED
  BY <1>1, <1>2, <1>6, <1>7, FamKeeps

(* Clearing is_valid and is_del: no host writes a new proposal yet, and the *)
(* one that still copies the slot onto itself finds the rest as it was.      *)
LEMMA SerialClears ==
  ASSUME PlacesOK, SlotOK, SerialOK, FamClearValid \/ FamClearDel
  PROVE  SerialOK'
<1> DEFINE f == IF pc[Fam] = "clear" THEN "is_valid" ELSE "is_del"
<1>1. /\ Fam \in Procs /\ HostsStay
      /\ pc \in [Procs -> HostLabels \cup FamLabels]
      /\ copy \in [Procs -> ProposedEntry] /\ slot \in ProposedEntry
  BY FamAlone, DriverAssumption DEF PlacesOK, SlotOK, FamStep
<1>2. /\ pc[Fam] \in {"clear", "clear_del"} /\ doing' = doing
      /\ pc'[Fam] = IF pc[Fam] = "clear" THEN "clear_del" ELSE "un_check"
      /\ slot' = [slot EXCEPT ![f] = FALSE]
  BY <1>1 DEF FamClearValid, FamClearDel, Goto, SetSlot, procVars
<1>3. doing[Fam] \in {"remove", "move"}
  BY <1>2 DEF PlacesOK
<1>4. f \in {"is_valid", "is_del"} /\ f \in Fields
  BY DEF Fields
<1>5. \A g \in Fields : slot'[g] = IF g = f THEN FALSE ELSE slot[g]
  <2> HIDE DEF f
  <2>1. QED
    BY <1>1, <1>2, <1>4 DEF ProposedEntry, Fields
<1>6. \A g \in {"host", "used", "range", "initiator", "permission"} : slot'[g] = slot[g]
  BY <1>4, <1>5 DEF Fields
<1>7. IF pc[Fam] = "clear" THEN ~slot'.is_valid /\ slot'.is_del = slot.is_del
      ELSE ~slot'.is_del /\ slot'.is_valid = slot.is_valid
  BY <1>5 DEF Fields
<1>8. slot.is_del \in BOOLEAN /\ slot'.is_del \in BOOLEAN
  BY <1>1, <1>5 DEF ProposedEntry, Fields
<1>9. \A q \in Hosts : ~Composing(q)
  BY <1>2, <1>3 DEF SerialOK, QuietOK
<1>10. ASSUME NEW q \in Hosts PROVE DraftOK(q)' /\ JoinOK(q)' /\ ~Composing(q)'
  <2>1. /\ pc'[q] = pc[q] /\ copy'[q] = copy[q] /\ next'[q] = next[q]
        /\ JoinOK(q) /\ ~Composing(q)
    BY <1>1, <1>9 DEF HostsStay, SerialOK
  <2>2. DraftOK(q)' /\ ~Composing(q)'
    BY <2>1 DEF Composing, Preparing, DraftOK
  <2>3. pc[q] = "join" =>
          \A k \in 1..5 : k < next[q] => slot'[JoinOrder[k]] = JoinEntry(q)[JoinOrder[k]]
    BY <1>6, <2>1 DEF JoinOK, JoinOrder
  <2>4. Repeating(q) => /\ slot'.used = 1 /\ AccessOf(slot)' = Asked(q)
                        /\ ~slot.is_del /\ ~slot'.is_del /\ doing[Fam] # "remove"
    BY <1>2, <1>6, <1>7, <2>1 DEF JoinOK, AccessOf
  <2>5. pc[q] = "store" =>
          IF CopyOrder[next[q]] = "is_valid" THEN copy[q].is_valid
          ELSE copy[q][CopyOrder[next[q]]] = slot'[CopyOrder[next[q]]]
    <3>1. SUFFICES ASSUME pc[q] = "store", CopyOrder[next[q]] # "is_valid"
                   PROVE  slot'[CopyOrder[next[q]]] = slot[CopyOrder[next[q]]]
      BY <2>1 DEF JoinOK
    <3>2. CopyOrder[next[q]] \in Fields
      <4>1. q \in Procs /\ q # Fam
        BY DEF Hosts
      <4>2. next[q] \in 1..7
        BY <3>1, <4>1 DEF SlotOK, Room
      <4>3. QED
        BY <4>2, OrderFacts
    <3>3. slot'.is_del = slot.is_del
      BY <1>7, <1>8, <2>4, <3>1 DEF Repeating
    <3>4. QED
      BY <1>6, <3>1, <3>2, <3>3 DEF Fields
  <2>6. JoinOK(q)'
    BY <1>2, <2>1, <2>3, <2>4, <2>5 DEF JoinOK, Repeating, JoinEntry, Asked
  <2>7. QED
    BY <2>2, <2>6
<1>11. FamOK'
  BY <1>2, <1>3, <1>7 DEF SerialOK, FamOK, Taking
<1>12. ValidIsWhole'
  <2>1. CASE pc[Fam] = "clear"
    BY <1>7, <2>1 DEF ValidIsWhole
  <2>2. ASSUME pc[Fam] = "clear_del", slot'.is_valid PROVE Whole(slot)'
    <3>1. slot.is_valid /\ ~slot.is_del /\ Whole(slot)
      BY <1>3, <1>7, <2>2 DEF SerialOK, FamOK, Taking, ValidIsWhole
    <3>2. QED
      BY <1>6, <1>7, <2>2, <3>1 DEF Whole, Grantable, AccessOf, Proposable
  <2>3. QED
    BY <1>2, <2>1, <2>2 DEF ValidIsWhole
<1>13. DelIsCleared' /\ QuietOK' /\ PlannedOK'
  BY <1>1, <1>2, <1>7, <1>10 DEF DelIsCleared, QuietOK, SerialOK, PlannedOK, HostsStay
<1>14. QED
  BY <1>10, <1>11, <1>12, <1>13 DEF SerialOK

(* The other steps of the FAM leave the slot alone. *)
LEMMA SerialFam ==
  ASSUME PlacesOK, SlotOK, CountsOK, SerialOK, FamStep \/ InLock(Fam)
  PROVE  SerialOK'
<1>1. /\ Fam \in Procs /\ HostsStay
      /\ pc \in [Procs -> HostLabels \cup FamLabels]
      /\ doing \in [Procs -> {"none", "create", "join", "extend", "remove", "move"}]
  BY FamAlone, DriverAssumption DEF PlacesOK, SlotOK
<1> USE <1>1 DEF Goto
<1>2. CASE FamPoll
  <2>1. /\ pc'[Fam] = "lk_check" /\ pc[Fam] = "idle" /\ slot' = slot /\ slot.is_valid
        /\ doing'[Fam] = IF slot.is_del THEN "remove" ELSE "move"
    BY <1>2 DEF FamPoll, headVars
  <2>2. FamOK'
    BY <2>1 DEF FamOK, Taking
  <2>3. QED
    BY <2>1, <2>2, FamKeeps
<1>3. CASE FamVote
  <2>1. /\ pc'[Fam] = "read" /\ pc[Fam] = "cs" /\ slot' = slot /\ doing' = doing
        /\ next'[Fam] = 1
    BY <1>3 DEF FamVote, Rewind, SlotOK
  <2>2. FamOK'
    BY <2>1 DEF SerialOK, FamOK, Taking
  <2>3. QED
    BY <2>1, <2>2, FamKeeps
<1>4. CASE FamMove \/ FamRemove
  <2>1. /\ pc'[Fam] \in {"dead", "clear"} /\ pc[Fam] \in {"move", "remove"}
        /\ slot' = slot /\ doing' = doing
    BY <1>4 DEF FamMove, FamRemove
  <2>2. FamOK'
    BY <2>1 DEF SerialOK, FamOK, Taking
  <2>3. QED
    BY <2>1, <2>2, FamKeeps
<1>5. CASE FamTally
  <2>1. /\ pc' = pc /\ pc[Fam] = "idle" /\ slot' = slot /\ doing[Fam] # "none"
        /\ doing'[Fam] = "none"
    BY <1>5 DEF FamTally, lockVars
  <2>2. FamOK'
    BY <2>1 DEF SerialOK, FamOK, Taking
  <2>3. QED
    BY <2>1, <2>2, FamKeeps
<1>6. CASE FamStart
  <2>1. /\ pc'[Fam] = "idle" /\ pc[Fam] = "cut" /\ slot' = slot /\ doing' = doing
        /\ doing[Fam] = "none"
    BY <1>6 DEF FamStart, procVars, CountsOK
  <2>2. FamOK'
    BY <2>1 DEF SerialOK, FamOK, Taking
  <2>3. QED
    BY <2>1, <2>2, FamKeeps
<1>7. CASE InLock(Fam)
  <2>1. /\ slot' = slot /\ doing' = doing
        /\ \/ pc[Fam] \in {"lk_check", "lk_set", "lk_who"} /\ pc'[Fam] \in {"lk_set", "lk_who", "cs"}
           \/ /\ pc[Fam] \in {"un_check", "un_idle", "un_who"}
              /\ pc'[Fam] \in {"un_idle", "un_who", "idle"}
    BY <1>7
    DEF InLock, LockStep, OverrideCheck, OverrideWho, OverrideIdle, LockCheck, LockSet,
        LockWho, UnlockCheck, UnlockIdle, UnlockWho, headVars, procVars, SerialOK, FamOK
  <2>2. FamOK' /\ doing[Fam] # "none"
    BY <2>1 DEF SerialOK, FamOK, Taking, PlacesOK, Labels
  <2>3. QED
    BY <2>1, <2>2, FamKeeps
<1>8. QED
  BY <1>2, <1>3, <1>4, <1>5, <1>6, <1>7, SerialReads, SerialClears DEF FamStep

(* The FAM is killed: it leaves the slot half cleared, and no FAM looks at   *)
(* it before the head is wiped, which waits until no host is in a call.      *)
LEMMA SerialFamDies ==
  ASSUME Serial, PlacesOK, SlotOK, CountsOK, SerialOK, FamDie \/ FamCut
  PROVE  SerialOK'
<1>1. /\ Fam \in Procs /\ HostsStay
      /\ pc \in [Procs -> HostLabels \cup FamLabels]
      /\ doing \in [Procs -> {"none", "create", "join", "extend", "remove", "move"}]
  BY FamAlone, DriverAssumption DEF PlacesOK, SlotOK
<1>2. CASE FamDie
  <2>1. pc'[Fam] = "off" /\ slot' = slot /\ doing'[Fam] = "none"
    BY <1>1, <1>2 DEF FamDie, Vanish, headVars
  <2>2. FamOK'
    BY <2>1 DEF FamOK, Taking
  <2>3. QED
    BY <1>1, <2>1, <2>2, FamKeeps
<1>3. CASE FamCut
  <2>1. /\ pc'[Fam] = "cut" /\ slot' = Blank /\ doing'[Fam] = "none"
        /\ \A q \in Hosts : pc[q] \in AtRest /\ pc'[q] \in AtRest
    BY <1>1, <1>3 DEF FamCut, Goto, HostsStay, CountsOK
  <2>2. FamOK' /\ ValidIsWhole' /\ DelIsCleared' /\ PlannedOK'
    BY <1>1, <2>1
    DEF FamOK, Taking, ValidIsWhole, DelIsCleared, PlannedOK, SerialOK, HostsStay, Blank
  <2>3. QuietOK' /\ \A q \in Hosts : DraftOK(q)' /\ JoinOK(q)'
    BY <2>1 DEF QuietOK, DraftOK, JoinOK, Composing, Preparing, Repeating, AtRest
  <2>4. QED
    BY <2>2, <2>3 DEF SerialOK
<1>4. QED
  BY <1>2, <1>3

LEMMA SerialStutters == SerialOK /\ UNCHANGED vars => SerialOK'
<1> SUFFICES ASSUME SerialOK, UNCHANGED vars PROVE SerialOK'
  OBVIOUS
<1>1. UNCHANGED <<pc, slot, copy, next, doing, todo>>
  BY DEF vars, lockVars, headVars, procVars
<1>2. QuietOK' /\ PlannedOK' /\ DelIsCleared'
  BY <1>1 DEF SerialOK, QuietOK, PlannedOK, DelIsCleared, Composing, Preparing
<1>3. FamOK' /\ ValidIsWhole'
  BY <1>1
  DEF SerialOK, FamOK, Taking, AtRest, ValidIsWhole, Whole, Revocable, Grantable,
      AccessOf, Proposable, Asked
<1>4. \A q \in Hosts : DraftOK(q)' /\ JoinOK(q)'
  BY <1>1
  DEF SerialOK, DraftOK, JoinOK, Repeating, Whole, Revocable, Grantable, AccessOf,
      Proposable, Asked, JoinEntry
<1>5. QED
  BY <1>2, <1>3, <1>4 DEF SerialOK

LEMMA SerialStep ==
  ASSUME OneAtATime, PlacesOK, SlotOK, CountsOK, SoleOK, SerialOK, [Next]_vars
  PROVE  SerialOK'
<1>1. Serial
  BY DEF OneAtATime
<1>2. ASSUME NEW p \in Hosts, HostStep(p) \/ InLock(p) PROVE SerialOK'
  BY <1>2, SerialMoves, SerialWrites, SerialJoins, SerialCopies
<1>3. ASSUME NEW p \in Procs, InLock(p) PROVE SerialOK'
  BY <1>2, <1>3, SerialFam DEF Hosts
<1>4. QED
  BY <1>1, <1>2, <1>3, SerialStarts, SerialDies, SerialFam, SerialFamDies, SerialStutters
  DEF Next, Deaths

LEMMA SerialInit == InitFresh \/ InitFounded => SerialOK
<1> SUFFICES ASSUME InitFresh \/ InitFounded PROVE SerialOK
  OBVIOUS
<1>1. /\ Fam \in Procs /\ \A q \in Hosts : q \in Procs /\ q # Fam
  BY DriverAssumption DEF Hosts
<1>2. /\ pc = [q \in Procs |-> IF q = Fam THEN "idle" ELSE "off"]
      /\ doing = [q \in Procs |-> "none"] /\ todo = Script
  BY DEF InitFresh, InitFounded, ProcInit
<1>s. ~slot.is_valid /\ ~slot.is_del
  <2>1. CASE InitFresh
    BY <2>1 DEF InitFresh, Blank
  <2>2. CASE InitFounded
    <3>1. slot = [Blank EXCEPT !.host = Founder.host, !.used = 1,
                    !.range = Founder.range, !.permission = Founder.permission]
      BY <2>2 DEF InitFounded
    <3>2. QED
      BY <3>1 DEF Blank
  <2>3. QED
    BY <2>1, <2>2
<1>3. PlannedOK
  <2>1. ASSUME NEW q \in Hosts PROVE Script[q] \in Seq(Planned(q))
    <3>1. Script[q] \in Seq(Operation)
      BY DriverAssumption
    <3>2. \A i \in 1..Len(Script[q]) : Script[q][i] \in Planned(q)
      BY <3>1 DEF Planned
    <3>3. QED
      BY <3>1, <3>2
  <2>2. QED
    BY <1>2, <2>1 DEF PlannedOK
<1>4. QuietOK /\ FamOK /\ ValidIsWhole /\ DelIsCleared
  BY <1>1, <1>2, <1>s
  DEF QuietOK, FamOK, Taking, ValidIsWhole, DelIsCleared, Composing, Preparing
<1>5. \A q \in Hosts : DraftOK(q) /\ JoinOK(q)
  BY <1>1, <1>2 DEF DraftOK, JoinOK, Repeating
<1>6. QED
  BY <1>3, <1>4, <1>5 DEF SerialOK

(* The the invariants before this one are needed for. *)
LEMMA SerialInvariant ==
  ASSUME OneAtATime
  PROVE  SpecFresh \/ SpecFounded =>
           [](PlacesOK /\ ScriptsOK /\ SlotOK /\ CountsOK /\ TableOK /\ SoleOK /\ SerialOK)
<1>1. Serial
  BY DEF OneAtATime
<1>2. InitFresh \/ InitFounded => SoleOK
  BY DriverAssumption DEF InitFresh, InitFounded, ProcInit, SoleOK, AtRest, Hosts
<1>3. /\ PlacesOK /\ ScriptsOK /\ SlotOK /\ [Next]_vars => SlotOK'
      /\ PlacesOK /\ CountsOK /\ [Next]_vars => CountsOK'
      /\ PlacesOK /\ SlotOK /\ TableOK /\ [Next]_vars => TableOK'
      /\ PlacesOK /\ SoleOK /\ [Next]_vars => SoleOK'
      /\ PlacesOK /\ SlotOK /\ CountsOK /\ SoleOK /\ SerialOK /\ [Next]_vars => SerialOK'
  BY <1>1, SlotStep, CountsStep, TableStep, SoleStep, SerialStep
<1>4. QED
  BY <1>2, <1>3, PlacesInvariant, SlotInit, CountsInit, TableInit, SerialInit, PTL
  DEF SpecFresh, SpecFounded

(* With requests one at a time, whoever is killed and whenever the FAM is   *)
(* started again, a proposal starts from a slot without is_del.              *)
THEOREM SerialCalmIsClean ==
  ASSUME OneAtATime PROVE SpecFresh \/ SpecFounded => []CalmIsClean
<1>1. SerialOK => CalmIsClean
  BY DEF SerialOK, DelIsCleared, CalmIsClean, Calm, AtRest
<1>2. QED
  BY <1>1, SerialInvariant, PTL

-----------------------------------------------------------------------------
(* A lock that carries an id has its owner behind it.                      *)

(* A creator on its way into the lock finds nobody's id and leaves it so.   *)
EntrantOK == \A p \in Hosts :
  pc[p] \in {"ov_idle", "lk_check", "lk_set", "lk_who"} => whoLocked = NO_HOST

LEMMA EntrantStep ==
  ASSUME Serial, PlacesOK, SlotOK, SoleOK, SerialOK, EntrantOK, [Next]_vars
  PROVE  EntrantOK'
<1> USE DEF EntrantOK, Goto
<1>a. Fam \in Procs /\ \A p \in Hosts : p \in Procs /\ p # Fam
  BY DriverAssumption DEF Hosts
<1>b. pc \in [Procs -> HostLabels \cup FamLabels]
  BY DEF PlacesOK
<1>1. ASSUME NEW p \in Hosts, Environment(p) \/ HostStep(p) PROVE EntrantOK'
  <2>1. /\ \A q \in Hosts : q # p => pc'[q] = pc[q]
        /\ pc'[p] \notin {"ov_idle", "lk_check", "lk_set", "lk_who"}
        /\ whoLocked' = whoLocked
    BY <1>1, <1>a, <1>b
    DEF Environment, HostStep, Launch, StartOperation, Attach, ResetCount, ChooseCreate,
        ChooseJoin, EnterCreateHead, SetParticipantCount, Enrol, WriteField, JoinField,
        LoadField, StoreField, WaitForVote, Return, lockWords
  <2>2. QED
    BY <2>1
<1>2. ASSUME NEW p \in Hosts, InLock(p) PROVE EntrantOK'
  <2>1. \A q \in Hosts : q # p => pc'[q] \in AtRest
    BY <1>2, <1>a, HostAlone DEF Alone
  <2>2. pc'[p] \in {"ov_idle", "lk_check", "lk_set", "lk_who"} => whoLocked' = NO_HOST
    BY <1>2, <1>a, <1>b
    DEF InLock, LockStep, OverrideCheck, OverrideWho, OverrideIdle, LockCheck, LockSet,
        LockWho, UnlockCheck, UnlockIdle, UnlockWho, lockWords
  <2>3. QED
    BY <2>1, <2>2 DEF AtRest
<1>3. ASSUME InLock(Fam) PROVE EntrantOK'
  <2>1. /\ pc[Fam] \notin {"idle", "off"}
        /\ \A q \in Hosts : pc'[q] = pc[q]
    BY <1>3, <1>a, <1>b
    DEF InLock, LockStep, OverrideCheck, OverrideWho, OverrideIdle, LockCheck, LockSet,
        LockWho, UnlockCheck, UnlockIdle, UnlockWho
  <2>2. QED
    BY <2>1 DEF SerialOK, QuietOK, Composing, Preparing
<1>4. ASSUME FamStep PROVE EntrantOK'
  <2>1. whoLocked' = whoLocked /\ \A q \in Hosts : pc'[q] = pc[q]
    BY <1>4, <1>a, <1>b
    DEF FamStep, FamPoll, FamVote, FamRead, FamMove, FamRemove, FamClearValid, FamClearDel,
        FamTally, FamStart, lockVars, lockWords
  <2>2. QED
    BY <2>1
<1>5. ASSUME Deaths PROVE EntrantOK'
  <2>1. CASE (\E p \in Hosts : Die(p)) \/ FamDie
    BY <1>a, <1>b, <2>1 DEF Die, FamDie, Vanish, lockWords
  <2>2. CASE FamCut
    BY <1>a, <1>b, <2>2 DEF FamCut, AtRest
  <2>3. QED
    BY <1>5, <2>1, <2>2 DEF Deaths
<1>6. CASE UNCHANGED vars
  BY <1>6 DEF vars, lockVars
<1>7. QED
  BY <1>1, <1>2, <1>3, <1>4, <1>5, <1>6 DEF Next, Hosts

(* A step could break it by storing WRITE or an id, or by letting the owner *)
(* leave without an unlock().  Whoever dies with WRITE stored and its id not *)
(* yet there leaves nobody's id behind.                                      *)
LEMMA OwnerStep ==
  ASSUME PlacesOK, EntrantOK, LockNamesItsOwner, [Next]_vars
  PROVE  LockNamesItsOwner'
<1> USE DEF PlacesOK, LockNamesItsOwner, HasLock, Hosts, Goto, IDLE, WRITE, NO_HOST
<1>a. Fam \in Procs
  BY DriverAssumption
<1>1. ASSUME NEW p \in Hosts, Environment(p) PROVE LockNamesItsOwner'
  BY <1>a, <1>1 DEF Environment, Launch, StartOperation, procVars, lockWords
<1>2. ASSUME NEW p \in Hosts, HostStep(p) PROVE LockNamesItsOwner'
  <2>1. CASE Attach(p) \/ ResetCount(p) \/ ChooseCreate(p)
    BY <1>a, <2>1 DEF Attach, ResetCount, ChooseCreate, procVars, lockWords
  <2>2. CASE ChooseJoin(p) \/ EnterCreateHead(p)
    BY <1>a, <2>2 DEF ChooseJoin, EnterCreateHead, lockWords
  <2>3. CASE SetParticipantCount(p) \/ Enrol(p)
    BY <1>a, <2>3 DEF SetParticipantCount, Enrol, procVars, lockWords
  <2>4. CASE WriteField(p)
    BY <1>a, <2>4 DEF WriteField, lockWords
  <2>5. CASE JoinField(p) \/ LoadField(p) \/ StoreField(p)
    BY <1>a, <2>5 DEF JoinField, LoadField, StoreField, lockWords
  <2>6. CASE WaitForVote(p) \/ Return(p)
    BY <1>a, <2>6 DEF WaitForVote, Return, lockWords
  <2>7. QED
    BY <1>2, <2>1, <2>2, <2>3, <2>4, <2>5, <2>6 DEF HostStep
<1>3. ASSUME FamStep PROVE LockNamesItsOwner'
  <2>1. CASE FamPoll \/ FamVote
    BY <1>a, <2>1 DEF FamPoll, FamVote, lockWords
  <2>2. CASE FamRead
    BY <1>a, <2>2 DEF FamRead, lockWords
  <2>3. CASE FamMove \/ FamRemove
    <3>1. /\ pc' = [pc EXCEPT ![Fam] = "dead"] \/ pc' = [pc EXCEPT ![Fam] = "clear"]
          /\ pc[Fam] \in {"move", "remove"}
          /\ doing' = doing /\ UNCHANGED lockWords
      BY <2>3 DEF FamMove, FamRemove
    <3>2. QED
      BY <1>a, <3>1 DEF lockWords
  <2>4. CASE FamClearValid \/ FamClearDel
    BY <1>a, <2>4 DEF FamClearValid, FamClearDel, procVars, lockWords
  <2>5. CASE FamTally \/ FamStart
    BY <1>a, <2>5 DEF FamTally, FamStart, lockVars, procVars
  <2>6. QED
    BY <1>3, <2>1, <2>2, <2>3, <2>4, <2>5 DEF FamStep
<1>4. ASSUME NEW p \in Procs, InLock(p) PROVE LockNamesItsOwner'
  <2>1. doing' = doing
    BY <1>4 DEF InLock, procVars
  <2>2. CASE OverrideCheck(p) \/ OverrideWho(p) \/ OverrideIdle(p)
    BY <1>a, <2>1, <2>2 DEF OverrideCheck, OverrideWho, OverrideIdle, lockWords
  <2>3. CASE LockCheck(p) \/ LockSet(p)
    BY <1>a, <2>1, <2>3 DEF LockCheck, LockSet, lockWords
  <2>4. CASE LockWho(p)
    BY <1>a, <2>1, <2>4 DEF LockWho, lockWords
  <2>5. CASE UnlockCheck(p) \/ UnlockIdle(p) \/ UnlockWho(p)
    BY <1>a, <2>1, <2>5 DEF UnlockCheck, UnlockIdle, UnlockWho, lockWords
  <2>6. QED
    BY <1>4, <2>2, <2>3, <2>4, <2>5 DEF InLock, LockStep
<1>5. ASSUME Deaths PROVE LockNamesItsOwner'
  BY <1>a, <1>5 DEF Deaths, Die, FamDie, FamCut, Vanish, lockWords, EntrantOK
<1>6. CASE UNCHANGED vars
  BY <1>6 DEF vars, lockVars, procVars
<1>7. QED
  BY <1>1, <1>2, <1>3, <1>4, <1>5, <1>6 DEF Next

(* With requests one at a time, whoever is killed and whenever the FAM is   *)
(* started again, a lock word that no create_head() can reset carries the    *)
(* id of a process that has the lock, or of a host killed with it.           *)
THEOREM SerialLockNamesItsOwner ==
  ASSUME OneAtATime PROVE SpecFresh \/ SpecFounded => []LockNamesItsOwner
<1>1. InitFresh \/ InitFounded => EntrantOK /\ LockNamesItsOwner
  BY DriverAssumption
  DEF InitFresh, InitFounded, ProcInit, EntrantOK, LockNamesItsOwner, Hosts, IDLE, WRITE
<1>2. (PlacesOK /\ SlotOK /\ SoleOK /\ SerialOK) /\ EntrantOK /\ [Next]_vars => EntrantOK'
  BY EntrantStep DEF OneAtATime
<1>3. PlacesOK /\ EntrantOK /\ LockNamesItsOwner /\ [Next]_vars => LockNamesItsOwner'
  BY OwnerStep
<1>4. QED
  BY <1>1, <1>2, <1>3, SerialInvariant, PTL DEF SpecFresh, SpecFounded

-----------------------------------------------------------------------------
(* What the FAM does to the table.                                         *)

(* What the FAM has copied when it changes the table is what is in the slot. *)
LEMMA FamTakesWhole ==
  ASSUME PlacesOK, SlotOK, SerialOK, pc[Fam] \in {"move", "remove"}
  PROVE  /\ IsRequest(copy[Fam]) /\ slot.is_valid /\ AccessOf(copy[Fam]) = AccessOf(slot)
         /\ pc[Fam] = "move" => Grantable(copy[Fam])
         /\ pc[Fam] = "remove" => Revocable(copy[Fam])
<1>1. copy[Fam] \in ProposedEntry
  BY DriverAssumption DEF SlotOK
<1>2. IsRequest(copy[Fam])
  BY <1>1 DEF ProposedEntry, IsRequest
<1>3. /\ slot.is_valid /\ Whole(slot)
      /\ pc[Fam] = "move" <=> ~slot.is_del
      /\ \A k \in 1..5 : copy[Fam][ReadOrder[k]] = slot[ReadOrder[k]]
  BY DEF SerialOK, FamOK, Taking, ValidIsWhole
<1>4. /\ copy[Fam].host = slot.host /\ copy[Fam].used = slot.used
      /\ copy[Fam].range = slot.range /\ copy[Fam].initiator = slot.initiator
      /\ copy[Fam].permission = slot.permission
  BY <1>3 DEF ReadOrder
<1>5. QED
  BY <1>2, <1>3, <1>4 DEF Whole, Grantable, Revocable, AccessOf

(* Hosts ask for ranges. *)
LEMMA ProposableHasRange ==
  ASSUME NEW e, AccessOf(e) \in Proposable
  PROVE  e.range \in Ranges /\ e.range # ZeroRange
<1>1. CASE \E p \in Hosts : AccessOf(e) = Asked(p)
  BY <1>1, DriverAssumption, TableAssumption DEF AccessOf, Asked
<1>2. CASE \E p \in Hosts : \E i \in DOMAIN Script[p] :
             /\ Script[p][i].op = "extend"
             /\ AccessOf(e) = <<IdOf[p], Script[p][i].range, Script[p][i].permission>>
  <2>1. PICK p \in Hosts : \E i \in DOMAIN Script[p] :
           /\ Script[p][i].op = "extend"
           /\ AccessOf(e) = <<IdOf[p], Script[p][i].range, Script[p][i].permission>>
    BY <1>2
  <2>2. PICK i \in DOMAIN Script[p] :
           /\ Script[p][i].op = "extend"
           /\ AccessOf(e) = <<IdOf[p], Script[p][i].range, Script[p][i].permission>>
    BY <2>1
  <2>3. Script[p][i] \in Operation
    BY DriverAssumption
  <2>4. Script[p][i].range \in Ranges
    BY <2>2, <2>3 DEF Operation
  <2>5. QED
    BY <2>2, <2>4, TableAssumption DEF AccessOf
<1>3. QED
  BY <1>1, <1>2 DEF Proposable

(* A removal takes away what some script names. *)
LEMMA RevocableIsRemovable ==
  ASSUME NEW e, Revocable(e)
  PROVE  <<e.host, e.range>> \in Removable
<1>1. PICK p \in Hosts : \E i \in DOMAIN Script[p] :
         /\ Script[p][i].op = "remove"
         /\ e.host = Script[p][i].host /\ e.range = Script[p][i].range
  BY DEF Revocable
<1>2. <<e.host, e.range>> \in
        {<<Script[p][j].host, Script[p][j].range>> :
           j \in {k \in DOMAIN Script[p] : Script[p][k].op = "remove"}}
  BY <1>1
<1>3. QED
  BY <1>2 DEF Removable

(* Nobody else writes the table. *)
LEMMA TableIsFams ==
  ASSUME [Next]_vars, ~FamMove, ~FamRemove, ~FamCut, ~FamStart
  PROVE  table' = table
BY Zenon
DEF Next, Environment, HostStep, FamStep, InLock, Deaths, Launch, StartOperation, Attach,
    ResetCount, ChooseCreate, ChooseJoin, EnterCreateHead, SetParticipantCount, Enrol,
    WriteField, JoinField, LoadField, StoreField, WaitForVote, Return, FamPoll, FamVote,
    FamRead, FamClearValid, FamClearDel, FamTally, Die, FamDie, Vanish, vars, headVars

LEMMA EmptyTable == Access(<<>>) = {}
<1>1. \A a : a \notin Access(<<>>)
  BY AccessMember
<1>2. QED
  BY <1>1

(* An addition gives what was asked for at most, a full domain included. *)
LEMMA AdditionAdds ==
  ASSUME NEW t \in Seq(Entry), KeysAreDistinct(t), NEW d \in Nat,
         NEW e, IsRequest(e), e.range # ZeroRange, e.used = 1
  PROVE  Access(Populate(t, d, e)) \subseteq
           Access(t) \cup {<<e.host, e.range, e.permission>>}
<1>1. Access(Populate(t, d, e)) =
        IF HasRoom(t, e) THEN Access(t) \cup {<<e.host, e.range, e.permission>>}
        ELSE {a \in Access(t) : ~(a[2] = e.range /\ a[3] = e.permission)}
  BY AdditionIsExact
<1>2. QED
  BY <1>1

LEMMA MoveAdds ==
  ASSUME PlacesOK, SlotOK, TableOK, SerialOK, FamMove
  PROVE  Access(table') \subseteq Access(table) \cup {AccessOf(slot)}
         /\ AccessOf(slot) \in Proposable
<1>1. pc[Fam] = "move"
  BY DEF FamMove, Goto
<1>2. /\ IsRequest(copy[Fam]) /\ copy[Fam].used = 1
      /\ AccessOf(copy[Fam]) = AccessOf(slot) /\ AccessOf(slot) \in Proposable
  BY <1>1, FamTakesWhole DEF Grantable
<1>3. copy[Fam].range # ZeroRange
  BY <1>2, ProposableHasRange
<1>4. /\ table \in Seq(Entry) /\ KeysAreDistinct(table) /\ domains \in Nat
  BY DEF TableOK, CountersAgree
<1>5. table' = table \/ table' = Populate(table, domains, copy[Fam])
  BY DEF FamMove
<1>6. CASE table' = Populate(table, domains, copy[Fam])
  <2>1. Access(Populate(table, domains, copy[Fam])) \subseteq
          Access(table) \cup {AccessOf(copy[Fam])}
    BY <1>2, <1>3, <1>4, AdditionAdds DEF AccessOf
  <2>2. QED
    BY <1>2, <1>6, <2>1
<1>7. QED
  BY <1>2, <1>5, <1>6

LEMMA RemoveTakes ==
  ASSUME PlacesOK, SlotOK, TableOK, SerialOK, FamRemove
  PROVE  \/ table' = table
         \/ /\ Revocable(copy[Fam]) /\ AccessOf(copy[Fam]) = AccessOf(slot)
            /\ Access(table') = {a \in Access(table) :
                                   ~(a[1] = copy[Fam].host /\ a[2] = copy[Fam].range)}
<1>1. pc[Fam] = "remove"
  BY DEF FamRemove, Goto
<1>2. IsRequest(copy[Fam]) /\ Revocable(copy[Fam]) /\ AccessOf(copy[Fam]) = AccessOf(slot)
  BY <1>1, FamTakesWhole
<1>3. table \in Seq(Entry)
  BY DEF TableOK
<1>4. table' = table \/ table' = Remove(table, copy[Fam])
  BY DEF FamRemove
<1>5. QED
  BY <1>2, <1>3, <1>4, RemovalIsExact

(* With requests one at a time nothing is admitted but what some host asked  *)
(* for, whole, though anybody may write the slot field by field, announce a  *)
(* proposal twice, and be killed at any store; also when a domain overflows. *)
THEOREM SerialAdmittedWasAsked ==
  ASSUME OneAtATime PROVE SpecFresh \/ SpecFounded => []AdmittedWasAsked
<1> DEFINE f == <<Founder.host, Founder.range, Founder.permission>>
<1>1. InitFresh \/ InitFounded => AdmittedWasAsked
  <2>1. CASE InitFresh
    BY <2>1, EmptyTable DEF InitFresh, AdmittedWasAsked
  <2>2. CASE InitFounded
    <3> DEFINE e == [Blank EXCEPT !.host = Founder.host, !.used = 1,
                       !.range = Founder.range, !.permission = Founder.permission]
    <3>1. /\ Founder.host \in Nat /\ Founder.range \in Ranges
          /\ Founder.permission \in BOOLEAN
      BY DriverAssumption DEF Slots
    <3>2. IsRequest(e) /\ e.used = 1 /\ <<e.host, e.range, e.permission>> = f
      BY <3>1 DEF IsRequest, Blank
    <3>3. <<>> \in Seq(Entry) /\ KeysAreDistinct(<<>>) /\ e.range # ZeroRange
      BY <3>1, <3>2, TableAssumption DEF KeysAreDistinct
    <3>4. table = Populate(<<>>, 0, e)
      BY <2>2 DEF InitFounded
    <3> HIDE DEF e
    <3>5. Access(Populate(<<>>, 0, e)) \subseteq Access(<<>>) \cup {f}
      BY <3>2, <3>3, AdditionAdds
    <3>6. Access(table) \subseteq {f}
      BY <3>4, <3>5, EmptyTable
    <3>7. QED
      BY <3>6 DEF AdmittedWasAsked
  <2>3. QED
    BY <2>1, <2>2
<1>2. PlacesOK /\ SlotOK /\ TableOK /\ SerialOK /\ AdmittedWasAsked /\ [Next]_vars
        => AdmittedWasAsked'
  <2> SUFFICES ASSUME PlacesOK, SlotOK, TableOK, SerialOK, AdmittedWasAsked, [Next]_vars
               PROVE  AdmittedWasAsked'
    OBVIOUS
  <2>1. Access(table') \subseteq Access(table) \cup Proposable => AdmittedWasAsked'
    BY DEF AdmittedWasAsked, Proposable, Asked
  <2>2. CASE FamMove
    BY <2>1, <2>2, MoveAdds
  <2>3. CASE FamRemove
    <3>1. Access(table') \subseteq Access(table)
      BY <2>3, RemoveTakes
    <3>2. QED
      BY <2>1, <3>1
  <2>4. CASE FamCut \/ FamStart
    <3>1. table' = <<>>
      BY <2>4 DEF FamCut, FamStart
    <3>2. QED
      BY <2>1, <3>1, EmptyTable
  <2>5. QED
    BY <2>1, <2>2, <2>3, <2>4, TableIsFams
<1>3. QED
  BY <1>1, <1>2, SerialInvariant, PTL DEF SpecFresh, SpecFounded
=============================================================================
