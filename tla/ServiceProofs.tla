---------------------------- MODULE ServiceProofs ---------------------------
(***************************************************************************)
(* What requests one at a time get, from a fresh region on: while there    *)
(* are no more announcements in the programs than a domain has contexts,   *)
(* no domain ever overflows, so the protocol implements AccessControl and  *)
(* whoever was given data_start_address has its access in the table; and   *)
(* while the hosts ask for no more ranges than the index has entries, the  *)
(* FAM never fails.                                                        *)
(***************************************************************************)
EXTENDS SerialProofs, FiniteSetTheorems

-----------------------------------------------------------------------------
(* Room in the domains.                                                    *)

(* Each host may announce a proposal twice in secure_alloc(), which copies  *)
(* a joiner's slot onto itself, and once per operation of its script.        *)
Announcements == {a \in Hosts \X Nat : a[2] \in 1..(Len(Script[a[1]]) + 2)}

FitsDomains == IsFiniteSet(Announcements) /\ Cardinality(Announcements) <= MaxContext

(* How often p may still store is_valid: in its call, and in all. *)
Calls(p) ==
  IF pc[p] = "write" \/ Repeating(p) THEN 1
  ELSE IF pc[p] = "off" \/ Composing(p) THEN 2 ELSE 0

Owed(p) == Calls(p) + Len(todo[p])

Left == {a \in Announcements : a[2] <= Owed(a[1])}

(* A proposal is in the slot that the FAM has not added yet. *)
InFlight == IF slot.is_valid /\ pc[Fam] \notin {"clear", "off"} THEN 1 ELSE 0

(* Each context in a domain is an announcement less that is to come. *)
RoomOK ==
  /\ \A p \in Hosts : Owed(p) <= Len(Script[p]) + 2
  /\ Cardinality(Left) + InFlight <= Cardinality(Announcements)
  /\ \A i \in DOMAIN table :
       table[i].used + Cardinality(Left) + InFlight <= Cardinality(Announcements)
  /\ pc[Fam] = "cut" => table = <<>>

(* Both before and after a step. *)
LEMMA OwedIsCount ==
  /\ ScriptsOK => \A p \in Hosts : Owed(p) \in Nat /\ Len(Script[p]) \in Nat
  /\ ScriptsOK' => \A p \in Hosts : Owed(p)' \in Nat
<1>1. ASSUME NEW p \in Hosts PROVE Calls(p) \in 0..2 /\ Calls(p)' \in 0..2
  BY DEF Calls
<1>2. ASSUME NEW p \in Hosts, ScriptsOK PROVE Owed(p) \in Nat
  <2>1. Len(todo[p]) \in Nat
    BY <1>2 DEF ScriptsOK
  <2>2. QED
    BY <1>1, <2>1 DEF Owed
<1>3. ASSUME NEW p \in Hosts, ScriptsOK' PROVE Owed(p)' \in Nat
  <2>1. Len(todo'[p]) \in Nat
    BY <1>3 DEF ScriptsOK
  <2>2. QED
    BY <1>1, <2>1 DEF Owed
<1>4. ASSUME NEW p \in Hosts PROVE Len(Script[p]) \in Nat
  <2>1. Script[p] \in Seq(Operation)
    BY DriverAssumption
  <2>2. QED
    BY <2>1
<1>5. QED
  BY <1>2, <1>3, <1>4

(* What counts is finite, and each part of it a number. *)
LEMMA CountsAreFinite ==
  ASSUME FitsDomains, ScriptsOK
  PROVE  /\ \A p \in Hosts : Owed(p) \in Nat /\ Len(Script[p]) \in Nat
         /\ IsFiniteSet(Left) /\ Cardinality(Left) \in Nat
         /\ Cardinality(Announcements) \in Nat /\ InFlight \in 0..1
<1>1. \A p \in Hosts : Owed(p) \in Nat /\ Len(Script[p]) \in Nat
  BY OwedIsCount
<1>2. IsFiniteSet(Announcements) /\ Left \in SUBSET Announcements
  BY DEF FitsDomains, Left
<1>3. IsFiniteSet(Left)
  BY <1>2, FS_Subset
<1>4. QED
  BY <1>1, <1>2, <1>3, FS_CardinalityType DEF InFlight

(* Announcements are only ever used up. *)
LEMMA FewerLeft ==
  ASSUME FitsDomains, ScriptsOK, ScriptsOK', \A p \in Hosts : Owed(p)' <= Owed(p)
  PROVE  Cardinality(Left') <= Cardinality(Left)
<1>1. \A p \in Hosts : Owed(p) \in Nat /\ Owed(p)' \in Nat
  BY OwedIsCount
<1>2. \A a \in Announcements : a[1] \in Hosts /\ a[2] \in Nat
  BY DEF Announcements
<1>3. Left' \in SUBSET Left
  BY <1>1, <1>2 DEF Left, Announcements
<1>4. QED
  BY <1>3, CountsAreFinite, FS_Subset

LEMMA OneLessLeft ==
  ASSUME FitsDomains, ScriptsOK, ScriptsOK', \A q \in Hosts : Owed(q)' <= Owed(q),
         RoomOK, NEW p \in Hosts, Owed(p)' < Owed(p)
  PROVE  Cardinality(Left') + 1 <= Cardinality(Left)
<1> DEFINE a == <<p, Owed(p)>>
<1>1. \A q \in Hosts : Owed(q) \in Nat /\ Owed(q)' \in Nat /\ Len(Script[q]) \in Nat
  BY OwedIsCount
<1>2. \A b \in Announcements : b[1] \in Hosts /\ b[2] \in Nat
  BY DEF Announcements
<1>3. Owed(p) \in 1..(Len(Script[p]) + 2)
  BY <1>1 DEF RoomOK
<1>4. a \in Left
  BY <1>1, <1>3 DEF Left, Announcements
<1>5. Left' \in SUBSET (Left \ {a})
  BY <1>1, <1>2 DEF Left, Announcements
<1> HIDE DEF a
<1>6. IsFiniteSet(Left) /\ Cardinality(Left) \in Nat
  BY CountsAreFinite
<1>7. IsFiniteSet(Left \ {a}) /\ Cardinality(Left \ {a}) = Cardinality(Left) - 1
  BY <1>4, <1>6, FS_RemoveElement
<1>8. Cardinality(Left') <= Cardinality(Left \ {a}) /\ IsFiniteSet(Left')
  BY <1>5, <1>7, FS_Subset
<1>9. Cardinality(Left') \in Nat
  BY <1>8, FS_CardinalityType
<1>10. QED
  BY <1>6, <1>7, <1>8, <1>9

(* A host that moves has no more to announce than before, and less if it    *)
(* makes the slot valid.                                                     *)
LEMMA HostCalls ==
  ASSUME PlacesOK, SlotOK, SerialOK, NEW p \in Hosts, HostStep(p) \/ InLock(p) \/ Die(p)
  PROVE  /\ Calls(p)' <= Calls(p) /\ todo' = todo
         /\ slot'.is_valid /\ ~slot.is_valid => Calls(p)' < Calls(p)
<1>1. /\ p \in Procs /\ pc \in [Procs -> HostLabels \cup FamLabels]
      /\ next \in [Procs -> 1..8] /\ slot \in ProposedEntry
  BY DEF PlacesOK, SlotOK, Hosts
<1> USE <1>1 DEF Goto, Calls, Composing, Preparing, Repeating
<1>2. CASE Attach(p) \/ ResetCount(p) \/ ChooseCreate(p)
  BY <1>2 DEF Attach, ResetCount, ChooseCreate, headVars, procVars
<1>3. CASE ChooseJoin(p) \/ EnterCreateHead(p) \/ SetParticipantCount(p) \/ Enrol(p)
  BY <1>3 DEF ChooseJoin, EnterCreateHead, SetParticipantCount, Enrol, headVars, procVars, Rewind
<1>4. CASE WriteField(p)
  <2>1. /\ pc[p] = "write" /\ todo' = todo /\ next[p] \in 1..7
        /\ slot' = [slot EXCEPT ![CopyOrder[next[p]]] = copy[p][CopyOrder[next[p]]]]
        /\ \/ pc'[p] = "write" /\ next[p] # 7
           \/ pc'[p] \in {"idle", "un_check"} /\ next[p] = 7
    BY <1>4, OrderFacts, DriverAssumption DEF WriteField, SetSlot, SlotOK, Room, Hosts
  <2>2. slot'.is_valid /\ ~slot.is_valid => next[p] = 7
    BY <2>1, OrderPlaces DEF ProposedEntry
  <2>3. QED
    BY <2>1, <2>2
<1>5. CASE JoinField(p)
  <2>1. /\ pc[p] = "join" /\ todo' = todo /\ next[p] \in 1..7
        /\ slot' = [slot EXCEPT ![JoinOrder[next[p]]] = JoinEntry(p)[JoinOrder[next[p]]]]
        /\ \/ pc'[p] = "join" /\ next[p] # 7 /\ next'[p] = next[p] + 1
           \/ pc'[p] = "load" /\ next[p] = 7
    BY <1>5, OrderFacts, DriverAssumption DEF JoinField, SetSlot, SlotOK, Room, Hosts, Advance, Rewind
  <2>2. slot'.is_valid /\ ~slot.is_valid => next[p] = 6
    BY <2>1, OrderPlaces DEF ProposedEntry
  <2>3. QED
    BY <2>1, <2>2
<1>6. CASE LoadField(p)
  BY <1>6 DEF LoadField, headVars
<1>7. CASE StoreField(p)
  <2>1. /\ pc[p] = "store" /\ todo' = todo /\ next[p] \in 1..7
        /\ slot' = [slot EXCEPT ![CopyOrder[next[p]]] = copy[p][CopyOrder[next[p]]]]
        /\ \/ pc'[p] = "load" /\ next[p] # 7
           \/ pc'[p] = "wait" /\ next[p] = 7
    BY <1>7, OrderFacts, DriverAssumption DEF StoreField, SetSlot, SlotOK, Room, Hosts
  <2>2. slot'.is_valid /\ ~slot.is_valid => next[p] = 7
    BY <2>1, OrderPlaces DEF ProposedEntry
  <2>3. QED
    BY <2>1, <2>2
<1>8. CASE WaitForVote(p) \/ Return(p)
  BY <1>8 DEF WaitForVote, Return, headVars
<1>9. CASE InLock(p)
  BY <1>9
  DEF InLock, LockStep, OverrideCheck, OverrideWho, OverrideIdle, LockCheck, LockSet,
      LockWho, UnlockCheck, UnlockIdle, UnlockWho, headVars, procVars
<1>10. CASE Die(p)
  BY <1>10 DEF Die, Vanish, headVars
<1>11. QED
  BY <1>2, <1>3, <1>4, <1>5, <1>6, <1>7, <1>8, <1>9, <1>10 DEF HostStep

LEMMA HostOwes ==
  ASSUME Serial, PlacesOK, ScriptsOK, ScriptsOK', SlotOK, SoleOK, SerialOK, NEW p \in Hosts,
         Environment(p) \/ HostStep(p) \/ InLock(p) \/ Die(p)
  PROVE  /\ \A q \in Hosts : Owed(q)' <= Owed(q)
         /\ slot'.is_valid /\ ~slot.is_valid => Owed(p)' < Owed(p)
         /\ pc'[Fam] = pc[Fam] /\ table' = table
<1>1. /\ p \in Procs /\ p # Fam /\ Fam \in Procs /\ \A q \in Hosts : q \in Procs
      /\ pc \in [Procs -> HostLabels \cup FamLabels] /\ next \in [Procs -> 1..8]
  BY DriverAssumption DEF PlacesOK, SlotOK, Hosts
<1>2. \A q \in Procs : q # p => pc'[q] = pc[q] /\ next'[q] = next[q]
  <2>1. CASE Die(p)
    BY <1>1, <2>1 DEF Die, Vanish, Rewind
  <2>2. CASE ~Die(p)
    BY <2>2, HostAlone DEF Alone
  <2>3. QED
    BY <2>1, <2>2
<1>3. table' = table
  BY Zenon
  DEF Environment, HostStep, InLock, Launch, StartOperation, Attach, ResetCount,
      ChooseCreate, ChooseJoin, EnterCreateHead, SetParticipantCount, Enrol, WriteField,
      JoinField, LoadField, StoreField, WaitForVote, Return, Die, Vanish, headVars
<1>4. \A q \in Hosts : /\ Owed(q) \in Nat /\ Owed(q)' \in Nat
                      /\ Calls(q) \in 0..2 /\ Calls(q)' \in 0..2
  BY OwedIsCount DEF Calls
<1>5. \A q \in Hosts : Len(todo[q]) \in Nat
  BY DEF ScriptsOK
<1>6. ASSUME NEW q \in Hosts, q # p PROVE Calls(q)' = Calls(q)
  BY <1>1, <1>2, <1>6 DEF Calls, Composing, Repeating
<1>7. CASE HostStep(p) \/ InLock(p) \/ Die(p)
  <2>1. /\ Calls(p)' <= Calls(p) /\ todo' = todo
        /\ slot'.is_valid /\ ~slot.is_valid => Calls(p)' < Calls(p)
    BY <1>7, HostCalls
  <2>2. \A q \in Hosts : Owed(q)' <= Owed(q)
    BY <1>4, <1>5, <1>6, <2>1 DEF Owed
  <2>3. slot'.is_valid /\ ~slot.is_valid => Owed(p)' < Owed(p)
    BY <1>4, <1>5, <2>1 DEF Owed
  <2>4. QED
    BY <1>1, <1>2, <1>3, <2>2, <2>3
<1>8. CASE Launch(p)
  <2>1. pc[p] = "off" /\ todo' = todo /\ slot' = slot
    BY <1>8 DEF Launch, Goto, headVars, procVars
  <2>2. Calls(p) = 2
    BY <2>1 DEF Calls, Repeating
  <2>3. \A q \in Hosts : Owed(q)' <= Owed(q)
    BY <1>4, <1>5, <1>6, <2>1, <2>2 DEF Owed
  <2>4. QED
    BY <1>1, <1>2, <1>3, <2>1, <2>3
<1>9. CASE StartOperation(p)
  <2>1. /\ pc[p] = "ready" /\ pc'[p] = "write" /\ todo[p] # <<>> /\ slot' = slot
        /\ todo' = [todo EXCEPT ![p] = Tail(todo[p])]
    BY <1>1, <1>9 DEF StartOperation, Goto, headVars
  <2>2. Calls(p) = 0 /\ Calls(p)' = 1
    BY <2>1 DEF Calls, Repeating, Composing, Preparing
  <2>3. Len(todo'[p]) = Len(todo[p]) - 1
    BY <2>1 DEF ScriptsOK
  <2>4. ASSUME NEW q \in Hosts PROVE Owed(q)' <= Owed(q)
    <3>1. CASE q = p
      BY <1>4, <1>5, <2>2, <2>3, <3>1 DEF Owed
    <3>2. CASE q # p
      BY <1>4, <1>5, <1>6, <2>1, <3>2 DEF Owed, ScriptsOK
    <3>3. QED
      BY <3>1, <3>2
  <2>5. QED
    BY <1>1, <1>2, <1>3, <2>1, <2>4
<1>10. QED
  BY <1>7, <1>8, <1>9 DEF Environment

LEMMA UsedIsNat == TableOK => \A i \in DOMAIN table : table[i].used \in Nat
<1> SUFFICES ASSUME TableOK, NEW i \in DOMAIN table PROVE table[i].used \in Nat
  OBVIOUS
<1>1. table[i] \in Entry
  BY DEF TableOK
<1>2. QED
  BY <1>1 DEF Entry

LEMMA CountsAfter == FitsDomains => Cardinality(Left') \in Nat
<1> SUFFICES ASSUME FitsDomains PROVE Cardinality(Left') \in Nat
  OBVIOUS
<1>1. Left' \in SUBSET Announcements /\ IsFiniteSet(Announcements)
  BY DEF Left, FitsDomains, Announcements
<1>2. IsFiniteSet(Left')
  BY <1>1, FS_Subset
<1>3. QED
  BY <1>2, FS_CardinalityType

(* A step that adds to no domain and uses up what it announces. *)
LEMMA RoomShrinks ==
  ASSUME FitsDomains, TableOK, ScriptsOK, ScriptsOK', RoomOK,
         \A p \in Hosts : Owed(p)' <= Owed(p),
         Cardinality(Left') + InFlight' <= Cardinality(Left) + InFlight,
         table' = <<>> \/ \A i \in DOMAIN table' :
                            i \in DOMAIN table /\ table'[i].used = table[i].used,
         pc'[Fam] = "cut" => table' = <<>>
  PROVE  RoomOK'
<1>1. /\ \A p \in Hosts : Owed(p) \in Nat /\ Owed(p)' \in Nat /\ Len(Script[p]) \in Nat
      /\ Cardinality(Left) \in Nat /\ InFlight \in 0..1 /\ InFlight' \in 0..1
      /\ Cardinality(Announcements) \in Nat
  BY OwedIsCount, CountsAreFinite DEF InFlight
<1>2. Cardinality(Left') \in Nat
  BY CountsAfter
<1>3. Cardinality(Announcements)' = Cardinality(Announcements)
  BY DEF Announcements
<1>4. \A i \in DOMAIN table : table[i].used \in Nat
  BY UsedIsNat
<1>5. \A i \in DOMAIN table' :
        table'[i].used + Cardinality(Left') + InFlight' <= Cardinality(Announcements)
  <2>1. CASE table' = <<>>
    BY <2>1
  <2>2. ASSUME NEW i \in DOMAIN table', i \in DOMAIN table, table'[i].used = table[i].used
        PROVE  table'[i].used + Cardinality(Left') + InFlight' <= Cardinality(Announcements)
    <3>1. table[i].used + Cardinality(Left) + InFlight <= Cardinality(Announcements)
      BY <2>2 DEF RoomOK
    <3>2. QED
      BY <1>1, <1>2, <1>4, <2>2, <3>1
  <2>3. QED
    BY <2>1, <2>2
<1>6. \A p \in Hosts : Owed(p)' <= Len(Script[p]) + 2
  BY <1>1 DEF RoomOK
<1>7. Cardinality(Left') + InFlight' <= Cardinality(Announcements)
  BY <1>1, <1>2 DEF RoomOK
<1>8. QED
  BY <1>3, <1>5, <1>6, <1>7 DEF RoomOK

(* An addition to domains that have room makes one of them one larger, or a *)
(* new one with one context.                                                 *)
LEMMA AdditionCounts ==
  ASSUME NEW t \in Seq(Entry), \A i \in DOMAIN t : t[i].used < MaxContext,
         NEW d \in Nat, NEW e, IsRequest(e), e.used = 1
  PROVE  /\ HasRoom(t, e)
         /\ \A i \in DOMAIN Populate(t, d, e) :
              \/ Populate(t, d, e)[i].used = 1
              \/ /\ i \in DOMAIN t
                 /\ Populate(t, d, e)[i].used \in {t[i].used, t[i].used + 1}
<1>1. ASSUME NEW i \in DOMAIN t PROVE t[i] \in Entry /\ t[i].used \in Slots
  <2>1. t[i] \in Entry
    OBVIOUS
  <2>2. t[i].used \in Nat
    BY <2>1 DEF Entry
  <2>3. QED
    BY <2>1, <2>2, TableAssumption DEF Slots
<1>2. HasRoom(t, e)
  BY <1>1 DEF HasRoom
<1>3. CASE Mergeable(t, e)
  <2>1. Populate(t, d, e) =
          [i \in DOMAIN t |-> IF IsMergeTarget(t, i, e) THEN AddContext(t[i], e.host)
                              ELSE t[i]]
    BY <1>3 DEF Populate
  <2>2. ASSUME NEW i \in DOMAIN t PROVE AddContext(t[i], e.host).used = t[i].used + 1
    <3>1. AddContext(t[i], e.host) =
            [t[i] EXCEPT !.context[t[i].used] = e.host, !.used = t[i].used + 1]
      BY <1>1 DEF AddContext
    <3>2. QED
      BY <1>1, <3>1 DEF Entry
  <2>3. QED
    BY <1>2, <2>1, <2>2
<1>4. CASE ~Mergeable(t, e)
  <2> DEFINE new == NewEntry(d, e, IF t = <<>> THEN 1 ELSE e.used)
  <2>1. Populate(t, d, e) = Append(t, new)
    BY <1>4 DEF Populate
  <2>2. new = NewEntry(d, e, 1)
    OBVIOUS
  <2>3. new.used = 1 /\ new \in Entry
    BY <2>2, NewEntryFacts DEF NewEntry
  <2> HIDE DEF new
  <2>4. \A i \in DOMAIN Append(t, new) :
          \/ Append(t, new)[i].used = 1
          \/ i \in DOMAIN t /\ Append(t, new)[i].used = t[i].used
    BY <2>3
  <2>5. QED
    BY <1>2, <2>1, <2>4
<1>5. QED
  BY <1>3, <1>4

LEMMA ExactGrant ==
  ASSUME NEW t \in Seq(Entry), KeysAreDistinct(t), NEW d \in Nat,
         NEW e, IsRequest(e), e.range # ZeroRange, e.used = 1, HasRoom(t, e)
  PROVE  Access(Populate(t, d, e)) =
           Access(t) \cup {<<e.host, e.range, e.permission>>}
<1>1. Access(Populate(t, d, e)) =
        IF HasRoom(t, e) THEN Access(t) \cup {<<e.host, e.range, e.permission>>}
        ELSE {a \in Access(t) : ~(a[2] = e.range /\ a[3] = e.permission)}
  BY AdditionIsExact
<1>2. QED
  BY <1>1

(* The domain that a proposal joins has room, for the proposal itself is    *)
(* still to be counted.                                                      *)
LEMMA MoveHasRoom ==
  ASSUME FitsDomains, PlacesOK, ScriptsOK, SlotOK, TableOK, SerialOK, RoomOK, FamMove
  PROVE  /\ InFlight = 1 /\ copy[Fam].used = 1 /\ IsRequest(copy[Fam])
         /\ \A i \in DOMAIN table : table[i].used < MaxContext
<1>1. pc[Fam] = "move"
  BY DEF FamMove, Goto
<1>2. /\ IsRequest(copy[Fam]) /\ copy[Fam].used = 1 /\ slot.is_valid
  BY <1>1, FamTakesWhole DEF Grantable
<1>3. InFlight = 1
  BY <1>1, <1>2 DEF InFlight
<1>4. /\ \A i \in DOMAIN table : table[i].used \in Nat
      /\ Cardinality(Left) \in Nat /\ Cardinality(Announcements) \in Nat
  BY CountsAreFinite, UsedIsNat
<1>5. \A i \in DOMAIN table :
        table[i].used + Cardinality(Left) + 1 <= Cardinality(Announcements)
  BY <1>3 DEF RoomOK
<1>6. Cardinality(Announcements) <= MaxContext /\ MaxContext \in Nat
  BY TableAssumption DEF FitsDomains
<1>7. QED
  BY <1>2, <1>3, <1>4, <1>5, <1>6

(* Steps of the FAM announce nothing. *)
LEMMA FamOwes ==
  ASSUME HostsStay
  PROVE  (\A p \in Hosts : Owed(p)' = Owed(p)) /\ Left' = Left
<1>1. \A p \in Hosts : Owed(p)' = Owed(p)
  BY DEF HostsStay, Owed, Calls, Composing, Repeating
<1>2. \A a \in Announcements : a[1] \in Hosts
  BY DEF Announcements
<1>3. QED
  BY <1>1, <1>2 DEF Left, Announcements

LEMMA RoomMoves ==
  ASSUME FitsDomains, PlacesOK, ScriptsOK, ScriptsOK', SlotOK, TableOK, SerialOK, RoomOK,
         FamMove
  PROVE  RoomOK'
<1>1. /\ InFlight = 1 /\ copy[Fam].used = 1 /\ IsRequest(copy[Fam])
      /\ \A i \in DOMAIN table : table[i].used < MaxContext
  BY MoveHasRoom
<1>2. /\ Fam \in Procs /\ HostsStay /\ slot' = slot
      /\ pc \in [Procs -> HostLabels \cup FamLabels]
  BY FamAlone, DriverAssumption DEF FamStep, PlacesOK, FamMove
<1>3. (\A p \in Hosts : Owed(p)' = Owed(p)) /\ Left' = Left
  BY <1>2, FamOwes
<1>4. /\ Cardinality(Left) \in Nat /\ Cardinality(Announcements) \in Nat
      /\ \A p \in Hosts : Owed(p) \in Nat
      /\ \A i \in DOMAIN table : table[i].used \in Nat
  BY CountsAreFinite, UsedIsNat
<1>5. \/ pc'[Fam] = "dead" /\ table' = table
      \/ pc'[Fam] = "clear" /\ table' = Populate(table, domains, copy[Fam])
  BY <1>2 DEF FamMove, Goto
<1>6. CASE pc'[Fam] = "dead" /\ table' = table
  <2>1. Cardinality(Left') + InFlight' <= Cardinality(Left) + InFlight
    BY <1>1, <1>2, <1>3, <1>4, <1>6 DEF InFlight
  <2>2. QED
    BY <1>3, <1>4, <1>6, <2>1, RoomShrinks
<1>7. CASE pc'[Fam] = "clear" /\ table' = Populate(table, domains, copy[Fam])
  <2>1. InFlight' = 0
    BY <1>7 DEF InFlight
  <2>2. table \in Seq(Entry) /\ domains \in Nat
    BY DEF TableOK
  <2>3. \A i \in DOMAIN table' : \/ table'[i].used = 1
                                 \/ /\ i \in DOMAIN table
                                    /\ table'[i].used \in {table[i].used, table[i].used + 1}
    BY <1>1, <1>7, <2>2, AdditionCounts
  <2>4. /\ Cardinality(Left) + 1 <= Cardinality(Announcements)
        /\ \A i \in DOMAIN table :
             table[i].used + Cardinality(Left) + 1 <= Cardinality(Announcements)
    BY <1>1 DEF RoomOK
  <2>5. \A i \in DOMAIN table' :
          table'[i].used + Cardinality(Left) + 0 <= Cardinality(Announcements)
    BY <1>4, <2>3, <2>4
  <2>6. \A p \in Hosts : Owed(p)' <= Len(Script[p]) + 2
    BY <1>3 DEF RoomOK
  <2>7. Cardinality(Announcements)' = Cardinality(Announcements)
    BY DEF Announcements
  <2>8. QED
    BY <1>3, <1>4, <1>7, <2>1, <2>4, <2>5, <2>6, <2>7 DEF RoomOK
<1>8. QED
  BY <1>5, <1>6, <1>7

LEMMA RoomRemoves ==
  ASSUME FitsDomains, PlacesOK, ScriptsOK, ScriptsOK', SlotOK, TableOK, SerialOK, RoomOK,
         FamRemove
  PROVE  RoomOK'
<1>1. /\ Fam \in Procs /\ HostsStay /\ slot' = slot
      /\ pc \in [Procs -> HostLabels \cup FamLabels]
  BY FamAlone, DriverAssumption DEF FamStep, PlacesOK, FamRemove
<1>2. (\A p \in Hosts : Owed(p)' = Owed(p)) /\ Left' = Left
  BY <1>1, FamOwes
<1>3. /\ Cardinality(Left) \in Nat /\ InFlight \in 0..1
      /\ \A p \in Hosts : Owed(p) \in Nat
  BY CountsAreFinite
<1>4. /\ pc[Fam] = "remove" /\ pc'[Fam] \in {"dead", "clear"}
      /\ table' = table \/ table' = Remove(table, copy[Fam])
  BY <1>1 DEF FamRemove, Goto
<1>5. Cardinality(Left') + InFlight' <= Cardinality(Left) + InFlight
  BY <1>1, <1>2, <1>3, <1>4 DEF InFlight
<1>6. \A i \in DOMAIN table' : i \in DOMAIN table /\ table'[i].used = table[i].used
  <2>1. CASE table' = table
    BY <2>1
  <2>2. CASE table' = Remove(table, copy[Fam])
    <3>1. \A i \in DOMAIN table : table[i] \in Entry
      BY DEF TableOK
    <3>2. QED
      BY <2>2, <3>1 DEF Remove, Entry
  <2>3. QED
    BY <1>4, <2>1, <2>2
<1>7. QED
  BY <1>2, <1>3, <1>4, <1>5, <1>6, RoomShrinks

(* The other steps of the FAM. *)
LEMMA RoomFam ==
  ASSUME FitsDomains, PlacesOK, SlotOK, ScriptsOK, ScriptsOK', TableOK, SerialOK, RoomOK,
         FamStep \/ InLock(Fam) \/ FamDie \/ FamCut, ~FamMove, ~FamRemove
  PROVE  RoomOK'
<1>1. /\ Fam \in Procs /\ HostsStay /\ pc \in [Procs -> HostLabels \cup FamLabels]
      /\ slot \in ProposedEntry
  BY FamAlone, DriverAssumption DEF PlacesOK, SlotOK
<1>2. (\A p \in Hosts : Owed(p)' = Owed(p)) /\ Left' = Left
  BY <1>1, FamOwes
<1>3. /\ Cardinality(Left) \in Nat /\ InFlight \in 0..1
      /\ \A p \in Hosts : Owed(p) \in Nat
  BY CountsAreFinite
<1> USE <1>1 DEF Goto, InFlight
<1>4. CASE FamPoll \/ FamVote
  <2>1. /\ slot' = slot /\ table' = table /\ pc[Fam] \in {"idle", "cs"}
        /\ pc'[Fam] \in {"lk_check", "read"}
    BY <1>4 DEF FamPoll, FamVote, headVars
  <2>2. QED
    BY <1>2, <1>3, <2>1, RoomShrinks
<1>5. CASE FamRead
  <2>1. /\ slot' = slot /\ table' = table /\ pc[Fam] = "read"
        /\ pc'[Fam] \in {"read", doing[Fam]} /\ doing[Fam] \in {"none", "remove", "move"}
    BY <1>5 DEF FamRead, headVars, PlacesOK
  <2>2. QED
    BY <1>2, <1>3, <2>1, RoomShrinks
<1>6. CASE FamClearValid
  <2>1. table' = table /\ pc'[Fam] = "clear_del" /\ ~slot'.is_valid
    BY <1>6 DEF FamClearValid, SetSlot, ProposedEntry
  <2>2. QED
    BY <1>2, <1>3, <2>1, RoomShrinks
<1>7. CASE FamClearDel
  <2>1. /\ table' = table /\ pc[Fam] = "clear_del" /\ pc'[Fam] = "un_check"
        /\ slot'.is_valid = slot.is_valid
    BY <1>7 DEF FamClearDel, SetSlot, ProposedEntry
  <2>2. QED
    BY <1>2, <1>3, <2>1, RoomShrinks
<1>8. CASE FamTally
  <2>1. pc' = pc /\ slot' = slot /\ table' = table /\ pc[Fam] = "idle"
    BY <1>8 DEF FamTally, lockVars
  <2>2. QED
    BY <1>2, <1>3, <2>1, RoomShrinks
<1>9. CASE FamStart
  <2>1. /\ pc[Fam] = "cut" /\ pc'[Fam] = "idle" /\ slot' = slot /\ table' = <<>>
    BY <1>9 DEF FamStart
  <2>2. QED
    BY <1>2, <1>3, <2>1, RoomShrinks
<1>10. CASE InLock(Fam)
  <2>1. /\ slot' = slot /\ table' = table /\ pc[Fam] \in Labels /\ pc'[Fam] \in Labels
    BY <1>10
    DEF InLock, LockStep, OverrideCheck, OverrideWho, OverrideIdle, LockCheck, LockSet,
        LockWho, UnlockCheck, UnlockIdle, UnlockWho, headVars, Labels
  <2>2. QED
    BY <1>2, <1>3, <2>1, RoomShrinks DEF Labels
<1>11. CASE FamDie
  <2>1. table' = table /\ pc'[Fam] = "off"
    BY <1>11 DEF FamDie, Vanish, headVars
  <2>2. QED
    BY <1>2, <1>3, <2>1, RoomShrinks
<1>12. CASE FamCut
  <2>1. table' = <<>> /\ slot' = Blank
    BY <1>12 DEF FamCut
  <2>2. QED
    BY <1>2, <1>3, <2>1, RoomShrinks DEF Blank
<1>13. QED
  BY <1>4, <1>5, <1>6, <1>7, <1>8, <1>9, <1>10, <1>11, <1>12 DEF FamStep

LEMMA RoomStep ==
  ASSUME Serial, FitsDomains, PlacesOK, ScriptsOK, ScriptsOK', SlotOK, TableOK, SoleOK,
         SerialOK, RoomOK, [Next]_vars
  PROVE  RoomOK'
<1>1. /\ \A q \in Hosts : Owed(q) \in Nat /\ Owed(q)' \in Nat
      /\ Cardinality(Left) \in Nat /\ InFlight \in 0..1
  BY OwedIsCount, CountsAreFinite
<1>2. ASSUME NEW p \in Hosts, Environment(p) \/ HostStep(p) \/ InLock(p) \/ Die(p)
      PROVE  RoomOK'
  <2>1. /\ \A q \in Hosts : Owed(q)' <= Owed(q)
        /\ slot'.is_valid /\ ~slot.is_valid => Owed(p)' < Owed(p)
        /\ pc'[Fam] = pc[Fam] /\ table' = table
    BY <1>2, HostOwes
  <2>2. Cardinality(Left') + InFlight' <= Cardinality(Left) + InFlight
    <3>1. CASE slot'.is_valid /\ ~slot.is_valid
      <4>1. Cardinality(Left') + 1 <= Cardinality(Left)
        BY <2>1, <3>1, OneLessLeft
      <4>2. InFlight = 0 /\ InFlight' \in 0..1
        BY <3>1 DEF InFlight
      <4>3. Cardinality(Left') \in Int
        BY CountsAfter
      <4>4. QED
        BY <1>1, <4>1, <4>2, <4>3
    <3>2. CASE ~(slot'.is_valid /\ ~slot.is_valid)
      <4>1. Cardinality(Left') <= Cardinality(Left)
        BY <2>1, FewerLeft
      <4>2. InFlight' <= InFlight /\ InFlight' \in 0..1
        BY <2>1, <3>2 DEF InFlight
      <4>3. Cardinality(Left') \in Int
        BY CountsAfter
      <4>4. QED
        BY <1>1, <4>1, <4>2, <4>3
    <3>3. QED
      BY <3>1, <3>2
  <2>3. pc'[Fam] = "cut" => table' = <<>>
    BY <2>1 DEF RoomOK
  <2>4. QED
    BY <2>1, <2>2, <2>3, RoomShrinks
<1>3. ASSUME FamStep \/ InLock(Fam) \/ FamDie \/ FamCut PROVE RoomOK'
  BY <1>3, RoomMoves, RoomRemoves, RoomFam
<1>4. CASE UNCHANGED vars
  <2>1. UNCHANGED <<pc, slot, table, next, todo>>
    BY <1>4 DEF vars, lockVars, headVars, procVars
  <2>2. (\A q \in Hosts : Owed(q)' = Owed(q)) /\ InFlight' = InFlight
    BY <2>1 DEF Owed, Calls, Composing, Repeating, InFlight
  <2>3. \A a \in Announcements : a[1] \in Hosts
    BY DEF Announcements
  <2>4. Left' = Left /\ Announcements' = Announcements
    BY <2>2, <2>3 DEF Left, Announcements
  <2>5. QED
    BY <2>1, <2>2, <2>4 DEF RoomOK
<1>5. \A p \in Procs : p = Fam \/ p \in Hosts
  BY DEF Hosts
<1>6. QED
  BY <1>2, <1>3, <1>4, <1>5 DEF Next, Deaths

LEMMA RoomInit == FitsDomains /\ InitFresh => RoomOK
<1> SUFFICES ASSUME FitsDomains, InitFresh PROVE RoomOK
  OBVIOUS
<1>1. /\ table = <<>> /\ slot = Blank /\ todo = Script
      /\ pc = [p \in Procs |-> IF p = Fam THEN "idle" ELSE "off"]
  BY DEF InitFresh, ProcInit
<1>2. ~slot.is_valid /\ InFlight = 0
  BY <1>1 DEF Blank, InFlight
<1>3. ASSUME NEW p \in Hosts PROVE Owed(p) <= Len(Script[p]) + 2
  <2>1. pc[p] = "off" /\ Calls(p) = 2
    BY <1>1 DEF Hosts, Calls, Repeating
  <2>2. Script[p] \in Seq(Operation)
    BY DriverAssumption
  <2>3. QED
    BY <1>1, <2>1, <2>2 DEF Owed
<1>4. IsFiniteSet(Announcements) /\ Left \in SUBSET Announcements
  BY DEF FitsDomains, Left
<1>5. Cardinality(Left) <= Cardinality(Announcements)
  BY <1>4, FS_Subset
<1>6. IsFiniteSet(Left)
  BY <1>4, FS_Subset
<1>7. Cardinality(Left) \in Nat /\ Cardinality(Announcements) \in Nat
  BY <1>4, <1>6, FS_CardinalityType
<1>8. pc[Fam] # "cut" /\ DOMAIN table = {}
  BY <1>1, DriverAssumption
<1>9. QED
  BY <1>2, <1>3, <1>5, <1>7, <1>8 DEF RoomOK

LEMMA RoomInvariant ==
  ASSUME OneAtATime, FitsDomains
  PROVE  SpecFresh =>
           [](/\ PlacesOK /\ ScriptsOK /\ SlotOK /\ CountsOK /\ TableOK /\ SoleOK
              /\ SerialOK /\ RoomOK)
<1>1. InitFresh => RoomOK
  BY RoomInit
<1>2. (/\ PlacesOK /\ ScriptsOK /\ SlotOK /\ TableOK /\ SoleOK /\ SerialOK /\ RoomOK
       /\ [Next]_vars) => RoomOK'
  BY RoomStep, ScriptsStep DEF OneAtATime
<1>3. QED
  BY <1>1, <1>2, SerialInvariant, PTL DEF SpecFresh

-----------------------------------------------------------------------------
(* The protocol implements AccessControl.                                  *)

(* What the FAM's two changes of the table are, exactly. *)
LEMMA MoveGrants ==
  ASSUME FitsDomains, PlacesOK, ScriptsOK, SlotOK, TableOK, SerialOK, RoomOK, FamMove
  PROVE  \/ table' = table /\ pc'[Fam] = "dead"
         \/ /\ Access(table') = Access(table) \cup {AccessOf(slot)}
            /\ pc'[Fam] = "clear"
<1>1. /\ copy[Fam].used = 1 /\ IsRequest(copy[Fam])
      /\ \A i \in DOMAIN table : table[i].used < MaxContext
  BY MoveHasRoom
<1>2. pc[Fam] = "move"
  BY DEF FamMove, Goto
<1>3. AccessOf(copy[Fam]) = AccessOf(slot) /\ AccessOf(copy[Fam]) \in Proposable
  BY <1>2, FamTakesWhole DEF Grantable
<1>4. copy[Fam].range # ZeroRange
  BY <1>3, ProposableHasRange
<1>5. /\ table \in Seq(Entry) /\ KeysAreDistinct(table) /\ domains \in Nat
  BY DEF TableOK, CountersAgree
<1>6. HasRoom(table, copy[Fam])
  BY <1>1, <1>5, AdditionCounts
<1>7. Access(Populate(table, domains, copy[Fam])) = Access(table) \cup {AccessOf(copy[Fam])}
  BY <1>1, <1>4, <1>5, <1>6, ExactGrant DEF AccessOf
<1>8. \/ table' = table /\ pc'[Fam] = "dead"
      \/ table' = Populate(table, domains, copy[Fam]) /\ pc'[Fam] = "clear"
  BY DriverAssumption DEF FamMove, Goto, PlacesOK
<1>9. QED
  BY <1>3, <1>7, <1>8

LEMMA ServiceStep ==
  ASSUME FitsDomains, PlacesOK, ScriptsOK, SlotOK, CountsOK, TableOK, SerialOK, RoomOK,
         [Next]_vars
  PROVE  AC!Next \/ UNCHANGED Access(table)
<1>1. CASE FamMove
  <2>1. CASE table' = table
    BY <2>1
  <2>2. CASE Access(table') = Access(table) \cup {AccessOf(slot)}
    <3>1. AccessOf(slot) \in Proposable
      BY <1>1, MoveAdds
    <3>2. AC!Grant(AccessOf(slot))
      BY <2>2 DEF AC!Grant
    <3>3. QED
      BY <3>1, <3>2 DEF AC!Next
  <2>3. QED
    BY <1>1, <2>1, <2>2, MoveGrants
<1>2. CASE FamRemove
  <2>1. CASE table' = table
    BY <2>1
  <2>2. CASE /\ Revocable(copy[Fam])
             /\ Access(table') = {a \in Access(table) :
                                    ~(a[1] = copy[Fam].host /\ a[2] = copy[Fam].range)}
    <3> DEFINE v == <<copy[Fam].host, copy[Fam].range>>
    <3>1. v \in Removable
      BY <2>2, RevocableIsRemovable
    <3>2. AC!Revoke(v[1], v[2])
      BY <2>2 DEF AC!Revoke
    <3>3. QED
      BY <3>1, <3>2 DEF AC!Next
  <2>3. QED
    BY <1>2, <2>1, <2>2, RemoveTakes
<1>3. CASE FamCut
  <2>1. MaxRestarts > 0
    BY <1>3, DriverAssumption DEF FamCut, Goto, CountsOK
  <2>2. Access(table') = {}
    BY <1>3, EmptyTable DEF FamCut
  <2>3. AC!Reset
    BY <2>1, <2>2 DEF AC!Reset
  <2>4. QED
    BY <2>3 DEF AC!Next
<1>4. CASE FamStart
  BY <1>4 DEF FamStart, Goto, RoomOK
<1>5. QED
  BY <1>1, <1>2, <1>3, <1>4, TableIsFams

(* With requests one at a time and room for what the programs announce, the *)
(* field by field stores, the announcement twice, the FAM's polling, its     *)
(* deaths and those of hosts add up to grants of what was asked for,         *)
(* revocations of what a removal names, and a reset when a FAM starts anew.  *)
THEOREM SerialServesAccessControl ==
  ASSUME OneAtATime, FitsDomains PROVE SpecFresh => ServesAccessControl
<1>1. InitFresh => AC!Init
  BY EmptyTable DEF InitFresh, AC!Init
<1>2. (/\ PlacesOK /\ ScriptsOK /\ SlotOK /\ CountsOK /\ TableOK /\ SerialOK /\ RoomOK
       /\ [Next]_vars) => [AC!Next]_(Access(table))
  BY ServiceStep
<1>3. QED
  BY <1>1, <1>2, RoomInvariant, PTL DEF SpecFresh, AC!Spec, ServesAccessControl

-----------------------------------------------------------------------------
(* Who was given data_start_address has its access in the table.           *)

(* p's access is in the slot for the FAM to add. *)
Pending(p) == slot.is_valid /\ pc[Fam] # "clear" /\ AccessOf(slot) = Asked(p)

Kept(p) == Asked(p) \in Access(table) \/ IsVictim(p) \/ Pending(p)

(* p has announced what it asks secure_alloc() for, which will grant it. *)
Announced(p) ==
  \/ Repeating(p) \/ pc[p] = "wait"
  \/ pc[p] \in {"un_check", "un_idle", "un_who"} /\ doing[p] = "create"
  \/ pc[p] = "idle" /\ doing[p] \in {"create", "join"}

KeptOK == \A p \in Hosts : p \in granted \/ Announced(p) => Kept(p)

(* No host changes a proposal that is announced: it has none of its own to  *)
(* write before, and the same once more after.                               *)
LEMMA AnnouncedStays ==
  ASSUME PlacesOK, SlotOK, SerialOK, NEW p \in Hosts, slot.is_valid,
         Environment(p) \/ HostStep(p) \/ InLock(p) \/ Die(p)
  PROVE  slot'.is_valid /\ AccessOf(slot') = AccessOf(slot)
<1>1. /\ p \in Procs /\ p # Fam /\ slot \in ProposedEntry /\ copy[p] \in ProposedEntry
      /\ pc[p] \in {"write", "join", "load", "store"} => next[p] \in 1..7
  BY DEF SlotOK, Hosts, Room
<1>2. ~Composing(p)
  BY DEF SerialOK, QuietOK
<1>3. CASE slot' = slot
  BY <1>3
<1>4. CASE WriteField(p)
  BY <1>2, <1>4 DEF WriteField, Goto, Composing, Preparing
<1>5. CASE JoinField(p)
  <2>1. pc[p] = "join" /\ next[p] = 7
    BY <1>1, <1>2, <1>5 DEF JoinField, Goto, Composing
  <2>2. JoinOrder[next[p]] = "is_del"
    BY <2>1, OrderPlaces
  <2>3. slot' = [slot EXCEPT !.is_del = JoinEntry(p).is_del]
    BY <1>5, <2>2 DEF JoinField, SetSlot
  <2>4. QED
    BY <1>1, <2>3 DEF ProposedEntry, AccessOf
<1>6. CASE StoreField(p)
  <2> DEFINE f == CopyOrder[next[p]]
  <2>1. pc[p] = "store" /\ f \in Fields /\ slot' = [slot EXCEPT ![f] = copy[p][f]]
    BY <1>1, <1>6, OrderFacts DEF StoreField, Goto, SetSlot
  <2>2. IF f = "is_valid" THEN copy[p].is_valid ELSE copy[p][f] = slot[f]
    BY <2>1 DEF SerialOK, JoinOK
  <2> HIDE DEF f
  <2>3. CASE f = "is_valid"
    <3>1. slot' = [slot EXCEPT !.is_valid = copy[p].is_valid] /\ copy[p].is_valid
      BY <2>1, <2>2, <2>3
    <3>2. QED
      BY <1>1, <3>1 DEF ProposedEntry, AccessOf
  <2>4. CASE f # "is_valid"
    <3>1. slot' = [slot EXCEPT ![f] = slot[f]]
      BY <2>1, <2>2, <2>4
    <3>2. slot' = slot
      BY <1>1, <2>1, <3>1, SameField
    <3>3. QED
      BY <3>2
  <2>5. QED
    BY <2>3, <2>4
<1>7. QED
  BY <1>3, <1>4, <1>5, <1>6, Zenon
  DEF Environment, HostStep, InLock, Launch, StartOperation, Attach, ResetCount,
      ChooseCreate, ChooseJoin, EnterCreateHead, SetParticipantCount, Enrol, LoadField,
      WaitForVote, Return, Die, Vanish, headVars

(* What p announces is what it asked for. *)
LEMMA AnnouncesAsked ==
  ASSUME PlacesOK, SlotOK, SerialOK, SerialOK', NEW p \in Hosts,
         Environment(p) \/ HostStep(p) \/ InLock(p) \/ Die(p), pc'[Fam] = pc[Fam]
  PROVE  p \in granted' \/ Announced(p)' => p \in granted \/ Announced(p) \/ Pending(p)'
<1> SUFFICES ASSUME p \in granted' \/ Announced(p)', p \notin granted, ~Announced(p)
             PROVE  Pending(p)'
  OBVIOUS
<1>1. /\ p \in Procs /\ p # Fam /\ slot \in ProposedEntry /\ copy[p] \in ProposedEntry
      /\ pc \in [Procs -> HostLabels \cup FamLabels] /\ next \in [Procs -> 1..8]
      /\ doing \in [Procs -> {"none", "create", "join", "extend", "remove", "move"}]
      /\ pc[p] \in {"write", "join", "load", "store"} => next[p] \in 1..7
      /\ Asked(p)' = Asked(p)
  BY DEF PlacesOK, SlotOK, Hosts, Room, Asked
<1> USE <1>1 DEF Goto
<1>2. CASE Environment(p)
  BY <1>2 DEF Environment, Launch, StartOperation, Announced, Repeating, procVars
<1>3. CASE Attach(p) \/ ResetCount(p) \/ ChooseCreate(p) \/ ChooseJoin(p)
           \/ EnterCreateHead(p) \/ SetParticipantCount(p) \/ Enrol(p)
  BY <1>3
  DEF Attach, ResetCount, ChooseCreate, ChooseJoin, EnterCreateHead, SetParticipantCount,
      Enrol, Announced, Repeating, Rewind, procVars
<1>4. CASE WriteField(p)
  <2>1. /\ pc[p] = "write" /\ next[p] = 7 /\ doing[p] = "create"
        /\ slot' = [slot EXCEPT ![CopyOrder[7]] = copy[p][CopyOrder[7]]]
    BY <1>4, OrderFacts DEF WriteField, SetSlot, Announced, Repeating
  <2>2. slot' = [slot EXCEPT !.is_valid = copy[p].is_valid]
    BY <2>1, OrderPlaces
  <2>3. /\ copy[p].is_valid /\ AccessOf(copy[p]) = Asked(p)
        /\ \A k \in 1..7 : k < 7 => slot[CopyOrder[k]] = copy[p][CopyOrder[k]]
    BY <2>1 DEF SerialOK, DraftOK
  <2>4. AccessOf(slot) = AccessOf(copy[p])
    BY <2>3 DEF AccessOf, CopyOrder
  <2>5. slot'.is_valid /\ AccessOf(slot') = Asked(p)
    BY <2>2, <2>3, <2>4 DEF ProposedEntry, AccessOf
  <2>6. pc[Fam] \in {"idle", "off"}
    BY <2>1 DEF SerialOK, QuietOK, Composing, Preparing
  <2>7. QED
    BY <2>5, <2>6 DEF Pending, AccessOf
<1>5. CASE JoinField(p)
  <2>1. /\ pc[p] = "join" /\ next[p] \in 1..7 /\ next[p] # 7 /\ granted' = granted
        /\ slot' = [slot EXCEPT ![JoinOrder[next[p]]] = JoinEntry(p)[JoinOrder[next[p]]]]
    BY <1>5 DEF JoinField, SetSlot, Announced, Repeating
  <2>2. pc'[p] = "join" /\ next'[p] = next[p] + 1
    BY <1>5, <2>1, OrderFacts DEF JoinField, Advance
  <2>3. next'[p] = 7
    BY <2>1, <2>2 DEF Announced, Repeating
  <2>4. next[p] = 6
    BY <2>1, <2>2, <2>3
  <2>5. slot' = [slot EXCEPT !.is_valid = TRUE]
    BY <2>1, <2>4, OrderPlaces, AskedIsProposable DEF JoinEntry
  <2>6. AccessOf(slot)' = Asked(p)'
    BY <2>2, <2>3 DEF SerialOK, JoinOK, Repeating
  <2>7. pc[Fam] \in {"idle", "off"}
    BY <2>1, <2>4 DEF SerialOK, QuietOK, Composing
  <2>8. QED
    BY <2>5, <2>6, <2>7 DEF Pending, ProposedEntry
<1>6. CASE LoadField(p) \/ StoreField(p)
  BY <1>6 DEF LoadField, StoreField, Announced, Repeating
<1>7. CASE WaitForVote(p) \/ Return(p)
  BY <1>7 DEF WaitForVote, Return, Announced, Repeating
<1>8. CASE InLock(p)
  BY <1>8
  DEF InLock, LockStep, OverrideCheck, OverrideWho, OverrideIdle, LockCheck, LockSet,
      LockWho, UnlockCheck, UnlockIdle, UnlockWho, procVars, Announced, Repeating, PlacesOK
<1>9. CASE Die(p)
  BY <1>9 DEF Die, Vanish, Announced, Repeating
<1>10. QED
  BY <1>2, <1>3, <1>4, <1>5, <1>6, <1>7, <1>8, <1>9 DEF HostStep

LEMMA KeptByHosts ==
  ASSUME Serial, PlacesOK, SlotOK, SoleOK, SerialOK, SerialOK', KeptOK, NEW p \in Hosts,
         Environment(p) \/ HostStep(p) \/ InLock(p) \/ Die(p),
         pc'[Fam] = pc[Fam], table' = table
  PROVE  KeptOK'
<1>1. /\ p \in Procs /\ p # Fam /\ Fam \in Procs /\ \A q \in Hosts : q \in Procs
      /\ pc \in [Procs -> HostLabels \cup FamLabels] /\ next \in [Procs -> 1..8]
      /\ doing \in [Procs -> {"none", "create", "join", "extend", "remove", "move"}]
  BY DriverAssumption DEF PlacesOK, SlotOK, Hosts
<1>2. \A q \in Procs : q # p => pc'[q] = pc[q] /\ next'[q] = next[q] /\ doing'[q] = doing[q]
  <2>1. CASE Die(p)
    BY <1>1, <2>1 DEF Die, Vanish, Rewind
  <2>2. CASE ~Die(p)
    BY <2>2, HostAlone DEF Alone
  <2>3. QED
    BY <2>1, <2>2
<1>3. granted' = granted \/ granted' = granted \cup {p}
  BY Zenon
  DEF Environment, HostStep, InLock, Launch, StartOperation, Attach, ResetCount,
      ChooseCreate, ChooseJoin, EnterCreateHead, SetParticipantCount, Enrol, WriteField,
      JoinField, LoadField, StoreField, WaitForVote, Return, Die, Vanish, procVars
<1>4. ASSUME NEW q \in Hosts, q \in granted' \/ Announced(q)' PROVE Kept(q)'
  <2>1. q \in granted \/ Announced(q) \/ Pending(q)'
    <3>1. CASE q = p
      BY <1>4, <3>1, AnnouncesAsked
    <3>2. CASE q # p
      BY <1>1, <1>2, <1>3, <1>4, <3>2 DEF Announced, Repeating
    <3>3. QED
      BY <3>1, <3>2
  <2>2. CASE Pending(q)'
    BY <2>2 DEF Kept
  <2>3. CASE Kept(q)
    <3>1. Pending(q) => Pending(q)'
      BY AnnouncedStays DEF Pending, AccessOf, Asked
    <3>2. QED
      BY <2>3, <3>1 DEF Kept, IsVictim, Asked
  <2>4. QED
    BY <2>1, <2>2, <2>3 DEF KeptOK
<1>5. QED
  BY <1>4 DEF KeptOK

(* For the FAM's steps: the hosts' part stays. *)
LEMMA KeptByFam ==
  ASSUME KeptOK, HostsStay, granted' = granted,
         \A q \in Hosts : Kept(q) => Kept(q)'
  PROVE  KeptOK'
<1>1. \A q \in Hosts : q \in granted' \/ Announced(q)' => q \in granted \/ Announced(q)
  BY DEF HostsStay, Announced, Repeating
<1>2. QED
  BY <1>1 DEF KeptOK

LEMMA KeptMoves ==
  ASSUME FitsDomains, PlacesOK, ScriptsOK, SlotOK, TableOK, SerialOK, RoomOK, KeptOK, FamMove
  PROVE  KeptOK'
<1>1. HostsStay /\ granted' = granted /\ slot' = slot
  BY FamAlone DEF FamStep, FamMove
<1>2. CASE table' = table /\ pc'[Fam] = "dead"
  <2>1. \A q \in Hosts : Kept(q) => Kept(q)'
    BY <1>1, <1>2 DEF Kept, IsVictim, Asked, Pending, AccessOf
  <2>2. QED
    BY <1>1, <2>1, KeptByFam
<1>3. CASE Access(table') = Access(table) \cup {AccessOf(slot)}
  <2>1. \A q \in Hosts : Kept(q) => Kept(q)'
    BY <1>3 DEF Kept, IsVictim, Asked, Pending
  <2>2. QED
    BY <1>1, <2>1, KeptByFam
<1>4. QED
  BY <1>2, <1>3, MoveGrants

(* A removal takes from nobody but a victim. *)
LEMMA KeptRemoves ==
  ASSUME PlacesOK, SlotOK, TableOK, SerialOK, KeptOK, FamRemove
  PROVE  KeptOK'
<1>1. HostsStay /\ granted' = granted /\ slot' = slot
  BY FamAlone DEF FamStep, FamRemove
<1>2. pc[Fam] = "remove"
  BY DEF FamRemove, Goto
<1>3. Revocable(copy[Fam]) /\ AccessOf(copy[Fam]) = AccessOf(slot)
  BY <1>2, FamTakesWhole
<1>4. \A q \in Hosts : IdOf[q] = copy[Fam].host => IsVictim(q)
  BY <1>3 DEF Revocable, IsVictim
<1>5. ASSUME NEW q \in Hosts, Kept(q) PROVE Kept(q)'
  <2>1. CASE IsVictim(q)
    BY <2>1 DEF Kept, IsVictim
  <2>2. CASE ~IsVictim(q)
    <3>1. IdOf[q] # copy[Fam].host
      BY <1>4, <2>2
    <3>2. Asked(q)[1] # copy[Fam].host /\ ~Pending(q)
      BY <1>3, <3>1 DEF Asked, AccessOf, Pending
    <3>3. Asked(q) \in Access(table)
      BY <1>5, <2>2, <3>2 DEF Kept
    <3>4. Asked(q) \in Access(table')
      BY <3>2, <3>3, RemoveTakes
    <3>5. QED
      BY <3>4 DEF Kept, Asked
  <2>3. QED
    BY <2>1, <2>2
<1>6. QED
  BY <1>1, <1>5, KeptByFam

LEMMA KeptFam ==
  ASSUME Serial, FitsDomains, PlacesOK, ScriptsOK, SlotOK, CountsOK, TableOK, SerialOK,
         RoomOK, KeptOK, FamStep \/ InLock(Fam) \/ FamDie \/ FamCut
  PROVE  KeptOK'
<1>1. /\ Fam \in Procs /\ HostsStay /\ pc \in [Procs -> HostLabels \cup FamLabels]
      /\ slot \in ProposedEntry
  BY FamAlone, DriverAssumption DEF PlacesOK, SlotOK
<1>2. ASSUME granted' = granted, table' = table,
             slot.is_valid /\ pc[Fam] # "clear" =>
               slot'.is_valid /\ pc'[Fam] # "clear" /\ AccessOf(slot') = AccessOf(slot)
      PROVE  KeptOK'
  <2>1. \A q \in Hosts : Kept(q) => Kept(q)'
    BY <1>2 DEF Kept, IsVictim, Asked, Pending, AccessOf
  <2>2. QED
    BY <1>1, <1>2, <2>1, KeptByFam
<1> USE <1>1 DEF Goto, AccessOf
<1>3. CASE FamPoll \/ FamVote
  <2>1. slot' = slot /\ table' = table /\ granted' = granted /\ pc'[Fam] # "clear"
    BY <1>3 DEF FamPoll, FamVote, headVars
  <2>2. QED
    BY <1>2, <2>1
<1>4. CASE FamRead
  <2>1. slot' = slot /\ table' = table /\ granted' = granted /\ pc'[Fam] # "clear"
    BY <1>4 DEF FamRead, headVars, PlacesOK
  <2>2. QED
    BY <1>2, <2>1
<1>5. CASE FamClearValid
  <2>1. pc[Fam] = "clear" /\ table' = table /\ granted' = granted
    BY <1>5 DEF FamClearValid, procVars
  <2>2. QED
    BY <1>2, <2>1
<1>6. CASE FamClearDel
  <2>1. /\ slot' = [slot EXCEPT !.is_del = FALSE] /\ table' = table /\ granted' = granted
        /\ pc'[Fam] # "clear"
    BY <1>6 DEF FamClearDel, SetSlot, procVars
  <2>2. slot'.is_valid = slot.is_valid /\ AccessOf(slot') = AccessOf(slot)
    BY <2>1 DEF ProposedEntry
  <2>3. QED
    BY <1>2, <2>1, <2>2
<1>7. CASE FamTally
  <2>1. slot' = slot /\ table' = table /\ granted' = granted /\ pc' = pc
    BY <1>7 DEF FamTally, lockVars
  <2>2. QED
    BY <1>2, <2>1
<1>8. CASE FamStart
  <2>1. /\ slot' = slot /\ table' = table /\ granted' = granted /\ pc'[Fam] # "clear"
    BY <1>8 DEF FamStart, procVars, RoomOK
  <2>2. QED
    BY <1>2, <2>1
<1>9. CASE InLock(Fam)
  <2>1. slot' = slot /\ table' = table /\ granted' = granted /\ pc'[Fam] # "clear"
    BY <1>9
    DEF InLock, LockStep, OverrideCheck, OverrideWho, OverrideIdle, LockCheck, LockSet,
        LockWho, UnlockCheck, UnlockIdle, UnlockWho, headVars, procVars
  <2>2. QED
    BY <1>2, <2>1
<1>10. CASE FamDie
  <2>1. slot' = slot /\ table' = table /\ granted' = granted /\ pc'[Fam] # "clear"
    BY <1>10 DEF FamDie, Vanish, headVars
  <2>2. QED
    BY <1>2, <2>1
<1>11. CASE FamCut
  <2>1. granted' = {} /\ \A q \in Hosts : pc'[q] \in AtRest
    BY <1>11 DEF FamCut, HostsStay
  <2>2. \A q \in Hosts : ~Announced(q)'
    BY <2>1 DEF Announced, Repeating, AtRest
  <2>3. QED
    BY <2>1, <2>2 DEF KeptOK
<1>12. QED
  BY <1>3, <1>4, <1>5, <1>6, <1>7, <1>8, <1>9, <1>10, <1>11, KeptMoves, KeptRemoves
  DEF FamStep

LEMMA KeptStep ==
  ASSUME Serial, FitsDomains, PlacesOK, ScriptsOK, ScriptsOK', SlotOK, CountsOK, TableOK,
         SoleOK, SerialOK, SerialOK', RoomOK, KeptOK, [Next]_vars
  PROVE  KeptOK'
<1>1. ASSUME NEW p \in Hosts, Environment(p) \/ HostStep(p) \/ InLock(p) \/ Die(p)
      PROVE  KeptOK'
  <2>1. pc'[Fam] = pc[Fam] /\ table' = table
    BY <1>1, HostOwes
  <2>2. QED
    BY <1>1, <2>1, KeptByHosts
<1>2. CASE FamStep \/ InLock(Fam) \/ FamDie \/ FamCut
  BY <1>2, KeptFam
<1>3. CASE UNCHANGED vars
  <2>1. UNCHANGED <<pc, slot, table, next, doing, granted>>
    BY <1>3 DEF vars, lockVars, headVars, procVars
  <2>2. \A q \in Hosts : (Kept(q) => Kept(q)') /\ (Announced(q)' => Announced(q))
    BY <2>1 DEF Kept, IsVictim, Asked, Pending, AccessOf, Announced, Repeating
  <2>3. QED
    BY <2>1, <2>2 DEF KeptOK
<1>4. \A p \in Procs : p = Fam \/ p \in Hosts
  BY DEF Hosts
<1>5. QED
  BY <1>1, <1>2, <1>3, <1>4 DEF Next, Deaths

(* Nothing is lost: with requests one at a time, once nothing is under way   *)
(* each host that has data_start_address has its access in the table, unless *)
(* a removal names it, whichever hosts were killed and however often a FAM   *)
(* died in the middle of an update.                                          *)
THEOREM SerialCalmIsComplete ==
  ASSUME OneAtATime, FitsDomains PROVE SpecFresh => []CalmIsComplete
<1>1. InitFresh => KeptOK
  <2>1. ASSUME InitFresh PROVE granted = {} /\ \A p \in Hosts : pc[p] = "off"
    BY <2>1 DEF InitFresh, ProcInit, Hosts
  <2>2. QED
    BY <2>1 DEF KeptOK, Announced, Repeating
<1>2. (/\ PlacesOK /\ ScriptsOK /\ SlotOK /\ CountsOK /\ TableOK /\ SoleOK /\ SerialOK
       /\ RoomOK /\ SerialOK' /\ KeptOK /\ [Next]_vars) => KeptOK'
  BY KeptStep, ScriptsStep DEF OneAtATime
<1>3. KeptOK /\ CountsOK => CalmIsComplete
  BY DEF KeptOK, CountsOK, Kept, Pending, CalmIsComplete, Calm
<1>4. QED
  BY <1>1, <1>2, <1>3, RoomInvariant, PTL DEF SpecFresh

-----------------------------------------------------------------------------
(* The FAM does not fail.                                                  *)

(* A range with a permission is what the table has an entry for. *)
Keys == {<<a[2], a[3]>> : a \in Proposable}

(* The index reaches as many entries as hosts may ask for, and main.cc's    *)
(* removal has two different hosts in it.                                    *)
FitsIndex == IsFiniteSet(Keys) /\ Cardinality(Keys) <= MaxParticipant

NobodyRemovesItself ==
  \A p \in Hosts : \A i \in DOMAIN Script[p] :
    Script[p][i].op = "remove" => Script[p][i].host # Script[p][i].initiator

KeyOf(e) == <<e.range, e.permission>>

(* No entry's key was overwritten, or mixed from two proposals. *)
KeysOK == \A i \in DOMAIN table : KeyOf(table[i]) \in Keys

LEMMA GrantableHasKey ==
  ASSUME NEW e, AccessOf(e) \in Proposable
  PROVE  KeyOf(e) \in Keys
<1>1. AccessOf(e)[2] = e.range /\ AccessOf(e)[3] = e.permission
  BY DEF AccessOf
<1>2. QED
  BY <1>1 DEF Keys, KeyOf

LEMMA KeysHaveRange ==
  ASSUME NEW e, KeyOf(e) \in Keys
  PROVE  e.range # ZeroRange
<1>1. PICK a \in Proposable : KeyOf(e) = <<a[2], a[3]>>
  BY DEF Keys
<1>2. e.range = a[2]
  BY <1>1 DEF KeyOf
<1>3. a[2] # ZeroRange
  <2>1. CASE \E p \in Hosts : a = Asked(p)
    BY <2>1, DriverAssumption, TableAssumption DEF Asked
  <2>2. CASE \E p \in Hosts : \E i \in DOMAIN Script[p] :
               /\ Script[p][i].op = "extend"
               /\ a = <<IdOf[p], Script[p][i].range, Script[p][i].permission>>
    <3>1. PICK p \in Hosts : \E i \in DOMAIN Script[p] :
             /\ Script[p][i].op = "extend"
             /\ a = <<IdOf[p], Script[p][i].range, Script[p][i].permission>>
      BY <2>2
    <3>2. PICK i \in DOMAIN Script[p] :
             /\ Script[p][i].op = "extend"
             /\ a = <<IdOf[p], Script[p][i].range, Script[p][i].permission>>
      BY <3>1
    <3>3. Script[p][i] \in Operation
      BY DriverAssumption
    <3>4. Script[p][i].range \in Ranges
      BY <3>2, <3>3 DEF Operation
    <3>5. QED
      BY <3>2, <3>4, TableAssumption
  <2>3. QED
    BY <2>1, <2>2 DEF Proposable
<1>4. QED
  BY <1>2, <1>3

(* As many entries as there are keys fit, and they have different keys. *)
LEMMA KeysFit ==
  ASSUME FitsIndex, table \in Seq(Entry), KeysAreDistinct(table), KeysOK,
         NEW e, KeyOf(e) \in Keys
  PROVE  ~IndexOverflows(table, e)
<1> SUFFICES ASSUME ~Mergeable(table, e) PROVE Len(table) + 1 <= MaxParticipant
  BY TableAssumption DEF IndexOverflows
<1> DEFINE n == Len(table)
           f == [i \in 1..(n + 1) |-> IF i = n + 1 THEN KeyOf(e) ELSE KeyOf(table[i])]
<1>1. n \in Nat /\ DOMAIN table = 1..n
  OBVIOUS
<1>2. \A i \in 1..n : KeyOf(table[i]) \in Keys /\ KeyOf(table[i]) # KeyOf(e)
  BY <1>1 DEF KeysOK, Mergeable, SameKey, KeyOf
<1>3. \A i, j \in 1..n : KeyOf(table[i]) = KeyOf(table[j]) => i = j
  BY <1>1, <1>2, KeysHaveRange DEF KeysAreDistinct, KeyOf
<1> HIDE DEF n
<1>4. f \in [1..(n + 1) -> Keys]
  BY <1>1, <1>2
<1>5. \A i, j \in 1..(n + 1) : f[i] = f[j] => i = j
  BY <1>1, <1>2, <1>3
<1>6. f \in Injection(1..(n + 1), Keys)
  BY <1>4, <1>5 DEF Injection, IsInjective
<1> HIDE DEF f
<1>7. Cardinality(1..(n + 1)) <= Cardinality(Keys)
  BY <1>6, FS_Injection DEF FitsIndex
<1>8. Cardinality(1..(n + 1)) = n + 1
  BY <1>1, FS_Interval
<1>9. Cardinality(Keys) \in Nat
  BY FS_CardinalityType DEF FitsIndex
<1>10. QED
  BY <1>1, <1>7, <1>8, <1>9, TableAssumption DEF FitsIndex, n

(* An addition brings no key but the proposal's. *)
LEMMA AdditionKeys ==
  ASSUME NEW t \in Seq(Entry), NEW d \in Nat, NEW e, IsRequest(e), HasRoom(t, e)
  PROVE  \A i \in DOMAIN Populate(t, d, e) :
           \/ KeyOf(Populate(t, d, e)[i]) = KeyOf(e)
           \/ i \in DOMAIN t /\ KeyOf(Populate(t, d, e)[i]) = KeyOf(t[i])
<1>1. CASE Mergeable(t, e)
  <2>1. Populate(t, d, e) =
          [i \in DOMAIN t |-> IF IsMergeTarget(t, i, e) THEN AddContext(t[i], e.host)
                              ELSE t[i]]
    BY <1>1 DEF Populate
  <2>2. ASSUME NEW i \in DOMAIN t, IsMergeTarget(t, i, e)
        PROVE  KeyOf(AddContext(t[i], e.host)) = KeyOf(t[i])
    <3>1. t[i] \in Entry /\ t[i].used \in Slots
      BY <2>2 DEF HasRoom, IsMergeTarget
    <3>2. AddContext(t[i], e.host) =
            [t[i] EXCEPT !.context[t[i].used] = e.host, !.used = t[i].used + 1]
      BY <3>1 DEF AddContext
    <3>3. QED
      BY <3>1, <3>2 DEF Entry, KeyOf
  <2>3. QED
    BY <2>1, <2>2
<1>2. CASE ~Mergeable(t, e)
  <2>1. PICK x \in Entry : Populate(t, d, e) = Append(t, x) /\ KeyOf(x) = KeyOf(e)
    BY <1>2, AppendFacts DEF KeyOf
  <2>2. \A i \in DOMAIN Append(t, x) : \/ i \in DOMAIN t /\ Append(t, x)[i] = t[i]
                                       \/ Append(t, x)[i] = x
    OBVIOUS
  <2>3. QED
    BY <2>1, <2>2
<1>3. QED
  BY <1>1, <1>2

(* What the FAM adds has a key that hosts may ask for. *)
LEMMA CopyHasKey ==
  ASSUME PlacesOK, SlotOK, SerialOK, pc[Fam] = "move"
  PROVE  KeyOf(copy[Fam]) \in Keys
<1>1. AccessOf(copy[Fam]) \in Proposable
  BY FamTakesWhole DEF Grantable
<1>2. QED
  BY <1>1, GrantableHasKey

LEMMA KeysStep ==
  ASSUME FitsDomains, PlacesOK, ScriptsOK, SlotOK, TableOK, SerialOK, RoomOK, KeysOK,
         [Next]_vars
  PROVE  KeysOK'
<1>1. table \in Seq(Entry) /\ domains \in Nat
  BY DEF TableOK
<1>2. CASE FamMove
  <2>1. KeyOf(copy[Fam]) \in Keys
    BY <1>2, CopyHasKey DEF FamMove, Goto
  <2>2. HasRoom(table, copy[Fam]) /\ IsRequest(copy[Fam])
    BY <1>1, <1>2, MoveHasRoom, AdditionCounts
  <2>3. table' = table \/ table' = Populate(table, domains, copy[Fam])
    BY <1>2 DEF FamMove
  <2>4. \A i \in DOMAIN table' :
          \/ KeyOf(table'[i]) = KeyOf(copy[Fam])
          \/ i \in DOMAIN table /\ KeyOf(table'[i]) = KeyOf(table[i])
    BY <1>1, <2>2, <2>3, AdditionKeys
  <2>5. QED
    BY <2>1, <2>4 DEF KeysOK
<1>3. CASE FamRemove
  <2>1. IsRequest(copy[Fam])
    BY <1>3, FamTakesWhole DEF FamRemove, Goto
  <2>2. table' = table \/ table' = Remove(table, copy[Fam])
    BY <1>3 DEF FamRemove
  <2>3. DOMAIN table = 1..Len(table)
    BY <1>1
  <2>4. \A i \in DOMAIN table' : i \in DOMAIN table /\ KeyOf(table'[i]) = KeyOf(table[i])
    BY <1>1, <2>1, <2>2, <2>3, RemoveFacts DEF KeyOf
  <2>5. QED
    BY <2>4 DEF KeysOK
<1>4. CASE FamCut \/ FamStart
  <2>1. table' = <<>>
    BY <1>4 DEF FamCut, FamStart
  <2>2. QED
    BY <2>1 DEF KeysOK
<1>5. CASE table' = table
  BY <1>5 DEF KeysOK
<1>6. QED
  BY <1>2, <1>3, <1>4, <1>5, TableIsFams

LEMMA NeverFailsFam ==
  ASSUME FitsDomains, FitsIndex, NobodyRemovesItself,
         PlacesOK, SlotOK, TableOK, SerialOK, KeysOK, FamNeverFails,
         FamStep \/ InLock(Fam) \/ FamDie \/ FamCut
  PROVE  FamNeverFails'
<1>1. Fam \in Procs /\ pc \in [Procs -> HostLabels \cup FamLabels]
  BY DriverAssumption DEF PlacesOK
<1>2. /\ table \in Seq(Entry) /\ KeysAreDistinct(table)
  BY DEF TableOK, CountersAgree
<1> USE <1>1 DEF Goto, FamNeverFails
<1>3. CASE FamMove
  <2>1. KeyOf(copy[Fam]) \in Keys
    BY <1>3, CopyHasKey DEF FamMove
  <2>2. ~IndexOverflows(table, copy[Fam])
    BY <1>2, <2>1, KeysFit
  <2>3. QED
    BY <1>3, <2>2 DEF FamMove
<1>4. CASE FamRemove
  <2>1. Revocable(copy[Fam])
    BY <1>4, FamTakesWhole DEF FamRemove
  <2>2. copy[Fam].initiator # copy[Fam].host
    BY <2>1 DEF Revocable, NobodyRemovesItself
  <2>3. QED
    BY <1>4, <2>2 DEF FamRemove, RemoveFatal
<1>5. CASE FamPoll \/ FamVote \/ FamClearValid \/ FamClearDel \/ FamStart
  BY <1>5 DEF FamPoll, FamVote, FamClearValid, FamClearDel, FamStart
<1>6. CASE FamRead
  BY <1>6 DEF FamRead, PlacesOK
<1>7. CASE FamTally
  BY <1>7 DEF FamTally, lockVars
<1>8. CASE InLock(Fam)
  BY <1>8
  DEF InLock, LockStep, OverrideCheck, OverrideWho, OverrideIdle, LockCheck, LockSet,
      LockWho, UnlockCheck, UnlockIdle, UnlockWho
<1>9. CASE FamDie \/ FamCut
  BY <1>9 DEF FamDie, FamCut, Vanish
<1>10. QED
  BY <1>3, <1>4, <1>5, <1>6, <1>7, <1>8, <1>9 DEF FamStep

LEMMA NeverFailsStep ==
  ASSUME Serial, FitsDomains, FitsIndex, NobodyRemovesItself,
         PlacesOK, ScriptsOK, ScriptsOK', SlotOK, TableOK, SoleOK, SerialOK, KeysOK,
         FamNeverFails, [Next]_vars
  PROVE  FamNeverFails'
<1>1. ASSUME NEW p \in Hosts, Environment(p) \/ HostStep(p) \/ InLock(p) \/ Die(p)
      PROVE  FamNeverFails'
  BY <1>1, HostOwes DEF FamNeverFails
<1>2. CASE UNCHANGED vars
  BY <1>2 DEF vars, lockVars, FamNeverFails
<1>3. \A p \in Procs : p = Fam \/ p \in Hosts
  BY DEF Hosts
<1>4. QED
  BY <1>1, <1>2, <1>3, NeverFailsFam DEF Next, Deaths

(* The FAM never ends in its fatal() or its assert: with requests one at a   *)
(* time no proposal mixes with another, so a removal has the two hosts that  *)
(* its program gave it, and the table has no more entries than there are     *)
(* ranges, each with a permission, that hosts ask for, and those fit.        *)
THEOREM SerialFamNeverFails ==
  ASSUME OneAtATime, FitsDomains, FitsIndex, NobodyRemovesItself
  PROVE  SpecFresh => []FamNeverFails
<1>1. InitFresh => KeysOK /\ FamNeverFails
  BY DriverAssumption DEF InitFresh, ProcInit, KeysOK, FamNeverFails
<1>2. (/\ PlacesOK /\ ScriptsOK /\ SlotOK /\ TableOK /\ SoleOK /\ SerialOK /\ RoomOK
       /\ KeysOK /\ FamNeverFails /\ [Next]_vars) => (KeysOK /\ FamNeverFails)'
  BY KeysStep, NeverFailsStep, ScriptsStep DEF OneAtATime
<1>3. QED
  BY <1>1, <1>2, RoomInvariant, PTL DEF SpecFresh
=============================================================================
