------------------------- MODULE PermissionOpsProofs ------------------------
(***************************************************************************)
(* What populate_table_entry() and remove_table_entry() do to a table, for *)
(* every table and every proposal they may be given: the shape, the ids    *)
(* and the keys of the entries, and the accesses the table stands for.     *)
(* PermissionTableProofs and MetadataDriverProofs rest on these facts.     *)
(***************************************************************************)
EXTENDS PermissionOps, TLAPS

(* What the table functions read of a proposal.  A proposal that the FAM    *)
(* copied while it was being written may have the zero range.               *)
IsRequest(prop) ==
  /\ prop.host \in Nat /\ prop.used \in Nat
  /\ prop.range \in Ranges \cup {ZeroRange} /\ prop.permission \in BOOLEAN

-----------------------------------------------------------------------------
(* Ids, keys and types.                                                    *)

(* A context added to an entry keeps the entry's shape and its id.  It      *)
(* keeps the key too, unless the array was full and the range was zeroed.   *)
LEMMA AddContextFacts ==
  ASSUME NEW e \in Entry, NEW h \in Nat
  PROVE  /\ AddContext(e, h) \in Entry
         /\ AddContext(e, h).id = e.id
         /\ \/ /\ AddContext(e, h).range = e.range
               /\ AddContext(e, h).permission = e.permission
            \/ AddContext(e, h).range = ZeroRange
<1>1. /\ e = [id |-> e.id, context |-> e.context, used |-> e.used,
              range |-> e.range, permission |-> e.permission]
      /\ e.id \in Nat /\ e.context \in [Slots -> HostIds] /\ e.used \in Nat
      /\ e.range \in Ranges \cup {ZeroRange} /\ e.permission \in BOOLEAN
  BY DEF Entry
<1>2. CASE e.used \in Slots
  <2> DEFINE ctx == [e.context EXCEPT ![e.used] = h]
  <2>1. AddContext(e, h) =
          [id |-> e.id, context |-> ctx, used |-> e.used + 1,
           range |-> e.range, permission |-> e.permission]
    BY <1>1, <1>2 DEF AddContext
  <2>2. ctx \in [Slots -> HostIds]
    BY <1>1, <1>2 DEF HostIds
  <2> HIDE DEF ctx
  <2>3. QED
    BY <1>1, <2>1, <2>2 DEF Entry
<1>3. CASE e.used \notin Slots
  <2>1. AddContext(e, h) =
          [id |-> e.id, context |-> e.context, used |-> h + 1,
           range |-> ZeroRange, permission |-> FALSE]
    BY <1>1, <1>3 DEF AddContext
  <2>2. QED
    BY <1>1, <2>1 DEF Entry
<1>4. QED
  BY <1>2, <1>3

(* A new entry is well formed and has the domain id and the key it was      *)
(* made for.                                                                *)
LEMMA NewEntryFacts ==
  ASSUME NEW d \in Nat, NEW prop, IsRequest(prop), NEW valid \in Nat
  PROVE  /\ NewEntry(d, prop, valid) \in Entry
         /\ NewEntry(d, prop, valid).id = d
         /\ NewEntry(d, prop, valid).range = prop.range
         /\ NewEntry(d, prop, valid).permission = prop.permission
<1>1. [s \in Slots |-> IF s = 0 THEN prop.host ELSE 0] \in [Slots -> HostIds]
  BY DEF IsRequest, HostIds
<1>2. QED
  BY <1>1 DEF NewEntry, Entry, IsRequest

(* What a merge makes of the table: the same length, and at each place the  *)
(* old entry or the old entry with one more context.                        *)
LEMMA MergeFacts ==
  ASSUME NEW t \in Seq(Entry), NEW d \in Nat, NEW prop, IsRequest(prop),
         Mergeable(t, prop)
  PROVE  /\ Populate(t, d, prop) \in Seq(Entry)
         /\ Len(Populate(t, d, prop)) = Len(t)
         /\ \A i \in 1..Len(t) :
              /\ Populate(t, d, prop)[i].id = t[i].id
              /\ \/ /\ Populate(t, d, prop)[i].range = t[i].range
                    /\ Populate(t, d, prop)[i].permission = t[i].permission
                 \/ Populate(t, d, prop)[i].range = ZeroRange
<1> DEFINE new(i) == IF IsMergeTarget(t, i, prop)
                     THEN AddContext(t[i], prop.host) ELSE t[i]
<1>1. Populate(t, d, prop) = [i \in 1..Len(t) |-> new(i)]
  BY DEF Populate
<1>2. ASSUME NEW i \in 1..Len(t)
      PROVE  /\ new(i) \in Entry
             /\ new(i).id = t[i].id
             /\ \/ new(i).range = t[i].range /\ new(i).permission = t[i].permission
                \/ new(i).range = ZeroRange
  <2>1. t[i] \in Entry /\ prop.host \in Nat
    BY DEF IsRequest
  <2>2. QED
    BY <2>1, AddContextFacts
<1> HIDE DEF new
<1>3. [i \in 1..Len(t) |-> new(i)] \in Seq(Entry)
  BY <1>2
<1>4. QED
  BY <1>1, <1>2, <1>3

(* Without an entry to merge into, the table grows by one entry at its end. *)
LEMMA AppendFacts ==
  ASSUME NEW t \in Seq(Entry), NEW d \in Nat, NEW prop, IsRequest(prop),
         ~Mergeable(t, prop)
  PROVE  \E e \in Entry : /\ Populate(t, d, prop) = Append(t, e)
                          /\ e.id = d
                          /\ e.range = prop.range
                          /\ e.permission = prop.permission
<1> DEFINE valid == IF t = <<>> THEN 1 ELSE prop.used
<1>1. valid \in Nat
  BY TableAssumption DEF IsRequest
<1>2. Populate(t, d, prop) = Append(t, NewEntry(d, prop, valid))
  BY DEF Populate
<1> HIDE DEF valid
<1>3. QED
  BY <1>1, <1>2, NewEntryFacts

(* A removal only changes host ids inside the entries. *)
LEMMA RemoveFacts ==
  ASSUME NEW t \in Seq(Entry), NEW prop, IsRequest(prop)
  PROVE  /\ Remove(t, prop) \in Seq(Entry)
         /\ Len(Remove(t, prop)) = Len(t)
         /\ \A i \in 1..Len(t) :
              /\ Remove(t, prop)[i].id = t[i].id
              /\ Remove(t, prop)[i].range = t[i].range
              /\ Remove(t, prop)[i].permission = t[i].permission
<1> DEFINE ctx(i) == [s \in Slots |-> IF Victim(t[i], s, prop)
                                      THEN FAM_ID ELSE t[i].context[s]]
           new(i) == [t[i] EXCEPT !.context = ctx(i)]
<1>1. Remove(t, prop) = [i \in 1..Len(t) |-> new(i)]
  BY DEF Remove
<1>2. ASSUME NEW i \in 1..Len(t)
      PROVE  /\ new(i) \in Entry
             /\ new(i).id = t[i].id
             /\ new(i).range = t[i].range
             /\ new(i).permission = t[i].permission
  <2>1. t[i] \in Entry
    OBVIOUS
  <2>2. ctx(i) \in [Slots -> HostIds]
    BY <2>1 DEF Entry, HostIds
  <2> HIDE DEF ctx
  <2>3. QED
    BY <2>1, <2>2 DEF Entry
<1> HIDE DEF new
<1>3. [i \in 1..Len(t) |-> new(i)] \in Seq(Entry)
  BY <1>2
<1>4. QED
  BY <1>1, <1>2, <1>3

(* An addition that the table takes.  A merge keeps ids and keys in place;  *)
(* a new entry gets the next id and a key that no entry had.                *)
LEMMA PopulateStep ==
  ASSUME NEW t \in Seq(Entry), NEW prop, IsRequest(prop),
         IdsArePositions(t), KeysAreDistinct(t)
  PROVE  LET n == Populate(t, Len(t), prop)
         IN /\ n \in Seq(Entry)
            /\ DomainsAfter(t, Len(t), prop) = Len(n)
            /\ IdsArePositions(n)
            /\ KeysAreDistinct(n)
<1> DEFINE n == Populate(t, Len(t), prop)
<1>1. CASE Mergeable(t, prop)
  <2>1. /\ n \in Seq(Entry)
        /\ Len(n) = Len(t)
        /\ \A i \in 1..Len(t) :
             /\ n[i].id = t[i].id
             /\ \/ /\ n[i].range = t[i].range
                   /\ n[i].permission = t[i].permission
                \/ n[i].range = ZeroRange
    BY <1>1, MergeFacts
  <2> HIDE DEF n
  <2>2. IdsArePositions(n)
    BY <2>1 DEF IdsArePositions
  <2>3. KeysAreDistinct(n)
    BY <2>1 DEF KeysAreDistinct
  <2>4. DomainsAfter(t, Len(t), prop) = Len(n)
    BY <1>1, <2>1 DEF DomainsAfter
  <2>5. QED
    BY <2>1, <2>2, <2>3, <2>4 DEF n
<1>2. CASE ~Mergeable(t, prop)
  <2>1. PICK e \in Entry : /\ n = Append(t, e)
                           /\ e.id = Len(t)
                           /\ e.range = prop.range
                           /\ e.permission = prop.permission
    <3>1. Len(t) \in Nat
      OBVIOUS
    <3>2. QED
      BY <1>2, <3>1, AppendFacts
  <2> HIDE DEF n
  <2>2. /\ n \in Seq(Entry)
        /\ Len(n) = Len(t) + 1
        /\ \A i \in 1..Len(t) : n[i] = t[i]
        /\ n[Len(t) + 1] = e
    BY <2>1
  <2>3. IdsArePositions(n)
    BY <2>1, <2>2 DEF IdsArePositions
  <2>4. \A i \in 1..Len(t) : ~(/\ t[i].range = e.range
                              /\ t[i].permission = e.permission)
    BY <1>2, <2>1 DEF Mergeable, SameKey
  <2>5. KeysAreDistinct(n)
    BY <2>2, <2>4 DEF KeysAreDistinct
  <2>6. DomainsAfter(t, Len(t), prop) = Len(n)
    BY <1>2, <2>2 DEF DomainsAfter
  <2>7. QED
    BY <2>2, <2>3, <2>5, <2>6 DEF n
<1>3. QED
  BY <1>1, <1>2

-----------------------------------------------------------------------------
(* What the operators do to the accesses that the table stands for.        *)

(* The accesses of one entry. *)
Rights(e) == {<<e.context[s], e.range, e.permission>> : s \in LiveSlots(e)}

LEMMA AccessMember ==
  ASSUME NEW t, NEW a
  PROVE  a \in Access(t) <=> \E i \in DOMAIN t : a \in Rights(t[i])
<1> DEFINE right(i, s) == <<t[i].context[s], t[i].range, t[i].permission>>
           places == {r \in (DOMAIN t) \X Slots : r[2] \in LiveSlots(t[r[1]])}
<1>1. Access(t) = {right(q[1], q[2]) : q \in places}
  BY DEF Access
<1>2. \A i : Rights(t[i]) = {right(i, s) : s \in LiveSlots(t[i])}
  BY DEF Rights
<1>3. \A i \in DOMAIN t : \A s \in LiveSlots(t[i]) :
        /\ <<i, s>> \in places
        /\ <<i, s>>[1] = i /\ <<i, s>>[2] = s
  BY DEF LiveSlots
<1>4. \A q \in places : q[1] \in DOMAIN t /\ q[2] \in LiveSlots(t[q[1]])
  OBVIOUS
<1> HIDE DEF right, places
<1>5. ASSUME NEW i \in DOMAIN t, a \in Rights(t[i]) PROVE a \in Access(t)
  <2>1. PICK s \in LiveSlots(t[i]) : a = right(i, s)
    BY <1>2, <1>5
  <2>2. a = right(<<i, s>>[1], <<i, s>>[2])
    BY <1>3, <2>1
  <2>3. QED
    BY <1>1, <1>3, <2>2
<1>6. ASSUME a \in Access(t) PROVE \E i \in DOMAIN t : a \in Rights(t[i])
  <2>1. PICK q \in places : a = right(q[1], q[2])
    BY <1>1, <1>6
  <2>2. q[1] \in DOMAIN t /\ q[2] \in LiveSlots(t[q[1]])
    BY <1>4
  <2>3. a \in Rights(t[q[1]])
    BY <1>2, <2>1, <2>2
  <2>4. QED
    BY <2>2, <2>3
<1>7. QED
  BY <1>5, <1>6

LEMMA RightsAdd ==
  ASSUME NEW e \in Entry, NEW h \in Nat, e.range # ZeroRange
  PROVE  Rights(AddContext(e, h)) =
           IF e.used \in Slots
           THEN Rights(e) \cup {<<h, e.range, e.permission>>} ELSE {}
<1>1. /\ e = [id |-> e.id, context |-> e.context, used |-> e.used,
              range |-> e.range, permission |-> e.permission]
      /\ e.context \in [Slots -> HostIds] /\ e.used \in Nat
  BY DEF Entry
<1>2. CASE e.used \in Slots
  <2> DEFINE f == AddContext(e, h)
  <2>1. /\ f.used = e.used + 1 /\ f.range = e.range /\ f.permission = e.permission
        /\ f.context = [e.context EXCEPT ![e.used] = h]
    BY <1>1, <1>2 DEF AddContext
  <2>2. /\ f.context[e.used] = h
        /\ \A s \in Slots : s # e.used => f.context[s] = e.context[s]
    BY <1>1, <1>2, <2>1
  <2> HIDE DEF f
  <2>3. h # FAM_ID
    BY DEF FAM_ID
  <2>4. LiveSlots(f) = LiveSlots(e) \cup {e.used}
    BY <1>1, <1>2, <2>1, <2>2, <2>3 DEF LiveSlots, Slots
  <2>5. e.used \notin LiveSlots(e) /\ LiveSlots(e) \subseteq Slots
    BY <1>1 DEF LiveSlots
  <2>6. Rights(f) = Rights(e) \cup {<<h, e.range, e.permission>>}
    BY <2>1, <2>2, <2>4, <2>5 DEF Rights
  <2>7. QED
    BY <1>2, <2>6 DEF f
<1>3. CASE e.used \notin Slots
  <2>1. AddContext(e, h).range = ZeroRange
    BY <1>1, <1>3 DEF AddContext
  <2>2. QED
    BY <1>3, <2>1 DEF Rights, LiveSlots
<1>4. QED
  BY <1>2, <1>3

LEMMA RightsNew ==
  ASSUME NEW d \in Nat, NEW prop, IsRequest(prop), prop.range # ZeroRange
  PROVE  Rights(NewEntry(d, prop, 1)) = {<<prop.host, prop.range, prop.permission>>}
<1> DEFINE e == NewEntry(d, prop, 1)
<1>1. /\ e.used = 1 /\ e.range = prop.range /\ e.permission = prop.permission
      /\ e.context = [s \in Slots |-> IF s = 0 THEN prop.host ELSE 0]
  BY DEF NewEntry
<1>2. 0 \in Slots /\ prop.host # FAM_ID /\ prop.range # ZeroRange
  BY TableAssumption DEF Slots, IsRequest, FAM_ID
<1> HIDE DEF e
<1>3. e.context[0] = prop.host
  BY <1>1, <1>2
<1>4. \A s \in Slots : s < 1 <=> s = 0
  BY DEF Slots
<1>5. LiveSlots(e) = {0}
  BY <1>1, <1>2, <1>3, <1>4 DEF LiveSlots
<1>6. QED
  BY <1>1, <1>3, <1>5 DEF Rights, e

(* The domain of the proposal's range and permission, if there is one, has  *)
(* a context left.                                                           *)
HasRoom(t, prop) == \A i \in DOMAIN t : SameKey(t[i], prop) => t[i].used \in Slots

(* An addition that the index has room for does one of two things to the    *)
(* accesses, exactly: the one that was asked for is there as well, or the    *)
(* domain it should have joined was full and is gone.                        *)
THEOREM AdditionIsExact ==
  ASSUME NEW t \in Seq(Entry), KeysAreDistinct(t), NEW d \in Nat,
         NEW prop, IsRequest(prop), prop.range # ZeroRange, prop.used = 1
  PROVE  Access(Populate(t, d, prop)) =
           IF HasRoom(t, prop)
           THEN Access(t) \cup {<<prop.host, prop.range, prop.permission>>}
           ELSE {a \in Access(t) : ~(a[2] = prop.range /\ a[3] = prop.permission)}
<1> DEFINE t2 == Populate(t, d, prop)
           g == <<prop.host, prop.range, prop.permission>>
<1>1. prop.range # ZeroRange /\ prop.host \in Nat
  BY DEF IsRequest
<1>2. CASE Mergeable(t, prop)
  <2>1. PICK k \in DOMAIN t : SameKey(t[k], prop)
    BY <1>2 DEF Mergeable
  <2>2. \A i \in DOMAIN t : SameKey(t[i], prop) => i = k
    BY <1>1, <2>1 DEF SameKey, KeysAreDistinct
  <2>3. \A i \in DOMAIN t : IsMergeTarget(t, i, prop) <=> i = k
    BY <2>1, <2>2 DEF IsMergeTarget
  <2>4. /\ DOMAIN t2 = DOMAIN t
        /\ t2[k] = AddContext(t[k], prop.host)
        /\ \A i \in DOMAIN t : i # k => t2[i] = t[i]
    BY <1>2, <2>1, <2>3 DEF Populate
  <2>5. /\ t[k] \in Entry /\ t[k].range = prop.range /\ t[k].range # ZeroRange
        /\ t[k].permission = prop.permission
    BY <1>1, <2>1 DEF SameKey
  <2> HIDE DEF t2
  <2>6. CASE t[k].used \in Slots
    <3>1. Rights(t2[k]) = Rights(t[k]) \cup {g}
      BY <1>1, <2>4, <2>5, <2>6, RightsAdd
    <3> HIDE DEF g
    <3>2. \A a : a \in Access(t2) <=> a \in Access(t) \/ a = g
      BY <2>1, <2>4, <3>1, AccessMember
    <3>3. Access(t2) = Access(t) \cup {g}
      BY <3>2
    <3>4. HasRoom(t, prop)
      BY <2>2, <2>6 DEF HasRoom
    <3>5. QED
      BY <3>3, <3>4 DEF t2, g
  <2>7. CASE t[k].used \notin Slots
    <3>1. Rights(t2[k]) = {}
      BY <1>1, <2>4, <2>5, <2>7, RightsAdd
    <3>2. \A i \in DOMAIN t : \A a \in Rights(t[i]) :
             a[2] = prop.range /\ a[3] = prop.permission <=> i = k
      BY <2>1, <2>2, <2>5 DEF Rights, SameKey
    <3>3. \A a : a \in Access(t2) <=>
                 a \in Access(t) /\ ~(a[2] = prop.range /\ a[3] = prop.permission)
      BY <2>1, <2>4, <3>1, <3>2, AccessMember
    <3>4. Access(t2) = {a \in Access(t) : ~(a[2] = prop.range /\ a[3] = prop.permission)}
      BY <3>3
    <3>5. ~HasRoom(t, prop)
      BY <2>1, <2>7 DEF HasRoom
    <3>6. QED
      BY <3>4, <3>5 DEF t2
  <2>8. QED
    BY <2>6, <2>7
<1>3. CASE ~Mergeable(t, prop)
  <2>1. t2 = Append(t, NewEntry(d, prop, 1))
    BY <1>3 DEF Populate
  <2>2. /\ DOMAIN t2 = DOMAIN t \cup {Len(t) + 1}
        /\ t2[Len(t) + 1] = NewEntry(d, prop, 1)
        /\ \A i \in DOMAIN t : t2[i] = t[i]
    <3>1. NewEntry(d, prop, 1) \in Entry
      BY NewEntryFacts
    <3>2. QED
      BY <2>1, <3>1
  <2>3. Rights(t2[Len(t) + 1]) = {g}
    BY <2>2, RightsNew
  <2> HIDE DEF t2, g
  <2>4. \A a : a \in Access(t2) <=> a \in Access(t) \/ a = g
    BY <2>2, <2>3, AccessMember
  <2>5. Access(t2) = Access(t) \cup {g}
    BY <2>4
  <2>6. HasRoom(t, prop)
    BY <1>3 DEF HasRoom, Mergeable
  <2>7. QED
    BY <2>5, <2>6 DEF t2, g
<1>4. QED
  BY <1>2, <1>3

(* A removal takes from the victim all it had on the range, under either    *)
(* permission, in every domain and every merged copy, and nothing else.      *)
THEOREM RemovalIsExact ==
  ASSUME NEW t \in Seq(Entry), NEW prop, IsRequest(prop)
  PROVE  Access(Remove(t, prop)) =
           {a \in Access(t) : ~(a[1] = prop.host /\ a[2] = prop.range)}
<1> DEFINE t2 == Remove(t, prop)
<1>1. /\ DOMAIN t2 = DOMAIN t
      /\ \A i \in DOMAIN t :
           t2[i] = [t[i] EXCEPT !.context =
                     [s \in Slots |-> IF Victim(t[i], s, prop)
                                      THEN FAM_ID ELSE t[i].context[s]]]
  BY DEF Remove
<1>2. ASSUME NEW i \in DOMAIN t
      PROVE  \A a : a \in Rights(t2[i]) <=>
                   a \in Rights(t[i]) /\ ~(a[1] = prop.host /\ a[2] = prop.range)
  <2>1. t[i] = [id |-> t[i].id, context |-> t[i].context, used |-> t[i].used,
                range |-> t[i].range, permission |-> t[i].permission]
    <3>1. t[i] \in Entry
      OBVIOUS
    <3>2. QED
      BY <3>1 DEF Entry
  <2>2. /\ t2[i].used = t[i].used /\ t2[i].range = t[i].range
        /\ t2[i].permission = t[i].permission
        /\ \A s \in Slots : t2[i].context[s] =
              IF Victim(t[i], s, prop) THEN FAM_ID ELSE t[i].context[s]
    BY <1>1, <2>1
  <2> HIDE DEF t2
  <2>3. \A s : s \in LiveSlots(t2[i]) <=> s \in LiveSlots(t[i]) /\ ~Victim(t[i], s, prop)
    BY <2>2 DEF LiveSlots
  <2>4. \A s \in LiveSlots(t2[i]) : t2[i].context[s] = t[i].context[s]
    BY <2>2, <2>3 DEF LiveSlots
  <2>5. QED
    BY <2>2, <2>3, <2>4 DEF Rights, Victim
<1> HIDE DEF t2
<1>3. \A a : a \in Access(t2) <=>
             a \in Access(t) /\ ~(a[1] = prop.host /\ a[2] = prop.range)
  BY <1>1, <1>2, AccessMember
<1>4. Access(t2) = {a \in Access(t) : ~(a[1] = prop.host /\ a[2] = prop.range)}
  BY <1>3
<1>5. QED
  BY <1>4 DEF t2
=============================================================================
