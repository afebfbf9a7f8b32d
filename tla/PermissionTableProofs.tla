----------------------- MODULE PermissionTableProofs -----------------------
(***************************************************************************)
(* The invariants of PermissionTable, for every table size, every number   *)
(* of contexts per domain, every set of hosts and ranges and any number of *)
(* requests, and that it implements AccessControl.  The conjunction IndInv *)
(* is inductive; the theorems about invariants are its parts.              *)
(***************************************************************************)
EXTENDS PermissionTable, PermissionOpsProofs

IndInv == TypeOK /\ DomainsUnique /\ KeysDistinct

-----------------------------------------------------------------------------
(* The invariant.                                                          *)

(* Every request is a proposal for a range that hosts ask for. *)
LEMMA RequestsAreProposals ==
  ASSUME NEW prop \in Additions \cup Removals
  PROVE  IsRequest(prop) /\ prop.used = 1 /\ prop.range \in Ranges
<1>1. Hosts \subseteq Nat
  BY TableAssumption, RequestAssumption DEF Slots
<1>2. /\ prop.host \in Hosts /\ prop.used = 1 /\ prop.range \in Ranges
      /\ prop.permission \in BOOLEAN
  BY DEF Additions, Removals
<1>3. prop.host \in Nat
  BY <1>1, <1>2
<1>4. prop.used \in Nat
  BY <1>2
<1>5. IsRequest(prop)
  BY <1>2, <1>3, <1>4 DEF IsRequest
<1>6. QED
  BY <1>2, <1>5

LEMMA InitEstablishes == Init => IndInv
<1> SUFFICES ASSUME Init PROVE IndInv
  OBVIOUS
<1>1. table \in Seq(Entry) /\ Len(table) = 0 /\ DOMAIN table = {}
  BY DEF Init
<1>2. TypeOK
  BY <1>1, RequestAssumption DEF Init, TypeOK
<1>3. DomainsUnique /\ KeysDistinct
  BY <1>1 DEF Init, DomainsUnique, IdsArePositions, KeysDistinct, KeysAreDistinct
<1>4. QED
  BY <1>2, <1>3 DEF IndInv

LEMMA MoveStep ==
  ASSUME IndInv, NEW prop \in Additions, Move(prop)
  PROVE  IndInv'
<1>1. IsRequest(prop)
  BY RequestsAreProposals
<1>2. /\ running /\ requests' \in 0..MaxRequests /\ running' \in BOOLEAN
  BY RequestAssumption DEF Move, Take, IndInv, TypeOK, IndexOverflows
<1>3. CASE IndexOverflows(table, prop)
  <2>1. ~running'
    BY <1>3, Zenon DEF Move
  <2>2. table' = table /\ domains' \in Nat
    BY <1>3 DEF Move, IndInv, TypeOK, DomainsAfter
  <2>3. QED
    BY <1>2, <2>1, <2>2 DEF IndInv, TypeOK, DomainsUnique, KeysDistinct
<1>4. CASE ~IndexOverflows(table, prop)
  <2>1. /\ table' = Populate(table, domains, prop)
        /\ domains' = DomainsAfter(table, domains, prop)
    BY <1>4 DEF Move
  <2>2. /\ table \in Seq(Entry) /\ domains = Len(table)
        /\ IdsArePositions(table) /\ KeysAreDistinct(table)
    BY <1>2 DEF IndInv, TypeOK, DomainsUnique, KeysDistinct
  <2>3. /\ table' \in Seq(Entry) /\ domains' = Len(table')
        /\ IdsArePositions(table') /\ KeysAreDistinct(table')
    BY <1>1, <2>1, <2>2, PopulateStep
  <2>4. QED
    BY <1>2, <2>3 DEF IndInv, TypeOK, DomainsUnique, KeysDistinct
<1>5. QED
  BY <1>3, <1>4

LEMMA RemoveStep ==
  ASSUME IndInv, NEW prop \in Removals, RemoveAccess(prop)
  PROVE  IndInv'
<1>1. IsRequest(prop)
  BY RequestsAreProposals
<1>2. /\ running /\ requests' \in 0..MaxRequests /\ running' \in BOOLEAN
      /\ domains' = domains
  BY RequestAssumption DEF RemoveAccess, Take, IndInv, TypeOK, RemoveFatal
<1>3. CASE table' = table
  BY <1>2, <1>3 DEF IndInv, TypeOK, DomainsUnique, KeysDistinct
<1>4. CASE table' = Remove(table, prop)
  <2>1. /\ table' \in Seq(Entry)
        /\ Len(table') = Len(table)
        /\ \A i \in 1..Len(table) :
             /\ table'[i].id = table[i].id
             /\ table'[i].range = table[i].range
             /\ table'[i].permission = table[i].permission
    BY <1>1, <1>4, RemoveFacts DEF IndInv, TypeOK
  <2>2. IdsArePositions(table')
    BY <2>1 DEF IdsArePositions, IndInv, TypeOK, DomainsUnique
  <2>3. KeysAreDistinct(table')
    BY <2>1 DEF KeysAreDistinct, IndInv, TypeOK, KeysDistinct
  <2>4. QED
    BY <1>2, <2>1, <2>2, <2>3 DEF IndInv, TypeOK, DomainsUnique, KeysDistinct
<1>5. QED
  BY <1>3, <1>4 DEF RemoveAccess

THEOREM TableInvariant == Spec => []IndInv
<1>1. Init => IndInv
  BY InitEstablishes
<1>2. IndInv /\ [Next]_vars => IndInv'
  <2> SUFFICES ASSUME IndInv, [Next]_vars PROVE IndInv'
    OBVIOUS
  <2>1. ASSUME NEW prop \in Additions, Move(prop) PROVE IndInv'
    BY <2>1, MoveStep
  <2>2. ASSUME NEW prop \in Removals, RemoveAccess(prop) PROVE IndInv'
    BY <2>2, RemoveStep
  <2>3. CASE UNCHANGED vars
    BY <2>3 DEF vars, IndInv, TypeOK, DomainsUnique, KeysDistinct
  <2>4. QED
    BY <2>1, <2>2, <2>3 DEF Next
<1>3. QED
  BY <1>1, <1>2, PTL DEF Spec

(* The table is a sequence of well-formed entries, whatever the FAM takes.  *)
THEOREM TableTypeCorrect == Spec => []TypeOK
<1>1. IndInv => TypeOK
  BY DEF IndInv
<1>2. QED
  BY <1>1, TableInvariant, PTL

(* No domain id is given twice: ids are positions, merges take none, and    *)
(* the counter of a running FAM is the length of its table.                 *)
THEOREM TableDomainsUnique == Spec => []DomainsUnique
<1>1. IndInv => DomainsUnique
  BY DEF IndInv
<1>2. QED
  BY <1>1, TableInvariant, PTL

(* A range with a permission has one domain: populate_table_entry() only    *)
(* adds an entry when its search found none with the key.                   *)
THEOREM TableKeysDistinct == Spec => []KeysDistinct
<1>1. IndInv => KeysDistinct
  BY DEF IndInv
<1>2. QED
  BY <1>1, TableInvariant, PTL

-----------------------------------------------------------------------------
(* The refinement.                                                         *)

LEMMA MoveRefines ==
  ASSUME IndInv, NEW prop \in Additions, Move(prop)
  PROVE  AC!Next \/ UNCHANGED Access(table)
<1>1. CASE IndexOverflows(table, prop)
  BY <1>1 DEF Move
<1>2. CASE ~IndexOverflows(table, prop)
  <2>1. table' = Populate(table, domains, prop)
    BY <1>2 DEF Move
  <2>2. /\ IsRequest(prop) /\ prop.used = 1 /\ prop.range # ZeroRange
        /\ prop.range \in Ranges /\ prop.permission \in BOOLEAN
    BY TableAssumption, RequestsAreProposals DEF IsRequest
  <2>3. table \in Seq(Entry) /\ KeysAreDistinct(table) /\ domains \in Nat
    BY DEF IndInv, TypeOK, KeysDistinct
  <2> DEFINE g == <<prop.host, prop.range, prop.permission>>
  <2>4. CASE Access(table') = Access(table) \cup {g}
    <3>1. AC!Grant(g)
      BY <2>4 DEF AC!Grant
    <3>2. QED
      BY <3>1 DEF AC!Next
  <2>5. CASE Access(table') =
               {a \in Access(table) : ~(a[2] = prop.range /\ a[3] = prop.permission)}
    <3> DEFINE l == <<prop.range, prop.permission>>
    <3>1. AC!Lose(l[1], l[2])
      BY <2>5 DEF AC!Lose
    <3>2. l \in Ranges \X BOOLEAN
      BY <2>2
    <3>3. QED
      BY <3>1, <3>2 DEF AC!Next
  <2>6. QED
    BY <2>1, <2>2, <2>3, <2>4, <2>5, AdditionIsExact
<1>3. QED
  BY <1>1, <1>2

LEMMA RemoveRefines ==
  ASSUME IndInv, NEW prop \in Removals, RemoveAccess(prop)
  PROVE  AC!Next \/ UNCHANGED Access(table)
<1>1. CASE table' = table
  BY <1>1
<1>2. CASE table' = Remove(table, prop)
  <2>1. IsRequest(prop) /\ table \in Seq(Entry)
    BY RequestsAreProposals DEF IndInv, TypeOK
  <2> DEFINE v == <<prop.host, prop.range>>
  <2>2. AC!Revoke(v[1], v[2])
    BY <1>2, <2>1, RemovalIsExact DEF AC!Revoke
  <2>3. v \in Hosts \X Ranges
    BY DEF Removals
  <2>4. QED
    BY <2>2, <2>3 DEF AC!Next
<1>3. QED
  BY <1>1, <1>2 DEF RemoveAccess

(* The table implements the abstract access control for every number of     *)
(* hosts, ranges, requests, contexts and entries.                            *)
THEOREM TableImplementsAccessControl == Spec => ImplementsAccessControl
<1>1. Init => AC!Init
  BY DEF Init, AC!Init, Access
<1>2. IndInv /\ [Next]_vars => [AC!Next]_(Access(table))
  <2> SUFFICES ASSUME IndInv, [Next]_vars PROVE AC!Next \/ UNCHANGED Access(table)
    OBVIOUS
  <2>1. CASE UNCHANGED vars
    BY <2>1 DEF vars
  <2>2. QED
    BY <2>1, MoveRefines, RemoveRefines DEF Next
<1>3. QED
  BY <1>1, <1>2, TableInvariant, PTL DEF Spec, AC!Spec, ImplementsAccessControl
=============================================================================
