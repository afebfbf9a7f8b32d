---------------------------- MODULE RegionProofs ----------------------------
(***************************************************************************)
(* For any number of hosts with any sizes, any restarts of the FAM and any *)
(* limits whose table fits into the head: what everybody asks for stays    *)
(* backed and is kept and a FAM that starts finds only zeros, whatever ids  *)
(* the hosts have.  Every store reaches its own field only as long as no    *)
(* id reaches past the gap behind participant_host_ids.                     *)
(***************************************************************************)
EXTENDS Region, LayoutProofs

(* The size of the object is somebody's wish, except while a FAM resets it. *)
SizeIsAsked ==
  mode = 1 => \/ Resetting /\ size = ResetSize
              \/ \E p \in Procs : size = AskedBy(p)

(* What the FAM's ftruncate() to two bytes leaves is is_locked alone, and   *)
(* nothing once the zeros are written.                                      *)
Staleness ==
  /\ pc[Fam] \in {"zeroed", "truncated", "mapped"} =>
       \A c \in Cells : content[c] # "stale"
  /\ pc[Fam] = "cut" => \A c \in Cells : content[c] = "stale" => c = "is_locked"

IndInv == TypeOK /\ SizeIsAsked /\ Staleness

-----------------------------------------------------------------------------
(* Where the cells and the stores are.                                     *)

LEMMA Constants ==
  /\ Fam \in Procs
  /\ \A p \in Procs : AskedBy(p) \in Nat
  /\ FamSize \in Nat /\ ResetSize = 1 /\ DaxSize \in Nat
  /\ TABLE_INTS \in Nat /\ DataAt \in Nat
  /\ TABLE_INTS >= 12 /\ DataAt >= TABLE_INTS
<1>1. TABLE_INTS \in Nat /\ TABLE_INTS >= 12
  BY SMT DEF TABLE_INTS
<1>2. FamSize \in Nat /\ DataAt \in Nat /\ DataAt >= TABLE_INTS
  BY <1>1, SMT DEF FamSize, ONE_G, DataAt, INT
<1>3. QED
  BY <1>2, <1>1, RegionAssumption DEF Procs, AskedBy, ResetSize

(* All fields are below the data, and only is_locked is in the first int.   *)
LEMMA FieldBounds ==
  \A f \in DOMAIN Field :
    /\ Field[f][1] \in Nat /\ Field[f][2] \in Nat
    /\ Field[f][1] < Field[f][2]
    /\ Field[f][2] <= DataAt
    /\ f # "is_locked" => Field[f][1] >= 1
<1>1. /\ At(PROPOSED_UPDATE) \in Nat /\ At(COUNT) \in Nat
      /\ At(PROPOSED_UPDATE) >= 12 + MAX_PARTICIPANT_COUNT
      /\ At(COUNT) >= At(PROPOSED_UPDATE) + EntryInts
      /\ EntryInts \in Nat /\ EntryInts >= 10
      /\ EntryAt(LastEntry) + EntryInts \in Nat
      /\ EntryAt(LastEntry) + EntryInts <= DataAt
  BY Offsets, TableExtent, Sizes, LayoutAssumption, RegionAssumption, Constants, SMT
     DEF INT
<1>2. LastEntry * EntryInts \in Nat
  BY Sizes, LayoutAssumption DEF LastEntry
<1>3. EntryAt(LastEntry) \in Nat /\ EntryAt(LastEntry) >= At(COUNT) + 8
  BY <1>1, <1>2, Offsets, SMT DEF EntryAt
<1>4. /\ Field["is_locked"] = <<0, 1>>
      /\ Field["who_locked"] = <<4, 5>>
      /\ Field["participant_count"] = <<8, 9>>
      /\ Field["participant_host_ids"] = <<12, 12 + MAX_PARTICIPANT_COUNT>>
      /\ Field["proposed_update"] = <<At(PROPOSED_UPDATE), At(PROPOSED_UPDATE) + EntryInts>>
      /\ Field["count"] = <<At(COUNT), At(COUNT) + 1>>
      /\ Field["index"] = <<At(COUNT) + 4, At(COUNT) + 5>>
      /\ Field["table"] = <<At(COUNT) + 8, EntryAt(LastEntry) + EntryInts>>
  BY Offsets, TableExtent, Sizes, LayoutAssumption, SMT DEF Field, HostIdAt
<1>5. DOMAIN Field = {"is_locked", "who_locked", "participant_count",
        "participant_host_ids", "proposed_update", "count", "index", "table"}
  BY DEF Field
<1> HIDE DEF Field
<1>6. QED
  <2>1. DataAt \in Nat /\ MAX_PARTICIPANT_COUNT \in Nat /\ MAX_PARTICIPANT_COUNT >= 1
    BY Constants, LayoutAssumption
  <2>2. QED
    BY <1>1, <1>3, <1>4, <1>5, <2>1, SMT

LEMMA Places ==
  /\ \A c \in Cells : /\ Place(c)[1] \in Nat /\ Place(c)[2] \in Nat
                      /\ c # "is_locked" => Place(c)[1] >= 1
  /\ \A c, d \in DOMAIN Field \cup {"data"} : c # d => Apart(Place(c), Place(d))
<1>1. "data" \notin DOMAIN Field
  BY DEF Field
<1>2. Place("data") = <<DataAt, DataAt + 1>>
  BY DEF Place
<1>3. \A f \in DOMAIN Field : Place(f) = Field[f]
  BY <1>1 DEF Place
<1>4. Cells \subseteq DOMAIN Field \cup {"data"}
  BY RegionAssumption
<1> HIDE DEF Field
<1>5. \A c \in Cells : /\ Place(c)[1] \in Nat /\ Place(c)[2] \in Nat
                       /\ c # "is_locked" => Place(c)[1] >= 1
  BY <1>2, <1>3, <1>4, FieldBounds, Constants
<1>6. ASSUME NEW f \in DOMAIN Field
      PROVE  Apart(Place(f), Place("data")) /\ Apart(Place("data"), Place(f))
  BY <1>2, <1>3, FieldBounds, Constants DEF Apart
<1>7. \A c, d \in DOMAIN Field \cup {"data"} : c # d => Apart(Place(c), Place(d))
  BY <1>3, <1>6, HeadFieldsApart
<1>8. QED
  BY <1>5, <1>7

(* A place that the store of cell c may have: no other cell is touched. *)
Proper(c, place) == \A d \in Cells : d # c => Apart(place, Place(d))

LEMMA CellPlaces ==
  ASSUME NEW c \in DOMAIN Field \cup {"data"}
  PROVE  Proper(c, Place(c))
BY Places, RegionAssumption DEF Proper

(* Part of a field's place is proper when the whole is. *)
LEMMA PartPlaces ==
  ASSUME NEW c \in DOMAIN Field, NEW m \in Int, NEW n \in Int,
         Place(c)[1] <= m, n <= Place(c)[2]
  PROVE  Proper(c, <<m, n>>)
<1>1. Proper(c, Place(c))
  BY CellPlaces
<1>2. Place(c)[1] \in Nat /\ Place(c)[2] \in Nat
  <2>1. Place(c) = Field[c]
    BY DEF Place, Field
  <2>2. QED
    BY <2>1, FieldBounds
<1>3. QED
  BY <1>1, <1>2, Places DEF Proper, Apart

(* An id below four times the limit indexes the array or the gap behind it. *)
LEMMA HostIdPlaces ==
  \A id \in 0..(MAX_PARTICIPANT_COUNT * INT - 1) :
     Proper("participant_host_ids", <<HostIdAt(id), HostIdAt(id) + 1>>)
<1> SUFFICES ASSUME NEW id \in 0..(MAX_PARTICIPANT_COUNT * INT - 1)
             PROVE  Proper("participant_host_ids", <<HostIdAt(id), HostIdAt(id) + 1>>)
  OBVIOUS
<1>1. /\ HostIdAt(id) = 12 + id /\ id \in Nat
      /\ HostIdAt(id) + 1 <= At(PROPOSED_UPDATE)
  BY Offsets, LayoutAssumption DEF HostIdAt, INT
<1>2. /\ At(PROPOSED_UPDATE) \in Nat /\ At(COUNT) \in Nat
      /\ At(COUNT) >= At(PROPOSED_UPDATE) + EntryInts
      /\ EntryInts \in Nat
  BY Offsets, Sizes, LayoutAssumption DEF INT
<1>f. DOMAIN Field = {"is_locked", "who_locked", "participant_count",
        "participant_host_ids", "proposed_update", "count", "index", "table"}
  BY DEF Field
<1>3. /\ Field["is_locked"] = <<0, 1>>
      /\ Field["who_locked"] = <<4, 5>>
      /\ Field["participant_count"] = <<8, 9>>
      /\ Field["proposed_update"] = <<At(PROPOSED_UPDATE), At(PROPOSED_UPDATE) + EntryInts>>
      /\ Field["count"] = <<At(COUNT), At(COUNT) + 1>>
      /\ Field["index"] = <<At(COUNT) + 4, At(COUNT) + 5>>
      /\ Field["table"] = <<At(COUNT) + 8, EntryAt(LastEntry) + EntryInts>>
  BY Offsets, TableExtent, Sizes, LayoutAssumption, SMT DEF Field, HostIdAt
<1>4. \A f \in DOMAIN Field : f # "participant_host_ids" =>
        Field[f][2] <= HostIdAt(id) \/ HostIdAt(id) + 1 <= Field[f][1]
  <2>1. \A f \in {"is_locked", "who_locked", "participant_count"} : Field[f][2] <= HostIdAt(id)
    <3> HIDE DEF Field
    <3>1. QED
      BY <1>1, <1>3, SMT
  <2>2. \A f \in {"proposed_update", "count", "index", "table"} : HostIdAt(id) + 1 <= Field[f][1]
    <3> HIDE DEF Field
    <3>1. HostIdAt(id) + 1 <= At(COUNT) /\ HostIdAt(id) \in Nat
      BY <1>1, <1>2, SMT
    <3>2. QED
      BY <1>1, <1>2, <1>3, <3>1, SMT
  <2>3. QED
    BY <1>f, <2>1, <2>2
<1>5. "proposed_update" \in DOMAIN Field /\ Field["proposed_update"][1] = At(PROPOSED_UPDATE)
  BY <1>3, <1>f
<1>6. At(PROPOSED_UPDATE) <= DataAt
  BY <1>2, <1>5, FieldBounds, Constants
<1>7. ASSUME NEW d \in Cells, d # "participant_host_ids"
      PROVE  Apart(<<HostIdAt(id), HostIdAt(id) + 1>>, Place(d))
  <2>1. CASE d = "data"
    BY <1>1, <1>2, <1>6, <2>1, Constants DEF Place, Apart
  <2>2. CASE d # "data"
    BY <1>4, <1>7, <2>2, RegionAssumption DEF Place, Apart
  <2>3. QED
    BY <2>1, <2>2
<1>8. QED
  BY <1>7 DEF Proper

LEMMA FamIdPlace ==
  Proper("participant_host_ids", <<HostIdAt(FAM_ID), HostIdAt(FAM_ID) + 1>>)
<1>1. HostIdAt(FAM_ID) = 10
  BY Offsets DEF HostIdAt, FAM_ID
<1>2. ASSUME NEW d \in Cells PROVE Apart(<<HostIdAt(FAM_ID), HostIdAt(FAM_ID) + 1>>, Place(d))
  <2>1. CASE d = "data"
    BY <1>1, <2>1, Constants DEF Place, Apart
  <2>2. CASE d # "data"
    BY <2>2, FamIdInGap, RegionAssumption DEF Place
  <2>3. QED
    BY <2>1, <2>2
<1>3. QED
  BY <1>2 DEF Proper

LEMMA EntryPlaces ==
  \A i \in {0, LastEntry} : Proper("table", <<EntryAt(i), EntryAt(i) + EntryInts>>)
<1> SUFFICES ASSUME NEW i \in {0, LastEntry}
             PROVE  Proper("table", <<EntryAt(i), EntryAt(i) + EntryInts>>)
  OBVIOUS
<1>1. Place("table") = <<EntryAt(0), EntryAt(LastEntry) + EntryInts>> /\ "table" \in DOMAIN Field
  BY DEF Place, Field
<1>2. /\ EntryAt(i) \in Int /\ EntryAt(LastEntry) \in Int
      /\ EntryAt(0) <= EntryAt(i) /\ EntryAt(i) <= EntryAt(LastEntry)
  <2>1. LastEntry * EntryInts \in Nat /\ 0 * EntryInts = 0
    BY Sizes, LayoutAssumption DEF LastEntry
  <2>2. At(PERMISSION_TABLE) \in Nat
    BY Offsets, Sizes, LayoutAssumption
  <2>3. QED
    BY <2>1, <2>2 DEF EntryAt
<1>3. EntryInts \in Nat
  BY Sizes
<1>4. QED
  BY <1>1, <1>2, <1>3, PartPlaces

-----------------------------------------------------------------------------
(* The steps.                                                              *)

(* Contents are kept, lost or overwritten.  Nothing becomes stale. *)
Gentle ==
  /\ content' \in [Cells -> {"zero", "own", "stray", "stale"}]
  /\ \A c \in Cells : content'[c] \in {content[c], "zero", "own", "stray"}

LEMMA SetSizeIsGentle ==
  ASSUME TypeOK, NEW n, SetSize(n)
  PROVE  Gentle /\ \A c \in Cells : content'[c] \in {content[c], "zero"}
BY DEF TypeOK, SetSize, Kept, Gentle

LEMMA StoreIsGentle ==
  ASSUME TypeOK, NEW p, NEW c, NEW place, StoreAt(p, c, place)
  PROVE  /\ Gentle
         /\ \A d \in Cells : content'[d] \in {content[d], "own", "stray"}
         /\ UNCHANGED <<mode, size>>
         /\ pc' = pc \/ Goto(p, "mapped", "off")
<1>1. CASE UNCHANGED content /\ UNCHANGED <<mode, size>> /\ Goto(p, "mapped", "off")
  BY <1>1 DEF TypeOK, Gentle
<1>2. CASE /\ content' = [d \in Cells |-> IF Apart(place, Place(d)) THEN content[d]
                                          ELSE IF d = c THEN "own" ELSE "stray"]
           /\ UNCHANGED <<mode, size, pc>>
  BY <1>2 DEF TypeOK, Gentle
<1>3. QED
  BY <1>1, <1>2 DEF StoreAt

(* A store to a proper place leaves nothing astray. *)
LEMMA StoreIsOwn ==
  ASSUME OnlyOwnStores, NEW p, NEW c, NEW place, Proper(c, place), StoreAt(p, c, place)
  PROVE  OnlyOwnStores'
<1>1. CASE UNCHANGED content
  BY <1>1 DEF OnlyOwnStores
<1>2. CASE content' = [d \in Cells |-> IF Apart(place, Place(d)) THEN content[d]
                                      ELSE IF d = c THEN "own" ELSE "stray"]
  <2>1. content' = [d \in Cells |-> IF Apart(place, Place(d)) THEN content[d] ELSE "own"]
    BY <1>2 DEF Proper
  <2>2. QED
    BY <2>1 DEF OnlyOwnStores
<1>3. QED
  BY <1>1, <1>2 DEF StoreAt

(* A step with gentle contents that leaves the FAM where it is, or that     *)
(* takes it from where nothing is stale, keeps the contents' invariant.      *)
LEMMA GentleStep ==
  ASSUME Staleness, Gentle,
         \/ pc'[Fam] \in {pc[Fam], "off"}
         \/ pc[Fam] \in {"zeroed", "truncated"} /\ pc'[Fam] # "cut"
  PROVE  Staleness'
BY DEF Staleness, Gentle

LEMMA StoreStep ==
  ASSUME IndInv, NEW p \in Procs, NEW c, NEW place, StoreAt(p, c, place)
  PROVE  IndInv'
<1>1. /\ Gentle /\ UNCHANGED <<mode, size>>
      /\ pc' = pc \/ Goto(p, "mapped", "off")
  BY StoreIsGentle DEF IndInv
<1>2. TypeOK'
  BY <1>1 DEF IndInv, TypeOK, Gentle, Goto
<1>3. SizeIsAsked'
  <2>1. Resetting => Resetting'
    BY <1>1, Constants DEF IndInv, TypeOK, Resetting, Goto
  <2>2. QED
    BY <1>1, <2>1 DEF IndInv, SizeIsAsked
<1>4. pc'[Fam] \in {pc[Fam], "off"}
  BY <1>1 DEF IndInv, TypeOK, Goto, Procs
<1>5. QED
  BY <1>1, <1>2, <1>3, <1>4, GentleStep DEF IndInv

LEMMA HostCellPlaces == \A h \in Hosts : \A c \in HostCells(h) : Proper(c, Place(c))
<1>1. \A h \in Hosts : HostCells(h) \subseteq DOMAIN Field \cup {"data"}
  BY DEF HostCells, Field
<1>2. QED
  BY <1>1, CellPlaces

LEMMA FamCellPlaces == \A c \in FamCells : Proper(c, Place(c))
<1>1. FamCells \subseteq DOMAIN Field
  BY DEF FamCells, Field
<1>2. QED
  BY <1>1, CellPlaces

LEMMA InvInit == Init => IndInv
<1> SUFFICES ASSUME Init PROVE IndInv
  OBVIOUS
<1>1. TypeOK
  BY Constants DEF Init, TypeOK, AskedBy
<1>2. SizeIsAsked
  BY Constants DEF Init, SizeIsAsked, AskedBy
<1>3. Staleness
  BY Constants DEF Init, Staleness
<1>4. QED
  BY <1>1, <1>2, <1>3 DEF IndInv

LEMMA InvStep == IndInv /\ [Next]_vars => IndInv'
<1> SUFFICES ASSUME IndInv, [Next]_vars PROVE IndInv'
  OBVIOUS
<1> USE Constants
<1>1. ASSUME NEW h \in Hosts, Truncate(h) PROVE IndInv'
  <2>1. Gentle
    BY <1>1, SetSizeIsGentle DEF Truncate, IndInv
  <2>2. h \in Procs /\ h # Fam /\ AskedBy(h) = SizeOf[h]
    BY RegionAssumption DEF Procs, AskedBy
  <2>3. TypeOK'
    BY <1>1, <2>1, <2>2 DEF Truncate, SetSize, Goto, Gentle, IndInv, TypeOK
  <2>4. SizeIsAsked' /\ pc'[Fam] = pc[Fam]
    BY <1>1, <2>2 DEF Truncate, SetSize, Goto, IndInv, TypeOK, SizeIsAsked
  <2>5. QED
    BY <2>1, <2>3, <2>4, GentleStep DEF IndInv
<1>2. ASSUME NEW h \in Hosts, MapDevice(h) PROVE IndInv'
  <2>1. Gentle /\ pc'[Fam] = pc[Fam]
    BY <1>2, RegionAssumption DEF MapDevice, Goto, Gentle, IndInv, TypeOK, Procs
  <2>2. TypeOK' /\ SizeIsAsked'
    BY <1>2 DEF MapDevice, Goto, IndInv, TypeOK, SizeIsAsked, Procs
  <2>3. QED
    BY <2>1, <2>2, GentleStep DEF IndInv
<1>3. ASSUME NEW h \in Hosts, HostStore(h) PROVE IndInv'
  <2>1. h \in Procs
    BY DEF Procs
  <2>2. QED
    BY <1>3, <2>1, StoreStep DEF HostStore
<1>4. ASSUME NEW h \in Hosts, Exit(h) PROVE IndInv'
  <2>1. Gentle /\ pc'[Fam] = pc[Fam]
    BY <1>4, RegionAssumption DEF Exit, Goto, Gentle, IndInv, TypeOK, Procs
  <2>2. TypeOK' /\ SizeIsAsked'
    BY <1>4, <2>1 DEF Exit, Goto, IndInv, TypeOK, SizeIsAsked, Resetting, Procs
  <2>3. QED
    BY <2>1, <2>2, GentleStep DEF IndInv
<1>5. ASSUME NEW p \in Procs, Map(p) PROVE IndInv'
  <2>1. Gentle
    BY <1>5 DEF Map, Gentle, IndInv, TypeOK
  <2>2. TypeOK'
    BY <1>5 DEF Map, Goto, IndInv, TypeOK
  <2>3. /\ \/ pc'[Fam] = pc[Fam]
           \/ pc[Fam] = "truncated" /\ pc'[Fam] \in {"mapped", "off"}
        /\ Resetting => Resetting'
    BY <1>5 DEF Map, Goto, IndInv, TypeOK, Resetting
  <2>4. SizeIsAsked'
    BY <1>5, <2>3 DEF Map, IndInv, SizeIsAsked
  <2>5. QED
    BY <2>1, <2>2, <2>3, <2>4, GentleStep DEF IndInv
<1>6. ASSUME FamStore PROVE IndInv'
  BY <1>6, StoreStep DEF FamStore
<1>7. ASSUME FamDie PROVE IndInv'
  <2>1. Gentle /\ pc'[Fam] = "off" /\ ~Resetting
    BY <1>7 DEF FamDie, Goto, Gentle, IndInv, TypeOK, Resetting
  <2>2. TypeOK' /\ SizeIsAsked'
    BY <1>7, <2>1 DEF FamDie, Goto, IndInv, TypeOK, SizeIsAsked
  <2>3. QED
    BY <2>1, <2>2, GentleStep DEF IndInv
<1>8. ASSUME FamCut PROVE IndInv'
  <2>1. pc'[Fam] = "cut" /\ TypeOK' /\ SizeIsAsked'
    BY <1>8 DEF FamCut, Goto, IndInv, TypeOK, SizeIsAsked, Resetting
  <2>2. ASSUME NEW c \in Cells, content'[c] # "zero"
        PROVE  c = "is_locked" /\ content'[c] = "stale"
    <3>1. content'[c] = "stale" /\ Kept(ResetSize)[c] # "zero"
      BY <1>8, <2>2 DEF FamCut
    <3>2. Place(c)[1] < 1
      BY <3>1 DEF Kept
    <3>3. QED
      BY <3>1, <3>2, Places
  <2>3. QED
    BY <2>1, <2>2 DEF IndInv, Staleness
<1>9. ASSUME FamZero PROVE IndInv'
  <2>1. CASE Backed(At(IS_LOCKED))
    <3>1. /\ pc[Fam] = "cut" /\ pc'[Fam] = "zeroed" /\ UNCHANGED <<mode, size>>
          /\ content' = [c \in Cells |-> IF c = "is_locked" THEN "zero" ELSE content[c]]
      BY <1>9, <2>1 DEF FamZero, Goto, IndInv, TypeOK
    <3>2. TypeOK'
      BY <1>9, <2>1, <3>1 DEF FamZero, Goto, IndInv, TypeOK
    <3>3. SizeIsAsked'
      BY <3>1 DEF IndInv, SizeIsAsked, Resetting
    <3>4. Staleness'
      BY <3>1 DEF IndInv, Staleness
    <3>5. QED
      BY <3>2, <3>3, <3>4 DEF IndInv
  <2>2. CASE ~Backed(At(IS_LOCKED))
    <3>1. pc'[Fam] = "off" /\ UNCHANGED <<mode, size, content>> /\ TypeOK'
      BY <1>9, <2>2 DEF FamZero, Goto, IndInv, TypeOK
    <3>2. size # ResetSize
      BY <2>2, Offsets, SMT DEF Backed, ResetSize, Page
    <3>3. SizeIsAsked'
      BY <3>1, <3>2 DEF IndInv, SizeIsAsked
    <3>4. Gentle
      BY <3>1 DEF Gentle, IndInv, TypeOK
    <3>5. QED
      BY <3>1, <3>3, <3>4, GentleStep DEF IndInv
  <2>3. QED
    BY <2>1, <2>2
<1>10. ASSUME FamTruncate PROVE IndInv'
  <2>1. Gentle
    BY <1>10, SetSizeIsGentle DEF FamTruncate, IndInv
  <2>2. TypeOK' /\ pc[Fam] = "zeroed" /\ pc'[Fam] = "truncated"
    BY <1>10, <2>1 DEF FamTruncate, SetSize, Goto, Gentle, IndInv, TypeOK, AskedBy
  <2>3. SizeIsAsked'
    <3>1. size' = AskedBy(Fam)
      BY <1>10 DEF FamTruncate, SetSize, AskedBy
    <3>2. QED
      BY <3>1 DEF SizeIsAsked
  <2>4. QED
    BY <2>1, <2>2, <2>3, GentleStep DEF IndInv
<1>11. CASE UNCHANGED vars
  BY <1>11 DEF vars, IndInv, TypeOK, SizeIsAsked, Staleness, Resetting
<1>12. QED
  BY <1>1, <1>2, <1>3, <1>4, <1>5, <1>6, <1>7, <1>8, <1>9, <1>10, <1>11 DEF Next

(* The inductive invariant holds in every state. *)
THEOREM RegionInvariant == Spec => []IndInv
BY InvInit, InvStep, PTL DEF Spec

(* Region.TypeOK: types, and a size that somebody asks for. *)
THEOREM RegionTypeCorrect == Spec => []TypeOK
<1>1. IndInv => TypeOK
  BY DEF IndInv
<1>2. QED
  BY <1>1, RegionInvariant, PTL

(* One step: every store of the programs goes to a proper place. *)
LEMMA OnlyOwnStep ==
  ASSUME IdsReachGap, IndInv, OnlyOwnStores, [Next]_vars
  PROVE  OnlyOwnStores'
<1>1. ASSUME NEW n, SetSize(n) PROVE OnlyOwnStores'
  BY <1>1, SetSizeIsGentle DEF IndInv, OnlyOwnStores
<1>2. CASE \E h \in Hosts : Truncate(h)
  BY <1>1, <1>2 DEF Truncate
<1>3. CASE \E h \in Hosts : HostStore(h)
  <2>1. PICK h \in Hosts : HostStore(h)
    BY <1>3
  <2>2. IdOf[h] >= 0 => IdOf[h] \in 0..(MAX_PARTICIPANT_COUNT * INT - 1)
    BY RegionAssumption, LayoutAssumption DEF IdsReachGap, INT
  <2>3. QED
    BY <2>1, <2>2, StoreIsOwn, HostCellPlaces, HostIdPlaces DEF HostStore
<1>4. CASE FamStore
  BY <1>4, StoreIsOwn, FamCellPlaces, FamIdPlace, EntryPlaces DEF FamStore
<1>5. CASE FamCut
  BY <1>5 DEF FamCut, OnlyOwnStores
<1>6. CASE FamZero
  BY <1>6 DEF FamZero, OnlyOwnStores
<1>7. CASE FamTruncate
  BY <1>1, <1>7 DEF FamTruncate
<1>8. CASE \/ \E h \in Hosts : MapDevice(h) \/ Exit(h)
           \/ \E p \in Procs : Map(p)
           \/ FamDie
           \/ UNCHANGED vars
  BY <1>8 DEF MapDevice, Exit, Map, FamDie, vars, OnlyOwnStores
<1>9. QED
  BY <1>2, <1>3, <1>4, <1>5, <1>6, <1>7, <1>8 DEF Next

(* No store reaches a field that it is not meant for: not the FAM's to      *)
(* participant_host_ids[-2], nor the entry past the limit of the table, nor  *)
(* one of a host whose id is past the end of participant_host_ids, as long   *)
(* as it is below four times its length.  RegionFarIdStrays: that bound is   *)
(* exact.                                                                    *)
THEOREM RegionOnlyOwnStores ==
  ASSUME IdsReachGap
  PROVE  Spec => []OnlyOwnStores
<1>1. Init => OnlyOwnStores
  BY DEF Init, OnlyOwnStores
<1>2. IndInv /\ OnlyOwnStores /\ [Next]_vars => OnlyOwnStores'
  BY OnlyOwnStep
<1>3. QED
  BY <1>1, <1>2, RegionInvariant, PTL DEF Spec

(* A host with an id of four times the limit, which the store of its own id *)
(* does not fault with, marks itself as a participant in proposed_update.    *)
THEOREM RegionFarIdStrays ==
  ASSUME "proposed_update" \in Cells, TypeOK, NEW h \in Hosts,
         IdOf[h] = MAX_PARTICIPANT_COUNT * INT,
         StoreAt(h, "participant_host_ids", <<HostIdAt(IdOf[h]), HostIdAt(IdOf[h]) + 1>>),
         pc'[h] = "mapped"
  PROVE  ~OnlyOwnStores'
<1>1. HostIdAt(IdOf[h]) = At(PROPOSED_UPDATE) /\ At(PROPOSED_UPDATE) \in Nat
  BY Offsets, LayoutAssumption DEF HostIdAt, INT
<1>2. Place("proposed_update") = <<At(PROPOSED_UPDATE), At(PROPOSED_UPDATE) + EntryInts>>
  BY DEF Place, Field
<1>3. ~Apart(<<HostIdAt(IdOf[h]), HostIdAt(IdOf[h]) + 1>>, Place("proposed_update"))
  BY <1>1, <1>2, Sizes DEF Apart
<1>4. content'["proposed_update"] = "stray"
  BY <1>3, Constants DEF StoreAt, Goto, TypeOK, Procs
<1>5. QED
  BY <1>4 DEF OnlyOwnStores

(* A FAM that has started finds nothing from before in the region, whatever *)
(* hosts stored and resized while it was starting.                           *)
THEOREM RegionResetIsComplete == Spec => []ResetIsComplete
<1>1. IndInv => ResetIsComplete
  BY DEF IndInv, Staleness, ResetIsComplete
<1>2. QED
  BY <1>1, RegionInvariant, PTL

LEMMA WholePages ==
  ASSUME size \in Nat, NEW at \in Nat, at < size
  PROVE  Backed(at)
BY SMT DEF Backed, Page

(* What every process asks for is backed, whatever the sizes and the order  *)
(* in which the processes resize the object.                                 *)
THEOREM RegionSharedIsBacked == Spec => []SharedIsBacked
<1>1. IndInv => SharedIsBacked
  <2> SUFFICES ASSUME IndInv, mode = 1, ~Resetting, NEW c \in Shared
               PROVE  Backed(Place(c)[1])
    BY DEF SharedIsBacked
  <2>1. PICK p \in Procs : size = AskedBy(p)
    BY DEF IndInv, SizeIsAsked
  <2>2. Place(c)[1] \in Nat /\ Place(c)[1] < size /\ size \in Nat
    BY <2>1, Places, Constants DEF Shared
  <2>3. QED
    BY <2>2, WholePages
<1>2. QED
  BY <1>1, RegionInvariant, PTL

(* data_start_address is 4 GiB after the start.  A host that asks for no     *)
(* more, the default of main.cc is 2 GiB, is ended by its first store there. *)
THEOREM RegionPointerLeavesMapping ==
  /\ 2 * ONE_G <= DataAt
  /\ \A h \in Hosts :
       TypeOK /\ SizeOf[h] <= DataAt /\ StoreAt(h, "data", Place("data"))
         => pc'[h] = "off" /\ UNCHANGED content
<1>1. 2 * ONE_G <= DataAt
  BY DEF DataAt, ONE_G, TABLE_INTS, INT
<1>2. ASSUME NEW h \in Hosts, TypeOK, SizeOf[h] <= DataAt,
             StoreAt(h, "data", Place("data"))
      PROVE  pc'[h] = "off" /\ UNCHANGED content
  <2>1. AskedBy(h) = SizeOf[h] /\ h \in Procs /\ SizeOf[h] \in Nat
    BY RegionAssumption DEF AskedBy, Procs
  <2>2. ~(Place("data")[1] < AskedBy(h))
    BY <1>2, <2>1, Constants DEF Place
  <2>3. QED
    BY <1>2, <2>1, <2>2 DEF StoreAt, Goto, TypeOK
<1>3. QED
  BY <1>1, <1>2

(* A host that asks for no more than that cuts the object before anything    *)
(* is checked: the data of all the others is gone and no longer backed.      *)
THEOREM RegionSmallHostCutsData ==
  ASSUME "data" \in Cells, NEW h \in Hosts, SizeOf[h] <= DataAt, Truncate(h)
  PROVE  content'["data"] = "zero" /\ ~Backed(DataAt)'
<1>1. SizeOf[h] \in Nat /\ DataAt \in Nat /\ size' = SizeOf[h]
  BY RegionAssumption, Constants DEF Truncate, SetSize
<1>2. content'["data"] = "zero"
  BY <1>1 DEF Truncate, SetSize, Kept, Place
<1>3. ~Backed(DataAt)'
  <2>1. DataAt = 1048576 * Page
    BY DEF DataAt, TABLE_INTS, INT, Page
  <2>2. ((SizeOf[h] + Page - 1) \div Page) * Page <= DataAt
    BY <1>1, <2>1, SMT DEF Page
  <2>3. QED
    BY <1>1, <2>2, SMT DEF Backed, Page
<1>4. QED
  BY <1>2, <1>3

(* Resizing the object loses nothing of what everybody asks for, unless a   *)
(* FAM is starting.                                                          *)
THEOREM RegionSharedIsKept == Spec => SharedIsKept
<1> DEFINE Keeps(c) == content'[c] = "zero" => content[c] = "zero"
<1>1. ASSUME IndInv, [Next]_vars, ~Resetting', NEW c \in Shared
      PROVE  Keeps(c)
  <2>1. c \in Cells /\ content[c] \in {"zero", "own", "stray", "stale"}
    BY <1>1 DEF Shared, IndInv, TypeOK
  <2>2. ASSUME NEW p \in Procs, SetSize(AskedBy(p)) PROVE Keeps(c)
    BY <2>1, <2>2 DEF SetSize, Kept, Shared
  <2>3. ASSUME NEW p \in Procs, NEW d, NEW place, StoreAt(p, d, place)
        PROVE  Keeps(c)
    BY <1>1, <2>1, <2>3, StoreIsGentle DEF IndInv
  <2>4. CASE \E h \in Hosts : Truncate(h)
    BY <2>2, <2>4, RegionAssumption DEF Truncate, AskedBy, Procs
  <2>5. CASE \E h \in Hosts : HostStore(h)
    <3>1. PICK h \in Hosts : HostStore(h)
      BY <2>5
    <3>2. h \in Procs
      BY DEF Procs
    <3>3. QED
      BY <2>3, <3>1, <3>2 DEF HostStore
  <2>6. CASE FamStore
    BY <2>3, <2>6, Constants DEF FamStore
  <2>7. CASE FamTruncate
    <3>1. SetSize(AskedBy(Fam))
      BY <2>7 DEF FamTruncate, AskedBy
    <3>2. QED
      BY <2>2, <3>1, Constants
  <2>8. CASE FamCut
    BY <1>1, <2>8, Constants DEF FamCut, Goto, Resetting, IndInv, TypeOK
  <2>9. CASE FamZero
    BY <1>1, <2>9, Constants DEF FamZero, Goto, Resetting, IndInv, TypeOK
  <2>10. CASE \/ \E h \in Hosts : MapDevice(h) \/ Exit(h)
              \/ \E p \in Procs : Map(p)
              \/ FamDie
              \/ UNCHANGED vars
    BY <2>10 DEF MapDevice, Exit, Map, FamDie, vars
  <2>11. QED
    BY <1>1, <2>4, <2>5, <2>6, <2>7, <2>8, <2>9, <2>10 DEF Next
<1>2. IndInv /\ [Next]_vars => [~Resetting' => \A c \in Shared : Keeps(c)]_vars
  BY <1>1
<1>3. QED
  BY <1>2, RegionInvariant, PTL DEF Spec, SharedIsKept
=============================================================================
