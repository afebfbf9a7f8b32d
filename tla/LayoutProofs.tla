---------------------------- MODULE LayoutProofs ----------------------------
(***************************************************************************)
(* The fields of the head do not overlap, for any limits, although the     *)
(* offsets are bytes and the indexes are ints; where the two stores land   *)
(* that leave their arrays; and that the head ends inside its 1 GiB.       *)
(***************************************************************************)
EXTENDS Layout, TLAPS

(* What the arithmetic needs to know of the sizes: they are numbers, and an *)
(* entry is a whole number of ints that holds at least its fixed fields.    *)
LEMMA Sizes ==
  /\ ContextSize \in Nat
  /\ ContextSize >= 3 * INT
  /\ ValidContextsAt \in Nat
  /\ RangeAt \in Nat
  /\ RangeAt >= ValidContextsAt + INT
  /\ RangeAt < ValidContextsAt + INT + WORD
  /\ EntrySize = RangeAt + 40
  /\ EntryInts \in Nat
  /\ INT * EntryInts = EntrySize
  /\ EntryInts >= 10
<1>1. ContextSize \in Nat /\ ContextSize >= 3 * INT
  BY LayoutAssumption DEF ContextSize, INT
<1>2. MAX_CONTEXT * ContextSize \in Nat
  BY <1>1, LayoutAssumption
<1>3. ValidContextsAt \in Nat
  BY <1>2 DEF ValidContextsAt, ContextAt, INT
<1>4. /\ RangeAt \in Nat
      /\ RangeAt >= ValidContextsAt + INT
      /\ RangeAt < ValidContextsAt + INT + WORD
  BY <1>3 DEF RangeAt, INT, WORD
<1>5. EntrySize = RangeAt + 40
  BY <1>4 DEF EntrySize, IsDelAt, PermissionAt, InitiatorAt, INT, WORD
<1>6. EntryInts \in Nat /\ INT * EntryInts = EntrySize /\ EntryInts >= 10
  <2>1. PICK k \in Nat : RangeAt = 8 * k
    <3>1. (ValidContextsAt + INT + WORD - 1) \div 8 \in Nat
      BY <1>3 DEF INT, WORD
    <3>2. QED
      BY <3>1 DEF RangeAt, WORD
  <2>2. EntryInts = 2 * k + 10
    BY <1>5, <2>1 DEF EntryInts, INT
  <2>3. QED
    BY <1>5, <2>1, <2>2 DEF INT
<1>7. QED
  BY <1>1, <1>3, <1>4, <1>5, <1>6

(* The offsets in ints, in the order of the fields. *)
LEMMA Offsets ==
  /\ At(IS_LOCKED) = 0
  /\ At(WHO_LOCKED) = 4
  /\ At(PARTICIPANT_COUNT) = 8
  /\ At(PARTICIPANT_HOST_IDS) = 12
  /\ At(PROPOSED_UPDATE) = 12 + 4 * MAX_PARTICIPANT_COUNT
  /\ At(COUNT) = At(PROPOSED_UPDATE) + EntrySize
  /\ At(INDEX_COUNT) = At(COUNT) + 4
  /\ At(PERMISSION_TABLE) = At(COUNT) + 8
BY Sizes, LayoutAssumption
   DEF At, IS_LOCKED, WHO_LOCKED, PARTICIPANT_COUNT, PARTICIPANT_HOST_IDS,
       PROPOSED_UPDATE, COUNT, INDEX_COUNT, PERMISSION_TABLE, INT

(* The table as ints: it starts behind all the other fields. *)
LEMMA TableExtent ==
  /\ EntryAt(0) = At(PERMISSION_TABLE)
  /\ EntryAt(LastEntry) + EntryInts \in Nat
  /\ EntryAt(LastEntry) + EntryInts >= At(PERMISSION_TABLE)
<1>1. LastEntry * EntryInts \in Nat /\ 0 * EntryInts = 0
  BY Sizes, LayoutAssumption DEF LastEntry
<1>2. At(PERMISSION_TABLE) \in Nat
  BY Offsets, Sizes, LayoutAssumption
<1>3. QED
  BY <1>1, <1>2, Sizes DEF EntryAt

(* The ints of any two fields of the head are disjoint, whatever the limits *)
(* are: using sums of sizes in bytes as indexes of ints only leaves gaps.   *)
THEOREM HeadFieldsApart ==
  \A f, g \in DOMAIN Field : f # g => Apart(Field[f], Field[g])
<1>1. DOMAIN Field = {"is_locked", "who_locked", "participant_count",
        "participant_host_ids", "proposed_update", "count", "index", "table"}
  BY DEF Field
<1>2. /\ Field["is_locked"] = <<0, 1>>
      /\ Field["who_locked"] = <<4, 5>>
      /\ Field["participant_count"] = <<8, 9>>
      /\ Field["participant_host_ids"] = <<12, 12 + MAX_PARTICIPANT_COUNT>>
      /\ Field["proposed_update"] = <<At(PROPOSED_UPDATE), At(PROPOSED_UPDATE) + EntryInts>>
      /\ Field["count"] = <<At(COUNT), At(COUNT) + 1>>
      /\ Field["index"] = <<At(COUNT) + 4, At(COUNT) + 5>>
      /\ Field["table"] = <<At(COUNT) + 8, EntryAt(LastEntry) + EntryInts>>
  BY Offsets, TableExtent, Sizes, LayoutAssumption DEF Field, HostIdAt
<1>3. /\ At(PROPOSED_UPDATE) \in Nat /\ At(COUNT) \in Nat
      /\ At(PROPOSED_UPDATE) >= 12 + MAX_PARTICIPANT_COUNT
      /\ At(COUNT) >= At(PROPOSED_UPDATE) + EntryInts
      /\ EntryAt(LastEntry) + EntryInts >= At(COUNT) + 8
      /\ EntryAt(LastEntry) + EntryInts \in Nat
      /\ EntryInts \in Nat
  BY Offsets, TableExtent, Sizes, LayoutAssumption DEF INT
<1> HIDE DEF Field
<1>4. QED
  BY <1>1, <1>2, <1>3, LayoutAssumption DEF Apart

(* participant_host_ids[FAM_ID], which move_proposed_entry() sets, is in a  *)
(* gap between two fields.  It would be who_locked if the offsets were used *)
(* as bytes.                                                                *)
THEOREM FamIdInGap ==
  \A f \in DOMAIN Field : Apart(<<HostIdAt(FAM_ID), HostIdAt(FAM_ID) + 1>>, Field[f])
<1>1. HostIdAt(FAM_ID) = 10
  BY Offsets DEF HostIdAt, FAM_ID
<1>2. ASSUME NEW f \in DOMAIN Field
      PROVE  Field[f][1] >= 11 \/ Field[f][2] <= 10
  BY Offsets, TableExtent, Sizes, LayoutAssumption DEF Field, HostIdAt, INT
<1> HIDE DEF Field
<1>3. QED
  BY <1>1, <1>2 DEF Apart

(* participant_host_ids[id] is in proposed_update as soon as the id is four *)
(* times the limit, and below that behind the array's start and before it:  *)
(* set_participant_host_ids() compares the id with nothing.                  *)
THEOREM HostIdReachesProposal ==
  \A id \in Nat :
    HostIdAt(id) < At(PROPOSED_UPDATE) <=> id < MAX_PARTICIPANT_COUNT * INT
BY Offsets, LayoutAssumption DEF HostIdAt, INT

(* One context more than the array holds, which populate_table_entry()      *)
(* stores when it merges into a full domain, stays inside its entry, begins *)
(* on valid_contexts, and ends before is_del.  Its third to eighth process  *)
(* ids, which main.cc leaves zero, land on pstart, size and permission.     *)
THEOREM OverflowStaysInEntry ==
  ASSUME MAX_PROCESSES = 8
  PROVE  /\ ContextAt(MAX_CONTEXT) = ValidContextsAt
         /\ ContextAt(MAX_CONTEXT + 1) <= IsDelAt
         /\ PstartAt = ProcessIdAt(MAX_CONTEXT, 2)
         /\ SizeAt = ProcessIdAt(MAX_CONTEXT, 4)
         /\ PermissionAt = ProcessIdAt(MAX_CONTEXT, 7)
<1>1. ContextSize = 40
  BY DEF ContextSize, INT
<1>2. ValidContextsAt = 4 + MAX_CONTEXT * 40
  BY <1>1 DEF ValidContextsAt, ContextAt, INT
<1>3. RangeAt = 8 + MAX_CONTEXT * 40
  BY <1>2, LayoutAssumption DEF RangeAt, INT, WORD
<1>4. QED
  BY <1>1, <1>2, <1>3, LayoutAssumption
  DEF ValidContextsAt, ContextAt, ProcessIdAt, PstartAt, SizeAt, IsDelAt,
      PermissionAt, InitiatorAt, INT, WORD

(* With the limits of s_permissions.hh the table, the entry past its limit  *)
(* included, ends inside the 1 GiB that is kept for the head.               *)
THEOREM HeadFits ==
  ASSUME MAX_PARTICIPANT_COUNT = 1024, MAX_CONTEXT = 16384, MAX_PROCESSES = 8
  PROVE  EntryAt(LastEntry) + EntryInts <= TABLE_INTS
<1>1. ContextSize = 40
  BY DEF ContextSize, INT
<1>2. RangeAt = 655368
  BY <1>1 DEF RangeAt, ValidContextsAt, ContextAt, INT, WORD
<1>3. EntryInts = 163852
  BY <1>2, Sizes DEF INT
<1>4. At(PERMISSION_TABLE) = 659524
  BY <1>2, Sizes, Offsets
<1>5. QED
  BY <1>3, <1>4 DEF EntryAt, LastEntry, TABLE_INTS
=============================================================================
