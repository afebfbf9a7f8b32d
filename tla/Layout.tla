------------------------------- MODULE Layout -------------------------------
(***************************************************************************)
(* Where the fields of the head are.  s_permissions.hh defines the offsets *)
(* as sums of sizes in bytes; assign_all_global_variables() uses them as   *)
(* indexes of an int pointer.  Addresses here are counted in ints from     *)
(* start_address, places inside a structure in bytes, as the x86-64 ABI    *)
(* lays the structures out.                                                *)
(***************************************************************************)
EXTENDS Integers

CONSTANTS
  MAX_PARTICIPANT_COUNT,  (* host ids, and entries of the table            *)
  MAX_CONTEXT,            (* contexts of an entry                          *)
  MAX_PROCESSES           (* process ids of a context                      *)

ASSUME LayoutAssumption ==
  /\ MAX_PARTICIPANT_COUNT \in Nat \ {0}
  /\ MAX_CONTEXT \in Nat \ {0}
  /\ MAX_PROCESSES \in Nat \ {0}

INT  == 4    (* sizeof(int); bool has 1 byte, pointers and size_t have 8    *)
WORD == 8

(* The FAM's host id, with which it indexes participant_host_ids. *)
FAM_ID == -2

-----------------------------------------------------------------------------
(* struct table_entry, in bytes.                                           *)

ContextSize == (1 + MAX_PROCESSES + 1) * INT

(* context[j] of an entry's domain, behind the domain's id. *)
ContextAt(j) == INT + j * ContextSize

(* Its process_id[k], behind the host id. *)
ProcessIdAt(j, k) == ContextAt(j) + INT + k * INT

ValidContextsAt == ContextAt(MAX_CONTEXT)

(* The range holds a pointer, so it starts at a multiple of 8. *)
RangeAt == ((ValidContextsAt + INT + WORD - 1) \div WORD) * WORD

PstartAt     == RangeAt + WORD
SizeAt       == RangeAt + 2 * WORD
InitiatorAt  == RangeAt + 3 * WORD
PermissionAt == InitiatorAt + INT
IsDelAt      == PermissionAt + 2 * INT     (* behind shared_mask           *)
EntrySize    == IsDelAt + INT              (* three bools and padding      *)

-----------------------------------------------------------------------------
(* The offsets of the head, as defined.                                    *)

IS_LOCKED            == 0
WHO_LOCKED           == IS_LOCKED + INT
PARTICIPANT_COUNT    == WHO_LOCKED + INT
PARTICIPANT_HOST_IDS == PARTICIPANT_COUNT + INT
PROPOSED_UPDATE      == PARTICIPANT_HOST_IDS + MAX_PARTICIPANT_COUNT * INT
COUNT                == PROPOSED_UPDATE + EntrySize
INDEX_COUNT          == COUNT + INT
PERMISSION_TABLE     == INDEX_COUNT + INT

(* Mutant: start_address is a pointer to bytes. *)
AtByte(offset) == offset \div INT

(* TABLE_SIZE bytes are for the head. *)
TABLE_INTS == 268435456

(* &start_address[offset]. *)
At(offset) == offset

EntryInts == EntrySize \div INT

(* head[i] of the flat table. *)
EntryAt(i) == At(PERMISSION_TABLE) + i * EntryInts

(* participant_host_ids[id]. *)
HostIdAt(id) == At(PARTICIPANT_HOST_IDS) + id

(* The last entry populate_table_entry() writes is the one whose index      *)
(* set_permission_table_index() then refuses.                               *)
LastEntry == MAX_PARTICIPANT_COUNT

(* Each field as the ints [first, past] that belong to it. *)
Field == [
  is_locked            |-> <<At(IS_LOCKED), At(IS_LOCKED) + 1>>,
  who_locked           |-> <<At(WHO_LOCKED), At(WHO_LOCKED) + 1>>,
  participant_count    |-> <<At(PARTICIPANT_COUNT), At(PARTICIPANT_COUNT) + 1>>,
  participant_host_ids |-> <<HostIdAt(0), HostIdAt(MAX_PARTICIPANT_COUNT)>>,
  proposed_update      |-> <<At(PROPOSED_UPDATE), At(PROPOSED_UPDATE) + EntryInts>>,
  count                |-> <<At(COUNT), At(COUNT) + 1>>,
  index                |-> <<At(INDEX_COUNT), At(INDEX_COUNT) + 1>>,
  table                |-> <<EntryAt(0), EntryAt(LastEntry) + EntryInts>>]

Apart(a, b) == a[2] <= b[1] \/ b[2] <= a[1]
=============================================================================
