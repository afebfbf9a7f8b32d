---------------------------- MODULE PermissionOps ---------------------------
(***************************************************************************)
(* The permission table and the two functions by which the FAM changes it: *)
(* populate_table_entry() and remove_table_entry() of s_permissions.cc.    *)
(*                                                                         *)
(* The table is the sequence of its first permission_table_index entries.  *)
(* An entry keeps what the functions read: the domain id, the array of     *)
(* contexts with its count of valid ones, the range and the permission.    *)
(* A context is its host id, all that the functions compare; a range is    *)
(* the pair (pstart, size), compared as a whole.                           *)
(***************************************************************************)
EXTENDS Integers, Sequences

CONSTANTS
  MaxContext,      (* MAX_CONTEXT: contexts an entry's array holds         *)
  MaxParticipant,  (* MAX_PARTICIPANT_COUNT: also the highest index that   *)
                   (* set_permission_table_index() accepts                 *)
  Ranges,          (* the ranges that hosts ask for                        *)
  ZeroRange        (* pstart = 0 and size = 0: no host asks for it         *)

ASSUME TableAssumption ==
  /\ MaxContext \in Nat \ {0}
  /\ MaxParticipant \in Nat
  /\ ZeroRange \notin Ranges

FAM_ID == -2

(* What a host id field may hold: a host's, or the FAM's in a revoked slot. *)
HostIds == Nat \cup {FAM_ID}

Slots == 0..(MaxContext - 1)

Entry ==
  [id: Nat, context: [Slots -> HostIds], used: Nat,
   range: Ranges \cup {ZeroRange}, permission: BOOLEAN]

(* A proposal as the FAM copied it: a context, a range, a permission and    *)
(* the host that asks, with used the valid_contexts its writer set.         *)
Proposal ==
  [host: Nat, used: 0..MaxContext, range: Ranges, initiator: Nat,
   permission: BOOLEAN]

-----------------------------------------------------------------------------
(* populate_table_entry()                                                  *)

(* Mutant: two entries merge on the range alone. *)
SameKeyIgnoringPermission(e, prop) == e.range = prop.range

SameKey(e, prop) == e.range = prop.range /\ e.permission = prop.permission

(* The entry the loop stops at: the first with the proposal's key. *)
IsMergeTarget(table, i, prop) ==
  /\ SameKey(table[i], prop)
  /\ \A j \in 1..(i - 1) : ~SameKey(table[j], prop)

(* Mutant: the context is stored and the count of valid ones is not raised. *)
AddContextUncounted(e, h) == [e EXCEPT !.context[e.used] = h]

(* context[valid_contexts] = h; valid_contexts++.  With the array full the  *)
(* store lands on what follows it in the entry: the host id on the count,   *)
(* the zeros after the first pid on pstart, size and permission.            *)
AddContext(e, h) ==
  IF e.used \in Slots
  THEN [e EXCEPT !.context[e.used] = h, !.used = @ + 1]
  ELSE [e EXCEPT !.used = h + 1, !.range = ZeroRange, !.permission = FALSE]

(* Mutant: the search looks at the newest entry only. *)
MergeableNewest(table, prop) ==
  table # <<>> /\ SameKey(table[Len(table)], prop)

Mergeable(table, prop) == \E i \in DOMAIN table : SameKey(table[i], prop)

(* The slots behind context[0] hold the zeros of a fresh mapping. *)
NewEntry(d, prop, valid) ==
  [id |-> d, context |-> [s \in Slots |-> IF s = 0 THEN prop.host ELSE 0],
   used |-> valid, range |-> prop.range, permission |-> prop.permission]

(* The first entry of the table is counted as one context, a later one as   *)
(* its writer said.  d is the FAM's domains counter.                        *)
Populate(table, d, prop) ==
  IF Mergeable(table, prop)
  THEN [i \in DOMAIN table |->
          IF IsMergeTarget(table, i, prop)
          THEN AddContext(table[i], prop.host) ELSE table[i]]
  ELSE Append(table, NewEntry(d, prop, IF table = <<>> THEN 1 ELSE prop.used))

(* Mutant: a merge uses up a domain id. *)
DomainsAfterAlways(table, d, prop) == d + 1

DomainsAfter(table, d, prop) == IF Mergeable(table, prop) THEN d ELSE d + 1

(* Mutant: the assert on the index is one too strict. *)
IndexOverflowsEarly(table, prop) ==
  ~Mergeable(table, prop) /\ Len(table) + 1 >= MaxParticipant

(* set_permission_table_index() asserts on the index past a new entry. *)
IndexOverflows(table, prop) ==
  ~Mergeable(table, prop) /\ Len(table) + 1 > MaxParticipant

-----------------------------------------------------------------------------
(* remove_table_entry()                                                    *)

Victim(e, s, prop) == e.range = prop.range /\ e.context[s] = prop.host

(* Mutant: the scan of the contexts stops after the first. *)
RemoveFirst(table, prop) ==
  [i \in DOMAIN table |->
    [table[i] EXCEPT !.context =
      [s \in Slots |-> IF s = 0 /\ Victim(table[i], s, prop) THEN FAM_ID ELSE @[s]]]]

(* Mutant: a revoked slot gets -1, nobody's id, instead of the FAM's. *)
RemoveToNobody(table, prop) ==
  [i \in DOMAIN table |->
    [table[i] EXCEPT !.context =
      [s \in Slots |-> IF Victim(table[i], s, prop) THEN -1 ELSE @[s]]]]

(* Every context of the victim in every entry on the range, whatever its    *)
(* permission, is overwritten with the FAM's id; the slot is not freed.     *)
Remove(table, prop) ==
  [i \in DOMAIN table |->
    [table[i] EXCEPT !.context =
      [s \in Slots |-> IF Victim(table[i], s, prop) THEN FAM_ID ELSE @[s]]]]

(* A host that removes its own context ends the FAM with fatal().  The scan *)
(* covers the whole array, the slots that were never used too.              *)
RemoveFatal(table, prop) ==
  /\ prop.initiator = prop.host
  /\ \E i \in DOMAIN table, s \in Slots : Victim(table[i], s, prop)

-----------------------------------------------------------------------------
(* What a table means: who may do what where.  A slot counts if it is valid *)
(* and not revoked, in an entry whose range was not overwritten.            *)
LiveSlots(e) ==
  {s \in Slots : s < e.used /\ e.context[s] # FAM_ID /\ e.range # ZeroRange}

Access(table) ==
  {<<table[q[1]].context[q[2]], table[q[1]].range, table[q[1]].permission>> :
     q \in {r \in (DOMAIN table) \X Slots : r[2] \in LiveSlots(table[r[1]])}}

(* No two entries share a range and a permission, unless the range was      *)
(* overwritten by an overflow of the context array.                         *)
KeysAreDistinct(table) ==
  \A i, j \in DOMAIN table :
    /\ table[i].range = table[j].range
    /\ table[i].permission = table[j].permission
    /\ table[i].range # ZeroRange
    => i = j

(* Domain ids are the positions of their entries. *)
IdsArePositions(table) == \A i \in DOMAIN table : table[i].id = i - 1
=============================================================================
