------------------------------- MODULE Region -------------------------------
(***************************************************************************)
(* The shared memory and its mappings: what secure_alloc() does before it  *)
(* reads the head, and what munmap_memory() does when the FAM starts.      *)
(* Each process sets the size of the one object, "/my_shmem3", to what it  *)
(* was asked for and maps that much of it; nothing compares sizes.  The    *)
(* FAM first cuts the object to two bytes.  On a DAX device, test_mode 0,  *)
(* nothing is resized and only host 0 may write.                           *)
(*                                                                         *)
(* Sizes and addresses are counted in ints, as in Layout.  A content is    *)
(* what a field holds: zeros, a store that was meant for it, one that was  *)
(* not, or one that is left from before the FAM's last start.              *)
(***************************************************************************)
EXTENDS Layout

CONSTANTS
  Hosts,        (* the host processes                                      *)
  Fam,          (* the FAM process                                         *)
  IdOf,         (* the host id of each host                                *)
  SizeOf,       (* the size that each host's argument asks for, in ints    *)
  DaxSize,      (* the size of the device                                  *)
  Cells         (* the fields whose content is followed                    *)

(* ONE_G is 1 GiB in bytes; the FAM asks for 0x100000000 bytes, and its     *)
(* munmap_memory() for 2.                                                    *)
ONE_G      == TABLE_INTS
FamSize    == 4 * ONE_G
ResetSize  == 1
Page       == 1024

(* TABLE_SIZE, a number of bytes, is added to a pointer to int.              *)
DataAt == TABLE_INTS * INT

Procs == Hosts \cup {Fam}
AskedBy(p) == IF p = Fam THEN FamSize ELSE SizeOf[p]

Place(c) == IF c = "data" THEN <<DataAt, DataAt + 1>> ELSE Field[c]

ASSUME RegionAssumption ==
  /\ Fam \notin Hosts
  /\ IdOf \in [Hosts -> Int]
  /\ SizeOf \in [Hosts -> Nat]
  /\ DaxSize \in Nat
  /\ EntryAt(LastEntry) + EntryInts <= TABLE_INTS
  /\ Cells \subseteq DOMAIN Field \cup {"data"}

VARIABLES
  mode,         (* test_mode: 0 for the device, 1 for the object           *)
  size,         (* the size of the device or the object                    *)
  content,      (* what each cell holds                                    *)
  pc            (* where each process is                                   *)

vars == <<mode, size, content, pc>>

(* A device that somebody has cleared, or an object that the FAM has reset  *)
(* and mapped.  fam_main.cc asks for the object, so a device has no FAM.    *)
Init ==
  /\ mode \in {0, 1}
  /\ size = IF mode = 0 THEN DaxSize ELSE FamSize
  /\ content = [c \in Cells |-> "zero"]
  /\ pc = [p \in Procs |-> IF p = Fam /\ mode = 1 THEN "mapped" ELSE "off"]

Goto(p, from, to) ==
  /\ pc[p] = from
  /\ pc' = [pc EXCEPT ![p] = to]

(* What is past the new size becomes zeros; what is in it stays. *)
Kept(n) == [c \in Cells |-> IF Place(c)[1] < n THEN content[c] ELSE "zero"]

SetSize(n) == size' = n /\ content' = Kept(n) /\ UNCHANGED mode

(* A page that holds any of the object is mapped whole. *)
Backed(at) == at < ((size + Page - 1) \div Page) * Page

-----------------------------------------------------------------------------
(* shmalloc() and dmalloc() in secure_alloc().                             *)

(* Mutant: main() begins with the munmap_memory() that it has commented out. *)
TruncateAfterReset(h) ==
  /\ mode = 1
  /\ Goto(h, "off", "truncated")
  /\ SetSize(ResetSize)

(* Mutant: the object gets range.size, which is one byte less. *)
TruncateToRange(h) ==
  /\ mode = 1
  /\ Goto(h, "off", "truncated")
  /\ SetSize(SizeOf[h] - 1)

Truncate(h) ==
  /\ mode = 1
  /\ Goto(h, "off", "truncated")
  /\ SetSize(SizeOf[h])

(* mmap(), which refuses an empty mapping, and secure_alloc()'s assert that *)
(* there is more than the head; both come after the ftruncate().            *)
Map(p) ==
  /\ Goto(p, "truncated", IF AskedBy(p) > ONE_G THEN "mapped" ELSE "off")
  /\ UNCHANGED <<mode, size, content>>

(* dmalloc(): a device cannot be mapped past its end. *)
MapDevice(h) ==
  /\ mode = 0
  /\ Goto(h, "off", IF ONE_G < SizeOf[h] /\ SizeOf[h] <= size THEN "mapped" ELSE "off")
  /\ UNCHANGED <<mode, size, content>>

(* Only host 0 maps a device for writing. *)
Writable(p) == mode = 0 => IdOf[p] = 0

(* A store of p to the ints from place[1] on, meant for cell c.  Past the   *)
(* mapping, past the pages of the object or without the permission to write *)
(* it ends the process.                                                      *)
StoreAt(p, c, place) ==
  /\ pc[p] = "mapped"
  /\ IF Writable(p) /\ place[1] < AskedBy(p) /\ Backed(place[1])
     THEN /\ content' = [d \in Cells |-> IF Apart(place, Place(d)) THEN content[d]
                                         ELSE IF d = c THEN "own" ELSE "stray"]
          /\ UNCHANGED <<mode, size, pc>>
     ELSE /\ Goto(p, "mapped", "off")
          /\ UNCHANGED <<mode, size, content>>

(* What secure_alloc() and its callers write.  An id is what atoi() makes of *)
(* an argument: with the FAM's id secure_alloc() returns before it stores    *)
(* anything, and with another negative one it ends in fatal() after the      *)
(* count.  participant_host_ids is indexed with any other.                   *)
HostCells(h) ==
  IF IdOf[h] >= 0
  THEN {"is_locked", "who_locked", "participant_count", "proposed_update", "data"}
  ELSE IF IdOf[h] = FAM_ID THEN {} ELSE {"participant_count"}

HostStore(h) ==
  \/ \E c \in HostCells(h) : StoreAt(h, c, Place(c))
  \/ /\ IdOf[h] >= 0
     /\ StoreAt(h, "participant_host_ids",
                <<HostIdAt(IdOf[h]), HostIdAt(IdOf[h]) + 1>>)

(* Mutant: main() ends with the munmap_memory() that it has commented out. *)
ExitReset(h) ==
  /\ Goto(h, "mapped", "off")
  /\ SetSize(ResetSize)

(* The host's program ends and may be started again. *)
Exit(h) ==
  /\ Goto(h, "mapped", "off")
  /\ UNCHANGED <<mode, size, content>>

-----------------------------------------------------------------------------
(* The FAM.                                                                *)

FamCells == {"is_locked", "who_locked", "count", "index", "proposed_update"}

(* It marks its own id as a participant, and fills entries of the table. *)
FamStore ==
  \/ \E c \in FamCells : StoreAt(Fam, c, Place(c))
  \/ StoreAt(Fam, "participant_host_ids", <<HostIdAt(FAM_ID), HostIdAt(FAM_ID) + 1>>)
  \/ \E i \in {0, LastEntry} : StoreAt(Fam, "table", <<EntryAt(i), EntryAt(i) + EntryInts>>)

(* The FAM is killed; a fault does the same. *)
FamDie ==
  /\ Goto(Fam, "mapped", "off")
  /\ UNCHANGED <<mode, size, content>>

(* munmap_memory(2, 1, 0).  Its shmalloc() leaves the first two bytes, which *)
(* hold all that is_locked may be.                                           *)
FamCut ==
  /\ mode = 1
  /\ Goto(Fam, "off", "cut")
  /\ size' = ResetSize
  /\ content' = [c \in Cells |-> IF Kept(ResetSize)[c] = "zero" THEN "zero" ELSE "stale"]
  /\ UNCHANGED mode

(* Mutant: munmap_memory() relies on the new size alone and writes no zeros. *)
FamZeroSkipped ==
  /\ Goto(Fam, "cut", "zeroed")
  /\ UNCHANGED <<mode, size, content>>

(* Its loop then writes zeros, unless a host has cut the object to nothing. *)
FamZero ==
  IF Backed(At(IS_LOCKED))
  THEN /\ Goto(Fam, "cut", "zeroed")
       /\ content' = [c \in Cells |-> IF c = "is_locked" THEN "zero" ELSE content[c]]
       /\ UNCHANGED <<mode, size>>
  ELSE /\ Goto(Fam, "cut", "off")
       /\ UNCHANGED <<mode, size, content>>

FamTruncate ==
  /\ Goto(Fam, "zeroed", "truncated")
  /\ SetSize(FamSize)

Next ==
  \/ \E h \in Hosts : Truncate(h) \/ MapDevice(h) \/ HostStore(h) \/ Exit(h)
  \/ \E p \in Procs : Map(p)
  \/ FamStore \/ FamDie \/ FamCut \/ FamZero \/ FamTruncate

Spec == Init /\ [][Next]_vars

-----------------------------------------------------------------------------
(* Properties.                                                             *)

(* Types.  The size is always one that some process asks for as a whole,    *)
(* or the FAM's two bytes.                                                   *)
TypeOK ==
  /\ mode \in {0, 1}
  /\ size \in {DaxSize, ResetSize} \cup {AskedBy(p) : p \in Procs}
  /\ content \in [Cells -> {"zero", "own", "stray", "stale"}]
  /\ pc \in [Procs -> {"off", "cut", "zeroed", "truncated", "mapped"}]

(* The cells that everybody asks for. *)
Shared == {c \in Cells : \A p \in Procs : Place(c)[1] < AskedBy(p)}

(* The FAM is between its ftruncate() to two bytes and the one to its size. *)
Resetting == pc[Fam] \in {"cut", "zeroed"}

(* Whichever sizes the hosts ask for and in whichever order they resize the *)
(* object, what all of them ask for is backed: no access of anyone to it,   *)
(* the FAM's included, can fault, except while a FAM starts anew.           *)
SharedIsBacked ==
  mode = 1 /\ ~Resetting => \A c \in Shared : Backed(Place(c)[1])

(* And what was stored there is never lost to somebody's ftruncate(), only  *)
(* to the reset of a FAM that starts.                                       *)
SharedIsKept ==
  [][~Resetting' => \A c \in Shared : content'[c] = "zero" => content[c] = "zero"]_vars

(* fam_main.cc: "The FAM always resets the memory at start."  Once it has   *)
(* mapped the region nothing from before is left in it, although hosts kept *)
(* it mapped and resized it meanwhile: no lock, no table, no data.          *)
ResetIsComplete ==
  pc[Fam] \in {"truncated", "mapped"} => \A c \in Cells : content[c] # "stale"

(* No store reaches a field it was not meant for: the FAM's to              *)
(* participant_host_ids[-2], an entry at the limit of the table, which is    *)
(* counted as part of the table here, a host's through data_start_address,   *)
(* nor one to participant_host_ids with an id past the end of the array, as  *)
(* long as it stays in the gap behind it (IdsReachGap).  s_dmalloc.cc of that *)
(* store: "set participant id at the right index."                           *)
OnlyOwnStores == \A c \in Cells : content[c] # "stray"

(* No host's id reaches past the gap that offsets in bytes leave behind an  *)
(* array of ints.  The code compares no id with anything.                    *)
IdsReachGap == \A h \in Hosts : IdOf[h] < MAX_PARTICIPANT_COUNT * INT
=============================================================================
