# Verification of the Space-Control metadata driver

TLA+ modules, TLC runs and TLAPS proofs for the library in `src/lib/src`: the
metadata ("head") at the start of a shared memory region, through which hosts
ask a FAM (fabric-attached memory) process for access to the data behind it.

## 1. The system

Several host processes and one FAM process map the same region. Its first part
is the head; every word of it is read and written by plain loads and stores.

| head field | written by | read for a decision by |
|---|---|---|
| `is_locked`, `who_locked` | `write_lock`, `unlock` of creators and the FAM; `unlock` of `request_extension` | the same functions |
| `participant_count` | `secure_alloc` (0), `create_head` (1) | `secure_alloc`, `create_head`, the vote wait |
| `participant_host_ids` | `create_head`, `move_proposed_entry` | nobody (`vote_entry` has no caller) |
| `proposed_update` (one slot) | `secure_alloc` directly, `write_proposed_entry`; flags cleared by the FAM | `monitor_update`, `move_/remove_proposed_entry` |
| `count` (votes) | the FAM | the vote wait of `secure_alloc` |
| `permission_table_index`, table | the FAM | the FAM |

Components, what they keep, what makes them correct:

* **Head lock** (`write_lock`, `unlock`). State: two words. Operations:
  override-and-reset, lock, unlock. Correct if one process at a time is in the
  critical section, an owner's id implies an owner, and a lock nobody holds can
  be taken again. Hard: no atomic instruction, two words per transition.
* **Permission table** (`populate_table_entry`, `remove_table_entry`). State: a
  growing array of entries, a domain counter. Correct if it grants and revokes
  exactly what was proposed, with one domain per range and permission. Hard:
  merges, revoked slots that stay in place, the fixed array and index limits.
* **Secure allocation** (`secure_alloc`, `create_head`, `request_extension`).
  Decides from `participant_count` whether to create the head or to join, and
  returns `data_start_address`. Correct if a host that gets the pointer has its
  access in the table. Hard: re-read count, unlocked stores to the slot, the
  busy wait.
* **Proposed update and vote**. One slot for all hosts, one counter. Correct if
  every proposal is taken once, whole, and the wait ends after *this* proposal.
* **FAM monitor** (`fam_main.cc`, `monitor_update`, `move_proposed_entry`,
  `remove_proposed_entry`). Polls the slot once a second. Correct if the slot
  drains, the FAM never ends, and a FAM that is started again starts from nothing.
* **Host program** (`main.cc`): one `secure_alloc`, then perhaps a removal of
  host 2 in the name of host 1.
* **Region and mapping** (`shmalloc`, `dmalloc`, `munmap_memory`). State: one
  object with a size, and a mapping per process. Every process resizes the
  object to its own size, the FAM to two bytes first. Correct if nobody loses data
  or faults in memory it was given. Hard: the resize comes before every check.
* **Layout of the head** (`s_permissions.hh`, `assign_all_global_variables`). No
  state; offsets computed in bytes index an `int` pointer. Correct if no store
  meant for one field reaches another.
* **Context creation**, **graph middlewares**, **utilities**: see section 7.

## 2. Modules

| module | models | notes |
|---|---|---|
| `HeadLock` | `write_lock`, `unlock` | variables `isLocked`, `whoLocked` are the words, `pc[p]` the place of process `p`. One action per store. `LockSpec` closes it with clients that lock and unlock for ever, whenever they like: more than the programs do, where the FAM locks only for a proposal that a creator stores under the lock. What must not happen is therefore checked on it, what does happen (`lock_mutex`) on the programs |
| `PermissionOps` | the table functions as operators | `Populate`, `Remove`, `DomainsAfter`, `IndexOverflows`, `RemoveFatal`, and `Access`, what a table means |
| `PermissionTable` | the FAM alone on any sequence of proposals | one action for an addition, one for a removal |
| `AccessControl` | abstract: a set of accesses, granted one by one, revoked per host and range, lost with a domain that overflows, reset with a FAM | refined by `PermissionTable` and by `MetadataDriver` |
| `MetadataDriver` | hosts, FAM, lock, slot, count, table together, and deaths | extends `HeadLock` and `PermissionOps`; `InLock` are the lock's steps with the rest unchanged; `Lock` is an instance of `HeadLock` that its runs implement |
| `Layout` | the structures and offsets of the head | operators only; addresses in ints, places inside a structure in bytes |
| `Region` | the object or device, its size, the mappings, and where stores land | extends `Layout`; `content[c]` is what field `c` holds |
| `MCHeadLock`, `MCMetadataDriver`, `MCRegion` | instances for TLC | |
| `HeadLockProofs`, `PermissionOpsProofs`, `PermissionTableProofs`, `LayoutProofs`, `RegionProofs` | theorems of the modules they are named after | section 4 |
| `MetadataDriverProofs` | theorems of the driver under any overlap of requests | section 4 |
| `SerialProofs`, `ServiceProofs` | theorems of the driver when requests come one at a time: what is in the slot, and what the hosts get | extend `MetadataDriverProofs` |

### How MetadataDriver corresponds to the code

`pc[p]` walks through the functions: `attach` to `role2` is the head of
`secure_alloc`, `head`, `ov_*`, `lk_*`, `cs`, `enrol`, `write`, `un_*` is
`create_head`, `join`, `load`, `store`, `wait` the branch of a new participant,
`idle` the return. For the FAM, `idle` is the poll, then `lk_*`, `cs` (the vote
count), `read` (the proposal passed by value), `move` or `remove`, `clear`,
`clear_del`, `un_*`, and `idle` again for `set_count`.

Granularity. Each store to the head is a step, and each load that decides
something or is copied. The build uses no optimisation and x86 keeps the stores
of a process in order, so each process's steps come in program order; stores
are visible at once. The table is written by the FAM only and read by nobody
else for a decision, so a whole table update is one step. Two loads are joined
where it makes no difference: both words of a failed lock test (it is repeated),
and `is_valid` with `is_del` in the poll (nobody but the FAM clears `is_valid`).

Data. A host id is a number, a context only its host id (all that the code
compares), a range an opaque value, `ZeroRange` the range of a zeroed entry. The
fields `shared_mask`, `is_dirty`, `vstart` and the process ids decide nothing.

The copy of the slot onto itself. A joiner gives `write_proposed_entry` the slot
itself, so each field is loaded and stored back, with other writers in between;
`LoadField` and `StoreField` are these two steps.

Uninitialised memory. `create_head` and `request_extension` never set `is_del`
and `initiator_host_id` of the entry they `malloc`. `JunkFlag` and `JunkWord` are
the values found there. The entry is 655,408 bytes, served by `mmap` the first
time in a process and from fresh heap later, and no code ever writes those two
fields of it, so the runs use FALSE and 0. The proofs hold for any values.
`main.cc`'s removal entry is on the stack; its permission is any Boolean.

Deaths. `Die` kills a host of `Mortal` at any step, `FamDie` the FAM at any step,
at most `MaxRestarts` times; what was stored stays. `FamCut` and `FamStart` are the
start of `fam_main.cc`: `munmap_memory` cuts the object to two bytes, which leaves
`is_locked` alone, and then writes zeros to it; `init_fam` and `monitor_update` start
the index and the counter. Hosts may be anywhere in the head meanwhile and go on
with what they had read, except when `Serial` is set. A host that faults on what
is cut off is one of the deaths. A FAM that an assert or `fatal()` ended is at
`dead` and keeps the lock.

### How Region corresponds to the code

`mode` is `test_mode`: 1 for the object `/my_shmem3`, 0 for a DAX device, which
nobody resizes and only host 0 may write. `Truncate` and `Map` are `shmalloc` in
`secure_alloc`, with the failing `mmap` and the `assert(size > ONE_G)` after the
resize; `MapDevice` is `dmalloc`; `FamCut`, `FamZero`, `FamTruncate`, `Map` are the start
of `fam_main.cc`. A store goes to the address `Layout` computes, not to a field: it
reaches every cell that overlaps it, and ends the process where nothing is
mapped. A cell holds `zero`, `own` (stored through its own address), `stray`
(through another's), or `stale` (left from before the FAM's last start).

## 3. Runs

`CHECK_DEADLOCK FALSE` is set where the system may stop: hosts exit, a FAM with
nothing proposed only polls, the table runs bound the number of requests, and a
device has no FAM.

| run | instance | shows |
|---|---|---|
| `lock_race` | 2 hosts + FAM, lock for ever (4,760 states) | `OwnerPresent`, `AbandonedIsOverridable` hold although the lock is racy |
| `table` | 3 hosts, 2 ranges, 2 permissions, 5 requests, 3 contexts, index limit 3 (148,875) | types, `DomainsUnique`, `KeysDistinct`, and refinement of `AccessControl`, overflowing domains included |
| `bootstrap` | fresh region, host 0, then host 1 which joins and extends, FAM (54,081) | `CreatorExcludesFam`, `FamKeepsLock`, `AllocReturns`, and refinement of `HeadLock` (`UsesLock`) |
| `service` | founded region, hosts 1 and 2 join at once, host 2 may be killed at any store (269,156) | `AnnouncedIsTaken`: an addition that is whole in the slot while the FAM polls is admitted in the end, unless another one overwrites it |
| `serial` | 3 hosts started in any order, one thing at a time; join, extend, remove; hosts 0 and 2 may be killed anywhere, the FAM once, anywhere, and started again (198,779) | `TypeOK`, `CalmIsComplete`, `CalmIsClean`, `AdmittedWasAsked`, `FamNeverFails`, `CountersAgree`, `LockNamesItsOwner`, `TwoContextsAtMost`, refinement of `AccessControl` |
| `region` | hosts that ask for 2 GiB (default), 1 GiB (too little: it aborts after resizing) and 5 GiB, more than the FAM's 4; on an object and on a device of 4 GiB; hosts and FAM start again and again; the third host has id 4095 (10,398) | `SharedIsBacked`, `SharedIsKept`: memory that everybody asks for survives, and memory that some host does not ask for is not claimed to; `ResetIsComplete`, `OnlyOwnStores` |

And six statements of the repository which the code does not keep:

| run | statement | what happens |
|---|---|---|
| `lock_mutex` | the write lock protects the critical section (`s_permissions.hh:43`) | two hosts start together on a fresh region and both create the head; the second tests the word before the store of WRITE, or resets it in its override before the store of the id |
| `dead_owner` | "If the host_id is -1, then override the lock and reset it." (`s_permissions.cc:86`) | a creator is killed with its id in the lock and the count at 0; the next creator spins in that branch for ever |
| `table_overflow` | MAX_CONTEXT contexts at most in a domain (`s_permissions.hh:144`) | one more is stored past the array, on the count, range and permission |
| `early_grant` | a new host waits until the voting is done (`s_dmalloc.cc:116`) | `count` is never reset, so it does not wait |
| `mixed_proposal` | "If the voting goes through, I'll enter my proposed entry into the permission table" (`s_dmalloc.cc:109`) | two hosts with different sizes fill the slot at once, and the FAM admits one to the range of the other |
| `orphan_lock` | `unlock` unlocks (`s_permissions.cc:179`) | the creator stores IDLE, the FAM locks, the creator's second store erases the FAM's id, and the FAM's `unlock` is refused for ever |

More statements that the code does not keep, which no run is kept for. TLC found
the first five violated in `MetadataDriver` (instances like those of section 3, with
the property put into words here); the last three are facts about one step, and
theorems.

| statement | what happens |
|---|---|
| the count is set to 0 "if I am the first host" (`s_dmalloc.cc:70`) | two hosts start together: one tests the count at 0, the other creates the head, and the first stores 0 over its 1; a third then creates the head anew |
| the creator's entry "will go through" (`s_dmalloc.cc:257`) | a host that joins before the FAM has polled stores its proposal over the creator's, who is never admitted |
| "I can only get one context here" (`s_dmalloc.cc:128`) | the joiner stores `is_valid` directly and again through the copy of the slot onto itself; a FAM that is quick takes the proposal twice. Never a third time: `TwoContextsAtMost` |
| "FAM cannot be crashed at any point" (`s_permissions.cc:747`) | a removal mixes with the proposal of a host that joins, victim and initiator are the same, and `remove_table_entry` calls `fatal()` with the lock held |
| `unlock` takes `who_locked` for the proof that the caller locked (`s_permissions.cc:182`) | after a restart it is 0, the id of host 0: the `unlock` of its `request_extension` passes the test between the new FAM's stores of WRITE and of its id, and frees the FAM's lock |
| the participant is set "at the right index" (`s_dmalloc.cc:239`) | nothing compares the id: from four times the limit on it is in `proposed_update` (`HostIdReachesProposal`, `RegionFarIdStrays`) |
| "A valid pointer to a shared memory region" (`README.md:12` of the library) | `data_start_address` adds 1 Gi *ints* to the start, 4 GiB, outside a 2 GiB mapping (`RegionPointerLeavesMapping`) |
| the same | a host with no more than 4 GiB resizes the object and all data is gone (`RegionSmallHostCutsData`) |

Nor is every announced proposal taken: one that is announced between the FAM's copy of
another and its clearing of `is_valid` is cleared with it, and TLC finds its host left
without access. `AnnouncedIsTaken` therefore speaks of a slot that is valid while the
FAM polls.

The header says that `populate_table_entry` "cannot merge synonyms in the OS-based
testing cases" and "does create multiple entries" for them (`s_permissions.hh:58-62`):
synonyms are different virtual addresses of one physical range. The loop compares
`pstart`, `size` and the permission and never `vstart`, and `main.cc` and
`s_dmalloc.cc` give every process the same `pstart` and its own `vstart`, so such
proposals are merged; `KeysDistinct` and `TableKeysDistinct` follow the code.

The lock that `orphan_lock` shows lost can be lost in `bootstrap` and `serial` too:
the FAM then takes no further proposal. `AllocReturns` holds all the same, because
the count of the first proposal lets every later host pass, and the safety
properties of `serial` hold because nothing more changes. `service` starts from a
region whose creator and FAM did not meet at the lock, so its FAM keeps going.

`Calm` is a state with nothing under way; `Serial` lets nobody start before it.
What requests that overlap do to one another is `early_grant`, `mixed_proposal` and
`service`. In `serial` the host whose script removes another is not killed:
between its store of `is_del` and its store of `is_valid` its death leaves `is_del`
in a free slot, and `CalmIsClean`, with which the next addition is not taken for
a removal, does not hold then.

### Bounds, and why they are enough

* Three processes in the lock: a race of two and a third that finds the result.
* Table: merges need two requests for a key, revocation a third, an overflow
  `MaxContext + 1` for one domain; five requests give every pattern of add, merge,
  remove, add again, a merge beside a domain with a revoked slot, and one request
  after an overflow. The index limit 3 is reached, so the FAM's assert fires.
* Driver: the slot and the lock are single, so two hosts and the FAM have every
  pairwise interference. `MaxContext` is 6 or 8, above what an instance
  proposes, each announced twice. `MaxParticipant` is 3, which in `serial`
  is the number of entries there can be (host 0 asks for `r2`, host 1's extension for
  `r2` read only), so the index reaches its limit without passing it.
* All hosts ask for the range of a default run of `main.cc` (`r1`, read and
  write), but in `mixed_proposal`, where host 2 was given another size, and `serial`,
  where host 0 was; host 1's extension is to `r2`, read only.
* Host ids are small numbers that differ; nothing but equality is tested on them. In
  `Region`, where an id is an index, one host has 4095, the last one that stays off
  `proposed_update`. A negative id does not get through `secure_alloc` (-2 returns
  before the head, another ends in `fatal()` before a proposal), so the driver has none.
* `MaxRestarts` is 1 in `serial`: what a second restart finds, the first found. In
  `Region` restarts are not bounded, and the limits are those of the header
  (1024 participants, 16384 contexts, 8 processes).

### Fairness

`Fairness` is weak fairness of each process's own steps: an operating system
runs every process, and each is one sequential thread. A host process that may
be killed stops taking steps by `Die`. Nothing says that a program is started,
that an operation is requested or that a process dies: `Environment` and `Deaths`
have no fairness. Weak fairness promises a spinning process the lock only when
the lock stays free; no liveness property here needs more.

## 4. Proofs

All theorems are for every value of the constants that the named `ASSUME`s of
the modules allow: ids are not -1, limits are naturals with at least one
context, the ids of the hosts in the driver are naturals, with no upper limit, no
host asks for the zero range, the FAM is not a host, the table fits into the
head. In `Region` ids are any integers. Further assumptions are in the theorem.

**`HeadLockProofs`**, for any set of processes.

* `LockTypeCorrect`: types, by induction over the ten actions.
* `LockOwnerPresent`: with the types, `OwnerPresent` is inductive. The step that
  could break it is a store of WRITE or of an id; at the first the process is at
  `lk_who`, at the second it starts `Holding` under its own id.
* `LockAbandonedIsOverridable` follows: if nobody holds the lock or is about to
  write an id, the words cannot be (WRITE, id), and that is all
  `write_lock(IDLE, -1)` refuses.

**`PermissionOpsProofs`**, about the operators. `AdditionIsExact`: `Populate` adds the
one access asked for and no other if the domain it merges into `HasRoom`, and
otherwise loses exactly that domain. `RemovalIsExact`: `Remove` takes exactly the victim's accesses on that
range. Both go over `Rights`, the accesses of one entry, which `AccessMember` ties
to `Access`; the lemmas for a merge, a new entry and a removal say what happens to
one entry and to its neighbours.

**`PermissionTableProofs`**, for any number of requests, overflows included.

* `TableInvariant`: `IndInv`, the conjunction of types, `DomainsUnique` and
  `KeysDistinct`, is inductive. They need one another: that a new entry's id is its
  position needs the counter to be the length of the table, and that needs the
  types. An overflow only zeroes a range, which `KeysDistinct` leaves out.
* `TableImplementsAccessControl`: every step grants, revokes, loses or changes
  nothing. It needs `KeysDistinct`, because a merge goes to the first entry with the
  key, and the two theorems on the operators.

**`MetadataDriverProofs`**, for any hosts, ids, scripts, asks, junk and limits.

* `PlacesOK` (where each process can be and with which task) and `ScriptsOK` are
  inductive by themselves; everything else is inductive with them.
* `DriverTypeCorrect`: `SlotOK` (slot and copies are entries whatever stores mix, and
  a process that stores a field has one left), `CountsOK` (`set_count` is given
  the maximum before it adds one, so the count is bounded), `TableOK`, `WordsOK`.
* `DriverCountersAgree` is the part `TableOK`: a mixed proposal is still a request,
  and `Populate`, `Remove` and the restart keep ids, keys and counter together.
  Both hold from both initial states, with any deaths, and with a FAM that starts
  again while hosts are in the middle of their calls.
* `DriverUsesLock`, if nobody is killed: every step is, through `lockPc`, a step of
  `LockSpec` or a stutter, so the theorems on the lock hold of the programs.
* `DriverCreatorExcludesFam` and `DriverFamKeepsLock`, for one founder (`OneFounder`:
  every other host is started once a head exists, ids are distinct, neither the
  founder nor the FAM is killed). Neither is inductive: why the FAM is outside
  while the founder is inside is a chain of facts over the founder's whole way.
  `FoundingOK` has them. Before the founder has the lock nothing is proposed and
  everybody waits (`WordsOfFounder`); the others only ever join, and the `unlock` of
  their extensions stops at its test because `who_locked` is the FAM's or -1
  (`LateOnesJoin`); and the founder's last store is to `who_locked`, not to
  `is_locked`, so it cannot free the FAM's lock (`FamLocks`).

**`SerialProofs`** is about requests that come one at a time, and says what the slot
holds at every store. Its assumption `OneAtATime` is the use the programs are made for:
an operator starts one after the other (`Serial`); what `malloc()` returns has `is_del`
unset (`JunkFlag`, section 2); and a host that runs a removal is not killed in it. The
last one is needed: without it `CalmIsClean` is false (section 3).

* `SerialInvariant`: `SerialOK` is inductive with the invariants of
  `MetadataDriverProofs`. Before a host has announced its proposal the FAM does not
  look (`QuietOK`); what the host has stored so far is in the slot, field by field
  (`DraftOK`, `JoinOK`); after the announcement a joiner stores each field once more as
  it is, while the FAM may already be taking the proposal, done with it, or dead; from
  the poll to the clearing of `is_valid` the FAM's copy agrees with the slot, and its
  choice between addition and removal with `is_del` (`FamOK`); and what a running FAM is
  shown is one proposal as a whole (`ValidIsWhole`), never one host's range with
  another's id.
* `SerialCalmIsClean` is `DelIsCleared`, the part on `is_del`, in a calm state.
* `SerialAdmittedWasAsked`: since the FAM copies whole proposals, and since by
  `AdditionIsExact` an addition gives no more than was proposed, nothing is ever
  admitted but what a host asked for; domains may overflow. `mixed_proposal` shows the
  same property fail when requests overlap.
* `SerialLockNamesItsOwner`: an id in a lock that is taken is that of the process that
  has the lock or of a killed host. `EntrantOK` is inductive with it: a creator on its way
  into the lock, alone among the hosts, finds -1 in `who_locked` from its override on
  until it stores its own id. The theorem says nothing of a lock with -1 in it, which a creator can reset, and nothing while
  a FAM is killed and not started again; a FAM that ended in `fatal()` has the lock.
  All three hold from both initial states.

**`ServiceProofs`** adds two assumptions on sizes, for a fresh region.
`FitsDomains`: all announcements in the programs together (two per `secure_alloc`, one
per operation) are no more than `MaxContext`; there are 16384 contexts, and a host of
`main.cc` announces three times at most. `FitsIndex`: the ranges hosts ask for, each with
a permission, are no more than the index accepts. Both are on the programs that are run,
not on the order they run in, and `serial` meets them with equality: 8 announcements for
8 contexts, 3 keys for an index of 3.

* `RoomInvariant`: `RoomOK`, no domain has more contexts than were announced. Each
  announcement that is left, or in the slot for the FAM to add, is one context less.
  This is a count over a finite set, and what makes it work is that the joiner's second
  store of `is_valid` is an announcement of its own: the FAM may add the proposal twice.
* `SerialServesAccessControl`: every step is a grant of what some host asked for, a
  revocation that some removal names, a reset with a new FAM, or changes nothing. No
  loss is allowed; `RoomOK` is why there is none.
* `SerialCalmIsComplete`: `KeptOK` says of each host that has `data_start_address`, or has
  announced and waits, that its access is in the table, or in the slot for the FAM to
  add, or that a removal names it. A host that dies between its two announcements, or a
  FAM that dies after the table and before `is_valid` is cleared, does not break it. The
  count that is never reset (`early_grant`) lets a host go before it is in the table,
  and `KeptOK` then still has it in the slot.
* `SerialFamNeverFails`: `KeysOK`, each entry has a range and a permission that some host
  asks for. Entries have different ones (`CountersAgree`), so by counting there are no
  more than `FitsIndex` allows, and the assert on the index holds. `fatal()` needs a
  removal whose two hosts are the same; the one in `main.cc` names hosts 1 and 2
  (`NobodyRemovesItself`), and a proposal that is whole keeps them apart.

TLC checked `SerialOK`, `RoomOK`, `KeptOK` and `KeysOK` as invariants of `serial` before
they were proved; `serial` satisfies every assumption above.

**`LayoutProofs`**. `HeadFieldsApart`: for any limits, the fields do not overlap, by
the order of the offsets. `FamIdInGap`: `participant_host_ids[-2]`
is in the gap that byte offsets leave in an array of ints. `OverflowStaysInEntry`:
with 8 processes per context, `context[MAX_CONTEXT]` lands on the count, the range
and the permission of its own entry, what `PermissionOps` assumes. `HeadFits`: with the
limits of the header all entries are below 1 GiB, what `Region` assumes.
`HostIdReachesProposal`: the store of an id at its index in `participant_host_ids` is
before `proposed_update` exactly for ids below four times the limit.

**`RegionProofs`**, for any hosts, ids, sizes and restarts. `IndInv` adds to `TypeOK`:
the size is somebody's wish unless a FAM resets it (`SizeIsAsked`), and after the cut
only `is_locked` can be stale (`Staleness`). `SharedIsBacked` and `SharedIsKept` follow
from `SizeIsAsked`: what is below every wish is below the size.

* `RegionOnlyOwnStores` assumes `IdsReachGap`, ids below four times the limit, which
  nothing in the code ensures. `OnlyOwnStores` then needs that every address a store uses
  is apart from the cells it is not meant for, from `LayoutProofs`; an id past the array
  is in the gap behind it. `RegionFarIdStrays` is the other side: a store with the first
  id that the assumption excludes breaks the invariant.
* `RegionPointerLeavesMapping` and `RegionSmallHostCutsData` are about one step and say
  what goes wrong for the data, of which `Shared` has nothing as soon as one host asks
  for 4 GiB or less.

## 5. Only model-checked

* Liveness (`AllocReturns`, `AnnouncedIsTaken`) is out of the proof system's reach.
* `TwoContextsAtMost` of `serial`. `RoomOK` counts announcements against contexts over
  all hosts together; it would have to be kept per host and domain.
* Every other invariant, action property and refinement of the passing runs is a
  theorem.
* `SerialServesAccessControl`, `SerialCalmIsComplete` and `SerialFamNeverFails` are for a
  fresh region. From a founded one the count of `RoomOK` would start with the founder's
  context; no run asks them of it.

## 6. Plan

1. Proofs: more of what holds when requests overlap. `SlotOK` says only that a mixture
   of proposals is a proposal; that each of its fields comes from some host's entry
   would bound what `mixed_proposal` shows.
2. A run with restarts of the FAM while hosts are in the head. The proofs cover
   them, and 8.8 million states of two hosts and one restart showed no violation of
   `TypeOK` and `CountersAgree`; that instance takes too long to keep, and which
   further property holds of it (a host that waits for its vote then waits for ever,
   and `FamKeepsLock` does not hold) is open.

## 7. Not modelled

* `hmalloc` and `flush_x86_cache`: no caller. `dmalloc` is in `Region`, although the
  programs select `shmalloc`.
* `vote_entry`, `reset_count`, `create_and_wait_to_get_access`,
  `monitor_update_old`, `monitor_and_wait`: no caller, or an assert that stops
  them at once. `create_context`: no caller, and private memory of a process.
* The graph middlewares: `CMakeLists.txt` does not build them. The one for gapbs does not
  compile (it uses a member that `range_t` does not have); the other asks for
  less than the head and would end at `assert(size > ONE_G)`. To the head they
  would be sequences of `request_extension`, which `Script` describes.
* `utility.*`, `dmalloc.h`, `test.cc`: logging, an older copy of the mapping
  functions and a scratch test of it; none touches the metadata.
* Printing, and `sleep`: a sleep orders nothing, the other side can be slower.
