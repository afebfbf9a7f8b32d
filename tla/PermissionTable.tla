--------------------------- MODULE PermissionTable --------------------------
(***************************************************************************)
(* The FAM alone with its table: move_proposed_entry() and                 *)
(* remove_proposed_entry() once they have the lock, on any sequence of     *)
(* proposals.  Only the FAM writes the table, so a whole update is a step. *)
(***************************************************************************)
EXTENDS PermissionOps

CONSTANTS
  Hosts,        (* the host ids that propose and are proposed for          *)
  MaxRequests   (* bound: how many proposals the FAM is given              *)

(* Any number that is not negative: nothing compares an id with a limit.    *)
ASSUME RequestAssumption == Hosts \subseteq Nat /\ MaxRequests \in Nat

VARIABLES
  table,        (* the permission table                                    *)
  domains,      (* the counter monitor_update() starts at 0                *)
  requests,     (* how many proposals the FAM has taken                    *)
  running       (* FALSE once an assert or fatal() has ended the FAM       *)

vars == <<table, domains, requests, running>>

(* What a host writes when nobody else writes at the same time: one valid   *)
(* context, and itself as initiator of an addition.  A removal names any     *)
(* victim and any initiator; its permission is not read.                     *)
Additions ==
  {prop \in [host: Hosts, used: {1}, range: Ranges, initiator: Hosts,
             permission: BOOLEAN] : prop.initiator = prop.host}

Removals ==
  [host: Hosts, used: {1}, range: Ranges, initiator: Hosts, permission: {FALSE}]

Init ==
  /\ table = <<>>
  /\ domains = 0
  /\ requests = 0
  /\ running = TRUE

Take ==
  /\ running
  /\ requests < MaxRequests
  /\ requests' = requests + 1

(* An index past the limit ends the FAM before the new entry is counted. *)
Move(prop) ==
  /\ Take
  /\ running' = ~IndexOverflows(table, prop)
  /\ table' = IF IndexOverflows(table, prop)
                THEN table ELSE Populate(table, domains, prop)
  /\ domains' = DomainsAfter(table, domains, prop)

RemoveAccess(prop) ==
  /\ Take
  /\ running' = ~RemoveFatal(table, prop)
  /\ table' = IF RemoveFatal(table, prop) THEN table ELSE Remove(table, prop)
  /\ UNCHANGED domains

Next ==
  \/ \E prop \in Additions : Move(prop)
  \/ \E prop \in Removals : RemoveAccess(prop)

Spec == Init /\ [][Next]_vars

-----------------------------------------------------------------------------
(* Properties.                                                             *)

TypeOK ==
  /\ table \in Seq(Entry)
  /\ domains \in Nat
  /\ requests \in 0..MaxRequests
  /\ running \in BOOLEAN

(* A domain id is given to one entry and never again: merging keeps the     *)
(* entry's id and only a new entry takes the next.                          *)
DomainsUnique == IdsArePositions(table) /\ (running => domains = Len(table))

(* populate_table_entry() merges a proposal into the entry with its range   *)
(* and permission, so the accesses to one range under one permission are in *)
(* one domain, through any sequence of additions and removals.  A range is   *)
(* pstart and size; vstart is not compared, so hosts that map the range at   *)
(* different addresses share the domain.  s_permissions.hh says otherwise of *)
(* these synonyms: that it "cannot merge" them and "does create multiple     *)
(* entries in the permission table".                                         *)
KeysDistinct == KeysAreDistinct(table)

(* The abstract specification, with the table seen through Access. *)
AC == INSTANCE AccessControl WITH
        access <- Access(table),
        Grants <- {<<prop.host, prop.range, prop.permission>> : prop \in Additions},
        Revocations <- Hosts \X Ranges,
        Losable <- Ranges \X BOOLEAN,
        MayReset <- FALSE

(* The table implements AccessControl: a proposal adds exactly the access   *)
(* it names, a removal takes exactly the victim's on that range, under      *)
(* either permission and whatever was merged or revoked before, and the     *)
(* store past a full array costs that one domain and no other.              *)
ImplementsAccessControl == AC!Spec

(* s_permissions.hh on MAX_CONTEXT: "This is the maximum number of contexts *)
(* that can be merged into a single domain."  A domain that has that many   *)
(* takes no further one.                                                    *)
FullDomainTakesNoMore == [][
  \A i \in DOMAIN table : table[i].used = MaxContext =>
     table'[i].used = MaxContext /\ table'[i].range = table[i].range]_vars
=============================================================================
