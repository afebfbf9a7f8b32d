---------------------------- MODULE AccessControl ---------------------------
(***************************************************************************)
(* What the permission table promises: a set of accesses, each a host, a   *)
(* range and a permission.  A step grants one access that was asked for, or *)
(* takes from one host everything it has on one range, and nothing else    *)
(* ever changes, but for two faults: a domain that is asked to hold more    *)
(* than it can is lost whole, and a FAM that starts again starts empty.     *)
(***************************************************************************)
CONSTANTS
  Grants,       (* the <<host, range, permission>> that hosts ask for      *)
  Revocations,  (* the <<host, range>> that hosts ask to take back         *)
  Losable,      (* the <<range, permission>> whose domain may overflow     *)
  MayReset      (* whether the FAM may be started again                    *)

VARIABLE access

Init == access = {}

Grant(g) == access' = access \cup {g}

Revoke(h, r) == access' = {a \in access : ~(a[1] = h /\ a[2] = r)}

Lose(r, w) == access' = {a \in access : ~(a[2] = r /\ a[3] = w)}

Reset == MayReset /\ access' = {}

Next ==
  \/ \E g \in Grants : Grant(g)
  \/ \E v \in Revocations : Revoke(v[1], v[2])
  \/ \E l \in Losable : Lose(l[1], l[2])
  \/ Reset

Spec == Init /\ [][Next]_access
=============================================================================
