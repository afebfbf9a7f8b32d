-------------------------- MODULE MCMetadataDriver --------------------------
(* Instances of MetadataDriver: host 0 and hosts 1 and 2, one process each, *)
(* and the FAM.  Data in r1 is what a default run of main.cc asks for.      *)
EXTENDS MetadataDriver

CONSTANTS r1, r2

MCIdOf == [p \in Procs |->
  CASE p = "h0" -> 0 [] p = "h1" -> 1 [] p = "h2" -> 2 [] OTHER -> FAM_ID]

(* main.cc asks for read and write access to its whole range. *)
MCAsks == [p \in Hosts |-> [range |-> r1, permission |-> TRUE]]

(* Host 2 was started with another size than the others. *)
MixedAsks == [MCAsks EXCEPT !["h2"].range = r2]

(* The same of host 0. *)
FirstMixedAsks == [MCAsks EXCEPT !["h0"].range = r2]

Extend(r, w) == [op |-> "extend", range |-> r, permission |-> w]

(* main.cc's removal: on behalf of host 1, of host 2. *)
RemoveTwo == [op |-> "remove", host |-> 2, initiator |-> 1, range |-> r1]

NoScript == [p \in Hosts |-> <<>>]

(* Host 1 extends its access after it has joined. *)
ExtendScript ==
  [p \in Hosts |-> IF p = "h1" THEN <<Extend(r2, FALSE)>> ELSE <<>>]

(* Host 1 extends its access and then has host 2 removed. *)
ManageScript ==
  [p \in Hosts |-> IF p = "h1" THEN <<Extend(r2, FALSE), RemoveTwo>> ELSE <<>>]

FounderZero == [host |-> 0, range |-> r1, permission |-> TRUE]
=============================================================================
