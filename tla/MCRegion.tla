------------------------------ MODULE MCRegion ------------------------------
(* Region for three hosts: the default of main.cc, whose data pointer is    *)
(* outside its mapping, one whose argument, 1 GiB, leaves no room for data,  *)
(* and one that asks for 5 GiB, more than the FAM.  The last one's id is     *)
(* the highest that stays in the gap behind participant_host_ids.            *)
EXTENDS Region

MCIdOf == [h \in Hosts |-> CASE h = "h0" -> 0 [] h = "h1" -> 1 [] OTHER -> 4095]

MCSizeOf == [h \in Hosts |->
  CASE h = "h0" -> 2 * ONE_G [] h = "h1" -> ONE_G [] OTHER -> 5 * ONE_G]
=============================================================================
