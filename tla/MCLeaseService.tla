--------------------------- MODULE MCLeaseService ---------------------------
(* A small lease service: one host with one slot, one with two. *)
EXTENDS LeaseService

MCHosts == {1, 2}
MCSlots == [h \in MCHosts |-> h]
=============================================================================
