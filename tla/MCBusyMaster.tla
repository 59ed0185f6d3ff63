---------------------------- MODULE MCBusyMaster ----------------------------
(* A tick is two seconds.  The vms page asks each of two slaves and waits    *)
(* ten seconds; two windows show the page of a slave, which asks one and     *)
(* waits twenty.                                                             *)
EXTENDS BusyMaster, Functions

CONSTANTS vms, node1, node2

MCPages == {vms, node1, node2}
MCVisits == [p \in MCPages |-> IF p = vms THEN 2 ELSE 1]
MCLoad == [s \in SUBSET MCPages |-> SumFunctionOnSet(MCVisits, s)]
MCPageTimeout == [p \in MCPages |-> IF p = vms THEN 5 ELSE 10]

=============================================================================
