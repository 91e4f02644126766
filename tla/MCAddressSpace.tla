---------------------------- MODULE MCAddressSpace ----------------------------
(* AddressSpace on a small machine, for every student's vm.c.                  *)
EXTENDS AddressSpace, SpaceVariants
===============================================================================
