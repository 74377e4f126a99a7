------------------------- MODULE MCAddressSpaces -------------------------
(* TLC instance of AddressSpaces.                                           *)
EXTENDS AddressSpaces, TLC

\* Which address space is which does not matter.
VasSymmetry == Permutations(Vas)

\* The registers take one MiB below MmioBase, the peripherals one below that.
MCPeripherals == <<<<9, 1>>, <<7, 1>>>>
=============================================================================
