-------------------------- MODULE MCDeviceRegistry --------------------------
EXTENDS DeviceRegistry, TLC
CONSTANTS k1, k2, pc, phone, c1, c2, r1, r2
Symmetry == Permutations({k1, k2}) \cup Permutations({c1, c2}) \cup Permutations({r1, r2})
=============================================================================
