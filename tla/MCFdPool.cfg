SPECIFICATION PoolSpec
CONSTANTS
  Builds = {TRUE, FALSE}
  MaxFd = 3
  Addrs = {a1, a2, a3}
  Null = Null
  MaxAccepts = 4
SYMMETRY AddrSymmetry
INVARIANTS PoolInv LiveCallback FreedOnce
