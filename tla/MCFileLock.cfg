SPECIFICATION Spec
CONSTANTS
  MaxFd = 6
  Names <- MCNames
  OpenFlags <- MCOpenFlags
  SetNonblock = {FALSE}
  Handles = {h1, h2}
  NoHandle = NoHandle
  NoDev = NoDev
SYMMETRY HandleSymmetry
INVARIANT
  LockIsExclusive
