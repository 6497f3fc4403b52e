SPECIFICATION Spec
CONSTANTS
  s1 = s1
  s2 = s2
  Null = Null
  Symbols <- TwoSymbols
  TTL = 2
  Latency = 1
  MaxChanges = 2
  MaxTicks = 4
INVARIANTS TypeOK ReadsOwnChanges ServedWithinLifetime
SYMMETRY Symmetry
