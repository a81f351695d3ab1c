\* Two consumers and no spurious wakeup.
CONSTANTS
  p1 = p1
  p2 = p2
  c1 = c1
  c2 = c2
  v1 = v1
  v2 = v2
  NoValue = NoValue
  Garbage = Garbage
  Free = Free
  Producers = {p1, p2}
  Consumers = {c1, c2}
  Values = {v1}
  MaxCap = 3
  Spurious = FALSE
  MaxDebt = 1
SPECIFICATION Spec
INVARIANT NoEmptyPop
