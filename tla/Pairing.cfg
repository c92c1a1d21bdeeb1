SPECIFICATION Spec
CONSTANTS
  cer1 = cer1
  cer2 = cer2
  phone1 = phone1
  phone2 = phone2
  place1 = place1
  place2 = place2
  Ceremonies = {cer1, cer2}
  Phones = {phone1, phone2}
  Strangers = {}
  Places = {place1, place2}
  Options <- DefaultOrOther
  AutoApprove = {cer2}
  Offset <- ClockAhead
  Lifetime = 1
  Skew = 1
  MaxPerSource = 1
  MaxGlobal = 2
  MaxTime = 1
  None = None
INVARIANTS
  TypeOK
  PhoneTrustsOnlyCommitted
  NothingLeftBehind
  LimitNeedsManySources
PROPERTIES
  ImplementsMutualTrust
\* Every ceremony ends, the last instant comes, and the phones may rest.
CHECK_DEADLOCK FALSE
