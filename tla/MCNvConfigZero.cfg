SPECIFICATION Spec
CONSTANTS
  RegAddr <- MCRegAddr
  RegDefault <- MCRegDefault
  FixNum = 1
  Kept = 2
  Addrs <- MCAddrs
  Vals <- MCVals
  Params = {p1, p2}
  Default = p1
  Zero = zero
  Missing = missing
  MaxCrash = 2
INVARIANT ParamsSet
