\* Three records, a category of each kind and an unknown one, and two dates,
\* the older one i64::MIN itself.
CONSTANTS
  k1 = k1
  k2 = k2
  NoKey = NoKey
  Key <- MCKey
  Expected <- MCExpected
  Payload = {"payload"}
  Category = {0, 2, 4, 5}
  Date = {0, 1}
  MinI64 = 0
  MaxSeq = 3
SPECIFICATION Spec
INVARIANTS
  StateFollowsHead
  EnginesAgree
