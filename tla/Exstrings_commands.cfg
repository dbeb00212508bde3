SPECIFICATION Spec
CONSTANTS
  c1 = c1
  c2 = c2
  c3 = c3
  k1 = k1
  k2 = k2
  lock = lock
  v1 = v1
  v2 = v2
  v3 = v3
  NoValue = NoValue
  Hash = Hash
  NoClient = NoClient
  Key = {k1, k2, lock}
  Locks = {lock}
  Value = {v1, v2, v3}
  Client = {c1, c2, c3}
  Text <- FirstTwoAlike
  Token <- Tokens
  Written = {v1}
  MaxChanges = 4
SYMMETRY Symmetric
INVARIANT TypeOK
INVARIANT LockIsOwn
INVARIANT SubscriberIsUpToDate
INVARIANT NGetIsComplete
CHECK_DEADLOCK FALSE
