SPECIFICATION MCBCacheSpec
CONSTANTS
  Buf = {b1,b2,b3}
  Block = {k1,k2,k3,k4}
  Under <- AnyUnderAny
  Data = {0,1}
  Zero = 0
  NoRequest = NoRequest
  Proc = {p,q}
  Nested = {p}
  MaxPins = 1
  Nobody = Nobody
  NoBlock = NoBlock
SYMMETRY Symmetry
INVARIANTS CacheSound
PROPERTIES ImplementsBlockStore
