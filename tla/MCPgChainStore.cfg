CONSTANTS
  a1 = a1  a2 = a2  a3 = a3  a4 = a4
  b2 = b2  b3 = b3  z1 = z1  x2 = x2
  none = none  t1 = t1  t2 = t2
  Block <- MCBlock
  NoBlock = none
  Parent <- MCParent
  Height <- MCHeight
  TxId = {t1, t2}
  TxsOf <- MCTxsOf
  NameUpdate = {b2}
SPECIFICATION Spec
INVARIANTS IInv CanonicalChain EntitiesFollowBlocks NoTxLost
PROPERTIES AnnouncedCanonicalIsTip ImplementsLongestChain
