SPECIFICATION Spec
CONSTANTS
  s1 = s1
  s2 = s2
  t1 = t1
  a = a
  root = root
  big = big
  x = x
  y = y
  Step <- MCStep
  Subtree <- MCSubtree
  Caller <- MCCaller
  Blob <- MCBlob
  Uses <- MCUses
  Store <- MCStore
  TreeStore <- MCTreeStore
  Root <- MCRoot
  Size <- MCSize
  Stored <- MCStored
  ByteLimit = 4
  BatchLimit = 3
  MaxCalls <- MCMaxCalls
INVARIANT SubtreeDataExist
