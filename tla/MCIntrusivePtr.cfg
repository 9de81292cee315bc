CONSTANTS
  o1 = o1  o2 = o2
  s1 = s1  s2 = s2  s3 = s3
  w1 = w1  w2 = w2
  NULL = NULL
  Objects = {o1, o2}
  Strong = {s1, s2, s3}
  Weak = {w1, w2}
SPECIFICATION Spec
INVARIANTS NoUseAfterFree ResourcesReleasedOnce DestructorAssertions IndInv
PROPERTIES NeverResurrected EventuallyFreed
CHECK_DEADLOCK FALSE
