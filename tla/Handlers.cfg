CONSTANTS
  t1 = t1
  t2 = t2
  Tasks = {t1, t2}
  MaxForks = 2
SPECIFICATION FairSpec
INVARIANT TableIsRing
INVARIANT RightRecord
 
PROPERTY HandlersEnd
CHECK_DEADLOCK FALSE
