SPECIFICATION Spec
CONSTANTS
  i1 = i1  i2 = i2
  s1 = s1  s2 = s2  s3 = s3
  q1 = q1  q2 = q2
  NoId = NoId
  NoJob = NoJob
  Id <- MCId
  Strategy <- MCStrategy
  StopRequest <- MCStopRequest
  MaxOverlap = 2
  StartCounter <- MCStartCounter
INVARIANTS
  FiresEveryFiveSeconds
CHECK_DEADLOCK FALSE
