----------------------------- MODULE MCExecutor -----------------------------
(* The executor on two ids, three strategy objects and two stop requests.  *)
EXTENDS Executor, TLC

CONSTANTS i1, i2, s1, s2, s3, q1, q2

MCId == {i1, i2}
MCStrategy == {s1, s2, s3}
MCStopRequest == {q1, q2}

\* The counter after 3 and after 59 executed strategies: both sides of its wrap.
MCStartCounter == {3, 59}
=============================================================================
