-------------------------------- MODULE Series -------------------------------
(***************************************************************************)
(* Comparing two series at their last values. A series of one value stands *)
(* for a constant.                                                         *)
(***************************************************************************)
EXTENDS Integers, Sequences, Fraction

Last(s) == s[Len(s)]
BeforeLast(s) == s[Len(s) - 1]

\* Subtract a series of the same length, or a constant.
Sub(series, other) ==
  [i \in DOMAIN series |-> series[i] -- other[IF Len(other) = 1 THEN 1 ELSE i]]

\* Mutant of CrossingOver: a series that comes from touching does not cross.
CrossingOverFromBelow(series, other) ==
  /\ Len(series) >= 2 /\ Len(other) >= 1
  /\ IF Len(other) = 1
     THEN Less(BeforeLast(series), other[1]) /\ Less(other[1], Last(series))
     ELSE Less(BeforeLast(series), BeforeLast(other)) /\ Less(Last(other), Last(series))

CrossingOver(series, other) ==
  /\ Len(series) >= 2 /\ Len(other) >= 1
  /\ IF Len(other) = 1
     THEN AtMost(BeforeLast(series), other[1]) /\ Less(other[1], Last(series))
     ELSE AtMost(BeforeLast(series), BeforeLast(other)) /\ Less(Last(other), Last(series))

CrossingUnder(series, other) ==
  /\ Len(series) >= 2 /\ Len(other) >= 1
  /\ IF Len(other) = 1
     THEN AtMost(other[1], BeforeLast(series)) /\ Less(Last(series), other[1])
     ELSE AtMost(BeforeLast(other), BeforeLast(series)) /\ Less(Last(series), Last(other))
=============================================================================
