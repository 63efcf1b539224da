-------------------------------- MODULE Lists --------------------------------
(***************************************************************************)
(* Python's sum() and its list comprehensions with a condition.            *)
(***************************************************************************)
EXTENDS Integers, Sequences

IsList(s) == s \in Seq({s[i] : i \in DOMAIN s})

\* The sums of the first n elements, for every n.
PartialSums(s) ==
  LET sum[n \in 0 .. Len(s)] == IF n = 0 THEN 0 ELSE sum[n - 1] + s[n]
  IN sum

Total(s) == PartialSums(s)[Len(s)]

\* Those of the first n elements whose place is in I, for every n.
PartialPicks(s, I) ==
  LET picks[n \in 0 .. Len(s)] ==
        IF n = 0 THEN <<>>
        ELSE IF n \in I THEN Append(picks[n - 1], s[n]) ELSE picks[n - 1]
  IN picks

\* The elements whose place is in I, in their order.
Picked(s, I) == PartialPicks(s, I)[Len(s)]

=============================================================================
