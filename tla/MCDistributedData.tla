-------------------------- MODULE MCDistributedData --------------------------
EXTENDS DistributedData

OneName == [r \in 1..Rounds |-> 1]
(* The first evaluations are over one operand, the last one over another.   *)
TwoNames == [r \in 1..Rounds |-> IF r < Rounds THEN 1 ELSE 2]

=============================================================================
