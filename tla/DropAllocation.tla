--------------------------- MODULE DropAllocation ---------------------------
(***************************************************************************)
(* allocateDropProbabilities: how chaos.Compile divides                    *)
(* safety.maxDropProbability among the policies that may drop a query.     *)
(* A policy asks for its probability once in every phase in which it may   *)
(* drop; asked and shares hold both by position in the configuration.      *)
(***************************************************************************)
EXTENDS Integers, Sequences

CONSTANT Unit   \* probability 1

ASSUME UnitAssumption == Unit \in Nat \ {0}

Least(a, b) == IF a < b THEN a ELSE b

\* The first n values of f together.
SumTo(f, n) == LET sum[k \in 0..n] == IF k = 0 THEN 0 ELSE sum[k - 1] + f[k] IN sum[n]

\* What policy i gets of the cap when left of it remains: its part of the total, rounded down to
\* a unit, and no more than is left for its phases.
Granted(asked, shares, cap, total, i, left) ==
    IF shares[i] = 0 THEN asked[i] ELSE Least((asked[i] * cap) \div total, left \div shares[i])

\* The cap that remains after each policy in configuration order.
Remaining(asked, shares, cap, total) ==
    LET left[k \in 0..Len(asked)] ==
            IF k = 0 THEN cap ELSE left[k - 1] - Granted(asked, shares, cap, total, k, left[k - 1]) * shares[k]
    IN  left

Scaled(asked, shares, cap, total) ==
    LET left == Remaining(asked, shares, cap, total)
    IN  [i \in DOMAIN asked |-> Granted(asked, shares, cap, total, i, left[i - 1])]

\* allocateDropProbabilities
Allocate(asked, shares, cap) ==
    LET total == SumTo([i \in DOMAIN asked |-> asked[i] * shares[i]], Len(asked))
        phases == SumTo([i \in DOMAIN asked |-> IF asked[i] > 0 THEN shares[i] ELSE 0], Len(asked))
    IN  IF cap <= 0 \/ cap >= Unit \/ total <= cap THEN asked
        ELSE IF phases = 1 THEN [i \in DOMAIN asked |-> IF shares[i] # 0 THEN Least(asked[i], cap) ELSE asked[i]]
        ELSE Scaled(asked, shares, cap, total)

=============================================================================
