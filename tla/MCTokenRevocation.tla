------------------------- MODULE MCTokenRevocation -------------------------
\* Instances of TokenRevocation for TLC.
EXTENDS TokenRevocation, TLC

CONSTANTS ExpFirst, ExpOther   \* expiry of the first token and of the others

MCExp == [t \in Tokens |-> IF t = CHOOSE u \in Tokens : TRUE
                           THEN ExpFirst ELSE ExpOther]
MCSymmetry == Permutations(Requests) \union Permutations(Workers)
============================================================================
