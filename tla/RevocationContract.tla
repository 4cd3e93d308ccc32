------------------------- MODULE RevocationContract -------------------------
(***************************************************************************)
(* What the blocklist promises to the endpoints it protects, without the   *)
(* caches, the table or the workers: a token is called revoked only after  *)
(* some reset of it was committed, and a token whose reset was committed   *)
(* is no longer called clear by a check that began more than Grace seconds *)
(* after the commit.                                                       *)
(***************************************************************************)
EXTENDS Integers

CONSTANTS Tokens, Requests, Exp, Grace, None

VARIABLES
    clock,
    revokedAt, \* when a reset of the token was first committed
    verdict    \* verdict[r]: the answer request r has been given

vars == <<clock, revokedAt, verdict>>

NoVerdict == [t |-> None, start |-> 0, answer |-> "none"]

Init ==
    /\ clock = 0
    /\ revokedAt = [t \in Tokens |-> None]
    /\ verdict = [r \in Requests |-> NoVerdict]

Tick ==
    /\ clock' = clock + 1
    /\ UNCHANGED <<revokedAt, verdict>>

Commit(t) ==
    /\ revokedAt[t] = None
    /\ clock < Exp[t]
    /\ revokedAt' = [revokedAt EXCEPT ![t] = clock]
    /\ UNCHANGED <<clock, verdict>>

Justified(t, start, answer) ==
    \/ answer = "revoked" /\ revokedAt[t] # None
    \/ /\ answer = "clear"
       /\ \/ revokedAt[t] = None
          \/ start <= revokedAt[t] + Grace
          \/ Exp[t] <= clock

\* A check that began at start is answered.
Answer(r, t, start, answer) ==
    /\ verdict[r] = NoVerdict
    /\ start <= clock
    /\ Justified(t, start, answer)
    /\ verdict' = [verdict EXCEPT ![r] = [t |-> t, start |-> start,
                                          answer |-> answer]]
    /\ UNCHANGED <<clock, revokedAt>>

\* Requests are done with their answers, or die with their worker.
Leave(S) ==
    /\ verdict' = [r \in Requests |-> IF r \in S THEN NoVerdict ELSE verdict[r]]
    /\ UNCHANGED <<clock, revokedAt>>

Next ==
    \/ \E S \in SUBSET Requests : Leave(S)
    \/ Tick
    \/ \E t \in Tokens : Commit(t)
    \/ \E r \in Requests, t \in Tokens, answer \in {"clear", "revoked"} :
          \E start \in 0 .. clock : Answer(r, t, start, answer)

Spec == Init /\ [][Next]_vars
=============================================================================
