----------------------------- MODULE PayoutLedger -----------------------------
(***************************************************************************)
(* What an approved payout queue promises its owner and its recipients:    *)
(* obligations are met in the approved order, each exactly once; the queue *)
(* is complete when and only when all are met; a refund ends it early and  *)
(* nothing is paid afterwards.                                             *)
(***************************************************************************)
EXTENDS Naturals

CONSTANT MaxPayments    \* the most obligations a queue can hold

VARIABLES length,       \* obligations approved, 0 before approval
          met,          \* the obligations met so far
          phase         \* "absent", "open", "complete" or "refunded"

vars == <<length, met, phase>>

Init == length = 0 /\ met = {} /\ phase = "absent"

Approve(n) == /\ phase = "absent"
              /\ length' = n /\ phase' = "open"
              /\ UNCHANGED met

\* The next unmet obligations, up to k, are met together.
Meet(k) ==
    /\ phase = "open"
    /\ \E first \in 1..length :
         /\ met = 1..(first - 1)
         /\ first <= k
         /\ met' = 1..k
    /\ phase' = IF k = length THEN "complete" ELSE "open"
    /\ UNCHANGED length

Refund == /\ phase = "open"
          /\ phase' = "refunded"
          /\ UNCHANGED <<length, met>>

Next == \/ \E n \in 1..MaxPayments : Approve(n)
        \/ \E k \in 1..length : Meet(k)
        \/ Refund

Spec == Init /\ [][Next]_vars
===============================================================================
