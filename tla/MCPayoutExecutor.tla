--------------------------- MODULE MCPayoutExecutor ---------------------------
(***************************************************************************)
(* One queue of three payments with a menu that leaves a tail, so batches  *)
(* of one, two and three payments occur.                                   *)
(***************************************************************************)
EXTENDS PayoutExecutor

MCRecipients == 1..3

\* Two payments, for the liveness properties.
MCShortTerms == {[recipients |-> <<1, 2>>,
                  due |-> [i \in 0..2 |-> CASE i = 0 -> 0 [] i = 1 -> 1 [] OTHER -> 3]]}

MCTerms == {[recipients |-> <<1, 2, 3>>,
             due |-> [i \in 0..3 |-> CASE i = 0 -> 0 [] i = 1 -> 1 [] i = 2 -> 3 [] OTHER -> 4]]}
===============================================================================
