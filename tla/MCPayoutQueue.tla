---------------------------- MODULE MCPayoutQueue ----------------------------
(***************************************************************************)
(* Two scenarios that share no state; one run checks both.                 *)
(*                                                                         *)
(* Payout queues of three, eleven and sixteen payments (the program's own  *)
(* MAX_PAYMENTS, menu and largest batch), and five submissions that must   *)
(* be refused: a duplicate recipient, a zero amount, the default key, one  *)
(* payment too many, and a total beyond the owner's funds.                 *)
(*                                                                         *)
(* Three overlapping runs of the row collection on a queue of their own.   *)
(***************************************************************************)
EXTENDS PayoutQueue, PayoutCollection, TLC

VARIABLE scenario   \* which of them this behaviour is of

allVars == <<scenario, vars, collectionVars>>

RunsAlike == Permutations(Runs)

MCRecipients == 1..17

Pay(recipients, amounts) ==
    [recipients |-> recipients,
     due |-> [i \in 0..Len(recipients) |->
                CASE i = 0 -> 0
                  [] i = 1 -> amounts[1]
                  [] i = 2 -> amounts[1] + amounts[2]
                  [] OTHER -> amounts[1] + amounts[2] + (i - 2) * amounts[3]]]

MCTerms ==
    {Pay(<<1, 2, 3>>, <<2, 1, 3>>),
     Pay([i \in 1..16 |-> i], <<1, 1, 1>>),
     Pay([i \in 1..11 |-> 12 - i], <<1, 2, 1>>),
     Pay(<<1, 2, 1>>, <<2, 1, 3>>),
     Pay(<<1, 2, 3>>, <<2, 0, 3>>),
     Pay(<<1, NoRecipient>>, <<1, 1, 1>>),
     Pay([i \in 1..17 |-> i], <<1, 1, 1>>),
     Pay(<<1, 2, 3>>, <<6, 6, 6>>)}

MCInit == /\ scenario \in {"program", "collection"}
          /\ Init /\ CollectionInit
          /\ scenario = "program" => ~chain.warmed

MCNext == /\ UNCHANGED scenario
          /\ \/ scenario = "program" /\ Next /\ UNCHANGED collectionVars
             \/ scenario = "collection" /\ CollectionNext /\ UNCHANGED vars

MCSpec == MCInit /\ [][MCNext]_allVars
==============================================================================
