------------------------- MODULE PayoutExecutorProofs -------------------------
(***************************************************************************)
(* Proofs about a payout from end to end: the queue program on the chain,  *)
(* and the worker and the network around it.                               *)
(***************************************************************************)
EXTENDS PayoutExecutor, FiniteSetTheorems, TLAPS

-----------------------------------------------------------------------------
(* PayoutQueue, for any terms, batch menu, funds and clock.  The inductive *)
(* invariant adds to the checked ones what they rest on: an unused address *)
(* is untouched (Fresh), the stored terms passed validate_terms            *)
(* (Approved), and deposits only shrink the depositor.                     *)

Fresh == status = "absent" => /\ terms = NoTerms /\ cursor = 0 /\ totalPaid = 0
                              /\ received = [x \in Recipients |-> 0]

Approved == status # "absent" => terms \in Terms /\ ValidTerms(terms)

Deposited == deposits <= DepositTokens

IInv == /\ TypeOK /\ Fresh /\ Approved /\ Deposited
        /\ AlwaysLoadable /\ PaidExactly /\ Solvent /\ CompleteIsEarned /\ OwnerMadeWhole

\* Approved terms: their running totals are natural and do not decrease.
LEMMA TermsFact ==
    ASSUME NEW t \in Terms, ValidTerms(t)
    PROVE  /\ Len(t.recipients) \in Nat /\ Len(t.recipients) > 0
           /\ Len(t.recipients) <= MaxPayments
           /\ t.due[0] = 0
           /\ \A i \in 0..Len(t.recipients) : t.due[i] \in Nat
           /\ \A i \in 1..Len(t.recipients) : /\ t.recipients[i] \in Recipients
                                              /\ Amount(t, i) \in Nat \ {0}
           /\ \A i, j \in 1..Len(t.recipients) :
                t.recipients[i] = t.recipients[j] => i = j
           /\ \A i, j \in 0..Len(t.recipients) : i <= j => t.due[i] <= t.due[j]
           /\ Total(t) \in Nat /\ Total(t) = t.due[Len(t.recipients)]
  <1>1. /\ t.recipients \in Seq(Recipients \cup {NoRecipient})
        /\ t.due \in [0..Len(t.recipients) -> Nat]
        /\ t.due[0] = 0
        /\ \A i, j \in 0..Len(t.recipients) : i <= j => t.due[i] <= t.due[j]
    BY QueueAssumption
  <1> DEFINE n == Len(t.recipients)
  <1>2. n \in Nat /\ n \in 1..MaxPayments /\ n > 0 /\ n <= MaxPayments
    BY <1>1, QueueAssumption DEF ValidTerms
  <1>3. \A i \in 1..n : t.recipients[i] \in Recipients
    BY <1>1, <1>2 DEF ValidTerms
  <1>4. \A i \in 1..n : Amount(t, i) \in Nat \ {0}
    <2> SUFFICES ASSUME NEW i \in 1..n PROVE Amount(t, i) \in Nat \ {0}
      OBVIOUS
    <2>1. t.due[i] \in Nat /\ t.due[i - 1] \in Nat
      BY <1>1, <1>2
    <2>2. Amount(t, i) > 0
      BY DEF ValidTerms
    <2>3. QED
      BY <2>1, <2>2 DEF Amount
  <1>5. \A i, j \in 1..n : t.recipients[i] = t.recipients[j] => i = j
    <2> SUFFICES ASSUME NEW i \in 1..n, NEW j \in 1..n, i # j
                 PROVE  t.recipients[i] # t.recipients[j]
      OBVIOUS
    <2>1. i < j \/ j < i
      OBVIOUS
    <2>2. QED
      BY <2>1 DEF ValidTerms
  <1>6. Total(t) \in Nat /\ Total(t) = t.due[n]
    BY <1>1, <1>2 DEF Total
  <1>7. QED
    BY <1>1, <1>2, <1>3, <1>4, <1>5, <1>6

LEMMA InitIInv == Init => IInv
  <1> SUFFICES ASSUME Init PROVE IInv
    OBVIOUS
  <1>1. TypeOK
    BY QueueAssumption DEF Init, TypeOK
  <1>2. Deposited /\ Fresh /\ Approved /\ AlwaysLoadable /\ Solvent /\ CompleteIsEarned
    BY QueueAssumption DEF Init, Deposited, Fresh, Approved, AlwaysLoadable, Solvent, CompleteIsEarned
  <1>3. PaidExactly
    BY DEF Init, PaidExactly, NoTerms
  <1>4. OwnerMadeWhole
    BY QueueAssumption DEF Init, OwnerMadeWhole
  <1>5. QED
    BY <1>1, <1>2, <1>3, <1>4 DEF IInv

LEMMA CreateStep ==
    ASSUME IInv, NEW t \in Terms, NEW e \in Expiries, CreateQueue(t, e)
    PROVE  IInv'
  <1>0. /\ status = "absent" /\ ValidTerms(t) /\ Total(t) <= owned
        /\ owned' = owned - Total(t) /\ vault' = vault + Total(t)
        /\ status' = "open" /\ terms' = t /\ expiry' = e
        /\ cursor' = 0 /\ paidCount' = 0 /\ paused' = FALSE
        /\ totalPaid' = 0 /\ lastDecision' = NoDecision
        /\ UNCHANGED <<received, opened, deposits, now>>
    BY DEF CreateQueue, Affordable
  <1>1. /\ Len(t.recipients) \in Nat /\ Len(t.recipients) > 0
        /\ Len(t.recipients) \in 1..MaxPayments
        /\ t.due[0] = 0 /\ Total(t) \in Nat
    BY <1>0, TermsFact, QueueAssumption
  <1>2. owned \in Nat /\ vault \in Nat /\ totalPaid = 0 /\ deposits \in Nat
    BY <1>0 DEF IInv, TypeOK, Fresh
  <1>3. TypeOK'
    <2>1. owned' \in Nat /\ vault' \in Nat /\ expiry' \in Nat
      BY <1>0, <1>1, <1>2, QueueAssumption
    <2>2. QED
      BY <1>0, <2>1 DEF IInv, TypeOK
  <1>4. Fresh' /\ Approved' /\ AlwaysLoadable' /\ CompleteIsEarned' /\ Deposited'
    BY <1>0, <1>1 DEF IInv, Deposited, Fresh, Approved, AlwaysLoadable, Loadable, Length, CompleteIsEarned
  <1>5. PaidExactly'
    BY <1>0, <1>1 DEF PaidExactly, IInv, Fresh
  <1>6. Solvent'
    BY <1>0, <1>1, <1>2 DEF Solvent
  <1>7. OwnerMadeWhole'
    <2>1. owned + vault + totalPaid + deposits = OwnerTokens + DepositTokens
      BY DEF IInv, OwnerMadeWhole
    <2>2. owned' + vault' + totalPaid' + deposits' = OwnerTokens + DepositTokens
      BY <1>0, <1>1, <1>2, <2>1
    <2>3. QED
      BY <1>0, <2>2 DEF OwnerMadeWhole
  <1>8. QED
    BY <1>3, <1>4, <1>5, <1>6, <1>7 DEF IInv

\* execute_batch: what the batch pays is the difference of two running totals.
LEMMA ExecuteStep ==
    ASSUME IInv, NEW expected, NEW count \in 1..MaxPayments, NEW d \in Decisions,
           ExecuteBatch(expected, count, d)
    PROVE  IInv'
  <1> DEFINE sum == terms.due[cursor + count] - terms.due[cursor]
             batch == (cursor + 1)..(cursor + count)
             n == Len(terms.recipients)
  <1>0. /\ Executable(expected, count)
        /\ opened' = opened \cup {terms.recipients[i] : i \in batch}
        /\ received' = [x \in Recipients |->
                          IF \E i \in batch : terms.recipients[i] = x
                          THEN received[x]
                               + Amount(terms, CHOOSE i \in batch : terms.recipients[i] = x)
                          ELSE received[x]]
        /\ vault' = vault - sum /\ totalPaid' = totalPaid + sum
        /\ cursor' = cursor + count /\ paidCount' = cursor + count
        /\ lastDecision' = d
        /\ status' = IF cursor + count = Length THEN "complete" ELSE status
        /\ UNCHANGED <<terms, expiry, paused, owned, deposits, now>>
    BY DEF ExecuteBatch, StatusAfter
  <1>1. /\ status = "open" /\ cursor <= n /\ n \in Nat /\ cursor \in Nat /\ count \in Nat
        /\ sum <= vault /\ totalPaid + sum <= Total(terms) /\ count <= n - cursor /\ count > 0
    <2>1. cursor \in Nat /\ count \in Nat /\ n \in Nat
      <3>1. terms \in Terms /\ ValidTerms(terms)
        BY <1>0 DEF Executable, IInv, Approved
      <3>2. n \in Nat
        BY <3>1, TermsFact
      <3>3. cursor \in Nat /\ count \in Nat
        BY QueueAssumption DEF IInv, TypeOK
      <3>4. QED
        BY <3>2, <3>3
    <2>2. QED
      BY <1>0, <2>1 DEF Executable, Loadable, AllowedCount, Length
  <1>2. terms \in Terms /\ ValidTerms(terms)
    BY <1>1 DEF IInv, Approved
  <1>3. /\ n \in 1..MaxPayments
        /\ \A i \in 0..n : terms.due[i] \in Nat
        /\ \A i \in 1..n : terms.recipients[i] \in Recipients /\ Amount(terms, i) \in Nat \ {0}
        /\ \A i, j \in 1..n : terms.recipients[i] = terms.recipients[j] => i = j
        /\ \A i, j \in 0..n : i <= j => terms.due[i] <= terms.due[j]
        /\ Total(terms) \in Nat /\ Total(terms) = terms.due[n]
    BY <1>1, <1>2, TermsFact, QueueAssumption
  <1>4. /\ cursor \in 0..n /\ cursor + count \in 0..n /\ batch \subseteq 1..n
        /\ terms.due[cursor] \in Nat /\ terms.due[cursor + count] \in Nat /\ sum \in Nat
    <2>1. cursor \in 0..n /\ cursor + count \in 0..n /\ batch \subseteq 1..n
      BY <1>1
    <2>2. terms.due[cursor] <= terms.due[cursor + count]
      <3>1. \A i, j \in 0..n : i <= j => terms.due[i] <= terms.due[j]
        BY <1>3
      <3>2. cursor <= cursor + count
        BY <1>1
      <3> HIDE DEF n
      <3>3. QED
        BY <2>1, <3>1, <3>2
    <2>3. QED
      BY <1>3, <2>1, <2>2
  <1>5. vault \in Nat /\ totalPaid \in Nat /\ totalPaid = terms.due[cursor] /\ cursor \in Nat
    BY DEF IInv, TypeOK, PaidExactly
  <1>6. \A i \in batch : received'[terms.recipients[i]] = Amount(terms, i)
    <2> SUFFICES ASSUME NEW i \in batch
                 PROVE  received'[terms.recipients[i]] = Amount(terms, i)
      OBVIOUS
    <2>1. i \in 1..n /\ terms.recipients[i] \in Recipients
      BY <1>3, <1>4
    <2>2. (CHOOSE j \in batch : terms.recipients[j] = terms.recipients[i]) = i
      BY <1>3, <1>4, <2>1
    <2>3. received[terms.recipients[i]] = 0
      <3>1. SUFFICES ASSUME received[terms.recipients[i]] # 0 PROVE FALSE
        OBVIOUS
      <3>2. PICK j \in 1..cursor : terms.recipients[j] = terms.recipients[i]
        BY <2>1, <3>1 DEF IInv, PaidExactly
      <3>3. j \in 1..n /\ j <= cursor
        BY <1>1, <3>2
      <3>4. i = j
        BY <1>3, <2>1, <3>2, <3>3
      <3>5. QED
        BY <1>1, <3>3, <3>4
    <2>4. Amount(terms, i) \in Nat
      BY <1>3, <2>1
    <2>5. received'[terms.recipients[i]]
            = received[terms.recipients[i]]
              + Amount(terms, CHOOSE j \in batch : terms.recipients[j] = terms.recipients[i])
      <3> DEFINE x == terms.recipients[i]
      <3>1. \E j \in batch : terms.recipients[j] = x
        OBVIOUS
      <3>2. received'[x] = IF \E j \in batch : terms.recipients[j] = x
                           THEN received[x]
                                + Amount(terms, CHOOSE j \in batch : terms.recipients[j] = x)
                           ELSE received[x]
        <4>1. x \in Recipients
          BY <2>1
        <4> HIDE DEF x, batch
        <4>2. QED
          BY <1>0, <4>1
      <3>3. received'[x] = received[x]
                           + Amount(terms, CHOOSE j \in batch : terms.recipients[j] = x)
        <4> HIDE DEF x, batch
        <4>1. QED
          BY <3>1, <3>2, Zenon
      <3>4. QED
        BY <3>3
    <2>6. received'[terms.recipients[i]] = received[terms.recipients[i]] + Amount(terms, i)
      BY <2>2, <2>5, Zenon
    <2>7. QED
      BY <2>3, <2>4, <2>6
  <1>7. \A i \in 1..cursor : received'[terms.recipients[i]] = received[terms.recipients[i]]
    <2> SUFFICES ASSUME NEW i \in 1..cursor
                 PROVE  received'[terms.recipients[i]] = received[terms.recipients[i]]
      OBVIOUS
    <2>1. i \in 1..n /\ i \notin batch
      BY <1>1
    <2>2. ~ \E j \in batch : terms.recipients[j] = terms.recipients[i]
      BY <1>3, <1>4, <2>1
    <2>3. QED
      BY <1>0, <1>3, <2>1, <2>2
  <1>8. received' \in [Recipients -> Nat]
    <2> SUFFICES ASSUME NEW x \in Recipients PROVE received'[x] \in Nat
      BY <1>0
    <2>1. received[x] \in Nat
      BY DEF IInv, TypeOK
    <2>2. CASE \E i \in batch : terms.recipients[i] = x
      BY <1>3, <1>4, <1>6, <2>2
    <2>3. CASE ~ \E i \in batch : terms.recipients[i] = x
      BY <1>0, <2>1, <2>3
    <2>4. QED
      BY <2>2, <2>3
  <1>9. TypeOK'
    <2>1. opened' \subseteq Recipients
      <3>1. \A i \in batch : terms.recipients[i] \in Recipients
        BY <1>3, <1>4
      <3>2. {terms.recipients[i] : i \in batch} \subseteq Recipients
        BY <3>1
      <3>3. QED
        BY <1>0, <3>2 DEF IInv, TypeOK
    <2>2. vault' \in Nat /\ totalPaid' \in Nat /\ cursor' \in Nat /\ paidCount' \in Nat
      <3>1. /\ vault' = vault - sum /\ totalPaid' = totalPaid + sum
            /\ cursor' = cursor + count /\ paidCount' = cursor + count
        BY <1>0
      <3>2. sum \in Nat /\ sum <= vault /\ cursor + count \in Nat
        BY <1>0, <1>1, <1>4
      <3> HIDE DEF n, batch, sum
      <3>3. QED
        BY <1>5, <3>1, <3>2
    <2>3. status' \in {"open", "complete"}
      BY <1>0, <1>1
    <2>4. QED
      BY <1>0, <1>8, <2>1, <2>2, <2>3 DEF IInv, TypeOK
  <1>10. PaidExactly'
    <2>1. ASSUME NEW x \in Recipients, received'[x] # 0
          PROVE  \E i \in 1..cursor' : terms'.recipients[i] = x
      <3>1. CASE \E i \in batch : terms.recipients[i] = x
        BY <1>0, <1>1, <3>1
      <3>2. CASE ~ \E i \in batch : terms.recipients[i] = x
        <4>1. received[x] # 0
          BY <1>0, <2>1, <3>2
        <4>2. PICK i \in 1..cursor : terms.recipients[i] = x
          BY <4>1 DEF IInv, PaidExactly
        <4>3. QED
          BY <1>0, <1>1, <4>2
      <3>3. QED
        BY <3>1, <3>2
    <2>2. ASSUME NEW i \in 1..cursor'
          PROVE  received'[terms'.recipients[i]] = Amount(terms', i)
      <3>1. i \in 1..cursor \/ i \in batch
        BY <1>0, <1>1, <2>2
      <3>2. CASE i \in 1..cursor
        BY <1>0, <1>7, <3>2 DEF IInv, PaidExactly
      <3>3. CASE i \in batch
        BY <1>0, <1>6, <3>3
      <3>4. QED
        BY <3>1, <3>2, <3>3
    <2>3. totalPaid' = terms'.due[cursor']
      <3>1. totalPaid' = totalPaid + sum /\ terms' = terms /\ cursor' = cursor + count
        BY <1>0
      <3>2. terms.due[cursor + count] = terms.due[cursor] + sum
        BY <1>4
      <3> HIDE DEF n, batch, sum
      <3>3. QED
        BY <1>5, <3>1, <3>2
    <2>4. QED
      BY <2>1, <2>2, <2>3 DEF PaidExactly
  <1>11. Fresh' /\ Approved' /\ CompleteIsEarned' /\ AlwaysLoadable' /\ Deposited'
    <2>1. status' # "absent" /\ terms' = terms /\ Length' = n
      BY <1>0, <1>1 DEF Length
    <2>2. totalPaid' <= Total(terms)' /\ cursor' <= n /\ paidCount' = cursor'
      BY <1>0, <1>1, <1>4, <2>1
    <2>3. AlwaysLoadable'
      BY <1>3, <2>1, <2>2 DEF AlwaysLoadable, Loadable
    <2>4. CompleteIsEarned'
      BY <1>0, <1>1, <2>1 DEF CompleteIsEarned, Length
    <2>5. QED
      BY <1>0, <1>2, <2>1, <2>3, <2>4 DEF Fresh, Approved, IInv, Deposited
  <1>12. Solvent'
    <2>1. vault >= Total(terms) - terms.due[cursor]
      BY <1>1 DEF IInv, Solvent
    <2>2. vault' >= Total(terms) - terms.due[cursor + count]
      <3>1. vault' = vault - (terms.due[cursor + count] - terms.due[cursor])
        BY <1>0
      <3>2. Total(terms) \in Nat
        BY <1>3
      <3>3. \A v, t, a, b \in Int : v >= t - b => v - (a - b) >= t - a
        OBVIOUS
      <3> DEFINE a == terms.due[cursor + count]
                 b == terms.due[cursor]
      <3>4. a \in Int /\ b \in Int /\ vault \in Int /\ Total(terms) \in Int
        BY <1>4, <1>5, <3>2
      <3>5. vault >= Total(terms) - b /\ vault' = vault - (a - b)
        BY <2>1, <3>1
      <3> HIDE DEF a, b
      <3>6. vault' >= Total(terms) - a
        BY <3>3, <3>4, <3>5
      <3>7. QED
        BY <3>6 DEF a
    <2>3. QED
      BY <1>0, <2>2 DEF Solvent
  <1>13. OwnerMadeWhole'
    <2>1. owned \in Nat /\ deposits \in Nat /\ status' # "refunded"
      BY <1>0, <1>1 DEF IInv, TypeOK
    <2>2. owned + vault + totalPaid + deposits = OwnerTokens + DepositTokens
      BY DEF IInv, OwnerMadeWhole
    <2>3. owned + (vault - sum) + (totalPaid + sum) + deposits = OwnerTokens + DepositTokens
      BY <1>4, <1>5, <2>1, <2>2
    <2>4. QED
      BY <1>0, <2>1, <2>3 DEF OwnerMadeWhole
  <1>14. QED
    BY <1>9, <1>10, <1>11, <1>12, <1>13 DEF IInv

\* Instructions and outside events that leave terms, progress and payments.
LEMMA RefundStep ==
    ASSUME IInv, Refund
    PROVE  IInv'
  <1>0. /\ status = "open" /\ Loadable
        /\ owned' = owned + vault /\ vault' = 0
        /\ status' = "refunded" /\ paused' = TRUE
        /\ UNCHANGED <<terms, expiry, cursor, paidCount, totalPaid, lastDecision,
                       received, opened, deposits, now>>
    BY DEF Refund
  <1>1. owned \in Nat /\ vault \in Nat /\ totalPaid \in Nat /\ deposits \in Nat
    BY DEF IInv, TypeOK
  <1>2. TypeOK'
    BY <1>0, <1>1 DEF IInv, TypeOK
  <1>3. Fresh' /\ Approved' /\ AlwaysLoadable' /\ PaidExactly' /\ Solvent' /\ CompleteIsEarned'
    BY <1>0 DEF IInv, Fresh, Approved, AlwaysLoadable, Loadable, Length, PaidExactly, Solvent,
                CompleteIsEarned
  <1>4. OwnerMadeWhole'
    <2>1. owned + vault + totalPaid + deposits = OwnerTokens + DepositTokens
      BY DEF IInv, OwnerMadeWhole
    <2>2. deposits <= DepositTokens
      BY DEF IInv, OwnerMadeWhole, Deposited
    <2>3. owned' + vault' + totalPaid' + deposits' = OwnerTokens + DepositTokens
      BY <1>0, <1>1, <2>1
    <2>4. owned' >= OwnerTokens - totalPaid'
      BY <1>0, <1>1, <2>1, <2>2, QueueAssumption
    <2>5. QED
      BY <2>3, <2>4 DEF OwnerMadeWhole
  <1>5. Deposited'
    BY <1>0 DEF IInv, Deposited
  <1>6. QED
    BY <1>2, <1>3, <1>4, <1>5 DEF IInv

LEMMA PauseStep ==
    ASSUME IInv, NEW value \in BOOLEAN, SetPaused(value)
    PROVE  IInv'
  <1>0. /\ paused' = value
        /\ UNCHANGED <<status, terms, expiry, cursor, paidCount, totalPaid, lastDecision,
                       vault, owned, received, opened, deposits, now>>
    BY DEF SetPaused, tokens
  <1>1. TypeOK'
    BY <1>0 DEF IInv, TypeOK
  <1>2. QED
    BY <1>0, <1>1 DEF IInv, Fresh, Approved, AlwaysLoadable, Loadable, Length, PaidExactly, Solvent,
                CompleteIsEarned, OwnerMadeWhole, Deposited

LEMMA EnvironmentStep ==
    ASSUME IInv, Environment
    PROVE  IInv'
  <1>1. ASSUME NEW amount \in 1..DepositTokens, Deposit(amount)
        PROVE  IInv'
    <2>0. /\ amount <= deposits /\ deposits' = deposits - amount /\ vault' = vault + amount
          /\ UNCHANGED <<status, terms, expiry, cursor, paidCount, paused, totalPaid,
                         lastDecision, owned, received, opened, now>>
      BY <1>1 DEF Deposit, queue
    <2>1. /\ owned \in Nat /\ vault \in Nat /\ totalPaid \in Nat /\ deposits \in Nat
          /\ amount \in Nat /\ DepositTokens \in Nat
      BY QueueAssumption DEF IInv, TypeOK
    <2>2. TypeOK'
      BY <2>0, <2>1 DEF IInv, TypeOK
    <2>3. Fresh' /\ Approved' /\ AlwaysLoadable' /\ PaidExactly' /\ CompleteIsEarned'
      BY <2>0 DEF IInv, Fresh, Approved, AlwaysLoadable, Loadable, Length, PaidExactly,
                  CompleteIsEarned
    <2>4. Solvent'
      <3>1. CASE status = "open"
        <4>1. Total(terms) \in Int /\ terms.due[cursor] \in Int
          BY <3>1, TermsFact DEF IInv, Approved, PaidExactly, TypeOK
        <4>2. vault >= Total(terms) - terms.due[cursor]
          BY <3>1 DEF IInv, Solvent
        <4>3. vault' >= Total(terms) - terms.due[cursor]
          BY <2>0, <2>1, <4>1, <4>2
        <4>4. QED
          BY <2>0, <4>3 DEF Solvent
      <3>2. QED
        BY <2>0, <3>1 DEF Solvent
    <2>5. OwnerMadeWhole'
      <3>1. owned + vault + totalPaid + deposits = OwnerTokens + DepositTokens
        BY DEF IInv, OwnerMadeWhole
      <3>2. owned + (vault + amount) + totalPaid + (deposits - amount) = OwnerTokens + DepositTokens
        BY <2>1, <3>1
      <3>3. QED
        BY <2>0, <3>2 DEF IInv, OwnerMadeWhole
    <2>6. Deposited'
      BY <2>0, <2>1 DEF IInv, Deposited
    <2>7. QED
      BY <2>2, <2>3, <2>4, <2>5, <2>6 DEF IInv
  <1>2. ASSUME NEW x \in Openers, OpenAccount(x)
        PROVE  IInv'
    <2>0. /\ opened' = opened \cup {x}
          /\ UNCHANGED <<status, terms, expiry, cursor, paidCount, paused, totalPaid,
                         lastDecision, vault, owned, received, deposits, now>>
      BY <1>2 DEF OpenAccount, queue
    <2>1. TypeOK'
      BY <2>0, QueueAssumption DEF IInv, TypeOK
    <2>2. QED
      BY <2>0, <2>1 DEF IInv, Fresh, Approved, AlwaysLoadable, Loadable, Length, PaidExactly,
                        Solvent, CompleteIsEarned, OwnerMadeWhole, Deposited
  <1>3. ASSUME Tick
        PROVE  IInv'
    <2>0. /\ now' = now + 1
          /\ UNCHANGED <<status, terms, expiry, cursor, paidCount, paused, totalPaid,
                         lastDecision, vault, owned, received, opened, deposits>>
      BY <1>3 DEF Tick, queue, tokens
    <2>1. TypeOK'
      BY <2>0 DEF IInv, TypeOK
    <2>2. QED
      BY <2>0, <2>1 DEF IInv, Fresh, Approved, AlwaysLoadable, Loadable, Length, PaidExactly,
                        Solvent, CompleteIsEarned, OwnerMadeWhole, Deposited
  <1>4. QED
    BY <1>1, <1>2, <1>3 DEF Environment

\* Every step of the program and its surroundings keeps the invariant.
LEMMA NextIInv == IInv /\ [Next]_vars => IInv'
  <1> SUFFICES ASSUME IInv, [Next]_vars PROVE IInv'
    OBVIOUS
  <1>1. CASE Owner
    BY <1>1, CreateStep, PauseStep, RefundStep DEF Owner
  <1>2. CASE Executor
    BY <1>2, ExecuteStep DEF Executor
  <1>3. CASE Environment
    BY <1>3, EnvironmentStep
  <1>4. CASE UNCHANGED vars
    <2>0. UNCHANGED <<status, terms, expiry, cursor, paidCount, paused, totalPaid, lastDecision,
                      vault, owned, received, opened, deposits, now>>
      BY <1>4 DEF vars, queue, tokens
    <2>1. TypeOK'
      BY <2>0 DEF IInv, TypeOK
    <2>2. QED
      BY <2>0, <2>1 DEF IInv, Fresh, Approved, AlwaysLoadable, Loadable, Length, PaidExactly,
                        Solvent, CompleteIsEarned, OwnerMadeWhole, Deposited
  <1>5. QED
    BY <1>1, <1>2, <1>3, <1>4 DEF Next

\* The inductive invariant holds in every reachable state.
THEOREM Invariance == Spec => []IInv
  <1>1. QED
    BY InitIInv, NextIInv, PTL DEF Spec

\* Every field keeps its type under every instruction and outside event.
THEOREM TypeCorrect == Spec => []TypeOK
  <1>1. IInv => TypeOK
    BY DEF IInv
  <1>2. QED
    BY <1>1, Invariance, PTL

\* load_queue never rejects what the program itself wrote.
THEOREM LoadableCorrect == Spec => []AlwaysLoadable
  <1>1. IInv => AlwaysLoadable
    BY DEF IInv
  <1>2. QED
    BY <1>1, Invariance, PTL

\* Every obligation before the cursor was paid exactly once, nobody else anything.
THEOREM PaidExactlyCorrect == Spec => []PaidExactly
  <1>1. IInv => PaidExactly
    BY DEF IInv
  <1>2. QED
    BY <1>1, Invariance, PTL

\* The vault of an open queue covers what is still owed.
THEOREM SolventCorrect == Spec => []Solvent
  <1>1. IInv => Solvent
    BY DEF IInv
  <1>2. QED
    BY <1>1, Invariance, PTL

\* A queue is complete exactly when its last obligation is paid.
THEOREM CompleteCorrect == Spec => []CompleteIsEarned
  <1>1. IInv => CompleteIsEarned
    BY DEF IInv
  <1>2. QED
    BY <1>1, Invariance, PTL

\* Tokens are conserved and a refund leaves the owner short only of what the
\* approved recipients received.
THEOREM OwnerMadeWholeCorrect == Spec => []OwnerMadeWhole
  <1>1. IInv => OwnerMadeWhole
    BY DEF IInv
  <1>2. QED
    BY <1>1, Invariance, PTL

\* A terminal queue is a tombstone and terms never change.
THEOREM TombstoneCorrect == Spec => TombstoneIsFinal
  <1>1. ASSUME IInv, [Next]_vars PROVE [TombstoneKept]_vars
    <2>1. CASE UNCHANGED vars
      BY <2>1
    <2>2. CASE Owner
      BY <2>2 DEF Owner, CreateQueue, SetPaused, Refund, TombstoneKept
    <2>3. CASE Executor
      BY <2>3 DEF Executor, ExecuteBatch, Executable, TombstoneKept
    <2>4. CASE Environment
      BY <2>4 DEF Environment, Deposit, OpenAccount, Tick, TombstoneKept, queue, tokens
    <2>5. QED
      BY <1>1, <2>1, <2>2, <2>3, <2>4 DEF Next
  <1>2. QED
    BY <1>1, Invariance, PTL DEF Spec, TombstoneIsFinal

-----------------------------------------------------------------------------
\* The obligations the balances show as met are those before the cursor.
Met == {i \in 1..Length : received[terms.recipients[i]] = Amount(terms, i)}

LEMMA MetFact == IInv => Met = 1..cursor
  <1> SUFFICES ASSUME IInv PROVE Met = 1..cursor
    OBVIOUS
  <1>1. CASE status = "absent"
    <2>1. Length = 0 /\ cursor = 0
      BY <1>1 DEF IInv, Fresh, Length, NoTerms
    <2>2. QED
      BY <2>1 DEF Met
  <1>2. CASE status # "absent"
    <2>1. /\ Length \in Nat /\ cursor \in Nat /\ cursor <= Length
          /\ \A i \in 1..Length : terms.recipients[i] \in Recipients /\ Amount(terms, i) \in Nat \ {0}
          /\ \A i, j \in 1..Length : terms.recipients[i] = terms.recipients[j] => i = j
      BY <1>2, TermsFact DEF IInv, Approved, AlwaysLoadable, Loadable, TypeOK, Length
    <2>2. \A i \in 1..cursor : received[terms.recipients[i]] = Amount(terms, i)
      BY DEF IInv, PaidExactly
    <2>3. ASSUME NEW i \in 1..Length, received[terms.recipients[i]] = Amount(terms, i)
          PROVE  i \in 1..cursor
      <3>1. received[terms.recipients[i]] # 0 /\ terms.recipients[i] \in Recipients
        BY <2>1, <2>3
      <3>2. PICK j \in 1..cursor : terms.recipients[j] = terms.recipients[i]
        BY <3>1 DEF IInv, PaidExactly
      <3>3. j \in 1..Length
        BY <2>1
      <3>4. QED
        BY <2>1, <3>2, <3>3
    <2>4. 1..cursor \subseteq 1..Length
      BY <2>1
    <2>5. QED
      BY <2>2, <2>3, <2>4 DEF Met
  <1>3. QED
    BY <1>1, <1>2

\* The program implements the ledger: obligations are met in the approved
\* order, each once, completion is earned, and nothing follows a refund.
THEOREM ImplementsLedger == Spec => LedgerSpec
  <1>1. Init => Ledger!Init
    BY DEF Init, Ledger!Init, Length, NoTerms
  <1>2. ASSUME IInv, IInv', [Next]_vars PROVE [Ledger!Next]_Ledger!vars
    <2>1. Met = 1..cursor /\ Met' = 1..cursor'
      <3>1. (Met = 1..cursor)'
        BY <1>2, MetFact, PTL
      <3>2. QED
        BY <1>2, <3>1, MetFact
    <2>2. ASSUME NEW t \in Terms, NEW e \in Expiries, CreateQueue(t, e)
          PROVE  \E m \in 1..MaxPayments : Ledger!Approve(m)
      <3>1. Length' \in 1..MaxPayments /\ status = "absent" /\ status' = "open"
        BY <2>2 DEF CreateQueue, ValidTerms, Length
      <3>2. cursor = 0 /\ cursor' = 0
        BY <1>2, <2>2 DEF CreateQueue, IInv, Fresh
      <3>3. Met' = Met
        BY <2>1, <3>2
      <3>4. QED
        BY <3>1, <3>3 DEF Ledger!Approve, Met
    <2>3. ASSUME NEW expected, NEW count \in 1..MaxPayments, NEW d \in Decisions,
                 ExecuteBatch(expected, count, d)
          PROVE  \E k \in 1..Length : Ledger!Meet(k)
      <3>1. /\ status = "open" /\ cursor' = cursor + count /\ terms' = terms
            /\ status' = IF cursor + count = Length THEN "complete" ELSE "open"
            /\ cursor <= Length /\ count <= Length - cursor
        BY <2>3 DEF ExecuteBatch, StatusAfter, Executable, Loadable, AllowedCount
      <3>2. Length \in Nat /\ cursor \in Nat /\ count \in Nat /\ count > 0 /\ Length' = Length
        <4>1. terms \in Terms /\ ValidTerms(terms) /\ cursor \in Nat
          BY <1>2, <3>1 DEF IInv, Approved, TypeOK
        <4>2. count \in Nat /\ count > 0
          BY QueueAssumption
        <4>3. QED
          BY <3>1, <4>1, <4>2, TermsFact DEF Length
      <3>3. cursor + 1 \in 1..Length /\ cursor + count \in 1..Length
        BY <3>1, <3>2
      <3>4. Met = 1..((cursor + 1) - 1) /\ cursor + 1 <= cursor + count /\ Met' = 1..(cursor + count)
        BY <2>1, <3>1, <3>2
      <3>5. /\ status = "open" /\ Met = 1..((cursor + 1) - 1) /\ cursor + 1 <= cursor + count
            /\ Met' = 1..(cursor + count)
            /\ status' = (IF cursor + count = Length THEN "complete" ELSE "open")
            /\ Length' = Length
        BY <3>1, <3>2, <3>4
      <3>6. QED
        BY <3>3, <3>5 DEF Ledger!Meet, Met
    <2>4. ASSUME Refund PROVE Ledger!Refund
      BY <2>4 DEF Refund, Ledger!Refund, Length
    <2>5. ASSUME UNCHANGED <<status, terms, received>> PROVE UNCHANGED Ledger!vars
      BY <2>5 DEF Ledger!vars, Length
    <2>6. CASE Owner
      <3>1. ASSUME NEW value \in BOOLEAN, SetPaused(value)
            PROVE  UNCHANGED <<status, terms, received>>
        BY <3>1 DEF SetPaused, tokens
      <3>2. QED
        BY <2>2, <2>4, <2>5, <2>6, <3>1 DEF Owner, Ledger!Next
    <2>7. CASE Executor
      BY <2>3, <2>7 DEF Executor, Ledger!Next
    <2>8. CASE Environment
      BY <2>5, <2>8 DEF Environment, Deposit, OpenAccount, Tick, queue, tokens
    <2>9. CASE UNCHANGED vars
      BY <2>5, <2>9 DEF vars, queue, tokens
    <2>10. QED
      BY <1>2, <2>6, <2>7, <2>8, <2>9 DEF Next
  <1>3. QED
    BY <1>1, <1>2, Invariance, PTL DEF Spec, LedgerSpec, Ledger!Spec

-----------------------------------------------------------------------------
(* PayoutExecutor, for any terms, menu, limits, faults and interleaving.   *)
(* Everything rests on one fact: only the last row of the journal can be   *)
(* pending, and nothing but the last row can be in flight.  So the chain   *)
(* does not move under a step that plans or signs, and what a settled row  *)
(* says can no longer change.                                              *)

Working == {"send", "sent", "record", "lookup", "judge", "resend", "fail"}
Planning == {"plan", "sign"}
Paid == {i \in Rows : landed[i] = "ok"}
Spent == {i \in Rows : landed[i] = "budget"}

WorkerTypeOK ==
    /\ journal \in Seq(Row) /\ landed \in Seq(Outcome) /\ Len(landed) = Len(journal)
    /\ forced \in BOOLEAN /\ resent \in BOOLEAN /\ seen \in Outcome
    /\ inflight \subseteq Rows
    /\ pc \in {"idle"} \cup Planning \cup Working
    /\ row \in 0..Len(journal)
    /\ faults \in 0..MaxFaults
    /\ plan.cursor \in Nat /\ plan.count \in Nat /\ plan.mode \in Modes

\* Only the last row may be pending, and a settled row says what landed.
LastOnly == \A i \in Rows : i < Len(journal) => Settled(i)
Truthful == \A i \in Rows : Settled(i) => /\ journal[i].phase = "confirmed" <=> landed[i] = "ok"
                                          /\ landed[i] # "none"
FlyingIsOpen == \A i \in inflight : landed[i] = "none"

\* Where the worker stands and what it holds.
Position ==
    /\ pc \in Working => row = Len(journal) /\ row \in Rows /\ ~Settled(row)
    /\ pc \in {"record", "judge", "fail"} => seen \in {"none", landed[row]}
    /\ pc \in {"record", "fail"} => seen # "none"
    /\ pc = "fail" => seen # "ok"
    /\ pc \in Planning => Pending = {} /\ status # "absent" /\ AttemptsLeft
    /\ pc = "sign" => plan.cursor = cursor /\ plan.count \in 1..(Length - cursor)

\* The batches that landed partition the payments made.
Partition ==
    /\ \A i \in Paid : /\ journal[i].count > 0
                       /\ journal[i].cursor + journal[i].count <= cursor
    /\ \A k \in 1..cursor : \E i \in Paid : Covers(i, k)
    /\ \A i, j \in Paid, k \in 1..cursor : Covers(i, k) /\ Covers(j, k) => i = j
    /\ Cardinality(Paid) <= cursor

WithinLimits ==
    /\ Cardinality(Failed) <= MaxAttempts
    /\ Pending # {} => AttemptsLeft
    /\ \A i \in Rows : journal[i].resends <= MaxAttempts
    /\ Len(journal) <= MaxPayments + MaxAttempts

Simulating ==
    /\ SimulatesAfterExhaustion
    /\ pc = "plan" /\ Spent # {} => forced
    /\ pc = "sign" /\ Spent # {} => plan.mode = "simulation"

SInv == /\ IInv /\ WorkerTypeOK /\ LastOnly /\ Truthful /\ FlyingIsOpen
        /\ Position /\ Partition /\ WithinLimits /\ Simulating

-----------------------------------------------------------------------------
\* The queue itself does not move.
LEMMA QueueStays == IInv /\ UNCHANGED chain => IInv'
  BY NextIInv DEF chain, vars

LEMMA RowsFact ==
    ASSUME WorkerTypeOK
    PROVE  /\ Len(journal) \in Nat /\ Rows = 1..Len(journal)
           /\ \A i \in Rows : /\ journal[i] \in Row /\ landed[i] \in Outcome
                             /\ journal[i].cursor \in Nat /\ journal[i].count \in Nat
                             /\ journal[i].resends \in Nat
           /\ IsFiniteSet(Rows) /\ Cardinality(Rows) = Len(journal)
  <1>1. Len(journal) \in Nat
    BY DEF WorkerTypeOK
  <1>2. \A i \in Rows : journal[i] \in Row /\ landed[i] \in Outcome
    BY DEF WorkerTypeOK, Rows
  <1>3. IsFiniteSet(1..Len(journal)) /\ Cardinality(1..Len(journal)) = Len(journal)
    <2>1. PICK m \in Int : m = Len(journal) /\ m >= 0
      BY <1>1
    <2>2. IsFiniteSet(1..m) /\ Cardinality(1..m) = IF 1 > m THEN 0 ELSE m - 1 + 1
      BY FS_Interval
    <2>3. QED
      BY <2>1, <2>2
  <1>4. IsFiniteSet(Rows) /\ Cardinality(Rows) = Len(journal)
    BY <1>3 DEF Rows
  <1>5. ASSUME NEW i \in Rows
        PROVE  /\ journal[i].cursor \in Nat /\ journal[i].count \in Nat
               /\ journal[i].resends \in Nat
    BY <1>2 DEF Row
  <1>6. Rows = 1..Len(journal)
    BY DEF Rows
  <1>7. QED
    BY <1>1, <1>2, <1>4, <1>5, <1>6

\* What is in flight is the last row and pending.
LEMMA LastFact ==
    ASSUME SInv
    PROVE  /\ \A i \in Pending : i = Len(journal)
           /\ inflight \subseteq Pending
  <1>1. \A i \in Rows : i \in Pending <=> ~Settled(i)
    BY RowsFact DEF SInv, Pending, Settled, Row, Phases
  <1>2. \A i \in Rows : i # Len(journal) => Settled(i)
    BY RowsFact DEF SInv, LastOnly
  <1>3. \A i \in inflight : i \in Rows /\ ~Settled(i)
    BY DEF SInv, WorkerTypeOK, FlyingIsOpen, Truthful
  <1>4. QED
    BY <1>1, <1>2, <1>3 DEF Pending

\* A step that touches neither chain nor journal.
LEMMA WorkerStep ==
    ASSUME SInv, UNCHANGED <<chain, journal, landed>>,
           inflight' \subseteq inflight \cup {i \in Rows : landed[i] = "none"},
           WorkerTypeOK', Position',
           pc' = "plan" /\ Spent # {} => forced',
           pc' = "sign" /\ Spent # {} => plan'.mode = "simulation"
    PROVE  SInv'
  <1>1. IInv' /\ LastOnly' /\ Truthful' /\ FlyingIsOpen'
    BY QueueStays DEF SInv, LastOnly, Truthful, FlyingIsOpen, Settled, Rows
  <1>2. Partition'
    BY DEF SInv, Partition, Paid, Rows, Covers, chain, queue
  <1>3. WithinLimits' /\ Simulating'
    BY DEF SInv, WithinLimits, Simulating, SimulatesAfterExhaustion, Spent, Failed, Pending,
           AttemptsLeft, Rows
  <1>4. QED
    BY <1>1, <1>2, <1>3 DEF SInv

\* The end of a step, in any way.
LEMMA EndedStep ==
    ASSUME SInv, UNCHANGED <<chain, journal, landed, inflight>>, forced' \in BOOLEAN,
           faults' \in 0..MaxFaults, Ended
    PROVE  SInv'
  <1>1. WorkerTypeOK'
    <2>1. plan'.cursor = 0 /\ plan'.count = 0 /\ plan'.mode \in Modes /\ seen' \in Outcome
      BY DEF Ended, NoPlan, Modes, Outcome
    <2>2. Len(journal) \in Nat
      BY RowsFact DEF SInv
    <2>3. pc' = "idle" /\ row' \in 0..Len(journal')
      BY <2>2 DEF Ended
    <2>0. resent' \in BOOLEAN
      BY Zenon DEF Ended
    <2>4. QED
      BY <2>0, <2>1, <2>3 DEF SInv, WorkerTypeOK, Rows
  <1>2. Position'
    BY DEF Ended, Position, Working, Planning
  <1>3. QED
    BY <1>1, <1>2, WorkerStep DEF Ended

LEMMA BeginStep ==
    ASSUME SInv, Begin
    PROVE  SInv'
  <1>1. /\ pc' = "lookup" /\ row' = First(Pending) /\ Pending # {}
        /\ UNCHANGED <<chain, journal, forced, inflight, landed, plan, resent, seen, faults>>
    BY DEF Begin
  <1>2. First(Pending) \in Pending
    <2>1. PICK i \in Pending : TRUE
      BY <1>1
    <2>2. \A j \in Pending : i <= j
      BY <2>1, LastFact, RowsFact DEF SInv, Pending
    <2>3. QED
      BY <2>2 DEF First
  <1>3. row' = Len(journal) /\ row' \in Rows /\ ~Settled(row')
    BY <1>1, <1>2, LastFact DEF Pending, Settled
  <1>4. WorkerTypeOK'
    BY <1>1, <1>3 DEF SInv, WorkerTypeOK, Rows, Working
  <1>5. Position'
    BY <1>1, <1>3 DEF Position, Working, Planning, Settled, Rows
  <1>6. QED
    BY <1>1, <1>4, <1>5, WorkerStep

LEMMA InspectStep ==
    ASSUME SInv, Inspect
    PROVE  SInv'
  <1>1. /\ pc' = "plan" /\ plan' = [NoPlan EXCEPT !.cursor = cursor]
        /\ forced' = Recovers /\ Pending = {} /\ status = "open" /\ AttemptsLeft
        /\ UNCHANGED <<chain, journal, inflight, landed, row, resent, seen, faults>>
    BY DEF Inspect
  <1>2. WorkerTypeOK'
    <2>1. plan'.cursor = cursor /\ plan'.count = 0 /\ plan'.mode = "prediction"
      BY <1>1 DEF NoPlan
    <2>2. cursor \in Nat /\ forced' \in BOOLEAN
      BY <1>1 DEF SInv, IInv, TypeOK, WorkerTypeOK, Recovers
    <2>3. QED
      BY <1>1, <2>1, <2>2 DEF SInv, WorkerTypeOK, Rows, Planning, Modes
  <1>3. Position'
    BY <1>1 DEF Position, Working, Planning, Pending, Rows, AttemptsLeft, Failed, chain, queue
  <1>4. Spent # {} => forced'
    <2> SUFFICES ASSUME NEW i \in Rows, landed[i] = "budget" PROVE forced'
      BY DEF Spent
    <2>1. Settled(i)
      BY <1>1, RowsFact DEF SInv, Pending, Settled, Row, Phases
    <2>2. i \in Failed
      BY <2>1 DEF SInv, Truthful, Settled, Failed
    <2>3. QED
      BY <1>1, <2>2 DEF Recovers
  <1>5. QED
    BY <1>1, <1>2, <1>3, <1>4, WorkerStep

\* An open queue has payments left, so every count offered is positive.
LEMMA CountsFact ==
    ASSUME SInv, status = "open", NEW count \in Counts(Length - cursor)
    PROVE  count \in 1..(Length - cursor)
  <1>1. Length \in Nat /\ cursor \in Nat /\ cursor < Length
    BY DEF SInv, IInv, TypeOK, AlwaysLoadable, Loadable, CompleteIsEarned
  <1>2. count \in Menu \cup {Length - cursor} /\ count <= Length - cursor
    BY DEF Counts
  <1>3. QED
    BY <1>1, <1>2, QueueAssumption

LEMMA PlanStep ==
    ASSUME SInv, Plan \/ NoCandidate
    PROVE  SInv'
  <1>1. UNCHANGED <<chain, journal, forced, inflight, landed, faults>> /\ pc = "plan"
    BY DEF Plan, NoCandidate
  <1>2. CASE Ended
    BY <1>1, <1>2, EndedStep DEF SInv, WorkerTypeOK
  <1>3. ASSUME NEW count \in Counts(Length - cursor), NEW mode \in Modes,
               cursor = plan.cursor,
               IF mode = "simulation" THEN Executable(cursor, count)
               ELSE ~forced /\ status = "open" /\ ~paused,
               plan' = [cursor |-> cursor, count |-> count, mode |-> mode,
                        snapshot |-> Snapshot(count)],
               pc' = "sign", UNCHANGED <<row, resent, seen>>
        PROVE  SInv'
    <2>1. status = "open" /\ (forced => mode = "simulation")
      BY <1>3 DEF Executable
    <2>2. count \in 1..(Length - cursor) /\ cursor \in Nat /\ count \in Nat
      BY <2>1, CountsFact DEF SInv, IInv, TypeOK
    <2>3. plan'.cursor = cursor /\ plan'.count = count /\ plan'.mode = mode
      BY <1>3
    <2>4. WorkerTypeOK'
      BY <1>1, <1>3, <2>2, <2>3 DEF SInv, WorkerTypeOK, Rows, Planning
    <2>5. Position'
      BY <1>1, <1>3, <2>1, <2>2, <2>3 DEF SInv, Position, Working, Planning, Pending, Rows,
         AttemptsLeft, Failed, chain, queue, Length
    <2>6. QED
      BY <1>1, <1>3, <2>1, <2>3, <2>4, <2>5, WorkerStep DEF SInv, Simulating
  <1>4. QED
    BY <1>2, <1>3 DEF Plan, NoCandidate

\* A step that goes on with its row.
LEMMA GoesOn ==
    ASSUME SInv, pc \in Working, pc' \in Working, UNCHANGED <<chain, journal, landed, plan, row>>,
           inflight' \subseteq inflight \cup {i \in Rows : landed[i] = "none"},
           forced' \in BOOLEAN, resent' \in BOOLEAN, faults' \in 0..MaxFaults,
           seen' \in Outcome,
           pc' \in {"record", "judge", "fail"} => seen' \in {"none", landed[row]},
           pc' \in {"record", "fail"} => seen' # "none",
           pc' = "fail" => seen' # "ok"
    PROVE  SInv'
  <1>1. WorkerTypeOK'
    BY DEF SInv, WorkerTypeOK, Rows
  <1>2. Position'
    BY DEF SInv, Position, Working, Planning, Settled, Rows
  <1>3. QED
    BY <1>1, <1>2, WorkerStep DEF Working

LEMMA SubmitFact ==
    ASSUME SInv, Submit, row \in Rows
    PROVE  /\ inflight' \subseteq inflight \cup {i \in Rows : landed[i] = "none"}
           /\ faults' \in 0..MaxFaults
  <1>1. faults \in 0..MaxFaults /\ MaxFaults \in Nat
    BY ExecutorAssumption DEF SInv, WorkerTypeOK
  <1>2. QED
    BY <1>1 DEF Submit, Fault, Landed

LEMMA SeenStep ==
    ASSUME SInv, Sent \/ Lookup \/ Resend
    PROVE  SInv'
  <1>0. /\ pc \in {"sent", "lookup", "resend"} /\ pc \in Working
        /\ row \in Rows /\ landed[row] \in Outcome
    BY RowsFact DEF SInv, Position, Working, Sent, Lookup, Resend
  <1>1. CASE Sent
    <2>1. CASE landed[row] = "none"
      BY <1>1, <2>1, EndedStep DEF Sent, SInv, WorkerTypeOK
    <2>2. CASE landed[row] # "none"
      BY <1>0, <1>1, <2>2, GoesOn DEF Sent, SInv, WorkerTypeOK, Working
    <2>3. QED
      BY <2>1, <2>2
  <1>2. CASE Lookup
    BY <1>0, <1>2, GoesOn DEF Lookup, SInv, WorkerTypeOK, Working
  <1>3. CASE Resend
    BY <1>0, <1>3, GoesOn, SubmitFact DEF Resend, SInv, WorkerTypeOK, Working
  <1>4. QED
    BY <1>1, <1>2, <1>3

-----------------------------------------------------------------------------
KeepsRow == pc' \in {"lookup", "resend"} /\ UNCHANGED <<plan, row, resent, seen>>

\* A step that changes the phase or the rebroadcasts of the row it works on; if it
\* settles it, then by what landed.
LEMMA JournalStep ==
    ASSUME SInv, pc \in Working, UNCHANGED <<chain, landed>>,
           NEW r \in Row, journal' = [journal EXCEPT ![row] = r],
           r.cursor = journal[row].cursor, r.count = journal[row].count,
           r.mode = journal[row].mode, r.resends <= MaxAttempts,
           inflight' \subseteq inflight \cup {i \in Rows : landed[i] = "none"},
           forced' \in BOOLEAN, faults' \in 0..MaxFaults,
           \/ r.phase \in {"signed", "uncertain"} /\ (KeepsRow \/ Ended)
           \/ /\ landed[row] # "none" /\ (r.phase = "confirmed" <=> landed[row] = "ok")
              /\ Ended
    PROVE  SInv'
  <1>1. /\ row = Len(journal) /\ row \in Rows /\ ~Settled(row) /\ pc' \notin Planning
        /\ Len(journal) \in Nat
    BY RowsFact DEF SInv, Position, Planning, Ended, KeepsRow
  <1>2. /\ journal' \in Seq(Row) /\ Len(journal') = Len(journal) /\ Rows' = Rows
        /\ journal'[row] = r /\ \A i \in Rows : i # row => journal'[i] = journal[i]
    BY <1>1 DEF SInv, WorkerTypeOK, Rows
  <1>3. WorkerTypeOK'
    <2>1. CASE Ended
      <3>1. resent' \in BOOLEAN
        BY <2>1, Zenon DEF Ended
      <3>2. plan'.cursor = 0 /\ plan'.count = 0 /\ plan'.mode \in Modes /\ seen' \in Outcome
        BY <2>1 DEF Ended, NoPlan, Modes, Outcome
      <3>3. pc' = "idle" /\ row' \in 0..Len(journal')
        BY <1>1, <1>2, <2>1 DEF Ended
      <3>4. QED
        BY <1>2, <3>1, <3>2, <3>3 DEF SInv, WorkerTypeOK
    <2>2. CASE ~Ended
      <3>1. pc' \in Working /\ row' = row /\ UNCHANGED <<plan, resent, seen>>
        BY <2>2 DEF Working, KeepsRow
      <3>2. QED
        BY <1>2, <3>1 DEF SInv, WorkerTypeOK
    <2>3. QED
      BY <2>1, <2>2
  <1>4. \A i \in Rows : i # row => Settled(i)' = Settled(i)
    BY <1>2 DEF Settled
  <1>5. LastOnly' /\ Truthful' /\ FlyingIsOpen'
    <2>1. LastOnly'
      BY <1>1, <1>2, <1>4, RowsFact DEF SInv, LastOnly
    <2>2. Truthful'
      BY <1>1, <1>2, <1>4 DEF SInv, Truthful, Settled
    <2>3. FlyingIsOpen'
      BY DEF SInv, FlyingIsOpen
    <2>4. QED
      BY <2>1, <2>2, <2>3
  <1>6. Position'
    <2>1. CASE Ended
      BY <2>1 DEF Ended, Position, Working, Planning
    <2>2. CASE ~Ended
      BY <1>1, <1>2, <2>2 DEF Position, Planning, Settled, KeepsRow
    <2>3. QED
      BY <2>1, <2>2
  <1>7. Partition'
    <2>1. Paid' = Paid
      BY <1>2 DEF Paid
    <2>2. \A i \in Rows : /\ journal'[i].cursor = journal[i].cursor
                          /\ journal'[i].count = journal[i].count
      BY <1>1, <1>2
    <2>3. cursor' = cursor
      BY DEF chain, queue
    <2>4. \A i \in Paid : \A k : Covers(i, k)' <=> Covers(i, k)
      BY <2>2 DEF Covers, Paid
    <2>5. Paid \subseteq Rows
      BY DEF Paid
    <2>6. QED
      BY <2>1, <2>2, <2>3, <2>4, <2>5 DEF SInv, Partition
  <1>8. WithinLimits'
    <2>1. AttemptsLeft /\ Cardinality(Failed) < MaxAttempts
      BY <1>1, RowsFact DEF SInv, WithinLimits, AttemptsLeft, Pending, Settled, Row, Phases
    <2>2. IsFiniteSet(Failed) /\ Cardinality(Failed) \in Nat /\ row \notin Failed
      BY <1>1, RowsFact, FS_Subset, FS_CardinalityType DEF SInv, Failed, Settled
    <2>3. CASE r.phase = "failed"
      <3>1. Failed' = Failed \cup {row} /\ Pending' = {}
        <4>1. \A i \in Rows : i # row => i \notin Pending
          BY <1>1, LastFact
        <4>2. QED
          BY <1>1, <1>2, <2>3, <4>1 DEF Failed, Pending
      <3>2. Cardinality(Failed') = Cardinality(Failed) + 1
        BY <2>2, <3>1, FS_AddElement
      <3>3. QED
        BY <1>2, <2>1, <2>2, <3>1, <3>2, ExecutorAssumption DEF SInv, WithinLimits
    <2>4. CASE r.phase # "failed"
      <3>1. Failed' = Failed
        BY <1>1, <1>2, <2>4 DEF Failed, Settled
      <3>2. QED
        BY <1>2, <2>1, <3>1 DEF SInv, WithinLimits, AttemptsLeft
    <2>5. QED
      BY <2>3, <2>4
  <1>9. Simulating'
    BY <1>1, <1>2 DEF SInv, Simulating, SimulatesAfterExhaustion, Planning
  <1>10. IInv'
    BY QueueStays DEF SInv
  <1>11. QED
    BY <1>3, <1>5, <1>6, <1>7, <1>8, <1>9, <1>10 DEF SInv

LEMMA SendStep ==
    ASSUME SInv, Send
    PROVE  SInv'
  <1>1. /\ pc = "send" /\ pc \in Working /\ row \in Rows /\ ~Settled(row)
        /\ UNCHANGED <<chain, forced, landed, plan, row, resent, seen>>
    BY DEF Send, SInv, Position, Working
  <1>2. /\ inflight' \subseteq inflight \cup {i \in Rows : landed[i] = "none"}
        /\ faults' \in 0..MaxFaults
    BY <1>1, SubmitFact DEF Send
  <1>3. CASE pc' = "sent" /\ UNCHANGED journal
    BY <1>1, <1>2, <1>3, GoesOn DEF SInv, WorkerTypeOK, Working
  <1>4. CASE pc' = "lookup" /\ journal' = [journal EXCEPT ![row].phase = "uncertain"]
    <2> DEFINE r == [journal[row] EXCEPT !.phase = "uncertain"]
    <2>1. journal[row] \in Row /\ journal[row].resends <= MaxAttempts
      BY <1>1, RowsFact DEF SInv, WithinLimits
    <2>2. /\ r \in Row /\ r.phase = "uncertain" /\ r.cursor = journal[row].cursor
          /\ r.count = journal[row].count /\ r.mode = journal[row].mode
          /\ r.resends = journal[row].resends
      BY <2>1 DEF Row, Phases
    <2>3. journal' = [journal EXCEPT ![row] = r]
      BY <1>4
    <2> HIDE DEF r
    <2>4. forced' \in BOOLEAN
      BY <1>1 DEF SInv, WorkerTypeOK
    <2>5. QED
      BY <1>1, <1>2, <1>4, <2>1, <2>2, <2>3, <2>4, JournalStep DEF KeepsRow
  <1>5. QED
    BY <1>3, <1>4 DEF Send

\* Settling a row keeps what it says of the batch.
LEMMA SettleFact ==
    ASSUME SInv, row \in Rows, NEW phase \in Phases
    PROVE  LET r == [journal[row] EXCEPT !.phase = phase, !.resends = 0]
           IN  /\ Settle(row, phase) = [journal EXCEPT ![row] = r]
               /\ r \in Row /\ r.phase = phase /\ r.resends = 0
               /\ r.cursor = journal[row].cursor /\ r.count = journal[row].count
               /\ r.mode = journal[row].mode
  <1>1. journal[row] \in Row
    BY RowsFact DEF SInv
  <1>2. journal \in Seq(Row) /\ row \in 1..Len(journal)
    BY DEF SInv, WorkerTypeOK, Rows
  <1>3. QED
    BY <1>1, <1>2 DEF Settle, Row

\* An outcome that has been seen is the one that landed.
LEMMA ConfirmStep ==
    ASSUME SInv, pc \in {"record", "judge"}, seen = "ok", Ended, UNCHANGED forced,
           journal' \in {Settle(row, "confirmed"), journal}, UNCHANGED <<chain, inflight, landed, faults>>
    PROVE  SInv'
  <1>1. /\ pc \in Working /\ row \in Rows /\ landed[row] = "ok"
    BY DEF SInv, Position, Working
  <1>0. forced' \in BOOLEAN /\ faults' \in 0..MaxFaults
    BY <1>1 DEF SInv, WorkerTypeOK
  <1>2. CASE journal' = Settle(row, "confirmed")
    <2> DEFINE r == [journal[row] EXCEPT !.phase = "confirmed", !.resends = 0]
    <2>1. /\ journal' = [journal EXCEPT ![row] = r]
          /\ r \in Row /\ r.phase = "confirmed" /\ r.resends = 0
          /\ r.cursor = journal[row].cursor /\ r.count = journal[row].count
          /\ r.mode = journal[row].mode
      BY <1>1, <1>2, SettleFact DEF Phases
    <2> HIDE DEF r
    <2>2. r.resends <= MaxAttempts
      BY <2>1, ExecutorAssumption
    <2>3. QED
      BY <1>0, <1>1, <2>1, <2>2, JournalStep
  <1>3. CASE journal' = journal
    BY <1>0, <1>1, <1>3, EndedStep
  <1>4. QED
    BY <1>2, <1>3

LEMMA NoteFailureStep ==
    ASSUME SInv, pc \in {"record", "judge"}, NoteFailure,
           UNCHANGED <<chain, inflight, landed, faults>>
    PROVE  SInv'
  <1>1. pc \in Working /\ pc' \in Working /\ forced' \in BOOLEAN
    BY DEF NoteFailure, SInv, WorkerTypeOK, Working
  <1>2. seen' = seen /\ seen \in {"err", "budget"} /\ seen \in {"none", landed[row]}
    BY DEF NoteFailure, SInv, Position
  <1>3. QED
    BY <1>1, <1>2, GoesOn DEF NoteFailure, SInv, WorkerTypeOK

LEMMA FailStep ==
    ASSUME SInv, Fail
    PROVE  SInv'
  <1>1. /\ pc \in Working /\ row \in Rows /\ landed[row] \notin {"none", "ok"}
        /\ Ended /\ UNCHANGED <<chain, forced, inflight, landed, faults>>
        /\ journal' = Settle(row, "failed")
    BY DEF Fail, SInv, Position, Working
  <1>2. forced' \in BOOLEAN /\ faults' \in 0..MaxFaults
    BY <1>1 DEF SInv, WorkerTypeOK
  <1> DEFINE r == [journal[row] EXCEPT !.phase = "failed", !.resends = 0]
  <1>3. /\ journal' = [journal EXCEPT ![row] = r]
        /\ r \in Row /\ r.phase = "failed" /\ r.resends = 0
        /\ r.cursor = journal[row].cursor /\ r.count = journal[row].count
        /\ r.mode = journal[row].mode
    BY <1>1, SettleFact DEF Phases
  <1> HIDE DEF r
  <1>4. r.resends <= MaxAttempts
    BY <1>3, ExecutorAssumption
  <1>5. QED
    BY <1>1, <1>2, <1>3, <1>4, JournalStep

LEMMA AwaitStep ==
    ASSUME SInv, pc = "judge", AwaitOutcome, UNCHANGED <<chain, inflight, landed, faults>>
    PROVE  SInv'
  <1>1. pc \in Working /\ row \in Rows /\ journal[row] \in Row /\ ~Settled(row)
    BY RowsFact DEF SInv, Position, Working
  <1>2. forced' \in BOOLEAN /\ faults' \in 0..MaxFaults
    BY DEF AwaitOutcome, SInv, WorkerTypeOK
  <1>3. journal[row].phase \in {"signed", "uncertain"} /\ journal[row].resends <= MaxAttempts
    BY <1>1 DEF Row, Phases, Settled, SInv, WithinLimits
  <1>4. CASE /\ journal' = [journal EXCEPT ![row].resends = @ + 1] /\ ResendsLeft(row)
             /\ pc' = "resend" /\ UNCHANGED <<plan, row, resent, seen>>
    <2> DEFINE r == [journal[row] EXCEPT !.resends = @ + 1]
    <2>1. /\ r \in Row /\ r.phase = journal[row].phase /\ r.resends = journal[row].resends + 1
          /\ r.cursor = journal[row].cursor /\ r.count = journal[row].count
          /\ r.mode = journal[row].mode
      BY <1>1 DEF Row
    <2>2. journal' = [journal EXCEPT ![row] = r]
      BY <1>4
    <2> HIDE DEF r
    <2>3. r.resends <= MaxAttempts
      BY <1>1, <1>4, <2>1, ExecutorAssumption DEF ResendsLeft, Row
    <2>4. QED
      BY <1>1, <1>2, <1>3, <1>4, <2>1, <2>2, <2>3, JournalStep DEF KeepsRow
  <1>5. CASE journal' = Unresolved /\ Ended
    <2> DEFINE r == [journal[row] EXCEPT !.phase = "uncertain"]
    <2>1. /\ r \in Row /\ r.phase = "uncertain" /\ r.resends = journal[row].resends
          /\ r.cursor = journal[row].cursor /\ r.count = journal[row].count
          /\ r.mode = journal[row].mode
      BY <1>1 DEF Row, Phases
    <2>2. journal' = [journal EXCEPT ![row] = r]
      BY <1>5 DEF Unresolved
    <2> HIDE DEF r
    <2>3. QED
      BY <1>1, <1>2, <1>3, <1>5, <2>1, <2>2, JournalStep
  <1>6. QED
    BY <1>4, <1>5 DEF AwaitOutcome

LEMMA JudgeStep ==
    ASSUME SInv, Record \/ Judge
    PROVE  SInv'
  <1>1. UNCHANGED <<chain, inflight, landed, faults>>
    BY DEF Record, Judge
  <1>2. CASE Record
    BY <1>1, <1>2, ConfirmStep, NoteFailureStep DEF Record, Confirm
  <1>3. CASE Judge
    BY <1>1, <1>3, AwaitStep, ConfirmStep, NoteFailureStep DEF Judge, Confirm
  <1>4. QED
    BY <1>2, <1>3

-----------------------------------------------------------------------------
LEMMA LengthFact ==
    ASSUME SInv
    PROVE  Length \in Nat /\ Length <= MaxPayments /\ cursor \in Nat
  <1>1. Length \in 1..MaxPayments \/ Length = 0
    BY DEF SInv, IInv, AlwaysLoadable, Loadable, Fresh, NoTerms, Length
  <1>2. QED
    BY <1>1, QueueAssumption DEF SInv, IInv, TypeOK

\* While nothing is pending every row is a failure or a payment, so a queue with
\* payments and attempts left has room for another row.
LEMMA RoomFact ==
    ASSUME SInv, Pending = {}, AttemptsLeft, cursor < Length
    PROVE  Len(journal) < MaxPayments + MaxAttempts
  <1>1. Rows = Failed \cup Paid
    BY RowsFact DEF SInv, Pending, Failed, Paid, Truthful, Settled, Row, Phases
  <1>2. /\ IsFiniteSet(Failed) /\ Cardinality(Failed) \in Nat
        /\ IsFiniteSet(Paid) /\ Cardinality(Paid) \in Nat
    BY RowsFact, FS_Subset, FS_CardinalityType DEF SInv, Failed, Paid
  <1>3. Cardinality(Failed \cup Paid)
            = Cardinality(Failed) + Cardinality(Paid) - Cardinality(Failed \cap Paid)
    BY <1>2, FS_Union
  <1>4. Cardinality(Failed \cap Paid) \in Nat
    BY <1>2, FS_Intersection, FS_CardinalityType
  <1>5. /\ Length \in Nat /\ Length <= MaxPayments /\ cursor \in Nat
        /\ Len(journal) = Cardinality(Failed \cup Paid)
    <2>1. Len(journal) = Cardinality(Rows)
      BY RowsFact DEF SInv
    <2>2. QED
      BY <1>1, <2>1, LengthFact
  <1>6. Cardinality(Paid) <= cursor /\ Cardinality(Failed) < MaxAttempts
    BY DEF SInv, Partition, AttemptsLeft
  <1>7. QED
    BY <1>2, <1>3, <1>4, <1>5, <1>6, QueueAssumption, ExecutorAssumption

LEMMA SignStep ==
    ASSUME SInv, Sign
    PROVE  SInv'
  <1>1. pc = "sign" /\ UNCHANGED <<chain, forced, inflight, faults>>
    BY DEF Sign
  <1>2. CASE Ended /\ UNCHANGED <<journal, landed>>
    BY <1>1, <1>2, EndedStep DEF SInv, WorkerTypeOK
  <1> DEFINE r == [cursor |-> plan.cursor, count |-> plan.count, mode |-> plan.mode,
                   phase |-> "signed", resends |-> 0]
             n == Len(journal)
  <1>3. CASE /\ journal' = Append(journal, r) /\ landed' = Append(landed, "none")
             /\ pc' = "send" /\ row' = n + 1 /\ plan' = NoPlan /\ UNCHANGED <<resent, seen>>
    <2>1. /\ r \in Row /\ r.cursor = plan.cursor /\ r.count = plan.count
          /\ r.mode = plan.mode /\ r.phase = "signed" /\ r.resends = 0
      BY DEF SInv, WorkerTypeOK, Row, Phases
    <2>2. /\ Pending = {} /\ AttemptsLeft /\ plan.cursor = cursor
          /\ plan.count \in 1..(Length - cursor) /\ n \in Nat /\ Rows = 1..n
      BY <1>1, RowsFact DEF SInv, Position, Planning
    <2> HIDE DEF r
    <2>3. /\ journal' \in Seq(Row) /\ Len(journal') = n + 1
          /\ landed' \in Seq(Outcome) /\ Len(landed') = n + 1
          /\ Rows' = Rows \cup {n + 1} /\ n + 1 \notin Rows
          /\ journal'[n + 1] = r /\ landed'[n + 1] = "none"
          /\ \A i \in Rows : journal'[i] = journal[i] /\ landed'[i] = landed[i]
      BY <1>3, <2>1, <2>2 DEF SInv, WorkerTypeOK, Rows, Outcome
    <2>4. \A i \in Rows : Settled(i) /\ Settled(i)'
      BY <2>2, <2>3, RowsFact DEF SInv, Pending, Settled, Row, Phases
    <2>5. journal'[n + 1].phase = "signed"
      BY <2>1, <2>3
    <2>6. WorkerTypeOK'
      <3>1. plan'.cursor = 0 /\ plan'.count = 0 /\ plan'.mode \in Modes
        BY <1>3 DEF NoPlan, Modes
      <3>2. pc' \in Working /\ inflight' \subseteq Rows' /\ row' \in 0..Len(journal')
        BY <1>1, <1>3, <2>2, <2>3 DEF Working, SInv, WorkerTypeOK
      <3>3. forced' = forced /\ resent' = resent /\ seen' = seen /\ faults' = faults
        BY <1>1, <1>3
      <3>4. QED
        BY <2>3, <3>1, <3>2, <3>3 DEF SInv, WorkerTypeOK
    <2>7. LastOnly' /\ Truthful' /\ FlyingIsOpen'
      <3>1. LastOnly' /\ Truthful'
        BY <2>2, <2>3, <2>4, <2>5 DEF SInv, LastOnly, Truthful, Settled
      <3>2. FlyingIsOpen'
        BY <1>1, <2>3 DEF SInv, FlyingIsOpen, WorkerTypeOK
      <3>3. QED
        BY <3>1, <3>2
    <2>8. Position'
      <3>1. row' = Len(journal') /\ row' \in Rows' /\ journal'[row'].phase = "signed"
        BY <1>3, <2>3, <2>5
      <3>2. QED
        BY <1>3, <3>1 DEF Position, Working, Planning, Settled
    <2>9. Partition'
      <3>1. Paid' = Paid /\ Paid \subseteq Rows /\ cursor' = cursor
        BY <1>1, <2>3 DEF Paid, chain, queue
      <3>2. \A i \in Paid : \A k : Covers(i, k)' <=> Covers(i, k)
        BY <2>3, <3>1 DEF Covers
      <3>3. QED
        BY <2>3, <3>1, <3>2 DEF SInv, Partition
    <2>10. WithinLimits'
      <3>1. Failed' = Failed
        BY <2>1, <2>3 DEF Failed
      <3>2. n + 1 <= MaxPayments + MaxAttempts
        <4>1. cursor < Length
          BY <2>2, LengthFact
        <4>2. QED
          BY <2>2, <4>1, RoomFact, QueueAssumption, ExecutorAssumption
      <3>3. \A i \in Rows' : journal'[i].resends <= MaxAttempts
        BY <2>1, <2>3, ExecutorAssumption DEF SInv, WithinLimits
      <3>4. QED
        BY <2>2, <2>3, <3>1, <3>2, <3>3 DEF SInv, WithinLimits, AttemptsLeft
    <2>11. Simulating'
      <3>1. SimulatesAfterExhaustion'
        <4> SUFFICES ASSUME NEW i \in Rows', NEW j \in Rows', i < j, landed'[i] = "budget"
                     PROVE  journal'[j].mode = "simulation"
          BY DEF SimulatesAfterExhaustion
        <4>1. i \in Rows /\ landed[i] = "budget"
          BY <2>2, <2>3
        <4>2. CASE j \in Rows
          BY <2>3, <4>1, <4>2 DEF SInv, Simulating, SimulatesAfterExhaustion
        <4>3. CASE j = n + 1
          BY <1>1, <2>1, <2>3, <4>1, <4>3 DEF SInv, Simulating, Spent
        <4>4. QED
          BY <2>3, <4>2, <4>3
      <3>2. QED
        BY <1>3, <3>1 DEF Simulating
    <2>12. IInv'
      BY <1>1, QueueStays DEF SInv
    <2>13. QED
      BY <2>6, <2>7, <2>8, <2>9, <2>10, <2>11, <2>12 DEF SInv
  <1>4. QED
    BY <1>2, <1>3 DEF Sign

-----------------------------------------------------------------------------
\* A batch the chain executes is one the program's own specification allows.
LEMMA DeliveryIsExecution ==
    ASSUME SInv, NEW i \in inflight,
           ExecuteBatch(journal[i].cursor, journal[i].count, i)
    PROVE  /\ Next
           /\ journal[i].cursor = cursor /\ journal[i].count > 0
           /\ cursor' = cursor + journal[i].count
  <1>1. /\ i \in Rows /\ i \in 1..Len(journal) /\ journal[i].count \in Nat /\ cursor \in Nat
        /\ Len(journal) \in Nat /\ Len(journal) <= MaxPayments + MaxAttempts
    BY RowsFact DEF SInv, WorkerTypeOK, WithinLimits, IInv, TypeOK
  <1>2. i \in Decisions
    BY <1>1, ExecutorAssumption, QueueAssumption
  <1>3. /\ journal[i].cursor = cursor /\ journal[i].count > 0
        /\ journal[i].count <= Length - cursor /\ Length \in 1..MaxPayments
        /\ cursor <= Length /\ cursor' = cursor + journal[i].count
    BY DEF ExecuteBatch, Executable, AllowedCount, Loadable
  <1>4. journal[i].cursor \in 0..MaxPayments /\ journal[i].count \in 1..MaxPayments
    BY <1>1, <1>3, QueueAssumption
  <1>5. QED
    BY <1>2, <1>3, <1>4 DEF Next, Executor

\* The last row's outcome becomes known.  No step is planning or signing, and none
\* has seen an outcome of this row before.
LEMMA DeliverStep ==
    ASSUME SInv, NEW i \in inflight, Deliver(i)
    PROVE  SInv'
  <1>1. /\ i \in Rows /\ i = Len(journal) /\ i \in Pending /\ landed[i] = "none"
        /\ ~Settled(i) /\ pc \notin Planning /\ Len(journal) \in Nat
    BY LastFact, RowsFact DEF SInv, FlyingIsOpen, Position, Pending, Settled
  <1>2. /\ inflight' = inflight \ {i} /\ UNCHANGED <<journal, forced, worker, faults>>
        /\ pc' = pc /\ row' = row /\ seen' = seen /\ plan' = plan /\ resent' = resent
    BY DEF Deliver, worker
  <1>3. PICK outcome \in Outcome :
            /\ landed' = [landed EXCEPT ![i] = outcome] /\ outcome # "none"
            /\ \/ /\ outcome = "ok"
                  /\ ExecuteBatch(journal[i].cursor, journal[i].count, i)
               \/ outcome # "ok" /\ UNCHANGED chain
    BY DEF Deliver, Outcome
  <1>4. /\ landed' \in Seq(Outcome) /\ Len(landed') = Len(journal) /\ landed'[i] = outcome
        /\ \A x \in Rows : x # i => landed'[x] = landed[x]
    BY <1>1, <1>3 DEF SInv, WorkerTypeOK, Rows
  <1>5. IInv'
    BY <1>3, DeliveryIsExecution, NextIInv, QueueStays DEF SInv
  <1>6. WorkerTypeOK'
    BY <1>2, <1>4 DEF SInv, WorkerTypeOK, Rows
  <1>7. LastOnly' /\ Truthful' /\ FlyingIsOpen'
    BY <1>1, <1>2, <1>4 DEF SInv, LastOnly, Truthful, FlyingIsOpen, WorkerTypeOK, Settled, Rows
  <1>8. Position'
    BY <1>1, <1>2, <1>4 DEF SInv, Position, Planning, Working, Settled, Rows
  <1>9. Partition'
    <2>1. Paid \subseteq Rows /\ i \notin Paid /\ cursor \in Nat
      BY <1>1 DEF Paid, SInv, IInv, TypeOK
    <2>2. \A x \in Rows, k \in Nat : Covers(x, k)' <=> Covers(x, k)
      BY <1>2 DEF Covers
    <2>3. CASE outcome = "ok"
      <3>1. /\ journal[i].cursor = cursor /\ journal[i].count > 0
            /\ cursor' = cursor + journal[i].count /\ journal[i].count \in Nat
        BY <1>1, <1>3, <2>3, DeliveryIsExecution, RowsFact DEF SInv
      <3>2. Paid' = Paid \cup {i}
        BY <1>1, <1>2, <1>4, <2>3 DEF Paid, Rows
      <3>3. \A x \in Paid : /\ journal[x].cursor \in Nat /\ journal[x].count \in Nat
                            /\ journal[x].count > 0
                            /\ journal[x].cursor + journal[x].count <= cursor
        BY <2>1, RowsFact DEF SInv, Partition
      <3>4. \A x \in Paid' : /\ journal'[x].count > 0
                             /\ journal'[x].cursor + journal'[x].count <= cursor'
        BY <1>2, <2>1, <3>1, <3>2, <3>3
      <3>5. \A k \in 1..cursor' : k \in 1..cursor \/ Covers(i, k)
        BY <2>1, <3>1 DEF Covers
      <3>6. \A x \in Paid, k \in 1..cursor' : Covers(x, k) => k \in 1..cursor /\ ~Covers(i, k)
        BY <2>1, <3>1, <3>3 DEF Covers
      <3>7. \A k \in 1..cursor' : \E x \in Paid' : Covers(x, k)'
        <4> SUFFICES ASSUME NEW k \in 1..cursor' PROVE \E x \in Paid' : Covers(x, k)'
          OBVIOUS
        <4>1. \E x \in Paid' : Covers(x, k)
          BY <3>2, <3>5 DEF SInv, Partition
        <4>2. QED
          BY <1>1, <2>1, <2>2, <3>2, <4>1
      <3>8. \A x, y \in Paid', k \in 1..cursor' : Covers(x, k)' /\ Covers(y, k)' => x = y
        <4> SUFFICES ASSUME NEW x \in Paid', NEW y \in Paid', NEW k \in 1..cursor',
                            Covers(x, k), Covers(y, k)
                     PROVE  x = y
          BY <1>1, <2>1, <2>2, <3>2
        <4>1. CASE x \in Paid /\ y \in Paid
          BY <3>6, <4>1 DEF SInv, Partition
        <4>2. CASE x = i \/ y = i
          BY <3>2, <3>6, <4>2
        <4>3. QED
          BY <3>2, <4>1, <4>2
      <3>9. Cardinality(Paid') <= cursor'
        <4>1. IsFiniteSet(Paid) /\ Cardinality(Paid) \in Nat
          BY <2>1, RowsFact, FS_Subset, FS_CardinalityType DEF SInv
        <4>2. Cardinality(Paid') = Cardinality(Paid) + 1
          BY <2>1, <3>2, <4>1, FS_AddElement
        <4>3. QED
          BY <2>1, <3>1, <4>1, <4>2 DEF SInv, Partition
      <3>10. QED
        BY <3>4, <3>7, <3>8, <3>9 DEF Partition
    <2>4. CASE outcome # "ok"
      <3>1. Paid' = Paid /\ cursor' = cursor
        BY <1>1, <1>2, <1>3, <1>4, <2>4 DEF Paid, Rows, chain, queue
      <3>2. \A x \in Rows : journal'[x] = journal[x]
        BY <1>2
      <3>3. QED
        BY <1>2, <2>1, <3>1 DEF SInv, Partition, Covers
    <2>5. QED
      BY <2>3, <2>4
  <1>10. WithinLimits'
    BY <1>2 DEF SInv, WithinLimits, AttemptsLeft, Failed, Pending, Rows
  <1>11. Simulating'
    BY <1>1, <1>2, <1>4 DEF SInv, Simulating, SimulatesAfterExhaustion, Planning, Rows
  <1>12. QED
    BY <1>5, <1>6, <1>7, <1>8, <1>9, <1>10, <1>11 DEF SInv

\* The process dies, or a transaction expires.
LEMMA FaultStep ==
    ASSUME SInv, Crash \/ \E i \in inflight : Expire(i)
    PROVE  SInv'
  <1>1. CASE Crash
    <2>1. faults' \in 0..MaxFaults
      BY <1>1, ExecutorAssumption DEF Crash, Fault, SInv, WorkerTypeOK
    <2>2. QED
      BY <1>1, <2>1, EndedStep DEF Crash, SInv, WorkerTypeOK
  <1>2. CASE \E i \in inflight : Expire(i)
    <2>1. /\ inflight' \subseteq inflight
          /\ UNCHANGED <<chain, journal, forced, landed, faults>>
          /\ pc' = pc /\ row' = row /\ seen' = seen /\ plan' = plan /\ resent' = resent
      BY <1>2 DEF Expire, worker
    <2>2. WorkerTypeOK'
      BY <2>1 DEF SInv, WorkerTypeOK, Rows
    <2>3. Position'
      BY <2>1 DEF SInv, Position, Settled, Rows, Pending, AttemptsLeft, Failed, chain, queue, Length
    <2>4. QED
      BY <2>1, <2>2, <2>3, WorkerStep DEF SInv, Simulating
  <1>3. QED
    BY <1>1, <1>2

\* Nobody but a delivered batch moves the cursor, and the terms of a queue stay.
LEMMA OutsideStep ==
    ASSUME SInv, Owner \/ Environment, UNCHANGED <<journal, forced, inflight, landed, worker, faults>>
    PROVE  SInv'
  <1>1. IInv'
    BY NextIInv DEF SInv, Next
  <1>2. /\ cursor' = cursor
        /\ status # "absent" => status' # "absent" /\ UNCHANGED terms
    <2>1. CASE \E t \in Terms, e \in Expiries : CreateQueue(t, e)
      BY <2>1 DEF CreateQueue, SInv, IInv, Fresh
    <2>2. CASE \E value \in BOOLEAN : SetPaused(value)
      BY <2>2 DEF SetPaused
    <2>3. CASE Refund
      BY <2>3 DEF Refund
    <2>4. CASE Environment
      BY <2>4 DEF Environment, Deposit, OpenAccount, Tick, queue
    <2>5. QED
      BY <2>1, <2>2, <2>3, <2>4 DEF Owner
  <1>3. pc' = pc /\ row' = row /\ seen' = seen /\ plan' = plan /\ resent' = resent
    BY DEF worker
  <1>4. WorkerTypeOK' /\ LastOnly' /\ Truthful' /\ FlyingIsOpen'
    BY <1>3 DEF SInv, WorkerTypeOK, LastOnly, Truthful, FlyingIsOpen, Settled, Rows
  <1>5. Position'
    BY <1>2, <1>3 DEF SInv, Position, Settled, Rows, Pending, AttemptsLeft, Failed, Length, Planning
  <1>6. Partition'
    BY <1>2 DEF SInv, Partition, Paid, Rows, Covers
  <1>7. WithinLimits' /\ Simulating'
    BY <1>3 DEF SInv, WithinLimits, Simulating, SimulatesAfterExhaustion, Spent, Failed, Pending,
       AttemptsLeft, Rows
  <1>8. QED
    BY <1>1, <1>4, <1>5, <1>6, <1>7 DEF SInv

-----------------------------------------------------------------------------
LEMMA InitSInv == SystemInit => SInv
  <1> SUFFICES ASSUME SystemInit PROVE SInv
    OBVIOUS
  <1>1. IInv /\ cursor = 0
    BY InitIInv DEF SystemInit, Init
  <1>2. Rows = {} /\ Len(journal) = 0
    BY DEF SystemInit, Rows
  <1>3. WorkerTypeOK
    <2>1. plan.cursor = 0 /\ plan.count = 0 /\ plan.mode \in Modes /\ seen \in Outcome
      BY DEF SystemInit, NoPlan, Modes, Outcome
    <2>2. forced \in BOOLEAN /\ resent \in BOOLEAN
      BY Zenon DEF SystemInit
    <2>3. faults \in 0..MaxFaults /\ row \in 0..Len(journal) /\ pc = "idle"
      BY <1>2, ExecutorAssumption DEF SystemInit
    <2>4. QED
      BY <1>2, <2>1, <2>2, <2>3 DEF SystemInit, WorkerTypeOK
  <1>4. LastOnly /\ Truthful /\ FlyingIsOpen
    BY <1>2 DEF LastOnly, Truthful, FlyingIsOpen, SystemInit
  <1>5. Position
    BY DEF SystemInit, Position, Working, Planning
  <1>6. Partition
    <2>1. Paid = {} /\ Cardinality(Paid) = 0
      BY <1>2, FS_EmptySet DEF Paid
    <2>2. QED
      BY <1>1, <2>1 DEF Partition
  <1>7. WithinLimits
    <2>1. Failed = {} /\ Pending = {} /\ Cardinality(Failed) = 0
      BY <1>2, FS_EmptySet DEF Failed, Pending
    <2>2. QED
      BY <1>2, <2>1, ExecutorAssumption, QueueAssumption DEF WithinLimits
  <1>8. Simulating
    BY <1>2 DEF Simulating, SimulatesAfterExhaustion, SystemInit
  <1>9. QED
    BY <1>1, <1>3, <1>4, <1>5, <1>6, <1>7, <1>8 DEF SInv

LEMMA NextSInv == SInv /\ [SystemNext]_systemVars => SInv'
  <1> SUFFICES ASSUME SInv, [SystemNext]_systemVars PROVE SInv'
    OBVIOUS
  <1>1. CASE Step
    BY <1>1, BeginStep, InspectStep, PlanStep, SignStep, SendStep, SeenStep, FailStep, JudgeStep
       DEF Step
  <1>2. CASE Crash \/ \E i \in inflight : Expire(i)
    BY <1>2, FaultStep
  <1>3. CASE Deliveries
    BY <1>3, DeliverStep DEF Deliveries
  <1>4. CASE (Owner \/ Environment) /\ UNCHANGED <<journal, forced, inflight, landed, worker, faults>>
    BY <1>4, OutsideStep
  <1>5. CASE UNCHANGED systemVars
    <2>1. UNCHANGED <<chain, journal, forced, inflight, landed, faults>>
      BY <1>5 DEF systemVars
    <2>2. pc' = pc /\ row' = row /\ seen' = seen /\ plan' = plan /\ resent' = resent
      BY <1>5 DEF systemVars, worker
    <2>3. WorkerTypeOK'
      BY <2>1, <2>2 DEF SInv, WorkerTypeOK, Rows
    <2>4. Position'
      BY <2>1, <2>2 DEF SInv, Position, Settled, Rows, Pending, AttemptsLeft, Failed, chain, queue,
         Length
    <2>5. QED
      BY <2>1, <2>2, <2>3, <2>4, WorkerStep DEF SInv, Simulating
  <1>6. QED
    BY <1>1, <1>2, <1>3, <1>4, <1>5 DEF SystemNext

LEMMA SystemInvariance == SystemSpec => []SInv
  BY InitSInv, NextSInv, PTL DEF SystemSpec

\* One transaction at a time, and the journal is truthful about the settled ones
\* (reconcile_pending before anything is signed), in spite of crashes, lost
\* answers and rebroadcasts.
THEOREM OneInFlightCorrect == SystemSpec => []OneInFlight
  <1>1. SInv => OneInFlight
    BY DEF SInv, LastOnly, Truthful, OneInFlight
  <1>2. QED
    BY <1>1, SystemInvariance, PTL

\* Every payment belongs to exactly one signature of the journal (app.py's step
\* journals before it sends), and the limits survive restarts.
THEOREM BooksCorrect == SystemSpec => []BooksComplete
  <1>1. SInv => BooksComplete
    <2> SUFFICES ASSUME SInv PROVE BooksComplete
      OBVIOUS
    <2>1. ASSUME NEW k \in 1..cursor
          PROVE  /\ Cardinality({i \in Rows : landed[i] = "ok" /\ Covers(i, k)}) = 1
                 /\ Pending = {} => \E i \in Confirmed : Covers(i, k)
      <3>1. PICK i \in Paid : Covers(i, k)
        BY DEF SInv, Partition
      <3>2. {j \in Rows : landed[j] = "ok" /\ Covers(j, k)} = {i}
        BY <3>1 DEF SInv, Partition, Paid
      <3>3. Cardinality({i}) = 1
        BY FS_Singleton
      <3>4. Pending = {} => i \in Confirmed
        BY RowsFact DEF SInv, Pending, Confirmed, Paid, Truthful, Settled, Row, Phases
      <3>5. QED
        BY <3>1, <3>2, <3>3, <3>4
    <2>2. QED
      BY <2>1 DEF SInv, WithinLimits, BooksComplete
  <1>2. QED
    BY <1>1, SystemInvariance, PTL

\* A budget failure forces simulation, also over a crash before the setting.
THEOREM SimulationCorrect == SystemSpec => []SimulatesAfterExhaustion
  <1>1. SInv => SimulatesAfterExhaustion
    BY DEF SInv, Simulating
  <1>2. QED
    BY <1>1, SystemInvariance, PTL

\* The chain under the worker, the network and its faults behaves as the program's
\* own specification says, so what PayoutQueueProofs proves holds of it: each
\* recipient is paid exactly once (app.py's step with execute_batch).
THEOREM SystemImplementsQueue == SystemSpec => Spec
  <1>1. SystemInit => Init
    BY DEF SystemInit
  <1>2. SInv /\ [SystemNext]_systemVars => [Next]_vars
    <2> SUFFICES ASSUME SInv, [SystemNext]_systemVars PROVE [Next]_vars
      OBVIOUS
    <2>1. CASE UNCHANGED chain
      BY <2>1 DEF chain, vars
    <2>2. CASE Owner \/ Environment
      BY <2>2 DEF Next
    <2>3. ASSUME NEW i \in inflight, Deliver(i) PROVE UNCHANGED chain \/ Next
      BY <2>3, DeliveryIsExecution DEF Deliver
    <2>4. CASE Step
      BY <2>1, <2>4 DEF Step, Begin, Inspect, Plan, NoCandidate, Sign, Send, Sent, Record, Fail,
         Lookup, Judge, Resend
    <2>5. CASE Crash \/ (\E i \in inflight : Expire(i)) \/ UNCHANGED systemVars
      BY <2>1, <2>5 DEF Crash, Expire, systemVars
    <2>6. QED
      BY <2>1, <2>2, <2>3, <2>4, <2>5 DEF SystemNext, Deliveries
  <1>3. QED
    BY <1>1, <1>2, SystemInvariance, PTL DEF SystemSpec, Spec

\* Beside the worker, its network and its crashes each recipient is paid exactly
\* the approved amount, in order and once (app.py's step with execute_batch).
COROLLARY PaidOnce == SystemSpec => []PaidExactly
  BY SystemImplementsQueue, PaidExactlyCorrect, PTL

\* So is it of the promise itself: beside crashes, lost answers, rebroadcasts and
\* a hostile network the worker meets the approved obligations in order, each
\* once, and a refund ends them (PayoutLedger).
COROLLARY SystemImplementsLedger == SystemSpec => LedgerSpec
  BY SystemImplementsQueue, ImplementsLedger, PTL

\* A queue costs a bounded number of signatures, however often the process dies
\* and is started again: one for each payment and one for each attempt that may
\* fail (step counts the failed payout_steps before it plans, app.py 861-866).
SignaturesBounded == Len(journal) <= MaxPayments + MaxAttempts

THEOREM SignaturesBoundedCorrect == SystemSpec => []SignaturesBounded
  <1>1. SInv => SignaturesBounded
    BY DEF SInv, WithinLimits, SignaturesBounded
  <1>2. QED
    BY <1>1, SystemInvariance, PTL

-----------------------------------------------------------------------------
(* The journal only grows.                                                 *)

\* What a step leaves of a row: what was signed, the status of a settled row,
\* and an outcome that is on the chain.
RowKept(i) ==
    /\ i <= Len(journal')
    /\ journal'[i].cursor = journal[i].cursor /\ journal'[i].count = journal[i].count
    /\ journal'[i].mode = journal[i].mode
    /\ Settled(i) => journal'[i] = journal[i]
    /\ landed[i] # "none" => landed'[i] = landed[i]

LEMMA NothingWritten ==
    ASSUME SInv, UNCHANGED <<journal, landed>>
    PROVE  \A i \in Rows : RowKept(i)
  BY RowsFact DEF SInv, RowKept

\* The row in hand is open, so another status than before is no loss.
LEMMA RowWritten ==
    ASSUME SInv, pc \in Working, NEW r, journal' = [journal EXCEPT ![row] = r], UNCHANGED landed,
           r.cursor = journal[row].cursor, r.count = journal[row].count, r.mode = journal[row].mode
    PROVE  \A i \in Rows : RowKept(i)
  <1>1. row \in Rows /\ ~Settled(row)
    BY DEF SInv, Position
  <1>2. Len(journal') = Len(journal) /\ Rows = 1..Len(journal) /\ Len(journal) \in Nat
    BY RowsFact DEF SInv, WorkerTypeOK
  <1>3. \A i \in Rows : journal'[i] = IF i = row THEN r ELSE journal[i]
    BY <1>1 DEF SInv, WorkerTypeOK, Rows
  <1>4. QED
    BY <1>1, <1>2, <1>3 DEF RowKept

LEMMA SettledWritten ==
    ASSUME SInv, pc \in Working, NEW phase \in Phases, journal' = Settle(row, phase), UNCHANGED landed
    PROVE  \A i \in Rows : RowKept(i)
  <1>1. row \in Rows
    BY DEF SInv, Position
  <1> DEFINE r == [journal[row] EXCEPT !.phase = phase, !.resends = 0]
  <1>2. /\ journal' = [journal EXCEPT ![row] = r] /\ r.cursor = journal[row].cursor
        /\ r.count = journal[row].count /\ r.mode = journal[row].mode
    BY <1>1, SettleFact
  <1> HIDE DEF r
  <1>3. QED
    BY <1>2, RowWritten

LEMMA UncertainWritten ==
    ASSUME SInv, pc \in Working, journal' = [journal EXCEPT ![row].phase = "uncertain"],
           UNCHANGED landed
    PROVE  \A i \in Rows : RowKept(i)
  <1>1. journal[row] \in Row
    BY RowsFact DEF SInv, Position
  <1> DEFINE r == [journal[row] EXCEPT !.phase = "uncertain"]
  <1>2. /\ r.cursor = journal[row].cursor /\ r.count = journal[row].count
        /\ r.mode = journal[row].mode /\ journal' = [journal EXCEPT ![row] = r]
    BY <1>1 DEF Row
  <1> HIDE DEF r
  <1>3. QED
    BY <1>2, RowWritten

LEMMA ConfirmWrites ==
    ASSUME SInv, pc \in {"record", "judge"}, NEW verified, Confirm(verified), UNCHANGED landed
    PROVE  \A i \in Rows : RowKept(i)
  BY NothingWritten, SettledWritten DEF Confirm, Phases, Working

LEMMA AwaitWrites ==
    ASSUME SInv, pc = "judge", AwaitOutcome, UNCHANGED landed
    PROVE  \A i \in Rows : RowKept(i)
  <1>1. pc \in Working /\ journal[row] \in Row
    BY RowsFact DEF SInv, Position, Working
  <1>2. CASE journal' = [journal EXCEPT ![row].resends = @ + 1]
    <2> DEFINE r == [journal[row] EXCEPT !.resends = @ + 1]
    <2>1. /\ r.cursor = journal[row].cursor /\ r.count = journal[row].count
          /\ r.mode = journal[row].mode /\ journal' = [journal EXCEPT ![row] = r]
      BY <1>1, <1>2 DEF Row
    <2> HIDE DEF r
    <2>2. QED
      BY <1>1, <2>1, RowWritten
  <1>3. CASE journal' = Unresolved
    BY <1>1, <1>3, UncertainWritten DEF Unresolved
  <1>4. QED
    BY <1>2, <1>3 DEF AwaitOutcome

LEMMA SignWrites ==
    ASSUME SInv, Sign
    PROVE  \A i \in Rows : RowKept(i)
  <1>1. CASE UNCHANGED <<journal, landed>>
    BY <1>1, NothingWritten
  <1>2. ASSUME NEW r, journal' = Append(journal, r), landed' = Append(landed, "none")
        PROVE  \A i \in Rows : RowKept(i)
    <2>1. /\ Len(journal) \in Nat /\ Len(landed) = Len(journal) /\ Rows = 1..Len(journal)
          /\ journal \in Seq(Row) /\ landed \in Seq(Outcome)
      BY RowsFact DEF SInv, WorkerTypeOK
    <2>2. Len(journal') = Len(journal) + 1
      BY <1>2, <2>1
    <2>3. \A i \in 1..Len(journal) : journal'[i] = journal[i] /\ landed'[i] = landed[i]
      BY <1>2, <2>1
    <2>4. QED
      BY <2>1, <2>2, <2>3 DEF RowKept
  <1>3. QED
    BY <1>1, <1>2 DEF Sign

LEMMA DeliverWrites ==
    ASSUME SInv, NEW i \in inflight, Deliver(i)
    PROVE  \A x \in Rows : RowKept(x)
  <1>1. landed[i] = "none" /\ i \in Rows /\ UNCHANGED journal
    BY DEF SInv, FlyingIsOpen, WorkerTypeOK, Deliver
  <1>2. PICK outcome : landed' = [landed EXCEPT ![i] = outcome]
    BY DEF Deliver
  <1>3. \A x \in Rows : landed[x] # "none" => landed'[x] = landed[x]
    BY <1>1, <1>2 DEF SInv, WorkerTypeOK, Rows
  <1>4. QED
    BY <1>1, <1>3, RowsFact DEF SInv, RowKept

LEMMA StepWrites ==
    ASSUME SInv, [SystemNext]_systemVars
    PROVE  \A i \in Rows : RowKept(i)
  <1>1. CASE Begin \/ Inspect \/ Plan \/ NoCandidate \/ Sent \/ Lookup \/ Resend
    BY <1>1, NothingWritten DEF Begin, Inspect, Plan, NoCandidate, Sent, Lookup, Resend
  <1>2. CASE Sign
    BY <1>2, SignWrites
  <1>3. CASE Send
    BY <1>3, NothingWritten, UncertainWritten DEF Send, Working
  <1>4. CASE Record
    <2>1. pc \in {"record", "judge"} /\ UNCHANGED landed
      BY <1>4 DEF Record
    <2>2. QED
      BY <1>4, <2>1, ConfirmWrites, NothingWritten DEF Record, NoteFailure
  <1>5. CASE Fail
    BY <1>5, SettledWritten DEF Fail, Phases, Working
  <1>6. CASE Judge
    <2>1. pc \in {"record", "judge"} /\ pc = "judge" /\ UNCHANGED landed
      BY <1>6 DEF Judge
    <2>2. QED
      BY <1>6, <2>1, ConfirmWrites, AwaitWrites, NothingWritten DEF Judge, NoteFailure
  <1>7. CASE Deliveries
    BY <1>7, DeliverWrites DEF Deliveries
  <1>8. CASE \/ Crash \/ \E i \in inflight : Expire(i)
             \/ (Owner \/ Environment) /\ UNCHANGED <<journal, forced, inflight, landed, worker, faults>>
             \/ UNCHANGED systemVars
    BY <1>8, NothingWritten DEF Crash, Expire, systemVars
  <1>9. QED
    BY <1>1, <1>2, <1>3, <1>4, <1>5, <1>6, <1>7, <1>8 DEF SystemNext, Step

\* The journal is a record: no step, crash or late answer removes a signature or
\* changes what was signed, reopens a settled one, or lets a second outcome of
\* the same signature count (payout_steps is updated by rowid, in reconcile and
\* in step, each time after an await of the network).
JournalIsKept == [][\A i \in Rows : RowKept(i)]_systemVars

THEOREM JournalIsKeptCorrect == SystemSpec => JournalIsKept
  <1>1. SInv /\ [SystemNext]_systemVars => [\A i \in Rows : RowKept(i)]_systemVars
    BY StepWrites
  <1>2. QED
    BY <1>1, SystemInvariance, PTL DEF SystemSpec, JournalIsKept
===============================================================================
