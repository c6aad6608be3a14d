----------------------------- MODULE PayoutQueue -----------------------------
(***************************************************************************)
(* The on-chain payout program (programs/payout_queue) for one queue       *)
(* address: the queue account, its vault, and the token balances the four  *)
(* instructions move.  An instruction is atomic: it is one action, and one *)
(* that fails changes nothing.                                             *)
(*                                                                         *)
(* Owner-approved terms are recipients with running totals: due[i] is the  *)
(* sum of the first i amounts, so amount i is due[i] - due[i - 1] and the  *)
(* transfers of a batch add up to a difference.  Signatures, account       *)
(* identities and derived addresses are the actor an action belongs to: a  *)
(* transaction with a wrong signer or account fails and is no step.  The   *)
(* clock, the owner's other funds and unsolicited deposits are external.   *)
(***************************************************************************)
EXTENDS Integers, Sequences, FiniteSets

CONSTANTS
    Recipients,       \* wallets
    NoRecipient,      \* the default public key
    Terms,            \* the terms an owner may submit, valid or not
    Expiries,         \* expiry times an owner may choose
    Decisions,        \* decision ids recorded by batches
    NoDecision,       \* no batch yet
    MaxPayments,      \* MAX_PAYMENTS
    MaxBatch,         \* the largest batch
    Menu,             \* the other batch sizes the program accepts
    MaxAmount,        \* the largest u64 amount
    OwnerTokens,      \* the owner's funds before creation
    DepositTokens,    \* funds of somebody who deposits into the vault
    Openers,          \* recipients whose token account somebody else may create
    MaxTime           \* bound of the model's clock

Total(t) == t.due[Len(t.recipients)]
Amount(t, i) == t.due[i] - t.due[i - 1]

\* Before creation the account is empty.
NoTerms == [recipients |-> <<>>, due |-> [i \in {0} |-> 0]]

ASSUME QueueAssumption ==
    /\ MaxPayments \in Nat /\ MaxBatch \in Nat /\ MaxAmount \in Nat
    /\ OwnerTokens \in Nat /\ DepositTokens \in Nat
    /\ OwnerTokens + DepositTokens <= MaxAmount
    /\ MaxTime \in Nat /\ Expiries \subseteq Nat /\ Menu \subseteq Nat \ {0}
    /\ NoDecision \notin Decisions /\ NoRecipient \notin Recipients
    /\ Openers \subseteq Recipients
    /\ \A t \in Terms :
         /\ t.recipients \in Seq(Recipients \cup {NoRecipient})
         /\ t.due \in [0..Len(t.recipients) -> Nat]
         /\ t.due[0] = 0
         /\ \A i, j \in 0..Len(t.recipients) : i <= j => t.due[i] <= t.due[j]

VARIABLES
    status,           \* byte 163: "open" (0), "complete" (1), "refunded" (2); "absent" without account
    terms,            \* recipients and amounts
    expiry,
    cursor,           \* byte 160
    paidCount,        \* byte 166, checked against the cursor by load_queue
    paused,           \* byte 162
    totalPaid,        \* bytes 152..160
    lastDecision,     \* bytes 168..200
    vault,            \* tokens in the vault
    owned,            \* the owner's tokens
    received,         \* tokens each recipient got from the vault
    opened,           \* recipients with a token account
    deposits,         \* funds of the depositor
    now               \* Clock::unix_timestamp

queue == <<status, terms, expiry, cursor, paidCount, paused, totalPaid, lastDecision>>
tokens == <<vault, owned, received, opened, deposits>>
vars == <<queue, tokens, now>>

Length == Len(terms.recipients)

TypeOK ==
    /\ status \in {"absent", "open", "complete", "refunded"}
    /\ terms \in Terms \cup {NoTerms}
    /\ expiry \in Nat /\ now \in Nat
    /\ cursor \in Nat /\ paidCount \in Nat
    /\ paused \in BOOLEAN
    /\ totalPaid \in Nat /\ vault \in Nat /\ owned \in Nat /\ deposits \in Nat
    /\ lastDecision \in Decisions \cup {NoDecision}
    /\ received \in [Recipients -> Nat]
    /\ opened \subseteq Recipients

Init ==
    /\ status = "absent" /\ terms = NoTerms /\ expiry = 0
    /\ cursor = 0 /\ paidCount = 0 /\ paused = FALSE
    /\ totalPaid = 0 /\ lastDecision = NoDecision
    /\ vault = 0 /\ owned = OwnerTokens /\ deposits = DepositTokens
    /\ received = [x \in Recipients |-> 0] /\ opened = {}
    /\ now = 0

-----------------------------------------------------------------------------
\* The program.

\* Mutant: a recipient may be listed twice.
TermsWithDuplicates(t) ==
    LET n == Len(t.recipients) IN
    /\ n \in 1..MaxPayments
    /\ \A i \in 1..n : t.recipients[i] # NoRecipient
    /\ \A i \in 1..n : Amount(t, i) > 0
    /\ Total(t) <= MaxAmount

\* validate_terms
ValidTerms(t) ==
    LET n == Len(t.recipients) IN
    /\ n \in 1..MaxPayments
    /\ \A i \in 1..n : t.recipients[i] # NoRecipient
    /\ \A i, j \in 1..n : i < j => t.recipients[i] # t.recipients[j]
    /\ \A i \in 1..n : Amount(t, i) > 0
    /\ Total(t) <= MaxAmount

\* The data checks of load_queue.
Loadable ==
    /\ Length \in 1..MaxPayments
    /\ cursor <= Length
    /\ paidCount = cursor
    /\ totalPaid <= Total(terms)

\* allowed_count
AllowedCount(count, remaining) ==
    /\ count > 0 /\ count <= MaxBatch /\ count <= remaining
    /\ count \in Menu \/ count = remaining

\* The funding transfer succeeds only from the owner's tokens.
Affordable(t) == Total(t) <= owned

\* create_queue: funds the vault and writes the terms; a vault that already
\* holds deposits is accepted.
CreateQueue(t, e) ==
    /\ status = "absent"
    /\ ValidTerms(t)
    /\ e > now
    /\ Affordable(t)
    /\ owned' = owned - Total(t)
    /\ vault' = vault + Total(t)
    /\ status' = "open" /\ terms' = t /\ expiry' = e
    /\ cursor' = 0 /\ paidCount' = 0 /\ paused' = FALSE
    /\ totalPaid' = 0 /\ lastDecision' = NoDecision
    /\ UNCHANGED <<received, opened, deposits, now>>

\* execute_batch accepts a batch at this moment.
Executable(expected, count) ==
    /\ Loadable
    /\ status = "open"
    /\ ~paused
    /\ now < expiry
    /\ expected = cursor
    /\ AllowedCount(count, Length - cursor)
    /\ terms.due[cursor + count] - terms.due[cursor] <= vault
    /\ totalPaid + (terms.due[cursor + count] - terms.due[cursor]) <= Total(terms)

\* Mutant: completion is judged by the cursor from before the batch.
StatusAfterStale(reached) == IF cursor = Length THEN "complete" ELSE status

\* The last obligation completes the queue.
StatusAfter(reached) == IF reached = Length THEN "complete" ELSE status

\* execute_batch: missing accounts are created, every obligation of the batch
\* is transferred, then the queue account is written.
ExecuteBatch(expected, count, decision) ==
    LET batch == (cursor + 1)..(cursor + count)
        sum == terms.due[cursor + count] - terms.due[cursor]
    IN
    /\ Executable(expected, count)
    /\ opened' = opened \cup {terms.recipients[i] : i \in batch}
    /\ received' = [x \in Recipients |->
                      IF \E i \in batch : terms.recipients[i] = x
                      THEN received[x]
                           + Amount(terms, CHOOSE i \in batch : terms.recipients[i] = x)
                      ELSE received[x]]
    /\ vault' = vault - sum
    /\ totalPaid' = totalPaid + sum
    /\ cursor' = cursor + count
    /\ paidCount' = cursor + count
    /\ lastDecision' = decision
    /\ status' = StatusAfter(cursor + count)
    /\ UNCHANGED <<terms, expiry, paused, owned, deposits, now>>

\* set_paused
SetPaused(value) ==
    /\ Loadable
    /\ status = "open"
    /\ paused' = value
    /\ UNCHANGED <<status, terms, expiry, cursor, paidCount, totalPaid, lastDecision,
                   tokens, now>>

\* Mutant: only what is still owed is returned before the vault is emptied.
RefundOwed ==
    /\ Loadable
    /\ status = "open"
    /\ now >= expiry
    /\ owned' = owned + Total(terms) - totalPaid
    /\ vault' = 0
    /\ status' = "refunded"
    /\ paused' = TRUE
    /\ UNCHANGED <<terms, expiry, cursor, paidCount, totalPaid, lastDecision,
                   received, opened, deposits, now>>

\* refund returns the whole vault, unsolicited deposits included.
Refund ==
    /\ Loadable
    /\ status = "open"
    /\ now >= expiry
    /\ owned' = owned + vault
    /\ vault' = 0
    /\ status' = "refunded"
    /\ paused' = TRUE
    /\ UNCHANGED <<terms, expiry, cursor, paidCount, totalPaid, lastDecision,
                   received, opened, deposits, now>>

-----------------------------------------------------------------------------
\* Outside the program: somebody deposits into the vault or opens a
\* recipient's token account, and time passes.
Deposit(amount) ==
    /\ amount <= deposits
    /\ deposits' = deposits - amount
    /\ vault' = vault + amount
    /\ UNCHANGED <<queue, owned, received, opened, now>>

OpenAccount(x) ==
    /\ x \notin opened
    /\ opened' = opened \cup {x}
    /\ UNCHANGED <<queue, vault, owned, received, deposits, now>>

Tick == /\ now < MaxTime
        /\ now' = now + 1
        /\ UNCHANGED <<queue, tokens>>

Environment == \/ \E amount \in 1..DepositTokens : Deposit(amount)
               \/ \E x \in Openers : OpenAccount(x)
               \/ Tick

Owner == \/ \E t \in Terms, e \in Expiries : CreateQueue(t, e)
         \/ \E value \in BOOLEAN : SetPaused(value)
         \/ Refund

Executor == \E expected \in 0..MaxPayments, count \in 1..MaxPayments, d \in Decisions :
              ExecuteBatch(expected, count, d)

Next == Owner \/ Executor \/ Environment

Spec == Init /\ [][Next]_vars

-----------------------------------------------------------------------------
\* Properties.

\* load_queue never rejects an account the program wrote: a queue can always
\* be executed, paused or refunded as far as its own bytes go.
AlwaysLoadable == status # "absent" => Loadable

\* Every obligation before the cursor was paid its approved amount, exactly
\* once, and nobody else anything (execute_batch's cursor arithmetic).
PaidExactly ==
    /\ \A x \in Recipients :
         received[x] # 0 => \E i \in 1..cursor : terms.recipients[i] = x
    /\ \A i \in 1..cursor : received[terms.recipients[i]] = Amount(terms, i)
    /\ totalPaid = terms.due[cursor]

\* While the queue is open its vault covers everything still owed, so no batch
\* can fail for want of funds.
Solvent == status = "open" => vault >= Total(terms) - terms.due[cursor]

\* The queue is complete when and only when every obligation was paid.
CompleteIsEarned == status # "absent" => (status = "complete" <=> cursor = Length)

\* Tokens are conserved, and after a refund the owner is short of nothing but
\* what approved recipients received.
OwnerMadeWhole ==
    /\ owned + vault + totalPaid + deposits = OwnerTokens + DepositTokens
    /\ status = "refunded" => owned >= OwnerTokens - totalPaid

\* A terminal queue is a tombstone, and approved terms never change: no later
\* instruction pays from it, reopens it or creates it again.
TombstoneKept ==
    /\ status \in {"complete", "refunded"} => UNCHANGED <<queue, received, owned>>
    /\ status # "absent" => UNCHANGED <<terms, expiry>>
TombstoneIsFinal == [][TombstoneKept]_vars

\* The queue implements the ledger: an obligation is met when its recipient
\* received the amount.
Ledger == INSTANCE PayoutLedger WITH
            length <- Length,
            met <- {i \in 1..Length : received[terms.recipients[i]] = Amount(terms, i)},
            phase <- status
LedgerSpec == Ledger!Spec
==============================================================================
