---------------------------- MODULE WagerDomain ----------------------------
(***************************************************************************)
(* The rules of the domain as pure operators: kinds, statuses and their    *)
(* transitions, which kind reverses which, the direction money moves in,   *)
(* and what Wallet.move accepts (internal/domain).  Money is its minor     *)
(* units; a currency is an identifier compared for equality.               *)
(***************************************************************************)
EXTENDS Integers, Sequences

CONSTANT MaxMinor   \* the largest Money in minor units; MaxInt64 in the code

ASSUME MaxMinorAssumption == MaxMinor \in Nat \ {0}

Money == 0 .. MaxMinor

Kinds == {"OPENING", "BET", "WIN", "LOSS", "REFUND", "ROLLBACK"}

IsReversal(kind) == kind \in {"REFUND", "ROLLBACK"}

MovesMoney(kind) == kind # "LOSS"

\* validateAmount: LOSS carries zero and only zero, every other kind is positive.
ValidAmount(kind, amount) == IF kind = "LOSS" THEN amount = 0 ELSE amount > 0

Terminal == {"PROCESSED", "REJECTED", "FAILED"}

Statuses == {"PENDING", "PENDING_REFERENCE"} \cup Terminal

\* allowedTransitions, plus RescheduleReference which keeps PENDING_REFERENCE.
AllowedTransitions ==
    ({"PENDING"} \X ({"PENDING_REFERENCE"} \cup Terminal))
      \cup ({"PENDING_REFERENCE"} \X Terminal)

Opposite(direction) == IF direction = "CREDIT" THEN "DEBIT" ELSE "CREDIT"

\* Kind.Direction; "NONE" stands for the kinds that have no direction of their own.
Direction(kind) ==
    CASE kind \in {"OPENING", "WIN", "REFUND"} -> "CREDIT"
      [] kind = "BET" -> "DEBIT"
      [] OTHER -> "NONE"

CanReverse(kind, target) ==
    \/ kind = "REFUND" /\ target = "BET"
    \/ kind = "ROLLBACK" /\ target \in {"BET", "WIN", "REFUND"}

ReversalDirection(target) == Opposite(Direction(target))

\* The ledger entry's effect on the balance: the direction carries the sign.
Signed(direction, amount) == IF direction = "CREDIT" THEN amount ELSE -amount

\* The failure codes an operation can be refused with.
MoveCodes == {"NON_POSITIVE_AMOUNT", "CURRENCY_MISMATCH", "AMOUNT_OVERFLOW",
              "INSUFFICIENT_FUNDS"}

FailureCodes == MoveCodes \cup
    {"REVERSAL_EXCEEDS_BALANCE", "REFERENCE_NOT_FOUND", "REFERENCE_NOT_REVERSIBLE",
     "REFERENCE_MISMATCH", "REFERENCE_AMOUNT_MISMATCH", "ALREADY_REVERSED"}

\* Faults the runs must notice: move without its overflow check, without its funds check.
MoveCodeUnboundedAbove(wallet, direction, amount, currency) ==
    IF amount <= 0 THEN "NON_POSITIVE_AMOUNT"
    ELSE IF currency # wallet.currency THEN "CURRENCY_MISMATCH"
    ELSE IF wallet.balance + Signed(direction, amount) < 0 THEN "INSUFFICIENT_FUNDS"
    ELSE "OK"

MoveCodeOverdraft(wallet, direction, amount, currency) ==
    IF amount <= 0 THEN "NON_POSITIVE_AMOUNT"
    ELSE IF currency # wallet.currency THEN "CURRENCY_MISMATCH"
    ELSE IF wallet.balance + Signed(direction, amount) > MaxMinor THEN "AMOUNT_OVERFLOW"
    ELSE "OK"

\* Wallet.move in the order of its checks: the domain code it fails with, or "OK".
MoveCode(wallet, direction, amount, currency) ==
    LET after == wallet.balance + Signed(direction, amount)
    IN  IF amount <= 0 THEN "NON_POSITIVE_AMOUNT"
        ELSE IF currency # wallet.currency THEN "CURRENCY_MISMATCH"
        ELSE IF after > MaxMinor THEN "AMOUNT_OVERFLOW"
        ELSE IF after < 0 THEN "INSUFFICIENT_FUNDS"
        ELSE "OK"

\* eventsForOutcome: the events an outcome is announced with, in order.
EventTypes == {"WagerTransactionProcessed", "WalletBalanceChanged",
               "WagerTransactionRejected", "WagerTransactionPendingReference"}

\* Fault: a rejection nobody is told of.
EventsForOutcomeSilentRejection(status, moved) ==
    CASE status = "PROCESSED" ->
             IF moved THEN <<"WagerTransactionProcessed", "WalletBalanceChanged">>
             ELSE <<"WagerTransactionProcessed">>
      [] status = "PENDING_REFERENCE" -> <<"WagerTransactionPendingReference">>
      [] OTHER -> << >>

EventsForOutcome(status, moved) ==
    CASE status = "PROCESSED" ->
             IF moved THEN <<"WagerTransactionProcessed", "WalletBalanceChanged">>
             ELSE <<"WagerTransactionProcessed">>
      [] status = "REJECTED" -> <<"WagerTransactionRejected">>
      [] status = "PENDING_REFERENCE" -> <<"WagerTransactionPendingReference">>
      [] OTHER -> << >>
=============================================================================
