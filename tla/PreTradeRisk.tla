---- MODULE PreTradeRisk ----
(***************************************************************************)
(* The seven HARD rules of app/risk/pre_trade_risk_engine.py as pure       *)
(* operators.  The engine reads the database and changes nothing, so what  *)
(* it sees is passed in: the account (`book`), the candidate, and the      *)
(* other candidates of the same account that are in an active status.      *)
(* Amounts are integers: the code uses Decimal throughout, so a sum or a   *)
(* comparison of two amounts rounds nothing away.                          *)
(***************************************************************************)
EXTENDS Integers, FiniteSetsExt, Functions

CONSTANTS
  MaxOrderAmount,      \* Settings.max_order_amount
  MaxDailyOrderAmount, \* Settings.max_daily_order_amount
  MaxDailyLossAmount,  \* Settings.max_daily_loss_amount
  MaxRatioNum,         \* Settings.max_position_ratio is the
  MaxRatioDen          \*   fraction MaxRatioNum / MaxRatioDen

ASSUME RiskLimits ==
  /\ MaxOrderAmount \in Nat
  /\ MaxDailyOrderAmount \in Nat
  /\ MaxDailyLossAmount \in Nat
  /\ MaxRatioNum \in Nat
  /\ MaxRatioDen \in Nat \ {0}

(***************************************************************************)
(* ACTIVE_CANDIDATE_STATUSES.  EXECUTED_PAPER is not among them: a         *)
(* candidate stops counting towards the caps when its order is placed.     *)
(***************************************************************************)
\* Mutant: what waits for approval does not count.
ActiveStatusesWithoutPending == {"DRAFT", "RISK_CHECKING", "APPROVED"}
ActiveStatuses == {"DRAFT", "RISK_CHECKING", "PENDING_APPROVAL", "APPROVED"}

(***************************************************************************)
(* A book is what the engine reads of one VirtualAccount:                  *)
(*   enabled   paper_trading_enabled                                       *)
(*   value     total_value of the latest snapshot, or else cash_balance    *)
(*   held      market value of the position, for each symbol               *)
(*   realized  realized_pnl of the latest snapshot, 0 when there is none   *)
(*             (the rule passes on 0 and on a missing snapshot alike)      *)
(*                                                                         *)
(* A candidate has sym, side, qty and amt; one of the others carries its   *)
(* id as well (two rows that agree on the rest are still two rows), and    *)
(* `today` (created on the current KST date) and `recent` (created within  *)
(* DUPLICATE_RECENT_WINDOW).                                               *)
(***************************************************************************)
AmountOf(others) == SumFunctionOnSet([o \in others |-> o.amt], others)

AccountPaperEnabled(book) == book.enabled

PerSymbolLimit(cand, others) ==
  AmountOf({o \in others : o.sym = cand.sym}) + cand.amt <= MaxOrderAmount

DailyTotalLimit(cand, others) ==
  AmountOf({o \in others : o.today}) + cand.amt <= MaxDailyOrderAmount

\* (held + amt) / value <= num / den, and a non-positive value is a violation.
PositionRatioLimit(book, cand) ==
  cand.side = "BUY" =>
    /\ book.value > 0
    /\ (book.held[cand.sym] + cand.amt) * MaxRatioDen <= MaxRatioNum * book.value

DailyLossLimit(book) == book.realized >= -MaxDailyLossAmount

DuplicateRecent(cand, others) ==
  ~ \E o \in others : /\ o.recent
                      /\ o.sym = cand.sym
                      /\ o.side = cand.side
                      /\ o.qty = cand.qty

(***************************************************************************)
(* evaluate: every rule runs, the violations are collected, and the        *)
(* candidate passes when there are none.                                   *)
(***************************************************************************)
RiskPasses(book, cand, others, killSwitch) ==
  /\ AccountPaperEnabled(book)
  /\ ~killSwitch
  /\ PerSymbolLimit(cand, others)
  /\ DailyTotalLimit(cand, others)
  /\ PositionRatioLimit(book, cand)
  /\ DailyLossLimit(book)
  /\ DuplicateRecent(cand, others)
====
