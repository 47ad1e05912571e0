----------------------------- MODULE Settlement -----------------------------
(***************************************************************************)
(* Settlement dates of bond repos (19_quantlib_demo/pledge_repo.hpp,       *)
(* outright_repo.hpp) and the dates of a bond's interest (cash_bond.hpp).  *)
(* A date is a day number; a calendar is the set B of its business days.   *)
(*                                                                         *)
(* External: QuantLib's Calendar::adjust (the first business day from d    *)
(* on) and advance by one day (the first after d).                         *)
(***************************************************************************)
EXTENDS Integers, FiniteSets

CONSTANT MaxGap         \* no market is closed for more days in a row

ASSUME GapAssumption == MaxGap \in Nat

Window(B, d) == (d .. (d + MaxGap)) \cap B

adjust(B, d) == CHOOSE e \in Window(B, d) : \A x \in Window(B, d) : e <= x

(* Calendar::adjust finds a day. *)
Opens(B, d) == \E e \in Window(B, d) : \A x \in Window(B, d) : e <= x

advance(B, d) == adjust(B, d + 1)

T0 == 0
T1 == 1

-----------------------------------------------------------------------------
(* PledgeRepo, on the calendar of the exchange. *)

PledgeFirst(B, trade_date, tn) ==
    IF tn = T0 THEN trade_date ELSE adjust(B, trade_date + tn)

PledgeExpire(B, trade_date, repo_days, speed) == adjust(B, trade_date + repo_days)

(* Mutant: the money is back on the day of the clearing. *)
CapitalOccupationDays_SameDay(B, trade_date, repo_days) ==
    adjust(B, trade_date + repo_days) - adjust(B, trade_date + 1)

CapitalOccupationDays(B, trade_date, repo_days) ==
    LET entry_date        == adjust(B, trade_date + 1)
        expired_liquidate == adjust(B, trade_date + repo_days)
        entry_date_back   == advance(B, expired_liquidate)
    IN  entry_date_back - entry_date

-----------------------------------------------------------------------------
(* OutRightRepo, on the interbank calendar. *)

OutrightFirst(B, trade_date, speed) == adjust(B, trade_date + speed)

(* Mutant: back to the last business day before. *)
OutrightExpire_Preceding(B, first_settlement_date, repo_days) ==
    LET d == first_settlement_date + repo_days
    IN  CHOOSE e \in (d - MaxGap .. d) \cap B : \A x \in (d - MaxGap .. d) \cap B : x <= e

OutrightExpire(B, first_settlement_date, repo_days) ==
    adjust(B, first_settlement_date + repo_days)

OutrightOccupationDays(B, trade_date, repo_days, speed) ==
    LET first == OutrightFirst(B, trade_date, speed)
    IN  OutrightExpire(B, first, repo_days) - first

-----------------------------------------------------------------------------
(* CashBond.  A coupon is paid on the first business day from its date on. *)

CalcSettlementDate(B, trade_date, speed) == adjust(B, trade_date + speed)

Payments(B, coupons) == {adjust(B, c) : c \in coupons}

Latest(S)   == CHOOSE p \in S : \A q \in S : q <= p
Earliest(S) == CHOOSE p \in S : \A q \in S : p <= q

(* Mutant: the next payment instead of the last. *)
BondPrevCashFlowDate_Next(B, coupons, today, speed) ==
    Earliest({p \in Payments(B, coupons) : p > adjust(B, today + speed)})

(* QuantLib's previousCashFlowDate: before the settlement of a trade made  *)
(* on the day the program runs.                                            *)
BondPrevCashFlowDate(B, coupons, today, speed) ==
    Latest({p \in Payments(B, coupons) : p <= adjust(B, today + speed)})

(* QuantLib's nextCashFlowDate, after the same settlement. *)
BondNextCashFlowDate(B, coupons, today, speed) ==
    Earliest({p \in Payments(B, coupons) : p > adjust(B, today + speed)})

(* interest_days of BondAccruedInterest. *)
AccruedDays(B, coupons, today, trade_date, speed) ==
    CalcSettlementDate(B, trade_date, speed) - BondPrevCashFlowDate(B, coupons, today, speed)

(* days of CalcExpiredInterest: held until maturity. *)
ExpiredDays(B, trade_date, speed, maturity_date) ==
    maturity_date - CalcSettlementDate(B, trade_date, speed)
=============================================================================
