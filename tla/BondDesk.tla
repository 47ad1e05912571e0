------------------------------ MODULE BondDesk ------------------------------
(***************************************************************************)
(* A desk that asks the calculators of 19_quantlib_demo for a quote, on    *)
(* any day: pledged repos on the exchange, outright repos in the           *)
(* interbank market, and the accrued interest of a bond with monthly       *)
(* coupons (the one of CashBond::run).  The program runs on the day today; *)
(* a repo is traded that day, a bond may be asked about for a trade of an  *)
(* earlier or a later day.                                                 *)
(***************************************************************************)
EXTENDS Settlement, ExChina

CONSTANTS FirstDay, LastDay,    \* the days the desk is open (bounds)
          Lags                  \* from today to the day of a bond trade

(* No market is closed for longer than MaxGap days while the desk needs    *)
(* it: the longest terms end within 400 days.                              *)
ASSUME CalendarAssumption ==
    /\ FirstDay \in Nat /\ LastDay \in Nat /\ MaxGap <= 30
    /\ SSE \subseteq Int /\ IB \subseteq Int
    /\ \A d \in FirstDay..(LastDay + 400) : Opens(SSE, d) /\ Opens(IB, d)

VARIABLES today, quote

vars == <<today, quote>>

PledgeDays   == {1, 2, 3, 4, 7, 14, 28, 91, 182}
OutrightDays == {1, 2, 7, 8, 14, 15, 21, 22, 30, 31, 60, 61, 90, 91, 120, 121, 180,
                 181, 270, 271, 365}

(* The bond of CashBond::run: issued on 2019-05-23, a coupon every month   *)
(* (those a trade of 2019 meets), due on 2029-05-23.                       *)
Coupons       == {Date(2019, m, 23) : m \in 6..12} \cup {Date(2020, m, 23) : m \in 1..11}
maturity_date == Date(2029, 5, 23)

(* The coupons the model has reach beyond the settlement of every trade. *)
CouponsReach ==
    /\ Coupons \subseteq FirstDay..(LastDay + 400)
    /\ \E c \in Coupons : c > LastDay + 1 + MaxGap

ASSUME CouponsAreEnough == CouponsReach

(* The working weekends are weekends on which the exchanges are closed. *)
ASSUME WorkingWeekendsAreWeekends == \A d \in WorkingWeekends : Weekend(d)

NoQuote == [kind |-> "none"]

Init == today \in FirstDay..LastDay /\ quote = NoQuote

-----------------------------------------------------------------------------
(* The products, as the enumerators' numbers. *)

(* Exchange::SSE::convert_days_to_enum, and SZSE's. *)
SseProduct(days) ==
    LET terms == <<1, 2, 3, 4, 7, 14, 28, 91, 182>>
    IN  IF \E i \in DOMAIN terms : terms[i] = days
        THEN CHOOSE i \in DOMAIN terms : terms[i] = days ELSE 0

IbNames == <<"R001", "R007", "R014", "R021", "R1M", "R2M", "R3M", "R4M", "R6M", "R9M", "R1Y">>

(* The longest term of each product. *)
IbTerms == <<1, 7, 14, 21, 30, 60, 90, 120, 180, 270, 365>>

(* Exchange::IB::convert_days_to_enum. *)
IbProduct(days) ==
    IF days \in 1..365
    THEN CHOOSE i \in DOMAIN IbTerms :
             days <= IbTerms[i] /\ \A j \in 1..(i - 1) : IbTerms[j] < days
    ELSE 0

(* outright_repo_to_string. *)
outright_repo_to_string(type) ==
    <<"UNKNOWN", "R001", "R007", "R014", "R004", "R021", "R1M", "R2M", "R3M", "R4M",
      "R6M", "R9M", "R1Y">>[type + 1]

-----------------------------------------------------------------------------
PledgeQuote(n, speed) ==
    /\ today \in SSE /\ quote = NoQuote
    /\ quote' = [kind     |-> "pledge", term |-> n, speed |-> speed,
                 product  |-> SseProduct(n),
                 first    |-> PledgeFirst(SSE, today, speed),
                 expire   |-> PledgeExpire(SSE, today, n, speed),
                 occupied |-> CapitalOccupationDays(SSE, today, n)]
    /\ UNCHANGED today

OutrightQuote(n, speed) ==
    /\ today \in IB /\ quote = NoQuote
    /\ LET first == OutrightFirst(IB, today, speed) IN
       quote' = [kind     |-> "outright", term |-> n, speed |-> speed,
                 product  |-> IbProduct(n),
                 first    |-> first,
                 expire   |-> OutrightExpire(IB, first, n),
                 occupied |-> OutrightOccupationDays(IB, today, n, speed)]
    /\ UNCHANGED today

AccruedQuote(trade, speed) ==
    /\ quote = NoQuote /\ trade \in SSE
    /\ \E p \in Payments(SSE, Coupons) : p <= today /\ p <= trade
    /\ quote' = [kind |-> "accrued", trade |-> trade, speed |-> speed,
                 next |-> BondNextCashFlowDate(SSE, Coupons, today, speed),
                 prev |-> BondPrevCashFlowDate(SSE, Coupons, today, speed),
                 days |-> AccruedDays(SSE, Coupons, today, trade, speed),
                 held |-> ExpiredDays(SSE, trade, speed, maturity_date)]
    /\ UNCHANGED today

Next == \E speed \in {T0, T1} :
            \/ \E n \in PledgeDays : PledgeQuote(n, speed)
            \/ \E n \in OutrightDays : OutrightQuote(n, speed)
            \/ \E lag \in Lags : AccruedQuote(today + lag, speed)

Spec == Init /\ [][Next]_vars

-----------------------------------------------------------------------------
IsRepo == quote.kind \in {"pledge", "outright"}

TypeOK ==
    /\ today \in FirstDay..LastDay
    /\ \/ quote = NoQuote
       \/ quote.kind = "accrued" /\ quote.days \in Int
       \/ /\ IsRepo
          /\ quote.product \in 1..(IF quote.kind = "pledge" THEN 9 ELSE 11)
          /\ quote.first \in Nat /\ quote.expire \in Nat /\ quote.occupied \in Nat

(* The formula in the comment of CapitalOccupationDays                     *)
(* (pledge_repo.hpp:62): the days a pledged repo holds the money are the   *)
(* calendar days from its first delivery, the business day after the       *)
(* trade, up to, and without, its last, the business day after it clears.  *)
OccupiedIsDayCount ==
    quote.kind = "pledge" =>
        LET After(d)  == CHOOSE e \in SSE \cap ((d + 1)..(d + 1 + MaxGap)) :
                             \A x \in (d + 1)..(e - 1) : x \notin SSE
            delivered == After(today)
            returned  == After(IF today + quote.term \in SSE THEN today + quote.term
                                                              ELSE After(today + quote.term))
        IN  quote.occupied = Cardinality({d \in today..(returned - 1) : d >= delivered})

(* The answers PledgeRepo::run expects (pledge_repo.hpp:126, 135, 146). *)
Terms    == <<1, 2, 3, 4, 7, 14, 28, 91, 182>>
Expected == Date(2019, 9, 25) :> <<1,  4, 12, 12, 13, 14, 28, 91, 182>>
         @@ Date(2019, 9, 26) :> <<3, 11, 11, 11, 12, 14, 28, 91, 182>>
         @@ Date(2019, 9, 27) :> <<8,  8,  8,  9,  9, 14, 28, 91, 182>>

TestAnswers ==
    quote.kind = "pledge" /\ today \in DOMAIN Expected =>
        \A i \in DOMAIN Terms : Terms[i] = quote.term => quote.occupied = Expected[today][i]

(* Money moves on business days only: of the exchange, or, for an outright *)
(* repo, of the interbank market with its working weekends.                *)
SettlesOnBusinessDays ==
    IsRepo => LET B == IF quote.kind = "pledge" THEN SSE ELSE IB
              IN  quote.first \in B /\ quote.expire \in B

(* An outright repo is never shorter than its term, and longer only by one *)
(* closure of the market.                                                  *)
TermKept ==
    quote.kind = "outright" =>
        /\ quote.occupied \in quote.term..(quote.term + MaxGap)
        /\ quote.first <= quote.expire

(* The comment of BondAccruedInterest (cash_bond.hpp:239): interest        *)
(* accrues from the last payment before the settlement of the trade; the   *)
(* trade settles within the coupon period the other two answers bound, and *)
(* what has accrued and what is left until maturity make up the rest of    *)
(* the bond's life.                                                        *)
AccruesFromLastPayment ==
    quote.kind = "accrued" =>
        LET settle == adjust(SSE, quote.trade + quote.speed)
            last   == Latest({p \in Payments(SSE, Coupons) : p <= settle})
        IN  /\ quote.days = settle - last
            /\ Payments(SSE, Coupons) \cap (quote.prev + 1)..(quote.next - 1) = {}
            /\ quote.prev <= settle /\ settle < quote.next
            /\ quote.days + quote.held = maturity_date - last

(* The comments of the enumerators (dict_def.hpp:134-144): a product is    *)
(* printed under the name its number stands for.                           *)
NamesAgree ==
    quote.kind = "outright" => outright_repo_to_string(quote.product) = IbNames[quote.product]

(* The README (19_quantlib_demo/README.md:27): a pledged repo on the       *)
(* exchange expires at the trade date + (T+1) + the term, put off to a     *)
(* business day.                                                           *)
ExpiresAsDocumented ==
    quote.kind = "pledge" => quote.expire = adjust(SSE, today + T1 + quote.term)
=============================================================================
