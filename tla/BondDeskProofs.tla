--------------------------- MODULE BondDeskProofs ---------------------------
(***************************************************************************)
(* What the settlement dates promise on every calendar that is never       *)
(* closed for more than MaxGap days, and the desk's invariants from it.    *)
(***************************************************************************)
EXTENDS BondDesk, FiniteSetTheorems, WellFoundedInduction, TLAPS

(* adjust is the first business day from d on, at most MaxGap days later. *)
LEMMA AdjustFirst ==
    ASSUME NEW B \in SUBSET Int, NEW d \in Int, Opens(B, d)
    PROVE  /\ adjust(B, d) \in B /\ adjust(B, d) \in Int
           /\ d <= adjust(B, d) /\ adjust(B, d) <= d + MaxGap
           /\ \A x \in B : d <= x => adjust(B, d) <= x
  <1> DEFINE e == adjust(B, d)
  <1>1. e \in Window(B, d) /\ \A x \in Window(B, d) : e <= x
    BY Zenon DEF Opens, adjust
  <1>2. e \in B /\ e \in Int /\ d <= e /\ e <= d + MaxGap
    BY <1>1, GapAssumption DEF Window
  <1>3. ASSUME NEW x \in B, d <= x PROVE e <= x
    <2>1. CASE x <= d + MaxGap
      BY <1>1, <1>3, <2>1, GapAssumption DEF Window
    <2>2. CASE x > d + MaxGap
      BY <1>2, <2>2, GapAssumption
    <2> QED
      BY <2>1, <2>2, GapAssumption
  <1> QED
    BY <1>2, <1>3, Zenon

(* A later day is never adjusted to an earlier one. *)
LEMMA AdjustMonotone ==
    ASSUME NEW B \in SUBSET Int, NEW d \in Int, NEW f \in Int, d <= f,
           Opens(B, d), Opens(B, f)
    PROVE  adjust(B, d) <= adjust(B, f)
  <1>1. adjust(B, f) \in B /\ adjust(B, f) \in Int /\ f <= adjust(B, f)
    BY AdjustFirst, Zenon
  <1>2. d <= adjust(B, f)
    BY <1>1
  <1> QED
    BY <1>1, <1>2, AdjustFirst, Zenon

(* pledge_repo.hpp:92: a pledged repo of at least a day holds the money    *)
(* for at least a day, whatever the holidays around it.                    *)
THEOREM OccupationPositive ==
    ASSUME NEW B \in SUBSET Int, NEW t \in Int, NEW n \in Int, n >= 1,
           Opens(B, t + 1), Opens(B, t + n), Opens(B, adjust(B, t + n) + 1)
    PROVE  CapitalOccupationDays(B, t, n) >= 1
  <1> DEFINE entry == adjust(B, t + 1)
             clear == adjust(B, t + n)
             back  == adjust(B, clear + 1)
  <1>1. entry \in Int /\ clear \in Int
    BY AdjustFirst
  <1>2. back \in Int /\ clear + 1 <= back
    BY <1>1, AdjustFirst
  <1>3. entry <= clear
    BY AdjustMonotone
  <1>4. back - entry >= 1
    BY <1>1, <1>2, <1>3
  <1> QED
    BY <1>4, Zenon DEF CapitalOccupationDays, advance

(* A longer term never returns the money earlier. *)
THEOREM OccupationMonotone ==
    ASSUME NEW B \in SUBSET Int, NEW t \in Int, NEW n \in Int, NEW m \in Int, n <= m,
           Opens(B, t + 1), Opens(B, t + n), Opens(B, t + m),
           Opens(B, adjust(B, t + n) + 1), Opens(B, adjust(B, t + m) + 1)
    PROVE  CapitalOccupationDays(B, t, n) <= CapitalOccupationDays(B, t, m)
  <1> DEFINE entry == adjust(B, t + 1)
             C(k)  == adjust(B, t + k)
             K(k)  == adjust(B, C(k) + 1)
  <1>1. entry \in Int /\ C(n) \in Int /\ C(m) \in Int
    BY AdjustFirst
  <1>2. C(n) <= C(m)
    BY AdjustMonotone
  <1>3. K(n) \in Int /\ K(m) \in Int
    BY <1>1, AdjustFirst
  <1>4. K(n) <= K(m)
    BY <1>1, <1>2, AdjustMonotone
  <1>5. K(n) - entry <= K(m) - entry
    BY <1>1, <1>3, <1>4
  <1> QED
    BY <1>5, Zenon DEF CapitalOccupationDays, advance

(* outright_repo.hpp:95: an outright repo lasts its term and at most one   *)
(* closure more.                                                           *)
THEOREM OutrightTerm ==
    ASSUME NEW B \in SUBSET Int, NEW t \in Int, NEW n \in Nat, NEW s \in {T0, T1},
           Opens(B, t + s), Opens(B, adjust(B, t + s) + n)
    PROVE  /\ OutrightOccupationDays(B, t, n, s) \in n..(n + MaxGap)
           /\ OutrightFirst(B, t, s) <= OutrightExpire(B, OutrightFirst(B, t, s), n)
  <1> DEFINE first == adjust(B, t + s)
             last  == adjust(B, first + n)
  <1>1. first \in Int
    BY AdjustFirst DEF T0, T1
  <1>2. last \in Int /\ first + n <= last /\ last <= first + n + MaxGap
    BY <1>1, AdjustFirst
  <1>3. last - first \in n..(n + MaxGap) /\ first <= last
    BY <1>1, <1>2, GapAssumption
  <1> QED
    BY <1>3, Zenon DEF OutrightOccupationDays, OutrightFirst, OutrightExpire

-----------------------------------------------------------------------------
DeskInv == today \in FirstDay..LastDay /\ TermKept

(* An outright quote keeps its term. *)
LEMMA OutrightStep ==
    ASSUME today \in FirstDay..LastDay, NEW n \in OutrightDays, NEW s \in {T0, T1},
           OutrightQuote(n, s)
    PROVE  TermKept'
  <1> DEFINE first == adjust(IB, today + s)
  <1>1. n \in Nat /\ n <= 365 /\ s \in 0..1
    BY DEF OutrightDays, T0, T1
  <1>2. today \in Int /\ FirstDay <= today /\ today <= LastDay
    BY CalendarAssumption
  <1>3. today + s \in FirstDay..(LastDay + 400)
    BY <1>1, <1>2, CalendarAssumption
  <1>4. Opens(IB, today + s) /\ IB \in SUBSET Int
    BY <1>3, CalendarAssumption, Zenon
  <1>5. first \in Int /\ today + s <= first /\ first <= today + s + MaxGap
    BY <1>1, <1>2, <1>4, AdjustFirst
  <1>6. first + n \in FirstDay..(LastDay + 400)
    BY <1>1, <1>2, <1>5, CalendarAssumption, GapAssumption
  <1>7. Opens(IB, first + n)
    BY <1>6, CalendarAssumption, Zenon
  <1>8. /\ OutrightOccupationDays(IB, today, n, s) \in n..(n + MaxGap)
        /\ OutrightFirst(IB, today, s) <= OutrightExpire(IB, OutrightFirst(IB, today, s), n)
    BY <1>1, <1>2, <1>4, <1>7, OutrightTerm, Zenon
  <1>9. /\ quote'.term = n
        /\ quote'.occupied = OutrightOccupationDays(IB, today, n, s)
        /\ quote'.first = OutrightFirst(IB, today, s)
        /\ quote'.expire = OutrightExpire(IB, OutrightFirst(IB, today, s), n)
    BY Zenon DEF OutrightQuote
  <1> QED
    BY <1>8, <1>9, Zenon DEF TermKept

(* On the desk, every outright repo lasts its term and at most one closure *)
(* of the interbank market more.                                           *)
THEOREM TermsKept == Spec => []TermKept
  <1>1. Init => DeskInv
    BY DEF Init, DeskInv, TermKept, NoQuote
  <1>2. DeskInv /\ [Next]_vars => DeskInv'
    <2> SUFFICES ASSUME DeskInv, [Next]_vars PROVE DeskInv'
      OBVIOUS
    <2>1. ASSUME NEW n \in PledgeDays, NEW s \in {T0, T1}, PledgeQuote(n, s) PROVE DeskInv'
      <3>1. today' = today /\ quote'.kind = "pledge"
        BY <2>1, Zenon DEF PledgeQuote
      <3> QED
        BY <3>1, Zenon DEF DeskInv, TermKept
    <2>2. ASSUME NEW n \in OutrightDays, NEW s \in {T0, T1}, OutrightQuote(n, s) PROVE DeskInv'
      <3>1. today' = today
        BY <2>2, Zenon DEF OutrightQuote
      <3>2. TermKept'
        BY <2>2, OutrightStep, Zenon DEF DeskInv
      <3> QED
        BY <3>1, <3>2, Zenon DEF DeskInv
    <2>3. ASSUME NEW lag \in Lags, NEW s \in {T0, T1}, AccruedQuote(today + lag, s)
          PROVE  DeskInv'
      <3>1. today' = today /\ quote'.kind = "accrued"
        BY <2>3, Zenon DEF AccruedQuote
      <3> QED
        BY <3>1, Zenon DEF DeskInv, TermKept
    <2>4. CASE UNCHANGED vars
      BY <2>4, Zenon DEF vars, DeskInv, TermKept
    <2> QED
      BY <2>1, <2>2, <2>3, <2>4, Zenon DEF Next
  <1> QED
    BY <1>1, <1>2, PTL DEF Spec, DeskInv

-----------------------------------------------------------------------------
(* The first day after d with no business day in between is advance's. *)
LEMMA AfterIsAdvance ==
    ASSUME NEW B \in SUBSET Int, NEW d \in Int, Opens(B, d + 1)
    PROVE  (CHOOSE e \in B \cap ((d + 1)..(d + 1 + MaxGap)) : \A x \in (d + 1)..(e - 1) : x \notin B)
               = adjust(B, d + 1)
  <1> DEFINE a    == adjust(B, d + 1)
             S    == B \cap ((d + 1)..(d + 1 + MaxGap))
             P(e) == \A x \in (d + 1)..(e - 1) : x \notin B
             c    == CHOOSE e \in S : P(e)
  <1>1. /\ a \in B /\ a \in Int /\ d + 1 <= a /\ a <= d + 1 + MaxGap
        /\ \A x \in B : d + 1 <= x => a <= x
    BY AdjustFirst
  <1> HIDE DEF a
  <1>2. a \in S
    BY <1>1, GapAssumption
  <1>3. P(a)
    BY <1>1
  <1>4. ASSUME NEW e \in S, P(e) PROVE e = a
    <2>1. e \in Int /\ d + 1 <= e /\ a <= e
      BY <1>1, GapAssumption
    <2>2. ~(a < e)
      BY <1>1, <1>4, <2>1
    <2> QED BY <1>1, <2>1, <2>2
  <1> HIDE DEF S, P
  <1>5. c \in S /\ P(c)
    BY <1>2, <1>3, Zenon
  <1>6. c = a
    BY <1>4, <1>5, Zenon
  <1> QED BY <1>6, Zenon DEF S, P, a

(* The days counted by CapitalOccupationDays, on any calendar. *)
LEMMA PledgeStep ==
    ASSUME today \in FirstDay..LastDay, NEW n \in PledgeDays, NEW s \in {T0, T1},
           PledgeQuote(n, s)
    PROVE  OccupiedIsDayCount'
  <1> DEFINE After(d)  == CHOOSE e \in SSE \cap ((d + 1)..(d + 1 + MaxGap)) :
                              \A x \in (d + 1)..(e - 1) : x \notin SSE
             entry     == adjust(SSE, today + 1)
             clear     == adjust(SSE, today + n)
             back      == adjust(SSE, clear + 1)
  <1>1. n \in 1..182
    BY DEF PledgeDays
  <1>2. today \in Int /\ FirstDay <= today /\ today <= LastDay /\ SSE \in SUBSET Int
    BY CalendarAssumption
  <1>3. \A d \in Int : FirstDay <= d /\ d <= LastDay + 400 => Opens(SSE, d)
    BY CalendarAssumption
  <1>4. Opens(SSE, today + 1) /\ Opens(SSE, today + n) /\ Opens(SSE, today + n + 1)
    BY <1>1, <1>2, <1>3, CalendarAssumption
  <1>5. /\ clear \in Int /\ clear \in SSE /\ today + n <= clear /\ clear <= today + n + MaxGap
        /\ \A x \in SSE : today + n <= x => clear <= x
    BY <1>1, <1>2, <1>4, AdjustFirst
  <1>6. /\ entry \in Int /\ today + 1 <= entry
        /\ \A x \in SSE : today + 1 <= x => entry <= x
    BY <1>2, <1>4, AdjustFirst
  <1>7. Opens(SSE, clear + 1)
    <2>1. clear + 1 \in Int /\ FirstDay <= clear + 1 /\ clear + 1 <= LastDay + 400
      BY <1>1, <1>2, <1>5, CalendarAssumption, GapAssumption
    <2> QED BY <1>3, <2>1, Zenon
  <1>8. back \in Int /\ clear + 1 <= back
    BY <1>2, <1>5, <1>7, AdjustFirst
  <1>9. entry <= clear
    BY <1>1, <1>2, <1>5, <1>6
  <1>10. After(today) = entry
    BY <1>2, <1>4, AfterIsAdvance, Zenon
  <1>11. (IF today + n \in SSE THEN today + n ELSE After(today + n)) = clear
    <2>1. CASE today + n \in SSE
      BY <1>1, <1>2, <1>5, <2>1
    <2>2. CASE today + n \notin SSE
      <3>1. After(today + n) = adjust(SSE, today + n + 1)
        BY <1>1, <1>2, <1>4, AfterIsAdvance
      <3>2. /\ adjust(SSE, today + n + 1) \in SSE /\ adjust(SSE, today + n + 1) \in Int
            /\ today + n + 1 <= adjust(SSE, today + n + 1)
            /\ \A x \in SSE : today + n + 1 <= x => adjust(SSE, today + n + 1) <= x
        BY <1>1, <1>2, <1>4, AdjustFirst
      <3>3. clear # today + n
        BY <1>5, <2>2, Zenon
      <3>4. adjust(SSE, today + n + 1) = clear
        BY <1>1, <1>2, <1>5, <3>2, <3>3
      <3> QED BY <2>2, <3>1, <3>4, Zenon
    <2> QED BY <2>1, <2>2, Zenon
  <1>12. After(clear) = back
    BY <1>2, <1>5, <1>7, AfterIsAdvance, Zenon
  <1> HIDE DEF After, entry, clear, back
  <1>13. {d \in today..(back - 1) : d >= entry} = entry..(back - 1)
    BY <1>2, <1>6, <1>8
  <1>14. Cardinality(entry..(back - 1)) = back - entry
    <2>1. entry <= back - 1 /\ back - 1 \in Int
      BY <1>5, <1>6, <1>8, <1>9
    <2>2. Cardinality(entry..(back - 1)) = (back - 1) - entry + 1
      BY <1>6, <2>1, FS_Interval
    <2> QED BY <1>6, <1>8, <2>2
  <1>15. quote'.term = n /\ quote'.occupied = back - entry /\ today' = today
    BY Zenon DEF PledgeQuote, CapitalOccupationDays, advance, entry, clear, back
  <1>16. (IF today' + quote'.term \in SSE THEN today' + quote'.term
                                          ELSE After(today' + quote'.term)) = clear
    BY <1>11, <1>15, Zenon
  <1>17. quote'.occupied =
           Cardinality({d \in today'..(After(IF today' + quote'.term \in SSE THEN today' + quote'.term
                                                                 ELSE After(today' + quote'.term)) - 1) :
                        d >= After(today')})
    BY <1>10, <1>12, <1>13, <1>14, <1>15, <1>16, Zenon
  <1> QED
    BY <1>17, Zenon DEF OccupiedIsDayCount, After

(* On the desk, a pledged repo holds the money for exactly the days the    *)
(* comment of CapitalOccupationDays (pledge_repo.hpp:62) counts.           *)
THEOREM DaysCounted == Spec => []OccupiedIsDayCount
  <1> DEFINE CountInv == today \in FirstDay..LastDay /\ OccupiedIsDayCount
  <1>1. Init => CountInv
    <2>1. Init => today \in FirstDay..LastDay /\ quote.kind # "pledge"
      BY DEF Init, NoQuote
    <2> QED BY <2>1, Zenon DEF OccupiedIsDayCount
  <1>2. CountInv /\ [Next]_vars => CountInv'
    <2> SUFFICES ASSUME CountInv, [Next]_vars PROVE CountInv'
      OBVIOUS
    <2>1. ASSUME NEW n \in PledgeDays, NEW s \in {T0, T1}, PledgeQuote(n, s) PROVE CountInv'
      BY <2>1, PledgeStep, Zenon DEF PledgeQuote
    <2>2. ASSUME NEW n \in OutrightDays, NEW s \in {T0, T1}, OutrightQuote(n, s) PROVE CountInv'
      <3>1. today' = today /\ quote'.kind = "outright"
        BY <2>2, Zenon DEF OutrightQuote
      <3> QED BY <3>1, Zenon DEF OccupiedIsDayCount
    <2>3. ASSUME NEW lag \in Lags, NEW s \in {T0, T1}, AccruedQuote(today + lag, s)
          PROVE  CountInv'
      <3>1. today' = today /\ quote'.kind = "accrued"
        BY <2>3, Zenon DEF AccruedQuote
      <3> QED BY <3>1, Zenon DEF OccupiedIsDayCount
    <2>4. CASE UNCHANGED vars
      BY <2>4 DEF vars, OccupiedIsDayCount
    <2> QED BY <2>1, <2>2, <2>3, <2>4, Zenon DEF Next
  <1> QED BY <1>1, <1>2, PTL DEF Spec

-----------------------------------------------------------------------------
(* A set of days from some day on, not empty, has an earliest day. *)
LEMMA EarliestDay ==
    ASSUME NEW a \in Int, NEW S, S # {}, \A p \in S : p \in Int /\ a <= p
    PROVE  Earliest(S) \in S /\ \A q \in S : Earliest(S) <= q
  <1> DEFINE N == {p - a : p \in S}
             R == OpToRel(<, Nat)
  <1>1. N \subseteq Nat /\ N # {}
    OBVIOUS
  <1>2. IsWellFoundedOn(R, Nat)
    BY NatLessThanWellFounded
  <1>3. \A x, y \in N : y < x => <<y, x>> \in R
    BY <1>1 DEF OpToRel
  <1> HIDE DEF R
  <1>4. PICK x \in N : \A y \in N : ~(<<y, x>> \in R)
    BY <1>1, <1>2, WFMin, Zenon
  <1>5. PICK p \in S : x = p - a
    OBVIOUS
  <1>6. ASSUME NEW q \in S PROVE p <= q
    <2>1. q - a \in N
      OBVIOUS
    <2>2. ~(q - a < x)
      BY <1>3, <1>4, <2>1, Zenon
    <2>3. p \in Int /\ q \in Int
      OBVIOUS
    <2> QED BY <1>5, <2>2, <2>3
  <1> QED BY <1>6, Zenon DEF Earliest

(* One up to some day has a latest. *)
LEMMA LatestDay ==
    ASSUME NEW b \in Int, NEW S, S # {}, \A p \in S : p \in Int /\ p <= b
    PROVE  Latest(S) \in S /\ \A q \in S : q <= Latest(S)
  <1> DEFINE M == {0 - p : p \in S}
             m == Earliest(M)
  <1>1. M # {} /\ 0 - b \in Int /\ \A x \in M : x \in Int /\ 0 - b <= x
    OBVIOUS
  <1> HIDE DEF M
  <1>2. m \in M /\ \A x \in M : m <= x
    BY <1>1, EarliestDay, Zenon
  <1> HIDE DEF m
  <1> USE DEF M
  <1>3. PICK p \in S : m = 0 - p
    BY <1>2
  <1>4. ASSUME NEW q \in S PROVE q <= p
    <2>1. m <= 0 - q
      BY <1>2
    <2>2. p \in Int /\ q \in Int
      OBVIOUS
    <2> QED BY <1>3, <2>1, <2>2
  <1> QED BY <1>4, Zenon DEF Latest

(* The coupon period around the settlement of a trade. *)
LEMMA CouponPeriod ==
    ASSUME NEW d \in Int, NEW a \in Int, NEW P, \A p \in P : p \in Int /\ a <= p,
           \E p \in P : p <= d, \E p \in P : p > d
    PROVE  LET prev == Latest({p \in P : p <= d})
               next == Earliest({p \in P : p > d})
           IN  /\ prev \in Int /\ next \in Int /\ prev <= d /\ d < next
               /\ P \cap (prev + 1)..(next - 1) = {}
  <1> DEFINE prev == Latest({p \in P : p <= d})
             next == Earliest({p \in P : p > d})
  <1>1. prev \in {p \in P : p <= d} /\ \A q \in {p \in P : p <= d} : q <= prev
    BY LatestDay
  <1>2. next \in {p \in P : p > d} /\ \A q \in {p \in P : p > d} : next <= q
    BY EarliestDay
  <1> HIDE DEF prev, next
  <1>3. prev \in Int /\ next \in Int /\ prev <= d /\ d < next
    BY <1>1, <1>2
  <1>4. ASSUME NEW q \in P, q \in (prev + 1)..(next - 1) PROVE FALSE
    <2>1. q \in Int /\ prev < q /\ q < next
      BY <1>3, <1>4
    <2>2. CASE q <= d
      BY <1>1, <1>3, <2>1, <2>2
    <2>3. CASE q > d
      BY <1>2, <1>3, <2>1, <2>3
    <2> QED BY <2>1, <2>2, <2>3
  <1> QED BY <1>3, <1>4, Zenon DEF prev, next

(* The maturity is a day. *)
LEMMA MaturityIsDay == maturity_date \in Int
  BY DEF maturity_date, Date, DaysBefore, Leap

(* The accrued interest of a trade made on the day the program runs. *)
LEMMA AccruedStep ==
    ASSUME today \in FirstDay..LastDay, NEW s \in {T0, T1}, AccruedQuote(today + 0, s),
           CouponsReach
    PROVE  AccruesFromLastPayment'
  <1> DEFINE d    == adjust(SSE, today + s)
             P    == Payments(SSE, Coupons)
             prev == Latest({p \in P : p <= d})
             next == Earliest({p \in P : p > d})
  <1>1. /\ today \in Int /\ FirstDay <= today /\ today <= LastDay /\ s \in 0..1
        /\ SSE \in SUBSET Int /\ today + 0 = today
    BY CalendarAssumption DEF T0, T1
  <1>2. \A x \in Int : FirstDay <= x /\ x <= LastDay + 400 => Opens(SSE, x)
    BY CalendarAssumption
  <1>3. d \in Int /\ today <= d /\ d <= LastDay + 1 + MaxGap
    <2>1. today + s \in Int /\ Opens(SSE, today + s)
      BY <1>1, <1>2, CalendarAssumption
    <2>2. d \in Int /\ today + s <= d /\ d <= today + s + MaxGap
      BY <1>1, <2>1, AdjustFirst
    <2> QED BY <1>1, <2>2, CalendarAssumption, GapAssumption
  <1>4. ASSUME NEW c \in Coupons PROVE adjust(SSE, c) \in Int /\ c <= adjust(SSE, c)
                                       /\ FirstDay <= adjust(SSE, c) /\ c \in Int
    <2>1. c \in Int /\ FirstDay <= c /\ Opens(SSE, c)
      BY <1>2, CalendarAssumption DEF CouponsReach
    <2>2. adjust(SSE, c) \in Int /\ c <= adjust(SSE, c)
      BY <1>1, <2>1, AdjustFirst
    <2> QED BY <2>1, <2>2, CalendarAssumption
  <1>5. \A p \in P : p \in Int /\ FirstDay <= p
    BY <1>4, Zenon DEF Payments
  <1>6. \E p \in P : p <= d
    <2>1. PICK p \in P : p <= today
      BY Zenon DEF AccruedQuote
    <2>2. p \in Int
      BY <1>5, Zenon
    <2>3. p <= d
      BY <1>1, <1>3, <2>1, <2>2
    <2> QED BY <2>3, Zenon
  <1>7. \E p \in P : p > d
    <2>1. PICK c \in Coupons : c > LastDay + 1 + MaxGap
      BY Zenon DEF CouponsReach
    <2>2. adjust(SSE, c) > d
      BY <1>3, <1>4, <2>1, CalendarAssumption, GapAssumption
    <2>3. adjust(SSE, c) \in P
      BY Zenon DEF Payments
    <2> QED BY <2>2, <2>3, Zenon
  <1>8. FirstDay \in Int
    BY CalendarAssumption
  <1> HIDE DEF P, d
  <1>9. /\ prev \in Int /\ next \in Int /\ prev <= d /\ d < next
        /\ P \cap (prev + 1)..(next - 1) = {}
    BY <1>3, <1>5, <1>6, <1>7, <1>8, CouponPeriod, Zenon
  <1> HIDE DEF prev, next
  <1>10. /\ quote'.trade = today /\ quote'.speed = s /\ quote'.prev = prev /\ quote'.next = next
         /\ quote'.days = d - prev /\ quote'.held = maturity_date - d
    <2>1. /\ quote'.trade = today + 0 /\ quote'.speed = s
          /\ quote'.next = BondNextCashFlowDate(SSE, Coupons, today, s)
          /\ quote'.prev = BondPrevCashFlowDate(SSE, Coupons, today, s)
          /\ quote'.days = AccruedDays(SSE, Coupons, today, today + 0, s)
          /\ quote'.held = ExpiredDays(SSE, today + 0, s, maturity_date)
      BY Zenon DEF AccruedQuote
    <2> QED
      BY <1>1, <2>1, Zenon DEF BondNextCashFlowDate, BondPrevCashFlowDate, AccruedDays,
                               ExpiredDays, CalcSettlementDate, P, d, prev, next
  <1>11. (d - prev) + (maturity_date - d) = maturity_date - prev
    BY <1>3, <1>9, MaturityIsDay
  <1>12. adjust(SSE, quote'.trade + quote'.speed) = d
    BY <1>10, Zenon DEF d
  <1>13. Latest({p \in Payments(SSE, Coupons) : p <= adjust(SSE, quote'.trade + quote'.speed)})
             = prev
    BY <1>12, Zenon DEF prev, P
  <1>14. Payments(SSE, Coupons) \cap (quote'.prev + 1)..(quote'.next - 1) = {}
    BY <1>9, <1>10, Zenon DEF P
  <1>15. /\ quote'.days = adjust(SSE, quote'.trade + quote'.speed) - prev
         /\ quote'.prev <= adjust(SSE, quote'.trade + quote'.speed)
         /\ adjust(SSE, quote'.trade + quote'.speed) < quote'.next
         /\ quote'.days + quote'.held = maturity_date - prev
    <2>1. quote'.days = d - prev /\ quote'.prev <= d /\ d < quote'.next
      BY <1>9, <1>10, Zenon
    <2>2. quote'.days + quote'.held = maturity_date - prev
      BY <1>10, <1>11, Zenon
    <2> QED BY <1>12, <2>1, <2>2, Zenon
  <1> QED
    BY <1>13, <1>14, <1>15, Zenon DEF AccruesFromLastPayment

(* On the desk, for a bond traded on the day the program runs and whose    *)
(* coupons reach beyond the last settlement, interest accrues from the     *)
(* last payment before the settlement (cash_bond.hpp:239), on any calendar *)
(* that opens again within MaxGap days.                                    *)
THEOREM InterestAccrues ==
    ASSUME Lags = {0}
    PROVE  Spec => []AccruesFromLastPayment
  <1> DEFINE AccrueInv == today \in FirstDay..LastDay /\ AccruesFromLastPayment
  <1>1. Init => AccrueInv
    BY DEF Init, AccruesFromLastPayment, NoQuote
  <1>2. AccrueInv /\ [Next]_vars => AccrueInv'
    <2> SUFFICES ASSUME AccrueInv, [Next]_vars PROVE AccrueInv'
      OBVIOUS
    <2>1. ASSUME NEW n \in PledgeDays, NEW s \in {T0, T1}, PledgeQuote(n, s) PROVE AccrueInv'
      <3>1. today' = today /\ quote'.kind = "pledge"
        BY <2>1, Zenon DEF PledgeQuote
      <3> QED BY <3>1, Zenon DEF AccruesFromLastPayment
    <2>2. ASSUME NEW n \in OutrightDays, NEW s \in {T0, T1}, OutrightQuote(n, s) PROVE AccrueInv'
      <3>1. today' = today /\ quote'.kind = "outright"
        BY <2>2, Zenon DEF OutrightQuote
      <3> QED BY <3>1, Zenon DEF AccruesFromLastPayment
    <2>3. ASSUME NEW lag \in Lags, NEW s \in {T0, T1}, AccruedQuote(today + lag, s)
          PROVE  AccrueInv'
      <3>1. lag = 0 /\ today' = today
        BY <2>3, Zenon DEF AccruedQuote
      <3> QED BY <2>3, <3>1, AccruedStep, CouponsAreEnough, Zenon
    <2>4. CASE UNCHANGED vars
      BY <2>4, Zenon DEF vars, AccruesFromLastPayment
    <2> QED BY <2>1, <2>2, <2>3, <2>4, Zenon DEF Next
  <1> QED BY <1>1, <1>2, PTL DEF Spec
=============================================================================
