------------------------------- MODULE ExChina ------------------------------
(***************************************************************************)
(* The calendars of the Chinese markets                                    *)
(* (19_quantlib_demo/time/calendars/ex_china.cpp), with all of their data, *)
(* 2004 to 2019; after, as in the code, only weekends and January 1st      *)
(* are closed.  A row <<y, m, a, b>> closes the days a to b of month m of  *)
(* year y.                                                                 *)
(*                                                                         *)
(* External: QuantLib's Date, as the number of days from January 1st 2004, *)
(* a Thursday.                                                             *)
(***************************************************************************)
EXTENDS Integers, TLC

DaysBefore == <<0, 31, 59, 90, 120, 151, 181, 212, 243, 273, 304, 334>>

Leap(y) == y % 4 = 0

Date(y, m, d) ==
    (y - 2004) * 365 + (y - 2001) \div 4 + DaysBefore[m] + (d - 1)
        + (IF Leap(y) /\ m > 2 THEN 1 ELSE 0)

Days == Date(2004, 1, 1) .. Date(2021, 3, 31)

Weekend(n) == n % 7 \in {2, 3}

-----------------------------------------------------------------------------
NewYear ==
    { <<2005, 1, 3, 3>>, <<2006, 1, 2, 3>>, <<2007, 1, 1, 3>>,
      <<2007, 12, 31, 31>>, <<2009, 1, 2, 2>>, <<2011, 1, 3, 3>>,
      <<2012, 1, 2, 3>>, <<2013, 1, 1, 3>>, <<2014, 1, 1, 1>>,
      <<2015, 1, 1, 3>>, <<2017, 1, 2, 2>>, <<2018, 1, 1, 1>>,
      <<2018, 12, 31, 31>>, <<2019, 1, 1, 1>> }

ChineseNewYear ==
    { <<2004, 1, 19, 28>>, <<2005, 2, 7, 15>>, <<2006, 1, 26, 31>>,
      <<2006, 2, 1, 3>>, <<2007, 2, 17, 25>>, <<2008, 2, 6, 12>>,
      <<2009, 1, 26, 30>>, <<2010, 2, 15, 19>>, <<2011, 2, 2, 8>>,
      <<2012, 1, 23, 28>>, <<2013, 2, 11, 15>>, <<2014, 1, 31, 31>>,
      <<2014, 2, 1, 6>>, <<2015, 2, 18, 24>>, <<2016, 2, 8, 12>>,
      <<2017, 1, 27, 31>>, <<2017, 2, 1, 2>>, <<2018, 2, 15, 21>>,
      <<2019, 2, 4, 8>> }

ChingMing ==
    { <<2004, 4, 4, 4>>, <<2005, 4, 4, 4>>, <<2006, 4, 4, 4>>,
      <<2007, 4, 4, 4>>, <<2008, 4, 4, 4>>, <<2009, 4, 6, 6>>,
      <<2010, 4, 5, 5>>, <<2011, 4, 3, 5>>, <<2012, 4, 2, 4>>,
      <<2013, 4, 4, 5>>, <<2014, 4, 7, 7>>, <<2015, 4, 5, 6>>,
      <<2016, 4, 4, 4>>, <<2017, 4, 3, 4>>, <<2018, 4, 5, 6>>,
      <<2019, 4, 5, 5>> }

LaborDay ==
    { <<2004, 5, 1, 7>>, <<2005, 5, 1, 7>>, <<2006, 5, 1, 7>>,
      <<2007, 5, 1, 7>>, <<2008, 5, 1, 2>>, <<2009, 5, 1, 1>>,
      <<2010, 5, 3, 3>>, <<2011, 5, 2, 2>>, <<2012, 4, 30, 30>>,
      <<2012, 5, 1, 1>>, <<2013, 4, 29, 30>>, <<2013, 5, 1, 1>>,
      <<2014, 5, 1, 3>>, <<2015, 5, 1, 1>>, <<2016, 5, 1, 2>>,
      <<2017, 5, 1, 1>>, <<2018, 4, 30, 30>>, <<2018, 5, 1, 1>>,
      <<2019, 5, 1, 3>> }

TuenNg ==
    { <<2004, 6, 9, 9>>, <<2005, 6, 9, 9>>, <<2006, 6, 9, 9>>,
      <<2007, 6, 9, 9>>, <<2008, 6, 9, 9>>, <<2009, 5, 28, 29>>,
      <<2010, 6, 14, 16>>, <<2011, 6, 4, 6>>, <<2012, 6, 22, 24>>,
      <<2013, 6, 10, 12>>, <<2014, 6, 2, 2>>, <<2015, 6, 22, 22>>,
      <<2016, 6, 9, 10>>, <<2017, 5, 29, 30>>, <<2018, 6, 18, 18>>,
      <<2019, 6, 7, 7>> }

MidAutumn ==
    { <<2004, 9, 15, 15>>, <<2005, 9, 15, 15>>, <<2006, 9, 15, 15>>,
      <<2007, 9, 15, 15>>, <<2008, 9, 15, 15>>, <<2010, 9, 22, 24>>,
      <<2011, 9, 10, 12>>, <<2012, 9, 30, 30>>, <<2013, 9, 19, 20>>,
      <<2014, 9, 8, 8>>, <<2015, 9, 27, 27>>, <<2016, 9, 15, 16>>,
      <<2018, 9, 24, 24>>, <<2019, 9, 13, 13>> }

NationalDay ==
    { <<2004, 10, 1, 7>>, <<2005, 10, 1, 7>>, <<2006, 10, 1, 7>>,
      <<2007, 10, 1, 7>>, <<2008, 9, 29, 30>>, <<2008, 10, 1, 3>>,
      <<2009, 10, 1, 8>>, <<2010, 10, 1, 7>>, <<2011, 10, 1, 7>>,
      <<2012, 10, 1, 7>>, <<2013, 10, 1, 7>>, <<2014, 10, 1, 7>>,
      <<2015, 10, 1, 7>>, <<2016, 10, 3, 7>>, <<2017, 10, 2, 6>>,
      <<2018, 10, 1, 5>>, <<2019, 10, 1, 7>> }

Anniversary ==
    { <<2015, 9, 3, 4>> }

-----------------------------------------------------------------------------
Rows == NewYear \cup ChineseNewYear \cup ChingMing \cup LaborDay \cup TuenNg
            \cup MidAutumn \cup NationalDay \cup Anniversary

Closed == UNION {Date(r[1], r[2], r[3]) .. Date(r[1], r[2], r[4]) : r \in Rows}
            \cup {Date(y, 1, 1) : y \in 2004..2021}

(* SseImpl::isBusinessDay; SzseImpl asks SseImpl. *)
SSE  == {n \in Days : ~Weekend(n) /\ n \notin Closed}
SZSE == SSE

working_weekends ==
    2005 :> {<<2, 5>>, <<2, 6>>, <<4, 30>>, <<5, 8>>, <<10, 8>>, <<10, 9>>, <<12, 31>>}
 @@ 2006 :> {<<1, 28>>, <<4, 29>>, <<4, 30>>, <<9, 30>>, <<12, 30>>, <<12, 31>>}
 @@ 2007 :> {<<2, 17>>, <<2, 25>>, <<4, 28>>, <<4, 29>>, <<9, 29>>, <<9, 30>>, <<12, 29>>}
 @@ 2008 :> {<<2, 2>>, <<2, 3>>, <<5, 4>>, <<9, 27>>, <<9, 28>>}
 @@ 2009 :> {<<1, 4>>, <<1, 24>>, <<2, 1>>, <<5, 31>>, <<9, 27>>, <<10, 10>>}
 @@ 2010 :> {<<2, 20>>, <<2, 21>>, <<6, 12>>, <<6, 13>>, <<9, 19>>, <<9, 25>>, <<9, 26>>, <<10, 9>>}
 @@ 2011 :> {<<1, 30>>, <<2, 12>>, <<4, 2>>, <<10, 8>>, <<10, 9>>, <<12, 31>>}
 @@ 2012 :> {<<1, 21>>, <<1, 29>>, <<3, 31>>, <<4, 1>>, <<4, 28>>, <<9, 29>>}
 @@ 2013 :> {<<1, 5>>, <<1, 6>>, <<2, 16>>, <<2, 17>>, <<4, 7>>, <<4, 27>>, <<4, 28>>,
             <<6, 8>>, <<6, 9>>, <<9, 22>>, <<9, 29>>, <<10, 12>>}
 @@ 2014 :> {<<1, 26>>, <<2, 8>>, <<5, 4>>, <<9, 28>>, <<10, 11>>}
 @@ 2015 :> {<<1, 4>>, <<2, 15>>, <<2, 28>>, <<9, 6>>, <<10, 10>>}
 @@ 2016 :> {<<2, 6>>, <<2, 14>>, <<6, 12>>, <<9, 18>>, <<10, 8>>, <<10, 9>>}
 @@ 2017 :> {<<1, 22>>, <<2, 4>>, <<4, 1>>, <<5, 27>>, <<9, 30>>}
 @@ 2018 :> {<<2, 11>>, <<2, 24>>, <<4, 8>>, <<4, 28>>, <<9, 29>>, <<9, 30>>, <<12, 29>>}
 @@ 2019 :> {<<2, 2>>, <<2, 3>>, <<4, 28>>, <<5, 5>>, <<9, 29>>, <<10, 12>>}

WorkingWeekends == UNION {{Date(y, e[1], e[2]) : e \in working_weekends[y]}
                              : y \in DOMAIN working_weekends}

(* IbImpl::isBusinessDay. *)
IB == SSE \cup WorkingWeekends
=============================================================================
