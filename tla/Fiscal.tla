------------------------------- MODULE Fiscal -------------------------------
(***************************************************************************)
(* Fiscal years and quarters of ingest/client.py.  A date is the number of *)
(* days since the end of 1999.                                             *)
(***************************************************************************)
EXTENDS Integers, Sequences

Months == 1..12

Leap(year) == year % 4 = 0 /\ (year % 100 # 0 \/ year % 400 = 0)

MonthLength(year, month) ==
  CASE month = 2 -> IF Leap(year) THEN 29 ELSE 28
    [] month \in {4, 6, 9, 11} -> 30
    [] OTHER -> 31

(* DaysBefore[m]: days of a common year before month m.                    *)
DaysBefore == <<0, 31, 59, 90, 120, 151, 181, 212, 243, 273, 304, 334>>

Date(year, month, day) ==
  365 * (year - 2000) + (year - 1997) \div 4 + DaysBefore[month]
    + (IF month > 2 /\ Leap(year) THEN 1 ELSE 0) + day

(* date.year, for dates of this century                                    *)
YearOf(date) ==
  CHOOSE y \in (1999 + date \div 366)..(2000 + date \div 365) :
    Date(y, 1, 1) <= date /\ date <= Date(y, 12, 31)

(* date.month                                                              *)
MonthOf(date) ==
  CHOOSE m \in Months :
    LET y == YearOf(date) IN
      Date(y, m, 1) <= date /\ date <= Date(y, m, MonthLength(y, m))

LastDayOfMonth(year, month) == Date(year, month, MonthLength(year, month))

(* fiscal_year: named for the calendar year it ends in.                    *)
FiscalYear(report, fyEndMonth) ==
  IF MonthOf(report) <= fyEndMonth THEN YearOf(report) ELSE YearOf(report) + 1

(* Mutant of FiscalQuarter: months counted forward from the year's start.  *)
FiscalQuarterByMonths(report, fyEndMonth) ==
  1 + ((MonthOf(report) - fyEndMonth - 1) % 12) \div 3

(* round(days / 91.25); days / 91.25 = 8 * days / 730 never ends in a half *)
QuartersRemaining(days) == (8 * days + 365) \div 730

(* fiscal_quarter: the distance to the year's end, in quarters             *)
FiscalQuarter(report, fyEndMonth) ==
  LET fyEnd == LastDayOfMonth(FiscalYear(report, fyEndMonth), fyEndMonth)
      quarter == 4 - QuartersRemaining(fyEnd - report)
  IN IF quarter > 4 THEN 4 ELSE IF quarter < 1 THEN 1 ELSE quarter

=============================================================================
