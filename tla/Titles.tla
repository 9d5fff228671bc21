------------------------------- MODULE Titles -------------------------------
(***************************************************************************)
(* pmi_core.utils.date_analyzer: the date at the end of a market's title   *)
(* and the question that remains without it.                               *)
(*                                                                         *)
(* A title is a question and perhaps a suffix: a preposition and a date    *)
(* literal.  What the two date expressions (month first, day first) find   *)
(* in a literal is in MonthFirst and DayFirst; of "between X and Y" the    *)
(* literal is Y.                                                           *)
(***************************************************************************)
EXTENDS Ratio
LOCAL INSTANCE Integers

CONSTANT Today  \* [year, month, day]

NoSuffix == [prep |-> "none"]

\* prep: "bucket" stands for on, by, before, by end of, ...; "in" for in.
\* form: "mdy" and "dmy" with an optional year, of two digits or four;
\* "month" and "year" with one of four digits.
Suffix(prep, form, month, day, year) ==
    [prep |-> prep, form |-> form, month |-> month, day |-> day, year |-> year]

\* strip_date_suffix(title) # title: `in` counts before a year only.
HasSuffix(t) ==
    \/ t.suffix.prep = "bucket"
    \/ t.suffix.prep = "in" /\ t.suffix.form \in {"month", "year"}

BaseQuestion(t) == IF HasSuffix(t) THEN [t EXCEPT !.suffix = NoSuffix] ELSE t

-----------------------------------------------------------------------------
Leap(y) == y % 4 = 0
MonthDays(y) == <<31, IF Leap(y) THEN 29 ELSE 28, 31, 30, 31, 30, 31, 31, 30, 31, 30, 31>>

\* Days since the end of 1999.
DayNumber(d) ==
    LET before[m \in 0 .. 12] == IF m = 0 THEN 0 ELSE before[m - 1] + MonthDays(d.year)[m]
    IN  365 * (d.year - 2000) + (d.year - 1997) \div 4 + before[d.month - 1] + d.day

ResolveYear(y) == IF y < 100 THEN y + 2000 ELSE y

\* date(...), or None when there is no such day.
Date(month, day, year) ==
    LET y == IF year = None THEN Today.year ELSE ResolveYear(year)
    IN  IF day \in 1 .. MonthDays(y)[month]
        THEN DayNumber([year |-> y, month |-> month, day |-> day]) ELSE None

\* "14 Jan 26" also reads as "Jan 26" of no year.
MonthFirst(s) ==
    CASE s.form = "mdy" -> [month |-> s.month, day |-> s.day, year |-> s.year]
      [] s.form = "dmy" /\ s.year # None /\ s.year < 100 ->
            [month |-> s.month, day |-> s.year, year |-> None]
      [] OTHER -> None

DayFirst(s) ==
    IF s.form = "dmy" THEN [month |-> s.month, day |-> s.day, year |-> s.year] ELSE None

HasYear(m) == m # None /\ m.year # None

Extract(m) == IF m = None THEN None ELSE Date(m.month, m.day, m.year)

\* A match with a year wins, then the month-first one.
Better(mdy, dmy) ==
    CASE HasYear(mdy) -> mdy
      [] ~HasYear(mdy) /\ HasYear(dmy) -> dmy
      [] ~HasYear(mdy) /\ ~HasYear(dmy) /\ mdy # None -> mdy
      [] OTHER -> dmy

ParseBucketDate(t) ==
    IF HasSuffix(t) THEN Extract(Better(MonthFirst(t.suffix), DayFirst(t.suffix))) ELSE None

\* A title whose date cannot be read counts as active.
IsActiveBucket(t) ==
    LET d == ParseBucketDate(t) IN d = None \/ d >= DayNumber(Today)
=============================================================================
