------------------------------- MODULE Dates --------------------------------
(***************************************************************************)
(* The calendar arithmetic of surch-api's search: days since 1970 from a   *)
(* date and back in closed form (date histograms), days since year 1 added *)
(* up year by year (decay functions), date texts and "now-7d" expressions  *)
(* of range queries, and the buckets of a date histogram.                  *)
(***************************************************************************)
LOCAL INSTANCE Integers
LOCAL INSTANCE Sequences
LOCAL INSTANCE JsonValue
LOCAL INSTANCE Folds
LOCAL INSTANCE FiniteSets

CONSTANT Today      \* Utc::now() in days

\* Byte order of the characters of the texts.
Ascii == <<" ", "*", "-", ".", "0", "1", "2", "3", "4", "5", "6", "7", "8", "9", "?", "A", "E",
           "a", "b", "d", "e", "f", "t", "E^", "ae", "e^">>
Rank(c) == CHOOSE i \in DOMAIN Ascii : Ascii[i] = c

TextLess(s, t) ==
    \E i \in 1 .. Len(t) :
        /\ i <= Len(s) => Rank(s[i]) < Rank(t[i])
        /\ i <= Len(s) + 1
        /\ \A j \in 1 .. i - 1 : s[j] = t[j]

SumSeq(s) == MapThenFoldSet(LAMBDA x, y : x + y, 0, LAMBDA i : s[i], LAMBDA S : CHOOSE i \in S : TRUE, DOMAIN s)

DigitsOf(t) == \A i \in DOMAIN t : Rank(t[i]) \in 5 .. 14
Value(t) == LET v[n \in 0 .. Len(t)] == IF n = 0 THEN 0 ELSE 10 * v[n - 1] + (Rank(t[n]) - 5) IN v[Len(t)]

is_leap_year(y) == (y % 4 = 0 /\ y % 100 # 0) \/ y % 400 = 0
days_in_month(y, m) == IF m = 2 THEN IF is_leap_year(y) THEN 29 ELSE 28 ELSE IF m \in {4, 6, 9, 11} THEN 30 ELSE 31

\* Mutant: the year of January and February is not taken for the one before.
days_from_civil_calendar(y, m, d) ==
    (y \div 400) * 146097 + (y % 400) * 365 + (y % 400) \div 4 - (y % 400) \div 100
        + (153 * (IF m > 2 THEN m - 3 ELSE m + 9) + 2) \div 5 + d - 1 - 719468

\* days_from_civil of week_anchor_monday: the year starts in March.
days_from_civil(year, m, d) ==
    LET y   == IF m <= 2 THEN year - 1 ELSE year
        era == y \div 400
        yoe == y - era * 400
        doy == (153 * (IF m > 2 THEN m - 3 ELSE m + 9) + 2) \div 5 + d - 1
    IN  era * 146097 + yoe * 365 + yoe \div 4 - yoe \div 100 + doy - 719468

Civil(y, m, d) == [year |-> y, month |-> m, day |-> d]

civil_from_days(days) ==
    LET z   == days + 719468
        era == z \div 146097
        doe == z - era * 146097
        yoe == (doe - doe \div 1460 + doe \div 36524 - doe \div 146096) \div 365
        doy == doe - (365 * yoe + yoe \div 4 - yoe \div 100)
        mp  == (5 * doy + 2) \div 153
        m   == IF mp < 10 THEN mp + 3 ELSE mp - 9
    IN  Civil(yoe + era * 400 + (IF m <= 2 THEN 1 ELSE 0), m, doy - (153 * mp + 2) \div 5 + 1)

week_anchor_monday(c) ==
    LET z == days_from_civil(c.year, c.month, c.day) IN civil_from_days(z - ((z + 3) % 7))

\* The date an eight-digit text writes.
EightDigits(t) == Len(t) = 8 /\ DigitsOf(t)
DateOf(t) == Civil(Value(SubSeq(t, 1, 4)), Value(SubSeq(t, 5, 6)), Value(SubSeq(t, 7, 8)))

ValidDate(t) ==
    LET c == DateOf(t) IN EightDigits(t) /\ c.month \in 1 .. 12 /\ c.day \in 1 .. days_in_month(c.year, c.month)

\* Days since the first of January of year 1, year by year and month by month.
parse_yyyymmdd_to_days(t) ==
    LET c == DateOf(t)
        years == 365 * (c.year - 1) + Cardinality({y \in 1 .. c.year - 1 : is_leap_year(y)})
        months == [m \in 1 .. c.month - 1 |-> days_in_month(c.year, m)]
    IN  IF ~ValidDate(t) THEN None ELSE Some(years + SumSeq(months) + c.day - 1)

\* chrono's NaiveDate::parse_from_str(text, "%Y%m%d"), on texts of eight digits.
parse_from_str(t) == LET c == DateOf(t) IN IF ValidDate(t) THEN Some(days_from_civil(c.year, c.month, c.day)) ELSE None

\* chrono's checked_add_months: the day is cut to the length of the month.
add_months(day, n) ==
    LET c == civil_from_days(day)
        k == c.year * 12 + c.month - 1 + n
        y == k \div 12
        m == (k % 12) + 1
    IN  days_from_civil(y, m, IF c.day > days_in_month(y, m) THEN days_in_month(y, m) ELSE c.day)

\* "now", then at most one signed step, as <<"now", sign, n, unit>>; a rounding
\* after "/" is dropped.
parse_date_math(t) ==
    LET n == IF t[2] = "-" THEN -t[3] ELSE t[3]
    IN  IF Len(t) = 1 THEN Some(Today)
        ELSE CASE t[4] = "d" -> Some(Today + n) [] t[4] = "w" -> Some(Today + 7 * n)
               [] t[4] = "M" -> Some(add_months(Today, n)) [] t[4] = "y" -> Some(add_months(Today, 12 * n))
               [] OTHER -> None

\* The day a text names under a format; every format but the two epochs reads
\* eight digits.
parse_date_value(t, format) ==
    IF t # <<>> /\ t[1] = "now" THEN parse_date_math(t)
    ELSE IF format \in {"epoch_millis", "epoch_second"}
    THEN IF t # <<>> /\ DigitsOf(t) THEN Some(Value(t) \div (IF format = "epoch_second" THEN 86400 ELSE 86400000)) ELSE None
    ELSE parse_from_str(t)

\* Any day up to 31 is accepted in any month, and kept as it is unless the
\* interval is a week.
bucket_key_for_date(v, interval) ==
    LET c == DateOf(v.str)
    IN  IF ~is_string(v) THEN None
        ELSE IF ~EightDigits(v.str) THEN None
        ELSE IF c.month \notin 1 .. 12 \/ c.day \notin 1 .. 31 THEN None
        ELSE Some(CASE interval = "day" -> c [] interval = "month" -> Civil(c.year, c.month, 1)
                    [] interval = "year" -> Civil(c.year, 1, 1) [] interval = "week" -> week_anchor_monday(c))
=============================================================================
