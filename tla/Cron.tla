-------------------------------- MODULE Cron --------------------------------
(***************************************************************************)
(* surch-api slm/cron.rs: cron schedules of five fields (POSIX) and of six *)
(* (Quartz, seconds first), and the first instant after a given one that a *)
(* schedule admits.                                                        *)
(*                                                                         *)
(* A field is a sequence of chunks [base, step], where base is <<>> for    *)
(* "*", <<n>> for an integer, <<a, b>> for a range, and step is 0 when     *)
(* there is none.  An instant is [day, sec]: days since 1970 and seconds.  *)
(***************************************************************************)
LOCAL INSTANCE Integers
LOCAL INSTANCE Sequences
LOCAL INSTANCE FiniteSets
LOCAL INSTANCE JsonValue
LOCAL INSTANCE Dates WITH Today <- 0

CHUNK(base, step) == [base |-> base, step |-> step]
Star == <<CHUNK(<<>>, 0)>>      \* "*", and "?" alike
Only(n) == <<CHUNK(<<n>>, 0)>>

\* An integer with a step goes up to the end of the field.
ChunkRange(c, lo, hi) ==
    CASE Len(c.base) = 0 -> <<lo, hi>>
      [] Len(c.base) = 1 -> <<c.base[1], IF c.step > 0 THEN hi ELSE c.base[1]>>
      [] Len(c.base) = 2 -> c.base

parse_field(spec, lo, hi) ==
    LET range(i) == ChunkRange(spec[i], lo, hi)
        step(i)  == IF spec[i].step = 0 THEN 1 ELSE spec[i].step
        bad(i)   == range(i)[1] < lo \/ range(i)[2] > hi \/ range(i)[1] > range(i)[2]
    IN  Checked(spec # <<>> /\ \A i \in DOMAIN spec : ~bad(i),
                UNION {{v \in range(i)[1] .. range(i)[2] : (v - range(i)[1]) % step(i) = 0} : i \in DOMAIN spec})

\* The days of the week of a Quartz field, Sunday being 0.
DaysOfWeek(raw) == {IF n = 7 THEN 0 ELSE n - 1 : n \in raw}

parse(fields) ==
    LET had_seconds == Len(fields) = 6
        rest == IF had_seconds THEN Tail(fields) ELSE fields
        all  == <<IF had_seconds THEN parse_field(fields[1], 0, 59) ELSE Ok({0}),
                  parse_field(rest[1], 0, 59), parse_field(rest[2], 0, 23), parse_field(rest[3], 1, 31),
                  parse_field(rest[4], 1, 12),
                  IF had_seconds THEN parse_field(rest[5], 1, 7) ELSE parse_field(rest[5], 0, 6)>>
        p    == Collect(all)
    IN  IF Len(fields) \notin {5, 6} THEN Invalid
        ELSE IF ~IsOk(p) THEN p
        ELSE Ok([seconds |-> p.ok[1], minutes |-> p.ok[2], hours |-> p.ok[3], days_of_month |-> p.ok[4], months |-> p.ok[5],
                 days_of_week |-> IF had_seconds THEN DaysOfWeek(p.ok[6]) ELSE p.ok[6]])

is_valid(fields) == IsOk(parse(fields))

-----------------------------------------------------------------------------
Instant(day, sec) == [day |-> day + sec \div 86400, sec |-> sec % 86400]
Before(s, t) == s.day < t.day \/ (s.day = t.day /\ s.sec < t.sec)
NotAfter(s, t) == s = t \/ Before(s, t)

Month(t) == civil_from_days(t.day).month
DayOfMonth(t) == civil_from_days(t.day).day
DayOfWeek(t) == (t.day + 4) % 7

advance_to_next_minute(t) == Instant(t.day, 60 * (t.sec \div 60 + 1))
advance_to_next_hour(t) == Instant(t.day, 3600 * (t.sec \div 3600 + 1))
advance_to_next_day(t) == Instant(t.day + 1, 0)
advance_to_next_month(t) ==
    LET c == civil_from_days(t.day)
    IN  Instant(IF c.month = 12 THEN days_from_civil(c.year + 1, 1, 1) ELSE days_from_civil(c.year, c.month + 1, 1), 0)

SearchDays == 366 * 4

\* One round of the loop: the coarsest field that does not fit moves the cursor
\* on; a cursor that fits stays.
Advance(s, t) ==
    CASE Month(t) \notin s.months -> advance_to_next_month(t)
      [] Month(t) \in s.months /\ (DayOfMonth(t) \notin s.days_of_month \/ DayOfWeek(t) \notin s.days_of_week) -> advance_to_next_day(t)
      [] OTHER -> IF t.sec \div 3600 \notin s.hours THEN advance_to_next_hour(t)
                  ELSE IF (t.sec \div 60) % 60 \notin s.minutes THEN advance_to_next_minute(t)
                  ELSE IF t.sec % 60 \notin s.seconds THEN Instant(t.day, t.sec + 1) ELSE t

\* Strictly after; None when there is none within four years.
next_fire_after(s, after) ==
    LET limit == Instant(after.day + SearchDays, after.sec)
        seek[t \in [day : Nat, sec : 0 .. 86399]] ==
            IF ~NotAfter(t, limit) THEN None ELSE IF Advance(s, t) = t THEN Some(t) ELSE seek[Advance(s, t)]
    IN  seek[Instant(after.day, after.sec + 1)]
=============================================================================
