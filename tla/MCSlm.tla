-------------------------------- MODULE MCSlm -------------------------------
EXTENDS Slm

\* Friday, Saturday and Sunday, 15 to 17 May 2026.
Days == Start .. End

Retention == [min_count |-> 1, max_count |-> 1, expire_after |-> <<1, "d">>]

\* "30 1 * * *" and "0 30 1 * * ?": every day at 01:30.
Posix == {[schedule |-> <<Only(30), Only(1), Star, Star, Star>>, retention |-> Retention]}
Quartz == {[schedule |-> <<Only(0), Only(30), Only(1), Star, Star, Star>>, retention |-> Retention]}

\* The first fires after any instant at the first 01:30 to come.
ASSUME PosixFiresDaily == \A p \in Posix : FiresDaily(p)
=============================================================================
