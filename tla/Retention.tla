----------------------------- MODULE Retention ------------------------------
(***************************************************************************)
(* The retention engine (enshctl/retention.py): which backups of one       *)
(* category the BACKUP_KEEP_* rules delete.  A backup is the local time in *)
(* its name; the list the code walks, newest first, is a set of times.     *)
(***************************************************************************)
EXTENDS Integers, FiniteSets

CONSTANTS Hour(_), Day(_), Month(_), Year(_)   (* the local calendar of a time,
    in days counted from a Monday *)

Rules == {"hourly", "daily", "weekly", "monthly", "yearly"}

\* RetentionConfig; settings.py takes any integer.
Configs == [Rules \cup {"last"} -> Int]

\* The Sunday a day's week starts with; weekday() is 0 on Mondays.
Sunday(day) == day - (((day % 7) + 1) % 7)

Key(rule, t) ==
  CASE rule = "hourly" -> Hour(t)
    [] rule = "daily" -> Day(t)
    [] rule = "weekly" -> Sunday(Day(t))
    [] rule = "monthly" -> Month(t)
    [] rule = "yearly" -> Year(t)

Newer(S, t) == {u \in S : u > t}

\* Mutant: the newest is not counted.
NewestOffByOne(S, n) == {t \in S : Cardinality(Newer(S, t)) \in 1 .. n}

\* The n newest of S.
Newest(S, n) == {t \in S : Cardinality(Newer(S, t)) < n}

\* The first of each key, newest first.
Heads(S, rule) == {t \in S : \A u \in Newer(S, t) : Key(rule, u) # Key(rule, t)}

\* _apply_keep_last(): -1 is every backup, and a number below it is none.
KeepLast(S, n) == IF n = -1 THEN S ELSE Newest(S, n)

\* _apply_time_bucket(): any negative number is no limit.
KeepBucket(S, rule, n) ==
  IF n < 0 THEN Heads(S, rule) ELSE Newest(Heads(S, rule), n)

\* The safety gate: without a rule nothing is deleted.
Configured(config) == \E r \in Rules \cup {"last"} : config[r] # 0

Kept(S, config) ==
  KeepLast(S, config.last) \cup UNION {KeepBucket(S, r, config[r]) : r \in Rules}

\* apply_retention().
Doomed(S, config) == IF Configured(config) THEN S \ Kept(S, config) ELSE {}
=============================================================================
