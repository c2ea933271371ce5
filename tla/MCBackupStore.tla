--------------------------- MODULE MCBackupStore ----------------------------
(* BackupStore with one category, whose newest backup alone is kept, as the  *)
(* last one and as the head of the newest hour: the clock stays within it.    *)
EXTENDS BackupStore
MCHour(t) == 0
MCDay(t) == 0
MCMonth(t) == 0
MCYear(t) == 0
MCCategories == <<"cold">>
MCConfig == [r \in Rules \cup {"last"} |-> IF r \in {"last", "hourly"} THEN 1 ELSE 0]
=============================================================================
