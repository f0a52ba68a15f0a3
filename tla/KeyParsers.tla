----------------------------- MODULE KeyParsers -----------------------------
(***************************************************************************)
(* What an object's key tells (parsers/*.py) and the range of days that is *)
(* configured (archive_date_range.py).                                     *)
(*                                                                         *)
(* A name in a key is a pair of a kind and a number: <<"text", i>>, a year *)
(* <<"year", y>>, two digits <<"two", n>>, or a name in which a regular    *)
(* expression finds a time, <<"stamp", t>>.  Times are in UTC and numbered *)
(* in their order.  An object is a record of its folder, the times and the *)
(* malformed times found in its base name, and when it was modified.       *)
(***************************************************************************)
EXTENDS Naturals, Sequences, FiniteSetsExt

CONSTANT None

Names == {"text", "year", "two", "stamp"} \X Nat

Parsers == {"direct", "filename_timestamp", "folder_timestamp", "folder_timestamp_child"}

-----------------------------------------------------------------------------
(* The calendar                                                            *)

Day(y, m, d) == (y * 13 + m) * 32 + d
Time(day, hour) == day * 24 + hour
DayOf(time) == time \div 24

(* The leading components of a day: year, month, day.                      *)
Leading(day, n) == CASE n = 1 -> day \div 416 [] n = 2 -> day \div 32 [] n = 3 -> day

LastDay(y, m) ==
  CASE m \in {4, 6, 9, 11} -> 30
    [] m = 2 -> IF (y % 4 = 0 /\ y % 100 # 0) \/ y % 400 = 0 THEN 29 ELSE 28
    [] OTHER -> 31

(* A day that there is, and a time of such a day.                          *)
IsCalendarDay(day) ==
  LET m == (day \div 32) % 13 IN m \in 1..12 /\ day % 32 \in 1..LastDay(day \div 416, m)
IsTime(t) == t \in Nat /\ IsCalendarDay(DayOf(t))

-----------------------------------------------------------------------------
(* Date bounds: a sequence of one, two or three numbers, or None           *)

(* Mutant: the first day of the period, for the end too.                   *)
BoundAtStart(text, bound) ==
  Day(text[1], IF Len(text) > 1 THEN text[2] ELSE IF bound = "start" THEN 1 ELSE 12,
      IF Len(text) > 2 THEN text[3] ELSE 1)

(* parse_date_bound                                                        *)
Bound(text, bound) ==
  LET y == text[1]
      m == IF Len(text) > 1 THEN text[2] ELSE IF bound = "start" THEN 1 ELSE 12
      d == IF Len(text) > 2 THEN text[3] ELSE IF bound = "start" THEN 1 ELSE LastDay(y, m)
  IN  Day(y, m, d)

IsBound(text) ==
  text # None =>
    /\ Len(text) > 1 => text[2] \in 1..12
    /\ Len(text) > 2 => text[3] \in 1..LastDay(text[1], text[2])

(* parse_archive_date_range_result: the bounds are in order.               *)
IsRange(from, to) ==
  /\ IsBound(from) /\ IsBound(to)
  /\ from # None /\ to # None => Bound(from, "start") <= Bound(to, "end")

Includes(from, to, day) ==
  /\ from # None => Bound(from, "start") <= day
  /\ to # None => day <= Bound(to, "end")

-----------------------------------------------------------------------------
(* Times in folders                                                        *)

IsYear(name) == name[1] = "year"
IsMonth(name) == name[1] = "two" /\ name[2] \in 1..12
IsDay(name) == name[1] = "two" /\ name[2] \in 1..31
IsHour(name) == name[1] = "two" /\ name[2] \in 0..23
IsStamp(name) == name[1] = "stamp"

LooksLikeDay(f, i) ==
  i >= 1 /\ i + 2 <= Len(f) /\ IsYear(f[i]) /\ IsMonth(f[i + 1]) /\ IsDay(f[i + 2])
HasHour(f, i) == i + 3 <= Len(f) /\ IsHour(f[i + 3])

(* Where year, month and day folders are a date, with the hour after them. *)
Dates(f) ==
  {i \in 1..Len(f) : LooksLikeDay(f, i) /\ f[i + 2][2] <= LastDay(f[i][2], f[i + 1][2])}
DateAt(f, i) == Day(f[i][2], f[i + 1][2], f[i + 2][2])
TimeAt(f, i) == Time(DateAt(f, i), IF HasHour(f, i) THEN f[i + 3][2] ELSE 0)

(* _path_candidates: the regular expression reads across the slashes, but  *)
(* takes no hour after one.                                                *)
PathTimes(f) ==
  {Time(DateAt(f, i), 0) : i \in Dates(f)} \cup {TimeAt(f, i) : i \in Dates(f)}
    \cup {f[i][2] : i \in {i \in 1..Len(f) : IsStamp(f[i])}}

Latest(times) == IF times = {} THEN None ELSE Max(times)

(* _pick_candidate: a time of the base name that the folders agree with.   *)
Pick(stamps, times) == Latest(IF stamps \cap times # {} THEN stamps \cap times ELSE stamps)

(* select_key_timestamp                                                    *)
KeyTime(o) ==
  CASE o.stamps # {} -> Pick(o.stamps, PathTimes(o.folder))
    [] o.stamps = {} /\ o.malformed -> None
    [] o.stamps = {} /\ ~o.malformed -> Latest(PathTimes(o.folder))

-----------------------------------------------------------------------------
(* The archive root                                                        *)

(* _strip_one_timestamp_suffix, the number of names that it takes away.    *)
Stripped(f) ==
  LET n == Len(f) IN
  CASE LooksLikeDay(f, n - 3) /\ HasHour(f, n - 3) -> 4
    [] ~(LooksLikeDay(f, n - 3) /\ HasHour(f, n - 3)) /\ LooksLikeDay(f, n - 2) -> 3
    [] ~LooksLikeDay(f, n - 2) /\ n > 0 /\ IsStamp(f[n]) -> 1
    [] OTHER -> 0

(* Mutant: one is taken away, not all.                                     *)
RootStrippedOnce(f) == SubSeq(f, 1, Len(f) - Stripped(f))

(* archive_root_for_key                                                    *)
RootOf(f) ==
  LET from[n \in 0..Len(f)] == IF Stripped(SubSeq(f, 1, n)) = 0 THEN SubSeq(f, 1, n)
                               ELSE from[n - Stripped(SubSeq(f, 1, n))]
  IN  from[Len(f)]

(* The date whose time is the latest, the first of those.                  *)
LatestDate(f) ==
  LET Best == {i \in Dates(f) : \A j \in Dates(f) : TimeAt(f, j) <= TimeAt(f, i)} IN Min(Best)

(* _selected_span: where the child folder after the date is.               *)
ChildAt(f) == LET i == LatestDate(f) IN IF HasHour(f, i) THEN i + 4 ELSE i + 3

-----------------------------------------------------------------------------
(* What a regular expression finds in a name is a time that there is.      *)
IsObject(o) ==
  /\ o.folder \in Seq(Names)
  /\ \A i \in 1..Len(o.folder) : IsStamp(o.folder[i]) => IsTime(o.folder[i][2])
  /\ IsFiniteSet(o.stamps) /\ \A t \in o.stamps \cup {o.modified} : IsTime(t)

Told(time, root) == IF time = None THEN None ELSE [time |-> time, root |-> root]

(* What each parser tells: a time and an archive root, or None for an      *)
(* object to skip.                                                         *)
ByDirect(o) == Told(o.modified, o.folder)
ByFilename(o) == Told(KeyTime(o), RootOf(o.folder))
ByFolder(o) == Told(Latest(PathTimes(o.folder)), RootOf(o.folder))
ByFolderChild(o) ==
  LET f == o.folder IN
  IF Dates(f) = {} THEN None
  ELSE IF ChildAt(f) > Len(f) THEN None
  ELSE Told(TimeAt(f, LatestDate(f)), SubSeq(f, 1, ChildAt(f)))

(* parser_for_kind                                                         *)
Parse(parser, o) ==
  CASE parser = "direct" -> ByDirect(o)
    [] parser = "filename_timestamp" -> ByFilename(o)
    [] parser = "folder_timestamp" -> ByFolder(o)
    [] parser = "folder_timestamp_child" -> ByFolderChild(o)
=============================================================================
