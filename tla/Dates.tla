------------------------------- MODULE Dates -------------------------------
(***************************************************************************)
(* The dates, times and datetimes of objects/datetime/datetime.py, which   *)
(* stand between the classes of pendulum and those of the standard         *)
(* library.  A wall clock is an ordinal day and an hour of it; the zones   *)
(* are UTC and a "local" one whose clock is put back once, so that one of  *)
(* its hours is read twice: fold tells the two readings apart.  And Interval*)
(* and Intervals of objects/datetime/interval.py: an interval is pendulum's*)
(* (external: it notes an inverted order, and swaps the ends of an absolute*)
(* one), with ends of the package's own classes.                           *)
(***************************************************************************)
EXTENDS Integers, FiniteSets, Sequences, SequencesExt, Python

CONSTANTS
  Hours,         \* hours of a day
  MonthLengths,  \* days of each month of the calendar, in order
  Repeated       \* wall hour, counted from day 0, that the local zone reads twice

DatesAssumption ==
  /\ Hours \in Nat \ {0} /\ Repeated \in Nat
  /\ MonthLengths \in Seq(Nat \ {0}) /\ MonthLengths # <<>>

VARIABLES
  original,  \* the value the conversions start from
  value,     \* what they have made of it
  made,      \* the interval that was constructed
  interval,  \* what copies and conversions have made of it
  anchor     \* the reference of get_intervals: the day and the number of periods

-----------------------------------------------------------------------------
(* The calendar.                                                           *)
BeforeMonth[m \in 1..Len(MonthLengths) + 1] ==
  IF m = 1 THEN 0 ELSE BeforeMonth[m - 1] + MonthLengths[m - 1]
Days == 0..BeforeMonth[Len(MonthLengths) + 1] - 1
MonthOf(day) == CHOOSE m \in DOMAIN MonthLengths : day \in BeforeMonth[m]..BeforeMonth[m + 1] - 1
DayOfMonth(day) == day - BeforeMonth[MonthOf(day)] + 1

\* subtract(months=n): the day of the month is kept, or clamped to the last one
SubtractMonths(day, n) ==
  LET m == MonthOf(day) - n
      d == IF DayOfMonth(day) > MonthLengths[m] THEN MonthLengths[m] ELSE DayOfMonth(day)
  IN BeforeMonth[m] + d - 1

IsWeekend(day) == day % 7 \in {5, 6}

(* An instant: the local clock is an hour ahead of UTC until it is put     *)
(* back.  A naive value is read as UTC.                                    *)
Offset(zone, wall, fold) ==
  IF zone = "local" /\ (wall < Repeated \/ (wall = Repeated /\ fold = 0)) THEN 1 ELSE 0
Wall(v) == v.day * Hours + v.hour
Instant(v) == Wall(v) - Offset(v.zone, Wall(v), v.fold)
IsTwice(v) == v.zone = "local" /\ Wall(v) = Repeated

\* in_timezone: the wall clock of an instant in a zone
At(instant, zone) ==
  LET wall == instant + (IF zone = "local" /\ instant < Repeated THEN 1 ELSE 0)
  IN [day |-> wall \div Hours, hour |-> wall % Hours, zone |-> zone,
      fold |-> IF zone = "local" /\ instant = Repeated THEN 1 ELSE 0]

-----------------------------------------------------------------------------
(* The three classes, each in the package's own form ("mayutils"), in      *)
(* pendulum's and in the standard library's ("base").                      *)
DateAs(family, day) ==
  [kind |-> "date", family |-> family, day |-> day, hour |-> 0, zone |-> None, fold |-> 0]
TimeAs(family, hour, zone) ==
  [kind |-> "time", family |-> family, day |-> 0, hour |-> hour, zone |-> zone, fold |-> 0]
DateTimeAs(family, day, hour, zone, fold) ==
  [kind |-> "datetime", family |-> family, day |-> day, hour |-> hour, zone |-> zone, fold |-> fold]

\* none of the conversions hands the fold on
DateFrom(v) == DateAs("mayutils", v.day)                           \* Date.from_pendulum, from_base
DateOut(v, family) == DateAs(family, v.day)                        \* Date.as_pendulum, as_base
TimeFromPendulum(v) == TimeAs("mayutils", v.hour, v.zone)
TimeFromBase(v) == TimeAs("mayutils", v.hour, IF v.zone = None THEN "UTC" ELSE v.zone)
TimeAsPendulum(v) == TimeAs("pendulum", v.hour, v.zone)
TimeAsBase(v) == TimeAs("base", v.hour, None)
DateTimeFromNaive(v) == DateTimeAs("mayutils", v.day, v.hour, None, 0)
DateTimeFrom(v) == DateTimeAs("mayutils", v.day, v.hour, v.zone, 0)
DateTimeOut(v, family) == DateTimeAs(family, v.day, v.hour, v.zone, 0)

Date(v) == DateAs("mayutils", v.day)                                \* DateTime.date
Time(v) == TimeAs("mayutils", v.hour, None)                         \* DateTime.time
ToDateTime(v, tz) == DateTimeAs("mayutils", v.day, 0, tz, 0)        \* Date.to_datetime
On(time, date) == DateTimeAs("mayutils", date.day, time.hour, time.zone, 0)

(* A text: what it spells, and the zone it names, None when it has none.   *)
(* pendulum reads a text as a datetime whatever it spells; one that is no  *)
(* text is taken for what it is.                                           *)
IsText(v) == v.kind = "text"
ParseValue(v) ==
  CASE IsText(v) -> DateTimeAs("mayutils", v.day, v.hour, IF v.zone = None THEN "UTC" ELSE v.zone, 0)
    [] v.kind = "datetime" -> IF v.family = "base" THEN v ELSE DateTimeFrom(v)
    [] v.kind = "time" -> IF v.family = "base" THEN v ELSE TimeFromPendulum(v)
    [] v.kind = "date" -> IF v.family = "base" THEN v ELSE DateFrom(v)
DateParse(v) == LET out == ParseValue(v) IN IF out.kind = "datetime" THEN Date(out) ELSE out
TimeParse(v) == LET out == ParseValue(v) IN IF out.kind = "datetime" THEN Time(out) ELSE out
\* with a format the zone of the call stands in for one the text does not name
FromFormat(v, tz) ==
  DateTimeAs("mayutils", v.day, v.hour, IF v.zone = None THEN tz ELSE v.zone,
             IF IsTwice([v EXCEPT !.zone = IF v.zone = None THEN tz ELSE v.zone]) THEN 1 ELSE 0)
DateTimeParse(v, fmt, tz) == IF fmt THEN FromFormat(v, tz) ELSE ParseValue(v)

DateCoerce(v, fmt) ==
  CASE IsText(v) -> IF fmt THEN Date(FromFormat(v, "UTC")) ELSE DateParse(v)
    [] v.kind = "datetime" /\ v.family = "mayutils" -> Date(v)
    [] v.kind = "date" /\ v.family = "mayutils" -> v
    [] OTHER -> DateFrom(v)
DateTimeCoerce(v, fmt, tz) ==
  CASE IsText(v) -> DateTimeParse(v, fmt, tz)
    [] v.kind = "datetime" /\ v.family = "mayutils" -> v
    [] OTHER -> DateTimeFrom(v)

(* Seconds since the epoch are instants: the datetime is made in UTC and   *)
(* always put in the zone asked for.                                       *)
FromTimestamp(instant, tz) ==
  LET in == At(instant, tz) IN DateTimeAs("mayutils", in.day, in.hour, tz, in.fold)

Today(now) == DateTimeAs("mayutils", now.day, 0, now.zone, 0)
Tomorrow(now) == [Today(now) EXCEPT !.day = @ + 1]
Yesterday(now) == [Today(now) EXCEPT !.day = @ - 1]
\* the day of an instant in the time's own zone, the local one where it has none
TimeToday(v, instant) ==
  LET now == At(instant, IF v.zone = None THEN "local" ELSE v.zone)
  IN DateTimeAs("mayutils", now.day, v.hour, now.zone, now.fold)

-----------------------------------------------------------------------------
Zones == {"UTC", "local"}
Originals ==
  {FromTimestamp(i, tz) : i \in 0..Repeated + 2, tz \in Zones}
  \cup {DateAs("mayutils", d) : d \in 0..1}
  \cup {TimeAs("mayutils", h, tz) : h \in 0..Hours - 1, tz \in Zones \cup {None}}

DatesInit == original \in Originals /\ value = original

(* A value leaves the package ...                                          *)
GoOut(family) ==
  /\ value.family = "mayutils"
  /\ value' = CASE value.kind = "date" -> DateOut(value, family)
                [] value.kind = "datetime" -> DateTimeOut(value, family)
                [] value.kind = "time" /\ family = "pendulum" -> TimeAsPendulum(value)
                [] value.kind = "time" /\ family = "base" -> TimeAsBase(value)
  /\ UNCHANGED original

(* ... and comes back, converted or coerced.                               *)
ComeBack(coerced) ==
  /\ value.family # "mayutils"
  /\ value' = CASE value.kind = "date" -> IF coerced THEN DateCoerce(value, FALSE) ELSE DateFrom(value)
                [] value.kind = "datetime" ->
                     IF coerced THEN DateTimeCoerce(value, FALSE, "UTC") ELSE DateTimeFrom(value)
                [] value.kind = "time" /\ value.family = "pendulum" -> TimeFromPendulum(value)
                [] value.kind = "time" /\ value.family = "base" -> TimeFromBase(value)
  /\ UNCHANGED original

(* Or it is taken apart and put together: the time of a datetime on the    *)
(* date of it, a datetime narrowed to its date, a date made a datetime.    *)
Reparse == value.family = "mayutils" /\ value' = ParseValue(value) /\ UNCHANGED original
Narrow == value.family = "mayutils" /\ value.kind = "datetime" /\ value' = Date(value) /\ UNCHANGED original
Widen(tz) == value.family = "mayutils" /\ value.kind = "date" /\ value' = ToDateTime(value, tz) /\ UNCHANGED original

DatesNext ==
  \/ \E family \in {"pendulum", "base"} : GoOut(family)
  \/ \E coerced \in BOOLEAN : ComeBack(coerced)
  \/ Reparse \/ Narrow \/ \E tz \in Zones : Widen(tz)

(* However often a datetime goes out of the package and comes back, it is  *)
(* the same instant, unless it was the second reading of the hour that the *)
(* clock repeats (no conversion hands the fold on); a time keeps its hour, *)
(* and its zone until the standard library has had it; a datetime or a     *)
(* date narrowed and widened keeps its day.                                *)
InstantsKept ==
  /\ (value.kind = "datetime" /\ original.kind = "datetime" /\ value.hour # 0 /\ original.fold = 0)
       => Instant(value) = Instant(original)
  /\ value.kind = "time" => value.hour = original.hour /\ value.zone \in {original.zone, None, "UTC"}
  /\ value.kind \in {"date", "datetime"} => value.day = original.day

(* A datetime that is taken apart into its date and its time, however the  *)
(* time is got, spells the same clock when they are put together, but in no*)
(* zone: DateTime.time drops it.  "Place this time on today's date in its  *)
(* own timezone" (Time.today): on the day of its own instant the time of a *)
(* datetime is that instant again as long as it has the zone, and in the   *)
(* local zone without: of a datetime in UTC it then is another instant, and*)
(* next to midnight another day, but the same hour.                        *)
PartsFitTogether ==
  original.kind = "datetime" =>
    LET time == Time(original)
        again == On(time, Date(original))
        bare == TimeToday(time, Instant(original))
        zoned == TimeToday([time EXCEPT !.zone = original.zone], Instant(original))
    IN /\ TimeParse(original) = time /\ again.zone = None
       /\ Wall(again) = Wall(original)
       /\ Instant(zoned) = Instant(original) /\ zoned.zone = original.zone
       /\ bare.zone = "local" /\ bare.hour = original.hour
       /\ original.zone = "local" => Instant(bare) = Instant(original)

(* A timestamp, put in any zone, is the instant it was made from, also in  *)
(* the hour that is read twice; midnight today is no later than now, and   *)
(* tomorrow's is.                                                          *)
TimestampsAreInstants ==
  original.kind = "datetime" =>
    /\ \A tz \in Zones : Instant(FromTimestamp(Instant(original), tz)) = Instant(original)
    /\ Wall(Yesterday(original)) < Wall(Today(original))
    /\ Wall(Today(original)) <= Wall(original) /\ Wall(original) < Wall(Tomorrow(original))

-----------------------------------------------------------------------------
(* Intervals.                                                              *)
Reads(v) == Instant(v)  \* the order of the ends
Interval(start, end, absolute) ==
  LET invert == Reads(start) > Reads(end)
      swap == invert /\ absolute
  IN [start |-> IF swap THEN end ELSE start, end |-> IF swap THEN start ELSE end,
      absolute |-> absolute, invert |-> invert]

PromotePendulum(v) ==
  CASE v.family = "mayutils" -> v
    [] v.family = "pendulum" /\ v.kind = "datetime" -> DateTimeFrom(v)
    [] OTHER -> DateFrom(v)
Start(i) == PromotePendulum(i.start)
End(i) == PromotePendulum(i.end)

CoercingDate(start, end, absolute) == Interval(DateCoerce(start, FALSE), DateCoerce(end, FALSE), absolute)
CoercingDateTime(start, end, absolute, fmt) ==
  Interval(DateTimeCoerce(start, fmt, "UTC"), DateTimeCoerce(end, fmt, "UTC"), absolute)

\* the ends of an inverted interval are handed over in the order they were given in
Unswapped(i, start, end) == Interval(IF i.invert THEN end ELSE start, IF i.invert THEN start ELSE end, i.absolute)
FromPendulumInterval(i) == Unswapped(i, PromotePendulum(i.start), PromotePendulum(i.end))
DeepCopy(i) == Unswapped(i, Start(i), End(i))

Out(v, family) == IF v.kind = "date" THEN DateOut(v, family) ELSE DateTimeOut(v, family)
AsPendulum(i) == Interval(Out(Start(i), "pendulum"), Out(End(i), "pendulum"), i.absolute)
AsSlice(i) ==
  IF i.invert THEN <<Out(End(i), "base"), Out(Start(i), "base")>>
  ELSE <<Out(Start(i), "base"), Out(End(i), "base")>>

ToDateInterval(i) ==
  IF Start(i).kind = "datetime" /\ End(i).kind = "datetime"
  THEN CoercingDate(Date(Start(i)), Date(End(i)), i.absolute)
  ELSE CoercingDate(Start(i), End(i), i.absolute)
ToDateTimeInterval(i) ==
  IF Start(i).kind = "datetime" /\ End(i).kind = "datetime"
  THEN CoercingDateTime(Start(i), End(i), i.absolute, FALSE)
  ELSE CoercingDateTime(ToDateTime(Start(i), "UTC"), ToDateTime(End(i), "UTC"), i.absolute, FALSE)

\* equality and hash: the type and the ends; neither the order nor the mode
IntervalKey(i) == <<Start(i).kind, Start(i), End(i)>>
IsEqual(i, j) == IntervalKey(i) = IntervalKey(j)

(* range: day by day from the start while the end is not passed, backwards *)
(* when the interval runs backwards.                                       *)
DaysOf(i) ==
  LET a == Start(i) b == End(i)
      step(n) == [a EXCEPT !.day = IF i.invert /\ ~i.absolute THEN @ - n ELSE @ + n]
      within(v) == IF i.invert /\ ~i.absolute THEN Reads(v) >= Reads(b) ELSE Reads(v) <= Reads(b)
  IN {step(n).day : n \in {n \in 0..Hours * 10 : within(step(n))}}
CountWeekdays(i) ==
  [weekdays |-> Cardinality({d \in DaysOf(i) : ~IsWeekend(d)}),
   weekends |-> Cardinality({d \in DaysOf(i) : IsWeekend(d)})]

-----------------------------------------------------------------------------
(* slice_interval of frames and series, by the type of their index.        *)
SliceInterval(i, index) ==
  IF index = "datetime" THEN AsSlice(ToDateTimeInterval(i)) ELSE AsSlice(ToDateInterval(ToDateTimeInterval(i)))

-----------------------------------------------------------------------------
(* Intervals keeps its intervals sorted by their ends.                     *)
Earlier(i, j) ==
  \/ Reads(Start(i)) < Reads(Start(j))
  \/ Reads(Start(i)) = Reads(Start(j)) /\ Reads(End(i)) <= Reads(End(j))
Sorted(intervals) == SortSeq(intervals, LAMBDA i, j : Earlier(i, j) /\ ~Earlier(j, i))
Sliced(intervals, first, last) == Sorted(SubSeq(intervals, first, last))

(* set(day=...) raises where the month does not have the day.              *)
SetDay(v, day) == [v EXCEPT !.day = BeforeMonth[MonthOf(@)] + day - 1]
HasDay(v, day) == day <= MonthLengths[MonthOf(v.day)]
MonthsBack(v, n) == [v EXCEPT !.day = SubtractMonths(@, n)]
GetIntervalsUnset(dt, periods, day, absolute) ==
  LET bound(n) == SetDay(MonthsBack(dt, n), IF day = None THEN DayOfMonth(dt.day) ELSE day)
      build[idx \in 1..periods] == Interval(bound(periods - idx + 1), MonthsBack(dt, periods - idx), absolute)
  IN Sorted(build)
GetIntervals(dt, periods, day, absolute) ==
  LET anchorDay == IF day = None THEN DayOfMonth(dt.day) ELSE day
      bound(n) == SetDay(MonthsBack(dt, n), anchorDay)
      build[idx \in 1..periods] == Interval(bound(periods - idx + 1), bound(periods - idx), absolute)
  IN IF \E n \in 0..periods : ~HasDay(MonthsBack(dt, n), anchorDay) THEN None  \* ValueError
     ELSE Sorted(build)

-----------------------------------------------------------------------------
SmallEnds ==
  {DateAs("mayutils", d) : d \in {0, 3, 5, 9}}
  \cup {DateTimeAs("mayutils", d, 1, "UTC", 0) : d \in {0, 4}}
  \cup {DateTimeAs("mayutils", Repeated \div Hours, Repeated % Hours, "local", 0)}

IntervalsInit ==
  /\ \E a, b \in SmallEnds, absolute \in BOOLEAN :
       a.kind = b.kind /\ made = Interval(a, b, absolute)
  /\ interval = made
  /\ anchor \in [day : Days, periods : 1..2, set : {None} \cup (1..3), absolute : BOOLEAN]
  /\ MonthOf(anchor.day) > anchor.periods

CopyInterval == interval' = DeepCopy(interval) /\ UNCHANGED <<made, anchor>>
ThroughPendulum == interval' = FromPendulumInterval(AsPendulum(interval)) /\ UNCHANGED <<made, anchor>>
NarrowInterval ==
  interval.start.kind = "datetime" /\ interval' = ToDateInterval(interval) /\ UNCHANGED <<made, anchor>>
WidenInterval ==
  interval.start.kind = "date" /\ interval' = ToDateTimeInterval(interval) /\ UNCHANGED <<made, anchor>>
IntervalsNext == CopyInterval \/ ThroughPendulum \/ NarrowInterval \/ WidenInterval

(* An interval that runs forwards or is absolute is copied whole, its      *)
(* order and its slice with it, however it was copied, converted and       *)
(* widened before; an absolute one never runs backwards, and covers the    *)
(* days of the one it was made from.                                       *)
CopiesAreWhole ==
  (made.absolute \/ ~made.invert) =>
    /\ IsEqual(DeepCopy(interval), interval) /\ AsSlice(DeepCopy(interval)) = AsSlice(interval)
    /\ DeepCopy(interval).invert = interval.invert
    /\ FromPendulumInterval(interval) = interval
    /\ Reads(Start(interval)) <= Reads(End(interval))
    /\ <<Start(interval).day, End(interval).day>> = <<Start(made).day, End(made).day>>

(* An interval reads the same in both directions: the rows that frames and *)
(* series slice by it are those between its ends, whichever comes first    *)
(* and whatever copied it before, and its weekdays and weekends are all    *)
(* its days, both ends included, and as many when it runs backwards.       *)
ReadsBothWays ==
  LET back(i) == Interval(i.end, i.start, FALSE)
      slice == SliceInterval(interval, interval.start.kind)
      span == End(made).day - Start(made).day
      count == CountWeekdays(made)
  IN /\ Reads(slice[1]) <= Reads(slice[2])
     /\ SliceInterval(back(interval), interval.start.kind) = slice
     /\ made.start.kind = "date" =>
          /\ count.weekdays + count.weekends = 1 + (IF span < 0 THEN -span ELSE span)
          /\ CountWeekdays(back(made)) = count

(* get_intervals, where no month of the window is too short for the day,   *)
(* gives as many intervals as asked for, in order, each a month that       *)
(* begins where the one before ends, and the last ends on the day of the   *)
(* month of the reference; a slice of them is those of that place.         *)
MonthsTile ==
  LET dt == DateTimeAs("mayutils", anchor.day, 1, "UTC", 0)
      got == GetIntervals(dt, anchor.periods, anchor.set, anchor.absolute)
  IN got # None =>
       /\ Len(got) = anchor.periods
       /\ \A k \in 1..Len(got) - 1 : End(got[k]) = Start(got[k + 1])
       /\ \A k \in DOMAIN got : Sliced(got, k, Len(got)) = SubSeq(got, k, Len(got))
       /\ \A k \in DOMAIN got : MonthOf(End(got[k]).day) = MonthOf(Start(got[k]).day) + 1
       /\ MonthOf(End(got[Len(got)]).day) = MonthOf(anchor.day)
       /\ DayOfMonth(End(got[Len(got)]).day) = (IF anchor.set = None THEN DayOfMonth(anchor.day) ELSE anchor.set)

(* The datetimes above, their parts, and the timestamps they are made from.*)
DatesKeepTheirInstants == InstantsKept /\ PartsFitTogether /\ TimestampsAreInstants

(* The intervals above: whole when copied, the same both ways, and tiling  *)
(* when they are months.                                                   *)
IntervalsKeepTheirEnds == CopiesAreWhole /\ ReadsBothWays /\ MonthsTile
=============================================================================
