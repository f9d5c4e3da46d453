----------------------------- MODULE FrontProofs -----------------------------
(***************************************************************************)
(* Proofs about the rest of the parts that Front puts together - the       *)
(* search for the next run, the panel, the installation, the dashboard,    *)
(* the error budgets and the baseline - and about all of them together.    *)
(***************************************************************************)
EXTENDS ServerProofs

-----------------------------------------------------------------------------
(* The search for the next run of a cron expression.                       *)

(* The assumptions on the calendar.                                        *)
LEMMA Calendar ==
    /\ HourMinutes \in Nat \ {0} /\ DayHours \in Nat \ {0} /\ MonthDays \in Nat \ {0}
    /\ Months \in Nat \ {0} /\ WeekDays \in Nat \ {0} /\ Bases \subseteq Int
    /\ Spring \in Int /\ Autumn \in Int /\ Spring + HourMinutes <= Autumn
    /\ Spring % HourMinutes = 0 /\ Autumn % HourMinutes = 0
BY FrontAssumption

(* Clocks.                                                                 *)
LEMMA HalfOf == ASSUME NEW a \in Nat \ {0}
                PROVE  a \div 2 \in Nat /\ (a = 1 => a \div 2 = 0) /\ (a # 1 => a \div 2 # 0)
                       /\ a \div 2 < a
OBVIOUS

Summer(t) == Spring <= t /\ t < Autumn

(* Wall clocks: summer time is one hour ahead, in summer.                  *)
LEMMA WallIs ==
    ASSUME NEW t \in Int
    PROVE  /\ C!Wall("utc", t) = t
           /\ Summer(t) => C!Wall("summer", t) = t + HourMinutes
           /\ ~Summer(t) => C!Wall("summer", t) = t
BY Calendar DEF C!Wall, C!Offset, Summer

(* The least element of a set.                                             *)
LEMMA MinIs ==
    ASSUME NEW q \in SUBSET Int, NEW m \in q, \A n \in q : m <= n
    PROVE  C!Min(q) = m
<1> DEFINE least(x) == \A y \in q : x <= y
<1>1. C!Min(q) = CHOOSE x \in q : least(x)
  BY DEF C!Min
<1>2. m \in q /\ least(m)
  OBVIOUS
<1> HIDE DEF least
<1>3. C!Min(q) \in q /\ least(C!Min(q))
  BY <1>1, <1>2
<1>4. C!Min(q) <= m /\ m <= C!Min(q) /\ C!Min(q) \in Int
  BY <1>2, <1>3 DEF least
<1> QED
  BY <1>4

LEMMA AtWallUtc == ASSUME NEW w \in Int PROVE C!AtWall("utc", w) = w
<1> DEFINE at == {t \in {w, w - HourMinutes, w - HourMinutes \div 2} : C!Wall("utc", t) = w}
<1>1. HourMinutes \in Int /\ HourMinutes \div 2 \in Int
  BY Calendar, HalfOf
<1>2. at = {w}
  BY <1>1, WallIs
<1>3. C!Min(at) = w
  BY <1>2, MinIs
<1> HIDE DEF at
<1> QED
  BY <1>2, <1>3 DEF C!AtWall, at

(* The moment a wall clock with summer time shows a time, the first one    *)
(* if there are two.                                                       *)
LEMMA AtWallSummer ==
    ASSUME NEW w \in Int
    PROVE  /\ Spring + HourMinutes <= w /\ w < Autumn + HourMinutes
              => C!AtWall("summer", w) = w - HourMinutes
           /\ ~(Spring + HourMinutes <= w /\ w < Autumn + HourMinutes)
              => C!AtWall("summer", w) = w
<1> DEFINE at == {t \in {w, w - HourMinutes, w - HourMinutes \div 2} : C!Wall("summer", t) = w}
           half == HourMinutes \div 2
<1>1. /\ HourMinutes \in Nat \ {0} /\ half \in Nat /\ half < HourMinutes
      /\ HourMinutes = 1 => half = 0
  BY Calendar, HalfOf
<1>2. C!AtWall("summer", w) = IF at = {} THEN w ELSE C!Min(at)
  BY DEF C!AtWall
<1>3. at \subseteq Int /\ \A t \in at : t = w \/ t = w - HourMinutes \/ t = w - half
  BY <1>1
<1>4. /\ w \in at <=> ~Summer(w)
      /\ w - HourMinutes \in at <=> Summer(w - HourMinutes)
      /\ w - half \in at => half = 0
  <2>1. C!Wall("summer", w) = w <=> ~Summer(w)
    BY <1>1, WallIs
  <2>2. C!Wall("summer", w - HourMinutes) = w <=> Summer(w - HourMinutes)
    BY <1>1, WallIs
  <2>3. C!Wall("summer", w - half) = w => half = 0
    BY <1>1, WallIs
  <2> QED
    BY <2>1, <2>2, <2>3
<1> HIDE DEF at, half
<1>5. CASE Spring + HourMinutes <= w /\ w < Autumn + HourMinutes
  <2>1. w - HourMinutes \in at
    BY <1>4, <1>5, Calendar DEF Summer
  <2>2. \A t \in at : w - HourMinutes <= t
    BY <1>1, <1>3
  <2>3. C!Min(at) = w - HourMinutes
    BY <2>1, <2>2, <1>3, MinIs
  <2> QED
    BY <2>1, <2>3, <1>2, <1>5
<1>6. CASE ~(Spring + HourMinutes <= w /\ w < Autumn + HourMinutes)
  <2>1. w - HourMinutes \notin at
    BY <1>4, <1>6, Calendar DEF Summer
  <2>2. \A t \in at : t = w
    BY <2>1, <1>1, <1>3, <1>4
  <2>3. CASE at = {}
    BY <2>3, <1>2, <1>6
  <2>4. CASE at # {}
    <3>1. w \in at
      BY <2>2, <2>4
    <3>2. C!Min(at) = w
      BY <3>1, <2>2, <1>3, MinIs
    <3> QED
      BY <2>4, <3>2, <1>2, <1>6
  <2> QED
    BY <2>3, <2>4
<1> QED
  BY <1>5, <1>6

Hosting == {"utc", "summer"}

(* Only the hour after the end of summer time is shown twice.              *)
LEMMA RepeatedIs ==
    ASSUME NEW t \in Int
    PROVE  /\ ~C!Repeated("utc", t)
           /\ C!Repeated("summer", t) <=> Autumn <= t /\ t < Autumn + HourMinutes
<1>1. ~C!Repeated("utc", t)
  BY WallIs, AtWallUtc DEF C!Repeated
<1>2. CASE Summer(t)
  <2>1. C!Wall("summer", t) = t + HourMinutes /\ t + HourMinutes \in Int
    BY <1>2, WallIs, Calendar
  <2>2. C!AtWall("summer", t + HourMinutes) = (t + HourMinutes) - HourMinutes
    BY <1>2, <2>1, AtWallSummer, Calendar DEF Summer
  <2>3. ~C!Repeated("summer", t)
    BY <2>1, <2>2, Calendar DEF C!Repeated
  <2> QED
    BY <1>1, <1>2, <2>3, Calendar DEF Summer
<1>3. CASE ~Summer(t) /\ Autumn <= t /\ t < Autumn + HourMinutes
  <2>1. C!Wall("summer", t) = t
    BY <1>3, WallIs
  <2>2. C!AtWall("summer", t) = t - HourMinutes
    BY <1>3, AtWallSummer, Calendar
  <2> QED
    BY <1>1, <1>3, <2>1, <2>2, Calendar DEF C!Repeated
<1>4. CASE ~Summer(t) /\ ~(Autumn <= t /\ t < Autumn + HourMinutes)
  <2>1. C!Wall("summer", t) = t
    BY <1>4, WallIs
  <2>2. C!AtWall("summer", t) = t
    BY <1>4, AtWallSummer, Calendar DEF Summer
  <2> QED
    BY <1>1, <1>4, <2>1, <2>2 DEF C!Repeated
<1> QED
  BY <1>2, <1>3, <1>4

(* Wall times within the hour that is left out, in a zone that leaves one  *)
(* out.                                                                    *)
Left(h, w) == h = "summer" /\ Spring < w /\ w < Spring + HourMinutes

(* A jump to a later time of the host's clock, not into the hour that is   *)
(* left out, passes no moments but those in between, and repeated ones.    *)
LEMMA JumpPasses ==
    ASSUME NEW h \in Hosting, NEW c \in Int, NEW w \in Int, NEW t \in Int,
           C!Wall(h, c) < w, ~Left(h, w),
           c <= t, t < C!AtWall(h, w), ~C!Repeated(h, t)
    PROVE  C!Wall(h, c) <= C!Wall(h, t) /\ C!Wall(h, t) < w
<1>1. CASE h = "utc"
  BY <1>1, WallIs, AtWallUtc
<1>2. CASE h = "summer"
  <2>1. ~(Autumn <= t /\ t < Autumn + HourMinutes)
    BY <1>2, RepeatedIs
  <2>2. t < C!AtWall("summer", w) /\ C!Wall("summer", c) < w
    BY <1>2
  <2>3. /\ Summer(c) => C!Wall("summer", c) = c + HourMinutes
        /\ ~Summer(c) => C!Wall("summer", c) = c
        /\ Summer(t) => C!Wall("summer", t) = t + HourMinutes
        /\ ~Summer(t) => C!Wall("summer", t) = t
    BY WallIs
  <2>4. C!Wall("summer", c) <= C!Wall("summer", t)
    BY <2>1, <2>3, Calendar DEF Summer
  <2>5. C!Wall("summer", t) < w
    <3>1. CASE Spring + HourMinutes <= w /\ w < Autumn + HourMinutes
      BY <3>1, <2>1, <2>2, <2>3, AtWallSummer, Calendar DEF Summer, Left
    <3>2. CASE ~(Spring + HourMinutes <= w /\ w < Autumn + HourMinutes)
      BY <3>2, <1>2, <2>1, <2>2, <2>3, AtWallSummer, Calendar DEF Summer, Left
    <3> QED
      BY <3>1, <3>2
  <2> QED
    BY <1>2, <2>4, <2>5
<1> QED
  BY <1>1, <1>2 DEF Hosting

(* It leads to a moment that is not repeated, and from one forward.        *)
LEMMA JumpLeads ==
    ASSUME NEW h \in Hosting, NEW c \in Int, NEW w \in Int, C!Wall(h, c) < w,
           ~Left(h, w)
    PROVE  /\ C!AtWall(h, w) \in Int /\ ~C!Repeated(h, C!AtWall(h, w))
           /\ ~C!Repeated(h, c) => C!AtWall(h, w) > c
<1>1. CASE h = "utc"
  BY <1>1, WallIs, AtWallUtc, RepeatedIs
<1>2. CASE h = "summer"
  <2>1. /\ Summer(c) => C!Wall("summer", c) = c + HourMinutes
        /\ ~Summer(c) => C!Wall("summer", c) = c
        /\ C!Wall("summer", c) < w
        /\ C!Repeated("summer", c) <=> Autumn <= c /\ c < Autumn + HourMinutes
    BY <1>2, WallIs, RepeatedIs
  <2>2. CASE Spring + HourMinutes <= w /\ w < Autumn + HourMinutes
    <3>1. C!AtWall("summer", w) = w - HourMinutes /\ w - HourMinutes \in Int
      BY <2>2, AtWallSummer, Calendar
    <3>2. ~C!Repeated("summer", w - HourMinutes)
      BY <2>2, <3>1, RepeatedIs, Calendar
    <3> QED
      BY <1>2, <2>1, <2>2, <3>1, <3>2, Calendar DEF Summer
  <2>3. CASE ~(Spring + HourMinutes <= w /\ w < Autumn + HourMinutes)
    <3>1. C!AtWall("summer", w) = w
      BY <2>3, AtWallSummer
    <3>2. ~C!Repeated("summer", w)
      BY <2>3, RepeatedIs, Calendar
    <3> QED
      BY <1>2, <2>1, <2>3, <3>1, <3>2, Calendar DEF Summer, Left
  <2> QED
    BY <2>2, <2>3
<1> QED
  BY <1>1, <1>2 DEF Hosting

(* A wall time that a jump to the next minute, hour or day leads to.       *)
LEMMA WholeHours ==
    ASSUME NEW k \in Int
    PROVE  k * HourMinutes \in Int /\ \A h : ~Left(h, k * HourMinutes)
<1> DEFINE s == Spring \div HourMinutes
<1>1. s \in Int /\ Spring = s * HourMinutes + (Spring % HourMinutes)
  BY Calendar, DivBetween, ModBetween
<1>2. Spring = s * HourMinutes /\ s * HourMinutes \in Int /\ k * HourMinutes \in Int
      /\ (s + 1) * HourMinutes = s * HourMinutes + HourMinutes
  BY <1>1, Calendar, NextProduct
<1> HIDE DEF s
<1>3. CASE k <= s
  <2>1. k * HourMinutes <= s * HourMinutes
    BY <1>1, <1>3, Calendar, ProductGrows
  <2> QED
    BY <2>1, <1>2 DEF Left
<1>4. CASE s + 1 <= k
  <2>1. (s + 1) * HourMinutes <= k * HourMinutes
    BY <1>1, <1>4, Calendar, ProductGrows
  <2> QED
    BY <2>1, <1>2, Calendar DEF Left
<1> QED
  BY <1>1, <1>3, <1>4

LEMMA WallType == ASSUME NEW z \in C!Zones, NEW t \in Int PROVE C!Wall(z, t) \in Int
BY Calendar, HalfOf DEF C!Zones, C!Wall, C!Offset

(* A minute more on the wall is ahead.                                     *)
LEMMA MinuteAhead ==
    ASSUME NEW h \in Hosting, NEW c \in Int
    PROVE  /\ C!Wall(h, c) \in Int
           /\ ~Left(h, C!Wall(h, c) + 1)
<1>1. CASE h = "summer"
  BY <1>1, WallIs, Calendar DEF Summer, Left
<1>2. CASE h = "utc"
  BY <1>2, WallIs DEF Left
<1> QED
  BY <1>1, <1>2 DEF Hosting

(* What the expression says of a moment, by the date, the hour and the     *)
(* minute that its clock shows.                                            *)
DayNamed(e, d) ==
    /\ 1 + ((d \div MonthDays) % Months) \in C!Values(e, "month")
    /\ \/ 1 + (d % MonthDays) \in C!Values(e, "dom")
       \/ (d % WeekDays) \in C!Values(e, "dow")

HourNamed(e, h) == (h % DayHours) \in C!Values(e, "hour")
MinuteNamed(e, w) == (w % HourMinutes) \in C!Values(e, "minute")

Named(e, z, t) ==
    /\ DayNamed(e, C!DateOf(C!Wall(z, t))) /\ HourNamed(e, C!HourOf(C!Wall(z, t)))
    /\ MinuteNamed(e, C!Wall(z, t))

LEMMA MatchesIs == ASSUME NEW t PROVE C!Matches(t) <=> Named(expression, zone, t)
BY DEF C!Matches, Named, DayNamed, HourNamed, MinuteNamed, C!Shown

(* What the search looks at, in terms of the wall clock of the schedule.   *)
LEMMA SearchedIs ==
    /\ C!Today <=> DayNamed(expression, C!DateOf(C!Wall(zone, check)))
    /\ C!In("hour") <=> HourNamed(expression, C!HourOf(C!Wall(zone, check)))
    /\ C!In("minute") <=> MinuteNamed(expression, C!Wall(zone, check))
BY DEF C!Today, C!In, C!Now, DayNamed, HourNamed, MinuteNamed, C!Shown

AlignedFor(e, h, z) ==
    \/ h = z
    \/ /\ z # "half"
       /\ C!Values(e, "month") = 1..Months
       /\ \/ C!Values(e, "dom") = 1..MonthDays
          \/ C!Values(e, "dow") = 0..(WeekDays - 1)

(* A search is aligned as stated here.                                     *)
LEMMA AlignedIs == C!Aligned <=> AlignedFor(expression, host, zone)
BY DEF C!Aligned, AlignedFor

LEMMA DateType == ASSUME NEW w \in Int PROVE C!HourOf(w) \in Int /\ C!DateOf(w) \in Int
BY Calendar, DivBetween DEF C!HourOf, C!DateOf

(* When every day is named, no day is passed over.                         *)
LEMMA EveryDay ==
    ASSUME NEW e, NEW h, NEW z, AlignedFor(e, h, z), h # z, NEW d \in Int
    PROVE  DayNamed(e, d)
<1>1. /\ (d \div MonthDays) \in Int /\ (d % MonthDays) \in 0..(MonthDays - 1)
      /\ (d % WeekDays) \in 0..(WeekDays - 1)
      /\ ((d \div MonthDays) % Months) \in 0..(Months - 1)
  BY Calendar, DivBetween, ModBetween
<1> DEFINE month == (d \div MonthDays) % Months
           dom == d % MonthDays
           dow == d % WeekDays
<1>2. month \in 0..(Months - 1) /\ dom \in 0..(MonthDays - 1) /\ dow \in 0..(WeekDays - 1)
  BY <1>1
<1>3. DayNamed(e, d) <=> /\ 1 + month \in C!Values(e, "month")
                         /\ 1 + dom \in C!Values(e, "dom") \/ dow \in C!Values(e, "dow")
  BY DEF DayNamed
<1> HIDE DEF month, dom, dow
<1>4. 1 + month \in 1..Months /\ 1 + dom \in 1..MonthDays
  BY <1>2, Calendar
<1> QED
  BY <1>2, <1>3, <1>4 DEF AlignedFor

(* A whole hour is reached with its number.                                *)
LEMMA HourFrom ==
    ASSUME NEW from \in Int, from % HourMinutes = 0, NEW t \in Int
    PROVE  from <= t <=> from \div HourMinutes <= t \div HourMinutes
<1> DEFINE k == from \div HourMinutes
           hour == t \div HourMinutes
<1>1. /\ k \in Int /\ from = k * HourMinutes + (from % HourMinutes)
      /\ hour \in Int /\ hour * HourMinutes <= t /\ t < hour * HourMinutes + HourMinutes
  BY Calendar, DivBetween, ModBetween
<1>2. /\ from = k * HourMinutes /\ k * HourMinutes \in Int /\ hour * HourMinutes \in Int
      /\ (hour + 1) * HourMinutes = hour * HourMinutes + HourMinutes
  BY <1>1, Calendar, NextProduct
<1> HIDE DEF k, hour
<1>3. CASE k <= hour
  <2>1. k * HourMinutes <= hour * HourMinutes
    BY <1>1, <1>3, Calendar, ProductGrows
  <2> QED
    BY <2>1, <1>1, <1>2, <1>3 DEF k, hour
<1>4. CASE hour + 1 <= k
  <2>1. (hour + 1) * HourMinutes <= k * HourMinutes
    BY <1>1, <1>4, Calendar, ProductGrows
  <2>2. ~(k <= hour) /\ ~(from <= t)
    BY <2>1, <1>1, <1>2, <1>4, Calendar
  <2> QED
    BY <2>2 DEF k, hour
<1> QED
  BY <1>1, <1>3, <1>4

(* An hour later.                                                          *)
LEMMA HourLater ==
    ASSUME NEW t \in Int
    PROVE  (t + HourMinutes) \div HourMinutes = t \div HourMinutes + 1
<1> DEFINE hour == t \div HourMinutes
<1>1. hour \in Int /\ hour * HourMinutes <= t /\ t < hour * HourMinutes + HourMinutes
  BY Calendar, DivBetween
<1>2. (hour + 1) * HourMinutes = hour * HourMinutes + HourMinutes /\ hour * HourMinutes \in Int
  BY <1>1, Calendar, NextProduct
<1> HIDE DEF hour
<1>3. /\ (hour + 1) * HourMinutes <= t + HourMinutes
      /\ t + HourMinutes < (hour + 1) * HourMinutes + HourMinutes
  BY <1>1, <1>2, Calendar
<1>4. hour + 1 \in Int /\ t + HourMinutes \in Int
  BY <1>1, Calendar
<1> QED
  BY <1>3, <1>4, Calendar, DivIs DEF hour

(* The hour of a moment on the clocks of the zones.                        *)
LEMMA HourShown ==
    ASSUME NEW t \in Int
    PROVE  LET hour == t \div HourMinutes
               spring == Spring \div HourMinutes
               autumn == Autumn \div HourMinutes
           IN  /\ {hour, spring, autumn} \subseteq Int
               /\ C!HourOf(C!Wall("utc", t)) = hour
               /\ C!HourOf(C!Wall("summer", t)) =
                     IF spring <= hour /\ hour < autumn THEN hour + 1 ELSE hour
               /\ C!Repeated("summer", t) <=> hour = autumn
<1> DEFINE hour == t \div HourMinutes
           spring == Spring \div HourMinutes
           autumn == Autumn \div HourMinutes
<1>1. hour \in Int /\ spring \in Int /\ autumn \in Int
  BY Calendar, DivBetween
<1>2. (Spring <= t <=> spring <= hour) /\ (Autumn <= t <=> autumn <= hour)
  BY Calendar, HourFrom
<1>3. Autumn + HourMinutes <= t <=> autumn + 1 <= hour
  <2>1. t - HourMinutes \in Int /\ (t - HourMinutes) + HourMinutes = t
    BY Calendar
  <2>2. hour = (t - HourMinutes) \div HourMinutes + 1
    BY <2>1, HourLater
  <2>3. Autumn <= t - HourMinutes <=> autumn <= (t - HourMinutes) \div HourMinutes
    BY <2>1, Calendar, HourFrom
  <2>4. (t - HourMinutes) \div HourMinutes \in Int
    BY <2>1, Calendar, DivBetween
  <2> HIDE DEF hour, autumn
  <2> QED
    BY <2>1, <2>2, <2>3, <2>4, <1>1, Calendar
<1>4. C!HourOf(C!Wall("utc", t)) = hour
  BY WallIs DEF C!HourOf
<1>5. Summer(t) => C!HourOf(C!Wall("summer", t)) = hour + 1
  BY WallIs, HourLater DEF C!HourOf
<1>6. ~Summer(t) => C!HourOf(C!Wall("summer", t)) = hour
  BY WallIs DEF C!HourOf
<1>7. Summer(t) <=> spring <= hour /\ hour < autumn
  BY <1>1, <1>2, Calendar DEF Summer
<1>8. C!Repeated("summer", t) <=> hour = autumn
  BY <1>1, <1>2, <1>3, RepeatedIs, Calendar
<1> HIDE DEF hour, spring, autumn
<1>9. C!HourOf(C!Wall("summer", t)) = IF spring <= hour /\ hour < autumn THEN hour + 1 ELSE hour
  BY <1>5, <1>6, <1>7
<1> QED
  BY <1>1, <1>4, <1>8, <1>9 DEF hour, spring, autumn

(* Moments of one hour by the host's clock, the later of them not          *)
(* repeated, are of one hour in every zone that is whole hours off.        *)
LEMMA SameHour ==
    ASSUME NEW h \in Hosting, NEW z \in Hosting, NEW c \in Int, NEW t \in Int, c <= t,
           ~C!Repeated(h, t), C!HourOf(C!Wall(h, t)) = C!HourOf(C!Wall(h, c))
    PROVE  C!HourOf(C!Wall(z, t)) = C!HourOf(C!Wall(z, c))
<1> DEFINE one == c \div HourMinutes
           two == t \div HourMinutes
<1>1. one \in Int /\ two \in Int /\ one <= two
  BY Calendar, DivBetween, DivGrows
<1>2. one = two
  <2>1. CASE h = "utc"
    BY <2>1, HourShown
  <2>2. CASE h = "summer"
    <3> DEFINE spring == Spring \div HourMinutes
               autumn == Autumn \div HourMinutes
    <3>1. /\ spring \in Int /\ autumn \in Int
          /\ C!HourOf(C!Wall("summer", t)) = IF spring <= two /\ two < autumn THEN two + 1 ELSE two
          /\ C!HourOf(C!Wall("summer", c)) = IF spring <= one /\ one < autumn THEN one + 1 ELSE one
          /\ two # autumn
      BY <2>2, HourShown
    <3> HIDE DEF one, two, spring, autumn
    <3> QED
      BY <3>1, <2>2, <1>1
  <2> QED
    BY <2>1, <2>2 DEF Hosting
<1>3. CASE z = "utc"
  BY <1>2, <1>3, HourShown
<1>4. CASE z = "summer"
  BY <1>2, <1>4, HourShown
<1> QED
  BY <1>3, <1>4 DEF Hosting

-----------------------------------------------------------------------------
(* The moments from one to another are passed over with right: the search  *)
(* names none of them, but for those the host's clock shows again.         *)
Passed(e, h, z, from, to) ==
    AlignedFor(e, h, z) =>
        \A t \in Int : from <= t /\ t < to /\ Named(e, z, t) => C!Repeated(h, t)

(* Where the search has come: it stands at a moment of the hour shown      *)
(* twice only where it began.                                              *)
Reached(h, b, c) ==
    c = b + 1 \/ (~C!Repeated(h, c) /\ (c > b \/ C!Repeated(h, b + 1)))

(* The search stands ahead of its base and has passed over all before      *)
(* with right.                                                             *)
NextRunInv ==
    /\ host \in Hosting /\ zone \in C!Zones /\ base \in Int /\ check \in Int
    /\ state \in {"parsing", "searching", "found", "none"}
    /\ state = "parsing" => check = base
    /\ state \in {"searching", "found"} => Reached(host, base, check)
    /\ Passed(expression, host, zone, base + 1, check)

(* A host lives in a zone.                                                 *)
LEMMA HostsAreZones == Hosting \subseteq C!Zones
BY DEF Hosting, C!Zones

(* A jump keeps the search right if none of the moments it passes is named.*)
LEMMA JumpKeeps ==
    ASSUME NextRunInv, state = "searching", NEW w \in Int, check' = C!AtWall(host, w),
           UNCHANGED <<state, expression, host, zone, base>>,
           C!Wall(host, check) < w, ~Left(host, w),
           AlignedFor(expression, host, zone) =>
              \A t \in Int :
                 /\ check <= t /\ ~C!Repeated(host, t)
                 /\ C!Wall(host, check) <= C!Wall(host, t) /\ C!Wall(host, t) < w
                 => ~Named(expression, zone, t)
    PROVE  NextRunInv'
<1>1. /\ host \in Hosting /\ base \in Int /\ check \in Int
      /\ Reached(host, base, check) /\ Passed(expression, host, zone, base + 1, check)
  BY DEF NextRunInv
<1>2. check' \in Int /\ ~C!Repeated(host, check') /\ (~C!Repeated(host, check) => check' > check)
  BY <1>1, JumpLeads
<1>3. Reached(host, base, check')
  <2>1. CASE C!Repeated(host, check)
    BY <2>1, <1>1, <1>2 DEF Reached
  <2>2. CASE ~C!Repeated(host, check)
    BY <2>2, <1>1, <1>2 DEF Reached
  <2> QED
    BY <2>1, <2>2
<1>4. ASSUME AlignedFor(expression, host, zone), NEW t \in Int, base + 1 <= t, t < check',
             Named(expression, zone, t), ~C!Repeated(host, t)
      PROVE  FALSE
  <2>1. CASE t < check
    BY <2>1, <1>1, <1>4 DEF Passed
  <2>2. CASE check <= t
    <3>1. C!Wall(host, check) <= C!Wall(host, t) /\ C!Wall(host, t) < w
      BY <2>2, <1>1, <1>4, JumpPasses
    <3> QED
      BY <3>1, <2>2, <1>4
  <2> QED
    BY <2>1, <2>2, <1>1
<1>5. Passed(expression, host, zone, base + 1, check')
  BY <1>4 DEF Passed
<1> QED
  BY <1>1, <1>2, <1>3, <1>5 DEF NextRunInv

(* Until the day ends the date stays.                                      *)
LEMMA DateWithin ==
    ASSUME NEW a \in Int, NEW b \in Int, a <= b,
           b < ((C!DateOf(a) + 1) * HourMinutes) * DayHours
    PROVE  C!DateOf(b) = C!DateOf(a)
<1> DEFINE d == C!DateOf(a)
           hour == C!HourOf(b)
<1>1. d \in Int /\ C!DateOf(b) \in Int /\ d <= C!DateOf(b)
  <2>1. C!HourOf(a) \in Int /\ hour \in Int /\ C!HourOf(a) <= hour
    BY Calendar, DivBetween, DivGrows DEF C!HourOf
  <2> QED
    BY <2>1, Calendar, DivBetween, DivGrows DEF C!DateOf
<1>2. hour \in Int /\ hour * HourMinutes <= b /\ hour * HourMinutes \in Int
  BY Calendar, DivBetween, NextProduct DEF C!HourOf
<1>3. C!DateOf(b) * DayHours <= hour /\ C!DateOf(b) * DayHours \in Int
  <2>1. C!DateOf(b) = hour \div DayHours
    BY DEF C!DateOf
  <2> HIDE DEF hour
  <2>2. (hour \div DayHours) * DayHours <= hour /\ hour \div DayHours \in Int
    BY <1>2, Calendar, DivBetween
  <2> QED
    BY <2>1, <2>2, Calendar, NextProduct
<1> HIDE DEF d, hour
<1>4. CASE d + 1 <= C!DateOf(b)
  <2>1. (d + 1) * DayHours <= C!DateOf(b) * DayHours
    BY <1>1, <1>4, Calendar, ProductGrows
  <2>2. (d + 1) * DayHours <= hour /\ (d + 1) * DayHours \in Int
    BY <2>1, <1>1, <1>2, <1>3, Calendar, NextProduct
  <2>3. ((d + 1) * DayHours) * HourMinutes <= hour * HourMinutes
    BY <2>2, <1>2, Calendar, ProductGrows
  <2>4. ((d + 1) * DayHours) * HourMinutes = ((d + 1) * HourMinutes) * DayHours
    BY <1>1, Calendar, Swapped
  <2>5. b < ((d + 1) * HourMinutes) * DayHours
    BY DEF d
  <2>6. ((d + 1) * HourMinutes) * DayHours \in Int
    BY <1>1, Calendar, Swapped
  <2> QED
    BY <2>3, <2>4, <2>5, <2>6, <1>2
<1> QED
  BY <1>1, <1>4 DEF d

(* Until the hour ends it stays.                                           *)
LEMMA HourWithin ==
    ASSUME NEW a \in Int, NEW b \in Int, a <= b, b < (C!HourOf(a) + 1) * HourMinutes
    PROVE  C!HourOf(b) = C!HourOf(a)
<1> DEFINE k == C!HourOf(a)
<1>1. k \in Int /\ k * HourMinutes <= a /\ k * HourMinutes \in Int
      /\ (k + 1) * HourMinutes = k * HourMinutes + HourMinutes
  BY Calendar, DivBetween, NextProduct DEF C!HourOf
<1> QED
  BY <1>1, Calendar, DivIs DEF C!HourOf

(* An hour ends.                                                           *)
LEMMA HourEnds ==
    ASSUME NEW a \in Int
    PROVE  (C!HourOf(a) + 1) * HourMinutes \in Int /\ a < (C!HourOf(a) + 1) * HourMinutes
BY Calendar, DivBetween, NextProduct DEF C!HourOf

(* A day ends, with a whole hour.                                          *)
LEMMA DayEnds ==
    ASSUME NEW a \in Int
    PROVE  /\ a < ((C!DateOf(a) + 1) * HourMinutes) * DayHours
           /\ \E k \in Int : ((C!DateOf(a) + 1) * HourMinutes) * DayHours = k * HourMinutes
<1> DEFINE d == C!DateOf(a)
           hour == C!HourOf(a)
<1>1. d \in Int /\ hour \in Int /\ hour < d * DayHours + DayHours /\ a < (hour + 1) * HourMinutes
  BY Calendar, DivBetween, HourEnds, DateType DEF C!DateOf
<1>2. d * DayHours \in Int /\ (d + 1) * DayHours = d * DayHours + DayHours
      /\ (d + 1) * DayHours \in Int /\ (hour + 1) * HourMinutes \in Int
  BY <1>1, Calendar, NextProduct
<1> HIDE DEF d, hour
<1>3. hour + 1 <= (d + 1) * DayHours
  BY <1>1, <1>2, Calendar
<1>4. (hour + 1) * HourMinutes <= ((d + 1) * DayHours) * HourMinutes
      /\ ((d + 1) * DayHours) * HourMinutes \in Int
  BY <1>1, <1>2, <1>3, Calendar, ProductGrows, NextProduct
<1>5. ((d + 1) * DayHours) * HourMinutes = ((d + 1) * HourMinutes) * DayHours
  BY <1>1, Calendar, Swapped
<1>6. a < ((d + 1) * HourMinutes) * DayHours
  BY <1>1, <1>2, <1>4, <1>5
<1> QED
  BY <1>2, <1>5, <1>6 DEF d

(* The search goes on with the next day: no moment that is left out is in  *)
(* a day that is named.                                                    *)
LEMMA NextDayKeeps ==
    ASSUME NextRunInv, state = "searching", C!NextDay, UNCHANGED <<expression, host, zone, base>>
    PROVE  NextRunInv'
<1> DEFINE now_ == C!Wall(host, check)
           w == ((C!DateOf(now_) + 1) * HourMinutes) * DayHours
<1>1. ~C!Today /\ check' = C!AtWall(host, w) /\ state' = state
  BY DEF C!NextDay, C!Mover, C!Midnight
<1>2. host \in Hosting /\ zone \in C!Zones /\ check \in Int
  BY DEF NextRunInv
<1>3. now_ \in Int
  BY <1>2, WallType, HostsAreZones
<1>4. w \in Int /\ now_ < w /\ ~Left(host, w)
  <2>1. PICK k \in Int : w = k * HourMinutes
    BY <1>3, DayEnds
  <2> QED
    BY <2>1, <1>3, DayEnds, WholeHours
<1>5. ASSUME AlignedFor(expression, host, zone), NEW t \in Int, check <= t, ~C!Repeated(host, t),
             now_ <= C!Wall(host, t), C!Wall(host, t) < w
      PROVE  ~Named(expression, zone, t)
  <2>1. host = zone
    <3> SUFFICES ASSUME host # zone PROVE FALSE
      OBVIOUS
    <3>1. C!DateOf(C!Wall(zone, check)) \in Int
      BY <1>2, WallType, DateType
    <3> QED
      BY <3>1, <1>1, <1>5, EveryDay, SearchedIs
  <2>2. C!Wall(host, t) \in Int
    BY <1>2, WallType, HostsAreZones
  <2>3. C!DateOf(C!Wall(host, t)) = C!DateOf(now_)
    BY <2>2, <1>3, <1>5, DateWithin
  <2> QED
    BY <2>1, <2>3, <1>1, SearchedIs DEF Named
<1> HIDE DEF now_, w
<1>6. UNCHANGED <<state, expression, host, zone, base>> /\ check' = C!AtWall(host, w)
  BY <1>1
<1>7. C!Wall(host, check) < w
  BY <1>4 DEF now_
<1>8. AlignedFor(expression, host, zone) =>
         \A t \in Int :
            /\ check <= t /\ ~C!Repeated(host, t)
            /\ C!Wall(host, check) <= C!Wall(host, t) /\ C!Wall(host, t) < w
            => ~Named(expression, zone, t)
  BY <1>5 DEF now_
<1> QED
  BY <1>4, <1>6, <1>7, <1>8, JumpKeeps

(* A zone that the host's hours are aligned to.                            *)
LEMMA AlignedZone ==
    ASSUME NEW h \in Hosting, NEW z \in C!Zones, AlignedFor(expression, h, z)
    PROVE  z \in Hosting
BY DEF AlignedFor, C!Zones, Hosting

(* The search goes on with the next hour.                                  *)
LEMMA NextHourKeeps ==
    ASSUME NextRunInv, state = "searching", C!NextHour, UNCHANGED <<expression, host, zone, base>>
    PROVE  NextRunInv'
<1> DEFINE now_ == C!Wall(host, check)
           w == (C!HourOf(now_) + 1) * HourMinutes
<1>1. ~C!In("hour") /\ check' = C!AtWall(host, w) /\ state' = state
  BY DEF C!NextHour, C!Mover
<1>2. host \in Hosting /\ zone \in C!Zones /\ check \in Int
  BY DEF NextRunInv
<1>3. now_ \in Int
  BY <1>2, WallType, HostsAreZones
<1>4. w \in Int /\ now_ < w /\ ~Left(host, w)
  <2>1. C!HourOf(now_) + 1 \in Int
    BY <1>3, DateType
  <2> QED
    BY <2>1, <1>3, HourEnds, WholeHours
<1>5. ASSUME AlignedFor(expression, host, zone), NEW t \in Int, check <= t, ~C!Repeated(host, t),
             now_ <= C!Wall(host, t), C!Wall(host, t) < w
      PROVE  ~Named(expression, zone, t)
  <2>1. zone \in Hosting
    BY <1>2, <1>5, AlignedZone
  <2>2. C!Wall(host, t) \in Int
    BY <1>2, WallType, HostsAreZones
  <2>3. C!HourOf(C!Wall(host, t)) = C!HourOf(now_)
    BY <2>2, <1>3, <1>5, HourWithin
  <2>4. C!HourOf(C!Wall(zone, t)) = C!HourOf(C!Wall(zone, check))
    BY <2>1, <2>3, <1>2, <1>5, SameHour
  <2> QED
    BY <2>4, <1>1, SearchedIs DEF Named
<1> HIDE DEF now_, w
<1>6. UNCHANGED <<state, expression, host, zone, base>> /\ check' = C!AtWall(host, w)
  BY <1>1
<1>7. C!Wall(host, check) < w
  BY <1>4 DEF now_
<1>8. AlignedFor(expression, host, zone) =>
         \A t \in Int :
            /\ check <= t /\ ~C!Repeated(host, t)
            /\ C!Wall(host, check) <= C!Wall(host, t) /\ C!Wall(host, t) < w
            => ~Named(expression, zone, t)
  BY <1>5 DEF now_
<1> QED
  BY <1>4, <1>6, <1>7, <1>8, JumpKeeps

(* A wall clock shows a time once, unless the time is repeated.            *)
LEMMA OneMoment ==
    ASSUME NEW h \in Hosting, NEW c \in Int, NEW t \in Int, c <= t, ~C!Repeated(h, t),
           C!Wall(h, t) = C!Wall(h, c)
    PROVE  t = c
<1>1. CASE h = "utc"
  BY <1>1, WallIs
<1>2. CASE h = "summer"
  BY <1>2, WallIs, RepeatedIs, Calendar DEF Summer
<1> QED
  BY <1>1, <1>2 DEF Hosting

(* The search goes on with the next minute.                                *)
LEMMA NextMinuteKeeps ==
    ASSUME NextRunInv, state = "searching", C!NextMinute, UNCHANGED <<expression, host, zone, base>>
    PROVE  NextRunInv'
<1> DEFINE now_ == C!Wall(host, check)
           w == now_ + 1
<1>1. ~C!In("minute") /\ check' = C!AtWall(host, w) /\ state' = state
  BY DEF C!NextMinute, C!Mover
<1>2. host \in Hosting /\ zone \in C!Zones /\ check \in Int
  BY DEF NextRunInv
<1>3. now_ \in Int
  BY <1>2, WallType, HostsAreZones
<1>4. w \in Int /\ now_ < w /\ ~Left(host, w)
  BY <1>2, <1>3, MinuteAhead
<1>5. ASSUME AlignedFor(expression, host, zone), NEW t \in Int, check <= t, ~C!Repeated(host, t),
             now_ <= C!Wall(host, t), C!Wall(host, t) < w
      PROVE  ~Named(expression, zone, t)
  <2>1. C!Wall(host, t) \in Int
    BY <1>2, WallType, HostsAreZones
  <2>2. C!Wall(host, t) = now_
    BY <2>1, <1>3, <1>5
  <2>3. t = check
    BY <2>2, <1>2, <1>5, OneMoment
  <2> QED
    BY <2>3, <1>1, SearchedIs DEF Named
<1> HIDE DEF now_, w
<1>6. UNCHANGED <<state, expression, host, zone, base>> /\ check' = C!AtWall(host, w)
  BY <1>1
<1>7. C!Wall(host, check) < w
  BY <1>4 DEF now_
<1>8. AlignedFor(expression, host, zone) =>
         \A t \in Int :
            /\ check <= t /\ ~C!Repeated(host, t)
            /\ C!Wall(host, check) <= C!Wall(host, t) /\ C!Wall(host, t) < w
            => ~Named(expression, zone, t)
  BY <1>5 DEF now_
<1> QED
  BY <1>4, <1>6, <1>7, <1>8, JumpKeeps

LEMMA NextRunKeeps == ASSUME NextRunInv, [C!Next]_cvars PROVE NextRunInv'
<1>1. CASE C!Parse /\ UNCHANGED <<expression, host, zone, base>>
  <2>1. /\ state = "parsing" /\ check = base /\ base \in Int
        /\ \/ check' = base + 1 /\ state' = "searching"
           \/ check' = check /\ state' = "none"
    BY <1>1 DEF C!Parse, C!AfterBase, NextRunInv
  <2> QED
    BY <2>1, <1>1 DEF NextRunInv, Passed, Reached
<1>2. CASE C!Search /\ UNCHANGED <<expression, host, zone, base>>
  <2>1. state = "searching"
    BY <1>2 DEF C!Search
  <2>2. CASE C!NextDay
    BY <2>1, <2>2, <1>2, NextDayKeeps
  <2>3. CASE C!NextHour
    BY <2>1, <2>3, <1>2, NextHourKeeps
  <2>4. CASE C!NextMinute
    BY <2>1, <2>4, <1>2, NextMinuteKeeps
  <2>5. CASE C!Found \/ C!GivesUp
    BY <2>1, <2>5, <1>2 DEF C!Found, C!GivesUp, NextRunInv
  <2> QED
    BY <2>2, <2>3, <2>4, <2>5, <1>2 DEF C!Search
<1>3. CASE C!Answered /\ UNCHANGED <<expression, host, zone, base>>
  BY <1>3 DEF C!Answered, NextRunInv
<1>4. CASE UNCHANGED cvars
  BY <1>4 DEF cvars, NextRunInv
<1> QED
  BY <1>1, <1>2, <1>3, <1>4 DEF C!Next

LEMMA NextRunShows == ASSUME NextRunInv PROVE NextIsNext
<1>1. C!NextRunAhead
  BY DEF NextRunInv, Reached, C!NextRunAhead
<1>2. C!NothingSkipped
  BY AlignedIs, MatchesIs DEF NextRunInv, Passed, C!NothingSkipped
<1> QED
  BY <1>1, <1>2 DEF NextIsNext, C!NextIsNext

(* Whatever is asked for and whenever, the run that is found is ahead, and *)
(* none that the expression names comes before it.                         *)
THEOREM FoundIsNext == C!Spec => []NextIsNext
<1>1. C!Init => NextRunInv
  <2> SUFFICES ASSUME C!Init PROVE NextRunInv
    OBVIOUS
  <2>1. base \in Int /\ check = base /\ state = "parsing" /\ host \in Hosting /\ zone \in C!Zones
    BY Calendar DEF C!Init, Hosting
  <2> QED
    BY <2>1 DEF NextRunInv, Passed
<1>2. NextRunInv /\ [C!Next]_cvars => NextRunInv'
  BY NextRunKeeps
<1>3. NextRunInv => NextIsNext
  BY NextRunShows
<1> QED
  BY <1>1, <1>2, <1>3, PTL DEF C!Spec, C!vars, cvars

-----------------------------------------------------------------------------
(* The panel: each view has an invariant of its own, which the steps of    *)
(* the other views leave alone.                                            *)

Search == [query : Queries, type : Types]

(* A search under way is the one in the view, or the field was cleared     *)
(* since; a field that is empty has then been cleared, as no query is None.*)
SearchInv ==
    /\ query \in Queries \union {None} /\ type \in Types
    /\ searches \subseteq Search /\ results \in Search \union {NoResults}
    /\ \A s \in searches : cleared \/ s = [query |-> query, type |-> type]
    /\ ~searching /\ results # NoResults =>
          cleared \/ results = [query |-> query, type |-> type]

(* A preview under way is of the open resource, or it was crossed.         *)
PreviewInv ==
    /\ \A r \in previews : previewRef = None \/ crossed \/ r = previewRef
    /\ previewRef # None /\ content \notin {None, previewRef} => crossed

ButtonsInv ==
    /\ phase \in [Writes -> {"idle", "preparing", "writing", "lost"}]
    /\ inProgress \in [Writes -> BOOLEAN]
    /\ \A w \in Writes : inProgress[w] <=> phase[w] # "idle"

(* Nothing is newer than the server's data; the only refresh under way has *)
(* read nothing older than what was shown when it began.                   *)
RefreshInv ==
    /\ version \in Nat /\ shown \in [Keys -> Nat]
    /\ \A k \in Keys : shown[k] <= version
    /\ running \subseteq Refreshes
    /\ waiting \in [Refreshes -> SUBSET Keys]
    /\ read = [r \in Refreshes |-> read[r]]
    /\ \A r \in Refreshes :
          /\ read[r] \in [DOMAIN read[r] -> Nat]
          /\ DOMAIN read[r] \subseteq Keys
          /\ \A k \in DOMAIN read[r] : read[r][k] <= version
    /\ ~overtaken =>
          \A r \in running :
              /\ running = {r}
              /\ \A k \in DOMAIN read[r] : shown[k] <= read[r][k]

-----------------------------------------------------------------------------
(* Every step of the panel keeps what is said of the search.               *)
LEMMA SearchInductive ==
    ASSUME None \notin Queries, SearchInv, [PanelNext]_panelvars
    PROVE  SearchInv'
<1>1. CASE SearchTyped
  BY <1>1 DEF SearchTyped, DoSearch, Asked, SearchInv, Search
<1>2. CASE Filter
  <2>1. PICK t \in Types :
            IF query # None THEN DoSearch(query, t)
            ELSE type' = t /\ UNCHANGED <<query, searches, results, searching, cleared>>
    BY <1>2 DEF Filter
  <2>2. CASE query # None
    BY <2>1, <2>2 DEF DoSearch, Asked, SearchInv, Search
  <2>3. CASE query = None
    <3>1. \A s \in Search : s # [query |-> query, type |-> type]
      BY <2>3 DEF Search
    <3>2. searches # {} => cleared
      BY <3>1 DEF SearchInv
    <3>3. ~searching /\ results # NoResults => cleared
      BY <3>1 DEF SearchInv
    <3> QED BY <2>1, <2>3, <3>2, <3>3 DEF SearchInv
  <2> QED BY <2>2, <2>3
<1>3. CASE Clear
  BY <1>3 DEF Clear, SearchInv
<1>4. CASE SearchAnswered
  BY <1>4 DEF SearchAnswered, SearchInv
<1>5. CASE SearchBreaks
  BY <1>5 DEF SearchBreaks, SearchInv
<1>6. CASE UNCHANGED searchvars
  BY <1>6 DEF searchvars, SearchInv
<1> QED
  BY <1>1, <1>2, <1>3, <1>4, <1>5, <1>6
     DEF PanelNext, panelvars, SearchView, PreviewPane, WriteButtons, RefreshButton

(* Every step of the panel keeps what is said of the preview.              *)
LEMMA PreviewInductive ==
    ASSUME PreviewInv, [PanelNext]_panelvars
    PROVE  PreviewInv'
<1>1. ASSUME NEW r \in Refs, OpenPreview(r)
      PROVE  PreviewInv'
  BY <1>1 DEF OpenPreview, PreviewInv
<1>2. ASSUME NEW r \in Refs, PreviewAnswered(r)
      PROVE  PreviewInv'
  BY <1>2 DEF PreviewAnswered, PreviewInv
<1>3. CASE ClosePreview
  BY <1>3 DEF ClosePreview, PreviewInv
<1>4. CASE UNCHANGED previewvars
  BY <1>4 DEF previewvars, PreviewInv
<1> QED
  BY <1>1, <1>2, <1>3, <1>4 DEF PanelNext, panelvars, SearchView, PreviewPane, WriteButtons, RefreshButton

(* Every step of the panel keeps what is said of the write buttons.        *)
LEMMA ButtonsInductive ==
    ASSUME ButtonsInv, [PanelNext]_panelvars
    PROVE  ButtonsInv'
<1>1. ASSUME NEW w \in Writes, Begins(w)
      PROVE  ButtonsInv'
  BY <1>1 DEF Begins, ButtonsInv
<1>2. ASSUME NEW w \in Writes, Prepared(w)
      PROVE  ButtonsInv'
  BY <1>2 DEF Prepared, ButtonsInv
<1>3. ASSUME NEW w \in Writes, Written(w)
      PROVE  ButtonsInv'
  BY <1>3 DEF Written, ButtonsInv
<1>4. ASSUME NEW w \in Writes, WriteBreaks(w)
      PROVE  ButtonsInv'
  BY <1>4 DEF WriteBreaks, ButtonsInv
<1>5. CASE Reload
  BY <1>5 DEF Reload, ButtonsInv
<1>6. CASE UNCHANGED writevars
  BY <1>6 DEF writevars, ButtonsInv
<1> QED
  BY <1>1, <1>2, <1>3, <1>4, <1>5, <1>6
     DEF PanelNext, panelvars, SearchView, PreviewPane, WriteButtons, RefreshButton

-----------------------------------------------------------------------------
(* An answer is put over what was read.                                    *)
LEMMA Answered ==
    ASSUME RefreshInv, NEW r \in Refreshes, NEW k \in Keys,
           NEW f, f = Over([j \in {k} |-> version], read[r])
    PROVE  /\ f \in [DOMAIN f -> Nat] /\ DOMAIN f \subseteq Keys
           /\ \A j \in DOMAIN f : f[j] = version \/ (j \in DOMAIN read[r] /\ f[j] = read[r][j])
  BY DEF Over, RefreshInv

(* An answer of a refresh that is shown or given up.                       *)
LEMMA SettledKeeps ==
    ASSUME RefreshInv, NEW r \in Refreshes, NEW k \in Keys, Settled(r, k)
    PROVE  RefreshInv'
<1> DEFINE f == Over([j \in {k} |-> version], read[r])
<1>1. UNCHANGED <<version, shown, running, overtaken>> /\ waiting' \in [Refreshes -> SUBSET Keys]
  BY DEF Settled, RefreshInv
<1>2. CASE read' = read
  BY <1>1, <1>2 DEF RefreshInv
<1>3. CASE read' = [read EXCEPT ![r] = f]
  <2> HIDE DEF f
  <2>0. /\ f \in [DOMAIN f -> Nat] /\ DOMAIN f \subseteq Keys
        /\ \A j \in DOMAIN f : f[j] = version \/ (j \in DOMAIN read[r] /\ f[j] = read[r][j])
    BY Answered DEF f
  <2>1. /\ f \in [DOMAIN f -> Nat] /\ DOMAIN f \subseteq Keys
        /\ \A j \in DOMAIN f : f[j] <= version
    BY <2>0 DEF RefreshInv
  <2>2. /\ read' = [q \in Refreshes |-> read'[q]]
        /\ \A q \in Refreshes : read'[q] = IF q = r THEN f ELSE read[q]
    BY <1>3 DEF RefreshInv
  <2>3. ASSUME ~overtaken, r \in running, NEW j \in DOMAIN f
        PROVE  shown[j] <= f[j]
    BY <2>0, <2>3 DEF RefreshInv
  <2>4. /\ version' \in Nat /\ shown' \in [Keys -> Nat]
        /\ \A j \in Keys : shown'[j] <= version'
        /\ running' \subseteq Refreshes
    BY <1>1 DEF RefreshInv
  <2>5. ASSUME NEW q \in Refreshes
        PROVE  /\ read'[q] \in [DOMAIN read'[q] -> Nat]
               /\ DOMAIN read'[q] \subseteq Keys
               /\ \A j \in DOMAIN read'[q] : read'[q][j] <= version'
    BY <1>1, <2>1, <2>2 DEF RefreshInv
  <2>6. ASSUME ~overtaken', NEW q \in running'
        PROVE  /\ running' = {q}
               /\ \A j \in DOMAIN read'[q] : shown'[j] <= read'[q][j]
    BY <1>1, <2>2, <2>3, <2>6 DEF RefreshInv
  <2> QED BY <1>1, <2>2, <2>4, <2>5, <2>6 DEF RefreshInv
<1> QED BY <1>2, <1>3 DEF Settled

(* A refresh that ends leaves what it has read, and the rest as it was.    *)
LEMMA EndShows ==
    ASSUME RefreshInv, NEW r \in Refreshes, RefreshEnds(r)
    PROVE  /\ shown' \in [Keys -> Nat]
           /\ \A k \in Keys : shown'[k] = IF k \in DOMAIN read[r] THEN read[r][k] ELSE shown[k]
  BY DEF RefreshEnds, Updated, Over, RefreshInv

(* Every step of the panel keeps what is said of the refreshes.            *)
LEMMA RefreshInductive ==
    ASSUME RefreshInv, [PanelNext]_panelvars
    PROVE  RefreshInv'
<1>1. CASE Changes
  BY <1>1 DEF Changes, RefreshInv
<1>2. ASSUME NEW r \in Refreshes, RefreshBegins(r)
      PROVE  RefreshInv'
  <2>1. /\ UNCHANGED <<version, shown>> /\ running' = running \union {r}
        /\ overtaken' = (running # {})
        /\ waiting' \in [Refreshes -> SUBSET Keys]
        /\ read' = [q \in Refreshes |-> read'[q]]
        /\ \A q \in Refreshes : read'[q] = IF q = r THEN Nothing ELSE read[q]
    BY <1>2 DEF RefreshBegins, RefreshInv
  <2>2. DOMAIN Nothing = {} /\ Nothing \in [{} -> Nat]
    BY DEF Nothing
  <2> QED BY <2>1, <2>2 DEF RefreshInv
<1>3. ASSUME NEW r \in Refreshes, RefreshEnds(r)
      PROVE  RefreshInv'
  <2>1. /\ UNCHANGED <<version, waiting, overtaken>> /\ running' = running \ {r} /\ r \in running
        /\ read' = [q \in Refreshes |-> read'[q]]
        /\ \A q \in Refreshes : read'[q] = IF q = r THEN Nothing ELSE read[q]
    BY <1>3 DEF RefreshEnds, RefreshInv
  <2>2. DOMAIN Nothing = {} /\ Nothing \in [{} -> Nat]
    BY DEF Nothing
  <2>3. shown' \in [Keys -> Nat] /\ \A k \in Keys : shown'[k] <= version
    BY <1>3, EndShows DEF RefreshInv
  <2>4. ~overtaken => running' = {}
    BY <2>1 DEF RefreshInv
  <2> QED BY <2>1, <2>2, <2>3, <2>4 DEF RefreshInv
<1>4. ASSUME NEW r \in Refreshes, NEW k \in Keys, Settled(r, k)
      PROVE  RefreshInv'
  BY <1>4, SettledKeeps
<1>5. CASE UNCHANGED refreshvars
  BY <1>5 DEF refreshvars, RefreshInv
<1> QED
  BY <1>1, <1>2, <1>3, <1>4, <1>5
     DEF PanelNext, panelvars, SearchView, PreviewPane, WriteButtons, RefreshButton

-----------------------------------------------------------------------------
(* With the spinner gone, the results are those of the query and filter in *)
(* the view (doSearch, fetchJson), whatever searches crossed.              *)
THEOREM ResultsMatch ==
    ASSUME None \notin Queries
    PROVE  PanelSpec => []ResultsForQuery
<1>1. PanelInit => SearchInv
  BY DEF PanelInit, SearchInv
<1>2. SearchInv /\ [PanelNext]_panelvars => SearchInv'
  BY SearchInductive
<1>3. SearchInv => ResultsForQuery
  BY DEF SearchInv, ResultsForQuery
<1> QED BY <1>1, <1>2, <1>3, PTL DEF PanelSpec

(* A preview shows another resource's content (openPreview) only if it was *)
(* opened with another request under way.                                  *)
THEOREM PreviewMatches == PanelSpec => []PreviewOfRef
<1>1. PanelInit => PreviewInv
  BY DEF PanelInit, PreviewInv
<1>2. PreviewInv /\ [PanelNext]_panelvars => PreviewInv'
  BY PreviewInductive
<1>3. PreviewInv => PreviewOfRef
  BY DEF PreviewInv, PreviewOfRef
<1> QED BY <1>1, <1>2, <1>3, PTL DEF PanelSpec

(* The flags of handleReindex and handleSync are set as long as their      *)
(* write is under way or lost, and no longer.                              *)
THEOREM FlagsTell == PanelSpec => []FlagTellsTheTruth
<1>1. PanelInit => ButtonsInv
  BY DEF PanelInit, ButtonsInv
<1>2. ButtonsInv /\ [PanelNext]_panelvars => ButtonsInv'
  BY ButtonsInductive
<1>3. ButtonsInv => FlagTellsTheTruth
  BY DEF ButtonsInv, FlagTellsTheTruth
<1> QED BY <1>1, <1>2, <1>3, PTL DEF PanelSpec

(* Nothing shown gets older through refreshAll unless two refreshes cross. *)
THEOREM RefreshForward == PanelSpec => RefreshGoesForward
<1>1. PanelInit => RefreshInv
  <2>1. DOMAIN Nothing = {} /\ Nothing \in [{} -> Nat]
    BY DEF Nothing
  <2> QED BY <2>1 DEF PanelInit, RefreshInv
<1>2. RefreshInv /\ [PanelNext]_panelvars => RefreshInv'
  BY RefreshInductive
<1>3. RefreshInv /\ [PanelNext]_panelvars => [\A k \in Keys : shown'[k] < shown[k] => overtaken]_panelvars
  <2> SUFFICES ASSUME RefreshInv, [PanelNext]_panelvars, NEW k \in Keys, shown'[k] < shown[k]
               PROVE  overtaken
    OBVIOUS
  <2>1. shown[k] \in Nat
    BY DEF RefreshInv
  <2>2. ~UNCHANGED shown
    BY <2>1
  <2>3. RefreshButton
    BY <2>2 DEF PanelNext, panelvars, SearchView, PreviewPane, WriteButtons, refreshvars
  <2>4. PICK r \in Refreshes : RefreshEnds(r)
    BY <2>2, <2>3 DEF RefreshButton, Changes, RefreshBegins, Settled
  <2>5. shown'[k] = IF k \in DOMAIN read[r] THEN read[r][k] ELSE shown[k]
    BY <2>4, EndShows
  <2>6. k \in DOMAIN read[r] /\ read[r][k] < shown[k]
    BY <2>1, <2>5
  <2>7. r \in running /\ read[r][k] \in Nat
    BY <2>4, <2>6 DEF RefreshEnds, RefreshInv
  <2>8. ~overtaken => shown[k] <= read[r][k]
    BY <2>6, <2>7 DEF RefreshInv
  <2> QED BY <2>1, <2>6, <2>7, <2>8
<1> QED BY <1>1, <1>2, <1>3, PTL DEF PanelSpec, RefreshGoesForward

(* All views of the panel together (app.js).                               *)
THEOREM PanelTrue ==
    ASSUME None \notin Queries
    PROVE  PanelSpec => PanelTells
<1> QED BY ResultsMatch, PreviewMatches, FlagsTell, RefreshForward, PTL DEF PanelTells

-----------------------------------------------------------------------------
(* The installation of an environment and its manifest.                    *)

(* The files of an environment.                                            *)
Files == DOMAIN Kind

(* A finite set in some order has the elements it had.                     *)
LEMMA SetToSeqIs ==
    ASSUME NEW fs, IsFiniteSet(fs)
    PROVE  B!SetToSeq(fs) \in Seq(fs) /\ Elements(B!SetToSeq(fs)) = fs
<1> DEFINE c == Cardinality(fs)
<1>1. c \in Nat /\ ExistsBijection(1..c, fs)
  BY FS_CardinalityType
<1>2. PICK g : g \in Injection(1..c, fs)
  BY <1>1 DEF ExistsBijection, Bijection
<1>3. /\ \A f : B!IsInjective(f) <=> IsInjective(f)
      /\ B!Cardinality(fs) = c
  BY DEF B!IsInjective, IsInjective, B!Cardinality, Cardinality
<1>4. B!SetToSeq(fs) = CHOOSE f \in [1..c -> fs] : B!IsInjective(f)
  BY <1>3 DEF B!SetToSeq
<1>5. g \in [1..c -> fs] /\ B!IsInjective(g)
  BY <1>2, <1>3 DEF Injection
<1> DEFINE q == CHOOSE f \in [1..c -> fs] : B!IsInjective(f)
<1> HIDE DEF c
<1>6. q \in [1..c -> fs] /\ B!IsInjective(q)
  BY <1>5
<1> HIDE DEF q
<1>7. q \in Injection(1..c, fs)
  BY <1>3, <1>6 DEF Injection
<1>8. Cardinality(1..c) = c
  BY <1>1, FS_Interval
<1>9. q \in Surjection(1..c, fs)
  BY <1>7, <1>8, FS_Injection DEF c
<1>10. \A x \in fs : \E i \in 1..c : q[i] = x
  BY <1>9 DEF Surjection
<1>11. q \in Seq(fs) /\ DOMAIN q = 1..c
  BY <1>1, <1>6
<1>12. Elements(q) = fs
  BY <1>6, <1>10, <1>11 DEF Elements
<1> QED BY <1>4, <1>11, <1>12 DEF q

(* Two sequences, one behind the other.                                    *)
LEMMA Joined ==
    ASSUME NEW X, NEW p \in Seq(X), NEW q \in Seq(X)
    PROVE  p \o q \in Seq(X) /\ Elements(p \o q) = Elements(p) \union Elements(q)
<1>1. p \o q \in Seq(X)
  OBVIOUS
<1>2. /\ Len(p) \in Nat /\ Len(q) \in Nat /\ Len(p \o q) = Len(p) + Len(q)
      /\ DOMAIN p = 1..Len(p) /\ DOMAIN q = 1..Len(q) /\ DOMAIN (p \o q) = 1..(Len(p) + Len(q))
      /\ \A i \in 1..Len(p) : (p \o q)[i] = p[i]
      /\ \A i \in 1..Len(q) : (p \o q)[Len(p) + i] = q[i]
  OBVIOUS
<1> DEFINE r == p \o q
           m == Len(p)
           n == Len(q)
<1> HIDE DEF r, m, n
<1>3. \A i \in 1..(m + n) : i \in 1..m \/ \E j \in 1..n : i = m + j
  <2> SUFFICES ASSUME NEW i \in 1..(m + n), i \notin 1..m PROVE i - m \in 1..n /\ i = m + (i - m)
    OBVIOUS
  <2> QED BY <1>2 DEF m, n
<1>4. (\A i \in 1..m : i \in 1..(m + n)) /\ (\A j \in 1..n : m + j \in 1..(m + n))
  BY <1>2 DEF m, n
<1>5. /\ DOMAIN p = 1..m /\ DOMAIN q = 1..n /\ DOMAIN r = 1..(m + n)
      /\ (\A i \in 1..m : r[i] = p[i]) /\ (\A j \in 1..n : r[m + j] = q[j])
  BY <1>2 DEF m, n, r
<1>6. Elements(r) \subseteq Elements(p) \union Elements(q)
  BY <1>3, <1>5 DEF Elements
<1>7. Elements(p) \union Elements(q) \subseteq Elements(r)
  BY <1>4, <1>5 DEF Elements
<1> QED BY <1>1, <1>6, <1>7 DEF r

LEMMA SetAlikeB == ASSUME NEW q PROVE B!ToSet(q) = Elements(q)
BY DEF B!ToSet, Elements

LEMMA SelectedAlikeB == ASSUME NEW q, NEW set PROVE B!Selected(q, set) = Selected(q, set)
BY DEF B!Selected, Selected

(* A merged manifest lists what either listed.                             *)
LEMMA MergedIs ==
    ASSUME NEW old \in Seq(Files), NEW new \in Seq(Files)
    PROVE  /\ B!Merged(old, new) \in Seq(Files)
           /\ Elements(B!Merged(old, new)) = Elements(old) \union Elements(new)
<1> DEFINE set == Elements(new) \ Elements(old)
           more == Selected(new, set)
<1>1. B!Merged(old, new) = old \o more
  BY SetAlikeB, SelectedAlikeB DEF B!Merged
<1>2. more \in Seq(Files) /\ Elements(more) = Elements(new) \intersect set
  BY SelectedIs
<1>3. old \o more \in Seq(Files) /\ Elements(old \o more) = Elements(old) \union Elements(more)
  <2> HIDE DEF more
  <2> QED BY <1>2, Joined
<1> QED BY <1>1, <1>2, <1>3

(* What is less is another.                                                *)
LEMMA LessDiffers == \A i, j \in Int : i < j => i # j
OBVIOUS

LEMMA ElementIn == ASSUME NEW X, NEW q \in Seq(X), NEW i \in 1..Len(q) PROVE q[i] \in X
OBVIOUS

(* No manifest is not a manifest.                                          *)
LEMMA NotAFile == \A q \in Seq(Files) : q # B!NoManifest
<1> SUFFICES ASSUME B!NoManifest \in Seq(Files) PROVE FALSE
  OBVIOUS
<1>1. B!NoManifest[1] \in Files
  <2>1. \A q \in Seq(Files) : Len(q) = 1 => q[1] \in Files
    <3> SUFFICES ASSUME NEW q \in Seq(Files), Len(q) = 1 PROVE q[1] \in Files
      OBVIOUS
    <3>1. 1 \in 1..Len(q)
      OBVIOUS
    <3> QED BY <3>1, ElementIn
  <2>2. Len(B!NoManifest) = 1
    BY DEF B!NoManifest
  <2> QED BY <2>1, <2>2
<1> QED BY <1>1, FrontAssumption DEF FrontAssumption, Files

(* The disk and the manifest account for each other; a run that is over    *)
(* has nothing in hand.                                                    *)
EnvironmentInv ==
    /\ disk \in [Files -> B!Contents]
    /\ manifest \in Seq(Files) \union {B!NoManifest}
    /\ mode \in {"idle", "install", "upgrade"} /\ stage \in Nat
    /\ installed \in Seq(Files) /\ created \subseteq Files /\ gap \in BOOLEAN
    /\ mode = "idle" => installed = <<>>
    /\ ManifestAccounts

(* What is tracked, in terms of the manifest.                              *)
LEMMA TrackedIs ==
    ASSUME manifest \in Seq(Files) \union {B!NoManifest}
    PROVE  /\ manifest = B!NoManifest => B!Tracked = {}
           /\ manifest # B!NoManifest => B!Tracked = Elements(manifest)
BY SetAlikeB DEF B!Tracked

(* The same after a step.                                                  *)
LEMMA TrackedThen ==
    /\ manifest' = B!NoManifest => B!Tracked' = {}
    /\ manifest' # B!NoManifest => B!Tracked' = Elements(manifest')
<1>1. B!Tracked' = IF manifest' = B!NoManifest THEN {} ELSE B!ToSet(manifest')
  BY DEF B!Tracked
<1> QED BY <1>1, SetAlikeB

(* The empty sequence.                                                     *)
LEMMA EmptyElements == Elements(<<>>) = {} /\ <<>> \in Seq(Files)
BY DEF Elements

(* The properties of a state, in terms of what is known of files.          *)
Accounts(d, k, c, g) ==
    /\ k \subseteq c
    /\ \A f \in c : d[f] = "ours" /\ f \notin k => g \/ Kind[f] \in {"build", "config", "unit"}

(* What the manifest tracks or will track.                                 *)
Known == B!Tracked \union B!ToSet(installed)

(* The property in terms of what is known.                                 *)
LEMMA AccountsIs == ManifestAccounts <=> Accounts(disk, Known, created, gap)
BY DEF ManifestAccounts, B!ManifestAccounts, B!TrackedWereCreated, B!GapsExplained, Accounts, Known

(* The same after a step.                                                  *)
LEMMA AccountsThen == ManifestAccounts' <=> Accounts(disk', Known', created', gap')
BY DEF ManifestAccounts, B!ManifestAccounts, B!TrackedWereCreated, B!GapsExplained, Accounts, Known

LEMMA TrackedSame == ASSUME manifest' = manifest PROVE B!Tracked' = B!Tracked
BY DEF B!Tracked

(* An installation or an upgrade begins.                                   *)
LEMMA EnvironmentBegin ==
    ASSUME EnvironmentInv, NEW m \in {"install", "upgrade"}, B!Begin(m)
    PROVE  EnvironmentInv'
<1>1. /\ mode = "idle" /\ mode' = m /\ stage' = 0 /\ installed' = <<>>
      /\ UNCHANGED <<disk, manifest, created, gap>>
  BY DEF B!Begin
<1>2. installed = <<>>
  BY <1>1 DEF EnvironmentInv
<1>3. Known' = Known
  BY <1>1, <1>2, TrackedSame DEF Known
<1>4. ManifestAccounts'
  BY <1>1, <1>3, AccountsIs, AccountsThen DEF EnvironmentInv
<1> QED BY <1>1, <1>4, EmptyElements DEF EnvironmentInv

(* It dies.                                                                *)
LEMMA EnvironmentCrash ==
    ASSUME EnvironmentInv, B!Crash
    PROVE  EnvironmentInv'
<1>1. /\ mode' = "idle" /\ stage' = 0 /\ installed' = <<>> /\ gap' = TRUE
      /\ UNCHANGED <<disk, manifest, created>>
  BY DEF B!Crash
<1>2. Known' \subseteq Known
  BY <1>1, TrackedSame, SetAlikeB, EmptyElements DEF Known
<1>3. ManifestAccounts'
  BY <1>1, <1>2, AccountsIs, AccountsThen DEF EnvironmentInv, Accounts
<1> QED BY <1>1, <1>3, EmptyElements DEF EnvironmentInv

(* The owner edits, adds or removes a file.                                *)
LEMMA EnvironmentOwner ==
    ASSUME EnvironmentInv, NEW f \in Files, B!OwnerActs(f)
    PROVE  EnvironmentInv'
<1>1. PICK c \in {"none", "own"} : disk' = [disk EXCEPT ![f] = c]
  BY DEF B!OwnerActs
<1>2. UNCHANGED <<manifest, mode, stage, installed, created, gap>>
  BY DEF B!OwnerActs
<1>3. disk' \in [Files -> B!Contents] /\ \A g \in Files : disk'[g] = "ours" => disk[g] = "ours"
  BY <1>1 DEF EnvironmentInv, B!Contents
<1>4. Known' = Known
  BY <1>2, TrackedSame DEF Known
<1>5. ManifestAccounts'
  BY <1>2, <1>3, <1>4, AccountsIs, AccountsThen DEF EnvironmentInv, Accounts
<1> QED BY <1>2, <1>3, <1>5 DEF EnvironmentInv

(* The kinds of an order, and those of an installation that are not        *)
(* recorded.                                                               *)
LEMMA OrderKinds ==
    ASSUME NEW m \in {"install", "upgrade"}, NEW i \in Nat, i < Len(B!Order(m))
    PROVE  B!Order(m)[i + 1] \in B!Recorded(m) \union {"build", "config", "unit"}
<1>1. CASE m = "install"
  <2>1. B!Order(m) = B!InstallOrder /\ Len(B!InstallOrder) = 6
    BY <1>1 DEF B!Order, B!InstallOrder
  <2>2. i + 1 \in 1..6
    BY <2>1
  <2>3. i + 1 = 1 \/ i + 1 = 2 \/ i + 1 = 3 \/ i + 1 = 4 \/ i + 1 = 5 \/ i + 1 = 6
    BY <2>2
  <2> QED BY <1>1, <2>1, <2>3 DEF B!InstallOrder, B!Recorded
<1>2. CASE m = "upgrade"
  <2>1. B!Order(m) = B!UpgradeOrder /\ Len(B!UpgradeOrder) = 3
    BY <1>2 DEF B!Order, B!UpgradeOrder
  <2>2. i + 1 = 1 \/ i + 1 = 2 \/ i + 1 = 3
    BY <2>1
  <2> QED BY <1>2, <2>1, <2>2 DEF B!UpgradeOrder, B!Recorded
<1> QED BY <1>1, <1>2

(* One kind of files is installed.                                         *)
LEMMA EnvironmentInstall ==
    ASSUME EnvironmentInv, B!InstallKind
    PROVE  EnvironmentInv'
<1> DEFINE k == B!Order(mode)[stage + 1]
<1>1. mode # "idle" /\ stage < Len(B!Order(mode)) /\ stage' = stage + 1
      /\ UNCHANGED <<manifest, mode, gap>>
  BY DEF B!InstallKind
<1>2. mode \in {"install", "upgrade"} /\ stage \in Nat
  BY <1>1 DEF EnvironmentInv
<1>3. k \in B!Recorded(mode) \union {"build", "config", "unit"}
  BY <1>1, <1>2, OrderKinds
<1>4. PICK fs \in SUBSET B!Installable(k) :
          /\ disk' = [f \in Files |-> IF f \in fs THEN "ours" ELSE disk[f]]
          /\ created' = created \union {f \in fs : disk[f] = "none"}
          /\ installed' = IF k \in B!Recorded(mode)
                          THEN installed \o B!SetToSeq(fs) ELSE installed
  BY DEF B!InstallKind, Files
<1> HIDE DEF k
<1>5. fs \subseteq Files /\ \A f \in fs : Kind[f] = k /\ disk[f] = "none"
  BY DEF B!Installable, Files
<1>6. created' = created \union fs
  BY <1>4, <1>5
<1>7. IsFiniteSet(fs)
  BY <1>5, FS_Subset, FrontAssumption DEF FrontAssumption, Files
<1>8. B!SetToSeq(fs) \in Seq(Files) /\ Elements(B!SetToSeq(fs)) = fs
  <2>1. B!SetToSeq(fs) \in Seq(fs) /\ Elements(B!SetToSeq(fs)) = fs
    BY <1>7, SetToSeqIs
  <2> QED BY <1>5, <2>1
<1>9. disk' \in [Files -> B!Contents] /\ \A f \in Files : disk'[f] = "ours" => f \in fs \/ disk[f] = "ours"
  BY <1>4 DEF EnvironmentInv, B!Contents
<1>10. CASE k \in B!Recorded(mode)
  <2>1. installed' \in Seq(Files) /\ Elements(installed') = Elements(installed) \union fs
    BY <1>4, <1>8, <1>10, Joined DEF EnvironmentInv
  <2>2. Known' = Known \union fs
    BY <1>1, <2>1, TrackedSame, SetAlikeB DEF Known
  <2>3. ManifestAccounts'
    BY <1>1, <1>6, <1>9, <2>2, AccountsIs, AccountsThen DEF EnvironmentInv, Accounts
  <2> QED BY <1>1, <1>2, <1>5, <1>6, <1>9, <2>1, <2>3 DEF EnvironmentInv
<1>11. CASE k \notin B!Recorded(mode)
  <2>1. installed' = installed /\ \A f \in fs : Kind[f] \in {"build", "config", "unit"}
    BY <1>3, <1>4, <1>5, <1>11
  <2>2. Known' = Known
    BY <1>1, <2>1, TrackedSame DEF Known
  <2>3. ManifestAccounts'
    BY <1>1, <1>6, <1>9, <2>1, <2>2, AccountsIs, AccountsThen DEF EnvironmentInv, Accounts
  <2> QED BY <1>1, <1>2, <1>5, <1>6, <1>9, <2>1, <2>3 DEF EnvironmentInv
<1> QED BY <1>10, <1>11

(* The manifest is written.                                                *)
LEMMA EnvironmentRecord ==
    ASSUME EnvironmentInv, B!Record
    PROVE  EnvironmentInv'
<1>1. /\ mode # "idle" /\ mode' = "idle" /\ stage' = 0 /\ installed' = <<>>
      /\ manifest' = IF mode = "upgrade" /\ manifest # B!NoManifest
                     THEN B!Merged(manifest, installed) ELSE installed
      /\ gap' = (gap \/ (mode = "install" /\ manifest # B!NoManifest))
      /\ UNCHANGED <<disk, created>>
  BY DEF B!Record
<1>2. /\ installed \in Seq(Files) /\ gap \in BOOLEAN /\ mode \in {"install", "upgrade"}
      /\ manifest \in Seq(Files) \union {B!NoManifest} /\ ManifestAccounts
  BY <1>1 DEF EnvironmentInv
<1>3. B!Tracked' = Elements(manifest') /\ manifest' \in Seq(Files) /\ Known' = Elements(manifest')
  <2>1. manifest' \in Seq(Files)
    BY <1>1, <1>2, MergedIs
  <2>2. B!Tracked' = Elements(manifest')
    BY <2>1, NotAFile, TrackedThen
  <2> QED BY <1>1, <2>1, <2>2, SetAlikeB, EmptyElements DEF Known
<1>4. Known = B!Tracked \union Elements(installed)
  BY SetAlikeB DEF Known
<1>5. CASE mode = "upgrade" /\ manifest # B!NoManifest
  <2>1. Elements(manifest') = Elements(manifest) \union Elements(installed)
    BY <1>1, <1>2, <1>5, MergedIs
  <2>2. Known' = Known
    BY <1>2, <1>3, <1>4, <1>5, <2>1, TrackedIs
  <2> QED BY <1>1, <1>2, <1>3, <2>2, EmptyElements, AccountsIs, AccountsThen DEF EnvironmentInv, Accounts
<1>6. CASE manifest = B!NoManifest
  <2>1. Known' = Known
    BY <1>1, <1>2, <1>3, <1>4, <1>6, TrackedIs
  <2> QED BY <1>1, <1>2, <1>3, <1>6, <2>1, EmptyElements, AccountsIs, AccountsThen DEF EnvironmentInv, Accounts
<1>7. CASE mode = "install" /\ manifest # B!NoManifest
  <2>1. gap' = TRUE /\ Known' \subseteq Known
    BY <1>1, <1>2, <1>3, <1>4, <1>7
  <2> QED BY <1>1, <1>2, <1>3, <2>1, EmptyElements, AccountsIs, AccountsThen DEF EnvironmentInv, Accounts
<1> QED BY <1>2, <1>5, <1>6, <1>7

(* Where something is, it is first somewhere.                              *)
LEMMA Least ==
    ASSUME NEW bad, bad \subseteq Nat, bad # {}
    PROVE  LET i == CHOOSE i \in bad : \A j \in bad : i <= j IN i \in bad
BY LeastNat

(* The manifest up to its first skill is part of the manifest.             *)
LEMMA UpToSkillIs ==
    ASSUME manifest \in Seq(Files), NEW skills
    PROVE  /\ Elements(B!UpToSkill(skills)) \subseteq Elements(manifest)
           /\ Len(B!UpToSkill(skills)) = Len(manifest) => B!UpToSkill(skills) = manifest
<1> DEFINE bad == {i \in DOMAIN manifest : manifest[i] \in skills}
           first == CHOOSE i \in bad : \A j \in bad : i <= j
<1>1. B!UpToSkill(skills) = IF bad = {} THEN manifest ELSE SubSeq(manifest, 1, first - 1)
  BY DEF B!UpToSkill
<1>2. Len(manifest) \in Nat /\ DOMAIN manifest = 1..Len(manifest)
  OBVIOUS
<1>3. bad \subseteq 1..Len(manifest) /\ bad \subseteq Nat
  BY <1>2
<1> HIDE DEF bad
<1>4. CASE bad = {}
  BY <1>1, <1>4
<1>5. CASE bad # {}
  <2>1. first \in bad
    BY <1>3, <1>5, Least
  <2>2. first - 1 \in 0..Len(manifest) /\ first - 1 < Len(manifest)
    <3> HIDE DEF first
    <3>1. first \in 1..Len(manifest)
      BY <1>3, <2>1
    <3> QED BY <1>2, <3>1
  <2> HIDE DEF first
  <2> DEFINE m == first - 1
             s == SubSeq(manifest, 1, m)
  <2> HIDE DEF m
  <2>3. m \in 0..Len(manifest) /\ m < Len(manifest)
    BY <2>2 DEF m
  <2>4. Len(s) = m /\ DOMAIN s = 1..m /\ \A i \in 1..m : s[i] = manifest[i]
    BY <2>3
  <2> HIDE DEF s
  <2>5. Elements(s) \subseteq Elements(manifest)
    BY <1>2, <2>3, <2>4 DEF Elements
  <2>6. B!UpToSkill(skills) = s
    BY <1>1, <1>5 DEF s, m
  <2>7. Len(s) # Len(manifest)
    <3>1. Len(s) = m
      BY <2>4
    <3>2. m # Len(manifest)
      <4>1. m \in Int /\ Len(manifest) \in Int
        BY <1>2, <2>3
      <4> QED BY <2>3, <4>1, LessDiffers
    <3> QED BY <3>1, <3>2
  <2> QED BY <2>5, <2>6, <2>7
<1> QED BY <1>4, <1>5

(* What is tracked is restored.                                            *)
LEMMA EnvironmentRestore ==
    ASSUME EnvironmentInv, B!Restore
    PROVE  EnvironmentInv'
<1> DEFINE counted == B!ToSet(B!UpToSkill({f \in Files : Kind[f] = "skill"}))
<1>1. /\ mode = "idle" /\ manifest # B!NoManifest
      /\ disk' = [f \in Files |-> IF f \in counted /\ Kind[f] # "runtime" THEN "ours" ELSE disk[f]]
      /\ UNCHANGED <<manifest, mode, stage, installed, created, gap>>
  BY DEF B!Restore, Files
<1>2. manifest \in Seq(Files)
  BY <1>1 DEF EnvironmentInv
<1>3. counted \subseteq Elements(manifest)
  BY <1>2, UpToSkillIs, SetAlikeB
<1> HIDE DEF counted
<1>4. Known' = Known /\ Elements(manifest) \subseteq Known
  BY <1>1, TrackedSame, TrackedIs DEF Known, EnvironmentInv
<1>5. disk' \in [Files -> B!Contents] /\ \A f \in Files : disk'[f] = "ours" => f \in Known \/ disk[f] = "ours"
  BY <1>1, <1>3, <1>4 DEF EnvironmentInv, B!Contents
<1>6. ManifestAccounts'
  BY <1>1, <1>4, <1>5, AccountsIs, AccountsThen DEF EnvironmentInv, Accounts
<1> QED BY <1>1, <1>5, <1>6 DEF EnvironmentInv

(* What is tracked is removed, up to the first failure, and the manifest   *)
(* with it.                                                                *)
LEMMA EnvironmentUninstall ==
    ASSUME EnvironmentInv, B!Uninstall
    PROVE  EnvironmentInv'
<1> DEFINE counted == B!UpToSkill({f \in Files : Kind[f] = "skill" /\ disk[f] # "none"})
           left == [f \in Files |-> IF f \in B!ToSet(counted) THEN "none" ELSE disk[f]]
<1>1. /\ mode = "idle" /\ manifest # B!NoManifest /\ disk' = left
      /\ manifest' = IF B!Emptied(counted, left) THEN B!NoManifest ELSE manifest
      /\ UNCHANGED <<mode, stage, installed, created, gap>>
  BY DEF B!Uninstall, Files
<1>2. manifest \in Seq(Files) /\ installed = <<>>
  BY <1>1 DEF EnvironmentInv
<1>3. Len(counted) = Len(manifest) => counted = manifest
  BY <1>2, UpToSkillIs
<1> HIDE DEF counted
<1>4. /\ disk' \in [Files -> B!Contents]
      /\ \A f \in Files : disk'[f] = "ours" => disk[f] = "ours" /\ f \notin Elements(counted)
  BY <1>1, SetAlikeB DEF EnvironmentInv, B!Contents
<1>5. Known = Elements(manifest)
  BY <1>1, <1>2, TrackedIs, SetAlikeB, EmptyElements DEF Known
<1>6. CASE manifest' = manifest
  <2>1. Known' = Known
    BY <1>1, <1>6, TrackedSame DEF Known
  <2>2. ManifestAccounts'
    BY <1>1, <1>4, <2>1, AccountsIs, AccountsThen DEF EnvironmentInv, Accounts
  <2> QED BY <1>1, <1>4, <1>6, <2>2 DEF EnvironmentInv
<1>7. CASE manifest' = B!NoManifest /\ counted = manifest
  <2>1. Known' = {}
    BY <1>1, <1>2, <1>7, TrackedThen, SetAlikeB, EmptyElements DEF Known
  <2>2. ManifestAccounts'
    BY <1>1, <1>4, <1>5, <1>7, <2>1, AccountsIs, AccountsThen DEF EnvironmentInv, Accounts
  <2> QED BY <1>1, <1>4, <1>7, <2>2 DEF EnvironmentInv
<1> QED BY <1>1, <1>3, <1>6, <1>7 DEF B!Emptied

(* The manifest tracks files that this installer created and no others;    *)
(* what the installer left on the disk and no manifest knows is of a kind  *)
(* that is never recorded, or a run was interrupted or installed over an   *)
(* earlier manifest - after any sequence of installations, upgrades,       *)
(* crashes, restorations, removals and edits of the owner.                 *)
THEOREM ManifestTells == B!Spec => []ManifestAccounts
<1>1. ASSUME B!Init PROVE EnvironmentInv
  <2>1. /\ disk \in [Files -> {"none", "own"}] /\ manifest = B!NoManifest /\ mode = "idle"
        /\ stage = 0 /\ installed = <<>> /\ created = {} /\ gap = FALSE
    BY <1>1 DEF B!Init, Files
  <2>2. Known = {}
    BY <2>1, TrackedIs, SetAlikeB, EmptyElements DEF Known
  <2>3. ManifestAccounts
    BY <2>1, <2>2, AccountsIs DEF Accounts
  <2> QED BY <2>1, <2>3, EmptyElements DEF EnvironmentInv, B!Contents
<1>2. ASSUME EnvironmentInv, [B!Next]_bvars PROVE EnvironmentInv'
  <2>1. CASE UNCHANGED bvars
    <3>1. Known' = Known /\ UNCHANGED <<disk, created, gap>>
      BY <2>1, TrackedSame DEF Known, bvars
    <3>2. ManifestAccounts'
      BY <1>2, <3>1, AccountsIs, AccountsThen DEF EnvironmentInv
    <3> QED BY <1>2, <2>1, <3>2 DEF EnvironmentInv, bvars
  <2>2. CASE B!Begin("install") \/ B!Begin("upgrade")
    BY <1>2, <2>2, EnvironmentBegin
  <2>3. CASE B!InstallKind
    BY <1>2, <2>3, EnvironmentInstall
  <2>4. CASE B!Record
    BY <1>2, <2>4, EnvironmentRecord
  <2>5. CASE B!Crash
    BY <1>2, <2>5, EnvironmentCrash
  <2>6. CASE B!Restore
    BY <1>2, <2>6, EnvironmentRestore
  <2>7. CASE B!Uninstall
    BY <1>2, <2>7, EnvironmentUninstall
  <2>8. CASE \E f \in Files : B!OwnerActs(f)
    BY <1>2, <2>8, EnvironmentOwner
  <2> QED BY <1>2, <2>1, <2>2, <2>3, <2>4, <2>5, <2>6, <2>7, <2>8 DEF B!Next, Files
<1>3. ASSUME EnvironmentInv PROVE ManifestAccounts
  BY <1>3 DEF EnvironmentInv
<1> QED BY <1>1, <1>2, <1>3, PTL DEF B!Spec, B!vars, bvars

-----------------------------------------------------------------------------
(* The dashboard: what one collection read, and when.                      *)

(* What the recovery state says of the two components.                     *)
Components == [1..2 -> {"HEALTHY", "COOLDOWN", "ESCALATION_REQUIRED"}]

(* What was collected so far: the alerts go back to readings that are      *)
(* failed and not read again, and what has failed since the beginning was  *)
(* read as failed when its turn came.                                      *)
Collected ==
    /\ reading \in 0..8
    /\ alerts \subseteq {"recovery", "system-degraded", "git-dirty"}
    /\ "recovery" \in alerts => reading >= 6 /\ read_["recovery"] = "failed"
    /\ "system-degraded" \in alerts => reading = 8 /\ read_["system"] = "failed"
    /\ lasting \subseteq D!Failing(world)
    /\ reading = 0 => lasting = {} /\ alerts = {}
    /\ \A i \in 1..reading : D!Order[i] \in lasting => read_[D!Order[i]] = "failed"

(* What is collected, what is in the cache and how old it is.              *)
DashboardInv ==
    /\ clock \in Int /\ began \in Int
    /\ DOMAIN world = DOMAIN D!Facts /\ world.recovery \in {<<>>} \union Components
    /\ DOMAIN read_ = D!Sections
    /\ Collected
    /\ cache.there => cache.ts = cache.began /\ cache.ts \in Int
    /\ DashboardTells

(* The order the sections are read in.                                     *)
LEMMA OrderIs ==
    /\ Len(D!Order) = 8 /\ DOMAIN D!Order = 1..8
    /\ D!Order[1] = "agents" /\ D!Order[2] = "commands" /\ D!Order[3] = "skills"
    /\ D!Order[4] = "mcp" /\ D!Order[5] = "akm" /\ D!Order[6] = "recovery"
    /\ D!Order[7] = "ci" /\ D!Order[8] = "system"
BY DEF D!Order

(* The places of the eight sections.                                       *)
LEMMA EightOnly == \A i \in 1..8 : i \in {1, 2, 3, 4, 5, 6, 7, 8}
OBVIOUS

(* The eight sections.                                                     *)
LEMMA SectionsAre ==
    D!Sections = {"agents", "commands", "skills", "mcp", "akm", "recovery", "ci", "system"}
<1>1. D!Sections = {D!Order[i] : i \in 1..8}
  BY OrderIs DEF D!Sections
<1>2. \A i \in 1..8 : D!Order[i] \in
          {"agents", "commands", "skills", "mcp", "akm", "recovery", "ci", "system"}
  BY EightOnly, OrderIs
<1>3. 1 \in 1..8 /\ 2 \in 1..8 /\ 3 \in 1..8 /\ 4 \in 1..8
      /\ 5 \in 1..8 /\ 6 \in 1..8 /\ 7 \in 1..8 /\ 8 \in 1..8
  OBVIOUS
<1>4. \A s \in {"agents", "commands", "skills", "mcp", "akm", "recovery", "ci", "system"} :
          \E i \in 1..8 : s = D!Order[i]
  BY <1>3, OrderIs
<1> QED BY <1>1, <1>2, <1>4

(* Each section has one place in the order.                                *)
LEMMA OrderOnce == \A i, j \in 1..8 : D!Order[i] = D!Order[j] => i = j
<1> SUFFICES ASSUME NEW i \in 1..8, NEW j \in 1..8, D!Order[i] = D!Order[j] PROVE i = j
  OBVIOUS
<1>1. i \in {1, 2, 3, 4, 5, 6, 7, 8} /\ j \in {1, 2, 3, 4, 5, 6, 7, 8}
  BY EightOnly
<1> QED BY <1>1, OrderIs

(* The section of the pipelines never fails.                               *)
LEMMA CIHolds == \A w : D!Status("ci", w) = "healthy"
BY DEF D!Status

(* A component that was given up makes the recovery section fail.          *)
LEMMA GivenUpFails ==
    ASSUME NEW w, w.recovery \in {<<>>} \union Components,
           D!Alerts("recovery", w) # {}
    PROVE  D!Status("recovery", w) = "failed"
<1>1. \E i \in DOMAIN w.recovery : w.recovery[i] \in D!GivenUp
  BY DEF D!Alerts, D!When
<1>2. w.recovery # <<>>
  BY <1>1
<1>3. w.recovery \in Components
  BY <1>2
<1>4. w.recovery[1] \in D!GivenUp \/ w.recovery[2] \in D!GivenUp
  BY <1>1, <1>3 DEF Components
<1>5. D!Status("recovery", w) = D!Recovery(w)
  BY DEF D!Status
<1>6. D!Recovery(w) = D!Worse(w.recovery[2], D!Worse(w.recovery[1], "healthy"))
  BY <1>2 DEF D!Recovery
<1> QED BY <1>4, <1>5, <1>6 DEF D!Worse

(* Which section raises which alert.                                       *)
LEMMA AlertsAre ==
    ASSUME NEW w, NEW s \in D!Sections
    PROVE  /\ D!Alerts(s, w) \subseteq {"recovery", "system-degraded", "git-dirty"}
           /\ "recovery" \in D!Alerts(s, w) => s = "recovery"
           /\ "system-degraded" \in D!Alerts(s, w) => s = "system" /\ D!Status(s, w) = "failed"
<1>1. CASE s = "recovery"
  BY <1>1 DEF D!Alerts, D!When
<1>2. CASE s = "system"
  <2>1. D!Alerts(s, w) = D!When(D!System(w) = "failed", "system-degraded")
    BY <1>2 DEF D!Alerts
  <2>2. D!Status(s, w) = D!System(w)
    BY <1>2 DEF D!Status
  <2> QED BY <1>2, <2>1, <2>2 DEF D!When
<1>3. CASE s = "ci"
  BY <1>3 DEF D!Alerts, D!When
<1>4. CASE s \notin {"recovery", "system", "ci"}
  BY <1>4 DEF D!Alerts
<1> QED BY <1>1, <1>2, <1>3, <1>4

(* Reading the next section.                                               *)
LEMMA ReadCollects ==
    ASSUME DashboardInv, NEW n \in 1..8, n = reading + 1, D!Read(n),
           lasting' \subseteq D!Failing(world), n > 1 => lasting' = lasting
    PROVE  Collected' /\ DOMAIN read_' = D!Sections
<1> DEFINE s == D!Order[n]
<1>1. /\ read_' = [read_ EXCEPT ![s] = D!Status(s, world)]
      /\ alerts' = alerts \union D!Alerts(s, world)
      /\ reading' = n /\ UNCHANGED <<world, changes, clock, cache, age>>
  BY DEF D!Read
<1>2. s \in D!Sections
  BY OrderIs DEF D!Sections
<1>3. DOMAIN read_ = D!Sections /\ Collected
  BY DEF DashboardInv
<1>4. s = "recovery" => n = 6
  <2>1. 6 \in 1..8
    OBVIOUS
  <2> QED BY <2>1, OrderOnce, OrderIs
<1>5. s = "system" => n = 8
  <2>1. 8 \in 1..8
    OBVIOUS
  <2> QED BY <2>1, OrderOnce, OrderIs
<1>6. \A i \in 1..reading : D!Order[i] # s
  <2> SUFFICES ASSUME NEW i \in 1..reading, D!Order[i] = s PROVE FALSE
    OBVIOUS
  <2>1. i \in 1..8 /\ i # n /\ reading \in 0..8
    BY <1>3 DEF Collected
  <2> QED BY <2>1, OrderOnce
<1> HIDE DEF s
<1>7. read_'[s] = D!Status(s, world) /\ \A t \in D!Sections \ {s} : read_'[t] = read_[t]
  BY <1>1, <1>2, <1>3
<1>8. alerts' \subseteq {"recovery", "system-degraded", "git-dirty"}
  BY <1>1, <1>2, <1>3, AlertsAre DEF Collected
<1>9. ASSUME "recovery" \in alerts' PROVE reading' >= 6 /\ read_'["recovery"] = "failed"
  <2>1. CASE "recovery" \in alerts
    <3>1. reading >= 6 /\ read_["recovery"] = "failed" /\ reading \in 0..8
      BY <1>3, <2>1 DEF Collected
    <3>2. n # 6
      BY <3>1
    <3>3. s # "recovery" /\ "recovery" \in D!Sections
      BY <1>4, <3>2, SectionsAre
    <3> QED BY <1>1, <1>7, <3>1, <3>3
  <2>2. CASE "recovery" \in D!Alerts(s, world)
    <3>1. s = "recovery"
      BY <1>2, <2>2, AlertsAre
    <3>2. D!Status(s, world) = "failed"
      BY <2>2, <3>1, GivenUpFails DEF DashboardInv
    <3> QED BY <1>1, <1>4, <1>7, <3>1, <3>2
  <2> QED BY <1>1, <1>9, <2>1, <2>2
<1>10. ASSUME "system-degraded" \in alerts' PROVE reading' = 8 /\ read_'["system"] = "failed"
  <2>1. "system-degraded" \notin alerts
    BY <1>3 DEF Collected
  <2>2. s = "system" /\ D!Status(s, world) = "failed"
    BY <1>1, <1>2, <1>10, <2>1, AlertsAre
  <2> QED BY <1>1, <1>5, <1>7, <2>2
<1>11. ASSUME NEW i \in 1..n, D!Order[i] \in lasting' PROVE read_'[D!Order[i]] = "failed"
  <2>1. CASE i = n
    <3>1. s \in D!Failing(world)
      BY <1>11, <2>1 DEF s
    <3>2. D!Status(s, world) = "failed"
      BY <3>1 DEF D!Failing
    <3> QED BY <1>7, <2>1, <3>2 DEF s
  <2>2. CASE i # n
    <3>1. i \in 1..reading /\ n > 1 /\ i \in 1..8
      BY <1>3, <2>2 DEF Collected
    <3>2. D!Order[i] \in lasting
      BY <1>11, <3>1
    <3>3. read_[D!Order[i]] = "failed" /\ D!Order[i] # s
      BY <1>3, <1>6, <3>1, <3>2 DEF Collected
    <3>4. D!Order[i] \in D!Sections
      BY <3>1, OrderIs DEF D!Sections
    <3> QED BY <1>7, <3>3, <3>4
  <2> QED BY <2>1, <2>2
<1>12. lasting' \subseteq D!Failing(world')
  BY <1>1
<1>13. D!Failing(world)' = D!Failing(world')
  BY DEF D!Failing
<1> QED BY <1>1, <1>3, <1>7, <1>8, <1>9, <1>10, <1>11, <1>12, <1>13 DEF Collected

(* What a failed reading makes of the whole.                               *)
LEMMA OneFails ==
    ASSUME NEW statuses, NEW s \in D!Sections \ {"ci"}, statuses[s] = "failed"
    PROVE  D!Overall(statuses) = "failed"
<1>1. "failed" \in {statuses[t] : t \in D!Sections \ {"ci"}}
  BY Zenon
<1> QED BY <1>1 DEF D!Overall, D!Merged

LEMMA DashboardAnswer == ASSUME DashboardInv, D!Answer PROVE DashboardInv'
<1>1. /\ reading = 8 /\ reading' = 0 /\ lasting' = {} /\ alerts' = {} /\ began' = 0 /\ age' = 0
      /\ read_' = D!Unread /\ UNCHANGED <<world, changes, clock>>
      /\ cache' = [there |-> TRUE, ts |-> began, began |-> began, overall |-> D!Overall(read_),
                   alerts |-> alerts, lasting |-> lasting]
  BY OrderIs DEF D!Answer, D!Stamp
<1>2. Collected
  BY DEF DashboardInv
<1>3. alerts \ {"git-dirty"} # {} => D!Overall(read_) = "failed"
  <2>1. "recovery" \in alerts => D!Overall(read_) = "failed"
    BY <1>2, OneFails, SectionsAre DEF Collected
  <2>2. "system-degraded" \in alerts => D!Overall(read_) = "failed"
    BY <1>2, OneFails, SectionsAre DEF Collected
  <2> QED BY <1>2, <2>1, <2>2 DEF Collected
<1>4. lasting # {} => D!Overall(read_) = "failed"
  <2> SUFFICES ASSUME NEW s \in lasting PROVE D!Overall(read_) = "failed"
    OBVIOUS
  <2>1. s \in D!Sections /\ D!Status(s, world) = "failed"
    BY <1>2 DEF Collected, D!Failing
  <2>2. s # "ci"
    BY <2>1, CIHolds
  <2>3. PICK i \in 1..8 : s = D!Order[i]
    BY <2>1, OrderIs DEF D!Sections
  <2>4. read_[s] = "failed"
    BY <1>1, <1>2, <2>3 DEF Collected
  <2> QED BY <2>1, <2>2, <2>4, OneFails
<1>5. DashboardTells'
  BY <1>1, <1>3, <1>4, FrontAssumption DEF DashboardTells, D!DashboardTells, D!AlertsImplyFailed,
       D!LastingFailureTold, D!ServedFresh, FrontAssumption
<1>6. Collected'
  BY <1>1 DEF Collected
<1>7. DOMAIN read_' = D!Sections
  BY <1>1 DEF D!Unread
<1> QED BY <1>1, <1>5, <1>6, <1>7 DEF DashboardInv

(* What is served has not changed.                                         *)
LEMMA TellsSame ==
    ASSUME DashboardTells, cache' = cache, age' = age
    PROVE  DashboardTells'
BY DEF DashboardTells, D!DashboardTells, D!AlertsImplyFailed, D!LastingFailureTold, D!ServedFresh

LEMMA DashboardChange == ASSUME DashboardInv, D!Change PROVE DashboardInv'
<1>1. PICK fact \in DOMAIN D!Facts : \E value \in D!Facts[fact] \ {world[fact]} :
          world' = [world EXCEPT ![fact] = value]
  BY DEF D!Change
<1>2. PICK value \in D!Facts[fact] : world' = [world EXCEPT ![fact] = value]
  BY <1>1
<1>3. /\ lasting' = lasting \intersect D!Failing(world')
      /\ UNCHANGED <<clock, reading, read_, alerts, began, cache, age>>
  BY DEF D!Change
<1>4. DOMAIN world = DOMAIN D!Facts /\ world.recovery \in {<<>>} \union Components /\ "recovery" \in DOMAIN D!Facts
  BY DEF DashboardInv, D!Facts
<1>5. DOMAIN world' = DOMAIN D!Facts
  BY <1>2, <1>4
<1>6. world'.recovery \in {<<>>} \union Components
  <2>1. CASE fact = "recovery"
    <3>1. D!Facts["recovery"] = {<<>>} \union Components
      BY DEF D!Facts, Components
    <3> QED BY <1>2, <1>4, <2>1, <3>1
  <2>2. CASE fact # "recovery"
    BY <1>2, <1>4, <2>2
  <2> QED BY <2>1, <2>2
<1>7. Collected'
  <2>1. D!Failing(world)' = D!Failing(world')
    BY DEF D!Failing
  <2>2. lasting' \subseteq lasting /\ lasting' \subseteq D!Failing(world')
    BY <1>3
  <2>3. Collected
    BY DEF DashboardInv
  <2> QED BY <1>3, <2>1, <2>2, <2>3 DEF Collected
<1>8. DashboardTells'
  BY <1>3, TellsSame DEF DashboardInv
<1> QED BY <1>3, <1>5, <1>6, <1>7, <1>8 DEF DashboardInv

(* The alerts, the overall status and the age of what the dashboard        *)
(* serves agree: an alert other than uncommitted changes stands beside a   *)
(* status of failed, what failed from the beginning of a collection to     *)
(* its end makes it failed, and nothing is served that was read longer     *)
(* ago than the TTL.                                                       *)
THEOREM DashboardTrue == D!Spec => []DashboardTells
<1>1. ASSUME D!Init PROVE DashboardInv
  <2>1. /\ world = D!AllWell /\ clock = 0 /\ reading = 0 /\ read_ = D!Unread /\ alerts = {}
        /\ began = 0 /\ lasting = {} /\ cache = D!NoCache /\ age = 0
    BY <1>1 DEF D!Init
  <2>2. DOMAIN world = DOMAIN D!Facts
    BY <2>1 DEF D!AllWell, D!Facts
  <2>3. world.recovery \in {<<>>} \union Components
    BY <2>1 DEF D!AllWell, Components
  <2>4. DashboardTells
    BY <2>1, FrontAssumption DEF DashboardTells, D!DashboardTells, D!AlertsImplyFailed,
         D!LastingFailureTold, D!ServedFresh, FrontAssumption, D!NoCache
  <2>5. Collected
    BY <2>1 DEF Collected
  <2> QED BY <2>1, <2>2, <2>3, <2>4, <2>5 DEF DashboardInv, D!Unread, D!NoCache
<1>2. ASSUME DashboardInv, [D!Next]_dvars PROVE DashboardInv'
  <2>1. CASE UNCHANGED dvars
    <3>1. D!Failing(world)' = D!Failing(world)
      BY <2>1 DEF dvars, D!Failing
    <3>2. Collected' <=> Collected
      BY <2>1, <3>1 DEF dvars, Collected
    <3>3. DashboardTells'
      BY <1>2, <2>1, TellsSame DEF dvars, DashboardInv
    <3> QED BY <1>2, <2>1, <3>2, <3>3 DEF dvars, DashboardInv
  <2>2. CASE D!Change
    BY <1>2, <2>2, DashboardChange
  <2>3. CASE D!Tick
    <3>1. /\ clock' = clock + 1
          /\ UNCHANGED <<world, changes, reading, read_, alerts, began, lasting, cache, age>>
      BY <2>3 DEF D!Tick
    <3>2. D!Failing(world)' = D!Failing(world)
      BY <3>1 DEF D!Failing
    <3>3. Collected' <=> Collected
      BY <3>1, <3>2 DEF Collected
    <3>4. DashboardTells'
      BY <1>2, <3>1, TellsSame DEF DashboardInv
    <3> QED BY <1>2, <3>1, <3>3, <3>4 DEF DashboardInv
  <2>4. CASE D!Serve
    <3>1. /\ D!Live /\ age' = clock - cache.began
          /\ UNCHANGED <<world, changes, clock, reading, read_, alerts, began, lasting, cache>>
      BY <2>4 DEF D!Serve
    <3>2. age' < CacheTTL
      BY <1>2, <3>1 DEF D!Live, DashboardInv
    <3>3. D!Failing(world)' = D!Failing(world)
      BY <3>1 DEF D!Failing
    <3>4. Collected' <=> Collected
      BY <3>1, <3>3 DEF Collected
    <3>5. DashboardTells'
      BY <1>2, <3>1, <3>2 DEF DashboardInv, DashboardTells, D!DashboardTells,
           D!AlertsImplyFailed, D!LastingFailureTold, D!ServedFresh
    <3> QED BY <1>2, <3>1, <3>4, <3>5 DEF DashboardInv
  <2>5. CASE D!Begin
    <3>1. reading = 0 /\ D!Read(1) /\ began' = clock /\ lasting' = D!Failing(world)
      BY <2>5 DEF D!Begin
    <3>2. Collected' /\ DOMAIN read_' = D!Sections
      <4>1. 1 \in 1..8 /\ 1 = reading + 1 /\ ~(1 > 1)
        BY <3>1
      <4> QED BY <1>2, <3>1, <4>1, ReadCollects
    <3>3. UNCHANGED <<world, changes, clock, cache, age>>
      BY <3>1 DEF D!Read
    <3>4. DashboardTells'
      BY <1>2, <3>3, TellsSame DEF DashboardInv
    <3> QED BY <1>2, <3>1, <3>2, <3>3, <3>4 DEF DashboardInv
  <2>6. CASE D!Collect
    <3>1. reading \in 1..7 /\ D!Read(reading + 1) /\ UNCHANGED <<began, lasting>>
      BY <2>6, OrderIs DEF D!Collect
    <3>2. PICK n \in 1..8 : n = reading + 1
      BY <3>1
    <3>3. lasting' \subseteq D!Failing(world)
      BY <1>2, <3>1 DEF DashboardInv, Collected
    <3>4. Collected' /\ DOMAIN read_' = D!Sections
      BY <1>2, <3>1, <3>2, <3>3, ReadCollects
    <3>5. UNCHANGED <<world, changes, clock, cache, age>>
      BY <3>1 DEF D!Read
    <3>6. DashboardTells'
      BY <1>2, <3>5, TellsSame DEF DashboardInv
    <3> QED BY <1>2, <3>1, <3>4, <3>5, <3>6 DEF DashboardInv
  <2>7. CASE D!Answer
    BY <1>2, <2>7, DashboardAnswer
  <2>8. CASE D!InvalidateCache
    <3>1. /\ cache' = D!NoCache
          /\ UNCHANGED <<world, changes, clock, reading, read_, alerts, began, lasting, age>>
      BY <2>8 DEF D!InvalidateCache
    <3>2. D!Failing(world)' = D!Failing(world)
      BY <3>1 DEF D!Failing
    <3>3. Collected' <=> Collected
      BY <3>1, <3>2 DEF Collected
    <3>4. DashboardTells'
      BY <1>2, <3>1 DEF DashboardInv, DashboardTells, D!DashboardTells,
           D!AlertsImplyFailed, D!LastingFailureTold, D!ServedFresh, D!NoCache
    <3> QED BY <1>2, <3>1, <3>3, <3>4 DEF DashboardInv, D!NoCache
  <2> QED BY <1>2, <2>1, <2>2, <2>3, <2>4, <2>5, <2>6, <2>7, <2>8 DEF D!Next
<1>3. ASSUME DashboardInv PROVE DashboardTells
  BY <1>3 DEF DashboardInv
<1> QED BY <1>1, <1>2, <1>3, PTL DEF D!Spec, D!vars, dvars

-----------------------------------------------------------------------------
(* The error budgets: two judgements of the same rows.                     *)

(* What the policy allows: the code takes 5 for a budget that is 0 or not  *)
(* there, and the others are 5 as well.  From 8 percent on a summary of    *)
(* "critical" may stand beside a budget that is healthy; the window is     *)
(* the 50 rows of the script, and rounding cannot reach 100 percent with   *)
(* a failure in it below 20000.                                            *)
Tolerant == BudgetPercent \in 1..7 /\ Limit \in Nat /\ Limit <= 20000

(* The rows of a window.                                                   *)
TallyInv == passed_ \in Nat /\ failed \in Nat /\ passed_ + failed <= Limit

(* The rounded rate against the thresholds of the summary, of which each   *)
(* is a multiple of what it is rounded to.                                 *)
LEMMA Rate ==
    ASSUME NEW p \in Nat, NEW f \in Nat, p + f > 0
    PROVE  LET n == p + f
               r == (20000 * p + n) \div (2 * n)
           IN  /\ r \in Nat
               /\ 1000 * p < 950 * n => r <= 9500
               /\ 1000 * p >= 995 * n => r >= 9950
               /\ p > 0 /\ n <= 20000 => r > 0
               /\ p = 0 => r = 0
<1> DEFINE n == p + f
           y == 20000 * p + n
           r == y \div (2 * n)
<1>1. n \in Nat \ {0} /\ y \in Nat /\ 2 * n \in Nat \ {0}
  OBVIOUS
<1>2. r \in Nat /\ r * (2 * n) <= y /\ y < r * (2 * n) + 2 * n
  <2> HIDE DEF y, n
  <2> DEFINE m == 2 * n
  <2>1. y \in Nat /\ y \in Int /\ m \in Nat \ {0}
    BY <1>1
  <2> HIDE DEF m
  <2>2. y \div m \in Nat
    BY <2>1, DivMod
  <2>3. (y \div m) * m <= y /\ y < (y \div m) * m + m
    BY <2>1, DivBetween
  <2> QED BY <2>2, <2>3 DEF m
<1>y. y = 20000 * p + n /\ p <= n
  OBVIOUS
<1> HIDE DEF r, y, n
<1>3. ASSUME 1000 * p < 950 * n PROVE r <= 9500
  <2> SUFFICES ASSUME 9501 <= r PROVE FALSE
    BY <1>2
  <2>1. 9501 * (2 * n) <= r * (2 * n)
    BY <1>1, <1>2, ProductGrows
  <2> QED BY <1>1, <1>2, <1>3, <1>y, <2>1
<1>4. ASSUME 1000 * p >= 995 * n PROVE r >= 9950
  <2> SUFFICES ASSUME r <= 9949 PROVE FALSE
    BY <1>2
  <2>1. r * (2 * n) <= 9949 * (2 * n)
    BY <1>1, <1>2, ProductGrows
  <2> QED BY <1>1, <1>2, <1>4, <1>y, <2>1
<1>5. ASSUME p > 0, n <= 20000 PROVE r > 0
  <2> SUFFICES ASSUME r = 0 PROVE FALSE
    BY <1>2
  <2> QED BY <1>1, <1>2, <1>5, <1>y
<1>6. ASSUME p = 0 PROVE r = 0
  <2> SUFFICES ASSUME 1 <= r PROVE FALSE
    BY <1>2
  <2>1. 1 * (2 * n) <= r * (2 * n)
    BY <1>1, <1>2, ProductGrows
  <2> QED BY <1>1, <1>2, <1>6, <1>y, <2>1
<1> QED BY <1>2, <1>3, <1>4, <1>5, <1>6 DEF r, y, n

(* The two judgements of one tally.                                        *)
LEMMA TallyAgrees ==
    ASSUME Tolerant, TallyInv
    PROVE  JudgementsAgree
<1> DEFINE n == passed_ + failed
<1>1. n \in Nat /\ n <= Limit /\ passed_ \in Nat /\ failed \in Nat /\ E!Count = n
  BY DEF TallyInv, E!Count
<1> USE DEF JudgementsAgree, E!JudgementsAgree
<1>2. CASE n = 0
  BY <1>1, <1>2 DEF E!SummaryStatus, E!BudgetStatus
<1>3. CASE n > 0
  <2> DEFINE r == E!SuccessRate
  <2>1. /\ r \in Nat
        /\ 1000 * passed_ < 950 * n => r <= 9500
        /\ 1000 * passed_ >= 995 * n => r >= 9950
        /\ passed_ > 0 /\ n <= 20000 => r > 0
        /\ passed_ = 0 => r = 0
    BY <1>1, <1>3, Rate DEF E!SuccessRate, E!Count
  <2>2. E!Consumed = 10000 - r
    BY DEF E!Consumed
  <2> HIDE DEF r
  <2>3. /\ E!AtLeast(995) <=> passed_ * 1000 >= 995 * n
        /\ E!AtLeast(950) <=> passed_ * 1000 >= 950 * n
    BY <1>1 DEF E!AtLeast
  <2>4. /\ E!SummaryStatus = "critical" => passed_ * 1000 < 950 * n
        /\ E!SummaryStatus = "healthy" => passed_ * 1000 >= 995 * n
    BY <1>1, <2>3 DEF E!SummaryStatus
  <2>5. /\ E!BudgetStatus = "exhausted" <=> 10000 - r >= 10000
        /\ 10000 - r >= 70 * BudgetPercent /\ 10000 - r < 10000 => E!BudgetStatus = "warning"
        /\ 10000 - r < 70 * BudgetPercent /\ 10000 - r < 10000 => E!BudgetStatus = "healthy"
    BY <1>1, <1>3, <2>1, <2>2 DEF E!BudgetStatus, Tolerant
  <2>6. E!SummaryStatus = "critical" => E!BudgetStatus \in {"warning", "exhausted"}
    BY <2>1, <2>4, <2>5, <1>1 DEF Tolerant
  <2>7. E!SummaryStatus = "healthy" => E!BudgetStatus = "healthy"
    BY <2>1, <2>4, <2>5, <1>1 DEF Tolerant
  <2>8. E!BudgetStatus = "exhausted" <=> n > 0 /\ passed_ = 0
    <3>0. n <= 20000
      BY <1>1, Tolerant DEF Tolerant
    <3> HIDE DEF n
    <3>1. passed_ > 0 => r > 0
      BY <2>1, <3>0
    <3>2. r = 0 <=> passed_ = 0
      BY <1>1, <2>1, <3>1
    <3>3. 10000 - r >= 10000 <=> r = 0
      BY <2>1
    <3> QED BY <1>3, <2>5, <3>2, <3>3
  <2> QED BY <1>1, <2>6, <2>7, <2>8
<1> QED BY <1>1, <1>2, <1>3

(* The summary of an indicator and its error budget, which are computed    *)
(* from the same rows - one from the rate, the other from what was         *)
(* consumed of 100 percent - agree: no budget is healthy when the summary  *)
(* is critical, and so on; the roundings of the two never bring them       *)
(* apart.                                                                  *)
THEOREM JudgementsMeet == ASSUME Tolerant PROVE E!Spec => []JudgementsAgree
<1>1. ASSUME E!Init PROVE TallyInv
  BY <1>1, Tolerant DEF E!Init, TallyInv, Tolerant
<1>2. ASSUME TallyInv, [E!Next]_evars PROVE TallyInv'
  BY <1>2, Tolerant DEF TallyInv, Tolerant, evars, E!Next, E!Row, E!Ends, E!Leaves, E!Count
<1>3. ASSUME TallyInv PROVE JudgementsAgree
  BY <1>3, Tolerant, TallyAgrees
<1> QED BY <1>1, <1>2, <1>3, PTL DEF E!Spec, E!vars, evars

-----------------------------------------------------------------------------
(* The performance baseline.                                               *)

(* The benchmarks that have a component.                                   *)
Benchmarks == DOMAIN Component

(* What an update measured is what the file says, unless it is lost.       *)
BaselineInv ==
    /\ good \in [Benchmarks -> Nat]
    /\ DOMAIN benchmarked \subseteq Benchmarks
    /\ \A b \in DOMAIN benchmarked : benchmarked[b].median \in Nat \union {-1}
    /\ \A b \in Benchmarks :
          good[b] > 0 /\ b \notin lost => b \in DOMAIN baseline /\ baseline[b] = good[b]

(* A benchmark is measured.                                                *)
LEMMA MeasuredKeeps ==
    ASSUME BaselineInv, NEW b \in Benchmarks, L!Benchmark(b)
    PROVE  BaselineInv'
<1>1. \E m \in Nat \union {-1} : \E s :
          benchmarked' = L!With(b, [median |-> m, status |-> s])
  <2>1. CASE options.filter \in {"", Component[b]}
    <3>1. PICK warm \in 0..L!WarmUp, fails \in 0..Measured[b], median \in Medians :
              benchmarked' = L!With(b,
                  [median |-> IF fails = Measured[b] THEN 0 ELSE median,
                   status |-> L!Judged(b, L!Counted(warm, fails))])
      BY <2>1 DEF L!Benchmark, L!Measures
    <3>2. (IF fails = Measured[b] THEN 0 ELSE median) \in Nat
      BY FrontAssumption DEF FrontAssumption
    <3> QED BY <3>1, <3>2
  <2>2. CASE options.filter \notin {"", Component[b]}
    <3>1. benchmarked' = L!With(b, [median |-> -1, status |-> "pass"])
      BY <2>2 DEF L!Benchmark, L!SkipResult, L!Skipped
    <3> QED BY <3>1
  <2> QED BY <2>1, <2>2
<1> PICK m \in Nat \union {-1} : \E s : benchmarked' = L!With(b, [median |-> m, status |-> s])
  BY <1>1
<1> PICK s : benchmarked' = L!With(b, [median |-> m, status |-> s])
  OBVIOUS
<1>2. DOMAIN benchmarked' = DOMAIN benchmarked \union {b}
  BY DEF L!With
<1>3. \A c \in DOMAIN benchmarked' :
          benchmarked'[c].median = IF c = b THEN m ELSE benchmarked[c].median
  BY DEF L!With
<1>4. UNCHANGED <<good, lost, baseline>>
  BY DEF L!Benchmark
<1> QED BY <1>2, <1>3, <1>4 DEF BaselineInv

(* A run ends, or updates the baseline.                                    *)
LEMMA MainKeeps ==
    ASSUME BaselineInv, L!Main
    PROVE  BaselineInv'
<1>1. benchmarked' = L!Nothing /\ DOMAIN benchmarked = Benchmarks
  BY DEF L!Main, Benchmarks
<1>2. DOMAIN benchmarked' = {}
  BY <1>1 DEF L!Nothing
<1>3. CASE ~options.update
  BY <1>2, <1>3 DEF L!Main, BaselineInv
<1>4. CASE options.update
  <2>1. /\ good' = [b \in Benchmarks |->
                      IF benchmarked[b].median > 0 THEN benchmarked[b].median ELSE good[b]]
        /\ lost' = {b \in Benchmarks : benchmarked[b].median <= 0}
        /\ baseline' = [b \in Benchmarks |-> benchmarked[b].median]
    BY <1>4 DEF L!Main, L!Saved, L!Entries, Benchmarks
  <2>2. \A b \in Benchmarks : benchmarked[b].median \in Nat \union {-1} /\ good[b] \in Nat
    BY <1>1 DEF BaselineInv
  <2>3. good' \in [Benchmarks -> Nat]
    BY <2>1, <2>2
  <2>4. ASSUME NEW b \in Benchmarks, b \notin lost'
        PROVE  b \in DOMAIN baseline' /\ baseline'[b] = good'[b]
    BY <2>1, <2>2, <2>4
  <2> QED BY <1>2, <2>3, <2>4 DEF BaselineInv
<1> QED BY <1>3, <1>4

(* It names each benchmark that has become slower.                         *)
LEMMA MainNames ==
    ASSUME BaselineInv, L!Main, NEW b \in Benchmarks, b \notin lost, good[b] > 0,
           100 * (benchmarked[b].median - good[b]) > Regression * good[b]
    PROVE  b \in named'
<1>1. named' = L!Regressions /\ DOMAIN benchmarked = Benchmarks
  BY DEF L!Main, Benchmarks
<1>2. b \in DOMAIN baseline /\ baseline[b] = good[b] /\ good[b] \in Nat
      /\ benchmarked[b].median \in Int
  BY <1>1 DEF BaselineInv
<1>3. Regression * good[b] >= 0
  BY <1>2, FrontAssumption DEF FrontAssumption
<1>4. Regression * good[b] \in Int
  BY <1>2, FrontAssumption DEF FrontAssumption
<1>5. benchmarked[b].median > 0
  BY <1>2, <1>3, <1>4
<1>6. ~L!Silent(b)
  BY <1>2, <1>5 DEF L!Silent
<1> QED BY <1>1, <1>2, <1>6 DEF L!Regressions, Benchmarks

(* A run of the benchmarks that ends names each one that has become slower  *)
(* than the last update by more than the tolerance, but for those that an  *)
(* update lost: main, compare and update of run-performance-baseline.      *)
THEOREM RegressionsFound == L!Spec => RegressionsNamed
<1> DEFINE Alarm == options.on /\ ~options'.on =>
          \A b \in Benchmarks :
              good[b] > 0 /\ 100 * (benchmarked[b].median - good[b]) > Regression * good[b]
                  => b \in named' \/ b \in lost
<1>1. ASSUME L!Init PROVE BaselineInv
  BY <1>1 DEF L!Init, L!Nothing, BaselineInv, Benchmarks
<1>2. ASSUME BaselineInv, [L!Next]_lvars PROVE BaselineInv'
  <2>1. CASE UNCHANGED lvars
    BY <1>2, <2>1 DEF BaselineInv, lvars
  <2>2. CASE L!Begin
    BY <1>2, <2>2 DEF BaselineInv, L!Begin, L!Nothing
  <2>3. CASE L!Main
    BY <1>2, <2>3, MainKeeps
  <2>4. CASE \E b \in Benchmarks : L!Benchmark(b)
    BY <1>2, <2>4, MeasuredKeeps
  <2> QED BY <1>2, <2>1, <2>2, <2>3, <2>4 DEF L!Next, Benchmarks
<1>3. ASSUME BaselineInv, [L!Next]_lvars PROVE [Alarm]_lvars
  <2>1. CASE UNCHANGED lvars
    BY <2>1
  <2>2. CASE L!Begin
    BY <2>2 DEF L!Begin
  <2>3. CASE L!Main
    BY <1>3, <2>3, MainNames
  <2>4. CASE \E b \in Benchmarks : L!Benchmark(b)
    BY <2>4 DEF L!Benchmark
  <2> QED BY <1>3, <2>1, <2>2, <2>3, <2>4 DEF L!Next, Benchmarks
<1> QED BY <1>1, <1>2, <1>3, PTL DEF L!Spec, L!vars, lvars, RegressionsNamed, L!RegressionsNamed, Benchmarks
-----------------------------------------------------------------------------
(* All parts together: a step of the composition is a step of the part     *)
(* that was picked, and the others stand still.                            *)

(* The parts start as they do alone.                                       *)
LEMMA FrontStarts ==
    ASSUME FrontInit
    PROVE  /\ Init /\ A!Init /\ R!Init /\ S!Init /\ F!Init /\ B!Init /\ PanelInit
           /\ D!Init /\ E!Init /\ L!Init /\ T!Init /\ NextRunInv
<1>1. /\ Init /\ A!Init /\ R!Init /\ S!Init /\ F!Init /\ B!Init /\ PanelInit
      /\ D!Init /\ E!Init /\ L!Init /\ T!Init
  BY DEF FrontInit
<1>2. host \in Hosting /\ zone \in C!Zones /\ base \in Int /\ check = base /\ state = "parsing"
  <2>1. CASE part = "cron"
    <3>1. C!Init
      BY <2>1 DEF FrontInit
    <3> QED
      BY <3>1, Calendar DEF C!Init, Hosting, C!Zones
  <2>2. CASE part # "cron"
    BY <2>2 DEF FrontInit, Hosting, C!Zones
  <2> QED
    BY <2>1, <2>2
<1>3. NextRunInv
  BY <1>2 DEF NextRunInv, Passed
<1> QED
  BY <1>1, <1>3

(* A step of the whole is a step of each part, or nothing to it.           *)
LEMMA FrontSteps ==
    ASSUME [FrontNext]_allvars
    PROVE  /\ [Next]_vars /\ [A!Next]_avars /\ [R!Next]_pvars /\ [S!Next]_svars /\ [F!Next]_fvars
           /\ [B!Next]_bvars /\ [C!Next]_cvars /\ [PanelNext]_panelvars
           /\ [D!Next]_dvars /\ [E!Next]_evars /\ [L!Next]_lvars /\ [T!Next]_tvars
<1>1. CASE UNCHANGED allvars
  BY <1>1 DEF allvars, ovars
<1>2. CASE FrontNext
  <2>1. \/ Next /\ UNCHANGED <<avars, pvars, svars, fvars, bvars, panelvars, cvars, ovars>>
        \/ A!Next /\ UNCHANGED <<vars, pvars, svars, fvars, bvars, panelvars, cvars, ovars>>
        \/ R!Next /\ UNCHANGED <<vars, avars, svars, fvars, bvars, panelvars, cvars, ovars>>
        \/ S!Next /\ UNCHANGED <<vars, avars, pvars, fvars, bvars, panelvars, cvars, ovars>>
        \/ F!Next /\ UNCHANGED <<vars, avars, pvars, svars, bvars, panelvars, cvars, ovars>>
        \/ B!Next /\ UNCHANGED <<vars, avars, pvars, svars, fvars, panelvars, cvars, ovars>>
        \/ C!Next /\ UNCHANGED <<vars, avars, pvars, svars, fvars, bvars, panelvars, ovars>>
        \/ ViewNext /\ UNCHANGED <<vars, avars, pvars, svars, fvars, bvars, cvars, ovars>>
        \/ OperationsNext /\ UNCHANGED <<vars, avars, pvars, svars, fvars, bvars, panelvars, cvars>>
    BY <1>2 DEF FrontNext
  <2>2. ViewNext => PanelNext
    BY DEF ViewNext, PanelNext
  <2>3. UNCHANGED ovars => UNCHANGED <<dvars, evars, lvars, tvars>>
    BY DEF ovars
  <2>4. OperationsNext =>
          \/ D!Next /\ UNCHANGED <<evars, lvars, tvars>>
          \/ E!Next /\ UNCHANGED <<dvars, lvars, tvars>>
          \/ L!Next /\ UNCHANGED <<dvars, evars, tvars>>
          \/ T!Next /\ UNCHANGED <<dvars, evars, lvars>>
    BY DEF OperationsNext
  <2> QED
    BY <2>1, <2>2, <2>3, <2>4
<1> QED
  BY <1>1, <1>2

(* In every behaviour of the composition each part keeps what it promises, *)
(* for any values of the constants, as long as a budget's tolerance is at  *)
(* most 7 percent of at most 20000 requests and no query is the empty one. *)
THEOREM FrontKeeps ==
    ASSUME Tolerant, None \notin Queries
    PROVE  FrontSpec =>
              /\ [](/\ WritesAreConfirmed /\ RecordsTell /\ LetThrough /\ RowsSound
                    /\ ManifestAccounts /\ NextIsNext /\ DashboardTells /\ JudgementsAgree
                    /\ SpendBounded)
              /\ PanelTells /\ SendReachesAll /\ RegressionsNamed
<1>1. FrontInit => /\ Init /\ A!Init /\ R!Init /\ S!Init /\ F!Init /\ B!Init /\ PanelInit
                   /\ D!Init /\ E!Init /\ L!Init /\ T!Init /\ NextRunInv
  BY FrontStarts
<1>2. [FrontNext]_allvars =>
          /\ [Next]_vars /\ [A!Next]_avars /\ [R!Next]_pvars /\ [S!Next]_svars /\ [F!Next]_fvars
          /\ [B!Next]_bvars /\ [C!Next]_cvars /\ [PanelNext]_panelvars
          /\ [D!Next]_dvars /\ [E!Next]_evars /\ [L!Next]_lvars /\ [T!Next]_tvars
  BY FrontSteps
<1>3. (Spec => []WritesAreConfirmed) /\ (PanelSpec => PanelTells)
  BY ConfirmedAndAlone, PanelTrue
<1>4. A!Spec /\ R!Spec /\ F!Spec /\ B!Spec =>
          []RecordsTell /\ []LetThrough /\ []RowsSound /\ []ManifestAccounts
  BY RunsTold, OnceAndBounded, RoutesKeepRows, ManifestTells, PTL
<1>5. D!Spec /\ E!Spec /\ T!Spec => []DashboardTells /\ []JudgementsAgree /\ []SpendBounded
  BY DashboardTrue, JudgementsMeet, SpendWithin, PTL
<1>6. S!Spec /\ L!Spec => SendReachesAll /\ RegressionsNamed
  BY StreamsReach, RegressionsFound, PTL
<1>7. NextRunInv /\ [C!Next]_cvars => NextRunInv'
  BY NextRunKeeps
<1>8. NextRunInv => NextIsNext
  BY NextRunShows
<1>9. FrontSpec => Spec /\ A!Spec /\ R!Spec /\ F!Spec /\ B!Spec /\ S!Spec /\ PanelSpec
                   /\ D!Spec /\ E!Spec /\ L!Spec /\ T!Spec /\ []NextIsNext
  BY <1>1, <1>2, <1>7, <1>8, PTL
     DEF FrontSpec, Spec, PanelSpec, A!Spec, R!Spec, F!Spec, B!Spec, S!Spec, D!Spec, E!Spec,
         L!Spec, T!Spec, A!vars, R!vars, F!vars, B!vars, S!vars, D!vars, E!vars, L!vars, T!vars,
         avars, pvars, fvars, bvars, svars, dvars, evars, lvars, tvars
<1> QED
  BY <1>3, <1>4, <1>5, <1>6, <1>9, PTL

=============================================================================
