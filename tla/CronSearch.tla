------------------------------- MODULE CronSearch -------------------------------
(***************************************************************************)
(* The next run of a cron expression (scheduler/cron-parser.ts): the       *)
(* fields are read in the time zone of the schedule, and the search jumps  *)
(* on the clock of the host.  The calendar is small: hours of HourMinutes  *)
(* minutes, days of DayHours hours, and so on; one zone is a fraction of   *)
(* an hour off, and one has summer time.                                   *)
(***************************************************************************)
EXTENDS Integers, FiniteSetsExt

CONSTANTS
    HourMinutes, DayHours, MonthDays, Months, WeekDays,
    Spring, Autumn,     \* when summer time begins and ends
    Horizon,            \* bound of the search (366 * 24 * 60 steps in the code)
    Bases,              \* when the next run is asked for
    Expressions         \* what is asked for: field -> list of parts, as a set

Zones == {"utc", "half", "summer"}
Fields == {"minute", "hour", "dom", "month", "dow"}

VARIABLES
    expression, host, zone, base,   \* the question
    check,                          \* the minute under the search
    state                           \* "parsing", "searching", "found" or "none"

vars == <<expression, host, zone, base, check, state>>

-----------------------------------------------------------------------------
(* Clocks and the calendar.                                                *)
Offset(z, t) ==
    CASE z = "utc" -> 0
      [] z = "half" -> HourMinutes \div 2
      [] z = "summer" -> IF Spring <= t /\ t < Autumn THEN HourMinutes ELSE 0

Wall(z, t) == t + Offset(z, t)

(* What a Date is set to by its local time: the first of two, and past an  *)
(* hour that is left out.                                                  *)
AtWall(z, w) ==
    LET at == {t \in {w, w - HourMinutes, w - HourMinutes \div 2} : Wall(z, t) = w}
    IN  IF at = {} THEN w ELSE Min(at)

(* The hour that the clock shows a second time.                            *)
Repeated(z, t) == AtWall(z, Wall(z, t)) # t

HourOf(w) == w \div HourMinutes
DateOf(w) == HourOf(w) \div DayHours

Shown(w) ==
    [minute |-> w % HourMinutes,
     hour   |-> HourOf(w) % DayHours,
     dom    |-> 1 + (DateOf(w) % MonthDays),
     month  |-> 1 + ((DateOf(w) \div MonthDays) % Months),
     dow    |-> DateOf(w) % WeekDays]

-----------------------------------------------------------------------------
(* Expressions.                                                            *)
Bounds ==
    [minute |-> <<0, HourMinutes - 1>>, hour |-> <<0, DayHours - 1>>,
     dom |-> <<1, MonthDays>>, month |-> <<1, Months>>, dow |-> <<0, WeekDays - 1>>]

(* kind is "all", "range" or "one"; a step of 0 is refused like the rest.  *)
From(part, f) == IF part.kind = "all" THEN Bounds[f][1] ELSE part.from

To(part, f) ==
    CASE part.kind = "range" -> part.to
      [] part.kind = "one" /\ ~part.stepped -> part.from
      [] OTHER -> Bounds[f][2]

Refuses(part, f) ==
    \/ part.stepped /\ part.step < 1
    \/ {From(part, f), To(part, f)} \ (Bounds[f][1]..Bounds[f][2]) # {}
    \/ ~part.stepped /\ From(part, f) > To(part, f)

(* A range that runs backwards is refused, and with a step it is empty.    *)
PartValues(part, f) ==
    {v \in From(part, f)..To(part, f) :
        part.stepped => (v - From(part, f)) % part.step = 0}

Values(e, f) == UNION {PartValues(part, f) : part \in e[f]}

(* calculateIntervalMinutes: one minute of one hour is taken for its time  *)
(* of the day, and midnight is under a minute.                             *)
UnderAMinute(e) == Values(e, "minute") = {0} /\ Values(e, "hour") = {0}

Valid(e) ==
    /\ \A f \in Fields : ~(\E part \in e[f] : Refuses(part, f)) /\ Values(e, f) # {}
    /\ ~UnderAMinute(e)

(* The field that is a bare star: every value of its range.              *)
Any == [kind |-> "all", from |-> 0, to |-> 0, step |-> 0, stepped |-> FALSE]

-----------------------------------------------------------------------------
Init ==
    /\ expression \in Expressions /\ base \in Bases
    /\ host \in {"utc", "summer"} /\ zone \in Zones
    /\ check = base /\ state = "parsing"

AfterBase == base + 1

Parse ==
    /\ state = "parsing"
    /\ IF Valid(expression) THEN check' = AfterBase /\ state' = "searching"
       ELSE state' = "none" /\ UNCHANGED check

Now == Shown(Wall(zone, check))
In(f) == Now[f] \in Values(expression, f)

Today == In("month") /\ (In("dom") \/ In("dow"))

Mover(w) == check' = AtWall(host, w) /\ UNCHANGED state

(* Mutant: the next day at the same time.                                  *)
Midnight_Kept == Wall(host, check) + HourMinutes * DayHours

Midnight == (DateOf(Wall(host, check)) + 1) * HourMinutes * DayHours

NextDay == ~Today /\ Mover(Midnight)
NextHour == Today /\ ~In("hour") /\ Mover((HourOf(Wall(host, check)) + 1) * HourMinutes)
NextMinute == Today /\ In("hour") /\ ~In("minute") /\ Mover(Wall(host, check) + 1)

Found ==
    /\ Today /\ In("hour") /\ In("minute")
    /\ state' = "found" /\ UNCHANGED check

GivesUp == state' = "none" /\ UNCHANGED check

Search ==
    /\ state = "searching"
    /\ IF check <= Horizon THEN NextDay \/ NextHour \/ NextMinute \/ Found
       ELSE GivesUp

Answered == state \in {"found", "none"} /\ UNCHANGED <<check, state>>

Next == (Parse \/ Search \/ Answered) /\ UNCHANGED <<expression, host, zone, base>>

Spec == Init /\ [][Next]_vars

-----------------------------------------------------------------------------
(* Properties.                                                             *)

(* The next run is later than the moment it is asked for, unless the clock *)
(* of the host shows the hour of that moment a second time.                *)
NextRunAhead ==
    state = "found" => check > base \/ Repeated(host, base + 1)

(* Host and schedule agree on what the jumps are made of.                  *)
Aligned ==
    \/ host = zone
    \/ /\ zone # "half"
       /\ Values(expression, "month") = 1..Months
       /\ \/ Values(expression, "dom") = 1..MonthDays
          \/ Values(expression, "dow") = 0..(WeekDays - 1)

Matches(t) ==
    LET now == Shown(Wall(zone, t))
        in(f) == now[f] \in Values(expression, f)
    IN  in("month") /\ (in("dom") \/ in("dow")) /\ in("hour") /\ in("minute")

(* Whatever jumps the search makes, no minute that the expression names is *)
(* jumped over, but for the hour that the host's clock shows twice, as     *)
(* long as the host's clock is the schedule's, or is whole hours off and   *)
(* every day is named.                                                     *)
NothingSkipped ==
    state \in {"found", "none"} /\ Aligned =>
        \A t \in (base + 1)..(check - 1) : Matches(t) => Repeated(host, t)

(* The next run is the next one.                                           *)
NextIsNext == NextRunAhead /\ NothingSkipped

(* docs: "0 8 * * 1-5" is "Weekdays at 08:00".  A day of the week that is  *)
(* named is one the schedule runs on, when every day of the month is.      *)
WeekdaysOnly ==
    state = "found" /\ Values(expression, "dom") = 1..MonthDays => In("dow")
=============================================================================
