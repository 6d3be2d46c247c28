-------------------------------- MODULE Clock --------------------------------
(***************************************************************************)
(* The time of day: the Goldfish real time clock driver, the conversion to *)
(* a calendar date in pus/lib/datetime, and the two commands that print a  *)
(* date, systime from the clock and ntptime from an NTP server's answer.   *)
(*                                                                         *)
(* A time is <<days, seconds of the day>> since the start of 1970, because *)
(* TLC's integers end at 2^31 and the code's seconds at 2^32.  Arithmetic  *)
(* modulo 2^32 seconds is kept.                                            *)
(***************************************************************************)
EXTENDS Integers

CONSTANTS
    FirstDay, LastDay,  \* bounds: the days the clock runs through
    Times,              \* seconds of the day at which a command is given
    NoDate

ASSUME DaysAssumption == FirstDay \in Nat /\ LastDay \in Nat
ASSUME TimesAssumption == Times # {} /\ \A s \in Times : s \in Nat /\ s < 86400

VARIABLES
    now,    \* the true time
    shown   \* the date the command given now prints, or NoDate

clockVars == <<now, shown>>

-----------------------------------------------------------------------------
(* Seconds in 32 bits.                                                     *)

DaySeconds == 86400
Era == <<49710, 23296>>         \* 2^32 seconds
NTP_TIMESTAMP_DELTA == 25567    \* 2208988800 seconds, in days

Earlier(t, u) == t[1] < u[1] \/ (t[1] = u[1] /\ t[2] < u[2])
Minus(t, u) ==
    IF t[2] >= u[2] THEN <<t[1] - u[1], t[2] - u[2]>>
                    ELSE <<t[1] - u[1] - 1, t[2] - u[2] + DaySeconds>>
Plus(t, u) == <<t[1] + u[1] + ((t[2] + u[2]) \div DaySeconds), (t[2] + u[2]) % DaySeconds>>

\* A time of less than two eras as uint32_t.
AsUint32(t) == IF Earlier(t, Era) THEN t ELSE Minus(t, Era)

-----------------------------------------------------------------------------
(* The calendar.                                                           *)

\* Mistake: the months are shifted, the year is not.
computeDayOfWeekSameYear(y, m, d) ==
    LET mm == IF m <= 2 THEN m + 12 ELSE m
        j  == y \div 100
        k  == y % 100
        h  == (d + ((26 * (mm + 1)) \div 10) + k + (k \div 4) + 5 * j + (j \div 4)) % 2^8
    IN  ((h + 5) % 7) + 1

\* h is a uint8_t.
computeDayOfWeek(y, m, d) ==
    LET yy == IF m <= 2 THEN y - 1 ELSE y
        mm == IF m <= 2 THEN m + 12 ELSE m
        j  == yy \div 100
        k  == yy % 100
        h  == (d + ((26 * (mm + 1)) \div 10) + k + (k \div 4) + 5 * j + (j \div 4)) % 2^8
    IN  ((h + 5) % 7) + 1

convertUnixTimeToDate(t) ==
    LET a == ((4 * t[1] + 102032) \div 146097) + 15
        b == t[1] + 2442113 + a - (a \div 4)
        c == (20 * b - 2442) \div 7305
        d == b - 365 * c - (c \div 4)
        e == (d * 1000) \div 30601
        f == d - e * 30 - ((e * 601) \div 1000)
        year  == IF e <= 13 THEN c - 4716 ELSE c - 4715
        month == IF e <= 13 THEN e - 1 ELSE e - 13
    IN  [year |-> year, month |-> month, day |-> f,
         dayOfWeek |-> computeDayOfWeek(year, month, f),
         hours |-> t[2] \div 3600, minutes |-> (t[2] \div 60) % 60, seconds |-> t[2] % 60]

-----------------------------------------------------------------------------
(* The commands.                                                           *)

(***************************************************************************)
(* Nothing calls goldfish_rtc_early_init, so the offset that would turn    *)
(* the wall time into the time since the start of the system stays 0.      *)
(***************************************************************************)
system_boot_offset == <<0, 0>>

rtc_current_time == AsUint32(Minus(now, system_boot_offset))

\* The server's transmit time stamp: seconds since 1900, in 32 bits.
txTm_s == AsUint32(Plus(now, <<NTP_TIMESTAMP_DELTA, 0>>))

\* Mistake: a stamp before the NTP epoch's 70th year is taken for the epoch.
unixTimeSaturating(stamp) ==
    IF stamp[1] < NTP_TIMESTAMP_DELTA THEN <<0, 0>>
    ELSE Minus(stamp, <<NTP_TIMESTAMP_DELTA, 0>>)

\* packet->txTm_s - NTP_TIMESTAMP_DELTA as lk_time_t, 32 bits wide
unixTime(stamp) ==
    IF stamp[1] < NTP_TIMESTAMP_DELTA
    THEN Minus(Plus(stamp, Era), <<NTP_TIMESTAMP_DELTA, 0>>)
    ELSE Minus(stamp, <<NTP_TIMESTAMP_DELTA, 0>>)

ClockInit ==
    /\ now \in {FirstDay} \X {s \in Times : \A u \in Times : s <= u}
    /\ shown = NoDate

\* Time passes: to the next of Times, or to the first one of the next day.
Tick ==
    LET later == {s \in Times : s > now[2]}
        candidates == IF later = {} THEN Times ELSE later
        day == IF later = {} THEN now[1] + 1 ELSE now[1]
    IN  /\ day <= LastDay
        /\ now' \in {day} \X {s \in candidates : \A u \in candidates : s <= u}
        /\ shown' = NoDate

systime ==
    /\ shown = NoDate
    /\ shown' = convertUnixTimeToDate(rtc_current_time)
    /\ UNCHANGED now

\* ntptime's request is answered at once; an answer may also never come.
ntp_response_cb ==
    /\ shown = NoDate
    /\ shown' = convertUnixTimeToDate(unixTime(txTm_s))
    /\ UNCHANGED now

ClockNext == Tick \/ systime \/ ntp_response_cb

ClockSpec == ClockInit /\ [][ClockNext]_clockVars

-----------------------------------------------------------------------------
(* The Gregorian calendar, by its rules.                                   *)

IsLeap(y) == (y % 4 = 0 /\ y % 100 # 0) \/ y % 400 = 0
MonthLength(y, m) ==
    CASE m = 2 -> IF IsLeap(y) THEN 29 ELSE 28
      [] m \in {4, 6, 9, 11} -> 30
      [] OTHER -> 31
LeapYearsUntil(y) == (y \div 4) - (y \div 100) + (y \div 400)
YearStart(y) == 365 * (y - 1970) + LeapYearsUntil(y - 1) - LeapYearsUntil(1969)
MonthStart(y, m) ==
    LET start[i \in 1 .. 12] == IF i = 1 THEN 0 ELSE start[i - 1] + MonthLength(y, i - 1)
    IN  start[m]

(***************************************************************************)
(* Both commands print the date and time it is, on every day the 32 bit    *)
(* seconds can name: every month and leap year, the century that is not a  *)
(* leap year, and February 2036, when NTP's seconds start again from 0.    *)
(***************************************************************************)
ShownIsNow ==
    (shown # NoDate /\ Earlier(now, Era)) =>
        /\ shown.month \in 1 .. 12
        /\ shown.day \in 1 .. MonthLength(shown.year, shown.month)
        /\ YearStart(shown.year) + MonthStart(shown.year, shown.month) + shown.day - 1 = now[1]
        /\ 3600 * shown.hours + 60 * shown.minutes + shown.seconds = now[2]

\* The sum of Zeller's congruence for a date, in full.
ZellerSum(y, m, d) ==
    LET yy == IF m <= 2 THEN y - 1 ELSE y
        mm == IF m <= 2 THEN m + 12 ELSE m
    IN  d + ((26 * (mm + 1)) \div 10) + (yy % 100) + ((yy % 100) \div 4)
          + 5 * (yy \div 100) + (yy \div 400)

(***************************************************************************)
(* The day of the week is right, Monday being 1 and 1 January 1970 having  *)
(* been a Thursday, on exactly the days whose sum in computeDayOfWeek fits *)
(* the eight bits of h: on the others, at the end of a century, it is      *)
(* always wrong, because 256 is no multiple of 7.                          *)
(***************************************************************************)
WeekdayUnlessCarry ==
    (shown # NoDate /\ Earlier(now, Era)) =>
        (shown.dayOfWeek = ((now[1] + 3) % 7) + 1
           <=> ZellerSum(shown.year, shown.month, shown.day) <= 255)
=============================================================================
