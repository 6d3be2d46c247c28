---------------------------- MODULE ClientProofs ----------------------------
(***************************************************************************)
(* Proofs about the two commands that talk to a server on the net and are  *)
(* modelled without it.                                                    *)
(*                                                                         *)
(* Irc, for every size of the two lines and any number of characters: QUIT *)
(* is the last thing sent, nobody finds a closed socket, and the object is *)
(* deleted behind everyone's back only when there is nobody left.          *)
(*                                                                         *)
(* Clock, for every range of days and any times of the day: the date that  *)
(* systime and ntptime print is the one it is, and the day of the week     *)
(* right exactly where Zeller's sum fits its eight bits.                   *)
(***************************************************************************)
EXTENDS Irc, Clock, TLAPS

-----------------------------------------------------------------------------
(* irc: the three threads.                                                 *)

\* The invariant holds at the start.
LEMMA InitInv == Init => IndInv
<1> SUFFICES ASSUME Init
             PROVE  IndInv
  OBVIOUS
<1>1. TypeOK
  <2>1. consolePos \in 0 .. ConsoleSize /\ pos \in Nat /\ chars \in Nat
    BY SizesAssumption, SMT DEF Init
  <2> QED
    BY <2>1, Zenon DEF Init, TypeOK, Free, Shutting
<1>2. LockHeld /\ ThreadsInPlace
  BY DEF Init, LockHeld, ThreadsInPlace, Callers, Holding, At, Free, Shutting
<1>3. SockInStep
  BY DEF Init, SockInStep, Callers, At
<1>4. QuitHolds /\ QuitIsLast /\ DeletedAtEnd
  BY DEF Init, QuitHolds, QuitIsLast, DeletedAtEnd
<1> QED
  BY <1>1, <1>2, <1>3, <1>4 DEF IndInv

\* Steps of irc_app_entry outside shutdown.
LEMMA AppKeeps ==
  ASSUME IndInv, Connect \/ ConnectFails \/ Handshake \/ HandshakeFails \/ StartConsole
         \/ StartReader \/ JoinReader \/ JoinConsole \/ Delete
  PROVE  IndInv'
<1> USE SizesAssumption, MaxCharsAssumption
    DEF IndInv, TypeOK, LockHeld, ThreadsInPlace, SockInStep, QuitHolds, QuitIsLast, DeletedAtEnd,
          Callers, Holding, At, Free, Shutting, line, wire
<1>1. CASE Connect
  BY <1>1 DEF Connect
<1>2. CASE ConnectFails
  BY <1>2 DEF ConnectFails
<1>3. CASE Handshake
  BY <1>3 DEF Handshake
<1>4. CASE HandshakeFails
  BY <1>4 DEF HandshakeFails
<1>5. CASE StartConsole
  BY <1>5 DEF StartConsole
<1>6. CASE StartReader
  BY <1>6 DEF StartReader
<1>7. CASE JoinReader
  BY <1>7 DEF JoinReader
<1>8. CASE JoinConsole
  BY <1>8 DEF JoinConsole
<1>9. CASE Delete
  BY <1>9 DEF Delete
<1> QED
  BY <1>1, <1>2, <1>3, <1>4, <1>5, <1>6, <1>7, <1>8, <1>9

\* shutdown(), from either thread.
LEMMA ShutdownKeeps ==
  ASSUME IndInv, NEW t \in Callers, Shutdown(t)
  PROVE  IndInv'
<1> USE SizesAssumption, MaxCharsAssumption
    DEF IndInv, TypeOK, LockHeld, ThreadsInPlace, SockInStep, QuitHolds, QuitIsLast, DeletedAtEnd,
          Callers, Holding, At, Free, Shutting, line, wire
<1>1. CASE ShutdownNothing(t)
  BY <1>1 DEF ShutdownNothing, Goto, Returned
<1>2. CASE ShutdownQuit(t)
  BY <1>2 DEF ShutdownQuit, Goto, Writable
<1>3. CASE ShutdownSilent(t)
  BY <1>3 DEF ShutdownSilent, Goto
<1>4. CASE ShutdownClose(t)
  BY <1>4 DEF ShutdownClose, Goto
<1>5. CASE ShutdownForget(t)
  <2>1. CASE t = "app"
    BY <1>5, <2>1 DEF ShutdownForget, Goto, Returned
  <2>2. CASE t = "console"
    <3>1. TypeOK'
      BY <1>5, <2>2 DEF ShutdownForget, Goto, Returned
    <3>2. LockHeld'
      BY <1>5, <2>2 DEF ShutdownForget, Goto, Returned
    <3>3. ThreadsInPlace'
      BY <1>5, <2>2 DEF ShutdownForget, Goto, Returned
    <3>4. SockInStep'
      BY <1>5, <2>2 DEF ShutdownForget, Goto, Returned
    <3>5. (QuitHolds /\ QuitIsLast /\ DeletedAtEnd)'
      BY <1>5, <2>2 DEF ShutdownForget, Goto, Returned
    <3> QED
      BY <3>1, <3>2, <3>3, <3>4, <3>5
  <2> QED
    BY <2>1, <2>2
<1> QED
  BY <1>1, <1>2, <1>3, <1>4, <1>5 DEF Shutdown

\* read_loop.
LEMMA ReaderKeeps ==
  ASSUME IndInv, Reader
  PROVE  IndInv'
<1> USE SizesAssumption, MaxCharsAssumption
    DEF IndInv, TypeOK, LockHeld, ThreadsInPlace, SockInStep, QuitHolds, QuitIsLast, DeletedAtEnd,
          Callers, Holding, At, Free, Shutting, line, wire, ReaderUnchanged
<1>1. CASE ReadBegin
  BY <1>1 DEF ReadBegin
<1>2. CASE ReadFails
  BY <1>2 DEF ReadFails
<1>3. CASE ReadReturn
  BY <1>3 DEF ReadReturn
<1>4. CASE ReadChar
  BY <1>4 DEF ReadChar
<1>5. CASE ReadNewline
  BY <1>5 DEF ReadNewline
<1>6. CASE Pong
  BY <1>6 DEF Pong, Write, Writable
<1>7. CASE PrintLine
  BY <1>7 DEF PrintLine
<1> QED
  BY <1>1, <1>2, <1>3, <1>4, <1>5, <1>6, <1>7 DEF Reader

\* console_thread_worker outside shutdown.
LEMMA ConsoleKeeps ==
  ASSUME IndInv, Say \/ SayFails \/ Type \/ Backspace \/ Enter \/ ConsoleEnds
  PROVE  IndInv'
<1> USE SizesAssumption, MaxCharsAssumption
    DEF IndInv, TypeOK, LockHeld, ThreadsInPlace, SockInStep, QuitHolds, QuitIsLast, DeletedAtEnd,
          Callers, Holding, At, Free, Shutting, line, wire, ConsoleUnchanged
<1>1. CASE Say
  BY <1>1 DEF Say, Write, Writable
<1>2. CASE SayFails
  BY <1>2 DEF SayFails
<1>3. CASE Type
  BY <1>3 DEF Type, Kept
<1>4. CASE Backspace
  BY <1>4 DEF Backspace, Kept
<1>5. CASE Enter
  BY <1>5 DEF Enter, Kept
<1>6. CASE ConsoleEnds
  BY <1>6 DEF ConsoleEnds
<1> QED
  BY <1>1, <1>2, <1>3, <1>4, <1>5, <1>6

\* The server hangs up.
LEMMA DropKeeps ==
  ASSUME IndInv, Drop
  PROVE  IndInv'
BY DEF Drop, IndInv, TypeOK, LockHeld, ThreadsInPlace, SockInStep, QuitHolds, QuitIsLast, DeletedAtEnd,
   Callers, Holding, At, Free, Shutting, line, wire

\* The invariant is inductive.
LEMMA StepInv == IndInv /\ [Next]_vars => IndInv'
<1> SUFFICES ASSUME IndInv, [Next]_vars
             PROVE  IndInv'
  OBVIOUS
<1>1. CASE AppStep
  BY <1>1, AppKeeps, ShutdownKeeps DEF AppStep, Callers
<1>2. CASE ConsoleStep
  BY <1>2, ConsoleKeeps, ShutdownKeeps DEF ConsoleStep, Callers
<1>3. CASE Type \/ Backspace \/ Enter \/ ConsoleEnds
  BY <1>3, ConsoleKeeps
<1>4. CASE Reader
  BY <1>4, ReaderKeeps
<1>5. CASE Drop
  BY <1>5, DropKeeps
<1>6. CASE UNCHANGED vars
  BY <1>6 DEF vars, IndInv, TypeOK, LockHeld, ThreadsInPlace, SockInStep, QuitHolds, QuitIsLast, DeletedAtEnd,
   Callers, Holding, At, Free, Shutting, line, wire
<1> QED
  BY <1>1, <1>2, <1>3, <1>4, <1>5, <1>6 DEF Next

\* The invariant holds in every reachable state.
THEOREM Invariance == Spec => []IndInv
BY InitInv, StepInv, PTL DEF Spec

\* Every variable keeps its type; the console's line is never written past its
\* end (console_thread_worker), whatever is typed.
THEOREM TypeCorrect == Spec => []TypeOK
BY Invariance, PTL DEF IndInv

\* Nothing is sent after QUIT, by the reader, the console or the second call of
\* shutdown.
THEOREM QuitComesLast == Spec => []QuitIsLast
BY Invariance, PTL DEF IndInv

\* Whoever gets lock_ finds no socket in sock_ that this side has closed.
THEOREM NoClosedSocket == Spec => []SockIsLive
<1>1. IndInv => SockIsLive
  BY DEF SockIsLive, IndInv, TypeOK, LockHeld, ThreadsInPlace, SockInStep, QuitHolds, QuitIsLast, DeletedAtEnd,
   Callers, Holding, At, Free, Shutting, line, wire
<1> QED
  BY <1>1, Invariance, PTL

\* The clean-up of irc_app_entry deletes the object when nobody uses it any more.
THEOREM DeleteIsSafe == Spec => []DeletedLast
<1>1. IndInv => DeletedLast
  BY DEF DeletedLast, IndInv, TypeOK, LockHeld, ThreadsInPlace, SockInStep, QuitHolds, QuitIsLast, DeletedAtEnd,
   Callers, Holding, At, Free, Shutting, line, wire
<1> QED
  BY <1>1, Invariance, PTL

-----------------------------------------------------------------------------
(* systime and ntptime: the calendar.                                      *)

\* The days skipped in front of March 2100, which has no 29 February before it.
LEMMA CenturyPart ==
  ASSUME NEW n \in Nat, n <= 49710,
         NEW a \in Int, a = ((4 * n + 102032) \div 146097) + 15
  PROVE  a - (a \div 4) = IF n < 47541 THEN 12 ELSE 13
<1>1. CASE n < 47541
  <2>1. a = 15 \/ a = 16
    BY <1>1
  <2> QED
    BY <1>1, <2>1
<1>2. CASE ~(n < 47541)
  <2>1. a = 17
    BY <1>2
  <2> QED
    BY <1>2, <2>1
<1> QED
  BY <1>1, <1>2

\* Years start in March; the fourth of them, with 29 February at its end, is a day longer.
LEMMA YearPart ==
  ASSUME NEW b \in Nat, b >= 2442125, b <= 2491836,
         NEW c \in Int, c = (20 * b - 2442) \div 7305,
         NEW d \in Int, d = b - 365 * c - (c \div 4)
  PROVE  /\ c >= 6685 /\ c <= 6822
         /\ 123 <= d /\ d <= 488
         /\ d = 488 => c % 4 = 3
<1>1. 7305 * c <= 20 * b - 2442 /\ 20 * b - 2442 < 7305 * c + 7305
  OBVIOUS
<1>2. c >= 6685 /\ c <= 6822
  BY <1>1
<1> DEFINE q == c \div 4
           r == c % 4
<1>3. q \in Int /\ r \in 0 .. 3 /\ c = 4 * q + r
  BY <1>2
<1>4. d = b - 365 * c - q
  OBVIOUS
<1> HIDE DEF q, r
<1>5. d = b - 1461 * q - 365 * r
  BY <1>3, <1>4
<1>6. r = 0 \/ r = 1 \/ r = 2 \/ r = 3
  BY <1>3
<1>7. 123 <= d /\ d <= 488 /\ (d = 488 => r = 3)
  BY <1>1, <1>3, <1>5, <1>6
<1> QED
  BY <1>2, <1>7 DEF r

\* The days of a year in front of its month e, the months being counted from March as 4.
DaysIn(e) == 30 * e + ((e * 601) \div 1000)

\* The month and the day of it, with the days there are in each.
LEMMA MonthPart ==
  ASSUME NEW d \in Int, 123 <= d, d <= 488,
         NEW e \in Int, e = (d * 1000) \div 30601,
         NEW f \in Int, f = d - e * 30 - ((e * 601) \div 1000)
  PROVE  /\ e \in 4 .. 15
         /\ d = DaysIn(e) + f
         /\ 1 <= f /\ f <= 31
         /\ e \in {5, 7, 10, 12} => f <= 30
         /\ e = 15 => f <= 29 /\ (f = 29 => d = 488)
<1>1. 30601 * e <= d * 1000 /\ d * 1000 < 30601 * e + 30601
  OBVIOUS
<1>2. e >= 4 /\ e <= 15
  BY <1>1
<1>3. \/ e = 4 \/ e = 5 \/ e = 6 \/ e = 7 \/ e = 8 \/ e = 9
      \/ e = 10 \/ e = 11 \/ e = 12 \/ e = 13 \/ e = 14 \/ e = 15
  BY <1>2
<1>4. d = DaysIn(e) + f
  BY DEF DaysIn
<1>5. /\ 1 <= f /\ f <= 31
      /\ e \in {5, 7, 10, 12} => f <= 30
      /\ e = 15 => f <= 29 /\ (f = 29 => d = 488)
  BY <1>1, <1>3
<1> QED
  BY <1>2, <1>4, <1>5

\* In the years of the clock the rules of the centuries come to one exception.
LEMMA LeapIs ==
  ASSUME NEW y \in Int, y >= 1970, y <= 2107
  PROVE  IsLeap(y) <=> (y % 4 = 0 /\ y # 2100)
<1>1. y % 100 = 0 => y = 2000 \/ y = 2100
  OBVIOUS
<1>2. y = 2000 => IsLeap(y)
  BY DEF IsLeap
<1>3. y % 400 = 0 => y = 2000
  OBVIOUS
<1> QED
  BY <1>1, <1>2, <1>3 DEF IsLeap

\* The days from the start of 1970 to a year; 2100 is the leap year that is left out.
LEMMA YearStartIs ==
  ASSUME NEW y \in Int, y >= 1970, y <= 2107
  PROVE  YearStart(y) = 365 * (y - 1970) + ((y - 1) \div 4) - 492 - (IF y > 2100 THEN 1 ELSE 0)
<1> DEFINE x == y - 1
<1>1. x \in Int /\ x >= 1969 /\ x <= 2106
  OBVIOUS
<1>2. LeapYearsUntil(1969) = 477
  BY DEF LeapYearsUntil
<1> HIDE DEF x
<1>3. x \div 100 = IF x <= 1999 THEN 19 ELSE IF x <= 2099 THEN 20 ELSE 21
  BY <1>1
<1>4. x \div 400 = IF x <= 1999 THEN 4 ELSE 5
  BY <1>1
<1>5. LeapYearsUntil(x) = (x \div 4) - (IF x > 2099 THEN 16 ELSE 15)
  BY <1>1, <1>3, <1>4 DEF LeapYearsUntil
<1> QED
  BY <1>1, <1>2, <1>5 DEF YearStart, x

\* The days of a year in front of each month.
LEMMA MonthStartIs ==
  ASSUME NEW y \in Int
  PROVE  LET leap == IF IsLeap(y) THEN 1 ELSE 0
         IN  /\ MonthStart(y, 1) = 0
             /\ MonthStart(y, 2) = 31
             /\ MonthStart(y, 3) = 59 + leap
             /\ MonthStart(y, 4) = 90 + leap
             /\ MonthStart(y, 5) = 120 + leap
             /\ MonthStart(y, 6) = 151 + leap
             /\ MonthStart(y, 7) = 181 + leap
             /\ MonthStart(y, 8) = 212 + leap
             /\ MonthStart(y, 9) = 243 + leap
             /\ MonthStart(y, 10) = 273 + leap
             /\ MonthStart(y, 11) = 304 + leap
             /\ MonthStart(y, 12) = 334 + leap
<1> DEFINE leap == IF IsLeap(y) THEN 1 ELSE 0
           start[i \in 1 .. 12] == IF i = 1 THEN 0 ELSE start[i - 1] + MonthLength(y, i - 1)
           Table == <<0, 31, 59 + leap, 90 + leap, 120 + leap, 151 + leap, 181 + leap,
                      212 + leap, 243 + leap, 273 + leap, 304 + leap, 334 + leap>>
           T == [i \in 1 .. 12 |-> Table[i]]
           Is(g) == g = [i \in 1 .. 12 |-> IF i = 1 THEN 0 ELSE g[i - 1] + MonthLength(y, i - 1)]
<1>1. leap \in {0, 1}
  OBVIOUS
<1>2. /\ MonthLength(y, 1) = 31 /\ MonthLength(y, 2) = 28 + leap /\ MonthLength(y, 3) = 31
      /\ MonthLength(y, 4) = 30 /\ MonthLength(y, 5) = 31 /\ MonthLength(y, 6) = 30
      /\ MonthLength(y, 7) = 31 /\ MonthLength(y, 8) = 31 /\ MonthLength(y, 9) = 30
      /\ MonthLength(y, 10) = 31 /\ MonthLength(y, 11) = 30
  BY DEF MonthLength
<1> HIDE DEF leap
<1>3. Is(T)
  <2> SUFFICES ASSUME NEW i \in 1 .. 12
               PROVE  T[i] = IF i = 1 THEN 0 ELSE T[i - 1] + MonthLength(y, i - 1)
    OBVIOUS
  <2>1. \/ i = 1 \/ i = 2 \/ i = 3 \/ i = 4 \/ i = 5 \/ i = 6 \/ i = 7
        \/ i = 8 \/ i = 9 \/ i = 10 \/ i = 11 \/ i = 12
    OBVIOUS
  <2> QED
    BY <1>1, <1>2, <2>1
<1>4. start = CHOOSE g : Is(g)
  OBVIOUS
<1>5. Is(start)
  <2> HIDE DEF start, T, Is
  <2> QED
    BY <1>3, <1>4
<1> HIDE DEF start
<1>6. \A i \in 1 .. 12 : start[i] = IF i = 1 THEN 0 ELSE start[i - 1] + MonthLength(y, i - 1)
  BY <1>5
<1>7. \A m : MonthStart(y, m) = start[m]
  BY DEF MonthStart, start
<1>8. /\ start[1] = 0
      /\ start[2] = start[1] + MonthLength(y, 1)
      /\ start[3] = start[2] + MonthLength(y, 2)
      /\ start[4] = start[3] + MonthLength(y, 3)
      /\ start[5] = start[4] + MonthLength(y, 4)
      /\ start[6] = start[5] + MonthLength(y, 5)
      /\ start[7] = start[6] + MonthLength(y, 6)
      /\ start[8] = start[7] + MonthLength(y, 7)
      /\ start[9] = start[8] + MonthLength(y, 8)
      /\ start[10] = start[9] + MonthLength(y, 9)
      /\ start[11] = start[10] + MonthLength(y, 10)
      /\ start[12] = start[11] + MonthLength(y, 11)
  BY <1>6
<1> QED
  BY <1>1, <1>2, <1>7, <1>8 DEF leap

\* The conversion of n days in its parts: c is a year that starts in March, e one of its
\* months, f the day of that.
IsDate(n, s, c, e, f) ==
    /\ c >= 6685 /\ c <= 6822 /\ (c >= 6816 <=> n >= 47541)
    /\ e \in 4 .. 15
    /\ n = 365 * c + (c \div 4) + DaysIn(e) + f - 2442125 - (IF c >= 6816 THEN 1 ELSE 0)
    /\ 1 <= f /\ f <= 31
    /\ e \in {5, 7, 10, 12} => f <= 30
    /\ e = 15 => f <= 29 /\ (f = 29 => c % 4 = 3 /\ c # 6815)
    /\ LET year  == IF e <= 13 THEN c - 4716 ELSE c - 4715
           month == IF e <= 13 THEN e - 1 ELSE e - 13
       IN  /\ year >= 1970
           /\ convertUnixTimeToDate(<<n, s>>) =
                [year |-> year, month |-> month, day |-> f,
                 dayOfWeek |-> computeDayOfWeek(year, month, f),
                 hours |-> s \div 3600, minutes |-> (s \div 60) % 60, seconds |-> s % 60]

\* convertUnixTimeToDate finds them; 1 March 2100 is day 47541, in the year 6816 of c.
LEMMA DateParts ==
  ASSUME NEW n \in Nat, n <= 49710, NEW s
  PROVE  \E c, e, f \in Int : IsDate(n, s, c, e, f)
<1> DEFINE a == ((4 * n + 102032) \div 146097) + 15
           b == n + 2442113 + a - (a \div 4)
           c == (20 * b - 2442) \div 7305
           d == b - 365 * c - (c \div 4)
           e == (d * 1000) \div 30601
           f == d - e * 30 - ((e * 601) \div 1000)
           year  == IF e <= 13 THEN c - 4716 ELSE c - 4715
           month == IF e <= 13 THEN e - 1 ELSE e - 13
<1>1. convertUnixTimeToDate(<<n, s>>) =
        [year |-> year, month |-> month, day |-> f,
         dayOfWeek |-> computeDayOfWeek(year, month, f),
         hours |-> s \div 3600, minutes |-> (s \div 60) % 60, seconds |-> s % 60]
  BY DEF convertUnixTimeToDate
<1>2. a \in Int
  OBVIOUS
<1>3. a - (a \div 4) = IF n < 47541 THEN 12 ELSE 13
  BY <1>2, CenturyPart
<1>4. a \div 4 \in Int
  BY <1>2
<1>5. b = n + 2442113 + a - (a \div 4)
  OBVIOUS
<1> HIDE DEF a
<1>6. b = n + 2442125 + (IF n < 47541 THEN 0 ELSE 1)
  BY <1>2, <1>3, <1>4, <1>5
<1> HIDE DEF b
<1>7. b \in Nat /\ b >= 2442125 /\ b <= 2491836
  BY <1>6
<1>8. c \in Int
  BY <1>7
<1>9. c \div 4 \in Int
  BY <1>8
<1>10. d = b - 365 * c - (c \div 4)
  OBVIOUS
<1>11. c = (20 * b - 2442) \div 7305
  OBVIOUS
<1> HIDE DEF c
<1>12. d \in Int
  BY <1>7, <1>8, <1>9
<1> HIDE DEF d
<1>13. /\ c >= 6685 /\ c <= 6822
       /\ 123 <= d /\ d <= 488
       /\ d = 488 => c % 4 = 3
  BY <1>7, <1>8, <1>10, <1>11, <1>12, YearPart
<1>14. e \in Int
  BY <1>12
<1>15. e = (d * 1000) \div 30601 /\ f = d - e * 30 - ((e * 601) \div 1000)
  OBVIOUS
<1> HIDE DEF e
<1>16. f \in Int
  BY <1>12, <1>14
<1> HIDE DEF f
<1>17. /\ e \in 4 .. 15
       /\ d = DaysIn(e) + f
       /\ 1 <= f /\ f <= 31
       /\ e \in {5, 7, 10, 12} => f <= 30
       /\ e = 15 => f <= 29 /\ (f = 29 => d = 488)
  BY <1>12, <1>13, <1>14, <1>15, <1>16, MonthPart
<1>18. b = 365 * c + (c \div 4) + d
  BY <1>7, <1>8, <1>9, <1>10, <1>12
<1>19. ~(c = 6815 /\ d = 488)
  <2> SUFFICES ASSUME c = 6815, d = 488 PROVE FALSE
    OBVIOUS
  <2>1. c \div 4 = 1703
    OBVIOUS
  <2>2. b = 2489666
    BY <1>18, <2>1
  <2> QED
    BY <1>6, <2>2
<1>20. c >= 6816 <=> n >= 47541
  <2>1. c >= 6816 => c \div 4 >= 1704
    BY <1>8
  <2>2. c <= 6815 => c \div 4 <= 1703
    BY <1>8
  <2>3. ASSUME c >= 6816 PROVE n >= 47541
    <3>1. b >= 2489667
      BY <1>8, <1>9, <1>12, <1>13, <1>18, <2>1, <2>3
    <3> QED
      BY <1>6, <3>1
  <2>4. ASSUME ~(c >= 6816) PROVE ~(n >= 47541)
    <3>1. c <= 6815
      BY <1>8, <2>4
    <3>2. b <= 2489665
      BY <1>8, <1>9, <1>12, <1>13, <1>18, <1>19, <2>2, <3>1
    <3> QED
      BY <1>6, <3>2
  <2> QED
    BY <2>3, <2>4
<1>21. DaysIn(e) \in Int
  BY <1>14 DEF DaysIn
<1>22. n = 365 * c + (c \div 4) + DaysIn(e) + f - 2442125 - (IF c >= 6816 THEN 1 ELSE 0)
  BY <1>6, <1>8, <1>9, <1>12, <1>16, <1>17, <1>18, <1>20, <1>21
<1>23. e = 15 => f <= 29 /\ (f = 29 => c % 4 = 3 /\ c # 6815)
  BY <1>13, <1>17, <1>19
<1>24. year >= 1970
  <2>1. CASE c >= 6686
    BY <1>8, <2>1
  <2>2. CASE ~(c >= 6686)
    <3>1. c = 6685
      BY <1>8, <1>13, <2>2
    <3>2. c \div 4 = 1671
      BY <3>1
    <3>3. DaysIn(e) + f >= 429
      BY <1>16, <1>21, <1>22, <3>1, <3>2
    <3>4. e >= 14
      BY <1>3, <1>14, <1>16, <1>17, <3>3 DEF DaysIn
    <3> QED
      BY <1>14, <3>1, <3>4
  <2> QED
    BY <2>1, <2>2
<1> WITNESS c \in Int, e \in Int, f \in Int
<1> QED
  BY <1>1, <1>13, <1>17, <1>20, <1>22, <1>23, <1>24 DEF IsDate

\* The date is a day of the calendar, and the one that is n days after the start of 1970.
LEMMA DateIs ==
  ASSUME NEW n \in Nat, n <= 49710, NEW s
  PROVE  LET t == convertUnixTimeToDate(<<n, s>>)
         IN  /\ t.month \in 1 .. 12
             /\ t.day \in 1 .. MonthLength(t.year, t.month)
             /\ YearStart(t.year) + MonthStart(t.year, t.month) + t.day - 1 = n
<1> DEFINE t == convertUnixTimeToDate(<<n, s>>)
<1>1. PICK c \in Int, e \in Int, f \in Int : IsDate(n, s, c, e, f)
  BY DateParts
<1> DEFINE y == IF e <= 13 THEN c - 4716 ELSE c - 4715
           m == IF e <= 13 THEN e - 1 ELSE e - 13
           leap == IF IsLeap(y) THEN 1 ELSE 0
<1>2. t.year = y /\ t.month = m /\ t.day = f
  BY <1>1 DEF IsDate
<1>3. /\ c >= 6685 /\ c <= 6822 /\ (c >= 6816 <=> n >= 47541)
      /\ e \in 4 .. 15
      /\ n = 365 * c + (c \div 4) + DaysIn(e) + f - 2442125 - (IF c >= 6816 THEN 1 ELSE 0)
      /\ 1 <= f /\ f <= 31
      /\ e \in {5, 7, 10, 12} => f <= 30
      /\ e = 15 => f <= 29 /\ (f = 29 => c % 4 = 3 /\ c # 6815)
      /\ y >= 1970
  BY <1>1 DEF IsDate
<1> HIDE DEF t
<1>4. y \in Int /\ y >= 1970 /\ y <= 2107
  BY <1>3
<1>5. /\ c \div 4 \in Int
      /\ e <= 13 => ((y - 1) \div 4) + (IF y % 4 = 0 THEN 1 ELSE 0) = (c \div 4) - 1179
      /\ e > 13 => ((y - 1) \div 4 = (c \div 4) - 1179 /\ (y % 4 = 0 <=> c % 4 = 3))
  BY <1>3
<1>6. leap = IF y % 4 = 0 /\ y # 2100 THEN 1 ELSE 0
  BY <1>4, LeapIs
<1>7. YearStart(y) = 365 * (y - 1970) + ((y - 1) \div 4) - 492 - (IF y > 2100 THEN 1 ELSE 0)
  BY <1>4, YearStartIs
<1>8. /\ e = 4 => MonthStart(y, m) = 59 + leap
      /\ e = 5 => MonthStart(y, m) = 90 + leap
      /\ e = 6 => MonthStart(y, m) = 120 + leap
      /\ e = 7 => MonthStart(y, m) = 151 + leap
      /\ e = 8 => MonthStart(y, m) = 181 + leap
      /\ e = 9 => MonthStart(y, m) = 212 + leap
      /\ e = 10 => MonthStart(y, m) = 243 + leap
      /\ e = 11 => MonthStart(y, m) = 273 + leap
      /\ e = 12 => MonthStart(y, m) = 304 + leap
      /\ e = 13 => MonthStart(y, m) = 334 + leap
      /\ e = 14 => MonthStart(y, m) = 0
      /\ e = 15 => MonthStart(y, m) = 31
  <2> HIDE DEF leap
  <2>1. /\ e = 4 => m = 3
        /\ e = 5 => m = 4
        /\ e = 6 => m = 5
        /\ e = 7 => m = 6
        /\ e = 8 => m = 7
        /\ e = 9 => m = 8
        /\ e = 10 => m = 9
        /\ e = 11 => m = 10
        /\ e = 12 => m = 11
        /\ e = 13 => m = 12
        /\ e = 14 => m = 1
        /\ e = 15 => m = 2
    OBVIOUS
  <2> HIDE DEF m, y
  <2> QED
    BY <1>4, <2>1, MonthStartIs DEF leap
<1>9. \/ e = 4 \/ e = 5 \/ e = 6 \/ e = 7 \/ e = 8 \/ e = 9
      \/ e = 10 \/ e = 11 \/ e = 12 \/ e = 13 \/ e = 14 \/ e = 15
  BY <1>3
<1>10. m \in 1 .. 12
  BY <1>9
<1>11. 1 <= f /\ f <= MonthLength(y, m) /\ MonthLength(y, m) \in Int
  <2>1. e = 15 /\ f = 29 => IsLeap(y)
    <3>1. e = 15 /\ f = 29 => c % 4 = 3 /\ c # 6815 /\ y = c - 4715
      BY <1>3
    <3> QED
      BY <1>4, <1>5, <3>1, LeapIs
  <2>2. m \in {4, 6, 9, 11} => f <= 30
    BY <1>3, <1>9
  <2>3. m = 2 => f <= 29 /\ (f = 29 => IsLeap(y))
    BY <1>3, <1>9, <2>1
  <2> HIDE DEF m, y
  <2> QED
    BY <1>3, <1>10, <2>2, <2>3 DEF MonthLength
<1>12. YearStart(y) + MonthStart(y, m) + f - 1 = n
  <2>1. CASE e <= 13
    <3>1. MonthStart(y, m) = DaysIn(e) - 63 + leap
      BY <1>6, <1>8, <1>9, <2>1 DEF DaysIn
    <3>2. y = c - 4716
      BY <2>1
    <3>3. DaysIn(e) \in Int
      BY <1>3 DEF DaysIn
    <3> QED
      BY <1>3, <1>4, <1>5, <1>6, <1>7, <2>1, <3>1, <3>2, <3>3
  <2>2. CASE e > 13
    <3>1. MonthStart(y, m) = DaysIn(e) - 428
      BY <1>8, <1>9, <2>2 DEF DaysIn
    <3>2. y = c - 4715
      BY <1>3, <2>2
    <3>3. DaysIn(e) \in Int
      BY <1>3 DEF DaysIn
    <3> QED
      BY <1>3, <1>4, <1>5, <1>7, <2>2, <3>1, <3>2, <3>3
  <2> QED
    BY <1>3, <2>1, <2>2
<1> QED
  BY <1>2, <1>10, <1>11, <1>12 DEF t

\* Zeller's sum, cut to eight bits, is in step with the days as long as nothing is cut off.
LEMMA CutSum ==
  ASSUME NEW n \in Nat, NEW z \in Nat, z < 512,
         NEW w \in Int, n + 3 = z + 5 + 7 * w
  PROVE  (((z % 2^8) + 5) % 7) + 1 = ((n + 3) % 7) + 1 <=> z <= 255
<1>1. (n + 3) % 7 = (z + 5) % 7
  OBVIOUS
<1>2. CASE z <= 255
  <2>1. z % 2^8 = z
    BY <1>2
  <2> QED
    BY <1>1, <1>2, <2>1
<1>3. CASE ~(z <= 255)
  <2>1. z % 2^8 = z - 256
    BY <1>3
  <2>2. ((z - 256) + 5) % 7 # (z + 5) % 7
    OBVIOUS
  <2>3. ((z - 256) + 5) % 7 \in Int /\ (z + 5) % 7 \in Int
    OBVIOUS
  <2> QED
    BY <1>1, <1>3, <2>1, <2>2, <2>3
<1> QED
  BY <1>2, <1>3

\* The day of the week is right where Zeller's sum fits the eight bits of h, and only there.
LEMMA WeekdayIs ==
  ASSUME NEW n \in Nat, n <= 49710, NEW s
  PROVE  LET t == convertUnixTimeToDate(<<n, s>>)
         IN  t.dayOfWeek = ((n + 3) % 7) + 1 <=> ZellerSum(t.year, t.month, t.day) <= 255
<1> DEFINE t == convertUnixTimeToDate(<<n, s>>)
<1>1. PICK c \in Int, e \in Int, f \in Int : IsDate(n, s, c, e, f)
  BY DateParts
<1> DEFINE y == IF e <= 13 THEN c - 4716 ELSE c - 4715
           m == IF e <= 13 THEN e - 1 ELSE e - 13
           yy == c - 4716
           g == (26 * e) \div 10
           z == f + g + (yy % 100) + ((yy % 100) \div 4) + 5 * (yy \div 100) + (yy \div 400)
<1>2. t.year = y /\ t.month = m /\ t.day = f /\ t.dayOfWeek = computeDayOfWeek(y, m, f)
  BY <1>1 DEF IsDate
<1>3. /\ c >= 6685 /\ c <= 6822
      /\ e \in 4 .. 15
      /\ n = 365 * c + (c \div 4) + DaysIn(e) + f - 2442125 - (IF c >= 6816 THEN 1 ELSE 0)
      /\ 1 <= f /\ f <= 31
  BY <1>1 DEF IsDate
<1> HIDE DEF t
<1>4. /\ (IF m <= 2 THEN y - 1 ELSE y) = yy
      /\ (IF m <= 2 THEN m + 12 ELSE m) + 1 = e
  BY <1>3
<1>5. yy \in Int /\ 1969 <= yy /\ yy <= 2106
  BY <1>3
<1>6. (yy \div 100) \div 4 = yy \div 400
  BY <1>5
<1>7. ZellerSum(y, m, f) = z
  BY <1>4 DEF ZellerSum
<1>8. computeDayOfWeek(y, m, f) = (((z % 2^8) + 5) % 7) + 1
  BY <1>4, <1>6 DEF computeDayOfWeek
<1>9. z \in Nat /\ z < 512
  <2>1. g \in Int /\ 10 <= g /\ g <= 39
    BY <1>3
  <2> HIDE DEF g
  <2>2. yy % 100 \in 0 .. 99 /\ yy \div 100 \in 19 .. 21 /\ yy \div 400 \in 4 .. 5
    BY <1>5
  <2>3. (yy % 100) \div 4 \in 0 .. 24
    BY <2>2
  <2> HIDE DEF yy
  <2> QED
    BY <1>3, <2>1, <2>2, <2>3
<1>10. \E w \in Int : n + 3 = z + 5 + 7 * w
  <2>1. DaysIn(e) = g + 28 * e /\ g \in Int
    <3>1. \/ e = 4 \/ e = 5 \/ e = 6 \/ e = 7 \/ e = 8 \/ e = 9
          \/ e = 10 \/ e = 11 \/ e = 12 \/ e = 13 \/ e = 14 \/ e = 15
      BY <1>3
    <3> QED
      BY <3>1 DEF DaysIn
  <2> HIDE DEF g
  <2>2. yy \div 4 = (c \div 4) - 1179 /\ c \div 4 \in Int
    OBVIOUS
  <2>3. \/ yy \div 100 = 19 /\ yy \div 400 = 4 /\ yy < 2100
        \/ yy \div 100 = 20 /\ yy \div 400 = 5 /\ yy < 2100
        \/ yy \div 100 = 21 /\ yy \div 400 = 5 /\ yy >= 2100
    BY <1>5
  <2>4. /\ yy % 100 = yy - 100 * (yy \div 100)
        /\ (yy % 100) \div 4 = (yy \div 4) - 25 * (yy \div 100)
    BY <1>5
  <2>5. CASE yy \div 100 = 19
    <3> DEFINE w == 52 * c + 4 * e - 347708
    <3>1. n + 3 = z + 5 + 7 * w
      BY <1>3, <2>1, <2>2, <2>3, <2>4, <2>5
    <3>2. w \in Int
      BY <1>3
    <3> HIDE DEF w
    <3> QED
      BY <3>1, <3>2
  <2>6. CASE yy \div 100 = 20
    <3> DEFINE w == 52 * c + 4 * e - 347691
    <3>1. n + 3 = z + 5 + 7 * w
      BY <1>3, <2>1, <2>2, <2>3, <2>4, <2>6
    <3>2. w \in Int
      BY <1>3
    <3> HIDE DEF w
    <3> QED
      BY <3>1, <3>2
  <2>7. CASE yy \div 100 = 21
    <3> DEFINE w == 52 * c + 4 * e - 347674
    <3>1. n + 3 = z + 5 + 7 * w
      BY <1>3, <2>1, <2>2, <2>3, <2>4, <2>7
    <3>2. w \in Int
      BY <1>3
    <3> HIDE DEF w
    <3> QED
      BY <3>1, <3>2
  <2> QED
    BY <2>3, <2>5, <2>6, <2>7
<1> HIDE DEF z
<1>11. (((z % 2^8) + 5) % 7) + 1 = ((n + 3) % 7) + 1 <=> z <= 255
  BY <1>9, <1>10, CutSum
<1> QED
  BY <1>2, <1>7, <1>8, <1>11 DEF t

\* A time of the clock.
Moment == {t \in Nat \X Nat : t[2] < 86400}

\* In the first era the clock's 32 bit seconds are the time.
LEMMA RtcIsNow ==
  ASSUME now \in Moment, Earlier(now, Era)
  PROVE  rtc_current_time = now
<1>1. now = <<now[1], now[2]>> /\ now[1] \in Nat /\ now[2] \in Nat /\ now[2] < 86400
  BY DEF Moment
<1>2. Minus(now, system_boot_offset) = now
  BY <1>1 DEF Minus, system_boot_offset
<1> QED
  BY <1>2 DEF rtc_current_time, AsUint32

\* The stamp of an NTP server wraps in 2036, and taking 70 years off it wraps back.
LEMMA NtpIsNow ==
  ASSUME now \in Moment, Earlier(now, Era)
  PROVE  unixTime(txTm_s) = now
<1> DEFINE n == now[1]
           s == now[2]
           stamp == Plus(now, <<NTP_TIMESTAMP_DELTA, 0>>)
<1>1. now = <<n, s>> /\ n \in Nat /\ s \in Nat /\ s < 86400
  BY DEF Moment
<1>2. n < 49710 \/ (n = 49710 /\ s < 23296)
  BY DEF Earlier, Era
<1>3. stamp = <<n + 25567, s>>
  <2>1. (s + 0) \div 86400 = 0 /\ (s + 0) % 86400 = s
    BY <1>1
  <2> QED
    BY <1>1, <2>1 DEF Plus, NTP_TIMESTAMP_DELTA, DaySeconds
<1> HIDE DEF n, s, stamp
<1>4. CASE Earlier(stamp, Era)
  <2>1. txTm_s = <<n + 25567, s>>
    BY <1>3, <1>4 DEF txTm_s, AsUint32, stamp
  <2> QED
    BY <1>1, <2>1 DEF unixTime, Minus, NTP_TIMESTAMP_DELTA
<1>5. CASE ~Earlier(stamp, Era)
  <2>1. txTm_s = Minus(<<n + 25567, s>>, <<49710, 23296>>)
    BY <1>3, <1>5 DEF txTm_s, AsUint32, stamp, Era
  <2>2. CASE s >= 23296
    <3>1. txTm_s = <<n - 24143, s - 23296>>
      BY <1>1, <2>1, <2>2 DEF Minus
    <3>2. n - 24143 < 25567
      BY <1>1, <1>2, <2>2
    <3>3. Plus(txTm_s, Era) = <<n + 25567, s>>
      <4>1. ((s - 23296) + 23296) \div 86400 = 0 /\ ((s - 23296) + 23296) % 86400 = s
        BY <1>1
      <4> QED
        BY <1>1, <3>1, <4>1 DEF Plus, Era, DaySeconds
    <3> QED
      BY <1>1, <3>1, <3>2, <3>3 DEF unixTime, Minus, NTP_TIMESTAMP_DELTA
  <2>3. CASE ~(s >= 23296)
    <3>1. txTm_s = <<n - 24144, s + 63104>>
      BY <1>1, <2>1, <2>3 DEF Minus, DaySeconds
    <3>2. n - 24144 < 25567
      BY <1>1, <1>2
    <3>3. Plus(txTm_s, Era) = <<n + 25567, s>>
      <4>1. ((s + 63104) + 23296) \div 86400 = 1 /\ ((s + 63104) + 23296) % 86400 = s
        BY <1>1, <2>3
      <4> QED
        BY <1>1, <3>1, <4>1 DEF Plus, Era, DaySeconds
    <3> QED
      BY <1>1, <3>1, <3>2, <3>3 DEF unixTime, Minus, NTP_TIMESTAMP_DELTA
  <2> QED
    BY <2>2, <2>3
<1> QED
  BY <1>4, <1>5

(***************************************************************************)
(* What every step keeps: what is shown is the conversion of the time it   *)
(* is, whichever command printed it.                                       *)
(***************************************************************************)
ClockInv ==
    /\ now \in Moment
    /\ (shown # NoDate /\ Earlier(now, Era)) => shown = convertUnixTimeToDate(now)

\* Both commands convert the time it is, on any days and at any times of the day.
THEOREM ClockInvariant == ClockSpec => []ClockInv
<1>1. ClockInit => ClockInv
  BY DaysAssumption, TimesAssumption DEF ClockInit, ClockInv, Moment
<1>2. ClockInv /\ [ClockNext]_clockVars => ClockInv'
  <2> SUFFICES ASSUME ClockInv, [ClockNext]_clockVars PROVE ClockInv'
    OBVIOUS
  <2>1. now[1] \in Nat
    BY DEF ClockInv, Moment
  <2>2. CASE Tick
    <3>1. shown' = NoDate /\ \E day \in Nat, t \in Times : now' = <<day, t>>
      BY <2>1, <2>2 DEF Tick
    <3> QED
      BY <3>1, TimesAssumption DEF ClockInv, Moment
  <2>3. CASE systime
    BY <2>3, RtcIsNow DEF systime, ClockInv
  <2>4. CASE ntp_response_cb
    BY <2>4, NtpIsNow DEF ntp_response_cb, ClockInv
  <2>5. CASE UNCHANGED clockVars
    BY <2>5 DEF clockVars, ClockInv, Moment, Earlier
  <2> QED
    BY <2>2, <2>3, <2>4, <2>5 DEF ClockNext
<1> QED
  BY <1>1, <1>2, PTL DEF ClockSpec

\* The parts of a time that ClockInv holds of.
LEMMA MomentIs ==
  ASSUME now \in Moment, Earlier(now, Era)
  PROVE  /\ now = <<now[1], now[2]>>
         /\ now[1] \in Nat /\ now[1] <= 49710
         /\ now[2] \in Nat /\ now[2] < 86400
  BY DEF Moment, Earlier, Era

(***************************************************************************)
(* systime and ntptime print the date and time it is, a day of the         *)
(* Gregorian calendar, whenever they are called in the first 2^32 seconds. *)
(***************************************************************************)
THEOREM DatesAreRight == ClockSpec => []ShownIsNow
<1>1. ClockInv => ShownIsNow
  <2> SUFFICES ASSUME now \in Moment, Earlier(now, Era), shown = convertUnixTimeToDate(now)
               PROVE  /\ shown.month \in 1 .. 12
                      /\ shown.day \in 1 .. MonthLength(shown.year, shown.month)
                      /\ YearStart(shown.year) + MonthStart(shown.year, shown.month)
                            + shown.day - 1 = now[1]
                      /\ 3600 * shown.hours + 60 * shown.minutes + shown.seconds = now[2]
    BY DEF ClockInv, ShownIsNow
  <2> DEFINE n == now[1]
             s == now[2]
  <2>1. now = <<n, s>> /\ n \in Nat /\ n <= 49710 /\ s \in Nat /\ s < 86400
    BY MomentIs
  <2>2. now[1] = n /\ now[2] = s
    OBVIOUS
  <2> HIDE DEF n, s
  <2>3. shown = convertUnixTimeToDate(<<n, s>>)
    BY <2>1
  <2>4. /\ shown.month \in 1 .. 12
        /\ shown.day \in 1 .. MonthLength(shown.year, shown.month)
        /\ YearStart(shown.year) + MonthStart(shown.year, shown.month) + shown.day - 1 = n
    BY <2>1, <2>3, DateIs
  <2>5. shown.hours = s \div 3600 /\ shown.minutes = (s \div 60) % 60 /\ shown.seconds = s % 60
    <3>1. PICK c \in Int, e \in Int, f \in Int : IsDate(n, s, c, e, f)
      BY <2>1, DateParts
    <3> QED
      BY <2>3, <3>1 DEF IsDate
  <2>6. 3600 * (s \div 3600) + 60 * ((s \div 60) % 60) + (s % 60) = s
    BY <2>1
  <2> QED
    BY <2>2, <2>4, <2>5, <2>6
<1> QED
  BY <1>1, ClockInvariant, PTL

(***************************************************************************)
(* The day of the week is right on exactly the days on which Zeller's sum  *)
(* is at most 255.                                                         *)
(***************************************************************************)
THEOREM WeekdaysUnlessCarry == ClockSpec => []WeekdayUnlessCarry
<1>1. ClockInv => WeekdayUnlessCarry
  <2> SUFFICES ASSUME now \in Moment, Earlier(now, Era), shown = convertUnixTimeToDate(now)
               PROVE  shown.dayOfWeek = ((now[1] + 3) % 7) + 1
                        <=> ZellerSum(shown.year, shown.month, shown.day) <= 255
    BY DEF ClockInv, WeekdayUnlessCarry
  <2> DEFINE n == now[1]
             s == now[2]
  <2>1. now = <<n, s>> /\ n \in Nat /\ n <= 49710
    BY MomentIs
  <2>2. now[1] = n
    OBVIOUS
  <2> HIDE DEF n, s
  <2>3. shown = convertUnixTimeToDate(<<n, s>>)
    BY <2>1
  <2> QED
    BY <2>1, <2>2, <2>3, WeekdayIs
<1> QED
  BY <1>1, ClockInvariant, PTL
=============================================================================
