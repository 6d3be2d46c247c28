SPECIFICATION ClockSpec
CONSTANTS
    FirstDay = 0
    LastDay = 49712
    Times = {0, 23295, 23296, 86399}
    NoDate = NoDate
INVARIANTS ShownIsNow WeekdayUnlessCarry
CHECK_DEADLOCK FALSE
