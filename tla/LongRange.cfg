SPECIFICATION Spec
CONSTANTS
  FirstYear = 2020
  LastMonth <- MCLastMonth
  DaysIn <- MCDaysIn
  Todays <- MCTodays
  FormMonths <- MCFormMonths
  FormDates <- MCFormDates
  MaxCustomDays = 730
INVARIANT EveryAcceptedRangeIsReported
