-------------------------- MODULE MCReportPeriods --------------------------
(* The Gregorian calendar of 2020 to 2029, and dates around its Februaries  *)
(* and turns of the year.                                                  *)
EXTENDS ReportPeriods

MCLastMonth == 119
Length(m) == CASE m % 12 = 1 -> IF (m \div 12) % 4 = 0 THEN 29 ELSE 28
               [] m % 12 \in {3, 5, 8, 10} -> 30
               [] OTHER -> 31
MCDaysIn == [m \in 0..119 |-> Length(m)]

At(year, month, day) == [month |-> 12 * (year - 2020) + month - 1, day |-> day]
MCTodays == {At(2027, 12, 31), At(2028, 1, 1), At(2028, 2, 29), At(2028, 3, 1)}
MCFormMonths == {<<2020, 1>>, <<2024, 2>>, <<2025, 1>>, <<2029, 12>>, <<2030, 1>>}
MCFormDates ==
    {At(2023, 3, 1), At(2024, 2, 28), At(2024, 2, 29), At(2024, 3, 1), At(2025, 1, 1),
     At(2025, 2, 28), At(2025, 3, 1), At(2026, 2, 28), At(2026, 12, 30), At(2026, 12, 31)}
=============================================================================
