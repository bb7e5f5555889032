---------------------------- MODULE MCCsvImports ----------------------------
(***************************************************************************)
(* Small statements of the owner's bank: june has the same row twice, july *)
(* repeats that row once.                                                  *)
(***************************************************************************)
EXTENDS CsvImports, TLC

CONSTANTS june, july, rent, food, gift

TwoStatements == [f \in {june, july} |-> IF f = june THEN <<rent, rent>> ELSE <<rent>>]

OneStatement == [f \in {june} |-> <<rent, food>>]

OnlyEqual == {<<i, i>> : i \in {rent, food}}

\* Two items with the same amount on neighbouring days, and one unlike them.
Alike == {rent, food} \X {rent, food} \cup {<<gift, gift>>}

Symmetry == Permutations(Workers) \cup Permutations(Keys)
=============================================================================
