----------------------------- MODULE MCImports -----------------------------
(***************************************************************************)
(* CsvImports in one run of two cases, each a part of its behaviour within *)
(* bounds of its own.  "race": two files whose rows compete for the same   *)
(* transactions.  "refresh": one file whose preview ages while the owner   *)
(* edits the ledger.  June has the same row twice, July repeats it once;   *)
(* in May milk and bread look alike, a gift like nothing.                  *)
(***************************************************************************)
EXTENDS CsvImports, TLC

CONSTANTS may, june, july, rent, food, milk, bread, gift

VARIABLE case

Statements == [f \in {may, june, july} |->
    IF f = may THEN <<milk, bread>> ELSE IF f = june THEN <<rent, rent>> ELSE <<rent>>]

Resembling == {<<i, i>> : i \in Items} \cup {milk, bread} \X {milk, bread}

Bounds == [
    race    |-> [files |-> {june, july}, items |-> {rent, food}, time |-> 0, version |-> 2],
    refresh |-> [files |-> {may}, items |-> {milk, bread, gift}, time |-> 1, version |-> 3]]

FilesWithin(b, requests) ==
    \A w \in Workers : requests[w] # Idle => requests[w].file \in b.files

LedgerWithin(b, table) ==
    \A t \in DOMAIN table : table[t].item \in b.items /\ table[t].version <= b.version

MCInit == Init /\ case \in DOMAIN Bounds

MCNext == /\ Next
          /\ UNCHANGED case
          /\ now' <= Bounds[case].time
          /\ FilesWithin(Bounds[case], req')
          /\ LedgerWithin(Bounds[case], tx')

MCSpec == MCInit /\ [][MCNext]_<<vars, case>>

Symmetry == Permutations(Workers) \cup Permutations(Keys)
=============================================================================
