----------------------------- MODULE CsvExport -----------------------------
(***************************************************************************)
(* The file of transactions the owner downloads                            *)
(* (packages/domain/src/transaction-csv-export.ts), written row by row     *)
(* under a limit of bytes, opened by a spreadsheet program and read back   *)
(* by the parser of statements (module CsvParser) and                      *)
(* restoreSpreadsheetText.  Of the 26 columns, one is a text and two are   *)
(* the amount; the others are written by the same operator.                *)
(***************************************************************************)
EXTENDS Integers, Sequences, SequencesExt

CONSTANTS
    Exports,     \* the lists of rows to write: sequences of [text, minor]
    MaxBytes,    \* TRANSACTION_CSV_EXPORT_LIMITS.BYTES
    MaxRows      \* TRANSACTION_CSV_EXPORT_LIMITS.ROWS

ExportAssumption == {MaxBytes, MaxRows} \subseteq Nat

VARIABLES
    list,        \* the rows of the export
    next,        \* number of rows written
    text,        \* the chunks so far
    outcome      \* "writing", "refused", or "written"

vars == <<list, next, text, outcome>>

\* The parser's operators; its own variables play no part here.
Parser == INSTANCE CsvParser WITH
    Files <- {}, ChunkBytes <- 1, FileBytes <- 1000, Cell <- 100, Columns <- 3, Rows <- 100,
    file <- 0, rest <- <<>>, read <- 0, pending <- <<>>, parser <- 0, outcome <- outcome

Marks == {"=", "minus", "tab", "CR"}

-----------------------------------------------------------------------------

Neutralized(value) ==
    IF value # <<>> /\ (value[1] = "'" \/ value[1] \in Marks) THEN <<"'">> \o value ELSE value

\* Mutant of SerializeCell: an apostrophe is written as it is.
SerializeCellApostrophe(value) ==
    Parser!WrittenCell(IF value # <<>> /\ value[1] = "'" THEN value ELSE Neutralized(value), FALSE)

(* serializeCsvCell: the marker is neutralized, then the cell quoted.       *)
SerializeCell(value) == Parser!WrittenCell(Neutralized(value), FALSE)

(* restoreSpreadsheetText                                                  *)
Restored(value) ==
    IF Len(value) >= 2 /\ value[1] = "'" /\ (value[2] = "'" \/ value[2] \in Marks)
    THEN Tail(value)
    ELSE value

Symbols == <<"0", "1", "2", "3", "4", "5", "6", "7", "8", "9">>
Digits[n \in Nat] ==
    IF n < 10 THEN <<Symbols[n + 1]>> ELSE Append(Digits[n \div 10], Symbols[(n % 10) + 1])

(* minorUnitsToCsvDecimal                                                  *)
Decimal(minor) ==
    Digits[minor \div 100] \o <<".">>
      \o (IF minor % 100 < 10 THEN <<"0">> ELSE <<>>) \o Digits[minor % 100]

(* csvImportAmountToMinorUnits, of an amount with a point.                 *)
Number(digits) ==
    FoldLeft(LAMBDA n, d : 10 * n + (CHOOSE i \in 0..9 : Symbols[i + 1] = d), 0, digits)
MinorUnits(decimal) ==
    LET point == CHOOSE i \in DOMAIN decimal : decimal[i] = "."
        cents == SubSeq(decimal, point + 1, Len(decimal))
    IN  (100 * Number(SubSeq(decimal, 1, point - 1)))
          + Number(IF Len(cents) = 1 THEN Append(cents, "0") ELSE cents)

Header == <<"H">>
LineEnd == <<Parser!CR, Parser!LF>>
SerializeRow(row) ==
    Parser!Joined(<<SerializeCell(row.text), SerializeCell(Digits[row.minor]),
                    SerializeCell(Decimal(row.minor))>>, <<Parser!Comma>>)
Size(chunk) == Len(Parser!Bytes(chunk))

-----------------------------------------------------------------------------

Init ==
    /\ list \in Exports
    /\ next = 0
    /\ text = Header \o LineEnd
    /\ outcome = IF Len(list) > MaxRows THEN "refused" ELSE "writing"

(* The loop of serializeTransactionCsv.                                    *)
WriteRow ==
    LET chunk == SerializeRow(list[next + 1]) \o LineEnd IN
    /\ outcome = "writing" /\ next < Len(list)
    /\ outcome' = IF Size(text) + Size(chunk) > MaxBytes THEN "refused" ELSE "writing"
    /\ text' = IF outcome' = "refused" THEN text ELSE text \o chunk
    /\ next' = next + 1
    /\ UNCHANGED list

Close ==
    /\ outcome = "writing" /\ next = Len(list)
    /\ outcome' = IF Size(text) > MaxBytes THEN "refused" ELSE "written"
    /\ UNCHANGED <<list, next, text>>

Next == WriteRow \/ Close

Spec == Init /\ [][Next]_vars

-----------------------------------------------------------------------------
TableRead == Parser!Finalized(Parser!ProcessText(Parser!Start, text))

(* A written file is read back as the rows it was made from, to the        *)
(* character and to the cent (data-portability/spec.md:87 of               *)
(* build-free-personal-ledger: "a documented round-trip representation").  *)
ReadsBack ==
    outcome = "written" =>
        /\ TableRead.error = "none"
        /\ Len(TableRead.rows) = Len(list) + 1
        /\ \A i \in DOMAIN list :
              LET row == TableRead.rows[i + 1]
              IN  /\ Restored(row[1]) = list[i].text
                  /\ Number(row[2]) = list[i].minor
                  /\ MinorUnits(row[3]) = list[i].minor

(* No cell a spreadsheet program reads from the file begins like a formula,*)
(* also where the cell is quoted (data-portability/spec.md:86-87).         *)
NoCellIsAFormula ==
    \A i \in DOMAIN TableRead.rows : \A j \in DOMAIN TableRead.rows[i] :
        LET cell == TableRead.rows[i][j] IN cell # <<>> => cell[1] \notin Marks

(* A file is complete and within its limits or is not sent at all: the     *)
(* size of what was written is never beyond the limit.                     *)
WholeOrRefused ==
    /\ Size(text) <= MaxBytes \/ next = 0
    /\ outcome = "written" => next = Len(list) /\ Len(list) <= MaxRows
=============================================================================
