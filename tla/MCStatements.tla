---------------------------- MODULE MCStatements ----------------------------
(***************************************************************************)
(* CSV files in and out, in one run of independent instances.  CsvParser:   *)
(* "table", every small table in every style and cut at every place, and    *)
(* "limits", tables around the limits.  CsvPreview: "pairs" of lines over a *)
(* small ledger, and "triples" where one candidate is kept.  CsvExport:     *)
(* "texts" of special characters and "lists" of rows around the limits.     *)
(***************************************************************************)
EXTENDS Integers, Sequences, FiniteSets, SequencesExt

CONSTANTS
    PairStatements, TripleStatements, Ledger, References, Candidates, MaxChanges  \* CsvPreview

VARIABLES
    case,                                                           \* the instance
    file, rest, read, pending, parser, outcome,                     \* CsvParser
    phase, statement, preview, posted, merged, steady, changes,     \* CsvPreview
    list, next, text                                                \* CsvExport

parserVars == <<file, rest, pending, parser>>
previewVars == <<phase, statement, preview, posted, merged, steady, changes>>
exportVars == <<list, next, text>>
vars == <<case, read, outcome, parserVars, previewVars, exportVars>>

NoParser == file = <<>> /\ rest = <<>> /\ pending = <<>> /\ parser = <<>>
NoPreview == /\ phase = "" /\ statement = <<>> /\ preview = <<>> /\ posted = {}
             /\ merged = {} /\ steady = {} /\ changes = 0
NoExport == list = <<>> /\ next = 0 /\ text = <<>>

-----------------------------------------------------------------------------
(* Statements as bytes.  A cell holds each character that has a meaning.    *)
Limits == INSTANCE CsvParser WITH
    Files <- {}, ChunkBytes <- 3, FileBytes <- 16, Cell <- 2, Columns <- 2, Rows <- 2

Cells == {<<>>, <<"a">>, <<Limits!Quote>>, <<"a", Limits!LF>>, <<Limits!Comma, Limits!Wide>>}
Lines == {<<c>> : c \in Cells}
           \cup {<<c, d>> : c \in Cells, d \in {<<>>, <<Limits!Wide>>, <<Limits!CR, "a">>}}
Pairs == {<<l, m>> : l \in Lines, m \in Lines}

Styled(tables, cuts) ==
    {[table |-> t, ending |-> e, quoted |-> q, closed |-> x, cut |-> n] :
        t \in tables, e \in {<<Limits!LF>>, <<Limits!CR, Limits!LF>>, <<Limits!CR>>},
        q \in BOOLEAN, x \in BOOLEAN, n \in cuts}

TableFiles == Styled({<<l>> : l \in Lines} \cup Pairs, {0})
                \cup {f \in Styled(Pairs, 1..6) :
                         f.cut < Len(Limits!Bytes(Limits!Written(f)))}

\* One row, column or character more than allowed, and one less.
Wider == {<<"a">>, <<"a", "a">>, <<Limits!Wide, "a", "a">>}
WideLines == {<<c>> : c \in Wider} \cup {<<c, <<"a">> >> : c \in Wider}
                \cup {<<c, <<>>, <<"a">> >> : c \in Wider}
LimitFiles == Styled({<<l>> : l \in WideLines} \cup {<<l, m>> : l, m \in WideLines}
                        \cup {<<l, m, l>> : l, m \in WideLines}
                        \cup {<<l, m, l, m>> : l, m \in WideLines}, {0})

Table == INSTANCE CsvParser WITH
    Files <- TableFiles, ChunkBytes <- 3, FileBytes <- 60, Cell <- 4, Columns <- 3, Rows <- 4
Limited == INSTANCE CsvParser WITH
    Files <- LimitFiles, ChunkBytes <- 3, FileBytes <- 16, Cell <- 2, Columns <- 2, Rows <- 2

-----------------------------------------------------------------------------
(* Statements as lines, over a ledger of four transactions: one recorded by *)
(* hand, one a day later under another description but the same merchant,   *)
(* one that an earlier statement imported, and one of another merchant.     *)
None == "none"
Line == [whole |-> TRUE, day |-> 5, text |-> "shop", merchant |-> None, amount |-> 7,
         flow |-> "OUTFLOW", currency |-> "CAD", account |-> "RBC Credit",
         category |-> None]
GenericLines == {
    Line,
    [Line EXCEPT !.merchant = "mall"],
    [Line EXCEPT !.day = 6],
    [Line EXCEPT !.category = "food"],
    [Line EXCEPT !.category = "gone"],
    [Line EXCEPT !.amount = -1, !.whole = FALSE]}

Signed(a, m) == <<[amount |-> a, minus |-> m]>>
RbcLine == [whole |-> TRUE, day |-> 5, text |-> "shop", cad |-> Signed(7, TRUE),
            usd |-> <<>>, type |-> "Visa"]
RbcLines == {
    RbcLine,
    [RbcLine EXCEPT !.usd = Signed(7, TRUE)],
    [RbcLine EXCEPT !.cad = Signed(7, FALSE), !.type = "Chequing"],
    [RbcLine EXCEPT !.cad = <<>>],
    [RbcLine EXCEPT !.type = "Other", !.day = 0],
    [RbcLine EXCEPT !.whole = FALSE]}

LinePairs == {[rbc |-> FALSE, lines |-> l] : l \in BoundedSeq(GenericLines, 2)}
               \cup {[rbc |-> TRUE, lines |-> l] : l \in BoundedSeq(RbcLines, 2)}
LineTriples ==
    {[rbc |-> FALSE, lines |-> l] :
        l \in [1..3 -> {Line, [Line EXCEPT !.category = "gone"], [Line EXCEPT !.day = 6]}]}

Recorded == [day |-> 5, text |-> "shop", merchant |-> None, amount |-> 7, flow |-> "OUTFLOW",
             currency |-> "CAD", account |-> "RBC Credit", source |-> "MANUAL"]
FourRows == <<Recorded, [Recorded EXCEPT !.day = 6, !.text = "store", !.merchant = "shop"],
              [Recorded EXCEPT !.source = "CSV"],
              [Recorded EXCEPT !.day = 6, !.merchant = "mall"]>>

PairPreview == INSTANCE CsvPreview WITH
    Statements <- PairStatements
TriplePreview == INSTANCE CsvPreview WITH
    Statements <- TripleStatements, Candidates <- 1

-----------------------------------------------------------------------------
(* Exports of one row, with every text of up to three special characters,   *)
(* and of up to three rows, around the limits.                              *)
Texts == UNION {[1..n -> {"a", "'", "=", "minus", "tab", "quote", "comma", "CR", "LF"}] :
                   n \in 0..3}
Amounts == {0, 5, 9, 10, 99, 100, 101, 110, 1005, 98765}
Short == {<<>>, <<"wide">>, <<"quote", "wide">>}

TextExport == INSTANCE CsvExport WITH
    Exports <- {<<[text |-> t, minor |-> 100 * Len(t) + 7]>> : t \in Texts},
    MaxBytes <- 1000, MaxRows <- 1
ListExport == INSTANCE CsvExport WITH
    Exports <- {<<>>} \cup UNION {[1..n -> [text : Short, minor : {0, 5}]] : n \in 1..3}
                 \cup {<<[text |-> <<>>, minor |-> m], [text |-> <<"=">>, minor |-> n]>> :
                          m, n \in Amounts},
    MaxBytes <- 28, MaxRows <- 2

ASSUME PreviewsAssumption ==
    PairPreview!PreviewAssumption /\ TriplePreview!PreviewAssumption
ASSUME /\ Table!ParserAssumption /\ Limited!ParserAssumption
       /\ TextExport!ExportAssumption /\ ListExport!ExportAssumption

-----------------------------------------------------------------------------
Init ==
    \/ case = "table" /\ Table!Init /\ NoPreview /\ NoExport
    \/ case = "limits" /\ Limited!Init /\ NoPreview /\ NoExport
    \/ case = "pairs" /\ PairPreview!Init /\ NoParser /\ NoExport /\ outcome = ""
    \/ case = "triples" /\ TriplePreview!Init /\ NoParser /\ NoExport /\ outcome = ""
    \/ case = "texts" /\ TextExport!Init /\ NoParser /\ NoPreview /\ read = 0
    \/ case = "lists" /\ ListExport!Init /\ NoParser /\ NoPreview /\ read = 0

ParserStep ==
    /\ \/ case = "table" /\ Table!Next
       \/ case = "limits" /\ Limited!Next
    /\ UNCHANGED <<case, previewVars, exportVars>>

PreviewStep ==
    /\ \/ case = "pairs" /\ PairPreview!Next
       \/ case = "triples" /\ TriplePreview!Next
    /\ UNCHANGED <<case, outcome, parserVars, exportVars>>

ExportStep ==
    /\ \/ case = "texts" /\ TextExport!Next
       \/ case = "lists" /\ ListExport!Next
    /\ UNCHANGED <<case, read, parserVars, previewVars>>

Next == ParserStep \/ PreviewStep \/ ExportStep

Spec == Init /\ [][Next]_vars

-----------------------------------------------------------------------------
(* However the bytes are cut into chunks, a statement is read as the table  *)
(* it was written from, and refused only for a limit it exceeds; no limit   *)
(* is exceeded on the way (csv-import.test.ts:46 "incrementally decodes     *)
(* quoted delimiters across chunks").  A file cut short in a download loses *)
(* its tail and nothing else, and one that ends inside a quotation is       *)
(* refused (packages/domain/src/csv-import.ts, finalizeCsvParser).          *)
ReadAsWritten ==
    /\ case = "table" => Table!TypeOK /\ Table!ReadAsWritten /\ Table!OnlyTheTailIsLost
    /\ case = "limits" => Limited!LimitsHold /\ Limited!ReadAsWritten

(* A row that would be imported without a question is not in the ledger     *)
(* already, as far as the ledger held still during the preview, and stands  *)
(* for no other such row of its file                                        *)
(* (specs/data-portability/spec.md:33, a suspected duplicate is flagged).   *)
NoSilentDuplicate ==
    /\ case = "pairs" => PairPreview!TypeOK /\ PairPreview!NoSilentDuplicate
    /\ case = "triples" => TriplePreview!NoSilentDuplicate

(* A row is merged without a question only when nothing is open to doubt    *)
(* (design.md:514), and whatever the statement holds, its preview passes    *)
(* the checks of staging.                                                   *)
AutoMergeIsUnambiguous ==
    /\ case = "pairs" => PairPreview!PreviewIsStageable /\ PairPreview!AutoMergeIsUnambiguous
    /\ case = "triples" => TriplePreview!AutoMergeIsUnambiguous

(* A written file is read back as the rows it was made from, to the         *)
(* character and to the cent; it is complete and within its limits, or it   *)
(* is not sent (data-portability/spec.md:87, round trip).  No cell that a   *)
(* spreadsheet program reads from it begins like a formula, also where the  *)
(* cell is quoted (data-portability/spec.md:86-87).                         *)
ExportReadsBack ==
    /\ case = "texts" => TextExport!ReadsBack /\ TextExport!NoCellIsAFormula
    /\ case = "lists" => ListExport!ReadsBack /\ ListExport!WholeOrRefused
=============================================================================
