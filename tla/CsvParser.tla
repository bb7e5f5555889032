----------------------------- MODULE CsvParser -----------------------------
(***************************************************************************)
(* How the bytes of an uploaded statement become rows of cells             *)
(* (packages/domain/src/csv-import.ts, decodeCsvBase64 to finalizeCsv).    *)
(*                                                                         *)
(* The file arrives in chunks that end anywhere: inside a quoted cell,     *)
(* between CR and LF, in the middle of a character of two bytes.  What is  *)
(* carried over from one chunk to the next is the state of the machine     *)
(* and the pending byte of the decoder.  A chunk is one step.              *)
(***************************************************************************)
EXTENDS Naturals, Sequences, SequencesExt

CONSTANTS
    Files,        \* what an owner may upload: [table, ending, quoted, closed, cut]
    ChunkBytes,   \* the most bytes of a chunk (64 KiB in the program)
    FileBytes,    \* CSV_IMPORT_LIMITS
    Cell,         \* CELL_CHARACTERS
    Columns,
    Rows

ParserAssumption ==
    {ChunkBytes, FileBytes, Cell, Columns, Rows} \subseteq Nat \ {0}

\* Letters of one byte, a letter of two, and the four characters with a meaning.
Quote == "quote"
Comma == "comma"
CR    == "CR"
LF    == "LF"
Wide  == "wide"

VARIABLES
    file,      \* the upload
    rest,      \* its bytes not read yet
    read,      \* totalBytes
    pending,   \* bytes the decoder keeps for the next chunk
    parser,    \* CsvParserState, and the error thrown
    outcome    \* "reading", "refused", or "parsed"

vars == <<file, rest, read, pending, parser, outcome>>

-----------------------------------------------------------------------------
(* The file: a table as a spreadsheet writes it, possibly cut short.       *)

Special == {Quote, Comma, CR, LF}

Escaped(cell) == FlattenSeq([i \in DOMAIN cell |->
    IF cell[i] = Quote THEN <<Quote, Quote>> ELSE <<cell[i]>>])

WrittenCell(cell, quoted) ==
    IF quoted \/ ToSet(cell) \cap Special # {}
    THEN <<Quote>> \o Escaped(cell) \o <<Quote>>
    ELSE cell

Joined(parts, separator) == FlattenSeq([i \in DOMAIN parts |->
    IF i = 1 THEN parts[i] ELSE separator \o parts[i]])

Written(f) ==
    Joined([r \in DOMAIN f.table |->
               Joined([c \in DOMAIN f.table[r] |-> WrittenCell(f.table[r][c], f.quoted)],
                      <<Comma>>)],
           f.ending)
      \o (IF f.closed THEN f.ending ELSE <<>>)

\* UTF-8: the wide letter is a lead byte and a continuation byte.
Bytes(text) == FlattenSeq([i \in DOMAIN text |->
    IF text[i] = Wide THEN <<"lead", "cont">> ELSE <<text[i]>>])

Uploaded(f) == LET whole == Bytes(Written(f))
               IN  SubSeq(whole, 1, Len(whole) - f.cut)

-----------------------------------------------------------------------------
(* The decoder (TextDecoder, fatal and streaming).                          *)

Scanned(bytes) ==
    LET Put(d, b) == CASE d.broken -> d
                       [] b = "lead" /\ d.keep = <<>> -> [d EXCEPT !.keep = <<b>>]
                       [] b = "cont" /\ d.keep # <<>> ->
                            [d EXCEPT !.keep = <<>>, !.text = Append(@, Wide)]
                       [] b \notin {"lead", "cont"} /\ d.keep = <<>> ->
                            [d EXCEPT !.text = Append(@, b)]
                       [] OTHER -> [d EXCEPT !.broken = TRUE]
    IN  FoldLeft(Put, [text |-> <<>>, keep |-> <<>>, broken |-> FALSE], bytes)

(* decode(chunk, { stream: true }), or decode() when last.                  *)
Decoded(bytes, last) ==
    [Scanned(bytes) EXCEPT !.broken = @ \/ (last /\ Scanned(bytes).keep # <<>>)]

-----------------------------------------------------------------------------
(* The machine.  A thrown error stays and nothing after it is read.        *)

Start == [field |-> <<>>, row |-> <<>>, rows |-> <<>>, skip |-> FALSE,
          state |-> "FIELD_START", error |-> "none"]

Throw(p, code) == [p EXCEPT !.error = code]

AppendCharacter(p, ch) ==
    IF Len(p.field) + 1 > Cell THEN Throw(p, "CSV_SHAPE_INVALID")
    ELSE [p EXCEPT !.field = Append(@, ch)]

CompleteField(p) ==
    IF Len(p.row) + 1 > Columns THEN Throw(p, "CSV_COLUMN_LIMIT_EXCEEDED")
    ELSE [p EXCEPT !.row = Append(@, p.field), !.field = <<>>, !.state = "FIELD_START"]

CompleteRow(p) ==
    LET q == CompleteField(p)
    IN  IF q.error # "none" THEN q
        ELSE IF Len(q.rows) + 1 > Rows + 1 THEN Throw(q, "CSV_ROW_LIMIT_EXCEEDED")
        ELSE [q EXCEPT !.rows = Append(@, q.row), !.row = <<>>]

Delimit(p, ch) ==
    IF ch = Comma THEN CompleteField(p) ELSE [CompleteRow(p) EXCEPT !.skip = (ch = CR)]

Unquoted(p, ch) ==
    CASE ch \in {Comma, CR, LF} -> Delimit(p, ch)
      [] ch = Quote -> IF p.state = "FIELD_START" THEN [p EXCEPT !.state = "QUOTED"]
                       ELSE Throw(p, "CSV_SHAPE_INVALID")
      [] OTHER -> [AppendCharacter(p, ch) EXCEPT !.state = "UNQUOTED"]

AfterQuote(p, ch) ==
    CASE ch = Quote -> [AppendCharacter(p, ch) EXCEPT !.state = "QUOTED"]
      [] ch \in {Comma, CR, LF} -> Delimit(p, ch)
      [] OTHER -> Throw(p, "CSV_SHAPE_INVALID")

Character(p, ch) ==
    IF p.error # "none" THEN p
    ELSE IF p.skip /\ ch = LF THEN [p EXCEPT !.skip = FALSE]
    ELSE LET q == [p EXCEPT !.skip = FALSE]
         IN  CASE q.state = "QUOTED" -> IF ch = Quote THEN [q EXCEPT !.state = "AFTER_QUOTE"]
                                        ELSE AppendCharacter(q, ch)
               [] q.state = "AFTER_QUOTE" -> AfterQuote(q, ch)
               [] OTHER -> Unquoted(q, ch)

\* Mutant of ProcessText: the wait for the LF of a CR ends with its chunk.
ProcessTextAlone(p, text) == FoldLeft(Character, [p EXCEPT !.skip = FALSE], text)

ProcessText(p, text) == FoldLeft(Character, p, text)

Finalized(p) ==
    LET q == IF p.field # <<>> \/ p.row # <<>> \/ p.state = "AFTER_QUOTE"
             THEN CompleteRow(p) ELSE p
    IN  CASE p.error # "none" -> p
          [] p.state = "QUOTED" -> Throw(p, "CSV_SHAPE_INVALID")
          [] q.error = "none" /\ q.rows = <<>> -> Throw(q, "CSV_SHAPE_INVALID")
          [] OTHER -> q

-----------------------------------------------------------------------------

Init ==
    /\ file \in Files
    /\ rest = Uploaded(file)
    /\ read = 0
    /\ pending = <<>>
    /\ parser = Start
    /\ outcome = "reading"

Refuse(code) ==
    /\ outcome' = "refused"
    /\ parser' = Throw(parser, code)
    /\ UNCHANGED pending

(* One chunk: count its bytes, decode it, run the machine over its text.   *)
ReadChunk(n) ==
    LET decoded == Decoded(pending \o SubSeq(rest, 1, n), FALSE)
        next    == ProcessText(parser, decoded.text)
    IN  /\ outcome = "reading"
        /\ n \in 1..Len(rest)
        /\ rest' = SubSeq(rest, n + 1, Len(rest))
        /\ read' = read + n
        /\ \/ /\ read + n > FileBytes
              /\ Refuse("CSV_FILE_LIMIT_EXCEEDED")
           \/ /\ read + n <= FileBytes
              /\ decoded.broken
              /\ Refuse("CSV_ENCODING_UNSUPPORTED")
           \/ /\ read + n <= FileBytes
              /\ ~decoded.broken
              /\ parser' = next
              /\ pending' = decoded.keep
              /\ outcome' = IF next.error = "none" THEN "reading" ELSE "refused"
        /\ UNCHANGED file

(* After the last chunk: flush the decoder, close the last row.             *)
Finish ==
    LET done == Finalized(parser)
    IN  /\ outcome = "reading"
        /\ rest = <<>>
        /\ \/ /\ Decoded(pending, TRUE).broken
              /\ Refuse("CSV_ENCODING_UNSUPPORTED")
           \/ /\ ~Decoded(pending, TRUE).broken
              /\ parser' = done
              /\ outcome' = IF done.error = "none" THEN "parsed" ELSE "refused"
              /\ UNCHANGED pending
        /\ UNCHANGED <<file, rest, read>>

Next == Finish \/ \E n \in 1..ChunkBytes : ReadChunk(n)

Spec == Init /\ [][Next]_vars

-----------------------------------------------------------------------------
(* Properties *)

\* What the table in the file demands of the limits.
WithinLimits ==
    /\ Len(Uploaded(file)) <= FileBytes
    /\ Len(file.table) <= Rows + 1
    /\ \A r \in DOMAIN file.table :
          /\ Len(file.table[r]) <= Columns
          /\ \A c \in DOMAIN file.table[r] : Len(file.table[r][c]) <= Cell

\* A file whose last row is one empty cell ends like one that lacks the row.
EndsBlank == LET t == file.table
             IN  ~file.closed /\ ~file.quoted /\ t[Len(t)] = <<(<<>>)>>

Letters == {"a", Wide} \cup Special

(* Every variable holds a value of its type.                               *)
TypeOK ==
    /\ read \in 0..Len(Uploaded(file))
    /\ pending \in {<<>>, <<"lead">>}
    /\ parser.state \in {"FIELD_START", "UNQUOTED", "QUOTED", "AFTER_QUOTE"}
    /\ parser.skip \in BOOLEAN
    /\ ToSet(parser.field) \subseteq Letters
    /\ outcome \in {"reading", "refused", "parsed"}
    /\ (outcome = "refused") = (parser.error # "none")

(* However the bytes are cut into chunks, a statement is read as the table  *)
(* it was written from, and refused only for a limit it exceeds             *)
(* (csv-import.test.ts:46 "incrementally decodes quoted delimiters across   *)
(* chunks").                                                               *)
ReadAsWritten ==
    (file.cut = 0 /\ ~EndsBlank) =>
        /\ outcome = "parsed" => parser.rows = file.table
        /\ outcome = "refused" => ~WithinLimits

(* A limit is never exceeded by what the parser returns, nor by what it     *)
(* keeps in memory on the way: the next steps write every row to the        *)
(* database.                                                               *)
LimitsHold ==
    /\ Len(parser.rows) <= Rows + 1
    /\ Len(parser.row) <= Columns
    /\ Len(parser.field) <= Cell
    /\ (outcome = "parsed" /\ ~EndsBlank /\ file.cut = 0) => WithinLimits

(* A file cut short in a download loses its tail and nothing else: the rows *)
(* before the last are those that were written, and a file that ends inside *)
(* a quotation is refused.                                                  *)
OnlyTheTailIsLost ==
    LET quotes == SelectSeq(Uploaded(file), LAMBDA ch : ch = Quote)
    IN  (outcome = "parsed" /\ file.cut > 0) =>
            /\ Len(parser.rows) <= Len(file.table)
            /\ \A r \in 1..Len(parser.rows) - 1 : parser.rows[r] = file.table[r]
            /\ Len(quotes) % 2 = 0
=============================================================================
