---------------------------- MODULE MCCsvPreview ----------------------------
(***************************************************************************)
(* Statements of up to two lines, in dollars and in the currency an owner  *)
(* abroad banks in, over a ledger of three transactions recorded by hand.  *)
(***************************************************************************)
EXTENDS CsvPreview

Line == [whole |-> TRUE, day |-> 5, text |-> "shop", merchant |-> None, amount |-> 7,
         flow |-> "OUTFLOW", currency |-> "CAD", account |-> "RBC Credit",
         category |-> None]
EuroLine == [Line EXCEPT !.currency = "EUR"]
EuroStatements == {[rbc |-> FALSE, lines |-> l] : l \in BoundedSeq({Line, EuroLine}, 2)}

Tx == [day |-> 5, text |-> "shop", merchant |-> None, amount |-> 7, flow |-> "OUTFLOW",
       currency |-> "CAD", account |-> "RBC Credit", source |-> "MANUAL"]
EuroLedger == <<Tx, [Tx EXCEPT !.currency = "EUR"], [Tx EXCEPT !.day = 6]>>

MCReferences == {"food"}
=============================================================================
