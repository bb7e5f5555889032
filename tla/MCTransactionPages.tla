------------------------- MODULE MCTransactionPages -------------------------
(* Small instances of TransactionPages.  Two rows share each key, so that   *)
(* the id decides; the family has two aliases and one stranger.             *)
EXTENDS TransactionPages

TwoDates == {1, 2}
Family == {"bus", "bus station"}
FourRows == {[date |-> 1, amount |-> 2, merchant |-> "bus"],
             [date |-> 1, amount |-> 1, merchant |-> "grocer"],
             [date |-> 2, amount |-> 1, merchant |-> "bus station"],
             [date |-> 2, amount |-> 2, merchant |-> "bus"]}
TwoRows == {[date |-> 1, amount |-> 1, merchant |-> "bus"],
            [date |-> 2, amount |-> 1, merchant |-> "grocer"]}
=============================================================================
