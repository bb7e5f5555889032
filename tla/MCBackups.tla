----------------------------- MODULE MCBackups -----------------------------
(* Two system categories and two of the owner; an older version of the     *)
(* program left a posted transaction that follows a pending one.           *)
EXTENDS Backups, TLC

Category(name, kind, system) == [name |-> name, kind |-> kind, system |-> system]
MCSeeded ==
    "cT" :> Category("Transfer", "TRANSFER", <<"TRANSFER">>)
      @@ "cU" :> Category("Unclassified", "UNCLASSIFIED", <<"UNCLASSIFIED">>)
      @@ "cF" :> Category("Food", "EXPENSE", Null)
      @@ "cP" :> Category("Pay", "INCOME", Null)
MCFewSeeded == [c \in {"cT", "cU", "cF"} |-> MCSeeded[c]]
MCNames == {"Fun", "fun", "food"}
MCNormalOf == "Transfer" :> "transfer" @@ "Unclassified" :> "unclassified" @@ "Pay" :> "pay"
                @@ "Food" :> "food" @@ "food" :> "food" @@ "Fun" :> "fun" @@ "fun" :> "fun"
MCLegacy ==
    1 :> [Transaction("PLAID", 1, "cF") EXCEPT !.pending = <<2>>]
      @@ 2 :> [Transaction("PLAID", 1, "cF") EXCEPT !.status = "REMOVED"]
MCNoLegacy == <<>>
=============================================================================
