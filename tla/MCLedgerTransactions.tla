------------------------ MODULE MCLedgerTransactions ------------------------
(***************************************************************************)
(* LedgerTransactions in one run of four cases, each a part of its         *)
(* behaviour within bounds of its own: "edits" changes purchases,          *)
(* "corrections" classifies an imported transaction, with a rule, "rules"  *)
(* has the rules of two merchants, and "remember" records purchases under  *)
(* a rule.                                                                 *)
(***************************************************************************)
EXTENDS LedgerTransactions, TLC

CONSTANTS cafe, bar, food, purchase

VARIABLE case

TwoMerchants == [n \in {cafe, bar} |-> n]

Bounds == [
    edits       |-> [ids |-> {purchase}, rules |-> {}, names |-> {cafe},
                     amount |-> 1, version |-> 2],
    corrections |-> [ids |-> {}, rules |-> RuleIds, names |-> {cafe},
                     amount |-> 0, version |-> 3],
    rules       |-> [ids |-> {}, rules |-> RuleIds, names |-> {cafe, bar},
                     amount |-> 0, version |-> 2],
    remember    |-> [ids |-> {purchase}, rules |-> RuleIds, names |-> {cafe},
                     amount |-> 0, version |-> 2]]

TransactionsWithin(b, table) ==
    /\ DOMAIN table \subseteq b.ids \cup {ImportedId}
    /\ \A id \in DOMAIN table :
          /\ table[id].name \in b.names
          /\ table[id].version <= b.version
          /\ id # ImportedId => table[id].amount <= b.amount
          /\ table[id].reimbursement <= b.amount

RulesWithin(b, table) ==
    /\ DOMAIN table \subseteq b.rules
    /\ \A r \in DOMAIN table : table[r].version <= b.version

RequestWithin(b, q) ==
    q # Nothing => /\ q.step = "INSERT_RULE" => q.name \in b.names
                   /\ q.step = "FIND_CONFLICT" => q.row.name \in b.names

MCInit == /\ Init
          /\ case \in DOMAIN Bounds
          /\ TransactionsWithin(Bounds[case], tx)

MCNext == /\ Next
          /\ UNCHANGED case
          /\ TransactionsWithin(Bounds[case], tx')
          /\ RulesWithin(Bounds[case], rules')
          /\ \A t \in Tabs : RequestWithin(Bounds[case], req'[t])

MCSpec == MCInit /\ [][MCNext]_<<vars, case>>

Symmetry == Permutations(Tabs) \cup Permutations(RuleIds)
=============================================================================
