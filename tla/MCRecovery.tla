----------------------------- MODULE MCRecovery -----------------------------
(***************************************************************************)
(* Backups and migrations, in one run of independent instances.  Backups:   *)
(* "records" of every kind, with those of an older version of the program,  *)
(* "plans" with their charges, and "limits", more records than a document   *)
(* may hold.  MigrationGuard: "guard", two runs of the guarded migration.   *)
(***************************************************************************)
EXTENDS Naturals, Sequences, TLC

CONSTANTS
    Seeded, Legacy, TxIds, NewIds, Names, NormalOf, GroupSizes, Merchants, Plans, Dates,
    Months, Files, MaxChanges, MaxRecords, MaxTotal,         \* of "records"
    FewRecords, FewTotal,                                    \* of "limits"
    FewSeeded, FewTxIds, PlanChanges,                        \* of "plans"
    Commands, Targets, Migrations, MaxAge, MaxTime, MaxEdits, EditsAnyTime

VARIABLES
    case,                                                    \* the instance
    db, document,                                            \* Backups
    clock, backup, files, targets, remote, job,              \* MigrationGuard
    edits                                                    \* of both

backupVars == <<db, document>>
guardVars == <<clock, backup, files, targets, remote, job>>
vars == <<case, edits, backupVars, guardVars>>

-----------------------------------------------------------------------------
Whole == INSTANCE Backups WITH MaxEdits <- MaxChanges
Limited == INSTANCE Backups WITH
    MaxEdits <- MaxChanges, MaxRecords <- FewRecords, MaxTotal <- FewTotal
Charged == INSTANCE Backups WITH
    Seeded <- FewSeeded, Names <- {}, Legacy <- <<>>, TxIds <- FewTxIds,
    GroupSizes <- {}, Months <- {}, Files <- {}, MaxEdits <- PlanChanges

(* Two system categories and two of the owner; an older version of the      *)
(* program left a posted transaction that follows a pending one.            *)
Category(name, kind, system) == [name |-> name, kind |-> kind, system |-> system]
MCFewSeeded ==
    "cT" :> Category("Transfer", "TRANSFER", <<"TRANSFER">>)
      @@ "cU" :> Category("Unclassified", "UNCLASSIFIED", <<"UNCLASSIFIED">>)
      @@ "cF" :> Category("Food", "EXPENSE", <<>>)
MCSeeded == MCFewSeeded @@ "cP" :> Category("Pay", "INCOME", <<>>)

MCNormalOf == "Transfer" :> "transfer" @@ "Unclassified" :> "unclassified" @@ "Pay" :> "pay"
                @@ "Food" :> "food" @@ "food" :> "food" @@ "Fun" :> "fun" @@ "fun" :> "fun"

MCLegacy == 1 :> [Charged!Transaction("PLAID", 1, "cF") EXCEPT !.pending = <<2>>]
             @@ 2 :> [Charged!Transaction("PLAID", 1, "cF") EXCEPT !.status = "REMOVED"]

Migration == INSTANCE MigrationGuard

ASSUME BackupsAssumption ==
    Whole!BackupAssumption /\ Limited!BackupAssumption /\ Charged!BackupAssumption
ASSUME RecoveryAssumption == Migration!GuardAssumption

-----------------------------------------------------------------------------
NoBackup == db = <<>> /\ document = <<>>
NoGuard == /\ clock = 0 /\ backup = 0 /\ files = <<>> /\ targets = <<>> /\ remote = <<>>
           /\ job = <<>>

Init ==
    \/ case = "records" /\ Whole!Init /\ NoGuard
    \/ case = "plans" /\ Charged!Init /\ NoGuard
    \/ case = "limits" /\ Limited!Init /\ NoGuard
    \/ case = "guard" /\ Migration!Init /\ NoBackup

BackupStep ==
    /\ \/ case = "records" /\ Whole!Next
       \/ case = "plans" /\ Charged!Next
       \/ case = "limits" /\ Limited!Next
    /\ UNCHANGED <<case, guardVars>>

GuardStep == case = "guard" /\ Migration!Next /\ UNCHANGED <<case, backupVars>>

Next == BackupStep \/ GuardStep

Spec == Init /\ [][Next]_vars

Symmetry == Permutations(Commands) \cup Permutations(Targets)

-----------------------------------------------------------------------------
(* A backup of any ledger the program can produce is accepted by its own    *)
(* restore, inserted without a broken reference and found complete, as long *)
(* as no charge was moved to another date or direction (the run             *)
(* backup_moved lets it be; data-portability/spec.md of                     *)
(* prune-legacy-sync-remnants, "A valid export is restored").               *)
BackupRestores ==
    /\ case = "records" => Whole!BackupRestores
    /\ case = "plans" => Charged!BackupRestores

(* A document holds every committed record of the ledger at one instant, or *)
(* there is none (full-json-export.ts:280-286), and a database restored     *)
(* from it exports that very document.                                      *)
RoundTrip ==
    [][/\ case = "records" => Whole!SameDocument
       /\ case = "limits" => Limited!WholeDocument]_vars

(* The remote database changes only by a command that has seen a backup     *)
(* restored and verified, and that backup was fresh when the command began  *)
(* (design.md:626-636 of build-free-personal-ledger).  What the remote      *)
(* database receives was applied to the rehearsal (design.md:635, the       *)
(* digest is taken again lest the files change between the restore and the  *)
(* remote execution), and no other command writes to a restored and         *)
(* verified database (design.md:612-616).  Recovery.cfg assumes that no     *)
(* migration file is edited after the second digest (EditsAnyTime = FALSE): *)
(* wrangler reads the files once more and nothing checks them then, as      *)
(* GuardWindow.cfg shows, which drops the assumption.                       *)
RemoteIsRehearsed ==
    [][case = "guard" => /\ Migration!TypeOK /\ Migration!BackedUp
                         /\ Migration!Rehearsed /\ Migration!KeepsVerified]_vars
=============================================================================
