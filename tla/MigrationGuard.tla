--------------------------- MODULE MigrationGuard ---------------------------
(***************************************************************************)
(* The guarded migration of the remote database:                           *)
(*   scripts/migrate-remote.mjs                           (the guard)      *)
(*   packages/persistence/src/remote-migration-guard.ts   (freshness)      *)
(*   scripts/restore-json-export.mjs                      (its rehearsal)  *)
(*                                                                         *)
(* A command reads the backup, takes a digest of the migration files, has  *)
(* a child process restore the backup into a new directory, takes the      *)
(* digest again and only then has wrangler migrate the remote database.    *)
(* Each of these reads the disk by itself, while the owner may save        *)
(* another export or edit a migration, and a second command may run.       *)
(* A backup is known by the instant of its export; a digest is the set of  *)
(* files it was taken of.                                                  *)
(*                                                                         *)
(* Wrangler reads the files once more after the second digest, and nothing *)
(* checks what it reads: unless EditsAnyTime, the model assumes that no    *)
(* migration is edited from that digest to the end of the command.         *)
(***************************************************************************)
EXTENDS Naturals

CONSTANTS
    Commands,        \* runs of npm run db:migrate:remote
    Targets,         \* directories given as --persist-to
    Migrations,      \* file names of migrations, in their order
    MaxAge,          \* how old a backup may be
    MaxTime,         \* bound on the clock
    MaxEdits,        \* bound on edits of migration files
    EditsAnyTime     \* the owner also edits after the second digest

GuardAssumption ==
    /\ Migrations \subseteq Nat /\ 1 \in Migrations
    /\ {MaxAge, MaxTime, MaxEdits} \subseteq Nat /\ MaxAge < MaxTime
    /\ EditsAnyTime \in BOOLEAN

VARIABLES
    clock,
    backup,      \* the export at --input, by the instant it was made
    files,       \* contents of the migration files on disk
    edits,       \* number of edits, which also names the next content
    targets,     \* the directories that exist and the database in each
    remote,      \* contents of the migrations applied remotely
    job          \* the state of each command

vars == <<clock, backup, files, edits, targets, remote, job>>

Contents == 0..MaxEdits
FileSets == UNION {[names -> Contents] : names \in SUBSET Migrations}

(* Two functions as one, of which the first prevails.                      *)
Joined(f, g) == [x \in DOMAIN f \cup DOMAIN g |-> IF x \in DOMAIN f THEN f[x] ELSE g[x]]

Ended == [pc : {"idle", "done", "failed"}]
Running == [pc : {"digest", "input", "mkdir", "schema", "import", "verify", "compare", "apply", "done"},
            execute : BOOLEAN, target : Targets, at : 0..MaxTime,
            before : FileSets, document : 0..MaxTime]
Database == [schema : FileSets, documents : SUBSET (0..MaxTime), verified : BOOLEAN]

Init ==
    /\ clock = MaxAge + 1 /\ backup \in {0, clock} /\ files = [m \in {1} |-> 0] /\ edits = 0
    /\ targets = <<>> /\ remote = <<>>
    /\ job = [c \in Commands |-> [pc |-> "idle"]]

-----------------------------------------------------------------------------
(* The guard and its child, one action per read or write of shared state.  *)

At(c, pc) == job[c].pc = pc
Goes(c, pc) == job' = [job EXCEPT ![c].pc = pc]
Fails(c) == job' = [job EXCEPT ![c] = [pc |-> "failed"]]
Exists(t) == t \in DOMAIN targets
Disk == <<backup, files, edits, remote>>
Here(c) == job[c].target

(* assertRecentFullJsonExport                                              *)
Recent(document) == document <= clock /\ clock - document <= MaxAge

(* readFreshExport                                                         *)
Start(c) ==
    /\ At(c, "idle")
    /\ IF Recent(backup)
       THEN \E execute \in BOOLEAN, t \in Targets :
                job' = [job EXCEPT ![c] = [pc |-> "digest", execute |-> execute, target |-> t,
                                           at |-> clock, before |-> <<>>, document |-> backup]]
       ELSE Fails(c)
    /\ UNCHANGED <<clock, targets, Disk>>

(* migrationSnapshot, before the restore                                   *)
TakeDigest(c) ==
    /\ At(c, "digest")
    /\ job' = [job EXCEPT ![c].before = files, ![c].pc = "input"]
    /\ UNCHANGED <<clock, targets, Disk>>

(* The child reads --input for itself, and resolvedNewTarget looks for the *)
(* directory.                                                              *)
ReadInput(c) ==
    /\ At(c, "input")
    /\ IF Exists(Here(c)) THEN Fails(c)
       ELSE job' = [job EXCEPT ![c].document = backup, ![c].pc = "mkdir"]
    /\ UNCHANGED <<clock, targets, Disk>>

(* mkdirSync fails on a directory made since.                              *)
Makes(t) == ~Exists(t)

MakeTarget(c) ==
    /\ At(c, "mkdir")
    /\ IF Makes(Here(c))
       THEN /\ targets' = Joined(targets, [t \in {Here(c)} |->
                            [schema |-> <<>>, documents |-> {}, verified |-> FALSE]])
            /\ Goes(c, "schema")
       ELSE Fails(c) /\ UNCHANGED targets
    /\ UNCHANGED <<clock, Disk>>

(* wrangler d1 migrations apply applies the files not yet applied by name, *)
(* in their order; one that fails leaves those before it applied.          *)
Pending(applied) == DOMAIN files \ DOMAIN applied
Adding(applied, names) == Joined(applied, [m \in names |-> files[m]])
Upto(applied, n) == Adding(applied, {m \in Pending(applied) : m <= n})
Migrated(applied) == Adding(applied, Pending(applied))

ApplyLocally(c) ==
    /\ At(c, "schema")
    /\ targets' = [targets EXCEPT ![Here(c)].schema = Migrated(@)]
    /\ Goes(c, "import")
    /\ UNCHANGED <<clock, Disk>>

(* The rows of a document, in one transaction.                             *)
Import(c) ==
    /\ At(c, "import")
    /\ targets' = [targets EXCEPT ![Here(c)].documents = @ \cup {job[c].document}]
    /\ Goes(c, "verify")
    /\ UNCHANGED <<clock, Disk>>

(* verifyFullJsonRestoreEvidence, and parseRestoreOutput by the guard.     *)
Verify(c) ==
    /\ At(c, "verify")
    /\ IF targets[Here(c)].documents = {job[c].document}
       THEN targets' = [targets EXCEPT ![Here(c)].verified = TRUE] /\ Goes(c, "compare")
       ELSE Fails(c) /\ UNCHANGED targets
    /\ UNCHANGED <<clock, Disk>>

\* Mutant of SameDigest: only the names of the files are compared.
SameNames(before, after) == DOMAIN before = DOMAIN after

(* The digests of before and after the restore.                            *)
SameDigest(before, after) == before = after

Compare(c) ==
    /\ At(c, "compare")
    /\ IF SameDigest(job[c].before, files) THEN Goes(c, IF job[c].execute THEN "apply" ELSE "done")
       ELSE Fails(c)
    /\ UNCHANGED <<clock, targets, Disk>>

(* wrangler d1 migrations apply --remote                                   *)
ApplyRemotely(c) ==
    /\ At(c, "apply")
    /\ \/ remote' = Migrated(remote) /\ Goes(c, "done")
       \/ \E n \in Pending(remote) : remote' = Upto(remote, n) /\ Fails(c)
    /\ UNCHANGED <<clock, backup, files, edits, targets>>

(* Any call may fail, and the command may be interrupted; what it has      *)
(* written stays.                                                          *)
Stop(c) ==
    /\ job[c].pc \notin {"idle", "done", "failed"}
    /\ Fails(c)
    /\ UNCHANGED <<clock, targets, Disk>>

-----------------------------------------------------------------------------
(* The owner, meanwhile.                                                   *)

Checked == \E c \in Commands : At(c, "apply")

(* A migration is written or rewritten; unless EditsAnyTime, not between   *)
(* the second digest of a command and its end.                             *)
EditFile ==
    /\ edits < MaxEdits /\ edits' = edits + 1
    /\ EditsAnyTime \/ ~Checked
    /\ \E m \in Migrations : files' = Joined([k \in {m} |-> edits + 1], files)
    /\ UNCHANGED <<clock, backup, targets, remote, job>>

(* GET /exports/data.json, saved over the earlier download.                *)
SaveExport == backup' = clock /\ UNCHANGED <<clock, files, edits, targets, remote, job>>

Tick ==
    /\ clock < MaxTime /\ clock' = clock + 1
    /\ UNCHANGED <<Disk, targets, job>>

Guard(c) ==
    \/ Start(c) \/ TakeDigest(c) \/ ReadInput(c) \/ MakeTarget(c) \/ ApplyLocally(c)
    \/ Import(c) \/ Verify(c) \/ Compare(c) \/ ApplyRemotely(c) \/ Stop(c)

Next == (\E c \in Commands : Guard(c)) \/ EditFile \/ SaveExport \/ Tick

Spec == Init /\ [][Next]_vars

-----------------------------------------------------------------------------
(* Directories, backups and migrations have their types.                   *)
TypeOK ==
    /\ clock \in 0..MaxTime /\ backup \in 0..MaxTime /\ edits \in Contents
    /\ files \in FileSets /\ remote \in FileSets
    /\ DOMAIN targets \subseteq Targets
    /\ \A t \in DOMAIN targets : targets[t] \in Database
    /\ job \in [Commands -> Ended \cup Running]

(* The database that a command has restored its backup into.               *)
Rehearsal(c) == targets[job[c].target]

(* The remote database changes only by a command that has seen a backup    *)
(* restored and verified, and that backup was fresh when the command began *)
(* (design.md:626-636 of build-free-personal-ledger).                      *)
BackedUp ==
    remote' # remote =>
       \E c \in Commands :
           /\ job'[c] # job[c] /\ job[c].execute /\ Rehearsal(c).verified
           /\ \A d \in Rehearsal(c).documents : d + MaxAge >= job[c].at

(* What the remote database receives was applied to the rehearsal          *)
(* (design.md:635, the digest is taken again lest the files change between *)
(* the restore and the remote execution).  It fails when a file is edited  *)
(* after that digest (EditsAnyTime, GuardWindow.cfg).                      *)
Rehearsed ==
    remote' # remote =>
       \E c \in Commands :
           /\ job'[c] # job[c]
           /\ \A m \in DOMAIN remote' \ DOMAIN remote :
                 m \in DOMAIN Rehearsal(c).schema /\ Rehearsal(c).schema[m] = remote'[m]

(* No other command writes to a restored and verified database             *)
(* (design.md:612-616, a restore is given a new directory).                *)
KeepsVerified ==
    \A t \in DOMAIN targets : targets[t].verified => targets'[t] = targets[t]
=============================================================================
