--------------------------- MODULE RecoveryProofs ---------------------------
(***************************************************************************)
(* What backups and migrations promise.  First the guarded migration, for  *)
(* any number of commands, directories and migration files; then backups,  *)
(* for any categories, names, transactions, plans, files and histories.    *)
(***************************************************************************)
EXTENDS MCRecovery, TLAPS, FiniteSetTheorems

Working == {"digest", "input", "mkdir", "schema", "import", "verify", "compare", "apply"}
Owning == {"schema", "import", "verify", "compare", "apply"}
Restored == {"compare", "apply"}

Is(c, pcs) == job[c].pc \in pcs

(* A command's backup was fresh when it began, and so is any saved since.  *)
FreshSince ==
    /\ backup <= clock
    /\ \A c \in Commands : Is(c, Working) =>
          /\ job[c].at <= clock
          /\ job[c].document + MaxAge >= job[c].at
          /\ Is(c, {"digest", "input"}) => backup + MaxAge >= job[c].at

(* The directory that a command made is its own; it is marked verified     *)
(* from the command's verification on, and holds the command's document.   *)
Owns(c) ==
    Is(c, Owning) =>
       /\ Migration!Here(c) \in DOMAIN targets
       /\ targets[Migration!Here(c)].verified <=> Is(c, Restored)
       /\ Is(c, Restored) => targets[Migration!Here(c)].documents = {job[c].document}

OneOwner ==
    /\ \A c \in Commands : Owns(c)
    /\ \A c, e \in Commands :
          Is(c, Owning) /\ Is(e, Owning) /\ Migration!Here(c) = Migration!Here(e) => c = e

(* A content is newer than every content of an earlier digest.             *)
ContentsAreKnown ==
    /\ \A m \in DOMAIN files : files[m] <= edits
    /\ \A c \in Commands : Is(c, Working \ {"digest"}) =>
          \A m \in DOMAIN job[c].before : job[c].before[m] <= edits

(* The rehearsal has the files of the first digest, unless a later digest  *)
(* is bound to differ.                                                     *)
HasSchema(c) ==
    /\ Is(c, {"schema"}) => targets[Migration!Here(c)].schema = <<>>
    /\ Is(c, {"import", "verify", "compare"}) /\ job[c].before = files
          => targets[Migration!Here(c)].schema = files
    /\ Is(c, {"apply"}) =>
          job[c].execute /\ (~EditsAnyTime => targets[Migration!Here(c)].schema = files)

SchemaIsOfDigest == \A c \in Commands : HasSchema(c)

IInv ==
    /\ Migration!TypeOK
    /\ FreshSince
    /\ OneOwner
    /\ ContentsAreKnown
    /\ SchemaIsOfDigest

-----------------------------------------------------------------------------
(* Sets of files, and what the steps of a command do to its record.        *)

LEMMA FilesAre ==
  \A f : f \in Migration!FileSets <=> /\ f = [m \in DOMAIN f |-> f[m]]
                            /\ DOMAIN f \subseteq Migrations
                            /\ \A m \in DOMAIN f : f[m] \in Migration!Contents
<1>1. ASSUME NEW f, f \in Migration!FileSets
      PROVE  /\ f = [m \in DOMAIN f |-> f[m]] /\ DOMAIN f \subseteq Migrations
             /\ \A m \in DOMAIN f : f[m] \in Migration!Contents
  <2>1. PICK names \in SUBSET Migrations : f \in [names -> Migration!Contents]
    BY <1>1 DEF Migration!FileSets
  <2>. QED  BY <2>1
<1>2. ASSUME NEW f, f = [m \in DOMAIN f |-> f[m]], DOMAIN f \subseteq Migrations,
             \A m \in DOMAIN f : f[m] \in Migration!Contents
      PROVE  f \in Migration!FileSets
  <2>1. f \in [DOMAIN f -> Migration!Contents]
    BY <1>2
  <2>. QED  BY <1>2, <2>1 DEF Migration!FileSets
<1>. QED  BY <1>1, <1>2

(* The files applied by wrangler are a set of files again, and those it    *)
(* adds are the files on disk.                                             *)
LEMMA AddingIs ==
  ASSUME files \in Migration!FileSets
  PROVE  \A applied \in Migration!FileSets : \A names \in SUBSET Migration!Pending(applied) :
         /\ Migration!Adding(applied, names) \in Migration!FileSets
         /\ DOMAIN Migration!Adding(applied, names) = DOMAIN applied \cup names
         /\ \A m \in names : Migration!Adding(applied, names)[m] = files[m]
<1>. SUFFICES ASSUME NEW applied \in Migration!FileSets,
                     NEW names \in SUBSET Migration!Pending(applied)
              PROVE  /\ Migration!Adding(applied, names) \in Migration!FileSets
                     /\ DOMAIN Migration!Adding(applied, names) = DOMAIN applied \cup names
                     /\ \A m \in names : Migration!Adding(applied, names)[m] = files[m]
  OBVIOUS
<1>1. names \subseteq DOMAIN files /\ names \cap DOMAIN applied = {}
  BY DEF Migration!Pending
<1>2. Migration!Adding(applied, names) = [m \in DOMAIN applied \cup names |->
                                  IF m \in DOMAIN applied THEN applied[m] ELSE files[m]]
  BY DEF Migration!Adding, Migration!Joined
<1>3. /\ DOMAIN Migration!Adding(applied, names) = DOMAIN applied \cup names
      /\ \A m \in names : Migration!Adding(applied, names)[m] = files[m]
      /\ \A m \in DOMAIN applied : Migration!Adding(applied, names)[m] = applied[m]
  BY <1>1, <1>2
<1>4. Migration!Adding(applied, names) =
        [m \in DOMAIN Migration!Adding(applied, names) |-> Migration!Adding(applied, names)[m]]
  BY <1>2
<1>. QED  BY <1>1, <1>3, <1>4, FilesAre

LEMMA MigratedIs ==
  ASSUME files \in Migration!FileSets
  PROVE  \A applied \in Migration!FileSets :
         /\ Migration!Migrated(applied) \in Migration!FileSets
         /\ \A m \in DOMAIN Migration!Migrated(applied) \ DOMAIN applied :
               m \in DOMAIN files /\ Migration!Migrated(applied)[m] = files[m]
         /\ \A n : /\ Migration!Upto(applied, n) \in Migration!FileSets
                   /\ \A m \in DOMAIN Migration!Upto(applied, n) \ DOMAIN applied :
                         m \in DOMAIN files /\ Migration!Upto(applied, n)[m] = files[m]
<1>. SUFFICES ASSUME NEW applied \in Migration!FileSets, NEW n
              PROVE  /\ Migration!Migrated(applied) \in Migration!FileSets
                     /\ \A m \in DOMAIN Migration!Migrated(applied) \ DOMAIN applied :
                           m \in DOMAIN files /\ Migration!Migrated(applied)[m] = files[m]
                     /\ Migration!Upto(applied, n) \in Migration!FileSets
                     /\ \A m \in DOMAIN Migration!Upto(applied, n) \ DOMAIN applied :
                           m \in DOMAIN files /\ Migration!Upto(applied, n)[m] = files[m]
  OBVIOUS
<1>1. Migration!Pending(applied) \subseteq DOMAIN files
  BY DEF Migration!Pending
<1>2. ASSUME NEW names \in SUBSET Migration!Pending(applied)
      PROVE  /\ Migration!Adding(applied, names) \in Migration!FileSets
             /\ \A m \in DOMAIN Migration!Adding(applied, names) \ DOMAIN applied :
                   m \in DOMAIN files /\ Migration!Adding(applied, names)[m] = files[m]
  <2>1. /\ Migration!Adding(applied, names) \in Migration!FileSets
        /\ DOMAIN Migration!Adding(applied, names) = DOMAIN applied \cup names
        /\ \A m \in names : Migration!Adding(applied, names)[m] = files[m]
    BY AddingIs
  <2>. QED  BY <1>1, <2>1
<1>3. {m \in Migration!Pending(applied) : m <= n} \in SUBSET Migration!Pending(applied)
  OBVIOUS
<1>4. /\ Migration!Upto(applied, n) \in Migration!FileSets
      /\ \A m \in DOMAIN Migration!Upto(applied, n) \ DOMAIN applied :
            m \in DOMAIN files /\ Migration!Upto(applied, n)[m] = files[m]
  BY <1>2, <1>3 DEF Migration!Upto
<1>. QED  BY <1>2, <1>4 DEF Migration!Migrated

(* A new database gets every file.                                         *)
LEMMA MigratedAnew ==
  ASSUME files \in Migration!FileSets
  PROVE  Migration!Migrated(<<>>) = files
<1>1. Migration!Pending(<<>>) = DOMAIN files
  BY DEF Migration!Pending
<1>2. Migration!Migrated(<<>>) = [m \in DOMAIN files |-> files[m]]
  BY <1>1 DEF Migration!Migrated, Migration!Adding, Migration!Joined
<1>. QED  BY <1>2, FilesAre

Others(c) == \A e \in Commands \ {c} : job'[e] = job[e]

LEMMA CommandGoes ==
  ASSUME Migration!TypeOK, NEW c \in Commands, Is(c, Working), NEW pc \in Working \cup {"done"},
         Migration!Goes(c, pc)
  PROVE  /\ job' \in [Commands -> Migration!Ended \cup Migration!Running]
         /\ Others(c) /\ job'[c] \in Migration!Running /\ job'[c] = [job[c] EXCEPT !.pc = pc]
<1>1. job[c] \in Migration!Running
  BY DEF Migration!TypeOK, Is, Working, Migration!Ended, Migration!Running
<1>2. [job[c] EXCEPT !.pc = pc] \in Migration!Running
  BY <1>1 DEF Migration!Running, Working
<1>. QED  BY <1>2 DEF Migration!Goes, Migration!TypeOK, Others

LEMMA CommandFails ==
  ASSUME Migration!TypeOK, NEW c \in Commands, Migration!Fails(c)
  PROVE  /\ job' \in [Commands -> Migration!Ended \cup Migration!Running]
         /\ Others(c) /\ job'[c] = [pc |-> "failed"]
  BY DEF Migration!Fails, Migration!TypeOK, Others, Migration!Ended

LEMMA NoFiles == <<>> \in Migration!FileSets
<1>1. {} \in SUBSET Migrations /\ <<>> \in [{} -> Migration!Contents]
  OBVIOUS
<1>. QED  BY <1>1, Zenon DEF Migration!FileSets

(* A step of a command keeps the directories of the others theirs, if it   *)
(* leaves these alone and does not end in one of them.                     *)
LEMMA OwnersKept ==
  ASSUME OneOwner, SchemaIsOfDigest, NEW c \in Commands, Others(c), files' = files,
         \A e \in Commands \ {c} : Is(e, Owning) =>
            /\ Migration!Here(e) \in DOMAIN targets'
            /\ targets'[Migration!Here(e)] = targets[Migration!Here(e)]
            /\ job'[c].pc \in Owning => job'[c].target # Migration!Here(e),
         Owns(c)', HasSchema(c)'
  PROVE  OneOwner' /\ SchemaIsOfDigest'
<1>1. ASSUME NEW e \in Commands, e # c, Is(e, Owning)'
      PROVE  /\ job'[e] = job[e] /\ Is(e, Owning) /\ Migration!Here(e)' = Migration!Here(e)
             /\ Migration!Here(e) \in DOMAIN targets'
             /\ targets'[Migration!Here(e)] = targets[Migration!Here(e)]
             /\ job'[c].pc \in Owning => job'[c].target # Migration!Here(e)
  BY <1>1 DEF Is, Others, Migration!Here
<1>2. ASSUME NEW e \in Commands, e # c
      PROVE  Owns(e)'
  BY <1>1, <1>2 DEF OneOwner, Owns, Is, Migration!Here
<1>3. ASSUME NEW d \in Commands, NEW e \in Commands, Is(d, Owning)', Is(e, Owning)',
             Migration!Here(d)' = Migration!Here(e)'
      PROVE  d = e
  <2>1. CASE d # c /\ e # c
    BY <1>1, <1>3, <2>1 DEF OneOwner
  <2>2. CASE d = c \/ e = c
    BY <1>1, <1>3, <2>2 DEF Is, Migration!Here
  <2>. QED  BY <2>1, <2>2
<1>4. OneOwner'
  BY <1>2, <1>3 DEF OneOwner
<1>5. ASSUME NEW e \in Commands, e # c
      PROVE  HasSchema(e)'
  BY <1>1, <1>5 DEF SchemaIsOfDigest, HasSchema, Is, Migration!Here, Owning
<1>6. SchemaIsOfDigest'
  BY <1>5 DEF SchemaIsOfDigest
<1>. QED  BY <1>4, <1>6

(* So does a step of a command that owns no directory after it.            *)
LEMMA OwnersLeft ==
  ASSUME OneOwner, SchemaIsOfDigest, NEW c \in Commands, Others(c), job'[c].pc \notin Owning,
         targets' = targets, files' = files
  PROVE  OneOwner' /\ SchemaIsOfDigest'
<1>1. Owns(c)' /\ HasSchema(c)'
  BY DEF Owns, HasSchema, Is, Owning
<1>2. \A e \in Commands : Is(e, Owning) => Migration!Here(e) \in DOMAIN targets
  BY DEF OneOwner, Owns
<1>. QED  BY <1>1, <1>2, OwnersKept

(* A command that fails leaves what it has written.                        *)
LEMMA FailsKeeps ==
  ASSUME IInv, NEW c \in Commands, Migration!Fails(c), remote' \in Migration!FileSets,
         UNCHANGED <<clock, targets, backup, files, edits>>
  PROVE  IInv'
<1>. USE DEF IInv
<1>1. /\ job' \in [Commands -> Migration!Ended \cup Migration!Running]
      /\ Others(c) /\ job'[c] = [pc |-> "failed"]
  BY CommandFails
<1>2. UNCHANGED <<clock, backup, files, edits, targets>> /\ remote' \in Migration!FileSets
  OBVIOUS
<1>3. Migration!TypeOK'
  BY <1>1, <1>2 DEF Migration!TypeOK
<1>4. FreshSince'
  BY <1>1, <1>2 DEF FreshSince, Is, Others, Working
<1>5. ContentsAreKnown'
  BY <1>1, <1>2 DEF ContentsAreKnown, Is, Others, Working
<1>6. OneOwner' /\ SchemaIsOfDigest'
  BY <1>1, <1>2, OwnersLeft DEF Owning
<1>. QED  BY <1>3, <1>4, <1>5, <1>6

-----------------------------------------------------------------------------
(* Each step of a command keeps the invariant.                             *)

LEMMA StartKeeps ==
  ASSUME Migration!GuardAssumption, IInv, NEW c \in Commands, Migration!Start(c)
  PROVE  IInv'
<1>. USE DEF IInv
<1>1. CASE ~Migration!Recent(backup)
  BY <1>1, FailsKeeps DEF Migration!Start, Migration!Disk, Migration!TypeOK
<1>2. CASE Migration!Recent(backup)
  <2>1. PICK execute \in BOOLEAN, t \in Targets :
           job' = [job EXCEPT ![c] = [pc |-> "digest", execute |-> execute, target |-> t,
                                      at |-> clock, before |-> <<>>, document |-> backup]]
    BY <1>2 DEF Migration!Start
  <2>2. UNCHANGED <<clock, backup, files, edits, targets, remote>>
    BY DEF Migration!Start, Migration!Disk
  <2>3. <<>> \in Migration!FileSets
    BY NoFiles
  <2>4. [pc |-> "digest", execute |-> execute, target |-> t, at |-> clock,
         before |-> <<>>, document |-> backup] \in Migration!Running
    BY <2>3 DEF Migration!TypeOK, Migration!Running
  <2>5. job' \in [Commands -> Migration!Ended \cup Migration!Running] /\ Others(c)
    BY <2>1, <2>4 DEF Migration!TypeOK, Others
  <2>6. /\ job'[c].pc = "digest" /\ job'[c].at = clock /\ job'[c].document = backup
    BY <2>1 DEF Migration!TypeOK
  <2>7. Migration!TypeOK'
    BY <2>2, <2>5 DEF Migration!TypeOK
  <2>8. FreshSince'
    <3>1. backup + MaxAge >= clock
      BY <1>2 DEF Migration!TypeOK, Migration!GuardAssumption, Migration!Recent
    <3>. QED  BY <2>2, <2>5, <2>6, <3>1 DEF FreshSince, Is, Others, Migration!TypeOK
  <2>9. ContentsAreKnown'
    BY <2>2, <2>5, <2>6 DEF ContentsAreKnown, Is, Others, Working
  <2>10. OneOwner' /\ SchemaIsOfDigest'
    BY <2>2, <2>5, <2>6, OwnersLeft DEF Owning
  <2>. QED  BY <2>7, <2>8, <2>9, <2>10
<1>. QED  BY <1>1, <1>2

LEMMA TakeDigestKeeps ==
  ASSUME IInv, NEW c \in Commands, Migration!TakeDigest(c)
  PROVE  IInv'
<1>. USE DEF IInv
<1>1. UNCHANGED <<clock, backup, files, edits, targets, remote>>
  BY DEF Migration!TakeDigest, Migration!Disk
<1>2. job[c] \in Migration!Running /\ job[c].pc = "digest"
  BY DEF Migration!TakeDigest, Migration!At, Migration!TypeOK, Migration!Ended
<1>3. job' = [job EXCEPT ![c] = [job[c] EXCEPT !.before = files, !.pc = "input"]]
  BY DEF Migration!TakeDigest
<1>4. [job[c] EXCEPT !.before = files, !.pc = "input"] \in Migration!Running
  BY <1>2 DEF Migration!Running, Migration!TypeOK
<1>5. /\ job' \in [Commands -> Migration!Ended \cup Migration!Running] /\ Others(c)
      /\ job'[c] = [job[c] EXCEPT !.before = files, !.pc = "input"]
  BY <1>3, <1>4 DEF Migration!TypeOK, Others
<1>6. /\ job'[c].pc = "input" /\ job'[c].before = files
      /\ job'[c].at = job[c].at /\ job'[c].document = job[c].document
  BY <1>2, <1>5 DEF Migration!Running
<1>7. Migration!TypeOK'
  BY <1>1, <1>5 DEF Migration!TypeOK
<1>8. FreshSince'
  BY <1>1, <1>2, <1>5, <1>6 DEF FreshSince, Is, Others, Working
<1>9. ContentsAreKnown'
  BY <1>1, <1>5, <1>6 DEF ContentsAreKnown, Is, Others, Working
<1>10. OneOwner' /\ SchemaIsOfDigest'
  BY <1>1, <1>5, <1>6, OwnersLeft DEF Owning
<1>. QED  BY <1>7, <1>8, <1>9, <1>10

LEMMA ReadInputKeeps ==
  ASSUME IInv, NEW c \in Commands, Migration!ReadInput(c)
  PROVE  IInv'
<1>. USE DEF IInv
<1>1. CASE Migration!Exists(Migration!Here(c))
  BY <1>1, FailsKeeps DEF Migration!ReadInput, Migration!Disk, Migration!TypeOK
<1>2. CASE ~Migration!Exists(Migration!Here(c))
  <2>1. UNCHANGED <<clock, backup, files, edits, targets, remote>>
    BY DEF Migration!ReadInput, Migration!Disk
  <2>2. job[c] \in Migration!Running /\ job[c].pc = "input"
    BY DEF Migration!ReadInput, Migration!At, Migration!TypeOK, Migration!Ended
  <2>3. job' = [job EXCEPT ![c] = [job[c] EXCEPT !.document = backup, !.pc = "mkdir"]]
    BY <1>2 DEF Migration!ReadInput
  <2>4. [job[c] EXCEPT !.document = backup, !.pc = "mkdir"] \in Migration!Running
    BY <2>2 DEF Migration!Running, Migration!TypeOK
  <2>5. /\ job' \in [Commands -> Migration!Ended \cup Migration!Running] /\ Others(c)
        /\ job'[c] = [job[c] EXCEPT !.document = backup, !.pc = "mkdir"]
    BY <2>3, <2>4 DEF Migration!TypeOK, Others
  <2>6. /\ job'[c].pc = "mkdir" /\ job'[c].document = backup
        /\ job'[c].at = job[c].at /\ job'[c].before = job[c].before
    BY <2>2, <2>5 DEF Migration!Running
  <2>7. Migration!TypeOK'
    BY <2>1, <2>5 DEF Migration!TypeOK
  <2>8. FreshSince'
    BY <2>1, <2>2, <2>5, <2>6 DEF FreshSince, Is, Others, Working
  <2>9. ContentsAreKnown'
    BY <2>1, <2>2, <2>5, <2>6 DEF ContentsAreKnown, Is, Others, Working
  <2>10. OneOwner' /\ SchemaIsOfDigest'
    BY <2>1, <2>5, <2>6, OwnersLeft DEF Owning
  <2>. QED  BY <2>7, <2>8, <2>9, <2>10
<1>. QED  BY <1>1, <1>2

(* What a command has read stays as it goes on.                            *)
LEMMA GoesKeeps ==
  ASSUME IInv, NEW c \in Commands, Is(c, Working \ {"digest"}), NEW pc \in Owning \cup {"done"},
         Migration!Goes(c, pc), UNCHANGED <<clock, backup, files, edits>>
  PROVE  /\ job' \in [Commands -> Migration!Ended \cup Migration!Running] /\ Others(c)
         /\ job'[c] = [job[c] EXCEPT !.pc = pc] /\ job[c] \in Migration!Running
         /\ FreshSince' /\ ContentsAreKnown'
<1>. USE DEF IInv
<1>1. /\ job' \in [Commands -> Migration!Ended \cup Migration!Running] /\ Others(c)
      /\ job'[c] \in Migration!Running /\ job'[c] = [job[c] EXCEPT !.pc = pc]
  BY CommandGoes DEF Is, Working, Owning
<1>2. job[c] \in Migration!Running
  BY DEF Migration!TypeOK, Is, Working, Migration!Ended
<1>3. /\ job'[c].pc = pc /\ job'[c].at = job[c].at /\ job'[c].before = job[c].before
      /\ job'[c].document = job[c].document
  BY <1>1, <1>2 DEF Migration!Running
<1>4. FreshSince'
  BY <1>1, <1>3 DEF FreshSince, Is, Others, Working, Owning
<1>5. ContentsAreKnown'
  BY <1>1, <1>3 DEF ContentsAreKnown, Is, Others, Working, Owning
<1>. QED  BY <1>1, <1>2, <1>4, <1>5

LEMMA MakeTargetKeeps ==
  ASSUME IInv, NEW c \in Commands, Migration!MakeTarget(c)
  PROVE  IInv'
<1>. USE DEF IInv
<1>1. CASE ~Migration!Makes(Migration!Here(c))
  <2>1. Migration!Fails(c) /\ UNCHANGED <<clock, targets, Migration!Disk>>
    BY <1>1 DEF Migration!MakeTarget
  <2>. QED  BY <2>1, FailsKeeps DEF Migration!Disk, Migration!TypeOK
<1>2. CASE Migration!Makes(Migration!Here(c))
  <2>. DEFINE new == [schema |-> <<>>, documents |-> {}, verified |-> FALSE]
  <2>1. /\ Migration!Goes(c, "schema") /\ Is(c, {"mkdir"})
        /\ UNCHANGED <<clock, backup, files, edits, remote>>
    BY <1>2 DEF Migration!MakeTarget, Migration!Disk, Is, Migration!At
  <2>2. targets' = [t \in DOMAIN targets \cup {Migration!Here(c)} |->
                      IF t \in DOMAIN targets THEN targets[t] ELSE new]
    BY <1>2 DEF Migration!MakeTarget, Migration!Joined
  <2>3. new \in Migration!Database
    BY NoFiles DEF Migration!Database
  <2>4. /\ job' \in [Commands -> Migration!Ended \cup Migration!Running] /\ Others(c)
        /\ job'[c] = [job[c] EXCEPT !.pc = "schema"] /\ job[c] \in Migration!Running
        /\ FreshSince' /\ ContentsAreKnown'
    BY <2>1, GoesKeeps DEF Is, Working, Owning
  <2>5. job'[c].pc = "schema" /\ job'[c].target = Migration!Here(c) /\ Migration!Here(c) \in Targets
    BY <2>4 DEF Migration!Running, Migration!Here
  <2>6. Migration!Here(c) \notin DOMAIN targets
    BY <1>2 DEF Migration!Makes, Migration!Exists
  <2>7. /\ \A t \in DOMAIN targets : t \in DOMAIN targets' /\ targets'[t] = targets[t]
        /\ DOMAIN targets' = DOMAIN targets \cup {Migration!Here(c)}
        /\ targets'[Migration!Here(c)] = new
    BY <2>2, <2>6
  <2>8. Migration!TypeOK'
    BY <2>1, <2>3, <2>4, <2>5, <2>7 DEF Migration!TypeOK
  <2>9. Owns(c)' /\ HasSchema(c)'
    BY <2>5, <2>7 DEF Owns, HasSchema, Is, Migration!Here, Restored
  <2>10. \A e \in Commands : Is(e, Owning) => Migration!Here(e) \in DOMAIN targets
    BY DEF OneOwner, Owns
  <2>11. OneOwner' /\ SchemaIsOfDigest'
    BY <2>1, <2>4, <2>5, <2>6, <2>7, <2>9, <2>10, OwnersKept
  <2>. QED  BY <2>4, <2>8, <2>11
<1>. QED  BY <1>1, <1>2

(* The directory of a command becomes d, and no other changes.             *)
Puts(c, d) ==
    \/ targets' = [targets EXCEPT ![Migration!Here(c)] = d]
    \/ targets' = targets /\ d = targets[Migration!Here(c)]

(* A command writes to the directory it has made.                          *)
LEMMA OwnWritten ==
  ASSUME IInv, NEW c \in Commands, Is(c, Owning), Is(c, Owning)',
         UNCHANGED <<clock, backup, files, edits, remote>>,
         NEW pc \in Owning, Migration!Goes(c, pc),
         NEW d, d \in Migration!Database, Puts(c, d),
         d.verified <=> pc \in Restored,
         pc \in Restored => d.documents = {job[c].document},
         pc = "schema" => d.schema = <<>>,
         pc \in {"import", "verify", "compare"} /\ job[c].before = files => d.schema = files,
         pc = "apply" => job[c].execute /\ (~EditsAnyTime => d.schema = files)
  PROVE  IInv'
<1>. USE DEF IInv
<1>1. /\ job' \in [Commands -> Migration!Ended \cup Migration!Running] /\ Others(c)
      /\ job'[c] = [job[c] EXCEPT !.pc = pc] /\ job[c] \in Migration!Running
      /\ FreshSince' /\ ContentsAreKnown'
  BY GoesKeeps DEF Is, Working, Owning
<1>2. /\ job'[c].pc = pc /\ job'[c].target = Migration!Here(c) /\ job'[c].document = job[c].document
      /\ job'[c].before = job[c].before /\ job'[c].execute = job[c].execute
  BY <1>1 DEF Migration!Running, Migration!Here
<1>3. \A e \in Commands : Is(e, Owning) => Migration!Here(e) \in DOMAIN targets
  BY DEF OneOwner, Owns
<1>4. /\ DOMAIN targets' = DOMAIN targets /\ targets'[Migration!Here(c)] = d
      /\ \A t \in DOMAIN targets \ {Migration!Here(c)} : targets'[t] = targets[t]
  BY <1>3 DEF Puts
<1>5. Migration!TypeOK'
  BY <1>1, <1>4 DEF Migration!TypeOK
<1>6. Owns(c)' /\ HasSchema(c)'
  BY <1>2, <1>3, <1>4 DEF Owns, HasSchema, Is, Migration!Here
<1>7. \A e \in Commands \ {c} : Is(e, Owning) => Migration!Here(e) # Migration!Here(c)
  BY DEF OneOwner
<1>8. OneOwner' /\ SchemaIsOfDigest'
  BY <1>1, <1>2, <1>3, <1>4, <1>6, <1>7, OwnersKept
<1>. QED  BY <1>1, <1>5, <1>8

LEMMA ApplyLocallyKeeps ==
  ASSUME IInv, NEW c \in Commands, Migration!ApplyLocally(c)
  PROVE  IInv'
<1>. DEFINE d == [targets[Migration!Here(c)] EXCEPT !.schema = files]
<1>1. /\ Is(c, {"schema"}) /\ Migration!Goes(c, "import")
      /\ UNCHANGED <<clock, backup, files, edits, remote>>
  BY DEF Migration!ApplyLocally, Migration!Disk, Is, Migration!At
<1>2. /\ Migration!Here(c) \in DOMAIN targets /\ ~targets[Migration!Here(c)].verified
      /\ targets[Migration!Here(c)].schema = <<>>
  BY <1>1 DEF IInv, OneOwner, Owns, SchemaIsOfDigest, HasSchema, Is, Owning, Restored
<1>3. files \in Migration!FileSets /\ targets[Migration!Here(c)] \in Migration!Database
  BY <1>2 DEF IInv, Migration!TypeOK
<1>4. Puts(c, d)
  BY <1>2, <1>3, MigratedAnew DEF Migration!ApplyLocally, Puts
<1>5. d \in Migration!Database /\ d.schema = files /\ ~d.verified
  BY <1>2, <1>3 DEF Migration!Database
<1>. HIDE DEF d
<1>6. Is(c, Owning) /\ Is(c, Owning)'
  BY <1>1 DEF Is, Owning, Migration!Goes, IInv, Migration!TypeOK
<1>. QED  BY <1>1, <1>4, <1>5, <1>6, OwnWritten DEF Owning, Restored

LEMMA ImportKeeps ==
  ASSUME IInv, NEW c \in Commands, Migration!Import(c)
  PROVE  IInv'
<1>. DEFINE d == [targets[Migration!Here(c)] EXCEPT !.documents = @ \cup {job[c].document}]
<1>1. /\ Is(c, {"import"}) /\ Migration!Goes(c, "verify")
      /\ UNCHANGED <<clock, backup, files, edits, remote>>
      /\ Puts(c, d)
  BY DEF Migration!Import, Migration!Disk, Is, Migration!At, Puts
<1>2. /\ Migration!Here(c) \in DOMAIN targets /\ ~targets[Migration!Here(c)].verified
      /\ job[c].before = files => targets[Migration!Here(c)].schema = files
  BY <1>1 DEF IInv, OneOwner, Owns, SchemaIsOfDigest, HasSchema, Is, Owning, Restored
<1>3. job[c].document \in 0..MaxTime /\ targets[Migration!Here(c)] \in Migration!Database
  BY <1>1, <1>2 DEF IInv, Migration!TypeOK, Is, Migration!Ended, Migration!Running
<1>4. d \in Migration!Database /\ d.schema = targets[Migration!Here(c)].schema /\ ~d.verified
  BY <1>2, <1>3 DEF Migration!Database
<1>. HIDE DEF d
<1>5. Is(c, Owning) /\ Is(c, Owning)'
  BY <1>1 DEF Is, Owning, Migration!Goes, IInv, Migration!TypeOK
<1>. QED  BY <1>1, <1>2, <1>4, <1>5, OwnWritten DEF Owning, Restored

LEMMA VerifyKeeps ==
  ASSUME IInv, NEW c \in Commands, Migration!Verify(c)
  PROVE  IInv'
<1>1. CASE targets[Migration!Here(c)].documents # {job[c].document}
  BY <1>1, FailsKeeps DEF Migration!Verify, Migration!Disk, IInv, Migration!TypeOK
<1>2. CASE targets[Migration!Here(c)].documents = {job[c].document}
  <2>. DEFINE d == [targets[Migration!Here(c)] EXCEPT !.verified = TRUE]
  <2>1. /\ Is(c, {"verify"}) /\ Migration!Goes(c, "compare")
        /\ UNCHANGED <<clock, backup, files, edits, remote>>
        /\ Puts(c, d)
    BY <1>2 DEF Migration!Verify, Migration!Disk, Is, Migration!At, Puts
  <2>2. /\ Migration!Here(c) \in DOMAIN targets
        /\ job[c].before = files => targets[Migration!Here(c)].schema = files
    BY <2>1 DEF IInv, OneOwner, Owns, SchemaIsOfDigest, HasSchema, Is, Owning
  <2>3. targets[Migration!Here(c)] \in Migration!Database
    BY <2>2 DEF IInv, Migration!TypeOK
  <2>4. /\ d \in Migration!Database /\ d.schema = targets[Migration!Here(c)].schema /\ d.verified
        /\ d.documents = {job[c].document}
    BY <1>2, <2>3 DEF Migration!Database
  <2>. HIDE DEF d
  <2>5. Is(c, Owning) /\ Is(c, Owning)'
    BY <2>1 DEF Is, Owning, Migration!Goes, IInv, Migration!TypeOK
  <2>. QED  BY <2>1, <2>2, <2>4, <2>5, OwnWritten DEF Owning, Restored
<1>. QED  BY <1>1, <1>2

LEMMA CompareKeeps ==
  ASSUME IInv, NEW c \in Commands, Migration!Compare(c)
  PROVE  IInv'
<1>1. CASE ~Migration!SameDigest(job[c].before, files)
  BY <1>1, FailsKeeps DEF Migration!Compare, Migration!Disk, IInv, Migration!TypeOK
<1>2. CASE Migration!SameDigest(job[c].before, files)
  <2>1. Is(c, {"compare"}) /\ UNCHANGED <<clock, backup, files, edits, targets, remote>>
    BY DEF Migration!Compare, Migration!Disk, Is, Migration!At
  <2>2. CASE job[c].execute
    <3>. DEFINE d == targets[Migration!Here(c)]
    <3>1. Migration!Goes(c, "apply")
      BY <1>2, <2>2 DEF Migration!Compare
    <3>2. Migration!Here(c) \in DOMAIN targets /\ d.verified /\ d.documents = {job[c].document}
      BY <2>1 DEF IInv, OneOwner, Owns, Is, Owning, Restored
    <3>3. d.schema = files
      BY <1>2, <2>1 DEF IInv, SchemaIsOfDigest, HasSchema, Is, Migration!SameDigest
    <3>4. d \in Migration!Database /\ Puts(c, d)
      BY <2>1, <3>2 DEF IInv, Migration!TypeOK, Puts
    <3>. HIDE DEF d
    <3>5. Is(c, Owning) /\ Is(c, Owning)'
      BY <2>1, <3>1 DEF Is, Owning, Migration!Goes, IInv, Migration!TypeOK
    <3>. QED  BY <2>1, <2>2, <3>1, <3>2, <3>3, <3>4, <3>5, OwnWritten DEF Owning, Restored
  <2>3. CASE ~job[c].execute
    <3>1. Migration!Goes(c, "done")
      BY <1>2, <2>3 DEF Migration!Compare
    <3>2. /\ job' \in [Commands -> Migration!Ended \cup Migration!Running] /\ Others(c)
          /\ job'[c] = [job[c] EXCEPT !.pc = "done"] /\ job[c] \in Migration!Running
          /\ FreshSince' /\ ContentsAreKnown'
      BY <2>1, <3>1, GoesKeeps DEF Is, Working
    <3>3. job'[c].pc \notin Owning
      BY <3>2 DEF Migration!Running, Owning
    <3>4. OneOwner' /\ SchemaIsOfDigest'
      BY <2>1, <3>2, <3>3, OwnersLeft DEF IInv
    <3>. QED  BY <2>1, <3>2, <3>4 DEF IInv, Migration!TypeOK
  <2>. QED  BY <2>2, <2>3
<1>. QED  BY <1>1, <1>2

LEMMA ApplyRemotelyKeeps ==
  ASSUME IInv, NEW c \in Commands, Migration!ApplyRemotely(c)
  PROVE  IInv'
<1>1. UNCHANGED <<clock, backup, files, edits, targets>> /\ Is(c, {"apply"})
  BY DEF Migration!ApplyRemotely, Is, Migration!At
<1>2. remote' \in Migration!FileSets
  BY MigratedIs DEF Migration!ApplyRemotely, IInv, Migration!TypeOK
<1>3. CASE Migration!Fails(c)
  BY <1>1, <1>2, <1>3, FailsKeeps
<1>4. CASE Migration!Goes(c, "done")
  <2>1. /\ job' \in [Commands -> Migration!Ended \cup Migration!Running] /\ Others(c)
        /\ job'[c] = [job[c] EXCEPT !.pc = "done"] /\ job[c] \in Migration!Running
        /\ FreshSince' /\ ContentsAreKnown'
    BY <1>1, <1>4, GoesKeeps DEF Is, Working
  <2>2. job'[c].pc \notin Owning
    BY <2>1 DEF Migration!Running, Owning
  <2>3. OneOwner' /\ SchemaIsOfDigest'
    BY <1>1, <2>1, <2>2, OwnersLeft DEF IInv
  <2>. QED  BY <1>1, <1>2, <2>1, <2>3 DEF IInv, Migration!TypeOK
<1>. QED  BY <1>3, <1>4 DEF Migration!ApplyRemotely

(* The owner writes to no directory.  A file written after a digest makes  *)
(* that digest differ, and none is written after the second digest unless  *)
(* EditsAnyTime.                                                           *)
LEMMA EditFileKeeps ==
  ASSUME Migration!GuardAssumption, IInv, Migration!EditFile
  PROVE  IInv'
<1>. USE DEF IInv
<1>1. PICK m \in Migrations : files' = [k \in {m} \cup DOMAIN files |->
                                          IF k \in {m} THEN edits + 1 ELSE files[k]]
  BY DEF Migration!EditFile, Migration!Joined
<1>2. /\ edits' = edits + 1 /\ edits + 1 \in Migration!Contents /\ edits \in Migration!Contents
      /\ UNCHANGED <<clock, backup, targets, remote, job>>
  BY DEF Migration!EditFile, Migration!TypeOK, Migration!Contents, Migration!GuardAssumption
<1>3. /\ DOMAIN files' = {m} \cup DOMAIN files /\ files'[m] = edits + 1
      /\ \A k \in DOMAIN files \ {m} : files'[k] = files[k]
  BY <1>1
<1>4. /\ DOMAIN files \subseteq Migrations
      /\ \A k \in DOMAIN files : files[k] \in Migration!Contents
  BY FilesAre DEF Migration!TypeOK
<1>5. /\ files' = [k \in DOMAIN files' |-> files'[k]] /\ DOMAIN files' \subseteq Migrations
      /\ \A k \in DOMAIN files' : files'[k] \in Migration!Contents
  BY <1>1, <1>2, <1>3, <1>4
<1>6. Migration!TypeOK'
  BY <1>2, <1>5, FilesAre DEF Migration!TypeOK
<1>7. FreshSince' /\ OneOwner'
  BY <1>2 DEF FreshSince, OneOwner, Owns, Is, Migration!Here
<1>8. ContentsAreKnown'
  <2>1. \A k \in DOMAIN files' : files'[k] <= edits'
    BY <1>2, <1>3, <1>4 DEF ContentsAreKnown, Migration!Contents, Migration!GuardAssumption
  <2>2. ASSUME NEW c \in Commands, Is(c, Working \ {"digest"}), NEW k \in DOMAIN job[c].before
        PROVE  job[c].before[k] <= edits + 1
    <3>1. job[c] \in Migration!Running
      BY <2>2 DEF Migration!TypeOK, Is, Working, Migration!Ended
    <3>2. job[c].before \in Migration!FileSets
      BY <3>1 DEF Migration!Running
    <3>3. job[c].before[k] \in Migration!Contents
      BY <3>2, FilesAre
    <3>4. job[c].before[k] <= edits
      BY <2>2 DEF ContentsAreKnown
    <3>. QED  BY <1>2, <3>3, <3>4 DEF Migration!Contents, Migration!GuardAssumption
  <2>. QED  BY <1>2, <2>1, <2>2 DEF ContentsAreKnown, Is
<1>9. SchemaIsOfDigest'
  <2>1. ASSUME NEW c \in Commands, Is(c, Working \ {"digest"})
        PROVE  job[c].before # files'
    BY <1>2, <1>3, <2>1 DEF ContentsAreKnown, Migration!Contents, Migration!GuardAssumption
  <2>2. ASSUME NEW c \in Commands, Is(c, {"apply"})
        PROVE  EditsAnyTime
    BY <2>2 DEF Migration!EditFile, Migration!Checked, Is, Migration!At
  <2>. QED  BY <1>2, <2>1, <2>2 DEF SchemaIsOfDigest, HasSchema, Is, Migration!Here, Working
<1>. QED  BY <1>6, <1>7, <1>8, <1>9

LEMMA OwnerKeeps ==
  ASSUME Migration!GuardAssumption, IInv, Migration!SaveExport \/ Migration!Tick
  PROVE  IInv'
<1>. USE DEF IInv
<1>1. /\ UNCHANGED <<files, edits, targets, remote, job>>
      /\ clock \in 0..MaxTime /\ clock' \in 0..MaxTime /\ clock <= clock'
      /\ backup \in 0..MaxTime /\ backup' \in {backup, clock} /\ backup' <= clock'
  BY DEF Migration!SaveExport, Migration!Tick, Migration!Disk, Migration!TypeOK, FreshSince,
         Migration!GuardAssumption
<1>2. Migration!TypeOK' /\ OneOwner' /\ ContentsAreKnown' /\ SchemaIsOfDigest'
  BY <1>1 DEF Migration!TypeOK, OneOwner, Owns, ContentsAreKnown, SchemaIsOfDigest, HasSchema,
              Is, Migration!Here
<1>3. ASSUME NEW c \in Commands, Is(c, Working)
      PROVE  /\ job[c].at <= clock' /\ job[c].document + MaxAge >= job[c].at
             /\ Is(c, {"digest", "input"}) => backup' + MaxAge >= job[c].at
  <2>1. job[c].at \in 0..MaxTime
    BY <1>3 DEF Migration!TypeOK, Is, Working, Migration!Ended, Migration!Running
  <2>. QED  BY <1>1, <1>3, <2>1 DEF FreshSince, Migration!GuardAssumption
<1>4. FreshSince'
  BY <1>1, <1>3 DEF FreshSince, Is
<1>. QED  BY <1>2, <1>4

-----------------------------------------------------------------------------
LEMMA Inductive ==
  ASSUME Migration!GuardAssumption, IInv, [Migration!Next]_(Migration!vars)
  PROVE  IInv'
<1>1. ASSUME NEW c \in Commands, Migration!Guard(c)
      PROVE  IInv'
  <2>1. CASE Migration!Stop(c)
    BY <2>1, FailsKeeps DEF Migration!Stop, Migration!Disk, IInv, Migration!TypeOK
  <2>. QED
    BY <1>1, <2>1, StartKeeps, TakeDigestKeeps, ReadInputKeeps, MakeTargetKeeps, ApplyLocallyKeeps,
       ImportKeeps, VerifyKeeps, CompareKeeps, ApplyRemotelyKeeps DEF Migration!Guard
<1>2. CASE UNCHANGED Migration!vars
  BY <1>2 DEF Migration!vars, IInv, Migration!TypeOK, FreshSince, OneOwner, Owns, ContentsAreKnown,
              SchemaIsOfDigest, HasSchema, Is, Migration!Here
<1>. QED  BY <1>1, <1>2, EditFileKeeps, OwnerKeeps DEF Migration!Next

LEMMA Initial ==
  ASSUME Migration!GuardAssumption, Migration!Init
  PROVE  IInv
<1>1. files \in Migration!FileSets /\ remote \in Migration!FileSets
  <2>1. files = [m \in {1} |-> 0]
    BY DEF Migration!Init
  <2>2. /\ files = [m \in DOMAIN files |-> files[m]] /\ DOMAIN files \subseteq Migrations
        /\ \A m \in DOMAIN files : files[m] \in Migration!Contents
    BY <2>1 DEF Migration!GuardAssumption, Migration!Contents
  <2>. QED  BY <2>2, FilesAre, NoFiles DEF Migration!Init
<1>2. /\ clock \in 0..MaxTime /\ backup \in 0..MaxTime /\ edits \in Migration!Contents
      /\ backup <= clock
  BY DEF Migration!Init, Migration!GuardAssumption, Migration!Contents
<1>3. job \in [Commands -> Migration!Ended \cup Migration!Running] /\ DOMAIN targets = {}
  BY DEF Migration!Init, Migration!Ended
<1>4. Migration!TypeOK
  BY <1>1, <1>2, <1>3 DEF Migration!TypeOK
<1>5. \A c \in Commands : job[c].pc = "idle"
  BY DEF Migration!Init
<1>6. \A m \in DOMAIN files : files[m] <= edits
  BY DEF Migration!Init
<1>7. FreshSince /\ OneOwner /\ ContentsAreKnown /\ SchemaIsOfDigest
  BY <1>2, <1>5, <1>6
     DEF FreshSince, OneOwner, Owns, ContentsAreKnown, SchemaIsOfDigest, HasSchema, Is, Working,
         Owning
<1>. QED  BY <1>4, <1>7 DEF IInv

(* An invariant of every run of any number of commands.                    *)
THEOREM Invariant ==
  ASSUME Migration!GuardAssumption
  PROVE  Migration!Spec => []IInv
  BY Initial, Inductive, PTL DEF Migration!Spec

(* Directories, backups and migrations have their types.                   *)
THEOREM TypeCorrect ==
  ASSUME Migration!GuardAssumption
  PROVE  Migration!Spec => []Migration!TypeOK
<1>1. IInv => Migration!TypeOK
  BY DEF IInv
<1>. QED  BY <1>1, Invariant, PTL

-----------------------------------------------------------------------------
(* Only ApplyRemotely writes to the remote database.                       *)
LEMMA RemoteIsWritten ==
  ASSUME IInv, [Migration!Next]_(Migration!vars), remote' # remote
  PROVE  \E c \in Commands : Migration!ApplyRemotely(c) /\ job'[c] # job[c]
<1>1. PICK c \in Commands : Migration!ApplyRemotely(c)
  BY DEF Migration!Next, Migration!Guard, Migration!Start, Migration!TakeDigest,
         Migration!ReadInput, Migration!MakeTarget, Migration!ApplyLocally, Migration!Import,
         Migration!Verify, Migration!Compare,
         Migration!Stop, Migration!EditFile, Migration!SaveExport, Migration!Tick,
         Migration!Disk, Migration!vars
<1>2. job[c].pc = "apply" /\ (Migration!Goes(c, "done") \/ Migration!Fails(c))
  BY <1>1 DEF Migration!ApplyRemotely, Migration!At
<1>3. job[c] \in Migration!Running
  BY <1>2 DEF IInv, Migration!TypeOK, Migration!Ended
<1>4. CASE Migration!Goes(c, "done")
  <2>1. job'[c] = [job[c] EXCEPT !.pc = "done"]
    BY <1>4 DEF Migration!Goes, IInv, Migration!TypeOK
  <2>2. job'[c].pc = "done"
    BY <1>3, <2>1 DEF Migration!Running
  <2>. QED  BY <1>1, <1>2, <2>2
<1>5. CASE Migration!Fails(c)
  <2>1. job'[c].pc = "failed"
    BY <1>5 DEF Migration!Fails, IInv, Migration!TypeOK
  <2>. QED  BY <1>1, <1>2, <2>1
<1>. QED  BY <1>2, <1>4, <1>5

LEMMA BackedUpSteps ==
  ASSUME IInv, [Migration!Next]_(Migration!vars), remote' # remote
  PROVE  Migration!BackedUp
<1>1. PICK c \in Commands : Migration!ApplyRemotely(c) /\ job'[c] # job[c]
  BY RemoteIsWritten
<1>2. Is(c, {"apply"})
  BY <1>1 DEF Migration!ApplyRemotely, Migration!At, Is
<1>3. /\ job[c].execute /\ Migration!Rehearsal(c).verified
      /\ Migration!Rehearsal(c).documents = {job[c].document}
  BY <1>2
     DEF IInv, OneOwner, Owns, SchemaIsOfDigest, HasSchema, Is, Owning, Restored,
         Migration!Rehearsal, Migration!Here
<1>4. job[c].document + MaxAge >= job[c].at
  BY <1>2 DEF IInv, FreshSince, Is, Working
<1>. QED  BY <1>1, <1>3, <1>4 DEF Migration!BackedUp

(* The remote database changes only by a command that was told to execute, *)
(* after it has restored and verified a backup that was fresh when it      *)
(* began: whatever is saved, edited or run meanwhile.                      *)
THEOREM RemoteIsBackedUp ==
  ASSUME Migration!GuardAssumption
  PROVE  Migration!Spec => [][Migration!BackedUp]_(Migration!vars)
<1>1. IInv /\ [Migration!Next]_(Migration!vars) => [Migration!BackedUp]_(Migration!vars)
  BY BackedUpSteps DEF Migration!BackedUp
<1>. QED  BY <1>1, Invariant, PTL DEF Migration!Spec

LEMMA RehearsedSteps ==
  ASSUME ~EditsAnyTime, IInv, [Migration!Next]_(Migration!vars), remote' # remote
  PROVE  Migration!Rehearsed
<1>1. PICK c \in Commands : Migration!ApplyRemotely(c) /\ job'[c] # job[c]
  BY RemoteIsWritten
<1>2. Migration!Rehearsal(c).schema = files
  BY <1>1 DEF IInv, SchemaIsOfDigest, HasSchema, Is, Migration!ApplyRemotely, Migration!At,
              Migration!Rehearsal, Migration!Here
<1>3. files \in Migration!FileSets /\ remote \in Migration!FileSets
  BY DEF IInv, Migration!TypeOK
<1>4. \A m \in DOMAIN remote' \ DOMAIN remote : m \in DOMAIN files /\ files[m] = remote'[m]
  BY <1>1, <1>3, MigratedIs DEF Migration!ApplyRemotely
<1>. QED  BY <1>1, <1>2, <1>4 DEF Migration!Rehearsed

(* Every migration that reaches the remote database was applied to the     *)
(* rehearsal with the same content, as long as no file is edited between   *)
(* the second digest and the remote migration.                             *)
THEOREM RemoteWasRehearsed ==
  ASSUME Migration!GuardAssumption, ~EditsAnyTime
  PROVE  Migration!Spec => [][Migration!Rehearsed]_(Migration!vars)
<1>1. IInv /\ [Migration!Next]_(Migration!vars) => [Migration!Rehearsed]_(Migration!vars)
  BY RehearsedSteps DEF Migration!Rehearsed
<1>. QED  BY <1>1, Invariant, PTL DEF Migration!Spec

LEMMA VerifiedSteps ==
  ASSUME IInv, Migration!Next, NEW t \in DOMAIN targets, targets[t].verified
  PROVE  targets'[t] = targets[t]
<1>1. CASE targets' = targets
  BY <1>1
<1>2. ASSUME NEW c \in Commands, Migration!MakeTarget(c)
      PROVE  targets'[t] = targets[t]
  BY <1>2 DEF Migration!MakeTarget, Migration!Joined
<1>3. ASSUME NEW c \in Commands,
             Migration!ApplyLocally(c) \/ Migration!Import(c) \/ Migration!Verify(c)
      PROVE  targets'[t] = targets[t]
  <2>1. Is(c, {"schema", "import", "verify"})
    BY <1>3 DEF Migration!ApplyLocally, Migration!Import, Migration!Verify, Migration!At, Is
  <2>2. ~targets[Migration!Here(c)].verified
    BY <2>1 DEF IInv, OneOwner, Owns, Is, Owning, Restored
  <2>. QED  BY <1>3, <2>2 DEF Migration!ApplyLocally, Migration!Import, Migration!Verify
<1>. QED
  BY <1>1, <1>2, <1>3
     DEF Migration!Next, Migration!Guard, Migration!Start, Migration!TakeDigest,
         Migration!ReadInput, Migration!Compare, Migration!ApplyRemotely, Migration!Stop,
         Migration!EditFile,
         Migration!SaveExport, Migration!Tick

(* No step, of whatever command, writes to a database once it is verified. *)
THEOREM VerifiedIsKept ==
  ASSUME Migration!GuardAssumption
  PROVE  Migration!Spec => [][Migration!KeepsVerified]_(Migration!vars)
<1>1. IInv /\ [Migration!Next]_(Migration!vars) => [Migration!KeepsVerified]_(Migration!vars)
  BY VerifiedSteps DEF Migration!KeepsVerified
<1>. QED  BY <1>1, Invariant, PTL DEF Migration!Spec

-----------------------------------------------------------------------------
(* The guard of the run: while the instance is the guard, the invariant    *)
(* holds, and no file is edited after the second digest.                   *)
Guarded == ~EditsAnyTime /\ (case = "guard" => IInv)

LEMMA GuardedAtFirst ==
  ASSUME ~EditsAnyTime, Init
  PROVE  Guarded
<1>1. CASE case = "guard"
  <2>1. Migration!Init
    BY <1>1 DEF Init
  <2>. QED  BY <2>1, Initial, RecoveryAssumption DEF Guarded
<1>. QED  BY <1>1 DEF Guarded

LEMMA OnlyGuardSteps ==
  ASSUME [Next]_vars, case' = "guard"
  PROVE  case = "guard" /\ [Migration!Next]_(Migration!vars)
<1>1. CASE BackupStep
  BY <1>1 DEF BackupStep
<1>2. CASE GuardStep
  BY <1>2 DEF GuardStep
<1>3. CASE UNCHANGED vars
  BY <1>3 DEF vars, guardVars, Migration!vars
<1>. QED  BY <1>1, <1>2, <1>3 DEF Next

(* The remote database, in the run of the backups and the guard: it changes *)
(* only by a command that has restored and verified a fresh backup, it      *)
(* receives only what that rehearsal received, and a verified rehearsal is  *)
(* never written again, for any number of commands, directories and         *)
(* migration files, as long as no file is edited after the second digest.   *)
THEOREM RemoteMigrationsAreGuarded == ~EditsAnyTime /\ Spec => RemoteIsRehearsed
<1>1. ASSUME Guarded, [Next]_vars
      PROVE  Guarded'
  <2>1. CASE case' = "guard"
    <3>1. IInv /\ [Migration!Next]_(Migration!vars)
      BY <1>1, <2>1, OnlyGuardSteps DEF Guarded
    <3>2. IInv'
      BY <3>1, Inductive, RecoveryAssumption
    <3>. QED  BY <1>1, <3>2 DEF Guarded
  <2>. QED  BY <1>1, <2>1 DEF Guarded
<1>2. ASSUME Guarded, Next, case = "guard"
      PROVE  /\ Migration!TypeOK /\ Migration!BackedUp
             /\ Migration!Rehearsed /\ Migration!KeepsVerified
  <2>1. IInv /\ ~EditsAnyTime /\ Migration!Next
    BY <1>2 DEF Guarded, Next, BackupStep, GuardStep
  <2>2. Migration!TypeOK
    BY <2>1 DEF IInv
  <2>3. Migration!BackedUp
    BY <2>1, BackedUpSteps DEF Migration!BackedUp
  <2>4. Migration!Rehearsed
    BY <2>1, RehearsedSteps DEF Migration!Rehearsed
  <2>5. Migration!KeepsVerified
    BY <2>1, VerifiedSteps DEF Migration!KeepsVerified
  <2>. QED  BY <2>2, <2>3, <2>4, <2>5
<1>3. Guarded /\ [Next]_vars => Guarded'
  BY <1>1
<1>4. Guarded /\ [Next]_vars =>
        [case = "guard" => /\ Migration!TypeOK /\ Migration!BackedUp
                           /\ Migration!Rehearsed /\ Migration!KeepsVerified]_vars
  BY <1>2
<1>5. ~EditsAnyTime /\ Init => Guarded
  BY GuardedAtFirst
<1>. QED  BY <1>3, <1>4, <1>5, PTL DEF Spec, RemoteIsRehearsed

-----------------------------------------------------------------------------
(* Backups.                                                                *)

(* One ledger that may do what any of the three may.                       *)
Common == INSTANCE Backups WITH TxIds <- TxIds \cup FewTxIds, MaxEdits <- MaxChanges + PlanChanges

-----------------------------------------------------------------------------
(* A sound ledger, table by table.                                         *)

Names9 == {"categories", "budgets", "rules", "subs", "txs", "occs", "audits", "batches", "rows"}

(* An optional reference leads into a table.                               *)
Leads(value, table) == \A i \in DOMAIN value : value[i] \in DOMAIN table

Linked(d) ==
    /\ \A k \in DOMAIN d.budgets : k[1] \in DOMAIN d.categories
    /\ \A m \in DOMAIN d.rules : d.rules[m].category \in DOMAIN d.categories
    /\ \A p \in DOMAIN d.subs : d.subs[p].category \in DOMAIN d.categories
    /\ \A t \in DOMAIN d.txs : /\ Leads(d.txs[t].category, d.categories)
                               /\ Leads(d.txs[t].rule, d.rules)
                               /\ Leads(d.txs[t].pending, d.txs)
    /\ \A k \in DOMAIN d.occs : k[1] \in DOMAIN d.subs /\ d.occs[k].tx \in DOMAIN d.txs
    /\ \A n \in DOMAIN d.audits :
          /\ d.audits[n].tx \in DOMAIN d.txs
          /\ Leads(d.audits[n].old, d.categories) /\ Leads(d.audits[n].new, d.categories)
          /\ Leads(d.audits[n].oldRule, d.rules) /\ Leads(d.audits[n].newRule, d.rules)
    /\ \A k \in DOMAIN d.rows : k[1] \in DOMAIN d.batches /\ Leads(d.rows[k].tx, d.txs)

(* Names and system categories are unique, and kinds known.                *)
CategoriesFit(cs) ==
    /\ \A c, e \in DOMAIN cs : cs[c].name = cs[e].name => c = e
    /\ \A c, e \in DOMAIN cs : cs[c].system = cs[e].system /\ cs[c].system # <<>> => c = e
    /\ {cs[c].system : c \in DOMAIN cs} \ {<<>>} = {<<"TRANSFER">>, <<"UNCLASSIFIED">>}
    /\ \A c \in DOMAIN cs : IF cs[c].system # <<>> THEN cs[c].system = <<cs[c].kind>>
                            ELSE cs[c].kind \in {"INCOME", "EXPENSE", "TRANSFER"}

Spends(d) ==
    /\ \A k \in DOMAIN d.budgets : d.categories[k[1]].kind = "EXPENSE"
    /\ \A p \in DOMAIN d.subs : d.categories[d.subs[p].category].kind = "EXPENSE"

TxFields == {"source", "date", "direction", "amount", "reimbursed", "status", "category", "rule",
             "fingerprint", "group", "pending"}

IsTx(row) ==
    /\ DOMAIN row = TxFields /\ row.amount \in Int /\ row.reimbursed \in Int
    /\ row.source = "CSV" => row.fingerprint # <<>>
    /\ row.rule # <<>> => row.category # <<>>

InGroup(txs, id) == {t \in DOMAIN txs : txs[t].group # <<>> /\ txs[t].group[1].id = id}

GroupFits(txs, t) ==
    txs[t].group # <<>> =>
        LET all == InGroup(txs, txs[t].group[1].id) IN
        /\ txs[t].group[1].id \in DOMAIN txs
        /\ Cardinality(all) = txs[t].group[1].count
        /\ {txs[s].group[1].number : s \in all} = 1..txs[t].group[1].count
        /\ \A s \in all : txs[s].group[1].count = txs[t].group[1].count

Acyclic(txs) ==
    \A some \in (SUBSET DOMAIN txs) \ {{}} :
        \E t \in some : \A i \in DOMAIN txs[t].pending : txs[t].pending[i] \notin some

TxsFit(txs) ==
    /\ \A t \in DOMAIN txs : IsTx(txs[t]) /\ GroupFits(txs, t)
    /\ \A t, u \in DOMAIN txs : txs[t].fingerprint = txs[u].fingerprint /\ txs[t].fingerprint # <<>> => t = u
    /\ Acyclic(txs)

OccsFit(occs, txs) ==
    /\ \A k, l \in DOMAIN occs : occs[k].tx = occs[l].tx => k = l
    /\ \A k \in DOMAIN occs :
          /\ DOMAIN occs[k] = {"tx", "status", "decided"}
          /\ txs[occs[k].tx].source = "MANUAL" /\ txs[occs[k].tx].group = <<>>
          /\ IF occs[k].status = "GENERATED" THEN ~occs[k].decided /\ txs[occs[k].tx].status = "POSTED"
             ELSE occs[k].decided /\ txs[occs[k].tx].status = "REMOVED"

RowsFit(rows) ==
    /\ \A k, l \in DOMAIN rows :
          Common!Merged(rows[k]) /\ Common!Merged(rows[l]) /\ rows[k].tx = rows[l].tx => k = l
    /\ \A k \in DOMAIN rows :
          /\ rows[k].resolution = "IMPORTED_NEW" \/ Common!Merged(rows[k]) => rows[k].tx # <<>>
          /\ Common!Merged(rows[k]) => rows[k].evidence

(* A file's fingerprint is given by its commit.                            *)
FilesFit(txs, batches) ==
    /\ \A f \in DOMAIN batches : f \in Files /\ DOMAIN batches[f] = {"status"}
    /\ \A t \in DOMAIN txs, f \in Files :
          txs[t].fingerprint = <<f>> => f \in DOMAIN batches /\ batches[f].status = "COMMITTED"

Finite(d) == \A t \in Names9 : IsFiniteSet(DOMAIN d[t])

Sound(d) ==
    /\ DOMAIN d = Names9 /\ Finite(d)
    /\ Linked(d) /\ CategoriesFit(d.categories) /\ Spends(d)
    /\ TxsFit(d.txs) /\ OccsFit(d.occs, d.txs) /\ RowsFit(d.rows) /\ FilesFit(d.txs, d.batches)

-----------------------------------------------------------------------------
(* The tables, and what the restore asks of them.                          *)

LEMMA TablesAre == Common!Tables = Names9
<1>1. DOMAIN Common!Order = 1..9
  BY DEF Common!Order
<1>2. Common!Tables = {Common!Order[i] : i \in 1..9}
  BY <1>1 DEF Common!Tables, Common!ToSet
<1>3. /\ Common!Order[1] = "categories" /\ Common!Order[2] = "budgets" /\ Common!Order[3] = "rules"
      /\ Common!Order[4] = "subs" /\ Common!Order[5] = "txs" /\ Common!Order[6] = "occs"
      /\ Common!Order[7] = "audits" /\ Common!Order[8] = "batches" /\ Common!Order[9] = "rows"
  BY DEF Common!Order
<1>4. \A i \in 1..9 : i = 1 \/ i = 2 \/ i = 3 \/ i = 4 \/ i = 5 \/ i = 6 \/ i = 7 \/ i = 8 \/ i = 9
  OBVIOUS
<1>5. \A i \in 1..9 : Common!Order[i] \in Names9
  BY <1>3, <1>4 DEF Names9
<1>6. \A n \in Names9 : \E i \in 1..9 : n = Common!Order[i]
  BY <1>3 DEF Names9
<1>. QED
  BY <1>2, <1>5, <1>6

LEMMA OptionalLeads ==
  ASSUME NEW value, NEW d, NEW t
  PROVE  (\A r \in Common!Optional(t, value) : r[2] \in DOMAIN d[r[1]]) <=> Leads(value, d[t])
<1>1. Common!Optional(t, value) = {<<t, value[i]>> : i \in DOMAIN value}
  BY DEF Common!Optional, Common!ToSet
<1>2. \A i \in DOMAIN value : <<t, value[i]>>[1] = t /\ <<t, value[i]>>[2] = value[i]
  OBVIOUS
<1>. QED
  BY <1>1, <1>2 DEF Leads

LEMMA LinksAre ==
  ASSUME NEW d
  PROVE  Common!Resolves(d) <=> Linked(d)
<1> DEFINE In(r) == r[2] \in DOMAIN d[r[1]]
           All(t) == \A k \in DOMAIN d[t] : \A r \in Common!References(t, k, d[t][k]) : In(r)
<1>1. Common!Resolves(d) <=> \A t \in Names9 : All(t)
  BY TablesAre DEF Common!Resolves
<1>2. All("categories") /\ All("batches")
  BY DEF Common!References
<1>3. All("budgets") <=> \A k \in DOMAIN d.budgets : k[1] \in DOMAIN d.categories
  <2>1. \A k, row : Common!References("budgets", k, row) = {<<"categories", k[1]>>}
    BY DEF Common!References
  <2>2. All("budgets") <=> \A k \in DOMAIN d.budgets : In(<<"categories", k[1]>>)
    BY <2>1
  <2>. QED
    BY <2>2
<1>4. All("rules") <=> \A m \in DOMAIN d.rules : d.rules[m].category \in DOMAIN d.categories
  <2>1. \A k, row : Common!References("rules", k, row) = {<<"categories", row.category>>}
    BY DEF Common!References
  <2>2. All("rules") <=> \A k \in DOMAIN d.rules : In(<<"categories", d.rules[k].category>>)
    BY <2>1
  <2>. QED
    BY <2>2
<1>5. All("subs") <=> \A p \in DOMAIN d.subs : d.subs[p].category \in DOMAIN d.categories
  <2>1. \A k, row : Common!References("subs", k, row) = {<<"categories", row.category>>}
    BY DEF Common!References
  <2>2. All("subs") <=> \A k \in DOMAIN d.subs : In(<<"categories", d.subs[k].category>>)
    BY <2>1
  <2>. QED
    BY <2>2
<1>6. All("txs") <=> \A t \in DOMAIN d.txs : /\ Leads(d.txs[t].category, d.categories)
                                             /\ Leads(d.txs[t].rule, d.rules)
                                             /\ Leads(d.txs[t].pending, d.txs)
  <2>1. \A k : Common!References("txs", k, d.txs[k]) =
           Common!Optional("categories", d.txs[k].category) \cup Common!Optional("rules", d.txs[k].rule)
             \cup Common!Optional("txs", d.txs[k].pending)
    BY DEF Common!References
  <2>2. All("txs") <=> \A t \in DOMAIN d.txs :
          /\ \A r \in Common!Optional("categories", d.txs[t].category) : In(r)
          /\ \A r \in Common!Optional("rules", d.txs[t].rule) : In(r)
          /\ \A r \in Common!Optional("txs", d.txs[t].pending) : In(r)
    BY <2>1
  <2>. QED
    BY <2>2, OptionalLeads
<1>7. All("occs") <=> \A k \in DOMAIN d.occs : k[1] \in DOMAIN d.subs /\ d.occs[k].tx \in DOMAIN d.txs
  <2>1. \A k, row : Common!References("occs", k, row) = {<<"subs", k[1]>>, <<"txs", row.tx>>}
    BY DEF Common!References
  <2>2. All("occs") <=> \A k \in DOMAIN d.occs : In(<<"subs", k[1]>>) /\ In(<<"txs", d.occs[k].tx>>)
    <3>1. \A a, b : (\A r \in {a, b} : In(r)) <=> In(a) /\ In(b)
      <4> HIDE DEF In
      <4>. QED
        OBVIOUS
    <3>2. \A k \in DOMAIN d.occs : (\A r \in Common!References("occs", k, d.occs[k]) : In(r))
             <=> In(<<"subs", k[1]>>) /\ In(<<"txs", d.occs[k].tx>>)
      <4> HIDE DEF In
      <4>. QED
        BY <2>1, <3>1
    <3>. QED
      BY <3>2
  <2>. QED
    BY <2>2
<1>8. All("audits") <=> \A n \in DOMAIN d.audits :
          /\ d.audits[n].tx \in DOMAIN d.txs
          /\ Leads(d.audits[n].old, d.categories) /\ Leads(d.audits[n].new, d.categories)
          /\ Leads(d.audits[n].oldRule, d.rules) /\ Leads(d.audits[n].newRule, d.rules)
  <2>1. \A k : Common!References("audits", k, d.audits[k]) =
           {<<"txs", d.audits[k].tx>>} \cup Common!Optional("categories", d.audits[k].old)
             \cup Common!Optional("categories", d.audits[k].new)
             \cup Common!Optional("rules", d.audits[k].oldRule) \cup Common!Optional("rules", d.audits[k].newRule)
    BY DEF Common!References
  <2>2. All("audits") <=> \A k \in DOMAIN d.audits :
          /\ In(<<"txs", d.audits[k].tx>>)
          /\ \A r \in Common!Optional("categories", d.audits[k].old) : In(r)
          /\ \A r \in Common!Optional("categories", d.audits[k].new) : In(r)
          /\ \A r \in Common!Optional("rules", d.audits[k].oldRule) : In(r)
          /\ \A r \in Common!Optional("rules", d.audits[k].newRule) : In(r)
    BY <2>1
  <2>. QED
    BY <2>2, OptionalLeads
<1>9. All("rows") <=> \A k \in DOMAIN d.rows : k[1] \in DOMAIN d.batches /\ Leads(d.rows[k].tx, d.txs)
  <2>1. \A k : Common!References("rows", k, d.rows[k]) =
           {<<"batches", k[1]>>} \cup Common!Optional("txs", d.rows[k].tx)
    BY DEF Common!References
  <2>2. All("rows") <=> \A k \in DOMAIN d.rows :
          In(<<"batches", k[1]>>) /\ \A r \in Common!Optional("txs", d.rows[k].tx) : In(r)
    BY <2>1
  <2>. QED
    BY <2>2, OptionalLeads
<1> HIDE DEF All
<1>10. (\A t \in Names9 : All(t)) <=>
          /\ All("budgets") /\ All("rules") /\ All("subs") /\ All("txs") /\ All("occs")
          /\ All("audits") /\ All("rows")
  BY <1>2 DEF Names9
<1>. QED
  BY <1>1, <1>3, <1>4, <1>5, <1>6, <1>7, <1>8, <1>9, <1>10 DEF Linked

LEMMA UniqueAre ==
  ASSUME NEW d
  PROVE  Common!HasUniqueValues(d) <=>
           /\ \A c, e \in DOMAIN d.categories : d.categories[c].name = d.categories[e].name => c = e
           /\ \A c, e \in DOMAIN d.categories :
                 d.categories[c].system = d.categories[e].system /\ d.categories[c].system # <<>> => c = e
           /\ \A t, u \in DOMAIN d.txs :
                 d.txs[t].fingerprint = d.txs[u].fingerprint /\ d.txs[t].fingerprint # <<>> => t = u
           /\ \A k, l \in DOMAIN d.occs : d.occs[k].tx = d.occs[l].tx => k = l
           /\ \A k, l \in DOMAIN d.rows :
                 LET v == IF Common!Merged(d.rows[k]) THEN d.rows[k].tx ELSE <<>>
                     w == IF Common!Merged(d.rows[l]) THEN d.rows[l].tx ELSE <<>>
                 IN  v = w /\ v # <<>> => k = l
<1>1. \A a, b : <<a>> # <<>> /\ (<<a>> = <<b>> <=> a = b)
  OBVIOUS
<1>2. Common!Distinct(d.categories, LAMBDA c : <<c.name>>) <=>
        \A c, e \in DOMAIN d.categories : d.categories[c].name = d.categories[e].name => c = e
  BY <1>1 DEF Common!Distinct, Common!Null
<1>3. Common!Distinct(d.categories, LAMBDA c : c.system) <=>
        \A c, e \in DOMAIN d.categories :
           d.categories[c].system = d.categories[e].system /\ d.categories[c].system # <<>> => c = e
  BY DEF Common!Distinct, Common!Null
<1>4. Common!Distinct(d.txs, LAMBDA t : t.fingerprint) <=>
        \A t, u \in DOMAIN d.txs :
           d.txs[t].fingerprint = d.txs[u].fingerprint /\ d.txs[t].fingerprint # <<>> => t = u
  BY DEF Common!Distinct, Common!Null
<1>5. Common!Distinct(d.occs, LAMBDA o : <<o.tx>>) <=>
        \A k, l \in DOMAIN d.occs : d.occs[k].tx = d.occs[l].tx => k = l
  BY <1>1 DEF Common!Distinct, Common!Null
<1>6. Common!Distinct(d.rows, LAMBDA r : IF Common!Merged(r) THEN r.tx ELSE Common!Null) <=>
        \A k, l \in DOMAIN d.rows :
           LET v == IF Common!Merged(d.rows[k]) THEN d.rows[k].tx ELSE <<>>
               w == IF Common!Merged(d.rows[l]) THEN d.rows[l].tx ELSE <<>>
           IN  v = w /\ v # <<>> => k = l
  BY DEF Common!Distinct, Common!Null
<1>. QED
  BY <1>2, <1>3, <1>4, <1>5, <1>6 DEF Common!HasUniqueValues

(* What the restore accepts is sound, as far as it looks.                   *)
LEMMA AcceptsWhatIs ==
  ASSUME NEW d
  PROVE  Common!Accepts(d) <=>
           /\ Linked(d) /\ CategoriesFit(d.categories) /\ Spends(d)
           /\ \A t \in DOMAIN d.txs :
                 /\ d.txs[t].source = "CSV" => d.txs[t].fingerprint # <<>>
                 /\ d.txs[t].rule # <<>> => d.txs[t].category # <<>>
                 /\ d.txs[t].group # <<>> =>
                       LET all == InGroup(d.txs, d.txs[t].group[1].id) IN
                       /\ Cardinality(all) = d.txs[t].group[1].count
                       /\ {d.txs[s].group[1].number : s \in all} = 1..d.txs[t].group[1].count
                       /\ \A s \in all : d.txs[s].group[1].count = d.txs[t].group[1].count
           /\ \A t, u \in DOMAIN d.txs :
                 d.txs[t].fingerprint = d.txs[u].fingerprint /\ d.txs[t].fingerprint # <<>> => t = u
           /\ Acyclic(d.txs)
           /\ \A k, l \in DOMAIN d.occs : d.occs[k].tx = d.occs[l].tx => k = l
           /\ \A k \in DOMAIN d.occs : Common!IsCharge(d, k)
           /\ \A k, l \in DOMAIN d.rows :
                 LET v == IF Common!Merged(d.rows[k]) THEN d.rows[k].tx ELSE <<>>
                     w == IF Common!Merged(d.rows[l]) THEN d.rows[l].tx ELSE <<>>
                 IN  v = w /\ v # <<>> => k = l
           /\ \A k \in DOMAIN d.rows :
                 /\ d.rows[k].resolution = "IMPORTED_NEW" \/ Common!Merged(d.rows[k]) => d.rows[k].tx # <<>>
                 /\ Common!Merged(d.rows[k]) => d.rows[k].evidence
<1>1. Common!HasSystemCategories(d) <=>
        /\ {d.categories[c].system : c \in DOMAIN d.categories} \ {<<>>} = {<<"TRANSFER">>, <<"UNCLASSIFIED">>}
        /\ \A c \in DOMAIN d.categories :
              IF d.categories[c].system # <<>> THEN d.categories[c].system = <<d.categories[c].kind>>
              ELSE d.categories[c].kind \in {"INCOME", "EXPENSE", "TRANSFER"}
  BY DEF Common!HasSystemCategories, Common!Null, Common!IsSystem, Common!KindIn
<1>2. Common!SpendsOnly(d) <=> Spends(d)
  BY DEF Common!SpendsOnly, Spends, Common!KindIn
<1>3. Common!Identified(d) <=>
        \A t \in DOMAIN d.txs : /\ d.txs[t].source = "CSV" => d.txs[t].fingerprint # <<>>
                                /\ d.txs[t].rule # <<>> => d.txs[t].category # <<>>
  BY DEF Common!Identified, Common!Null
<1>4. \A id : Common!Group(d, id) = InGroup(d.txs, id)
  BY DEF Common!Group, InGroup, Common!Null
<1>5. \A all : Common!Cardinality(all) = Cardinality(all)
  BY DEF Common!Cardinality, Cardinality
<1>6. Common!HasWholeGroups(d) <=>
        \A t \in DOMAIN d.txs : d.txs[t].group # <<>> =>
           LET all == InGroup(d.txs, d.txs[t].group[1].id) IN
           /\ Cardinality(all) = d.txs[t].group[1].count
           /\ {d.txs[s].group[1].number : s \in all} = 1..d.txs[t].group[1].count
           /\ \A s \in all : d.txs[s].group[1].count = d.txs[t].group[1].count
  BY <1>4, <1>5 DEF Common!HasWholeGroups, Common!Null
<1>7. Common!ResolvesRows(d) <=>
        \A k \in DOMAIN d.rows :
           /\ d.rows[k].resolution = "IMPORTED_NEW" \/ Common!Merged(d.rows[k]) => d.rows[k].tx # <<>>
           /\ Common!Merged(d.rows[k]) => d.rows[k].evidence
  BY DEF Common!ResolvesRows, Common!Null
<1>8. Common!HasNoCycle(d) <=> Acyclic(d.txs)
  <2>1. \A t, some : (\A q \in Common!ToSet(d.txs[t].pending) : q \notin some)
                       <=> \A i \in DOMAIN d.txs[t].pending : d.txs[t].pending[i] \notin some
    BY DEF Common!ToSet
  <2>. QED
    BY <2>1 DEF Common!HasNoCycle, Acyclic
<1>. QED
  BY <1>1, <1>2, <1>3, <1>6, <1>7, <1>8, LinksAre, UniqueAre DEF Common!Accepts, CategoriesFit

LEMMA SoundIsAccepted ==
  ASSUME NEW d, Sound(d), Common!ChargesAsScheduled(d)
  PROVE  Common!Accepts(d)
<1>1. \A k \in DOMAIN d.occs : Common!IsCharge(d, k)
  BY DEF Sound, OccsFit, Common!ChargesAsScheduled, Common!IsCharge
<1>2. \A k, l \in DOMAIN d.rows :
         LET v == IF Common!Merged(d.rows[k]) THEN d.rows[k].tx ELSE <<>>
             w == IF Common!Merged(d.rows[l]) THEN d.rows[l].tx ELSE <<>>
         IN  v = w /\ v # <<>> => k = l
  BY DEF Sound, RowsFit
<1>3. /\ Linked(d) /\ CategoriesFit(d.categories) /\ Spends(d)
      /\ TxsFit(d.txs) /\ OccsFit(d.occs, d.txs) /\ RowsFit(d.rows)
  BY DEF Sound
<1>4. \A k, l \in DOMAIN d.occs : d.occs[k].tx = d.occs[l].tx => k = l
  BY <1>3 DEF OccsFit
<1>5. \A k \in DOMAIN d.rows :
         /\ d.rows[k].resolution = "IMPORTED_NEW" \/ Common!Merged(d.rows[k]) => d.rows[k].tx # <<>>
         /\ Common!Merged(d.rows[k]) => d.rows[k].evidence
  BY <1>3 DEF RowsFit
<1>. QED
  BY <1>1, <1>2, <1>3, <1>4, <1>5, AcceptsWhatIs DEF TxsFit, IsTx, GroupFits

(* The first tables are sound.                                             *)
LEMMA FirstIsSound ==
  ASSUME NEW d, Common!Accepts(d), DOMAIN d = Names9, Finite(d),
         DOMAIN d.occs = {}, DOMAIN d.rows = {}, DOMAIN d.batches = {},
         \A t \in DOMAIN d.txs :
            /\ DOMAIN d.txs[t] = TxFields /\ d.txs[t].amount \in Int /\ d.txs[t].reimbursed \in Int
            /\ \A f \in Files : d.txs[t].fingerprint # <<f>>
            /\ d.txs[t].group # <<>> => d.txs[t].group[1].id \in DOMAIN d.txs
  PROVE  Sound(d)
<1>1. TxsFit(d.txs) /\ Linked(d) /\ CategoriesFit(d.categories) /\ Spends(d)
  BY AcceptsWhatIs DEF TxsFit, IsTx, GroupFits
<1>2. OccsFit(d.occs, d.txs) /\ RowsFit(d.rows) /\ FilesFit(d.txs, d.batches)
  BY DEF OccsFit, RowsFit, FilesFit
<1>. QED
  BY <1>1, <1>2 DEF Sound

-----------------------------------------------------------------------------
(* Rows put into the tables keep a ledger sound.                           *)

(* A table is another one with a row put into it.                          *)
HasPut(new, key, row, table) ==
    /\ DOMAIN new = DOMAIN table \cup {key} /\ new[key] = row
    /\ \A k \in DOMAIN table : k # key => new[k] = table[k]
    /\ IsFiniteSet(DOMAIN table) => IsFiniteSet(DOMAIN new)

LEMMA PutIs ==
  ASSUME NEW key, NEW row, NEW table
  PROVE  HasPut(Common!Put(key, row, table), key, row, table)
<1>1. DOMAIN Common!Put(key, row, table) = DOMAIN table \cup {key}
  BY DEF Common!Put, Common!Written
<1>2. IsFiniteSet(DOMAIN table) => IsFiniteSet(DOMAIN table \cup {key})
  BY FS_AddElement
<1>. QED
  BY <1>1, <1>2 DEF HasPut, Common!Put, Common!Written

LEMMA CategoryAdded ==
  ASSUME NEW d, Sound(d), NEW id, id \notin DOMAIN d.categories, NEW row,
         row.kind = "EXPENSE", row.system = <<>>,
         \A c \in DOMAIN d.categories : d.categories[c].name # row.name
  PROVE  Sound([d EXCEPT !.categories = Common!Put(id, row, @)])
<1> DEFINE cs == Common!Put(id, row, d.categories)
           e == [d EXCEPT !.categories = cs]
<1>1. /\ DOMAIN cs = DOMAIN d.categories \cup {id} /\ cs[id] = row
      /\ \A c \in DOMAIN d.categories : cs[c] = d.categories[c]
      /\ IsFiniteSet(DOMAIN cs)
  <2>1. IsFiniteSet(DOMAIN d.categories)
    BY DEF Sound, Finite, Names9
  <2>2. HasPut(cs, id, row, d.categories)
    BY PutIs
  <2> HIDE DEF cs
  <2>. QED
    BY <2>1, <2>2 DEF HasPut
<1> HIDE DEF cs
<1>2. /\ DOMAIN e = Names9 /\ e.categories = cs /\ e.budgets = d.budgets /\ e.rules = d.rules
      /\ e.subs = d.subs /\ e.txs = d.txs /\ e.occs = d.occs /\ e.audits = d.audits
      /\ e.batches = d.batches /\ e.rows = d.rows
  BY DEF Sound, Names9
<1> HIDE DEF e
<1>3. Finite(e)
  BY <1>1, <1>2 DEF Sound, Finite, Names9
<1>4. Linked(e)
  <2>1. \A value : Leads(value, d.categories) => Leads(value, cs)
    BY <1>1 DEF Leads
  <2>. QED
    BY <1>1, <1>2, <2>1 DEF Sound, Linked
<1>5. CategoriesFit(cs)
  <2>1. CategoriesFit(d.categories)
    BY DEF Sound
  <2>2. {cs[c].system : c \in DOMAIN cs} \ {<<>>} = {d.categories[c].system : c \in DOMAIN d.categories} \ {<<>>}
    BY <1>1
  <2>3. \A c, f \in DOMAIN cs : cs[c].name = cs[f].name => c = f
    BY <1>1, <2>1 DEF CategoriesFit
  <2>4. \A c, f \in DOMAIN cs : cs[c].system = cs[f].system /\ cs[c].system # <<>> => c = f
    BY <1>1, <2>1 DEF CategoriesFit
  <2>5. \A c \in DOMAIN cs : IF cs[c].system # <<>> THEN cs[c].system = <<cs[c].kind>>
                              ELSE cs[c].kind \in {"INCOME", "EXPENSE", "TRANSFER"}
    BY <1>1, <2>1 DEF CategoriesFit
  <2>. QED
    BY <2>1, <2>2, <2>3, <2>4, <2>5 DEF CategoriesFit
<1>6. Spends(e)
  BY <1>1, <1>2 DEF Sound, Spends, Linked
<1>7. Sound(e)
  BY <1>2, <1>3, <1>4, <1>5, <1>6 DEF Sound
<1>. QED
  BY <1>7 DEF e, cs

LEMMA BudgetPut ==
  ASSUME NEW d, Sound(d), NEW c \in DOMAIN d.categories, d.categories[c].kind = "EXPENSE",
         NEW m, NEW row
  PROVE  Sound([d EXCEPT !.budgets = Common!Put(<<c, m>>, row, @)])
<1> DEFINE bs == Common!Put(<<c, m>>, row, d.budgets)
           e == [d EXCEPT !.budgets = bs]
<1>1. /\ DOMAIN bs = DOMAIN d.budgets \cup {<<c, m>>} /\ IsFiniteSet(DOMAIN bs)
  <2>1. IsFiniteSet(DOMAIN d.budgets)
    BY DEF Sound, Finite, Names9
  <2>2. HasPut(bs, <<c, m>>, row, d.budgets)
    BY PutIs
  <2> HIDE DEF bs
  <2>. QED
    BY <2>1, <2>2 DEF HasPut
<1> HIDE DEF bs
<1>2. /\ DOMAIN e = Names9 /\ e.categories = d.categories /\ e.budgets = bs /\ e.rules = d.rules
      /\ e.subs = d.subs /\ e.txs = d.txs /\ e.occs = d.occs /\ e.audits = d.audits
      /\ e.batches = d.batches /\ e.rows = d.rows
  BY DEF Sound, Names9
<1> HIDE DEF e
<1>3. Finite(e)
  BY <1>1, <1>2 DEF Sound, Finite, Names9
<1>4. Linked(e) /\ Spends(e)
  BY <1>1, <1>2 DEF Sound, Linked, Spends
<1>5. Sound(e)
  BY <1>2, <1>3, <1>4 DEF Sound
<1>. QED
  BY <1>5 DEF e, bs

LEMMA RulePut ==
  ASSUME NEW d, Sound(d), NEW m, NEW row, row.category \in DOMAIN d.categories
  PROVE  Sound([d EXCEPT !.rules = Common!Put(m, row, @)])
<1> DEFINE rs == Common!Put(m, row, d.rules)
           e == [d EXCEPT !.rules = rs]
<1>1. /\ DOMAIN rs = DOMAIN d.rules \cup {m} /\ rs[m] = row /\ IsFiniteSet(DOMAIN rs)
      /\ \A n \in DOMAIN d.rules : n # m => rs[n] = d.rules[n]
  <2>1. IsFiniteSet(DOMAIN d.rules)
    BY DEF Sound, Finite, Names9
  <2>2. HasPut(rs, m, row, d.rules)
    BY PutIs
  <2> HIDE DEF rs
  <2>. QED
    BY <2>1, <2>2 DEF HasPut
<1> HIDE DEF rs
<1>2. /\ DOMAIN e = Names9 /\ e.categories = d.categories /\ e.budgets = d.budgets /\ e.rules = rs
      /\ e.subs = d.subs /\ e.txs = d.txs /\ e.occs = d.occs /\ e.audits = d.audits
      /\ e.batches = d.batches /\ e.rows = d.rows
  BY DEF Sound, Names9
<1> HIDE DEF e
<1>3. Finite(e)
  BY <1>1, <1>2 DEF Sound, Finite, Names9
<1>4. Linked(e)
  <2>1. \A value : Leads(value, d.rules) => Leads(value, rs)
    BY <1>1 DEF Leads
  <2>2. \A n \in DOMAIN rs : rs[n].category \in DOMAIN d.categories
    BY <1>1 DEF Sound, Linked
  <2>. QED
    BY <1>2, <2>1, <2>2 DEF Sound, Linked
<1>5. Sound(e)
  BY <1>2, <1>3, <1>4 DEF Sound, Spends
<1>. QED
  BY <1>5 DEF e, rs

LEMMA SubPut ==
  ASSUME NEW d, Sound(d), NEW p, NEW row, row.category \in DOMAIN d.categories,
         d.categories[row.category].kind = "EXPENSE"
  PROVE  Sound([d EXCEPT !.subs = Common!Put(p, row, @)])
<1> DEFINE ss == Common!Put(p, row, d.subs)
           e == [d EXCEPT !.subs = ss]
<1>1. /\ DOMAIN ss = DOMAIN d.subs \cup {p} /\ ss[p] = row /\ IsFiniteSet(DOMAIN ss)
      /\ \A n \in DOMAIN d.subs : n # p => ss[n] = d.subs[n]
  <2>1. IsFiniteSet(DOMAIN d.subs)
    BY DEF Sound, Finite, Names9
  <2>2. HasPut(ss, p, row, d.subs)
    BY PutIs
  <2> HIDE DEF ss
  <2>. QED
    BY <2>1, <2>2 DEF HasPut
<1> HIDE DEF ss
<1>2. /\ DOMAIN e = Names9 /\ e.categories = d.categories /\ e.budgets = d.budgets /\ e.rules = d.rules
      /\ e.subs = ss /\ e.txs = d.txs /\ e.occs = d.occs /\ e.audits = d.audits
      /\ e.batches = d.batches /\ e.rows = d.rows
  BY DEF Sound, Names9
<1> HIDE DEF e
<1>3. Finite(e)
  BY <1>1, <1>2 DEF Sound, Finite, Names9
<1>4. Linked(e)
  BY <1>1, <1>2 DEF Sound, Linked
<1>5. Spends(e)
  BY <1>1, <1>2 DEF Sound, Spends
<1>6. Sound(e)
  BY <1>2, <1>3, <1>4, <1>5 DEF Sound
<1>. QED
  BY <1>6 DEF e, ss

LEMMA AuditPut ==
  ASSUME NEW d, Sound(d), NEW n, NEW row, row.tx \in DOMAIN d.txs,
         Leads(row.old, d.categories), Leads(row.new, d.categories),
         Leads(row.oldRule, d.rules), Leads(row.newRule, d.rules)
  PROVE  Sound([d EXCEPT !.audits = Common!Put(n, row, @)])
<1> DEFINE as == Common!Put(n, row, d.audits)
           e == [d EXCEPT !.audits = as]
<1>1. /\ DOMAIN as = DOMAIN d.audits \cup {n} /\ as[n] = row /\ IsFiniteSet(DOMAIN as)
      /\ \A m \in DOMAIN d.audits : m # n => as[m] = d.audits[m]
  <2>1. IsFiniteSet(DOMAIN d.audits)
    BY DEF Sound, Finite, Names9
  <2>2. HasPut(as, n, row, d.audits)
    BY PutIs
  <2> HIDE DEF as
  <2>. QED
    BY <2>1, <2>2 DEF HasPut
<1> HIDE DEF as
<1>2. /\ DOMAIN e = Names9 /\ e.categories = d.categories /\ e.budgets = d.budgets /\ e.rules = d.rules
      /\ e.subs = d.subs /\ e.txs = d.txs /\ e.occs = d.occs /\ e.audits = as
      /\ e.batches = d.batches /\ e.rows = d.rows
  BY DEF Sound, Names9
<1> HIDE DEF e
<1>3. Finite(e)
  BY <1>1, <1>2 DEF Sound, Finite, Names9
<1>4. Linked(e)
  <2>1. \A m \in DOMAIN as :
           /\ as[m].tx \in DOMAIN d.txs
           /\ Leads(as[m].old, d.categories) /\ Leads(as[m].new, d.categories)
           /\ Leads(as[m].oldRule, d.rules) /\ Leads(as[m].newRule, d.rules)
    BY <1>1 DEF Sound, Linked
  <2>. QED
    BY <1>2, <2>1 DEF Sound, Linked
<1>5. Sound(e)
  BY <1>2, <1>3, <1>4 DEF Sound, Spends
<1>. QED
  BY <1>5 DEF e, as

(* New transactions, of a table of their own.                              *)
LEMMA TxsJoin ==
  ASSUME NEW txs, NEW new, TxsFit(txs), TxsFit(new), DOMAIN txs \cap DOMAIN new = {},
         \A t \in DOMAIN new : new[t].pending = <<>>,
         \A t \in DOMAIN new, u \in DOMAIN txs :
            new[t].fingerprint # <<>> => new[t].fingerprint # txs[u].fingerprint
  PROVE  TxsFit(Common!Written(new, txs))
<1> DEFINE ts == Common!Written(new, txs)
<1>1. /\ DOMAIN ts = DOMAIN txs \cup DOMAIN new
      /\ \A t \in DOMAIN txs : ts[t] = txs[t]
      /\ \A t \in DOMAIN new : ts[t] = new[t]
  BY DEF Common!Written
<1> HIDE DEF ts
<1> DEFINE Own(table) == \A t \in DOMAIN table :
              table[t].group # <<>> => table[t].group[1].id \in DOMAIN table
<1>0. Own(txs) /\ Own(new)
  BY DEF TxsFit, GroupFits
<1>2. \A id \in DOMAIN txs : InGroup(ts, id) = InGroup(txs, id)
  BY <1>1, <1>0 DEF InGroup
<1>3. \A id \in DOMAIN new : InGroup(ts, id) = InGroup(new, id)
  BY <1>1, <1>0 DEF InGroup
<1>4. ASSUME NEW t \in DOMAIN txs PROVE GroupFits(ts, t)
  <2>1. GroupFits(txs, t)
    BY DEF TxsFit
  <2>2. \A u \in InGroup(txs, txs[t].group[1].id) : ts[u] = txs[u]
    BY <1>1 DEF InGroup
  <2>. QED
    BY <1>1, <1>2, <2>1, <2>2 DEF GroupFits
<1>5. ASSUME NEW t \in DOMAIN new PROVE GroupFits(ts, t)
  <2>1. GroupFits(new, t)
    BY DEF TxsFit
  <2>2. \A u \in InGroup(new, new[t].group[1].id) : ts[u] = new[u]
    BY <1>1 DEF InGroup
  <2>. QED
    BY <1>1, <1>3, <2>1, <2>2 DEF GroupFits
<1>6. \A t \in DOMAIN ts : IsTx(ts[t])
  BY <1>1 DEF TxsFit
<1>7. \A t, u \in DOMAIN ts : ts[t].fingerprint = ts[u].fingerprint /\ ts[t].fingerprint # <<>> => t = u
  BY <1>1 DEF TxsFit
<1>8. Acyclic(ts)
  <2> SUFFICES ASSUME NEW some \in (SUBSET DOMAIN ts) \ {{}}
               PROVE  \E t \in some : \A i \in DOMAIN ts[t].pending : ts[t].pending[i] \notin some
    BY DEF Acyclic
  <2>1. CASE \E t \in some : t \in DOMAIN new
    <3>1. PICK t \in some : t \in DOMAIN new
      BY <2>1
    <3>2. ts[t].pending = <<>>
      BY <1>1, <3>1
    <3>. QED
      BY <3>1, <3>2
  <2>2. CASE ~ \E t \in some : t \in DOMAIN new
    <3>1. some \in (SUBSET DOMAIN txs) \ {{}}
      BY <1>1, <2>2
    <3>2. PICK t \in some : \A i \in DOMAIN txs[t].pending : txs[t].pending[i] \notin some
      BY <3>1 DEF TxsFit, Acyclic
    <3>. QED
      BY <1>1, <3>1, <3>2
  <2>. QED
    BY <2>1, <2>2
<1>9. TxsFit(ts)
  BY <1>1, <1>4, <1>5, <1>6, <1>7, <1>8 DEF TxsFit
<1>. QED
  BY <1>9 DEF ts

LEMMA TxsAdded ==
  ASSUME NEW d, Sound(d), NEW new, TxsFit(new), IsFiniteSet(DOMAIN new),
         DOMAIN d.txs \cap DOMAIN new = {},
         \A t \in DOMAIN new : /\ new[t].pending = <<>>
                               /\ Leads(new[t].category, d.categories) /\ Leads(new[t].rule, d.rules),
         \A t \in DOMAIN new, u \in DOMAIN d.txs :
            new[t].fingerprint # <<>> => new[t].fingerprint # d.txs[u].fingerprint,
         \A t \in DOMAIN new, f \in Files : new[t].fingerprint = <<f>> =>
            f \in DOMAIN d.batches /\ d.batches[f].status = "COMMITTED"
  PROVE  Sound([d EXCEPT !.txs = Common!Written(new, @)])
<1> DEFINE ts == Common!Written(new, d.txs)
           e == [d EXCEPT !.txs = ts]
<1>1. /\ DOMAIN ts = DOMAIN d.txs \cup DOMAIN new
      /\ \A t \in DOMAIN d.txs : ts[t] = d.txs[t]
      /\ \A t \in DOMAIN new : ts[t] = new[t]
  BY DEF Common!Written
<1>2. TxsFit(ts)
  <2>1. TxsFit(d.txs)
    BY DEF Sound
  <2>. QED
    BY <2>1, TxsJoin
<1> HIDE DEF ts
<1>3. /\ DOMAIN e = Names9 /\ e.categories = d.categories /\ e.budgets = d.budgets /\ e.rules = d.rules
      /\ e.subs = d.subs /\ e.txs = ts /\ e.occs = d.occs /\ e.audits = d.audits
      /\ e.batches = d.batches /\ e.rows = d.rows
  BY DEF Sound, Names9
<1> HIDE DEF e
<1>4. Finite(e)
  <2>1. IsFiniteSet(DOMAIN d.txs)
    BY DEF Sound, Finite, Names9
  <2>2. IsFiniteSet(DOMAIN d.txs \cup DOMAIN new)
    BY <2>1, FS_Union
  <2>. QED
    BY <1>1, <1>3, <2>2 DEF Sound, Finite, Names9
<1>5. Linked(e)
  <2>1. \A value : Leads(value, d.txs) => Leads(value, ts)
    BY <1>1 DEF Leads
  <2>2. \A t \in DOMAIN ts : /\ Leads(ts[t].category, d.categories) /\ Leads(ts[t].rule, d.rules)
                             /\ Leads(ts[t].pending, ts)
    <3>1. Leads(<<>>, ts)
      BY DEF Leads
    <3>. QED
      BY <1>1, <2>1, <3>1 DEF Sound, Linked
  <2>3. Linked(d)
    BY DEF Sound
  <2>. QED
    BY <1>1, <1>3, <2>1, <2>2, <2>3 DEF Linked
<1>6. OccsFit(d.occs, ts)
  BY <1>1 DEF Sound, OccsFit, Linked
<1>7. FilesFit(ts, d.batches)
  BY <1>1 DEF Sound, FilesFit
<1>8. Sound(e)
  BY <1>2, <1>3, <1>4, <1>5, <1>6, <1>7 DEF Sound, Spends
<1>. QED
  BY <1>8 DEF e, ts

(* A transaction rewritten: it stays in its group, and refers to no other   *)
(* pending transaction or file.                                            *)
LEMMA TxRewritten ==
  ASSUME NEW d, Sound(d), NEW t \in DOMAIN d.txs, NEW row, IsTx(row),
         row.group = d.txs[t].group,
         row.pending \in {<<>>, d.txs[t].pending}, row.fingerprint \in {<<>>, d.txs[t].fingerprint},
         Leads(row.category, d.categories), Leads(row.rule, d.rules),
         NEW occs, DOMAIN occs = DOMAIN d.occs, \A k \in DOMAIN occs : occs[k].tx = d.occs[k].tx,
         OccsFit(occs, [d.txs EXCEPT ![t] = row])
  PROVE  Sound([d EXCEPT !.txs[t] = row, !.occs = occs])
<1> DEFINE ts == [d.txs EXCEPT ![t] = row]
           e == [d EXCEPT !.txs[t] = row, !.occs = occs]
<1>1. /\ DOMAIN ts = DOMAIN d.txs /\ ts[t] = row
      /\ \A u \in DOMAIN d.txs : u # t => ts[u] = d.txs[u]
  OBVIOUS
<1>2. /\ DOMAIN e = Names9 /\ e.categories = d.categories /\ e.budgets = d.budgets /\ e.rules = d.rules
      /\ e.subs = d.subs /\ e.txs = ts /\ e.occs = occs /\ e.audits = d.audits
      /\ e.batches = d.batches /\ e.rows = d.rows
  BY DEF Sound, Names9
<1> HIDE DEF ts, e
<1>3. TxsFit(d.txs) /\ Linked(d)
  BY DEF Sound
<1>4. TxsFit(ts)
  <2>1. \A u \in DOMAIN ts : ts[u].group = d.txs[u].group
    BY <1>1
  <2>2. \A id : InGroup(ts, id) = InGroup(d.txs, id)
    BY <1>1, <2>1 DEF InGroup
  <2>3. ASSUME NEW u \in DOMAIN ts PROVE GroupFits(ts, u)
    <3>1. GroupFits(d.txs, u) /\ ts[u].group = d.txs[u].group
      BY <1>1, <1>3, <2>1 DEF TxsFit
    <3>2. \A v \in InGroup(d.txs, d.txs[u].group[1].id) : ts[v].group = d.txs[v].group
      BY <1>1, <2>1 DEF InGroup
    <3>. QED
      BY <1>1, <2>2, <3>1, <3>2 DEF GroupFits
  <2>4. \A u \in DOMAIN ts : IsTx(ts[u])
    BY <1>1, <1>3 DEF TxsFit
  <2>5. \A u, v \in DOMAIN ts : ts[u].fingerprint = ts[v].fingerprint /\ ts[u].fingerprint # <<>> => u = v
    <3>1. \A u \in DOMAIN ts : ts[u].fingerprint \in {<<>>, d.txs[u].fingerprint}
      BY <1>1
    <3>. QED
      BY <1>1, <1>3, <3>1 DEF TxsFit
  <2>6. Acyclic(ts)
    <3>1. \A u \in DOMAIN ts : ts[u].pending \in {<<>>, d.txs[u].pending}
      BY <1>1
    <3>2. DOMAIN <<>> = {}
      OBVIOUS
    <3> SUFFICES ASSUME NEW some \in (SUBSET DOMAIN ts) \ {{}}
                 PROVE  \E u \in some : \A i \in DOMAIN ts[u].pending : ts[u].pending[i] \notin some
      BY DEF Acyclic
    <3>3. PICK u \in some : \A i \in DOMAIN d.txs[u].pending : d.txs[u].pending[i] \notin some
      BY <1>1, <1>3 DEF TxsFit, Acyclic
    <3>. QED
      BY <3>1, <3>2, <3>3
  <2>. QED
    BY <2>3, <2>4, <2>5, <2>6 DEF TxsFit
<1>5. Finite(e)
  BY <1>1, <1>2 DEF Sound, Finite, Names9
<1>6. Linked(e)
  <2>1. \A value : Leads(value, d.txs) <=> Leads(value, ts)
    BY <1>1 DEF Leads
  <2>2. \A u \in DOMAIN ts : /\ Leads(ts[u].category, d.categories) /\ Leads(ts[u].rule, d.rules)
                             /\ Leads(ts[u].pending, ts)
    <3>1. Leads(<<>>, ts)
      BY DEF Leads
    <3>2. Leads(row.pending, ts)
      BY <1>3, <2>1, <3>1 DEF Linked
    <3>. QED
      BY <1>1, <1>3, <2>1, <3>2 DEF Linked
  <2>. QED
    BY <1>1, <1>2, <1>3, <2>1, <2>2 DEF Linked
<1>7. OccsFit(occs, ts)
  BY DEF ts
<1>8. FilesFit(ts, d.batches)
  <2>1. \A f : <<f>> # <<>>
    OBVIOUS
  <2>2. \A u \in DOMAIN ts : ts[u].fingerprint \in {<<>>, d.txs[u].fingerprint}
    BY <1>1
  <2>. QED
    BY <1>1, <2>1, <2>2 DEF Sound, FilesFit
<1>9. Sound(e)
  BY <1>2, <1>4, <1>5, <1>6, <1>7, <1>8 DEF Sound, Spends
<1>. QED
  BY <1>9 DEF e

LEMMA OccAdded ==
  ASSUME NEW d, Sound(d), NEW p \in DOMAIN d.subs, NEW at, <<p, at>> \notin DOMAIN d.occs,
         NEW t \in DOMAIN d.txs, \A k \in DOMAIN d.occs : d.occs[k].tx # t,
         d.txs[t].source = "MANUAL", d.txs[t].group = <<>>, d.txs[t].status = "POSTED"
  PROVE  Sound([d EXCEPT !.occs = Common!Put(<<p, at>>,
                                            [tx |-> t, status |-> "GENERATED", decided |-> FALSE], @)])
<1> DEFINE row == [tx |-> t, status |-> "GENERATED", decided |-> FALSE]
           os == Common!Put(<<p, at>>, row, d.occs)
           e == [d EXCEPT !.occs = os]
<1>1. /\ DOMAIN os = DOMAIN d.occs \cup {<<p, at>>} /\ os[<<p, at>>] = row /\ IsFiniteSet(DOMAIN os)
      /\ \A k \in DOMAIN d.occs : os[k] = d.occs[k]
  <2>1. IsFiniteSet(DOMAIN d.occs)
    BY DEF Sound, Finite, Names9
  <2>2. HasPut(os, <<p, at>>, row, d.occs)
    BY PutIs
  <2> HIDE DEF os
  <2>. QED
    BY <2>1, <2>2 DEF HasPut
<1> HIDE DEF os
<1>2. /\ DOMAIN e = Names9 /\ e.categories = d.categories /\ e.budgets = d.budgets /\ e.rules = d.rules
      /\ e.subs = d.subs /\ e.txs = d.txs /\ e.occs = os /\ e.audits = d.audits
      /\ e.batches = d.batches /\ e.rows = d.rows
  BY DEF Sound, Names9
<1> HIDE DEF e
<1>3. Finite(e)
  BY <1>1, <1>2 DEF Sound, Finite, Names9
<1>4. Linked(e)
  <2>1. Linked(d)
    BY DEF Sound
  <2>2. \A k \in DOMAIN os : k[1] \in DOMAIN d.subs /\ os[k].tx \in DOMAIN d.txs
    BY <1>1, <2>1 DEF Linked
  <2>. QED
    BY <1>2, <2>1, <2>2 DEF Linked
<1>5. OccsFit(os, d.txs)
  <2>1. OccsFit(d.occs, d.txs)
    BY DEF Sound
  <2>. QED
    BY <1>1, <2>1 DEF OccsFit
<1>6. Sound(e)
  BY <1>2, <1>3, <1>4, <1>5 DEF Sound, Spends
<1>. QED
  BY <1>6 DEF e, os

LEMMA BatchAdded ==
  ASSUME NEW d, Sound(d), NEW f \in Files, f \notin DOMAIN d.batches
  PROVE  Sound([d EXCEPT !.batches = Common!Put(f, [status |-> "PREVIEWED"], @)])
<1> DEFINE bs == Common!Put(f, [status |-> "PREVIEWED"], d.batches)
           e == [d EXCEPT !.batches = bs]
<1>1. /\ DOMAIN bs = DOMAIN d.batches \cup {f} /\ bs[f] = [status |-> "PREVIEWED"]
      /\ IsFiniteSet(DOMAIN bs)
      /\ \A g \in DOMAIN d.batches : bs[g] = d.batches[g]
  <2>1. IsFiniteSet(DOMAIN d.batches)
    BY DEF Sound, Finite, Names9
  <2>2. HasPut(bs, f, [status |-> "PREVIEWED"], d.batches)
    BY PutIs
  <2> HIDE DEF bs
  <2>. QED
    BY <2>1, <2>2 DEF HasPut
<1> HIDE DEF bs
<1>2. /\ DOMAIN e = Names9 /\ e.categories = d.categories /\ e.budgets = d.budgets /\ e.rules = d.rules
      /\ e.subs = d.subs /\ e.txs = d.txs /\ e.occs = d.occs /\ e.audits = d.audits
      /\ e.batches = bs /\ e.rows = d.rows
  BY DEF Sound, Names9
<1> HIDE DEF e
<1>3. Finite(e)
  BY <1>1, <1>2 DEF Sound, Finite, Names9
<1>4. Linked(e)
  BY <1>1, <1>2 DEF Sound, Linked
<1>5. FilesFit(d.txs, bs)
  BY <1>1 DEF Sound, FilesFit
<1>6. Sound(e)
  BY <1>2, <1>3, <1>4, <1>5 DEF Sound, Spends
<1>. QED
  BY <1>6 DEF e, bs

LEMMA BatchCommitted ==
  ASSUME NEW d, Sound(d), NEW f \in DOMAIN d.batches
  PROVE  /\ Sound([d EXCEPT !.batches[f].status = "COMMITTED"])
         /\ [d EXCEPT !.batches[f].status = "COMMITTED"].batches[f].status = "COMMITTED"
<1> DEFINE bs == [d.batches EXCEPT ![f].status = "COMMITTED"]
           e == [d EXCEPT !.batches[f].status = "COMMITTED"]
<1>1. /\ DOMAIN bs = DOMAIN d.batches
      /\ \A g \in DOMAIN d.batches : g # f => bs[g] = d.batches[g]
      /\ DOMAIN bs[f] = {"status"} /\ bs[f].status = "COMMITTED"
  BY DEF Sound, FilesFit
<1>2. /\ DOMAIN e = Names9 /\ e.categories = d.categories /\ e.budgets = d.budgets /\ e.rules = d.rules
      /\ e.subs = d.subs /\ e.txs = d.txs /\ e.occs = d.occs /\ e.audits = d.audits
      /\ e.batches = bs /\ e.rows = d.rows
  BY DEF Sound, Names9
<1> HIDE DEF bs, e
<1>3. Finite(e)
  BY <1>1, <1>2 DEF Sound, Finite, Names9
<1>4. Linked(e)
  BY <1>1, <1>2 DEF Sound, Linked
<1>5. FilesFit(d.txs, bs)
  BY <1>1 DEF Sound, FilesFit
<1>6. Sound(e)
  BY <1>2, <1>3, <1>4, <1>5 DEF Sound, Spends
<1>7. e.batches[f].status = "COMMITTED"
  BY <1>1, <1>2
<1>. QED
  BY <1>6, <1>7 DEF e

(* A row that may be written under a key of the rows of files.             *)
RowMayBe(d, key, row) ==
    /\ key[1] \in DOMAIN d.batches /\ Leads(row.tx, d.txs)
    /\ Common!Merged(row) => row.evidence /\ \A k \in DOMAIN d.rows : d.rows[k].tx # row.tx
    /\ row.resolution = "IMPORTED_NEW" \/ Common!Merged(row) => row.tx # <<>>

(* A table has a row under a key, or not, and the rows of another one.     *)
IsOver(rs, key, row, table) ==
    /\ IsFiniteSet(DOMAIN rs)
    /\ \A k \in DOMAIN rs : \/ k = key /\ rs[k] = row
                            \/ k \in DOMAIN table /\ rs[k] = table[k]

LEMMA RowWritten ==
  ASSUME NEW d, Sound(d), NEW key, NEW row, RowMayBe(d, key, row),
         NEW rs, IsOver(rs, key, row, d.rows)
  PROVE  Sound([d EXCEPT !.rows = rs])
<1> DEFINE e == [d EXCEPT !.rows = rs]
<1>a. \A k \in DOMAIN rs : \/ k = key /\ rs[k] = row
                           \/ k \in DOMAIN d.rows /\ rs[k] = d.rows[k]
  BY DEF IsOver
<1>b. IsFiniteSet(DOMAIN rs)
  BY DEF IsOver
<1>1. /\ DOMAIN e = Names9 /\ e.categories = d.categories /\ e.budgets = d.budgets /\ e.rules = d.rules
      /\ e.subs = d.subs /\ e.txs = d.txs /\ e.occs = d.occs /\ e.audits = d.audits
      /\ e.batches = d.batches /\ e.rows = rs
  BY DEF Sound, Names9
<1> HIDE DEF e
<1>2. Finite(e)
  BY <1>1, <1>b DEF Sound, Finite, Names9
<1>3. Linked(e)
  <2>1. Linked(d)
    BY DEF Sound
  <2>2. \A k \in DOMAIN rs : k[1] \in DOMAIN d.batches /\ Leads(rs[k].tx, d.txs)
    BY <1>a, <2>1 DEF Linked, RowMayBe
  <2>. QED
    BY <1>1, <2>1, <2>2 DEF Linked
<1>4. RowsFit(rs)
  <2>1. RowsFit(d.rows)
    BY DEF Sound
  <2>2. ASSUME NEW k \in DOMAIN rs, NEW l \in DOMAIN rs, Common!Merged(rs[k]), Common!Merged(rs[l]),
               rs[k].tx = rs[l].tx
        PROVE  k = l
    BY <1>a, <2>1, <2>2 DEF RowsFit, RowMayBe
  <2>3. \A k \in DOMAIN rs :
           /\ rs[k].resolution = "IMPORTED_NEW" \/ Common!Merged(rs[k]) => rs[k].tx # <<>>
           /\ Common!Merged(rs[k]) => rs[k].evidence
    BY <1>a, <2>1 DEF RowsFit, RowMayBe
  <2>. QED
    BY <2>2, <2>3 DEF RowsFit
<1>5. Sound(e)
  BY <1>1, <1>2, <1>3, <1>4 DEF Sound, Spends
<1>. QED
  BY <1>5 DEF e

(* A transaction edited, which stays what its occurrence says of it.       *)
LEMMA TxEdited ==
  ASSUME NEW d, Sound(d), NEW t \in DOMAIN d.txs, NEW row, IsTx(row),
         row.group = d.txs[t].group, row.pending = d.txs[t].pending,
         row.fingerprint = d.txs[t].fingerprint, row.source = d.txs[t].source,
         row.status = d.txs[t].status,
         Leads(row.category, d.categories), Leads(row.rule, d.rules)
  PROVE  Sound([d EXCEPT !.txs[t] = row])
<1> DEFINE ts == [d.txs EXCEPT ![t] = row]
<1>1. /\ DOMAIN ts = DOMAIN d.txs
      /\ \A u \in DOMAIN d.txs : /\ ts[u].source = d.txs[u].source
                                  /\ ts[u].group = d.txs[u].group /\ ts[u].status = d.txs[u].status
  OBVIOUS
<1> HIDE DEF ts
<1>2. OccsFit(d.occs, ts)
  BY <1>1 DEF Sound, OccsFit, Linked
<1>3. Sound([d EXCEPT !.txs[t] = row, !.occs = d.occs])
  <2>1. /\ DOMAIN d.occs = DOMAIN d.occs /\ \A k \in DOMAIN d.occs : d.occs[k].tx = d.occs[k].tx
        /\ row.pending \in {<<>>, d.txs[t].pending}
        /\ row.fingerprint \in {<<>>, d.txs[t].fingerprint}
        /\ OccsFit(d.occs, [d.txs EXCEPT ![t] = row])
    BY <1>2 DEF ts
  <2>. QED
    BY <2>1, TxRewritten
<1>4. [d EXCEPT !.txs[t] = row, !.occs = d.occs] = [d EXCEPT !.txs[t] = row]
  BY DEF Sound, Names9
<1>. QED
  BY <1>3, <1>4

-----------------------------------------------------------------------------
(* What the owner may do, whatever the ids, names and dates are.           *)

Becomes(tables) == db' = tables

AddsCategory ==
    \E id, row : /\ id \notin DOMAIN db.categories /\ row.kind = "EXPENSE" /\ row.system = <<>>
                 /\ \A c \in DOMAIN db.categories : db.categories[c].name # row.name
                 /\ Becomes([db EXCEPT !.categories = Common!Put(id, row, @)])

SetsBudget ==
    \E c \in DOMAIN db.categories : \E m, row :
        /\ db.categories[c].kind = "EXPENSE"
        /\ Becomes([db EXCEPT !.budgets = Common!Put(<<c, m>>, row, @)])

Plain(source, at, c, rule) == [Common!Transaction(source, at, c) EXCEPT !.rule = rule]

Ruled(rule) == rule = <<>> \/ \E m \in DOMAIN db.rules : rule = <<m>>

RecordsOne ==
    \E c \in DOMAIN db.categories : \E t, at, rule :
        /\ t \notin DOMAIN db.txs /\ Ruled(rule)
        /\ Becomes([db EXCEPT !.txs = Common!Put(t, Plain("MANUAL", at, c, rule), @)])

Installments(ids, id, at, c) ==
    [t \in ids |-> [Common!Transaction("MANUAL", at, c) EXCEPT
        !.group = <<[id |-> id, number |-> Cardinality({s \in ids : s <= t}), count |-> Cardinality(ids)]>>]]

RecordsGroup ==
    \E ids \in SUBSET Nat, c \in DOMAIN db.categories : \E id \in ids : \E at :
        /\ IsFiniteSet(ids) /\ ids \cap DOMAIN db.txs = {}
        /\ Becomes([db EXCEPT !.txs = Common!Written(Installments(ids, id, at, c), @)])

Correct(t, c, rule, n) ==
    LET audit == [tx |-> t, old |-> db.txs[t].category, new |-> <<c>>,
                  oldRule |-> db.txs[t].rule, newRule |-> rule]
        audits == Common!Put(n, audit, db.audits)
        row == [db.txs[t] EXCEPT !.category = <<c>>, !.rule = rule]
    IN  \/ /\ rule = <<>>
           /\ Becomes([db EXCEPT !.audits = audits, !.txs[t] = row])
        \/ \E m : /\ rule = <<m>>
                  /\ Becomes([db EXCEPT !.audits = audits, !.txs[t] = row,
                                        !.rules = Common!Put(m, [category |-> c], @)])

Corrects ==
    \E t \in DOMAIN db.txs, c \in DOMAIN db.categories : \E rule, n : Correct(t, c, rule, n)

EditsTx ==
    \E t \in DOMAIN db.txs : \E row :
        /\ \/ \E at : row = [db.txs[t] EXCEPT !.date = at]
           \/ \E way : row = [db.txs[t] EXCEPT !.direction = way]
           \/ \E part \in Int : row = [db.txs[t] EXCEPT !.reimbursed = part]
        /\ Becomes([db EXCEPT !.txs[t] = row])

Removes ==
    \E t \in DOMAIN db.txs :
        /\ db.txs[t].source = "MANUAL" /\ db.txs[t].status = "POSTED"
        /\ Becomes([db EXCEPT !.txs[t] = [db.txs[t] EXCEPT !.status = "REMOVED"],
                              !.occs = [k \in DOMAIN db.occs |->
                                  IF db.occs[k].tx = t /\ db.occs[k].status = "GENERATED"
                                  THEN [db.occs[k] EXCEPT !.status = "NOT_CHARGED", !.decided = TRUE]
                                  ELSE db.occs[k]]])

AddsSub ==
    \E c \in DOMAIN db.categories : \E p, cutoff :
        /\ db.categories[c].kind = "EXPENSE"
        /\ Becomes([db EXCEPT !.subs = Common!Put(p, [category |-> c, cutoff |-> cutoff], @)])

NewCharge(p, at, t) ==
    /\ <<p, at>> \notin DOMAIN db.occs /\ t \notin DOMAIN db.txs
    /\ Becomes([db EXCEPT !.txs = Common!Put(t, Common!Transaction("MANUAL", at, db.subs[p].category), @),
          !.occs = Common!Put(<<p, at>>, [tx |-> t, status |-> "GENERATED", decided |-> FALSE], @)])

ChargedAgain(p, at, t) ==
    /\ <<p, at>> \in DOMAIN db.occs /\ t = db.occs[<<p, at>>].tx
    /\ Becomes([db EXCEPT !.txs[t] = Common!Transaction("MANUAL", at, db.subs[p].category),
          !.occs = [db.occs EXCEPT ![<<p, at>>] =
                      [db.occs[<<p, at>>] EXCEPT !.status = "GENERATED", !.decided = FALSE]]])

Charge(p, at, t) == NewCharge(p, at, t) \/ ChargedAgain(p, at, t)

Charges == \E p \in DOMAIN db.subs : \E at, t : Charge(p, at, t)

Previews ==
    \E f \in Files :
           /\ f \notin DOMAIN db.batches
           /\ Becomes([db EXCEPT !.batches = Common!Put(f, [status |-> "PREVIEWED"], @),
                 !.rows = Common!Put(<<f, 2>>, [resolution |-> "UNRESOLVED", tx |-> <<>>, evidence |-> FALSE], @)])

Resolved(f, row) == [db EXCEPT !.batches[f].status = "COMMITTED", !.rows[<<f, 2>>] = row]

ImportsNew(f, c, t, at) ==
    /\ t \notin DOMAIN db.txs
    /\ Becomes([Resolved(f, [resolution |-> "IMPORTED_NEW", tx |-> <<t>>, evidence |-> FALSE])
          EXCEPT !.txs = Common!Put(t, [Common!Transaction("CSV", at, c) EXCEPT !.fingerprint = <<f>>], @)])

MergesWith(f, t) ==
    /\ \A k \in DOMAIN db.rows : db.rows[k].tx # <<t>>
    /\ Becomes(Resolved(f, [resolution |-> "OWNER_MERGED", tx |-> <<t>>, evidence |-> TRUE]))

Skips(f) == Becomes(Resolved(f, [resolution |-> "SKIPPED_DUPLICATE", tx |-> <<>>, evidence |-> FALSE]))

Commits ==
    \E f \in DOMAIN db.batches :
        /\ db.batches[f].status = "PREVIEWED"
        /\ \/ \E c \in DOMAIN db.categories : \E t, at : ImportsNew(f, c, t, at)
           \/ \E t \in DOMAIN db.txs : MergesWith(f, t)
           \/ Skips(f)

OwnerStep ==
    \/ AddsCategory \/ SetsBudget \/ RecordsOne \/ RecordsGroup \/ Corrects \/ EditsTx \/ Removes
    \/ AddsSub \/ Charges \/ Previews \/ Commits

LEMMA CategoriesKeep == Sound(db) /\ (AddsCategory \/ SetsBudget \/ AddsSub) => Sound(db')
<1>1. ASSUME Sound(db), AddsCategory PROVE Sound(db')
  <2>1. PICK id, row : /\ id \notin DOMAIN db.categories /\ row.kind = "EXPENSE" /\ row.system = <<>>
                       /\ \A c \in DOMAIN db.categories : db.categories[c].name # row.name
                       /\ db' = [db EXCEPT !.categories = Common!Put(id, row, @)]
    BY <1>1 DEF AddsCategory, Becomes
  <2>. QED
    BY <1>1, <2>1, CategoryAdded
<1>2. ASSUME Sound(db), SetsBudget PROVE Sound(db')
  <2>1. PICK c, m, row :
        /\ c \in DOMAIN db.categories
        /\ db.categories[c].kind = "EXPENSE"
        /\ db' = [db EXCEPT !.budgets = Common!Put(<<c, m>>, row, @)]
    BY <1>2 DEF SetsBudget, Becomes
  <2>. QED
    BY <1>2, <2>1, BudgetPut
<1>3. ASSUME Sound(db), AddsSub PROVE Sound(db')
  <2>1. PICK c, p, cutoff :
        /\ c \in DOMAIN db.categories
        /\ db.categories[c].kind = "EXPENSE"
        /\ db' = [db EXCEPT !.subs = Common!Put(p, [category |-> c, cutoff |-> cutoff], @)]
    BY <1>3 DEF AddsSub, Becomes
  <2>2. [category |-> c, cutoff |-> cutoff].category = c
    OBVIOUS
  <2>. QED
    BY <1>3, <2>1, <2>2, SubPut
<1>. QED
  BY <1>1, <1>2, <1>3 DEF Sound

LEMMA OneTxAdded ==
  ASSUME NEW d, Sound(d), NEW t, t \notin DOMAIN d.txs, NEW row, IsTx(row),
         row.group = <<>>, row.pending = <<>>,
         Leads(row.category, d.categories), Leads(row.rule, d.rules),
         \A u \in DOMAIN d.txs : row.fingerprint # <<>> => row.fingerprint # d.txs[u].fingerprint,
         \A f \in Files : row.fingerprint = <<f>> =>
            f \in DOMAIN d.batches /\ d.batches[f].status = "COMMITTED"
  PROVE  Sound([d EXCEPT !.txs = Common!Put(t, row, @)])
<1> DEFINE new == [k \in {t} |-> row]
<1>1. DOMAIN new = {t} /\ new[t] = row
  OBVIOUS
<1>2. IsFiniteSet(DOMAIN new)
  BY <1>1, FS_Singleton
<1> HIDE DEF new
<1>3. TxsFit(new)
  <2>1. Acyclic(new)
    <3> SUFFICES ASSUME NEW some \in (SUBSET DOMAIN new) \ {{}}
                 PROVE  \E u \in some : \A i \in DOMAIN new[u].pending : new[u].pending[i] \notin some
      BY DEF Acyclic
    <3>1. t \in some /\ DOMAIN new[t].pending = {}
      BY <1>1
    <3>. QED
      BY <3>1
  <2>. QED
    BY <1>1, <2>1 DEF TxsFit, GroupFits
<1>4. Sound([d EXCEPT !.txs = Common!Written(new, @)])
  BY <1>1, <1>2, <1>3, TxsAdded
<1>. QED
  BY <1>4 DEF new, Common!Put

LEMMA PlainIsTx ==
  ASSUME NEW source, source # "CSV", NEW at, NEW c, NEW rule
  PROVE  LET row == Plain(source, at, c, rule) IN
         /\ IsTx(row) /\ row.group = <<>> /\ row.pending = <<>> /\ row.fingerprint = <<>>
         /\ row.category = <<c>> /\ row.rule = rule /\ row.status = "POSTED" /\ row.source = source
BY DEF Plain, Common!Transaction, IsTx, TxFields, Common!Null

LEMMA OneLeads ==
  ASSUME NEW x, NEW table
  PROVE  /\ Leads(<<>>, table)
         /\ Leads(<<x>>, table) <=> x \in DOMAIN table
BY DEF Leads

LEMMA RecordsOneKeeps == Sound(db) /\ RecordsOne => Sound(db')
<1> SUFFICES ASSUME Sound(db), RecordsOne PROVE Sound(db')
  OBVIOUS
<1>0. PICK c \in DOMAIN db.categories : \E t, at, rule :
        /\ t \notin DOMAIN db.txs /\ Ruled(rule)
        /\ Becomes([db EXCEPT !.txs = Common!Put(t, Plain("MANUAL", at, c, rule), @)])
  BY DEF RecordsOne
<1>1. PICK t, at, rule :
        /\ t \notin DOMAIN db.txs /\ Ruled(rule)
        /\ db' = [db EXCEPT !.txs = Common!Put(t, Plain("MANUAL", at, c, rule), @)]
  BY <1>0 DEF Becomes
<1> DEFINE row == Plain("MANUAL", at, c, rule)
<1>2. /\ IsTx(row) /\ row.group = <<>> /\ row.pending = <<>> /\ row.fingerprint = <<>>
      /\ row.category = <<c>> /\ row.rule = rule
  BY PlainIsTx
<1> HIDE DEF row
<1>3. Leads(row.category, db.categories) /\ Leads(row.rule, db.rules)
  BY <1>1, <1>2, OneLeads DEF Ruled
<1>4. \A f : row.fingerprint # <<f>>
  BY <1>2
<1>5. Sound([db EXCEPT !.txs = Common!Put(t, row, @)])
  BY <1>1, <1>2, <1>3, <1>4, OneTxAdded
<1>. QED
  BY <1>1, <1>5 DEF row

LEMMA EditsKeep == Sound(db) /\ EditsTx => Sound(db')
<1> SUFFICES ASSUME Sound(db), EditsTx PROVE Sound(db')
  OBVIOUS
<1>1. PICK t, row :
        /\ t \in DOMAIN db.txs
        /\ \/ \E at : row = [db.txs[t] EXCEPT !.date = at]
           \/ \E way : row = [db.txs[t] EXCEPT !.direction = way]
           \/ \E part \in Int : row = [db.txs[t] EXCEPT !.reimbursed = part]
        /\ db' = [db EXCEPT !.txs[t] = row]
  BY DEF EditsTx, Becomes
<1>2. IsTx(db.txs[t]) /\ Leads(db.txs[t].category, db.categories) /\ Leads(db.txs[t].rule, db.rules)
  BY <1>1 DEF Sound, TxsFit, Linked
<1>3. /\ IsTx(row) /\ row.group = db.txs[t].group /\ row.pending = db.txs[t].pending
      /\ row.fingerprint = db.txs[t].fingerprint /\ row.source = db.txs[t].source
      /\ row.status = db.txs[t].status /\ row.category = db.txs[t].category /\ row.rule = db.txs[t].rule
  BY <1>1, <1>2 DEF IsTx, TxFields
<1>. QED
  BY <1>1, <1>2, <1>3, TxEdited

LEMMA CorrectsKeep == Sound(db) /\ Corrects => Sound(db')
<1> SUFFICES ASSUME Sound(db), Corrects PROVE Sound(db')
  OBVIOUS
<1>0. PICK t \in DOMAIN db.txs, c \in DOMAIN db.categories : \E rule, n : Correct(t, c, rule, n)
  BY DEF Corrects
<1>1. PICK rule, n : Correct(t, c, rule, n)
  BY <1>0
<1> DEFINE audit == [tx |-> t, old |-> db.txs[t].category, new |-> <<c>>,
                     oldRule |-> db.txs[t].rule, newRule |-> rule]
           audits == Common!Put(n, audit, db.audits)
           row == [db.txs[t] EXCEPT !.category = <<c>>, !.rule = rule]
<1>2. IsTx(db.txs[t]) /\ Leads(db.txs[t].category, db.categories) /\ Leads(db.txs[t].rule, db.rules)
  BY DEF Sound, TxsFit, Linked
<1>3. /\ IsTx(row) /\ row.group = db.txs[t].group /\ row.pending = db.txs[t].pending
      /\ row.fingerprint = db.txs[t].fingerprint /\ row.source = db.txs[t].source
      /\ row.status = db.txs[t].status /\ row.category = <<c>> /\ row.rule = rule
  BY <1>2 DEF IsTx, TxFields
<1>4. /\ audit.tx = t /\ audit.old = db.txs[t].category /\ audit.new = <<c>>
      /\ audit.oldRule = db.txs[t].rule /\ audit.newRule = rule
  OBVIOUS
<1> HIDE DEF row, audit
<1>5. ASSUME NEW d, Sound(d), d.categories = db.categories, d.txs = db.txs, d.audits = db.audits,
             Leads(rule, d.rules), \A value : Leads(value, db.rules) => Leads(value, d.rules)
      PROVE  Sound([[d EXCEPT !.audits = audits] EXCEPT !.txs[t] = row])
  <2>1. Leads(<<c>>, d.categories)
    BY <1>5, OneLeads
  <2>2. Sound([d EXCEPT !.audits = Common!Put(n, audit, @)])
    BY <1>2, <1>4, <1>5, <2>1, AuditPut
  <2> DEFINE e == [d EXCEPT !.audits = audits]
  <2>3. Sound(e)
    BY <1>5, <2>2
  <2>4. e.txs = d.txs /\ e.categories = d.categories /\ e.rules = d.rules
    BY <1>5 DEF Sound, Names9
  <2> HIDE DEF e
  <2>5. Sound([e EXCEPT !.txs[t] = row])
    BY <1>3, <1>5, <2>1, <2>3, <2>4, TxEdited
  <2>. QED
    BY <2>5 DEF e
<1>6. CASE rule = <<>> /\ db' = [db EXCEPT !.audits = audits, !.txs[t] = row]
  <2>1. Sound([[db EXCEPT !.audits = audits] EXCEPT !.txs[t] = row])
    BY <1>5, <1>6, OneLeads
  <2>2. [[db EXCEPT !.audits = audits] EXCEPT !.txs[t] = row] = [db EXCEPT !.audits = audits, !.txs[t] = row]
    BY DEF Sound, Names9
  <2>. QED
    BY <1>6, <2>1, <2>2
<1>7. ASSUME NEW m, rule = <<m>>,
             db' = [db EXCEPT !.audits = audits, !.txs[t] = row, !.rules = Common!Put(m, [category |-> c], @)]
      PROVE  Sound(db')
  <2> DEFINE rules == Common!Put(m, [category |-> c], db.rules)
             d == [db EXCEPT !.rules = rules]
  <2>1. HasPut(rules, m, [category |-> c], db.rules)
    BY PutIs
  <2>2. Sound(d)
    <3>1. [category |-> c].category = c
      OBVIOUS
    <3>. QED
      BY <3>1, RulePut
  <2> HIDE DEF rules
  <2>3. d.categories = db.categories /\ d.txs = db.txs /\ d.audits = db.audits /\ d.rules = rules
    BY DEF Sound, Names9
  <2>4. Leads(rule, d.rules) /\ \A value : Leads(value, db.rules) => Leads(value, d.rules)
    BY <1>7, <2>1, <2>3, OneLeads DEF HasPut, Leads
  <2> HIDE DEF d
  <2>5. Sound([[d EXCEPT !.audits = audits] EXCEPT !.txs[t] = row])
    BY <1>5, <2>2, <2>3, <2>4
  <2>6. [[d EXCEPT !.audits = audits] EXCEPT !.txs[t] = row]
          = [db EXCEPT !.audits = audits, !.txs[t] = row, !.rules = rules]
    BY DEF d, Sound, Names9
  <2>. QED
    BY <1>7, <2>5, <2>6 DEF rules
<1>. QED
  BY <1>1, <1>6, <1>7 DEF row, audit, Correct, Becomes

LEMMA RemovesKeep == Sound(db) /\ Removes => Sound(db')
<1> SUFFICES ASSUME Sound(db), Removes PROVE Sound(db')
  OBVIOUS
<1>1. PICK t \in DOMAIN db.txs :
        /\ db.txs[t].source = "MANUAL" /\ db.txs[t].status = "POSTED"
        /\ db' = [db EXCEPT !.txs[t] = [db.txs[t] EXCEPT !.status = "REMOVED"],
                            !.occs = [k \in DOMAIN db.occs |->
                                  IF db.occs[k].tx = t /\ db.occs[k].status = "GENERATED"
                                  THEN [db.occs[k] EXCEPT !.status = "NOT_CHARGED", !.decided = TRUE]
                                  ELSE db.occs[k]]]
  BY DEF Removes, Becomes
<1> DEFINE row == [db.txs[t] EXCEPT !.status = "REMOVED"]
           occs == [k \in DOMAIN db.occs |->
                      IF db.occs[k].tx = t /\ db.occs[k].status = "GENERATED"
                      THEN [db.occs[k] EXCEPT !.status = "NOT_CHARGED", !.decided = TRUE]
                      ELSE db.occs[k]]
           ts == [db.txs EXCEPT ![t] = row]
<1>2. IsTx(db.txs[t]) /\ Leads(db.txs[t].category, db.categories) /\ Leads(db.txs[t].rule, db.rules)
  BY DEF Sound, TxsFit, Linked
<1>3. /\ IsTx(row) /\ row.group = db.txs[t].group /\ row.pending = db.txs[t].pending
      /\ row.fingerprint = db.txs[t].fingerprint /\ row.source = db.txs[t].source
      /\ row.status = "REMOVED" /\ row.category = db.txs[t].category /\ row.rule = db.txs[t].rule
  BY <1>2 DEF IsTx, TxFields
<1>4. OccsFit(db.occs, db.txs)
  BY DEF Sound
<1>5. /\ DOMAIN occs = DOMAIN db.occs
      /\ \A k \in DOMAIN occs : /\ occs[k].tx = db.occs[k].tx
                                /\ DOMAIN occs[k] = {"tx", "status", "decided"}
                                /\ IF db.occs[k].tx = t
                                   THEN occs[k].status # "GENERATED" /\ occs[k].decided
                                   ELSE occs[k] = db.occs[k]
  BY <1>1, <1>4 DEF OccsFit
<1>6. /\ DOMAIN ts = DOMAIN db.txs /\ ts[t] = row
      /\ \A u \in DOMAIN db.txs : u # t => ts[u] = db.txs[u]
  OBVIOUS
<1> HIDE DEF row, occs, ts
<1>7. OccsFit(occs, ts)
  <2>1. \A k \in DOMAIN occs : db.occs[k].tx \in DOMAIN db.txs
    BY <1>5 DEF Sound, Linked
  <2>2. \A k, l \in DOMAIN occs : occs[k].tx = occs[l].tx => k = l
    BY <1>4, <1>5 DEF OccsFit
  <2>3. ASSUME NEW k \in DOMAIN occs
        PROVE  /\ ts[occs[k].tx].source = "MANUAL" /\ ts[occs[k].tx].group = <<>>
               /\ IF occs[k].status = "GENERATED" THEN ~occs[k].decided /\ ts[occs[k].tx].status = "POSTED"
                  ELSE occs[k].decided /\ ts[occs[k].tx].status = "REMOVED"
    BY <1>3, <1>4, <1>5, <1>6, <2>1 DEF OccsFit
  <2>. QED
    BY <1>5, <2>2, <2>3 DEF OccsFit
<1>8. Sound([db EXCEPT !.txs[t] = row, !.occs = occs])
  BY <1>2, <1>3, <1>5, <1>7, TxRewritten DEF ts
<1>. QED
  BY <1>1, <1>8 DEF row, occs

LEMMA ChargesKeep == Sound(db) /\ Charges => Sound(db')
<1> SUFFICES ASSUME Sound(db), Charges PROVE Sound(db')
  OBVIOUS
<1>1. PICK p \in DOMAIN db.subs : \E at, t : Charge(p, at, t)
  BY DEF Charges
<1>2. PICK at, t : Charge(p, at, t)
  BY <1>1
<1> DEFINE row == Common!Transaction("MANUAL", at, db.subs[p].category)
<1>3. /\ IsTx(row) /\ row.group = <<>> /\ row.pending = <<>> /\ row.fingerprint = <<>> /\ row.rule = <<>>
      /\ row.category = <<db.subs[p].category>> /\ row.source = "MANUAL" /\ row.status = "POSTED"
  BY DEF Common!Transaction, IsTx, TxFields, Common!Null
<1> HIDE DEF row
<1>4. Leads(row.category, db.categories) /\ Leads(row.rule, db.rules)
  BY <1>3, OneLeads DEF Sound, Linked
<1>5. CASE NewCharge(p, at, t)
  <2> DEFINE ts == Common!Put(t, row, db.txs)
             d == [db EXCEPT !.txs = ts]
             os == Common!Put(<<p, at>>, [tx |-> t, status |-> "GENERATED", decided |-> FALSE], db.occs)
  <2>1. t \notin DOMAIN db.txs /\ <<p, at>> \notin DOMAIN db.occs
    BY <1>5 DEF NewCharge
  <2>2. Sound(d)
    <3>1. \A f : row.fingerprint # <<f>>
      BY <1>3
    <3>. QED
      BY <1>3, <1>4, <2>1, <3>1, OneTxAdded
  <2>3. HasPut(ts, t, row, db.txs)
    BY PutIs
  <2> HIDE DEF ts
  <2>4. d.subs = db.subs /\ d.occs = db.occs /\ d.txs = ts
    BY DEF Sound, Names9
  <2>5. \A k \in DOMAIN d.occs : d.occs[k].tx # t
    BY <2>1, <2>4 DEF Sound, Linked
  <2>6. t \in DOMAIN d.txs /\ d.txs[t] = row
    BY <2>3, <2>4 DEF HasPut
  <2>7. d = [db EXCEPT !.txs = ts]
    OBVIOUS
  <2> HIDE DEF d
  <2>8. Sound([d EXCEPT !.occs = os])
    <3>1. Sound([d EXCEPT !.occs = Common!Put(<<p, at>>,
                                    [tx |-> t, status |-> "GENERATED", decided |-> FALSE], @)])
      BY <1>3, <2>1, <2>2, <2>4, <2>5, <2>6, OccAdded
    <3>. QED
      BY <2>4, <3>1
  <2> HIDE DEF os
  <2>9. [d EXCEPT !.occs = os] = [db EXCEPT !.txs = ts, !.occs = os]
    BY <2>7 DEF Sound, Names9
  <2>10. db' = [db EXCEPT !.txs = ts, !.occs = os]
    BY <1>5 DEF NewCharge, Becomes, ts, os, row
  <2>. QED
    BY <2>8, <2>9, <2>10
<1>6. CASE ChargedAgain(p, at, t)
  <2> DEFINE os == [db.occs EXCEPT ![<<p, at>>] =
                      [db.occs[<<p, at>>] EXCEPT !.status = "GENERATED", !.decided = FALSE]]
             ts == [db.txs EXCEPT ![t] = row]
             key == <<p, at>>
  <2>1. key \in DOMAIN db.occs /\ t = db.occs[key].tx
    BY <1>6 DEF ChargedAgain
  <2>2. OccsFit(db.occs, db.txs) /\ t \in DOMAIN db.txs /\ \A k \in DOMAIN db.occs : db.occs[k].tx \in DOMAIN db.txs
    BY <2>1 DEF Sound, Linked
  <2>3. db.txs[t].group = <<>>
    BY <2>1, <2>2 DEF OccsFit
  <2> HIDE DEF key
  <2>4. DOMAIN os = DOMAIN db.occs
    OBVIOUS
  <2>a. \A k \in DOMAIN db.occs : k # key => os[k] = db.occs[k]
    BY <2>4 DEF key
  <2>b. /\ os[key].tx = t /\ DOMAIN os[key] = {"tx", "status", "decided"}
        /\ os[key].status = "GENERATED" /\ ~os[key].decided
    <3>1. os[key] = [db.occs[key] EXCEPT !.status = "GENERATED", !.decided = FALSE]
      BY <2>1 DEF key
    <3>2. DOMAIN db.occs[key] = {"tx", "status", "decided"}
      BY <2>1, <2>2 DEF OccsFit
    <3> HIDE DEF os, key
    <3>. QED
      BY <2>1, <3>1, <3>2
  <2>5. /\ ts[t] = row /\ \A u \in DOMAIN db.txs : u # t => ts[u] = db.txs[u]
    BY <2>2
  <2> HIDE DEF os, ts
  <2>c. \A k, l \in DOMAIN db.occs : db.occs[k].tx = db.occs[l].tx => k = l
    BY <2>2 DEF OccsFit
  <2>d. \A k \in DOMAIN os : os[k].tx = db.occs[k].tx /\ DOMAIN os[k] = {"tx", "status", "decided"}
    <3>1. \A k \in DOMAIN db.occs : DOMAIN db.occs[k] = {"tx", "status", "decided"}
      BY <2>2 DEF OccsFit
    <3>. QED
      BY <2>1, <2>4, <2>a, <2>b, <3>1
  <2>6. \A k \in DOMAIN os : k # key => os[k].tx # t
    BY <2>1, <2>4, <2>c, <2>d
  <2>7. \A k, l \in DOMAIN os : os[k].tx = os[l].tx => k = l
    BY <2>4, <2>c, <2>d
  <2>8. ASSUME NEW k \in DOMAIN os
        PROVE  /\ ts[os[k].tx].source = "MANUAL" /\ ts[os[k].tx].group = <<>>
               /\ IF os[k].status = "GENERATED" THEN ~os[k].decided /\ ts[os[k].tx].status = "POSTED"
                  ELSE os[k].decided /\ ts[os[k].tx].status = "REMOVED"
    <3>1. CASE k = key
      BY <1>3, <2>b, <2>5, <3>1
    <3>2. CASE k # key
      <4>1. os[k] = db.occs[k] /\ os[k].tx # t
        BY <2>4, <2>a, <2>6, <3>2
      <4>2. ts[os[k].tx] = db.txs[db.occs[k].tx]
        BY <2>2, <2>4, <2>5, <4>1
      <4>. QED
        BY <2>2, <2>4, <4>1, <4>2 DEF OccsFit
    <3>. QED
      BY <3>1, <3>2
  <2>9. OccsFit(os, ts)
    BY <2>d, <2>7, <2>8 DEF OccsFit
  <2>10. Sound([db EXCEPT !.txs[t] = row, !.occs = os])
    <3>1. /\ row.group = db.txs[t].group /\ row.pending \in {<<>>, db.txs[t].pending}
          /\ row.fingerprint \in {<<>>, db.txs[t].fingerprint}
      BY <1>3, <2>3
    <3>2. \A k \in DOMAIN os : os[k].tx = db.occs[k].tx
      BY <2>d
    <3>3. OccsFit(os, [db.txs EXCEPT ![t] = row])
      BY <2>9 DEF ts
    <3>. QED
      BY <1>3, <1>4, <2>2, <2>4, <3>1, <3>2, <3>3, TxRewritten
  <2>. QED
    BY <1>6, <2>10 DEF ChargedAgain, Becomes, row, os
<1>. QED
  BY <1>2, <1>5, <1>6 DEF Charge

LEMMA PreviewsKeep == Sound(db) /\ Previews => Sound(db')
<1> SUFFICES ASSUME Sound(db), Previews PROVE Sound(db')
  OBVIOUS
<1> DEFINE row == [resolution |-> "UNRESOLVED", tx |-> <<>>, evidence |-> FALSE]
<1>1. PICK f \in Files :
        /\ f \notin DOMAIN db.batches
        /\ db' = [db EXCEPT !.batches = Common!Put(f, [status |-> "PREVIEWED"], @),
                            !.rows = Common!Put(<<f, 2>>, row, @)]
  BY DEF Previews, Becomes
<1> DEFINE bs == Common!Put(f, [status |-> "PREVIEWED"], db.batches)
           rs == Common!Put(<<f, 2>>, row, db.rows)
           d == [db EXCEPT !.batches = bs]
<1>2. ~Common!Merged(row) /\ row.tx = <<>> /\ row.resolution # "IMPORTED_NEW"
  BY DEF Common!Merged
<1> HIDE DEF row
<1>3. HasPut(bs, f, [status |-> "PREVIEWED"], db.batches) /\ HasPut(rs, <<f, 2>>, row, db.rows)
  BY PutIs
<1>4. Sound(d)
  BY <1>1, BatchAdded
<1> HIDE DEF bs, rs
<1>5. d.batches = bs /\ d.rows = db.rows /\ d.txs = db.txs
  BY DEF Sound, Names9
<1>6. [d EXCEPT !.rows = rs] = [db EXCEPT !.batches = bs, !.rows = rs]
  BY DEF Sound, Names9
<1> HIDE DEF d
<1>7. RowMayBe(d, <<f, 2>>, row)
  BY <1>2, <1>3, <1>5, OneLeads DEF RowMayBe, HasPut
<1>8. IsOver(rs, <<f, 2>>, row, d.rows)
  BY <1>3, <1>5 DEF HasPut, IsOver, Sound, Finite, Names9
<1>9. Sound([d EXCEPT !.rows = rs])
  BY <1>4, <1>7, <1>8, RowWritten
<1>. QED
  BY <1>1, <1>6, <1>9 DEF bs, rs, row

LEMMA CommitsKeep == Sound(db) /\ Commits => Sound(db')
<1> SUFFICES ASSUME Sound(db), Commits PROVE Sound(db')
  OBVIOUS
<1>1. PICK f \in DOMAIN db.batches :
        /\ db.batches[f].status = "PREVIEWED"
        /\ \/ \E c \in DOMAIN db.categories : \E t, at : ImportsNew(f, c, t, at)
           \/ \E t \in DOMAIN db.txs : MergesWith(f, t)
           \/ Skips(f)
  BY DEF Commits
<1> DEFINE d == [db EXCEPT !.batches[f].status = "COMMITTED"]
           key == <<f, 2>>
           Over(row) == [db.rows EXCEPT ![key] = row]
<1>2. Sound(d) /\ d.batches[f].status = "COMMITTED"
  BY BatchCommitted
<1>3. /\ d.categories = db.categories /\ d.txs = db.txs /\ d.rows = db.rows /\ d.rules = db.rules
      /\ DOMAIN d.batches = DOMAIN db.batches /\ DOMAIN d = DOMAIN db
  BY DEF Sound, Names9
<1>4. \A row : Resolved(f, row) = [d EXCEPT !.rows = Over(row)]
  BY DEF Resolved
<1>5. key[1] = f
  OBVIOUS
<1> HIDE DEF key, d
<1>6. \A row : IsOver(Over(row), key, row, db.rows)
  BY DEF IsOver, Sound, Finite, Names9
<1> HIDE DEF Over
<1>7. ASSUME NEW row, RowMayBe(d, key, row)
      PROVE  Sound(Resolved(f, row))
  BY <1>2, <1>3, <1>4, <1>6, <1>7, RowWritten
<1>8. CASE Skips(f)
  <2> DEFINE row == [resolution |-> "SKIPPED_DUPLICATE", tx |-> <<>>, evidence |-> FALSE]
  <2>1. ~Common!Merged(row) /\ row.tx = <<>> /\ row.resolution # "IMPORTED_NEW"
    BY DEF Common!Merged
  <2> HIDE DEF row
  <2>2. RowMayBe(d, key, row)
    BY <1>3, <1>5, <2>1, OneLeads DEF RowMayBe
  <2>. QED
    BY <1>7, <1>8, <2>2 DEF Skips, Becomes, row
<1>9. ASSUME NEW t \in DOMAIN db.txs, MergesWith(f, t)
      PROVE  Sound(db')
  <2> DEFINE row == [resolution |-> "OWNER_MERGED", tx |-> <<t>>, evidence |-> TRUE]
  <2>1. row.tx = <<t>> /\ row.evidence
    OBVIOUS
  <2> HIDE DEF row
  <2>2. Leads(row.tx, d.txs)
    BY <1>3, <2>1, OneLeads
  <2>3. \A k \in DOMAIN d.rows : d.rows[k].tx # row.tx
    BY <1>3, <1>9, <2>1 DEF MergesWith
  <2>4. RowMayBe(d, key, row)
    BY <1>3, <1>5, <2>1, <2>2, <2>3 DEF RowMayBe
  <2>. QED
    BY <1>7, <1>9, <2>4 DEF MergesWith, Becomes, row
<1>10. ASSUME NEW c \in DOMAIN db.categories, NEW t, NEW at, ImportsNew(f, c, t, at)
       PROVE  Sound(db')
  <2> DEFINE tx == [Common!Transaction("CSV", at, c) EXCEPT !.fingerprint = <<f>>]
             row == [resolution |-> "IMPORTED_NEW", tx |-> <<t>>, evidence |-> FALSE]
             ts == Common!Put(t, tx, db.txs)
             e == [d EXCEPT !.txs = ts]
  <2>1. /\ IsTx(tx) /\ tx.group = <<>> /\ tx.pending = <<>> /\ tx.fingerprint = <<f>>
        /\ tx.category = <<c>> /\ tx.rule = <<>>
    BY DEF Common!Transaction, Common!Null, IsTx, TxFields
  <2> HIDE DEF tx
  <2>2. t \notin DOMAIN d.txs
    BY <1>3, <1>10 DEF ImportsNew
  <2>3. \A u \in DOMAIN d.txs : tx.fingerprint # d.txs[u].fingerprint
    BY <1>1, <1>3, <2>1 DEF Sound, FilesFit
  <2>4. Leads(tx.category, d.categories) /\ Leads(tx.rule, d.rules)
    BY <1>3, <2>1, OneLeads
  <2>5. \A g \in Files : tx.fingerprint = <<g>> => g \in DOMAIN d.batches /\ d.batches[g].status = "COMMITTED"
    <3>1. \A g : <<g>> = <<f>> => g = f
      OBVIOUS
    <3>. QED
      BY <1>2, <1>3, <2>1, <3>1
  <2>6. Sound(e)
    <3>1. Sound([d EXCEPT !.txs = Common!Put(t, tx, @)])
      BY <1>2, <2>1, <2>2, <2>3, <2>4, <2>5, OneTxAdded
    <3>. QED
      BY <1>3, <3>1
  <2>7. HasPut(ts, t, tx, db.txs)
    BY PutIs
  <2> HIDE DEF ts
  <2>8. e.txs = ts /\ e.rows = db.rows /\ e.batches = d.batches
    BY <1>2, <1>3 DEF Sound, Names9
  <2>9. [e EXCEPT !.rows = Over(row)] = [[d EXCEPT !.rows = Over(row)] EXCEPT !.txs = ts]
    BY <1>2 DEF Sound, Names9
  <2> HIDE DEF e
  <2>10. ~Common!Merged(row) /\ row.tx = <<t>>
    BY DEF Common!Merged
  <2> HIDE DEF row
  <2>11. RowMayBe(e, key, row)
    <3>1. Leads(row.tx, e.txs) /\ row.tx # <<>>
      BY <2>7, <2>8, <2>10, OneLeads DEF HasPut
    <3>. QED
      BY <1>3, <1>5, <2>8, <2>10, <3>1 DEF RowMayBe
  <2>12. Sound([e EXCEPT !.rows = Over(row)])
    BY <1>6, <2>6, <2>8, <2>11, RowWritten
  <2>13. db' = [[d EXCEPT !.rows = Over(row)] EXCEPT !.txs = ts]
    <3>1. db' = [Resolved(f, row) EXCEPT !.txs = Common!Put(t, tx, @)]
      BY <1>10 DEF ImportsNew, Becomes, row, tx
    <3>2. [d EXCEPT !.rows = Over(row)].txs = db.txs
      BY <1>2, <1>3 DEF Sound, Names9
    <3>. QED
      BY <1>4, <3>1, <3>2 DEF ts
  <2>. QED
    BY <2>9, <2>12, <2>13
<1>. QED
  BY <1>1, <1>8, <1>9, <1>10

(* Each of n numbers has a rank of its own among them, from 1 to n.        *)
LEMMA RanksAre ==
  ASSUME NEW ids \in SUBSET Nat, IsFiniteSet(ids)
  PROVE  {Cardinality({s \in ids : s <= t}) : t \in ids} = 1..Cardinality(ids)
<1> DEFINE upto(t) == {s \in ids : s <= t}
           n == Cardinality(ids)
           rank == [t \in ids |-> Cardinality(upto(t))]
<1>1. n \in Nat
  BY FS_CardinalityType
<1>2. ASSUME NEW t \in ids
      PROVE  IsFiniteSet(upto(t)) /\ Cardinality(upto(t)) \in 1..n
  <2>1. upto(t) \in SUBSET ids /\ t \in upto(t)
    OBVIOUS
  <2> HIDE DEF upto
  <2>2. IsFiniteSet(upto(t)) /\ Cardinality(upto(t)) <= n
    BY <2>1, FS_Subset
  <2>3. Cardinality(upto(t)) \in Nat /\ Cardinality(upto(t)) # 0
    BY <2>1, <2>2, FS_CardinalityType, FS_EmptySet
  <2>. QED
    BY <1>1, <2>2, <2>3
<1>3. ASSUME NEW t \in ids, NEW u \in ids, t < u
      PROVE  Cardinality(upto(t)) < Cardinality(upto(u))
  <2>1. upto(t) \in SUBSET upto(u) /\ u \notin upto(t) /\ u \in upto(u)
    <3>1. t \in Nat /\ u \in Nat /\ \A s \in ids : s \in Nat
      OBVIOUS
    <3>2. \A s \in Nat : s <= t => s <= u
      BY <1>3, <3>1
    <3>3. ~ u <= t /\ u <= u
      BY <1>3, <3>1
    <3>4. \A s \in upto(t) : s \in upto(u)
      BY <3>1, <3>2
    <3>5. u \notin upto(t) /\ u \in upto(u)
      BY <3>3
    <3>. QED
      BY <3>4, <3>5
  <2> HIDE DEF upto
  <2>2. IsFiniteSet(upto(u))
    BY <1>2
  <2>3. Cardinality(upto(t)) <= Cardinality(upto(u)) /\ Cardinality(upto(u)) # Cardinality(upto(t))
    BY <2>1, <2>2, FS_Subset
  <2>. QED
    BY <1>1, <1>2, <2>3
<1>4. \A t \in ids : rank[t] = Cardinality(upto(t))
  OBVIOUS
<1> HIDE DEF upto
<1>5. \A t, u \in ids : rank[t] = rank[u] => t = u
  <2> SUFFICES ASSUME NEW t \in ids, NEW u \in ids, rank[t] = rank[u], t # u PROVE FALSE
    OBVIOUS
  <2>1. t < u \/ u < t
    OBVIOUS
  <2>2. rank[t] < rank[u] \/ rank[u] < rank[t]
    BY <1>3, <1>4, <2>1
  <2>3. rank[t] \in Nat
    BY <1>1, <1>2, <1>4
  <2>. QED
    BY <2>2, <2>3
<1>6. rank \in Injection(ids, 1..n)
  <2>1. rank \in [ids -> 1..n]
    BY <1>2, <1>4
  <2>. QED
    BY <1>5, <2>1 DEF Injection, IsInjective
<1>7. IsFiniteSet(1..n) /\ Cardinality(1..n) = n
  BY <1>1, FS_Interval
<1>8. rank \in Surjection(ids, 1..n)
  BY <1>6, <1>7, FS_Injection
<1>9. \A i \in 1..n : \E t \in ids : rank[t] = i
  BY <1>8 DEF Surjection
<1>10. {rank[t] : t \in ids} = 1..n
  BY <1>2, <1>4, <1>9
<1>. QED
  BY <1>4, <1>10 DEF upto

LEMMA GroupKeeps == Sound(db) /\ RecordsGroup => Sound(db')
<1> SUFFICES ASSUME Sound(db), RecordsGroup PROVE Sound(db')
  OBVIOUS
<1>1. PICK ids \in SUBSET Nat, c \in DOMAIN db.categories : \E id \in ids : \E at :
        /\ IsFiniteSet(ids) /\ ids \cap DOMAIN db.txs = {}
        /\ Becomes([db EXCEPT !.txs = Common!Written(Installments(ids, id, at, c), @)])
  BY DEF RecordsGroup
<1>2. PICK id \in ids : \E at :
        /\ IsFiniteSet(ids) /\ ids \cap DOMAIN db.txs = {}
        /\ db' = [db EXCEPT !.txs = Common!Written(Installments(ids, id, at, c), @)]
  BY <1>1 DEF Becomes
<1>3. PICK at :
        /\ IsFiniteSet(ids) /\ ids \cap DOMAIN db.txs = {}
        /\ db' = [db EXCEPT !.txs = Common!Written(Installments(ids, id, at, c), @)]
  BY <1>2
<1> DEFINE n == Cardinality(ids)
           nth(t) == Cardinality({s \in ids : s <= t})
           new == Installments(ids, id, at, c)
<1>4. DOMAIN new = ids
  BY DEF Installments
<1>5. \A t \in ids : /\ IsTx(new[t]) /\ new[t].pending = <<>> /\ new[t].fingerprint = <<>>
                      /\ new[t].category = <<c>> /\ new[t].rule = <<>>
                      /\ new[t].group = <<[id |-> id, number |-> nth(t), count |-> n]>>
  BY DEF Installments, IsTx, TxFields, Common!Transaction, Common!Null
<1>6. {nth(t) : t \in ids} = 1..n
  BY <1>3, RanksAre
<1> HIDE DEF new, nth, n
<1>7. \A t \in ids : /\ new[t].group # <<>> /\ new[t].group[1].id = id
                      /\ new[t].group[1].number = nth(t) /\ new[t].group[1].count = n
  <2> SUFFICES ASSUME NEW t \in ids
               PROVE  /\ new[t].group # <<>> /\ new[t].group[1].id = id
                      /\ new[t].group[1].number = nth(t) /\ new[t].group[1].count = n
    OBVIOUS
  <2> DEFINE share == [id |-> id, number |-> nth(t), count |-> n]
  <2>1. share.id = id /\ share.number = nth(t) /\ share.count = n
    OBVIOUS
  <2> HIDE DEF share
  <2>2. new[t].group = <<share>>
    BY <1>5 DEF share
  <2>. QED
    BY <2>1, <2>2
<1>8. InGroup(new, id) = ids
  <2>1. \A t \in DOMAIN new : new[t].group # <<>> /\ new[t].group[1].id = id
    BY <1>4, <1>7
  <2>. QED
    BY <1>4, <2>1 DEF InGroup
<1>9. \A t \in DOMAIN new : GroupFits(new, t)
  <2>1. {new[s].group[1].number : s \in ids} = 1..n
    <3>1. \A s \in ids : new[s].group[1].number = nth(s)
      BY <1>7
    <3>. QED
      BY <1>6, <3>1
  <2>. QED
    <3>1. n = Cardinality(ids)
      BY DEF n
    <3>2. \A t \in ids : new[t].group[1].count = n /\ new[t].group[1].id = id
      BY <1>7
    <3>. QED
      BY <1>4, <1>8, <2>1, <3>1, <3>2 DEF GroupFits
<1>10. Acyclic(new)
  <2> SUFFICES ASSUME NEW some \in (SUBSET DOMAIN new) \ {{}}
               PROVE  \E u \in some : \A i \in DOMAIN new[u].pending : new[u].pending[i] \notin some
    BY DEF Acyclic
  <2>1. PICK u \in some : TRUE
    OBVIOUS
  <2>2. new[u].pending = <<>>
    BY <1>4, <1>5
  <2>. QED
    BY <2>1, <2>2
<1>11. TxsFit(new)
  BY <1>4, <1>5, <1>9, <1>10 DEF TxsFit
<1>12. Sound([db EXCEPT !.txs = Common!Written(new, @)])
  <2>1. /\ IsFiniteSet(DOMAIN new) /\ DOMAIN db.txs \cap DOMAIN new = {}
        /\ \A t \in DOMAIN new : /\ new[t].pending = <<>>
                                 /\ Leads(new[t].category, db.categories) /\ Leads(new[t].rule, db.rules)
    <3>1. Leads(<<c>>, db.categories) /\ Leads(<<>>, db.rules)
      BY OneLeads
    <3>2. \A t \in ids : new[t].pending = <<>> /\ new[t].category = <<c>> /\ new[t].rule = <<>>
      BY <1>5
    <3>. QED
      BY <1>3, <1>4, <3>1, <3>2
  <2>2. \A t \in DOMAIN new : new[t].fingerprint = <<>> /\ \A f : new[t].fingerprint # <<f>>
    <3>1. \A f : <<f>> # <<>>
      OBVIOUS
    <3>2. \A t \in ids : new[t].fingerprint = <<>>
      BY <1>5
    <3>. QED
      BY <1>4, <3>1, <3>2
  <2>. QED
    BY <1>11, <2>1, <2>2, TxsAdded
<1>. QED
  BY <1>3, <1>12 DEF new

LEMMA LedgerKeeps == Sound(db) /\ OwnerStep => Sound(db')
BY CategoriesKeep, RecordsOneKeeps, GroupKeeps, CorrectsKeep, EditsKeep, RemovesKeep, ChargesKeep,
   PreviewsKeep, CommitsKeep DEF OwnerStep

-----------------------------------------------------------------------------
(* The actions of the instances are such steps.                            *)

(* A nonempty set of natural numbers has a least element. *)
LEMMA LeastNatural ==
  ASSUME NEW T, T \subseteq Nat, T # {}
  PROVE  \E n \in T : \A m \in T : n <= m
<1> DEFINE R == {ss \in Nat \X Nat : ss[1] < ss[2]}
<1>1. IsWellFoundedOn(R, Nat)
  BY NatLessThanWellFounded DEF OpToRel
<1> HIDE DEF R
<1>2. PICK n \in T : \A m \in T : ~(<<m, n>> \in R)
  BY <1>1, WFMin
<1>3. \A m \in T : ~(m < n)
  BY <1>2 DEF R
<1>. QED
  BY <1>3

LEMMA CommonPlain ==
  /\ Common!CreateCategory => AddsCategory
  /\ Common!SetBudget => SetsBudget
  /\ Common!Subscribe => AddsSub
  /\ Common!Preview => Previews
<1>2. \A tables : Common!Does(tables) => Becomes(tables)
  BY DEF Common!Does, Becomes
<1>3. \A c \in Common!Spendable : c \in DOMAIN db.categories /\ db.categories[c].kind = "EXPENSE"
  BY DEF Common!Spendable, Common!Usable, Common!KindIn
<1>4. ASSUME Common!CreateCategory PROVE AddsCategory
  <2>1. PICK id, name :
          /\ id \in NewIds \ DOMAIN db.categories
          /\ \A c \in DOMAIN db.categories : db.categories[c].name # name
          /\ Common!Does(Common!Insert("categories", id,
                [name |-> name, kind |-> "EXPENSE", system |-> Common!Null, norm |-> <<NormalOf[name]>>]))
    BY <1>4 DEF Common!CreateCategory
  <2> DEFINE row == [name |-> name, kind |-> "EXPENSE", system |-> Common!Null, norm |-> <<NormalOf[name]>>]
  <2>2. row.kind = "EXPENSE" /\ row.system = <<>> /\ row.name = name
    BY DEF Common!Null
  <2> HIDE DEF row
  <2>3. Becomes([db EXCEPT !.categories = Common!Put(id, row, @)])
    BY <1>2, <2>1 DEF Common!Insert, row
  <2>. QED
    BY <2>1, <2>2, <2>3 DEF AddsCategory
<1>5. ASSUME Common!SetBudget PROVE SetsBudget
  <2>1. PICK c \in Common!Spendable, m \in Months, limit \in {Common!Null, <<5>>} :
          Common!Does(Common!Insert("budgets", <<c, m>>, [limit |-> limit]))
    BY <1>5 DEF Common!SetBudget
  <2>2. Becomes([db EXCEPT !.budgets = Common!Put(<<c, m>>, [limit |-> limit], @)])
    BY <1>2, <2>1 DEF Common!Insert
  <2>. QED
    BY <1>3, <2>2 DEF SetsBudget
<1>6. ASSUME Common!Subscribe PROVE AddsSub
  <2>1. PICK p \in Plans \ DOMAIN db.subs, c \in Common!Spendable,
             cutoff \in {Common!Null} \cup {<<d>> : d \in Dates} :
          Common!Does(Common!Insert("subs", p, [category |-> c, cutoff |-> cutoff]))
    BY <1>6 DEF Common!Subscribe
  <2>2. Becomes([db EXCEPT !.subs = Common!Put(p, [category |-> c, cutoff |-> cutoff], @)])
    BY <1>2, <2>1 DEF Common!Insert
  <2>. QED
    BY <1>3, <2>2 DEF AddsSub
<1>7. ASSUME Common!Preview PROVE Previews
  <2>1. PICK f \in Files \ DOMAIN db.batches :
          Common!Does([Common!Insert("batches", f, [status |-> "PREVIEWED"]) EXCEPT
             !.rows = Common!Put(<<f, 2>>, [resolution |-> "UNRESOLVED", tx |-> Common!Null, evidence |-> FALSE], @)])
    BY <1>7 DEF Common!Preview
  <2>2. Becomes([[db EXCEPT !.batches = Common!Put(f, [status |-> "PREVIEWED"], @)] EXCEPT
             !.rows = Common!Put(<<f, 2>>, [resolution |-> "UNRESOLVED", tx |-> Common!Null, evidence |-> FALSE], @)])
    BY <1>2, <2>1 DEF Common!Insert
  <2>. QED
    BY <2>2 DEF Previews, Common!Null
<1>. QED
  BY <1>4, <1>5, <1>6, <1>7

LEMMA CommonRecords == Sound(db) /\ Common!Record => RecordsOne
<1> SUFFICES ASSUME Sound(db), Common!Record PROVE RecordsOne
  OBVIOUS
<1>1. PICK t \in Common!FreshTx, at \in Dates, c \in Common!Usable, m \in DOMAIN db.rules \cup {""} :
        Common!Does(Common!Insert("txs", t, IF m = "" THEN Common!Transaction("MANUAL", at, c)
                   ELSE [Common!Transaction("MANUAL", at, db.rules[m].category) EXCEPT !.rule = <<m>>]))
  BY DEF Common!Record
<1>2. t \notin DOMAIN db.txs /\ c \in DOMAIN db.categories
  BY DEF Common!FreshTx, Common!Usable
<1>3. CASE m = ""
  <2>1. Common!Transaction("MANUAL", at, c) = Plain("MANUAL", at, c, <<>>)
    <3> DEFINE tx == Common!Transaction("MANUAL", at, c)
    <3>1. tx.rule = <<>> /\ tx = [x \in DOMAIN tx |-> tx[x]]
      BY DEF Common!Transaction, Common!Null
    <3> HIDE DEF tx
    <3>2. [tx EXCEPT !.rule = <<>>] = tx
      BY <3>1
    <3>. QED
      BY <3>2 DEF Plain, tx
  <2>2. Becomes([db EXCEPT !.txs = Common!Put(t, Plain("MANUAL", at, c, <<>>), @)])
    BY <1>1, <1>3, <2>1 DEF Common!Does, Common!Insert, Becomes
  <2>. QED
    BY <1>2, <2>2 DEF RecordsOne, Ruled
<1>4. CASE m # ""
  <2>1. Becomes([db EXCEPT !.txs = Common!Put(t, Plain("MANUAL", at, db.rules[m].category, <<m>>), @)])
    BY <1>1, <1>4 DEF Common!Does, Common!Insert, Becomes, Plain
  <2>2. db.rules[m].category \in DOMAIN db.categories /\ m \in DOMAIN db.rules
    BY <1>4 DEF Sound, Linked
  <2>3. Ruled(<<m>>)
    BY <2>2 DEF Ruled
  <2>. QED
    BY <1>2, <2>1, <2>2, <2>3 DEF RecordsOne
<1>. QED
  BY <1>3, <1>4

LEMMA CommonGroups == Common!SizeAssumption /\ Common!RecordInstallments => RecordsGroup
<1> SUFFICES ASSUME Common!SizeAssumption, Common!RecordInstallments PROVE RecordsGroup
  OBVIOUS
<1>1. PICK n \in GroupSizes, c \in Common!Usable, at \in Dates : \E ids \in Common!kSubset(n, Common!FreshTx) :
        LET nth(t) == Common!Cardinality({s \in ids : s <= t})
            share(i) == [Common!Transaction("MANUAL", at, c) EXCEPT
                            !.group = <<[id |-> Common!Min(ids), number |-> i, count |-> n]>>]
        IN  Common!Does([db EXCEPT !.txs = Common!Written([t \in ids |-> share(nth(t))], @)])
  BY DEF Common!RecordInstallments
<1>2. PICK ids \in Common!kSubset(n, Common!FreshTx) :
        Common!Does([db EXCEPT !.txs = Common!Written(
           [t \in ids |-> [Common!Transaction("MANUAL", at, c) EXCEPT
              !.group = <<[id |-> Common!Min(ids), number |-> Common!Cardinality({s \in ids : s <= t}),
                           count |-> n]>>]], @)])
  BY <1>1
<1>3. \A S : Common!Cardinality(S) = Cardinality(S)
  BY DEF Common!Cardinality, Cardinality
<1>4. ids \in SUBSET Common!FreshTx /\ Cardinality(ids) = n
  BY <1>2, <1>3 DEF Common!kSubset
<1>5. ids \in SUBSET Nat /\ IsFiniteSet(ids) /\ n \in Nat \ {0} /\ ids \cap DOMAIN db.txs = {}
  <2> DEFINE all == TxIds \cup FewTxIds
  <2>1. ids \in SUBSET all /\ all \subseteq Nat /\ n \in 2..60 /\ ids \cap DOMAIN db.txs = {}
    BY <1>4 DEF Common!FreshTx, Common!SizeAssumption
  <2>2. IsFiniteSet(all)
    BY DEF Common!SizeAssumption, Common!IsFiniteSet, IsFiniteSet
  <2> HIDE DEF all
  <2>3. IsFiniteSet(ids)
    BY <2>1, <2>2, FS_Subset
  <2>. QED
    BY <2>1, <2>3
<1>6. Common!Min(ids) \in ids
  <2>1. ids # {}
    BY <1>4, <1>5, FS_EmptySet
  <2>2. PICK x \in ids : \A y \in ids : x <= y
    BY <1>5, <2>1, LeastNatural
  <2>. QED
    BY <2>2 DEF Common!Min
<1>7. [t \in ids |-> [Common!Transaction("MANUAL", at, c) EXCEPT
          !.group = <<[id |-> Common!Min(ids), number |-> Common!Cardinality({s \in ids : s <= t}),
                       count |-> n]>>]] = Installments(ids, Common!Min(ids), at, c)
  BY <1>3, <1>4 DEF Installments
<1>8. Becomes([db EXCEPT !.txs = Common!Written(Installments(ids, Common!Min(ids), at, c), @)])
  BY <1>2, <1>7 DEF Common!Does, Becomes
<1>9. c \in DOMAIN db.categories
  BY DEF Common!Usable
<1>. QED
  BY <1>5, <1>6, <1>8, <1>9 DEF RecordsGroup

LEMMA CommonEdits == Common!Edit => EditsTx
<1> SUFFICES ASSUME Common!Edit PROVE EditsTx
  OBVIOUS
<1>1. PICK t \in DOMAIN db.txs :
        \/ \E d \in Dates : Common!Does([db EXCEPT !.txs[t].date = d])
        \/ Common!Does([db EXCEPT !.txs[t].direction = IF @ = "INFLOW" THEN "OUTFLOW" ELSE "INFLOW"])
        \/ Common!Does([db EXCEPT !.txs[t].reimbursed = 1])
  BY DEF Common!Edit
<1>2. \/ \E d : Becomes([db EXCEPT !.txs[t] = [db.txs[t] EXCEPT !.date = d]])
      \/ \E way : Becomes([db EXCEPT !.txs[t] = [db.txs[t] EXCEPT !.direction = way]])
      \/ Becomes([db EXCEPT !.txs[t] = [db.txs[t] EXCEPT !.reimbursed = 1]])
  BY <1>1 DEF Common!Does, Becomes
<1>3. 1 \in Int
  OBVIOUS
<1>. QED
  BY <1>2, <1>3 DEF EditsTx

LEMMA CommonDeletes == Common!Delete => Removes
BY DEF Common!Delete, Common!Owned, Common!Does, Removes, Becomes

LEMMA CommonCharges == Sound(db) /\ Common!Charge => Charges
<1> SUFFICES ASSUME Sound(db), Common!Charge PROVE Charges
  OBVIOUS
<1>1. PICK p \in DOMAIN db.subs, at \in Dates :
        \/ /\ <<p, at>> \notin DOMAIN db.occs
           /\ \E t \in Common!FreshTx :
                 Common!Does([Common!Insert("txs", t, Common!Transaction("MANUAL", at, db.subs[p].category)) EXCEPT
                    !.occs = Common!Put(<<p, at>>, [tx |-> t, status |-> "GENERATED", decided |-> FALSE], @)])
        \/ /\ <<p, at>> \in DOMAIN db.occs
           /\ Common!Does([db EXCEPT
                 !.occs[<<p, at>>].status = "GENERATED", !.occs[<<p, at>>].decided = FALSE,
                 !.txs[db.occs[<<p, at>>].tx] = Common!Transaction("MANUAL", at, db.subs[p].category)])
  BY DEF Common!Charge
<1> DEFINE row == Common!Transaction("MANUAL", at, db.subs[p].category)
           key == <<p, at>>
<1>2. ASSUME NEW t \in Common!FreshTx, key \notin DOMAIN db.occs,
             Common!Does([Common!Insert("txs", t, row) EXCEPT
                !.occs = Common!Put(key, [tx |-> t, status |-> "GENERATED", decided |-> FALSE], @)])
      PROVE  NewCharge(p, at, t)
  <2>1. t \notin DOMAIN db.txs
    BY DEF Common!FreshTx
  <2>2. Becomes([[db EXCEPT !.txs = Common!Put(t, row, @)] EXCEPT
                   !.occs = Common!Put(key, [tx |-> t, status |-> "GENERATED", decided |-> FALSE], @)])
    BY <1>2 DEF Common!Does, Common!Insert, Becomes
  <2>. QED
    BY <1>2, <2>1, <2>2 DEF NewCharge
<1>3. ASSUME key \in DOMAIN db.occs,
             Common!Does([db EXCEPT
                 !.occs[key].status = "GENERATED", !.occs[key].decided = FALSE,
                 !.txs[db.occs[key].tx] = row])
      PROVE  ChargedAgain(p, at, db.occs[key].tx)
  <2> HIDE DEF row, key
  <2> DEFINE os == [db.occs EXCEPT ![key] = [db.occs[key] EXCEPT !.status = "GENERATED", !.decided = FALSE]]
  <2>1. db' = [db EXCEPT !.occs[key].status = "GENERATED", !.occs[key].decided = FALSE,
                         !.txs[db.occs[key].tx] = row]
    BY <1>3 DEF Common!Does
  <2>2. [[db.occs EXCEPT ![key].status = "GENERATED"] EXCEPT ![key].decided = FALSE] = os
    BY <1>3
  <2>3. [db EXCEPT !.occs[key].status = "GENERATED", !.occs[key].decided = FALSE]
          = [db EXCEPT !.occs = [[db.occs EXCEPT ![key].status = "GENERATED"] EXCEPT ![key].decided = FALSE]]
    BY DEF Sound, Names9
  <2>4. db' = [[db EXCEPT !.occs = os] EXCEPT !.txs[db.occs[key].tx] = row]
    BY <2>1, <2>2, <2>3
  <2> HIDE DEF os
  <2>5. [db EXCEPT !.occs = os].txs = db.txs
    BY DEF Sound, Names9
  <2>6. [[db EXCEPT !.occs = os] EXCEPT !.txs[db.occs[key].tx] = row]
          = [[db EXCEPT !.occs = os] EXCEPT !.txs = [db.txs EXCEPT ![db.occs[key].tx] = row]]
    BY <2>5
  <2>7. [[db EXCEPT !.occs = os] EXCEPT !.txs = [db.txs EXCEPT ![db.occs[key].tx] = row]]
          = [[db EXCEPT !.txs = [db.txs EXCEPT ![db.occs[key].tx] = row]] EXCEPT !.occs = os]
    BY DEF Sound, Names9
  <2>8. db' = [db EXCEPT !.txs[db.occs[key].tx] = row, !.occs = os]
    BY <2>4, <2>6, <2>7
  <2>. QED
    BY <1>3, <2>8 DEF ChargedAgain, Becomes, row, key, os
<1>. QED
  BY <1>1, <1>2, <1>3 DEF Charges, Charge

LEMMA CommonCommits == Sound(db) /\ Common!CommitImport => Commits
<1> SUFFICES ASSUME Sound(db), Common!CommitImport PROVE Commits
  OBVIOUS
<1> DEFINE resolved(f, resolution, tx, evidence) ==
              [db EXCEPT !.batches[f].status = "COMMITTED",
                         !.rows[<<f, 2>>] = [resolution |-> resolution, tx |-> tx, evidence |-> evidence]]
<1>1. PICK f \in DOMAIN db.batches :
        /\ db.batches[f].status = "PREVIEWED"
        /\ \/ \E t \in Common!FreshTx, d \in Dates, c \in Common!Usable :
                 Common!Does([resolved(f, "IMPORTED_NEW", <<t>>, FALSE) EXCEPT
                    !.txs = Common!Put(t, [Common!Transaction("CSV", d, c) EXCEPT !.fingerprint = <<f>>], @)])
           \/ \E t \in DOMAIN db.txs :
                 /\ Common!Owned(t)
                 /\ \A k \in DOMAIN db.rows : db.rows[k].tx # <<t>>
                 /\ Common!Does(resolved(f, "OWNER_MERGED", <<t>>, TRUE))
           \/ Common!Does(resolved(f, "SKIPPED_DUPLICATE", Common!Null, FALSE))
  BY DEF Common!CommitImport
<1>2. \A g, resolution, tx, evidence :
         resolved(g, resolution, tx, evidence)
           = Resolved(g, [resolution |-> resolution, tx |-> tx, evidence |-> evidence])
  BY DEF Resolved
<1> HIDE DEF resolved
<1>3. \A tables : Common!Does(tables) => Becomes(tables)
  BY DEF Common!Does, Becomes
<1>4. \A t \in Common!FreshTx, d \in Dates, c \in Common!Usable :
        Common!Does([resolved(f, "IMPORTED_NEW", <<t>>, FALSE) EXCEPT
           !.txs = Common!Put(t, [Common!Transaction("CSV", d, c) EXCEPT !.fingerprint = <<f>>], @)])
        => c \in DOMAIN db.categories /\ ImportsNew(f, c, t, d)
  BY <1>2, <1>3 DEF ImportsNew, Common!FreshTx, Common!Usable
<1>5. \A t \in DOMAIN db.txs :
        (\A k \in DOMAIN db.rows : db.rows[k].tx # <<t>>) /\ Common!Does(resolved(f, "OWNER_MERGED", <<t>>, TRUE))
        => MergesWith(f, t)
  BY <1>2, <1>3 DEF MergesWith
<1>6. Common!Does(resolved(f, "SKIPPED_DUPLICATE", Common!Null, FALSE)) => Skips(f)
  BY <1>2, <1>3 DEF Skips, Common!Null
<1>. QED
  BY <1>1, <1>4, <1>5, <1>6 DEF Commits

LEMMA CommonCorrects == Sound(db) /\ Common!Recategorize => Corrects
<1> SUFFICES ASSUME Sound(db), Common!Recategorize PROVE Corrects
  OBVIOUS
<1>1. PICK t \in DOMAIN db.txs, c \in Common!Usable, rule \in {Common!Null} \cup {<<m>> : m \in Merchants} :
        /\ db.txs[t].status = "POSTED"
        /\ <<c>> # db.txs[t].category \/ rule # db.txs[t].rule
        /\ LET audit == [tx |-> t, old |-> db.txs[t].category, new |-> <<c>>,
                         oldRule |-> db.txs[t].rule, newRule |-> rule]
               written == Common!Insert("audits", Common!Cardinality(DOMAIN db.audits) + 1, audit)
               ruled == IF rule = Common!Null THEN written
                        ELSE [written EXCEPT !.rules = Common!Put(rule[1], [category |-> c], @)]
           IN  Common!Does([ruled EXCEPT !.txs[t].category = <<c>>, !.txs[t].rule = rule])
  BY DEF Common!Recategorize
<1> DEFINE audit == [tx |-> t, old |-> db.txs[t].category, new |-> <<c>>,
                     oldRule |-> db.txs[t].rule, newRule |-> rule]
           n == Common!Cardinality(DOMAIN db.audits) + 1
           audits == Common!Put(n, audit, db.audits)
           row == [db.txs[t] EXCEPT !.category = <<c>>, !.rule = rule]
           written == [db EXCEPT !.audits = audits]
           rules == Common!Put(rule[1], [category |-> c], db.rules)
           ruled == IF rule = <<>> THEN written ELSE [written EXCEPT !.rules = rules]
<1>2. c \in DOMAIN db.categories
  BY DEF Common!Usable
<1> HIDE DEF audit
<1>3. written.txs = db.txs /\ written.rules = db.rules /\ DOMAIN written = DOMAIN db
  BY DEF Sound, Names9
<1>4. db' = [ruled EXCEPT !.txs[t].category = <<c>>, !.txs[t].rule = rule]
  BY <1>1, <1>3 DEF Common!Does, Common!Insert, Common!Null, audit
<1> HIDE DEF n, audits, rules
<1>5. ruled.txs = db.txs /\ "txs" \in DOMAIN ruled
  BY <1>3 DEF Sound, Names9
<1>6. [ruled EXCEPT !.txs[t].category = <<c>>, !.txs[t].rule = rule] = [ruled EXCEPT !.txs[t] = row]
  <2> HIDE DEF ruled
  <2>1. [[db.txs EXCEPT ![t].category = <<c>>] EXCEPT ![t].rule = rule] = [db.txs EXCEPT ![t] = row]
    OBVIOUS
  <2> HIDE DEF row
  <2>2. [ruled EXCEPT !.txs[t].category = <<c>>, !.txs[t].rule = rule]
          = [ruled EXCEPT !.txs = [[db.txs EXCEPT ![t].category = <<c>>] EXCEPT ![t].rule = rule]]
    BY <1>5
  <2>3. [ruled EXCEPT !.txs[t] = row] = [ruled EXCEPT !.txs = [db.txs EXCEPT ![t] = row]]
    BY <1>5
  <2>. QED
    BY <2>1, <2>2, <2>3
<1> HIDE DEF row
<1>7. CASE rule = <<>>
  <2>1. Becomes([db EXCEPT !.audits = audits, !.txs[t] = row])
    BY <1>4, <1>6, <1>7 DEF Becomes
  <2>. QED
    BY <1>2, <1>7, <2>1 DEF Corrects, Correct, audits, audit, row
<1>8. CASE rule # <<>>
  <2>1. PICK m \in Merchants : rule = <<m>>
    BY <1>8 DEF Common!Null
  <2>2. rule[1] = m
    BY <2>1
  <2>3. db' = [[written EXCEPT !.rules = rules] EXCEPT !.txs[t] = row]
    BY <1>4, <1>6, <1>8
  <2>4. [[written EXCEPT !.rules = rules] EXCEPT !.txs[t] = row]
          = [[written EXCEPT !.txs[t] = row] EXCEPT !.rules = rules]
    BY <1>3 DEF Sound, Names9
  <2>5. rules = Common!Put(m, [category |-> c], db.rules)
    BY <2>2 DEF rules
  <2>6. Becomes([db EXCEPT !.audits = audits, !.txs[t] = row, !.rules = Common!Put(m, [category |-> c], @)])
    <3>1. [written EXCEPT !.txs[t] = row].rules = db.rules
      BY <1>3
    <3>. QED
      BY <2>3, <2>4, <2>5, <3>1 DEF Becomes
  <2>. QED
    BY <1>2, <2>1, <2>6 DEF Corrects, Correct, audits, audit, row
<1>. QED
  BY <1>7, <1>8

LEMMA WholeIsCommon ==
  ASSUME MaxChanges \in Nat, PlanChanges \in Nat, edits \in Nat
  PROVE  /\ Whole!CreateCategory => Common!CreateCategory
         /\ Whole!SetBudget => Common!SetBudget
         /\ Whole!Record => Common!Record
         /\ Whole!RecordInstallments => Common!RecordInstallments
         /\ Whole!Recategorize => Common!Recategorize
         /\ Whole!Edit => Common!Edit
         /\ Whole!Delete => Common!Delete
         /\ Whole!Subscribe => Common!Subscribe
         /\ Whole!Charge => Common!Charge
         /\ Whole!Preview => Common!Preview
         /\ Whole!CommitImport => Common!CommitImport
<1>1. \A tables : Whole!Does(tables) => Common!Does(tables)
  BY DEF Whole!Does, Common!Does
<1>2. Whole!FreshTx \subseteq Common!FreshTx /\ Whole!Usable = Common!Usable /\ Whole!Spendable = Common!Spendable
  BY DEF Whole!FreshTx, Common!FreshTx, Whole!Usable, Common!Usable, Whole!Spendable, Common!Spendable,
         Whole!KindIn, Common!KindIn
<1>3. \A source, at, c : Whole!Transaction(source, at, c) = Common!Transaction(source, at, c)
  BY DEF Whole!Transaction, Common!Transaction, Whole!Null, Common!Null
<1>4. \A rows, table : Whole!Written(rows, table) = Common!Written(rows, table)
  BY DEF Whole!Written, Common!Written
<1>5. \A key, row, table : Whole!Put(key, row, table) = Common!Put(key, row, table)
  BY DEF Whole!Put, Common!Put, Whole!Written, Common!Written
<1>6. \A t, key, row : Whole!Insert(t, key, row) = Common!Insert(t, key, row)
  BY <1>5 DEF Whole!Insert, Common!Insert
<1>7. Whole!Null = Common!Null /\ \A t : Whole!Owned(t) <=> Common!Owned(t)
  BY DEF Whole!Null, Common!Null, Whole!Owned, Common!Owned
<1>8. Whole!CreateCategory => Common!CreateCategory
  BY <1>1, <1>6, <1>7 DEF Whole!CreateCategory, Common!CreateCategory
<1>9. Whole!SetBudget => Common!SetBudget
  BY <1>1, <1>2, <1>6, <1>7 DEF Whole!SetBudget, Common!SetBudget
<1>10. Whole!Record => Common!Record
  <2> SUFFICES ASSUME Whole!Record PROVE Common!Record
    OBVIOUS
  <2>1. PICK t \in Whole!FreshTx, at \in Dates, c \in Whole!Usable, m \in DOMAIN db.rules \cup {""} :
          Whole!Does(Whole!Insert("txs", t, IF m = "" THEN Whole!Transaction("MANUAL", at, c)
                     ELSE [Whole!Transaction("MANUAL", at, db.rules[m].category) EXCEPT !.rule = <<m>>]))
    BY DEF Whole!Record
  <2>2. Common!Does(Common!Insert("txs", t, IF m = "" THEN Common!Transaction("MANUAL", at, c)
                    ELSE [Common!Transaction("MANUAL", at, db.rules[m].category) EXCEPT !.rule = <<m>>]))
    BY <1>1, <1>3, <1>6, <2>1
  <2>3. t \in Common!FreshTx /\ c \in Common!Usable
    BY <1>2
  <2>. QED
    BY <2>2, <2>3 DEF Common!Record
<1>11. Whole!RecordInstallments => Common!RecordInstallments
  <2> SUFFICES ASSUME Whole!RecordInstallments PROVE Common!RecordInstallments
    OBVIOUS
  <2> DEFINE rows(n, c, at, ids) ==
        [t \in ids |-> [Whole!Transaction("MANUAL", at, c) EXCEPT
            !.group = <<[id |-> Whole!Min(ids), number |-> Whole!Cardinality({s \in ids : s <= t}),
                         count |-> n]>>]]
  <2>1. PICK n \in GroupSizes, c \in Whole!Usable, at \in Dates : \E ids \in Whole!kSubset(n, Whole!FreshTx) :
          Whole!Does([db EXCEPT !.txs = Whole!Written(rows(n, c, at, ids), @)])
    BY DEF Whole!RecordInstallments
  <2>2. PICK ids \in Whole!kSubset(n, Whole!FreshTx) :
          Whole!Does([db EXCEPT !.txs = Whole!Written(rows(n, c, at, ids), @)])
    BY <2>1
  <2>3. \A S : Whole!Cardinality(S) = Common!Cardinality(S) /\ Whole!Min(S) = Common!Min(S)
    BY DEF Whole!Cardinality, Common!Cardinality, Whole!Min, Common!Min
  <2>4. ids \in Common!kSubset(n, Common!FreshTx) /\ c \in Common!Usable
    BY <1>2, <2>2, <2>3 DEF Whole!kSubset, Common!kSubset
  <2>5. rows(n, c, at, ids) =
          [t \in ids |-> [Common!Transaction("MANUAL", at, c) EXCEPT
              !.group = <<[id |-> Common!Min(ids), number |-> Common!Cardinality({s \in ids : s <= t}),
                           count |-> n]>>]]
    BY <1>3, <2>3
  <2>6. Common!Does([db EXCEPT !.txs = Common!Written(rows(n, c, at, ids), @)])
    BY <1>1, <1>4, <2>2
  <2> HIDE DEF rows
  <2>7. Common!Does([db EXCEPT !.txs = Common!Written(
           [t \in ids |-> [Common!Transaction("MANUAL", at, c) EXCEPT
              !.group = <<[id |-> Common!Min(ids), number |-> Common!Cardinality({s \in ids : s <= t}),
                           count |-> n]>>]], @)])
    BY <2>5, <2>6
  <2>. QED
    BY <2>4, <2>7 DEF Common!RecordInstallments
<1>12. Whole!Recategorize => Common!Recategorize
  <2> SUFFICES ASSUME Whole!Recategorize PROVE Common!Recategorize
    OBVIOUS
  <2>1. PICK t \in DOMAIN db.txs, c \in Whole!Usable, rule \in {Whole!Null} \cup {<<m>> : m \in Merchants} :
          /\ db.txs[t].status = "POSTED"
          /\ <<c>> # db.txs[t].category \/ rule # db.txs[t].rule
          /\ LET audit == [tx |-> t, old |-> db.txs[t].category, new |-> <<c>>,
                           oldRule |-> db.txs[t].rule, newRule |-> rule]
                 written == Whole!Insert("audits", Whole!Cardinality(DOMAIN db.audits) + 1, audit)
                 ruled == IF rule = Whole!Null THEN written
                          ELSE [written EXCEPT !.rules = Whole!Put(rule[1], [category |-> c], @)]
             IN  Whole!Does([ruled EXCEPT !.txs[t].category = <<c>>, !.txs[t].rule = rule])
    BY DEF Whole!Recategorize
  <2>2. Whole!Cardinality(DOMAIN db.audits) = Common!Cardinality(DOMAIN db.audits)
    BY DEF Whole!Cardinality, Common!Cardinality
  <2>3. LET audit == [tx |-> t, old |-> db.txs[t].category, new |-> <<c>>,
                      oldRule |-> db.txs[t].rule, newRule |-> rule]
            written == Common!Insert("audits", Common!Cardinality(DOMAIN db.audits) + 1, audit)
            ruled == IF rule = Common!Null THEN written
                     ELSE [written EXCEPT !.rules = Common!Put(rule[1], [category |-> c], @)]
        IN  Common!Does([ruled EXCEPT !.txs[t].category = <<c>>, !.txs[t].rule = rule])
    BY <1>1, <1>5, <1>6, <1>7, <2>1, <2>2
  <2>. QED
    BY <1>2, <1>7, <2>1, <2>3 DEF Common!Recategorize
<1>13. Whole!Edit => Common!Edit
  BY <1>1, <1>7 DEF Whole!Edit, Common!Edit
<1>14. Whole!Delete => Common!Delete
  BY <1>1, <1>7 DEF Whole!Delete, Common!Delete
<1>15. Whole!Subscribe => Common!Subscribe
  BY <1>1, <1>2, <1>6, <1>7 DEF Whole!Subscribe, Common!Subscribe
<1>16. Whole!Charge => Common!Charge
  BY <1>1, <1>2, <1>3, <1>5, <1>6 DEF Whole!Charge, Common!Charge
<1>17. Whole!Preview => Common!Preview
  BY <1>1, <1>5, <1>6, <1>7 DEF Whole!Preview, Common!Preview
<1>18. Whole!CommitImport => Common!CommitImport
  BY <1>1, <1>2, <1>3, <1>5, <1>7 DEF Whole!CommitImport, Common!CommitImport
<1>. QED
  BY <1>8, <1>9, <1>10, <1>11, <1>12, <1>13, <1>14, <1>15, <1>16, <1>17, <1>18

LEMMA LimitedIsCommon ==
  ASSUME MaxChanges \in Nat, PlanChanges \in Nat, edits \in Nat
  PROVE  /\ Limited!CreateCategory => Common!CreateCategory
         /\ Limited!SetBudget => Common!SetBudget
         /\ Limited!Record => Common!Record
         /\ Limited!RecordInstallments => Common!RecordInstallments
         /\ Limited!Recategorize => Common!Recategorize
         /\ Limited!Edit => Common!Edit
         /\ Limited!Delete => Common!Delete
         /\ Limited!Subscribe => Common!Subscribe
         /\ Limited!Charge => Common!Charge
         /\ Limited!Preview => Common!Preview
         /\ Limited!CommitImport => Common!CommitImport
<1>1. Limited!CreateCategory => Whole!CreateCategory
  BY DEF Limited!CreateCategory, Whole!CreateCategory, Limited!Does, Whole!Does, Limited!Insert,
         Whole!Insert, Limited!Put, Whole!Put, Limited!Written, Whole!Written, Limited!Null,
         Whole!Null
<1>2. Limited!SetBudget => Whole!SetBudget
  BY DEF Limited!SetBudget, Whole!SetBudget, Limited!Does, Whole!Does, Limited!Insert, Whole!Insert,
         Limited!Put, Whole!Put, Limited!Written, Whole!Written, Limited!Null, Whole!Null,
         Limited!Spendable, Whole!Spendable, Limited!Usable, Whole!Usable, Limited!KindIn,
         Whole!KindIn
<1>3. Limited!Record => Whole!Record
  BY DEF Limited!Record, Whole!Record, Limited!Does, Whole!Does, Limited!Insert, Whole!Insert,
         Limited!Put, Whole!Put, Limited!Written, Whole!Written, Limited!Transaction,
         Whole!Transaction, Limited!Null, Whole!Null, Limited!FreshTx, Whole!FreshTx,
         Limited!Usable, Whole!Usable
<1>4. Limited!RecordInstallments => Whole!RecordInstallments
  BY DEF Limited!RecordInstallments, Whole!RecordInstallments, Limited!Does, Whole!Does,
         Limited!Written, Whole!Written, Limited!Transaction, Whole!Transaction, Limited!Null,
         Whole!Null, Limited!FreshTx, Whole!FreshTx, Limited!Usable, Whole!Usable, Limited!kSubset,
         Whole!kSubset, Limited!Min, Whole!Min, Limited!Cardinality, Whole!Cardinality
<1>5. Limited!Recategorize => Whole!Recategorize
  BY DEF Limited!Recategorize, Whole!Recategorize, Limited!Does, Whole!Does, Limited!Insert,
         Whole!Insert, Limited!Put, Whole!Put, Limited!Written, Whole!Written, Limited!Null,
         Whole!Null, Limited!Usable, Whole!Usable, Limited!Cardinality, Whole!Cardinality
<1>6. Limited!Edit => Whole!Edit
  BY DEF Limited!Edit, Whole!Edit, Limited!Does, Whole!Does, Limited!Owned, Whole!Owned
<1>7. Limited!Delete => Whole!Delete
  BY DEF Limited!Delete, Whole!Delete, Limited!Does, Whole!Does, Limited!Owned, Whole!Owned
<1>8. Limited!Subscribe => Whole!Subscribe
  BY DEF Limited!Subscribe, Whole!Subscribe, Limited!Does, Whole!Does, Limited!Insert, Whole!Insert,
         Limited!Put, Whole!Put, Limited!Written, Whole!Written, Limited!Null, Whole!Null,
         Limited!Spendable, Whole!Spendable, Limited!Usable, Whole!Usable, Limited!KindIn,
         Whole!KindIn
<1>9. Limited!Charge => Whole!Charge
  BY DEF Limited!Charge, Whole!Charge, Limited!Does, Whole!Does, Limited!Insert, Whole!Insert,
         Limited!Put, Whole!Put, Limited!Written, Whole!Written, Limited!Transaction,
         Whole!Transaction, Limited!Null, Whole!Null, Limited!FreshTx, Whole!FreshTx
<1>10. Limited!Preview => Whole!Preview
  BY DEF Limited!Preview, Whole!Preview, Limited!Does, Whole!Does, Limited!Insert, Whole!Insert,
         Limited!Put, Whole!Put, Limited!Written, Whole!Written, Limited!Null, Whole!Null
<1>11. Limited!CommitImport => Whole!CommitImport
  BY DEF Limited!CommitImport, Whole!CommitImport, Limited!Does, Whole!Does, Limited!Put, Whole!Put,
         Limited!Written, Whole!Written, Limited!Transaction, Whole!Transaction, Limited!Null,
         Whole!Null, Limited!FreshTx, Whole!FreshTx, Limited!Usable, Whole!Usable, Limited!Owned,
         Whole!Owned
<1>. QED
  BY <1>1, <1>2, <1>3, <1>4, <1>5, <1>6, <1>7, <1>8, <1>9, <1>10, <1>11, WholeIsCommon

LEMMA ChargedIsCommon ==
  ASSUME MaxChanges \in Nat, PlanChanges \in Nat, edits \in Nat
  PROVE  /\ Charged!CreateCategory => Common!CreateCategory
         /\ Charged!SetBudget => Common!SetBudget
         /\ Charged!Record => Common!Record
         /\ Charged!RecordInstallments => Common!RecordInstallments
         /\ Charged!Recategorize => Common!Recategorize
         /\ Charged!Edit => Common!Edit
         /\ Charged!Delete => Common!Delete
         /\ Charged!Subscribe => Common!Subscribe
         /\ Charged!Charge => Common!Charge
         /\ Charged!Preview => Common!Preview
         /\ Charged!CommitImport => Common!CommitImport
<1>1. \A tables : Charged!Does(tables) => Common!Does(tables)
  BY DEF Charged!Does, Common!Does
<1>2. Charged!FreshTx \subseteq Common!FreshTx /\ Charged!Usable = Common!Usable /\ Charged!Spendable = Common!Spendable
  BY DEF Charged!FreshTx, Common!FreshTx, Charged!Usable, Common!Usable, Charged!Spendable, Common!Spendable,
         Charged!KindIn, Common!KindIn
<1>3. \A source, at, c : Charged!Transaction(source, at, c) = Common!Transaction(source, at, c)
  BY DEF Charged!Transaction, Common!Transaction, Charged!Null, Common!Null
<1>4. \A rows, table : Charged!Written(rows, table) = Common!Written(rows, table)
  BY DEF Charged!Written, Common!Written
<1>5. \A key, row, table : Charged!Put(key, row, table) = Common!Put(key, row, table)
  BY DEF Charged!Put, Common!Put, Charged!Written, Common!Written
<1>6. \A t, key, row : Charged!Insert(t, key, row) = Common!Insert(t, key, row)
  BY <1>5 DEF Charged!Insert, Common!Insert
<1>7. Charged!Null = Common!Null /\ \A t : Charged!Owned(t) <=> Common!Owned(t)
  BY DEF Charged!Null, Common!Null, Charged!Owned, Common!Owned
<1>8. Charged!CreateCategory => Common!CreateCategory
  BY DEF Charged!CreateCategory
<1>9. Charged!SetBudget => Common!SetBudget
  BY DEF Charged!SetBudget
<1>10. Charged!Record => Common!Record
  <2> SUFFICES ASSUME Charged!Record PROVE Common!Record
    OBVIOUS
  <2>1. PICK t \in Charged!FreshTx, at \in Dates, c \in Charged!Usable, m \in DOMAIN db.rules \cup {""} :
          Charged!Does(Charged!Insert("txs", t, IF m = "" THEN Charged!Transaction("MANUAL", at, c)
                     ELSE [Charged!Transaction("MANUAL", at, db.rules[m].category) EXCEPT !.rule = <<m>>]))
    BY DEF Charged!Record
  <2>2. Common!Does(Common!Insert("txs", t, IF m = "" THEN Common!Transaction("MANUAL", at, c)
                    ELSE [Common!Transaction("MANUAL", at, db.rules[m].category) EXCEPT !.rule = <<m>>]))
    BY <1>1, <1>3, <1>6, <2>1
  <2>3. t \in Common!FreshTx /\ c \in Common!Usable
    BY <1>2
  <2>. QED
    BY <2>2, <2>3 DEF Common!Record
<1>11. Charged!RecordInstallments => Common!RecordInstallments
  BY DEF Charged!RecordInstallments
<1>12. Charged!Recategorize => Common!Recategorize
  <2> SUFFICES ASSUME Charged!Recategorize PROVE Common!Recategorize
    OBVIOUS
  <2>1. PICK t \in DOMAIN db.txs, c \in Charged!Usable, rule \in {Charged!Null} \cup {<<m>> : m \in Merchants} :
          /\ db.txs[t].status = "POSTED"
          /\ <<c>> # db.txs[t].category \/ rule # db.txs[t].rule
          /\ LET audit == [tx |-> t, old |-> db.txs[t].category, new |-> <<c>>,
                           oldRule |-> db.txs[t].rule, newRule |-> rule]
                 written == Charged!Insert("audits", Charged!Cardinality(DOMAIN db.audits) + 1, audit)
                 ruled == IF rule = Charged!Null THEN written
                          ELSE [written EXCEPT !.rules = Charged!Put(rule[1], [category |-> c], @)]
             IN  Charged!Does([ruled EXCEPT !.txs[t].category = <<c>>, !.txs[t].rule = rule])
    BY DEF Charged!Recategorize
  <2>2. Charged!Cardinality(DOMAIN db.audits) = Common!Cardinality(DOMAIN db.audits)
    BY DEF Charged!Cardinality, Common!Cardinality
  <2>3. LET audit == [tx |-> t, old |-> db.txs[t].category, new |-> <<c>>,
                      oldRule |-> db.txs[t].rule, newRule |-> rule]
            written == Common!Insert("audits", Common!Cardinality(DOMAIN db.audits) + 1, audit)
            ruled == IF rule = Common!Null THEN written
                     ELSE [written EXCEPT !.rules = Common!Put(rule[1], [category |-> c], @)]
        IN  Common!Does([ruled EXCEPT !.txs[t].category = <<c>>, !.txs[t].rule = rule])
    BY <1>1, <1>5, <1>6, <1>7, <2>1, <2>2
  <2>. QED
    BY <1>2, <1>7, <2>1, <2>3 DEF Common!Recategorize
<1>13. Charged!Edit => Common!Edit
  BY <1>1, <1>7 DEF Charged!Edit, Common!Edit
<1>14. Charged!Delete => Common!Delete
  BY <1>1, <1>7 DEF Charged!Delete, Common!Delete
<1>15. Charged!Subscribe => Common!Subscribe
  BY <1>1, <1>2, <1>6, <1>7 DEF Charged!Subscribe, Common!Subscribe
<1>16. Charged!Charge => Common!Charge
  BY <1>1, <1>2, <1>3, <1>5, <1>6 DEF Charged!Charge, Common!Charge
<1>17. Charged!Preview => Common!Preview
  BY DEF Charged!Preview
<1>18. Charged!CommitImport => Common!CommitImport
  BY <1>1, <1>2, <1>3, <1>5, <1>7 DEF Charged!CommitImport, Common!CommitImport
<1>. QED
  BY <1>8, <1>9, <1>10, <1>11, <1>12, <1>13, <1>14, <1>15, <1>16, <1>17, <1>18

-----------------------------------------------------------------------------
(* The export and the restore.                                             *)

LEMMA SubsetsExist ==
  ASSUME NEW S, IsFiniteSet(S), NEW k \in Nat, k <= Cardinality(S)
  PROVE  \E T \in SUBSET S : Cardinality(T) = k
<1> DEFINE n == Cardinality(S)
<1>1. n \in Nat /\ ExistsBijection(1..n, S)
  BY FS_CardinalityType
<1>2. PICK f : f \in Bijection(1..n, S)
  BY <1>1 DEF ExistsBijection
<1> HIDE DEF n
<1>3. f \in [1..n -> S] /\ \A i, j \in 1..n : f[i] = f[j] => i = j
  BY <1>2 DEF Bijection, Injection, IsInjective
<1> DEFINE T == {f[i] : i \in 1..k}
           g == [i \in 1..k |-> f[i]]
<1>4. \A i \in 1..k : i \in 1..n
  BY <1>1 DEF n
<1>5. T \in SUBSET S
  BY <1>3, <1>4
<1>6. g \in Bijection(1..k, T)
  <2>1. g \in [1..k -> T]
    OBVIOUS
  <2>2. \A i, j \in 1..k : g[i] = g[j] => i = j
    BY <1>3, <1>4
  <2>3. \A y \in T : \E i \in 1..k : g[i] = y
    OBVIOUS
  <2>. QED
    BY <2>1, <2>2, <2>3 DEF Bijection, Injection, IsInjective, Surjection
<1> HIDE DEF T, g
<1>7. IsFiniteSet(1..k) /\ Cardinality(1..k) = k
  BY FS_Interval
<1>8. Cardinality(T) = k
  BY <1>6, <1>7, FS_Bijection DEF ExistsBijection
<1>. QED
  BY <1>5, <1>8

(* A document of the committed rows, all of them.                          *)
IsSnapshot(doc) ==
    /\ DOMAIN doc = Names9
    /\ \A t \in Names9 : /\ DOMAIN doc[t] = Common!Exportable(t)
                         /\ \A k \in DOMAIN doc[t] : doc[t][k] = Common!Column(t, db[t][k])

LEMMA ExportablesAre ==
  /\ Common!Exportable("batches") = {k \in DOMAIN db.batches : db.batches[k].status = "COMMITTED"}
  /\ Common!Exportable("rows") = {k \in DOMAIN db.rows : db.batches[k[1]].status = "COMMITTED"}
  /\ \A t \in Names9 \ {"batches", "rows"} : Common!Exportable(t) = DOMAIN db[t]
  /\ \A t \in Names9 : Common!Exportable(t) \subseteq DOMAIN db[t]
BY DEF Common!Exportable, Names9

(* The keys a read of at most that many rows and one returns.              *)
Taken(t, most) ==
    LET keys == Common!Exportable(t) IN
    IF Cardinality(keys) <= most + 1 THEN keys
    ELSE CHOOSE some \in {s \in SUBSET keys : Cardinality(s) = most + 1} : TRUE

IsTaken(doc, most) ==
    /\ doc = [t \in Names9 |-> [k \in Taken(t, most) |-> Common!Column(t, db[t][k])]]
    /\ \A t \in Names9 : Cardinality(DOMAIN doc[t]) <= most

LEMMA TakenIsSnapshot ==
  ASSUME Sound(db), NEW most \in Nat, NEW doc, IsTaken(doc, most)
  PROVE  IsSnapshot(doc)
<1>1. /\ DOMAIN doc = Names9
      /\ \A t \in Names9 : /\ DOMAIN doc[t] = Taken(t, most)
                           /\ \A k \in DOMAIN doc[t] : doc[t][k] = Common!Column(t, db[t][k])
                           /\ Cardinality(Taken(t, most)) <= most
  BY DEF IsTaken
<1>2. ASSUME NEW t \in Names9 PROVE Taken(t, most) = Common!Exportable(t)
  <2> DEFINE keys == Common!Exportable(t)
             some == {s \in SUBSET keys : Cardinality(s) = most + 1}
  <2>1. IsFiniteSet(keys)
    <3>1. IsFiniteSet(DOMAIN db[t]) /\ keys \in SUBSET DOMAIN db[t]
      BY ExportablesAre DEF Sound, Finite
    <3>. QED
      BY <3>1, FS_Subset
  <2>2. Taken(t, most) = IF Cardinality(keys) <= most + 1 THEN keys ELSE CHOOSE s \in some : TRUE
    BY DEF Taken
  <2> HIDE DEF keys
  <2>3. CASE ~(Cardinality(keys) <= most + 1)
    <3>1. Cardinality(keys) \in Nat
      BY <2>1, FS_CardinalityType
    <3>2. most + 1 \in Nat /\ most + 1 <= Cardinality(keys)
      BY <2>3, <3>1
    <3>3. \E s \in SUBSET keys : Cardinality(s) = most + 1
      BY <2>1, <3>2, SubsetsExist
    <3>4. Taken(t, most) \in some
      BY <2>2, <2>3, <3>3
    <3>5. Cardinality(Taken(t, most)) = most + 1
      BY <3>4
    <3>. QED
      BY <1>1, <3>5
  <2>. QED
    BY <2>2, <2>3 DEF keys
<1>. QED
  BY <1>1, <1>2 DEF IsSnapshot

(* What a document holds: a sound ledger of committed files, and of each    *)
(* category no more than its columns.                                      *)
IsDocument(doc) ==
    /\ Sound(doc)
    /\ \A f \in DOMAIN doc.batches : doc.batches[f].status = "COMMITTED"
    /\ \A c \in DOMAIN doc.categories :
          doc.categories[c] = [name |-> doc.categories[c].name, kind |-> doc.categories[c].kind,
                               system |-> doc.categories[c].system]

(* A ledger has the rows of another one, but for the previews it may lack,  *)
(* and but for the normalized names of categories.                         *)
SameRows(d, e) ==
    /\ DOMAIN e = Names9
    /\ DOMAIN e.categories = DOMAIN d.categories /\ DOMAIN e.budgets = DOMAIN d.budgets
    /\ DOMAIN e.rules = DOMAIN d.rules /\ DOMAIN e.subs = DOMAIN d.subs
    /\ DOMAIN e.txs = DOMAIN d.txs /\ DOMAIN e.occs = DOMAIN d.occs
    /\ DOMAIN e.audits = DOMAIN d.audits
    /\ DOMAIN e.batches \subseteq DOMAIN d.batches
    /\ \A f \in DOMAIN d.batches : d.batches[f].status = "COMMITTED" => f \in DOMAIN e.batches
    /\ DOMAIN e.rows = {k \in DOMAIN d.rows : k[1] \in DOMAIN e.batches}
    /\ \A t \in Names9 \ {"categories"} : \A k \in DOMAIN e[t] : e[t][k] = d[t][k]
    /\ \A c \in DOMAIN e.categories : /\ e.categories[c].name = d.categories[c].name
                                       /\ e.categories[c].kind = d.categories[c].kind
                                       /\ e.categories[c].system = d.categories[c].system

LEMMA SameRowsSound ==
  ASSUME NEW d, Sound(d), NEW e, SameRows(d, e)
  PROVE  Sound(e)
<1>1. /\ DOMAIN e.categories = DOMAIN d.categories /\ DOMAIN e.budgets = DOMAIN d.budgets
      /\ DOMAIN e.rules = DOMAIN d.rules /\ DOMAIN e.subs = DOMAIN d.subs
      /\ DOMAIN e.txs = DOMAIN d.txs /\ DOMAIN e.occs = DOMAIN d.occs
      /\ DOMAIN e.audits = DOMAIN d.audits
      /\ DOMAIN e.batches \subseteq DOMAIN d.batches
      /\ \A f \in DOMAIN d.batches : d.batches[f].status = "COMMITTED" => f \in DOMAIN e.batches
      /\ DOMAIN e.rows = {k \in DOMAIN d.rows : k[1] \in DOMAIN e.batches}
  BY DEF SameRows
<1>2. /\ \A k \in DOMAIN e.rules : e.rules[k] = d.rules[k]
      /\ \A k \in DOMAIN e.subs : e.subs[k] = d.subs[k]
      /\ \A k \in DOMAIN e.txs : e.txs[k] = d.txs[k]
      /\ \A k \in DOMAIN e.occs : e.occs[k] = d.occs[k]
      /\ \A k \in DOMAIN e.audits : e.audits[k] = d.audits[k]
      /\ \A k \in DOMAIN e.batches : e.batches[k] = d.batches[k]
      /\ \A k \in DOMAIN e.rows : e.rows[k] = d.rows[k]
  BY DEF SameRows, Names9
<1>3. \A c \in DOMAIN e.categories : /\ e.categories[c].name = d.categories[c].name
                                     /\ e.categories[c].kind = d.categories[c].kind
                                     /\ e.categories[c].system = d.categories[c].system
  BY DEF SameRows
<1>4. Finite(e)
  <2> SUFFICES ASSUME NEW t \in Names9 PROVE IsFiniteSet(DOMAIN e[t])
    BY DEF Finite
  <2>1. IsFiniteSet(DOMAIN d[t]) /\ DOMAIN e[t] \in SUBSET DOMAIN d[t]
    BY <1>1 DEF Sound, Finite, Names9
  <2>. QED
    BY <2>1, FS_Subset
<1>5. Linked(e)
  <2>1. Linked(d)
    BY DEF Sound
  <2>2. \A value : /\ Leads(value, d.categories) <=> Leads(value, e.categories)
                   /\ Leads(value, d.rules) <=> Leads(value, e.rules)
                   /\ Leads(value, d.txs) <=> Leads(value, e.txs)
    BY <1>1 DEF Leads
  <2>3. /\ \A k \in DOMAIN e.budgets : k[1] \in DOMAIN e.categories
        /\ \A m \in DOMAIN e.rules : e.rules[m].category \in DOMAIN e.categories
        /\ \A p \in DOMAIN e.subs : e.subs[p].category \in DOMAIN e.categories
    BY <1>1, <1>2, <2>1 DEF Linked
  <2>4. \A t \in DOMAIN e.txs : /\ Leads(e.txs[t].category, e.categories)
                                  /\ Leads(e.txs[t].rule, e.rules)
                                  /\ Leads(e.txs[t].pending, e.txs)
    BY <1>1, <1>2, <2>1, <2>2 DEF Linked
  <2>5. \A k \in DOMAIN e.occs : k[1] \in DOMAIN e.subs /\ e.occs[k].tx \in DOMAIN e.txs
    BY <1>1, <1>2, <2>1 DEF Linked
  <2>6. \A n \in DOMAIN e.audits :
          /\ e.audits[n].tx \in DOMAIN e.txs
          /\ Leads(e.audits[n].old, e.categories) /\ Leads(e.audits[n].new, e.categories)
          /\ Leads(e.audits[n].oldRule, e.rules) /\ Leads(e.audits[n].newRule, e.rules)
    BY <1>1, <1>2, <2>1, <2>2 DEF Linked
  <2>7. \A k \in DOMAIN e.rows : k[1] \in DOMAIN e.batches /\ Leads(e.rows[k].tx, e.txs)
    BY <1>1, <1>2, <2>1, <2>2 DEF Linked
  <2>. QED
    BY <2>3, <2>4, <2>5, <2>6, <2>7 DEF Linked
<1>6. CategoriesFit(e.categories)
  <2>1. {e.categories[c].system : c \in DOMAIN e.categories}
          = {d.categories[c].system : c \in DOMAIN d.categories}
    BY <1>1, <1>3
  <2>. QED
    BY <1>1, <1>3, <2>1 DEF Sound, CategoriesFit
<1>7. Spends(e)
  <2>1. /\ \A k \in DOMAIN e.budgets : k[1] \in DOMAIN e.categories
        /\ \A p \in DOMAIN e.subs : e.subs[p].category \in DOMAIN e.categories
    BY <1>5 DEF Linked
  <2>2. \A k \in DOMAIN e.budgets : e.categories[k[1]].kind = "EXPENSE"
    BY <1>1, <1>3, <2>1 DEF Sound, Spends
  <2>3. \A p \in DOMAIN e.subs : e.categories[e.subs[p].category].kind = "EXPENSE"
    BY <1>1, <1>2, <1>3, <2>1 DEF Sound, Spends
  <2>. QED
    BY <2>2, <2>3 DEF Spends
<1>8. TxsFit(e.txs)
  <2>1. \A id : InGroup(e.txs, id) = InGroup(d.txs, id)
    BY <1>1, <1>2 DEF InGroup
  <2>2. ASSUME NEW t \in DOMAIN e.txs PROVE GroupFits(e.txs, t)
    <3>1. GroupFits(d.txs, t) /\ e.txs[t] = d.txs[t]
      BY <1>1, <1>2 DEF Sound, TxsFit
    <3>2. \A s \in InGroup(d.txs, d.txs[t].group[1].id) : e.txs[s] = d.txs[s]
      BY <1>1, <1>2 DEF InGroup
    <3>. QED
      BY <1>1, <2>1, <3>1, <3>2 DEF GroupFits
  <2>3. Acyclic(e.txs)
    <3>1. Acyclic(d.txs)
      BY DEF Sound, TxsFit
    <3> SUFFICES ASSUME NEW some \in (SUBSET DOMAIN e.txs) \ {{}}
                 PROVE  \E u \in some : \A i \in DOMAIN e.txs[u].pending : e.txs[u].pending[i] \notin some
      BY DEF Acyclic
    <3>2. PICK u \in some : \A i \in DOMAIN d.txs[u].pending : d.txs[u].pending[i] \notin some
      BY <1>1, <3>1 DEF Acyclic
    <3>. QED
      BY <1>1, <1>2, <3>2
  <2>. QED
    BY <1>1, <1>2, <2>2, <2>3 DEF Sound, TxsFit
<1>9. OccsFit(e.occs, e.txs)
  <2>1. \A k \in DOMAIN d.occs : e.occs[k] = d.occs[k] /\ e.txs[d.occs[k].tx] = d.txs[d.occs[k].tx]
    BY <1>1, <1>2 DEF Sound, Linked
  <2>. QED
    BY <1>1, <2>1 DEF Sound, OccsFit
<1>10. RowsFit(e.rows)
  BY <1>1, <1>2 DEF Sound, RowsFit
<1>11. FilesFit(e.txs, e.batches)
  BY <1>1, <1>2 DEF Sound, FilesFit
<1>. QED
  BY <1>4, <1>5, <1>6, <1>7, <1>8, <1>9, <1>10, <1>11 DEF Sound, SameRows

LEMMA SnapshotIsDocument ==
  ASSUME Sound(db), NEW doc, IsSnapshot(doc)
  PROVE  IsDocument(doc)
<1>1. /\ DOMAIN doc.categories = DOMAIN db.categories /\ DOMAIN doc.budgets = DOMAIN db.budgets
      /\ DOMAIN doc.rules = DOMAIN db.rules /\ DOMAIN doc.subs = DOMAIN db.subs
      /\ DOMAIN doc.txs = DOMAIN db.txs /\ DOMAIN doc.occs = DOMAIN db.occs
      /\ DOMAIN doc.audits = DOMAIN db.audits
      /\ DOMAIN doc.batches = {k \in DOMAIN db.batches : db.batches[k].status = "COMMITTED"}
      /\ DOMAIN doc.rows = {k \in DOMAIN db.rows : db.batches[k[1]].status = "COMMITTED"}
  BY ExportablesAre DEF IsSnapshot, Names9
<1>2. \A t \in Names9 \ {"categories"} : \A k \in DOMAIN doc[t] : doc[t][k] = db[t][k]
  BY DEF IsSnapshot, Common!Column
<1>3. ASSUME NEW c \in DOMAIN doc.categories
      PROVE  /\ doc.categories[c].name = db.categories[c].name
             /\ doc.categories[c].kind = db.categories[c].kind
             /\ doc.categories[c].system = db.categories[c].system
             /\ doc.categories[c] = [name |-> db.categories[c].name, kind |-> db.categories[c].kind,
                                     system |-> db.categories[c].system]
  <2> DEFINE row == [name |-> db.categories[c].name, kind |-> db.categories[c].kind,
                     system |-> db.categories[c].system]
  <2>1. /\ row.name = db.categories[c].name /\ row.kind = db.categories[c].kind
        /\ row.system = db.categories[c].system
    OBVIOUS
  <2>2. doc.categories[c] = row
    BY DEF IsSnapshot, Common!Column, Names9
  <2>3. row = [name |-> db.categories[c].name, kind |-> db.categories[c].kind,
               system |-> db.categories[c].system]
    OBVIOUS
  <2> HIDE DEF row
  <2>. QED
    BY <2>1, <2>2, <2>3
<1>4. DOMAIN doc.rows = {k \in DOMAIN db.rows : k[1] \in DOMAIN doc.batches}
  BY <1>1 DEF Sound, Linked
<1>5. SameRows(db, doc)
  BY <1>1, <1>2, <1>3, <1>4 DEF SameRows, IsSnapshot
<1>6. Sound(doc)
  BY <1>5, SameRowsSound
<1>7. \A f \in DOMAIN doc.batches : doc.batches[f].status = "COMMITTED"
  BY <1>1, <1>2 DEF Names9
<1>. QED
  BY <1>3, <1>6, <1>7 DEF IsDocument

(* What the restore writes.                                                *)
LEMMA RestoredIs ==
  ASSUME NEW doc, IsDocument(doc)
  PROVE  LET new == Common!Restored(doc) IN
         /\ Sound(new)
         /\ DOMAIN new = Names9
         /\ \A t \in Names9 : DOMAIN new[t] = DOMAIN doc[t]
         /\ \A t \in Names9 : \A k \in DOMAIN doc[t] : Common!Column(t, new[t][k]) = doc[t][k]
<1> DEFINE new == Common!Restored(doc)
<1>1. DOMAIN new = Names9 /\ \A t \in Names9 : DOMAIN new[t] = DOMAIN doc[t]
  BY TablesAre DEF Common!Restored
<1>2. \A t \in Names9 \ {"categories"} : \A k \in DOMAIN doc[t] : new[t][k] = doc[t][k]
  BY TablesAre DEF Common!Restored, Common!RestoredRow
<1>4. ASSUME NEW c \in DOMAIN doc.categories
      PROVE  /\ new.categories[c].name = doc.categories[c].name
             /\ new.categories[c].kind = doc.categories[c].kind
             /\ new.categories[c].system = doc.categories[c].system
  <2>1. \E norm : new.categories[c] = Common!Normalized(doc.categories[c], norm)
    BY TablesAre DEF Common!Restored, Common!RestoredRow, Names9
  <2>2. \A row, norm : /\ Common!Normalized(row, norm).name = row.name
                      /\ Common!Normalized(row, norm).kind = row.kind
                      /\ Common!Normalized(row, norm).system = row.system
    BY DEF Common!Normalized
  <2>. QED
    BY <2>1, <2>2
<1> HIDE DEF new
<1>5. \A t \in Names9 : \A k \in DOMAIN doc[t] : Common!Column(t, new[t][k]) = doc[t][k]
  BY <1>2, <1>4 DEF Common!Column, IsDocument
<1>6. SameRows(doc, new)
  <2>1. DOMAIN doc.rows = {k \in DOMAIN doc.rows : k[1] \in DOMAIN doc.batches}
    BY DEF IsDocument, Sound, Linked
  <2>. QED
    BY <1>1, <1>2, <1>4, <2>1 DEF SameRows, Names9
<1>7. Sound(new)
  BY <1>6, SameRowsSound DEF IsDocument
<1>. QED
  BY <1>1, <1>5, <1>7 DEF new

-----------------------------------------------------------------------------
(* Every step of an instance, with the number of rows it reads.            *)

Exports(most) ==
    /\ UNCHANGED <<db, edits>>
    /\ document' = document \/ \E doc : document' = <<doc>> /\ IsTaken(doc, most)

Restores ==
    /\ UNCHANGED <<document, edits>> /\ document # <<>>
    /\ db' = db \/ db' = Common!Restored(document[1])

Steps(most) ==
    \/ OwnerStep /\ edits' = edits + 1 /\ document' = document
    \/ Exports(most)
    \/ Restores

LEMMA WholeExports == Whole!Export => Exports(MaxRecords)
<1> SUFFICES ASSUME Whole!Export PROVE Exports(MaxRecords)
  OBVIOUS
<1> DEFINE doc == Whole!Snapshot
<1>1. Whole!Tables = Names9
  BY TablesAre DEF Whole!Tables, Common!Tables, Whole!Order, Common!Order, Whole!ToSet, Common!ToSet
<1>2. \A S : Whole!Cardinality(S) = Cardinality(S)
  BY DEF Whole!Cardinality, Cardinality
<1>4. \A t : Whole!Selected(t) = Taken(t, MaxRecords)
  BY DEF Whole!Selected, Whole!ReadUpTo, Whole!kSubset, Whole!Exportable, Whole!Cardinality,
       Taken, Common!Exportable, Cardinality
<1>5. \A t, row : Whole!Column(t, row) = Common!Column(t, row)
  BY DEF Whole!Column, Common!Column
<1>6. doc = [t \in Names9 |-> [k \in Taken(t, MaxRecords) |-> Common!Column(t, db[t][k])]]
  BY <1>1, <1>4, <1>5 DEF Whole!Snapshot
<1>7. /\ UNCHANGED <<db, edits>>
      /\ document' = document \/ (document' = <<doc>> /\ Whole!WithinLimits(doc))
  BY DEF Whole!Export
<1> HIDE DEF doc
<1>8. Whole!WithinLimits(doc) => \A t \in Names9 : Cardinality(DOMAIN doc[t]) <= MaxRecords
  BY <1>1, <1>2 DEF Whole!WithinLimits, Whole!Count
<1>. QED
  BY <1>6, <1>7, <1>8 DEF Exports, IsTaken

LEMMA LimitedExports == Limited!Export => Exports(FewRecords)
<1> SUFFICES ASSUME Limited!Export PROVE Exports(FewRecords)
  OBVIOUS
<1> DEFINE doc == Limited!Snapshot
<1>1. Limited!Tables = Names9
  BY TablesAre DEF Limited!Tables, Common!Tables, Limited!Order, Common!Order, Limited!ToSet, Common!ToSet
<1>2. \A S : Limited!Cardinality(S) = Cardinality(S)
  BY DEF Limited!Cardinality, Cardinality
<1>4. \A t : Limited!Selected(t) = Taken(t, FewRecords)
  BY DEF Limited!Selected, Limited!ReadUpTo, Limited!kSubset, Limited!Exportable, Limited!Cardinality,
       Taken, Common!Exportable, Cardinality
<1>5. \A t, row : Limited!Column(t, row) = Common!Column(t, row)
  BY DEF Limited!Column, Common!Column
<1>6. doc = [t \in Names9 |-> [k \in Taken(t, FewRecords) |-> Common!Column(t, db[t][k])]]
  BY <1>1, <1>4, <1>5 DEF Limited!Snapshot
<1>7. /\ UNCHANGED <<db, edits>>
      /\ document' = document \/ (document' = <<doc>> /\ Limited!WithinLimits(doc))
  BY DEF Limited!Export
<1> HIDE DEF doc
<1>8. Limited!WithinLimits(doc) => \A t \in Names9 : Cardinality(DOMAIN doc[t]) <= FewRecords
  BY <1>1, <1>2 DEF Limited!WithinLimits, Limited!Count
<1>. QED
  BY <1>6, <1>7, <1>8 DEF Exports, IsTaken

LEMMA ChargedExports == Charged!Export => Exports(MaxRecords)
<1> SUFFICES ASSUME Charged!Export PROVE Exports(MaxRecords)
  OBVIOUS
<1> DEFINE doc == Charged!Snapshot
<1>1. Charged!Tables = Names9
  BY TablesAre DEF Charged!Tables, Common!Tables, Charged!Order, Common!Order, Charged!ToSet, Common!ToSet
<1>2. \A S : Charged!Cardinality(S) = Cardinality(S)
  BY DEF Charged!Cardinality, Cardinality
<1>4. \A t : Charged!Selected(t) = Taken(t, MaxRecords)
  BY DEF Charged!Selected, Charged!ReadUpTo, Charged!kSubset, Charged!Exportable, Charged!Cardinality,
       Taken, Common!Exportable, Cardinality
<1>5. \A t, row : Charged!Column(t, row) = Common!Column(t, row)
  BY DEF Charged!Column, Common!Column
<1>6. doc = [t \in Names9 |-> [k \in Taken(t, MaxRecords) |-> Common!Column(t, db[t][k])]]
  BY <1>1, <1>4, <1>5 DEF Charged!Snapshot
<1>7. /\ UNCHANGED <<db, edits>>
      /\ document' = document \/ (document' = <<doc>> /\ Charged!WithinLimits(doc))
  BY DEF Charged!Export
<1> HIDE DEF doc
<1>8. Charged!WithinLimits(doc) => \A t \in Names9 : Cardinality(DOMAIN doc[t]) <= MaxRecords
  BY <1>1, <1>2 DEF Charged!WithinLimits, Charged!Count
<1>. QED
  BY <1>6, <1>7, <1>8 DEF Exports, IsTaken

LEMMA WholeRestores == Whole!Restore => Restores
<1>1. Whole!Tables = Common!Tables
  BY DEF Whole!Tables, Common!Tables, Whole!Order, Common!Order, Whole!ToSet, Common!ToSet
<1>2. \A doc : Whole!Restored(doc) = Common!Restored(doc)
  BY <1>1 DEF Whole!Restored, Common!Restored, Whole!RestoredRow, Common!RestoredRow,
       Whole!Normalized, Common!Normalized, Whole!IsSystem, Common!IsSystem, Whole!Null, Common!Null
<1>. QED
  BY <1>2 DEF Whole!Restore, Whole!Null, Restores

LEMMA LimitedRestores == Limited!Restore => Restores
<1>1. Limited!Tables = Common!Tables
  BY DEF Limited!Tables, Common!Tables, Limited!Order, Common!Order, Limited!ToSet, Common!ToSet
<1>2. \A doc : Limited!Restored(doc) = Common!Restored(doc)
  BY <1>1 DEF Limited!Restored, Common!Restored, Limited!RestoredRow, Common!RestoredRow,
       Limited!Normalized, Common!Normalized, Limited!IsSystem, Common!IsSystem, Limited!Null, Common!Null
<1>. QED
  BY <1>2 DEF Limited!Restore, Limited!Null, Restores

LEMMA ChargedRestores == Charged!Restore => Restores
<1>1. Charged!Tables = Common!Tables
  BY DEF Charged!Tables, Common!Tables, Charged!Order, Common!Order, Charged!ToSet, Common!ToSet
<1>2. \A doc : Charged!Restored(doc) = Common!Restored(doc)
  BY <1>1 DEF Charged!Restored, Common!Restored, Charged!RestoredRow, Common!RestoredRow,
       Charged!Normalized, Common!Normalized, Charged!IsSystem, Common!IsSystem, Charged!Null, Common!Null
<1>. QED
  BY <1>2 DEF Charged!Restore, Charged!Null, Restores

CommonOwner ==
    \/ Common!CreateCategory \/ Common!SetBudget \/ Common!Record \/ Common!RecordInstallments
    \/ Common!Recategorize \/ Common!Edit \/ Common!Delete \/ Common!Subscribe
    \/ Common!Charge \/ Common!Preview \/ Common!CommitImport

LEMMA CommonCounts == CommonOwner => edits' = edits + 1 /\ document' = document
<1>1. \A tables : Common!Does(tables) => edits' = edits + 1 /\ document' = document
  BY DEF Common!Does
<1>2. Common!CreateCategory => edits' = edits + 1 /\ document' = document
  BY <1>1 DEF Common!CreateCategory
<1>3. Common!SetBudget => edits' = edits + 1 /\ document' = document
  BY <1>1 DEF Common!SetBudget
<1>4. Common!Record => edits' = edits + 1 /\ document' = document
  BY <1>1 DEF Common!Record
<1>5. Common!RecordInstallments => edits' = edits + 1 /\ document' = document
  BY <1>1 DEF Common!RecordInstallments
<1>6. Common!Recategorize => edits' = edits + 1 /\ document' = document
  BY <1>1 DEF Common!Recategorize
<1>7. Common!Edit => edits' = edits + 1 /\ document' = document
  BY <1>1 DEF Common!Edit
<1>8. Common!Delete => edits' = edits + 1 /\ document' = document
  BY <1>1 DEF Common!Delete
<1>9. Common!Subscribe => edits' = edits + 1 /\ document' = document
  BY <1>1 DEF Common!Subscribe
<1>10. Common!Charge => edits' = edits + 1 /\ document' = document
  BY <1>1 DEF Common!Charge
<1>11. Common!Preview => edits' = edits + 1 /\ document' = document
  BY <1>1 DEF Common!Preview
<1>12. Common!CommitImport => edits' = edits + 1 /\ document' = document
  BY <1>1 DEF Common!CommitImport
<1>. QED
  BY <1>2, <1>3, <1>4, <1>5, <1>6, <1>7, <1>8, <1>9, <1>10, <1>11, <1>12 DEF CommonOwner

LEMMA CommonSteps ==
  ASSUME Sound(db), Common!SizeAssumption, CommonOwner
  PROVE  OwnerStep /\ edits' = edits + 1 /\ document' = document
BY CommonPlain, CommonRecords, CommonGroups, CommonCorrects, CommonEdits, CommonDeletes, CommonCharges,
   CommonCommits, CommonCounts DEF CommonOwner, OwnerStep

LEMMA SizesAre ==
  /\ Common!SizeAssumption
  /\ MaxChanges \in Nat /\ PlanChanges \in Nat /\ MaxRecords \in Nat /\ FewRecords \in Nat
<1>1. Whole!SizeAssumption /\ Limited!SizeAssumption /\ Charged!SizeAssumption
  BY BackupsAssumption DEF Whole!BackupAssumption, Limited!BackupAssumption, Charged!BackupAssumption
<1>2. MaxChanges \in Nat /\ PlanChanges \in Nat /\ MaxRecords \in Nat /\ FewRecords \in Nat
  BY <1>1 DEF Whole!SizeAssumption, Limited!SizeAssumption, Charged!SizeAssumption
<1>3. Common!IsFiniteSet(TxIds \cup FewTxIds)
  <2>1. IsFiniteSet(TxIds) /\ IsFiniteSet(FewTxIds)
    BY <1>1 DEF Whole!SizeAssumption, Charged!SizeAssumption, Whole!IsFiniteSet, Charged!IsFiniteSet, IsFiniteSet
  <2>2. IsFiniteSet(TxIds \cup FewTxIds)
    BY <2>1, FS_Union
  <2>. QED
    BY <2>2 DEF IsFiniteSet, Common!IsFiniteSet
<1>4. Common!IsFiniteSet(DOMAIN Seeded)
  BY <1>1 DEF Whole!SizeAssumption, Whole!IsFiniteSet, Common!IsFiniteSet
<1>5. /\ DOMAIN Legacy \subseteq TxIds \cup FewTxIds /\ TxIds \cup FewTxIds \subseteq Nat
      /\ \A n \in GroupSizes : n \in 2..60
      /\ MaxChanges + PlanChanges \in Nat /\ MaxTotal \in Nat
  BY <1>1, <1>2 DEF Whole!SizeAssumption, Charged!SizeAssumption
<1>. QED
  BY <1>2, <1>3, <1>4, <1>5 DEF Common!SizeAssumption

LEMMA WholeSteps == Sound(db) /\ edits \in Nat /\ Whole!Next => Steps(MaxRecords)
BY SizesAre, WholeIsCommon, CommonSteps, WholeExports, WholeRestores DEF Whole!Next, CommonOwner, Steps

LEMMA LimitedSteps == Sound(db) /\ edits \in Nat /\ Limited!Next => Steps(FewRecords)
BY SizesAre, LimitedIsCommon, CommonSteps, LimitedExports, LimitedRestores DEF Limited!Next, CommonOwner, Steps

LEMMA ChargedSteps == Sound(db) /\ edits \in Nat /\ Charged!Next => Steps(MaxRecords)
BY SizesAre, ChargedIsCommon, CommonSteps, ChargedExports, ChargedRestores DEF Charged!Next, CommonOwner, Steps

LEMMA WholeAccepts == \A d : Whole!Accepts(d) <=> Common!Accepts(d)
BY DEF Whole!Accepts, Whole!Resolves, Whole!References, Whole!Optional, Whole!Tables, Whole!Order, Whole!ToSet,
       Whole!HasUniqueValues, Whole!Distinct, Whole!Merged, Whole!Null, Whole!HasSystemCategories, Whole!IsSystem,
       Whole!KindIn, Whole!SpendsOnly, Whole!Identified, Whole!HasWholeGroups, Whole!Group, Whole!Cardinality,
       Whole!ResolvesRows, Whole!IsCharge, Whole!HasNoCycle,
       Common!Accepts, Common!Resolves, Common!References, Common!Optional, Common!Tables, Common!Order, Common!ToSet,
       Common!HasUniqueValues, Common!Distinct, Common!Merged, Common!Null, Common!HasSystemCategories,
       Common!IsSystem, Common!KindIn, Common!SpendsOnly, Common!Identified, Common!HasWholeGroups, Common!Group,
       Common!Cardinality, Common!ResolvesRows, Common!IsCharge, Common!HasNoCycle

LEMMA LimitedAccepts == \A d : Limited!Accepts(d) <=> Common!Accepts(d)
BY DEF Limited!Accepts, Limited!Resolves, Limited!References, Limited!Optional, Limited!Tables, Limited!Order, Limited!ToSet,
       Limited!HasUniqueValues, Limited!Distinct, Limited!Merged, Limited!Null, Limited!HasSystemCategories, Limited!IsSystem,
       Limited!KindIn, Limited!SpendsOnly, Limited!Identified, Limited!HasWholeGroups, Limited!Group, Limited!Cardinality,
       Limited!ResolvesRows, Limited!IsCharge, Limited!HasNoCycle,
       Common!Accepts, Common!Resolves, Common!References, Common!Optional, Common!Tables, Common!Order, Common!ToSet,
       Common!HasUniqueValues, Common!Distinct, Common!Merged, Common!Null, Common!HasSystemCategories,
       Common!IsSystem, Common!KindIn, Common!SpendsOnly, Common!Identified, Common!HasWholeGroups, Common!Group,
       Common!Cardinality, Common!ResolvesRows, Common!IsCharge, Common!HasNoCycle

LEMMA ChargedAccepts == \A d : Charged!Accepts(d) <=> Common!Accepts(d)
BY DEF Charged!Accepts, Charged!Resolves, Charged!References, Charged!Optional, Charged!Tables, Charged!Order, Charged!ToSet,
       Charged!HasUniqueValues, Charged!Distinct, Charged!Merged, Charged!Null, Charged!HasSystemCategories, Charged!IsSystem,
       Charged!KindIn, Charged!SpendsOnly, Charged!Identified, Charged!HasWholeGroups, Charged!Group, Charged!Cardinality,
       Charged!ResolvesRows, Charged!IsCharge, Charged!HasNoCycle,
       Common!Accepts, Common!Resolves, Common!References, Common!Optional, Common!Tables, Common!Order, Common!ToSet,
       Common!HasUniqueValues, Common!Distinct, Common!Merged, Common!Null, Common!HasSystemCategories,
       Common!IsSystem, Common!KindIn, Common!SpendsOnly, Common!Identified, Common!HasWholeGroups, Common!Group,
       Common!Cardinality, Common!ResolvesRows, Common!IsCharge, Common!HasNoCycle

LEMMA WholeBegins == Whole!Init => Sound(db) /\ edits \in Nat /\ document = <<>>
<1> SUFFICES ASSUME Whole!Init PROVE Sound(db) /\ edits \in Nat /\ document = <<>>
  OBVIOUS
<1>1. Whole!SizeAssumption /\ Whole!Accepts(Whole!Begun)
  BY BackupsAssumption DEF Whole!BackupAssumption
<1>2. db = Whole!Begun /\ edits = 0 /\ document = <<>>
  BY DEF Whole!Init, Whole!Null
<1>3. Whole!Tables = Names9
  BY TablesAre DEF Whole!Tables, Common!Tables, Whole!Order, Common!Order, Whole!ToSet, Common!ToSet
<1>4. /\ DOMAIN db = Names9 /\ db.txs = Legacy
      /\ DOMAIN db.categories = DOMAIN Seeded
      /\ \A t \in Names9 \ {"categories", "txs"} : db[t] = <<>>
  BY <1>2, <1>3 DEF Whole!Begun, Names9
<1>5. DOMAIN <<>> = {}
  OBVIOUS
<1>6. Finite(db)
  <2>1. IsFiniteSet(DOMAIN Seeded) /\ IsFiniteSet(TxIds) /\ DOMAIN Legacy \in SUBSET TxIds
    BY <1>1 DEF Whole!SizeAssumption, Whole!IsFiniteSet, IsFiniteSet
  <2>2. IsFiniteSet(DOMAIN Legacy) /\ IsFiniteSet({})
    BY <2>1, FS_Subset, FS_EmptySet
  <2>. QED
    BY <1>4, <1>5, <2>1, <2>2 DEF Finite
<1>7. \A t \in DOMAIN db.txs :
         /\ DOMAIN db.txs[t] = TxFields /\ db.txs[t].amount \in Int /\ db.txs[t].reimbursed \in Int
         /\ \A f \in Files : db.txs[t].fingerprint # <<f>>
         /\ db.txs[t].group # <<>> => db.txs[t].group[1].id \in DOMAIN db.txs
  <2>1. DOMAIN Whole!Transaction("MANUAL", 1, "") = TxFields
    BY DEF Whole!Transaction, TxFields
  <2>. QED
    BY <1>4, <2>1, BackupsAssumption DEF Whole!BackupAssumption, Whole!Null
<1>8. DOMAIN db.occs = {} /\ DOMAIN db.rows = {} /\ DOMAIN db.batches = {}
  BY <1>4, <1>5 DEF Names9
<1>9. Sound(db)
  BY <1>1, <1>2, <1>4, <1>6, <1>7, <1>8, WholeAccepts, FirstIsSound
<1>. QED
  BY <1>2, <1>9

LEMMA LimitedBegins == Limited!Init => Sound(db) /\ edits \in Nat /\ document = <<>>
<1> SUFFICES ASSUME Limited!Init PROVE Sound(db) /\ edits \in Nat /\ document = <<>>
  OBVIOUS
<1>1. Limited!SizeAssumption /\ Limited!Accepts(Limited!Begun)
  BY BackupsAssumption DEF Limited!BackupAssumption
<1>2. db = Limited!Begun /\ edits = 0 /\ document = <<>>
  BY DEF Limited!Init, Limited!Null
<1>3. Limited!Tables = Names9
  BY TablesAre DEF Limited!Tables, Common!Tables, Limited!Order, Common!Order, Limited!ToSet, Common!ToSet
<1>4. /\ DOMAIN db = Names9 /\ db.txs = Legacy
      /\ DOMAIN db.categories = DOMAIN Seeded
      /\ \A t \in Names9 \ {"categories", "txs"} : db[t] = <<>>
  BY <1>2, <1>3 DEF Limited!Begun, Names9
<1>5. DOMAIN <<>> = {}
  OBVIOUS
<1>6. Finite(db)
  <2>1. IsFiniteSet(DOMAIN Seeded) /\ IsFiniteSet(TxIds) /\ DOMAIN Legacy \in SUBSET TxIds
    BY <1>1 DEF Limited!SizeAssumption, Limited!IsFiniteSet, IsFiniteSet
  <2>2. IsFiniteSet(DOMAIN Legacy) /\ IsFiniteSet({})
    BY <2>1, FS_Subset, FS_EmptySet
  <2>. QED
    BY <1>4, <1>5, <2>1, <2>2 DEF Finite
<1>7. \A t \in DOMAIN db.txs :
         /\ DOMAIN db.txs[t] = TxFields /\ db.txs[t].amount \in Int /\ db.txs[t].reimbursed \in Int
         /\ \A f \in Files : db.txs[t].fingerprint # <<f>>
         /\ db.txs[t].group # <<>> => db.txs[t].group[1].id \in DOMAIN db.txs
  <2>1. DOMAIN Limited!Transaction("MANUAL", 1, "") = TxFields
    BY DEF Limited!Transaction, TxFields
  <2>. QED
    BY <1>4, <2>1, BackupsAssumption DEF Limited!BackupAssumption, Limited!Null
<1>8. DOMAIN db.occs = {} /\ DOMAIN db.rows = {} /\ DOMAIN db.batches = {}
  BY <1>4, <1>5 DEF Names9
<1>9. Sound(db)
  BY <1>1, <1>2, <1>4, <1>6, <1>7, <1>8, LimitedAccepts, FirstIsSound
<1>. QED
  BY <1>2, <1>9

LEMMA ChargedBegins == Charged!Init => Sound(db) /\ edits \in Nat /\ document = <<>>
<1> SUFFICES ASSUME Charged!Init PROVE Sound(db) /\ edits \in Nat /\ document = <<>>
  OBVIOUS
<1>1. Charged!SizeAssumption /\ Charged!Accepts(Charged!Begun)
  BY BackupsAssumption DEF Charged!BackupAssumption
<1>2. db = Charged!Begun /\ edits = 0 /\ document = <<>>
  BY DEF Charged!Init, Charged!Null
<1>3. Charged!Tables = Names9
  BY TablesAre DEF Charged!Tables, Common!Tables, Charged!Order, Common!Order, Charged!ToSet, Common!ToSet
<1>4. /\ DOMAIN db = Names9 /\ db.txs = <<>>
      /\ DOMAIN db.categories = DOMAIN FewSeeded
      /\ \A t \in Names9 \ {"categories", "txs"} : db[t] = <<>>
  BY <1>2, <1>3 DEF Charged!Begun, Names9
<1>5. DOMAIN <<>> = {}
  OBVIOUS
<1>6. Finite(db)
  <2>1. IsFiniteSet(DOMAIN FewSeeded) /\ IsFiniteSet({})
    BY <1>1, FS_EmptySet DEF Charged!SizeAssumption, Charged!IsFiniteSet, IsFiniteSet
  <2>. QED
    BY <1>4, <1>5, <2>1 DEF Finite
<1>7. \A t \in DOMAIN db.txs :
         /\ DOMAIN db.txs[t] = TxFields /\ db.txs[t].amount \in Int /\ db.txs[t].reimbursed \in Int
         /\ \A f \in Files : db.txs[t].fingerprint # <<f>>
         /\ db.txs[t].group # <<>> => db.txs[t].group[1].id \in DOMAIN db.txs
  BY <1>4, <1>5
<1>8. DOMAIN db.occs = {} /\ DOMAIN db.rows = {} /\ DOMAIN db.batches = {}
  BY <1>4, <1>5 DEF Names9
<1>9. Sound(db)
  BY <1>1, <1>2, <1>4, <1>6, <1>7, <1>8, ChargedAccepts, FirstIsSound
<1>. QED
  BY <1>2, <1>9

-----------------------------------------------------------------------------
(* The invariant of the three ledgers: what they keep and what they have    *)
(* exported is sound.                                                      *)
LedgersAreSound ==
    case \in {"records", "plans", "limits"} =>
        /\ Sound(db) /\ edits \in Nat
        /\ document = <<>> \/ \E doc : document = <<doc>> /\ IsDocument(doc)

LEMMA StepsKeep ==
  ASSUME Sound(db), edits \in Nat, document = <<>> \/ \E doc : document = <<doc>> /\ IsDocument(doc),
         NEW most \in Nat, Steps(most)
  PROVE  /\ Sound(db') /\ edits' \in Nat
         /\ document' = <<>> \/ \E doc : document' = <<doc>> /\ IsDocument(doc)
<1>1. CASE OwnerStep /\ edits' = edits + 1 /\ document' = document
  BY <1>1, LedgerKeeps
<1>2. CASE Exports(most)
  <2>1. db' = db /\ edits' = edits
    BY <1>2 DEF Exports
  <2>2. CASE document' = document
    BY <2>1, <2>2
  <2>3. ASSUME NEW doc, document' = <<doc>>, IsTaken(doc, most) PROVE IsDocument(doc)
    BY <2>3, TakenIsSnapshot, SnapshotIsDocument
  <2>. QED
    BY <1>2, <2>1, <2>2, <2>3 DEF Exports
<1>3. CASE Restores
  <2>1. PICK doc : document = <<doc>> /\ IsDocument(doc)
    BY <1>3 DEF Restores
  <2>2. document[1] = doc
    BY <2>1
  <2>3. Sound(Common!Restored(doc))
    BY <2>1, RestoredIs
  <2>. QED
    BY <1>3, <2>1, <2>2, <2>3 DEF Restores
<1>. QED
  BY <1>1, <1>2, <1>3 DEF Steps

LEMMA InstanceSteps ==
  ASSUME LedgersAreSound, Next, case \in {"records", "plans", "limits"}
  PROVE  /\ case' = case
         /\ case = "limits" => Steps(FewRecords)
         /\ case # "limits" => Steps(MaxRecords)
<1>1. BackupStep
  BY DEF Next, GuardStep
<1>2. Sound(db) /\ edits \in Nat
  BY DEF LedgersAreSound
<1>. QED
  BY <1>1, <1>2, WholeSteps, LimitedSteps, ChargedSteps DEF BackupStep

LEMMA SoundBegins == Init => LedgersAreSound
BY WholeBegins, LimitedBegins, ChargedBegins DEF Init, LedgersAreSound

LEMMA SoundKept == LedgersAreSound /\ [Next]_vars => LedgersAreSound'
<1> SUFFICES ASSUME LedgersAreSound, [Next]_vars PROVE LedgersAreSound'
  OBVIOUS
<1>1. CASE UNCHANGED vars
  BY <1>1 DEF vars, backupVars, LedgersAreSound, Sound, Finite, Linked, Spends, IsDocument
<1>2. CASE Next
  <2>1. CASE case \in {"records", "plans", "limits"}
    <3>1. /\ Sound(db) /\ edits \in Nat
          /\ document = <<>> \/ \E doc : document = <<doc>> /\ IsDocument(doc)
      BY <2>1 DEF LedgersAreSound
    <3>2. case' = case /\ \E most \in Nat : Steps(most)
      BY <1>2, <2>1, InstanceSteps, SizesAre
    <3>3. /\ Sound(db') /\ edits' \in Nat
          /\ document' = <<>> \/ \E doc : document' = <<doc>> /\ IsDocument(doc)
      BY <3>1, <3>2, StepsKeep
    <3>. QED
      BY <3>3 DEF LedgersAreSound, Sound, Finite, Linked, Spends
  <2>2. CASE case \notin {"records", "plans", "limits"}
    <3>1. case' = case
      BY <1>2, <2>2 DEF Next, BackupStep, GuardStep
    <3>. QED
      BY <2>2, <3>1 DEF LedgersAreSound
  <2>. QED
    BY <2>1, <2>2
<1>. QED
  BY <1>1, <1>2

(* Every ledger the program can produce is sound, and so is every backup of *)
(* it: categories, rules, transactions and their groups, occurrences,       *)
(* audits and imported rows refer to what is there, whatever the owner did  *)
(* before and however often a backup was restored.                         *)
THEOREM LedgersStaySound == Spec => []LedgersAreSound
<1>. QED
  BY SoundBegins, SoundKept, PTL DEF Spec

-----------------------------------------------------------------------------
(* What the runs claim of the three ledgers.                               *)

(* A document is accepted, and the database restored from it has its rows   *)
(* and no reference that leads nowhere.                                     *)
BackupsAreAccepted ==
    LET doc == document[1] IN
    /\ case = "records" /\ document # <<>> /\ Whole!ChargesAsScheduled(doc) =>
          /\ Whole!Accepts(doc) /\ Whole!Resolves(Whole!Restored(doc))
          /\ \A t \in Whole!Tables : DOMAIN Whole!Restored(doc)[t] = DOMAIN doc[t]
    /\ case = "plans" /\ document # <<>> /\ Charged!ChargesAsScheduled(doc) =>
          /\ Charged!Accepts(doc) /\ Charged!Resolves(Charged!Restored(doc))
          /\ \A t \in Charged!Tables : DOMAIN Charged!Restored(doc)[t] = DOMAIN doc[t]

LEMMA WholeReads ==
  ASSUME NEW doc
  PROVE  /\ Whole!Accepts(doc) <=> Common!Accepts(doc)
         /\ Whole!ChargesAsScheduled(doc) <=> Common!ChargesAsScheduled(doc)
         /\ Whole!Restored(doc) = Common!Restored(doc)
         /\ Whole!Resolves(Common!Restored(doc)) <=> Common!Resolves(Common!Restored(doc))
         /\ Whole!Tables = Names9
<1>1. Whole!Tables = Common!Tables
  BY DEF Whole!Tables, Common!Tables, Whole!Order, Common!Order, Whole!ToSet, Common!ToSet
<1>2. Whole!Restored(doc) = Common!Restored(doc)
  BY <1>1 DEF Whole!Restored, Common!Restored, Whole!RestoredRow, Common!RestoredRow,
       Whole!Normalized, Common!Normalized, Whole!IsSystem, Common!IsSystem, Whole!Null, Common!Null
<1>3. \A d : Whole!Resolves(d) <=> Common!Resolves(d)
  BY <1>1 DEF Whole!Resolves, Common!Resolves, Whole!References, Common!References,
       Whole!Optional, Common!Optional, Whole!ToSet, Common!ToSet
<1>4. Whole!ChargesAsScheduled(doc) <=> Common!ChargesAsScheduled(doc)
  BY DEF Whole!ChargesAsScheduled, Common!ChargesAsScheduled
<1>. QED
  BY <1>1, <1>2, <1>3, <1>4, WholeAccepts, TablesAre

LEMMA ChargedReads ==
  ASSUME NEW doc
  PROVE  /\ Charged!Accepts(doc) <=> Common!Accepts(doc)
         /\ Charged!ChargesAsScheduled(doc) <=> Common!ChargesAsScheduled(doc)
         /\ Charged!Restored(doc) = Common!Restored(doc)
         /\ Charged!Resolves(Common!Restored(doc)) <=> Common!Resolves(Common!Restored(doc))
         /\ Charged!Tables = Names9
<1>1. Charged!Tables = Common!Tables
  BY DEF Charged!Tables, Common!Tables, Charged!Order, Common!Order, Charged!ToSet, Common!ToSet
<1>2. Charged!Restored(doc) = Common!Restored(doc)
  BY <1>1 DEF Charged!Restored, Common!Restored, Charged!RestoredRow, Common!RestoredRow,
       Charged!Normalized, Common!Normalized, Charged!IsSystem, Common!IsSystem, Charged!Null, Common!Null
<1>3. \A d : Charged!Resolves(d) <=> Common!Resolves(d)
  BY <1>1 DEF Charged!Resolves, Common!Resolves, Charged!References, Common!References,
       Charged!Optional, Common!Optional, Charged!ToSet, Common!ToSet
<1>4. Charged!ChargesAsScheduled(doc) <=> Common!ChargesAsScheduled(doc)
  BY DEF Charged!ChargesAsScheduled, Common!ChargesAsScheduled
<1>. QED
  BY <1>1, <1>2, <1>3, <1>4, ChargedAccepts, TablesAre

LEMMA SoundIsRestored ==
  ASSUME LedgersAreSound, case \in {"records", "plans"}, document # <<>>,
         Common!ChargesAsScheduled(document[1])
  PROVE  /\ Common!Accepts(document[1]) /\ Common!Resolves(Common!Restored(document[1]))
         /\ \A t \in Names9 : DOMAIN Common!Restored(document[1])[t] = DOMAIN document[1][t]
<1>1. PICK doc : document = <<doc>> /\ IsDocument(doc)
  BY DEF LedgersAreSound
<1>2. document[1] = doc /\ Sound(doc)
  BY <1>1 DEF IsDocument
<1>3. Common!Accepts(doc)
  BY <1>2, SoundIsAccepted
<1>4. /\ Sound(Common!Restored(doc))
      /\ \A t \in Names9 : DOMAIN Common!Restored(doc)[t] = DOMAIN doc[t]
  BY <1>1, RestoredIs
<1>5. Common!Resolves(Common!Restored(doc))
  BY <1>4, LinksAre DEF Sound
<1>. QED
  BY <1>2, <1>3, <1>4, <1>5

(* Every backup of a ledger the program can produce is one its own restore  *)
(* accepts: references, unique values, system categories, kinds, complete   *)
(* installment groups, resolved rows, charges and the absence of cycles, as *)
(* long as no charge was moved to another date or direction                 *)
(* (validateRestoreRelationships); and the restored tables have the rows of *)
(* the document, every reference resolved (verifyFullJsonRestoreEvidence).  *)
THEOREM BackupsAlwaysAccepted == Spec => []BackupsAreAccepted
<1>1. LedgersAreSound => BackupsAreAccepted
  <2> SUFFICES ASSUME LedgersAreSound PROVE BackupsAreAccepted
    OBVIOUS
  <2>1. ASSUME case = "records", document # <<>>, Whole!ChargesAsScheduled(document[1])
        PROVE  /\ Whole!Accepts(document[1]) /\ Whole!Resolves(Whole!Restored(document[1]))
               /\ \A t \in Whole!Tables : DOMAIN Whole!Restored(document[1])[t] = DOMAIN document[1][t]
    BY <2>1, WholeReads, SoundIsRestored
  <2>2. ASSUME case = "plans", document # <<>>, Charged!ChargesAsScheduled(document[1])
        PROVE  /\ Charged!Accepts(document[1]) /\ Charged!Resolves(Charged!Restored(document[1]))
               /\ \A t \in Charged!Tables : DOMAIN Charged!Restored(document[1])[t] = DOMAIN document[1][t]
    BY <2>2, ChargedReads, SoundIsRestored
  <2>. QED
    BY <2>1, <2>2 DEF BackupsAreAccepted
<1>. QED
  BY <1>1, LedgersStaySound, PTL

LEMMA ExportIsWhole ==
  ASSUME Sound(db), Exports(FewRecords)
  PROVE  Limited!WholeDocument
<1> SUFFICES ASSUME document' # document, NEW t \in Limited!Tables
             PROVE  DOMAIN document'[1][t] = Limited!Exportable(t)
  BY DEF Limited!WholeDocument
<1>1. PICK doc : document' = <<doc>> /\ IsTaken(doc, FewRecords)
  BY DEF Exports
<1>2. IsSnapshot(doc) /\ document'[1] = doc
  BY <1>1, SizesAre, TakenIsSnapshot
<1>3. t \in Names9
  BY TablesAre DEF Limited!Tables, Common!Tables, Limited!Order, Common!Order, Limited!ToSet, Common!ToSet
<1>4. Limited!Exportable(t) = Common!Exportable(t)
  BY DEF Limited!Exportable, Common!Exportable
<1>. QED
  BY <1>2, <1>3, <1>4 DEF IsSnapshot

LEMMA RestoreIsSame ==
  ASSUME NEW doc, IsDocument(doc), document = <<doc>>, db' = Common!Restored(doc)
  PROVE  Whole!SameDocument
<1> DEFINE new == Common!Restored(doc)
<1>1. Whole!Tables = Names9
  BY TablesAre DEF Whole!Tables, Common!Tables, Whole!Order, Common!Order, Whole!ToSet, Common!ToSet
<1>2. /\ \A t \in Names9 : DOMAIN new[t] = DOMAIN doc[t]
      /\ \A t \in Names9 : \A k \in DOMAIN doc[t] : Common!Column(t, new[t][k]) = doc[t][k]
  BY RestoredIs
<1>3. db' = new /\ document[1] = doc
  OBVIOUS
<1> HIDE DEF new
<1>4. \A t, row : Whole!Column(t, row) = Common!Column(t, row)
  BY DEF Whole!Column, Common!Column
<1>5. ASSUME NEW t \in Names9 PROVE Whole!Exportable(t)' = DOMAIN doc[t]
  <2>1. \A k \in DOMAIN doc.batches : new.batches[k] = doc.batches[k] /\ new.batches[k].status = "COMMITTED"
    BY <1>2 DEF IsDocument, Common!Column, Names9
  <2>2. \A k \in DOMAIN doc.rows : k[1] \in DOMAIN doc.batches
    BY DEF IsDocument, Sound, Linked
  <2>3. CASE t = "batches"
    BY <1>2, <1>3, <2>1, <2>3 DEF Whole!Exportable
  <2>4. CASE t = "rows"
    BY <1>2, <1>3, <2>1, <2>2, <2>4 DEF Whole!Exportable
  <2>5. CASE t \notin {"batches", "rows"}
    BY <1>2, <1>3, <2>5 DEF Whole!Exportable
  <2>. QED
    BY <2>3, <2>4, <2>5
<1>. QED
  BY <1>1, <1>2, <1>3, <1>4, <1>5 DEF Whole!SameDocument

(* A document holds every committed record of the ledger at one instant,    *)
(* and a database restored from it exports that very document, for any      *)
(* categories, names, transactions, plans and files, and any history.       *)
THEOREM RestoredIsExported == Spec => RoundTrip
<1>1. ASSUME LedgersAreSound, Next
      PROVE  /\ case = "records" => Whole!SameDocument
             /\ case = "limits" => Limited!WholeDocument
  <2>1. ASSUME case = "records" PROVE Whole!SameDocument
    <3> SUFFICES ASSUME db' # db, edits' = edits PROVE Whole!SameDocument
      BY DEF Whole!SameDocument
    <3>1. Steps(MaxRecords)
      BY <1>1, <2>1, InstanceSteps
    <3>2. edits \in Nat /\ (document = <<>> \/ \E doc : document = <<doc>> /\ IsDocument(doc))
      BY <1>1, <2>1 DEF LedgersAreSound
    <3>3. Restores
      BY <3>1, <3>2 DEF Steps, Exports
    <3>4. PICK doc : document = <<doc>> /\ IsDocument(doc)
      BY <3>2, <3>3 DEF Restores
    <3>5. db' = Common!Restored(doc)
      BY <3>3, <3>4 DEF Restores
    <3>. QED
      BY <3>4, <3>5, RestoreIsSame
  <2>2. ASSUME case = "limits" PROVE Limited!WholeDocument
    <3>1. Sound(db) /\ Steps(FewRecords)
      BY <1>1, <2>2, InstanceSteps DEF LedgersAreSound
    <3>2. document' = document \/ Exports(FewRecords)
      BY <3>1 DEF Steps, Restores
    <3>. QED
      BY <3>1, <3>2, ExportIsWhole DEF Limited!WholeDocument
  <2>. QED
    BY <2>1, <2>2
<1>2. LedgersAreSound /\ [Next]_vars =>
        [/\ case = "records" => Whole!SameDocument
         /\ case = "limits" => Limited!WholeDocument]_vars
  BY <1>1
<1>. QED
  BY <1>2, SoundBegins, SoundKept, PTL DEF Spec, RoundTrip
=============================================================================
