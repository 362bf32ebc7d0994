-------------------------------- MODULE Session --------------------------------
(***************************************************************************)
(* Databases as directories, the command loop that moves between them      *)
(* (redbase_main.cc), and the account PF keeps of the disk pages of the    *)
(* current one (PF/src/pf_manager.cc).                                     *)
(*                                                                         *)
(* A database is a directory with the two catalogs.  The account lives in  *)
(* PF_Manager and is saved, at every change, as <name>.pf_metadata in the  *)
(* current directory of the process, whatever database that is.            *)
(*                                                                         *)
(* A definition marked (fault) is no part of the model: it is a way the    *)
(* definition after it could be wrong, which a property has to notice.     *)
(***************************************************************************)
EXTENDS Integers, Sequences, FiniteSets

CONSTANTS
  Dbs,              \* database names
  Default,          \* the name PF_Manager starts with
  Tables,           \* table files
  Limits,           \* disk limits in pages; 0, less than a page, is none
  MaxGrowth,        \* bound: pages a file has more than when it was made
  MaxDepth,         \* bound: directories in directories
  MaxDirs           \* bound: directories, the one the process starts in included

ASSUME LimitsAssumption == Limits \subseteq Nat
\* CREATE TABLE and DROP TABLE refuse the names of the catalogs.
ASSUME TablesAssumption == IsFiniteSet(Tables) /\ Tables \intersect {"relcat", "attrcat"} = {}
ASSUME BoundsAssumption == MaxGrowth \in Nat /\ MaxDepth \in Nat \ {0} /\ MaxDirs \in Nat

Home  == << >>      \* initialWorkingDir
Dir   == UNION {[1 .. n -> Dbs] : n \in 0 .. MaxDepth}
Name  == Dbs \union {Default}
None  == "none"
File  == {"relcat", "attrcat"} \union Tables
Account == [limit : Nat, used : Nat]
NoAccount == [limit |-> 0, used |-> 0]

ASSUME NamesAssumption == None \notin Dbs

VARIABLES
  dirs,             \* the directories there are
  files,            \* dir |-> file |-> pages with the PF header, 0 if there is none
  metadata,         \* dir |-> name |-> the account saved there, or NoAccount
  databaseName, account,        \* PF_Manager
  cwd,              \* of the process
  currentDatabase, bDbOpen,     \* main, SM_Manager
  unsaved,          \* pages attrcat has grown by since it was opened
  granted,          \* history: the limit CREATE DATABASE announced for <<d>>, while careful
  drifted,          \* history: databases with a page never accounted or lost, while careful
  careful           \* history: was CREATE DATABASE given at home only, with none open?

diskVars    == <<dirs, files, metadata>>
sessionVars == <<cwd, currentDatabase, bDbOpen, unsaved>>
vars == <<diskVars, databaseName, account, sessionVars, granted, drifted, careful>>

Complete(dir) == dir \in dirs /\ files[dir]["relcat"] > 0 /\ files[dir]["attrcat"] > 0
Pages(sizes)  == Cardinality(UNION {{f} \X (1 .. sizes[f]) : f \in File})

-----------------------------------------------------------------------------
(* PF_Manager.  A system s is the part of the state its calls change:       *)
(* files, metadata, name, account; dir is the current directory.            *)

System == [files |-> files, metadata |-> metadata, name |-> databaseName, account |-> account]
Becomes(s) ==
  /\ files' = s.files /\ metadata' = s.metadata
  /\ databaseName' = s.name /\ account' = s.account

SaveDiskUsageMetadata(s, dir) == [s EXCEPT !.metadata[dir][s.name] = s.account]
LoadDiskUsageMetadata(s, dir) == [s EXCEPT !.account = s.metadata[dir][s.name]]

\* (fault) The account of the old database stays in memory.
SetDatabaseNameNoLoad(s, dir, d) ==
  [(IF s.account.limit > 0 THEN SaveDiskUsageMetadata(s, dir) ELSE s) EXCEPT !.name = d]

SetDatabaseName(s, dir, d) ==
  IF s.name = d THEN s
  ELSE LoadDiskUsageMetadata(
         [(IF s.account.limit > 0 THEN SaveDiskUsageMetadata(s, dir) ELSE s) EXCEPT !.name = d],
         dir)

SetDiskSpaceLimit(s, dir, limit) ==
  LET loaded == IF s.account.used = 0 THEN LoadDiskUsageMetadata(s, dir) ELSE s
  IN  SaveDiskUsageMetadata([loaded EXCEPT !.account.limit = limit], dir)

CanAllocateDiskPages(s, n) == s.account.used + n <= s.account.limit

\* (fault) The new count is not saved.
AllocateDiskPagesUnsaved(s, dir, n) ==
  IF s.account.limit > 0 /\ CanAllocateDiskPages(s, n)
  THEN [s EXCEPT !.account.used = @ + n] ELSE s

\* Over the limit nothing is counted.
AllocateDiskPages(s, dir, n) ==
  IF s.account.limit > 0 /\ CanAllocateDiskPages(s, n)
  THEN SaveDiskUsageMetadata([s EXCEPT !.account.used = @ + n], dir) ELSE s

DeallocateDiskPages(s, dir, n) ==
  IF s.account.limit > 0 /\ n > 0
  THEN SaveDiskUsageMetadata([s EXCEPT !.account.used = IF n > @ THEN 0 ELSE @ - n], dir)
  ELSE s

MayCreateFile(s, dir, f) ==
  s.files[dir][f] = 0 /\ (s.account.limit > 0 => CanAllocateDiskPages(s, 1))

\* The page of the PF header.
PFCreateFile(s, dir, f) == AllocateDiskPages([s EXCEPT !.files[dir][f] = 1], dir, 1)

\* PF_FileHandle::AllocatePage, which takes no notice of a refusal.
AllocatePage(s, dir, f) == AllocateDiskPages([s EXCEPT !.files[dir][f] = @ + 1], dir, 1)

DestroyFile(s, dir, f) ==
  DeallocateDiskPages([s EXCEPT !.files[dir][f] = 0], dir, s.files[dir][f])

\* RM_Manager::CreateFile: the PF file and the RM header on page 0.
CreateFile(s, dir, f) == AllocatePage(PFCreateFile(s, dir, f), dir, f)

\* SM's SetupRelcat and SetupAttrcat: a file and a page of rows.
SetupCatalog(s, dir, f) == AllocatePage(CreateFile(s, dir, f), dir, f)

-----------------------------------------------------------------------------
(* The process *)

\* With the working directory empty.
Init ==
  /\ dirs = {Home}
  /\ files = [dir \in Dir |-> [f \in File |-> 0]]
  /\ metadata = [dir \in Dir |-> [n \in Name |-> NoAccount]]
  /\ databaseName = Default /\ account = NoAccount
  /\ cwd = Home
  /\ currentDatabase = None /\ bDbOpen = FALSE
  /\ unsaved = 0
  /\ granted = [d \in Dbs |-> 0] /\ drifted = {} /\ careful = TRUE

\* InitializeSystem of the next process.
Restarted(meta) ==
  /\ databaseName' = Default /\ account' = meta[Home][Default]
  /\ cwd' = Home
  /\ currentDatabase' = None /\ bDbOpen' = FALSE
  /\ unsaved' = 0

\* quit: exit(0) with the catalogs open.
Quit ==
  /\ files' = IF bDbOpen THEN [files EXCEPT ![cwd]["attrcat"] = @ - unsaved] ELSE files
  /\ drifted' = IF careful /\ unsaved > 0 THEN drifted \union {currentDatabase} ELSE drifted
  /\ Restarted(metadata)
  /\ UNCHANGED <<dirs, metadata, granted, careful>>

\* The end of the input: CleanupSystem closes the database and saves the account.
EndOfInput ==
  /\ metadata' = IF account.limit > 0 THEN SaveDiskUsageMetadata(System, cwd).metadata
                 ELSE metadata
  /\ Restarted(metadata')
  /\ UNCHANGED <<dirs, files, granted, drifted, careful>>

-----------------------------------------------------------------------------
(* CREATE DATABASE *)

\* What the statement does to PF before it makes the catalogs.
Configured(d, limit) ==
  SetDiskSpaceLimit(SetDatabaseName(System, cwd, d), cwd, limit)

\* rmdir, which leaves a directory with files.
RemoveIfEmpty(s, dir) ==
  dirs' = IF \E f \in File : s.files[dir][f] > 0 \/ \E n \in Name : s.metadata[dir][n] # NoAccount
          THEN dirs \union {dir} ELSE dirs \ {dir}

Creating(d) ==
  /\ Len(cwd) < MaxDepth /\ Cardinality(dirs) < MaxDirs
  /\ Append(cwd, d) \notin dirs
  /\ careful' = (careful /\ cwd = Home /\ ~ bDbOpen)

CreateDatabase(d, limit) ==
  LET dir == Append(cwd, d)
      s1  == SetupCatalog(Configured(d, limit), dir, "relcat")
      s2  == SetupCatalog(s1, dir, "attrcat")
  IN  /\ Creating(d) /\ ~ bDbOpen
      /\ MayCreateFile(Configured(d, limit), dir, "relcat")
      /\ MayCreateFile(s1, dir, "attrcat")
      /\ Becomes(s2)
      /\ dirs' = dirs \union {dir}
      /\ granted' = IF careful' THEN [granted EXCEPT ![d] = limit] ELSE [e \in Dbs |-> 0]
      /\ drifted' = {e \in drifted : careful'}
                      \union {e \in {d} : careful' /\ limit > 0 /\ s2.account.used < 6}
      /\ UNCHANGED sessionVars

\* SetupRelcat cannot open relcat: the handle is that of the open database.
CreateDatabaseNoRelcat(d, limit) ==
  LET dir == Append(cwd, d)
      s1  == Configured(d, limit)
      s2  == IF MayCreateFile(s1, dir, "relcat")
             THEN DestroyFile(CreateFile(s1, dir, "relcat"), dir, "relcat") ELSE s1
  IN  /\ Creating(d)
      /\ bDbOpen \/ ~ MayCreateFile(s1, dir, "relcat")
      /\ Becomes(s2)
      /\ RemoveIfEmpty(s2, dir)
      /\ UNCHANGED <<sessionVars, granted, drifted>>

\* SetupAttrcat finds the limit reached.  relcat is unlinked in the directory
\* the statement was given in, not in the one it is in.
CreateDatabaseNoAttrcat(d, limit) ==
  LET dir == Append(cwd, d)
      s1  == SetupCatalog(Configured(d, limit), dir, "relcat")
      s2  == [s1 EXCEPT !.files[cwd]["relcat"] = 0]
  IN  /\ Creating(d) /\ ~ bDbOpen
      /\ MayCreateFile(Configured(d, limit), dir, "relcat")
      /\ ~ MayCreateFile(s1, dir, "attrcat")
      /\ Becomes(s2)
      /\ RemoveIfEmpty(s2, dir)
      /\ UNCHANGED <<sessionVars, granted, drifted>>

-----------------------------------------------------------------------------
(* USE *)

\* (fault) The account of the old database stays.
UseDatabaseNoAccount(d) ==
  /\ Complete(<<d>>)
  /\ cwd' = <<d>>
  /\ currentDatabase' = d /\ bDbOpen' = TRUE
  /\ unsaved' = 0
  /\ UNCHANGED <<diskVars, databaseName, account, granted, drifted, careful>>

\* CloseDb flushes the catalogs, then chdir to the initial directory.
UseDatabase(d) ==
  /\ Complete(<<d>>)
  /\ Becomes(SetDatabaseName(System, <<d>>, d))
  /\ cwd' = <<d>>
  /\ currentDatabase' = d /\ bDbOpen' = TRUE
  /\ unsaved' = 0
  /\ UNCHANGED <<dirs, granted, drifted, careful>>

\* (fault) The process stays where it was.
UseFailsInPlace(d) ==
  /\ ~ Complete(<<d>>)
  /\ currentDatabase' = None /\ bDbOpen' = FALSE
  /\ unsaved' = 0
  /\ UNCHANGED <<diskVars, databaseName, account, cwd, granted, drifted, careful>>

\* (fault) The process is in a directory that may not exist.
UseFailsUnchecked(d) ==
  /\ ~ Complete(<<d>>)
  /\ cwd' = <<d>>
  /\ currentDatabase' = None /\ bDbOpen' = FALSE
  /\ unsaved' = 0
  /\ UNCHANGED <<diskVars, databaseName, account, granted, drifted, careful>>

\* There is no such directory, or OpenDb enters it and finds no catalogs.
UseFails(d) ==
  /\ ~ Complete(<<d>>)
  /\ cwd' = IF <<d>> \in dirs THEN <<d>> ELSE Home
  /\ currentDatabase' = None /\ bDbOpen' = FALSE
  /\ unsaved' = 0
  /\ UNCHANGED <<diskVars, databaseName, account, granted, drifted, careful>>

-----------------------------------------------------------------------------
(* Statements on the open database *)

\* A page that is there and was refused.
Refused(s, n) ==
  drifted' = IF careful /\ s.account.limit > 0 /\ ~ CanAllocateDiskPages(s, n)
             THEN drifted \union {currentDatabase} ELSE drifted

CreateTable(t) ==
  /\ bDbOpen
  /\ MayCreateFile(System, cwd, t)
  /\ Becomes(CreateFile(System, cwd, t))
  /\ Refused(System, 2)
  /\ UNCHANGED <<dirs, sessionVars, granted, careful>>

\* InsertRec needs a page.
GrowTable(t) ==
  /\ bDbOpen
  /\ files[cwd][t] \in 1 .. 1 + MaxGrowth
  /\ Becomes(AllocatePage(System, cwd, t))
  /\ Refused(System, 1)
  /\ UNCHANGED <<dirs, sessionVars, granted, careful>>

GrowCatalog ==
  /\ bDbOpen
  /\ files[cwd]["attrcat"] < 3 + MaxGrowth
  /\ Becomes(AllocatePage(System, cwd, "attrcat"))
  /\ unsaved' = unsaved + 1
  /\ Refused(System, 1)
  /\ UNCHANGED <<dirs, cwd, currentDatabase, bDbOpen, granted, careful>>

DropTable(t) ==
  /\ bDbOpen
  /\ files[cwd][t] > 0
  /\ Becomes(DestroyFile(System, cwd, t))
  /\ UNCHANGED <<dirs, sessionVars, granted, drifted, careful>>

Next ==
  \/ \E d \in Dbs, limit \in Limits :
       \/ CreateDatabase(d, limit)
       \/ CreateDatabaseNoRelcat(d, limit)
       \/ CreateDatabaseNoAttrcat(d, limit)
  \/ \E d \in Dbs : UseDatabase(d) \/ UseFails(d)
  \/ \E t \in Tables : CreateTable(t) \/ GrowTable(t) \/ DropTable(t)
  \/ GrowCatalog \/ Quit \/ EndOfInput

Spec == Init /\ [][Next]_vars

-----------------------------------------------------------------------------
(* Properties *)

\* Every variable has its type, and the session is at home or in a directory.
TypeOK ==
  /\ Home \in dirs /\ cwd \in dirs /\ dirs \subseteq Dir
  /\ files \in [Dir -> [File -> Nat]]
  /\ metadata \in [Dir -> [Name -> Account]]
  /\ databaseName \in Name /\ account \in Account
  /\ currentDatabase \in Dbs \union {None} /\ bDbOpen = (currentDatabase # None)
  /\ unsaved \in Nat /\ careful \in BOOLEAN
  /\ granted \in [Dbs -> Nat] /\ drifted \subseteq Dbs

\* Statements work on the files of the database in use and on its account.
AccountOfOpenDatabase ==
  careful /\ bDbOpen =>
             /\ cwd = <<currentDatabase>> /\ Complete(cwd)
             /\ databaseName = currentDatabase

\* The limit given when a database was created is in force whenever it is in
\* use, in whatever process, and the count stays within it.
LimitInForce ==
  careful /\ bDbOpen =>
             /\ account.limit = granted[currentDatabase]
             /\ account.limit > 0 => account.used <= account.limit

\* The count is the pages of the files, across switches and restarts, unless a
\* page was refused or lost by quit.
AccountExact ==
  careful /\ bDbOpen /\ account.limit > 0 /\ currentDatabase \notin drifted =>
     account.used = Pages(files[cwd])

\* No statement takes the catalogs away from a database that has them.
CatalogsStay == [][\A dir \in dirs : Complete(dir) => Complete(dir)']_vars
=============================================================================
