----------------------------- MODULE SessionProofs -----------------------------
(***************************************************************************)
(* Proofs about Session.  PlaceInv says where the session is, whatever     *)
(* order statements come in; AccountsKept what the saved accounts and the  *)
(* one in memory are while databases are made at home with none open.      *)
(*                                                                         *)
(* The theorems on accounts suppose that no database has the name that     *)
(* PF_Manager starts with: the run session_default is the counterexample.  *)
(***************************************************************************)
EXTENDS Session, FiniteSetTheorems, SequenceTheorems, TLAPS

-----------------------------------------------------------------------------
(* Pages of a directory *)

PagesOf(sizes) == UNION {{f} \X (1 .. sizes[f]) : f \in File}

\* The catalogs and the tables are finitely many files.
LEMMA FilesAreFinite == IsFiniteSet(File)
<1>1. IsFiniteSet({"relcat", "attrcat"})
  <2>1. IsFiniteSet({"relcat"})
    BY FS_Singleton
  <2>2. IsFiniteSet({"relcat"} \union {"attrcat"})
    BY <2>1, FS_AddElement
  <2>3. {"relcat"} \union {"attrcat"} = {"relcat", "attrcat"}
    OBVIOUS
  <2> QED
    BY <2>2, <2>3
<1>2. IsFiniteSet({"relcat", "attrcat"} \union Tables)
  BY <1>1, TablesAssumption, FS_Union
<1> QED
  BY <1>2 DEF File

\* A file of n pages has n.
LEMMA PagesOfAFile ==
  ASSUME NEW f, NEW n \in Nat
  PROVE  IsFiniteSet({f} \X (1 .. n)) /\ Cardinality({f} \X (1 .. n)) = n
<1> DEFINE nth == [i \in 1 .. n |-> <<f, i>>]
<1>1. nth \in Bijection(1 .. n, {f} \X (1 .. n))
  <2>1. nth \in [1 .. n -> {f} \X (1 .. n)]
    OBVIOUS
  <2>2. \A i, j \in 1 .. n : nth[i] = nth[j] => i = j
    OBVIOUS
  <2>3. \A p \in {f} \X (1 .. n) : \E i \in 1 .. n : nth[i] = p
    OBVIOUS
  <2> QED
    BY <2>1, <2>2, <2>3 DEF Bijection, Injection, Surjection, IsInjective
<1>2. ExistsBijection(1 .. n, {f} \X (1 .. n))
  BY <1>1 DEF ExistsBijection
<1> QED
  BY <1>2, FS_Bijection, FS_Interval

\* A directory has finitely many pages.
LEMMA PagesAreFinite ==
  ASSUME NEW sizes \in [File -> Nat]
  PROVE  IsFiniteSet(PagesOf(sizes)) /\ Pages(sizes) \in Nat
<1> DEFINE own == [f \in File |-> {f} \X (1 .. sizes[f])]
           Own == {own[f] : f \in File}
<1>1. own \in Surjection(File, Own)
  BY DEF Surjection
<1>2. IsFiniteSet(Own)
  BY <1>1, FilesAreFinite, FS_Surjection
<1>3. ASSUME NEW P \in Own PROVE IsFiniteSet(P)
  <2>1. PICK f \in File : P = {f} \X (1 .. sizes[f])
    OBVIOUS
  <2>2. sizes[f] \in Nat
    OBVIOUS
  <2> QED
    BY <2>1, <2>2, PagesOfAFile
<1>4. PagesOf(sizes) = UNION Own
  BY DEF PagesOf
<1>5. IsFiniteSet(PagesOf(sizes))
  BY <1>2, <1>3, <1>4, FS_UNION
<1> QED
  BY <1>5, FS_CardinalityType DEF Pages, PagesOf

\* When one file changes its size, the pages of the directory change by as much.
LEMMA PagesChange ==
  ASSUME NEW sizes \in [File -> Nat], NEW f \in File, NEW n \in Nat
  PROVE  Pages([sizes EXCEPT ![f] = n]) = Pages(sizes) - sizes[f] + n
<1> DEFINE Rest == PagesOf([sizes EXCEPT ![f] = 0])
<1>1. ASSUME NEW m \in Nat
      PROVE  Pages([sizes EXCEPT ![f] = m]) = Cardinality(Rest) + m
  <2> DEFINE with == [sizes EXCEPT ![f] = m]
  <2>1. PagesOf(with) = Rest \union ({f} \X (1 .. m))
    BY DEF PagesOf
  <2>2. Rest \intersect ({f} \X (1 .. m)) = {}
    BY DEF PagesOf
  <2>3. IsFiniteSet(Rest) /\ Cardinality(Rest) \in Nat
    BY PagesAreFinite, FS_CardinalityType
  <2> HIDE DEF Rest
  <2> DEFINE added == {f} \X (1 .. m)
  <2>4. IsFiniteSet(added) /\ Cardinality(added) = m
    BY PagesOfAFile
  <2> HIDE DEF added
  <2>5. Cardinality(Rest \union added) = Cardinality(Rest) + m - Cardinality({})
    BY <2>2, <2>3, <2>4, FS_Union DEF added
  <2>6. Cardinality(Rest \union added) = Cardinality(Rest) + m
    BY <2>3, <2>5, FS_EmptySet
  <2> QED
    BY <2>1, <2>6 DEF Pages, PagesOf, added
<1>2. sizes = [sizes EXCEPT ![f] = sizes[f]]
  OBVIOUS
<1>3. Cardinality(Rest) \in Nat
  BY PagesAreFinite, FS_CardinalityType
<1> QED
  <2> HIDE DEF Rest
  <2>1. Pages([sizes EXCEPT ![f] = sizes[f]]) = Cardinality(Rest) + sizes[f]
    BY <1>1, sizes[f] \in Nat
  <2>2. Pages(sizes) = Cardinality(Rest) + sizes[f]
    BY <1>2, <2>1
  <2>3. Pages([sizes EXCEPT ![f] = n]) = Cardinality(Rest) + n
    BY <1>1
  <2> QED
    BY <1>3, <2>2, <2>3, sizes[f] \in Nat

\* No files, no pages; and no file has more pages than its directory.
LEMMA PagesBounds ==
  /\ Pages([f \in File |-> 0]) = 0
  /\ \A sizes \in [File -> Nat], f \in File : sizes[f] <= Pages(sizes)
<1>1. PagesOf([f \in File |-> 0]) = {}
  BY DEF PagesOf
<1>2. ASSUME NEW sizes \in [File -> Nat], NEW f \in File
      PROVE  sizes[f] <= Pages(sizes)
  <2>1. [sizes EXCEPT ![f] = 0] \in [File -> Nat]
    OBVIOUS
  <2>2. Pages([sizes EXCEPT ![f] = 0]) \in Nat /\ Pages(sizes) \in Nat
    BY <2>1, PagesAreFinite
  <2>3. Pages([sizes EXCEPT ![f] = 0]) = Pages(sizes) - sizes[f] + 0
    BY PagesChange
  <2> QED
    BY <2>2, <2>3
<1> QED
  BY <1>1, <1>2, FS_EmptySet DEF Pages, PagesOf

-----------------------------------------------------------------------------
(* What the functions of PF_Manager do to a system *)

SystemType == [files : [Dir -> [File -> Nat]], metadata : [Dir -> [Name -> Account]],
               name : Name, account : Account]

UpTo(limit, n) == IF n <= limit THEN n ELSE limit

\* r is s after n calls of AllocateDiskPages(1), files apart.
Charged(s, r, dir, n) ==
  /\ r \in SystemType
  /\ r.name = s.name /\ r.account.limit = s.account.limit
  /\ \/ r.metadata = s.metadata /\ r.account = s.account
     \/ s.account.limit > 0 /\ r.metadata = [s.metadata EXCEPT ![dir][s.name] = r.account]
  /\ s.account.limit > 0 /\ s.account.used <= s.account.limit =>
       r.account.used = UpTo(s.account.limit, s.account.used + n)

\* SaveDiskUsageMetadata changes the saved account of the current name alone.
LEMMA SaveEffect ==
  ASSUME NEW s \in SystemType, NEW dir \in Dir, NEW r, r = SaveDiskUsageMetadata(s, dir)
  PROVE  /\ r \in SystemType
         /\ r.files = s.files /\ r.name = s.name /\ r.account = s.account
         /\ r.metadata = [s.metadata EXCEPT ![dir][s.name] = s.account]
BY DEF SaveDiskUsageMetadata, SystemType

\* LoadDiskUsageMetadata changes the account in memory alone.
LEMMA LoadEffect ==
  ASSUME NEW s \in SystemType, NEW dir \in Dir, NEW r, r = LoadDiskUsageMetadata(s, dir)
  PROVE  /\ r \in SystemType
         /\ r.files = s.files /\ r.name = s.name /\ r.metadata = s.metadata
         /\ r.account = s.metadata[dir][s.name]
BY DEF LoadDiskUsageMetadata, SystemType

\* SetDatabaseName does nothing when the name is the current one; otherwise it
\* saves the old account under the old name, if there is a limit, and loads.
LEMMA SetDatabaseNameEffect ==
  ASSUME NEW s \in SystemType, NEW dir \in Dir, NEW d \in Name,
         NEW r, r = SetDatabaseName(s, dir, d)
  PROVE  /\ r \in SystemType
         /\ r.files = s.files /\ r.name = d
         /\ s.name = d => r = s
         /\ s.name # d =>
              /\ r.metadata = IF s.account.limit > 0
                              THEN [s.metadata EXCEPT ![dir][s.name] = s.account]
                              ELSE s.metadata
              /\ r.account = s.metadata[dir][d]
<1>1. CASE s.name = d
  BY <1>1 DEF SetDatabaseName
<1>2. CASE s.name # d
  <2> DEFINE saved == IF s.account.limit > 0 THEN SaveDiskUsageMetadata(s, dir) ELSE s
             named == [saved EXCEPT !.name = d]
  <2>1. /\ saved \in SystemType
        /\ saved.files = s.files
        /\ saved.metadata = IF s.account.limit > 0
                            THEN [s.metadata EXCEPT ![dir][s.name] = s.account]
                            ELSE s.metadata
    BY SaveEffect
  <2> HIDE DEF saved
  <2>2. /\ named \in SystemType
        /\ named.files = s.files /\ named.name = d /\ named.metadata = saved.metadata
    BY <2>1 DEF SystemType
  <2>3. r = LoadDiskUsageMetadata(named, dir)
    BY <1>2 DEF SetDatabaseName, saved
  <2> HIDE DEF named
  <2>4. /\ r \in SystemType
        /\ r.files = named.files /\ r.name = named.name /\ r.metadata = named.metadata
        /\ r.account = named.metadata[dir][named.name]
    BY <2>2, <2>3, LoadEffect
  <2>5. named.metadata[dir][d] = s.metadata[dir][d]
    BY <1>2, <2>1, <2>2 DEF SystemType
  <2> QED
    BY <1>2, <2>1, <2>2, <2>4, <2>5
<1> QED
  BY <1>1, <1>2

\* SetDiskSpaceLimit puts the limit in force and saves the account.
LEMMA SetLimitEffect ==
  ASSUME NEW s \in SystemType, NEW dir \in Dir, NEW limit \in Nat,
         NEW r, r = SetDiskSpaceLimit(s, dir, limit)
  PROVE  /\ r \in SystemType
         /\ r.files = s.files /\ r.name = s.name
         /\ r.account = [limit |-> limit, used |-> IF s.account.used = 0
                                                  THEN s.metadata[dir][s.name].used
                                                  ELSE s.account.used]
         /\ r.metadata = [s.metadata EXCEPT ![dir][s.name] = r.account]
<1> DEFINE loaded == IF s.account.used = 0 THEN LoadDiskUsageMetadata(s, dir) ELSE s
           limited == [loaded EXCEPT !.account.limit = limit]
<1>1. /\ loaded \in SystemType
      /\ loaded.files = s.files /\ loaded.name = s.name /\ loaded.metadata = s.metadata
      /\ loaded.account.used = IF s.account.used = 0 THEN s.metadata[dir][s.name].used
                                                     ELSE s.account.used
  BY LoadEffect
<1> HIDE DEF loaded
<1>2. /\ limited \in SystemType
      /\ limited.files = s.files /\ limited.name = s.name /\ limited.metadata = s.metadata
      /\ limited.account = [limit |-> limit, used |-> loaded.account.used]
  BY <1>1 DEF SystemType, Account
<1>3. r = SaveDiskUsageMetadata(limited, dir)
  BY DEF SetDiskSpaceLimit, loaded
<1> HIDE DEF limited
<1>4. /\ r \in SystemType
      /\ r.files = limited.files /\ r.name = limited.name /\ r.account = limited.account
      /\ r.metadata = [limited.metadata EXCEPT ![dir][limited.name] = limited.account]
  BY <1>2, <1>3, SaveEffect
<1> QED
  BY <1>1, <1>2, <1>4

\* One page: counted and saved when it is within the limit.
LEMMA AllocateOneEffect ==
  ASSUME NEW s \in SystemType, NEW dir \in Dir, NEW r, r = AllocateDiskPages(s, dir, 1)
  PROVE  r.files = s.files /\ Charged(s, r, dir, 1)
<1> DEFINE more == [s EXCEPT !.account.used = @ + 1]
<1>0. s.account \in Account
  BY DEF SystemType
<1>1. CASE s.account.limit > 0 /\ CanAllocateDiskPages(s, 1)
  <2>1. /\ more \in SystemType
        /\ more.files = s.files /\ more.name = s.name /\ more.metadata = s.metadata
        /\ more.account = [limit |-> s.account.limit, used |-> s.account.used + 1]
    BY DEF SystemType, Account
  <2>2. r = SaveDiskUsageMetadata(more, dir)
    BY <1>1 DEF AllocateDiskPages
  <2> HIDE DEF more
  <2>3. /\ r \in SystemType
        /\ r.files = more.files /\ r.name = more.name /\ r.account = more.account
        /\ r.metadata = [more.metadata EXCEPT ![dir][more.name] = more.account]
    BY <2>1, <2>2, SaveEffect
  <2>4. s.account.used + 1 <= s.account.limit
    BY <1>1 DEF CanAllocateDiskPages
  <2> QED
    BY <1>1, <2>1, <2>3, <2>4 DEF Charged, UpTo
<1>2. CASE ~ (s.account.limit > 0 /\ CanAllocateDiskPages(s, 1))
  <2>1. r = s
    BY <1>2 DEF AllocateDiskPages
  <2>2. s.account.limit > 0 => ~ (s.account.used + 1 <= s.account.limit)
    BY <1>2 DEF CanAllocateDiskPages
  <2> QED
    BY <1>0, <2>1, <2>2 DEF Charged, UpTo, Account
<1> QED
  BY <1>1, <1>2

\* Charges add up.
LEMMA ChargedTwice ==
  ASSUME NEW s \in SystemType, NEW q, NEW r, NEW dir \in Dir, NEW m \in Nat, NEW k \in Nat,
         Charged(s, q, dir, m), Charged(q, r, dir, k)
  PROVE  Charged(s, r, dir, m + k)
<1>1. s.account \in Account /\ q.account \in Account /\ r \in SystemType
  BY DEF SystemType, Charged
<1>2. \/ r.metadata = s.metadata /\ r.account = s.account
      \/ s.account.limit > 0 /\ r.metadata = [s.metadata EXCEPT ![dir][s.name] = r.account]
  <2>1. CASE r.metadata = q.metadata /\ r.account = q.account
    BY <2>1 DEF Charged
  <2>2. CASE q.account.limit > 0 /\ r.metadata = [q.metadata EXCEPT ![dir][q.name] = r.account]
    <3>1. q.name = s.name /\ s.account.limit > 0
      BY <2>2 DEF Charged
    <3>2. q.metadata = s.metadata \/ q.metadata = [s.metadata EXCEPT ![dir][s.name] = q.account]
      BY DEF Charged
    <3>3. [q.metadata EXCEPT ![dir][s.name] = r.account]
            = [s.metadata EXCEPT ![dir][s.name] = r.account]
      BY <3>2 DEF SystemType
    <3> QED
      BY <2>2, <3>1, <3>3
  <2> QED
    BY <2>1, <2>2 DEF Charged
<1>3. ASSUME s.account.limit > 0, s.account.used <= s.account.limit
      PROVE  r.account.used = UpTo(s.account.limit, s.account.used + (m + k))
  <2>1. q.account.limit = s.account.limit
        /\ q.account.used = UpTo(s.account.limit, s.account.used + m)
    BY <1>3 DEF Charged
  <2>2. q.account.used <= q.account.limit
    BY <1>1, <1>3, <2>1 DEF UpTo, Account
  <2>3. r.account.used = UpTo(s.account.limit, q.account.used + k)
    BY <1>3, <2>1, <2>2 DEF Charged
  <2> QED
    BY <1>1, <1>3, <2>1, <2>3 DEF UpTo, Account
<1> QED
  BY <1>1, <1>2, <1>3 DEF Charged

\* AllocatePage adds a page to the file, whether it is counted or not.
LEMMA AllocatePageEffect ==
  ASSUME NEW s \in SystemType, NEW dir \in Dir, NEW f \in File,
         NEW r, r = AllocatePage(s, dir, f)
  PROVE  r.files = [s.files EXCEPT ![dir][f] = @ + 1] /\ Charged(s, r, dir, 1)
<1> DEFINE grown == [s EXCEPT !.files[dir][f] = @ + 1]
<1>0. [s.files EXCEPT ![dir][f] = @ + 1] \in [Dir -> [File -> Nat]]
  <2>1. s.files \in [Dir -> [File -> Nat]] /\ s.files[dir][f] + 1 \in Nat
    BY DEF SystemType
  <2> QED
    BY <2>1
<1>1. /\ grown \in SystemType
      /\ grown.files = [s.files EXCEPT ![dir][f] = @ + 1]
      /\ grown.name = s.name /\ grown.metadata = s.metadata /\ grown.account = s.account
  BY <1>0 DEF SystemType
<1>2. r = AllocateDiskPages(grown, dir, 1)
  BY DEF AllocatePage
<1> HIDE DEF grown
<1>3. r.files = grown.files /\ Charged(grown, r, dir, 1)
  BY <1>1, <1>2, AllocateOneEffect
<1> QED
  BY <1>1, <1>3 DEF Charged

\* RM's CreateFile makes a file of two pages.
LEMMA CreateFileEffect ==
  ASSUME NEW s \in SystemType, NEW dir \in Dir, NEW f \in File,
         NEW r, r = CreateFile(s, dir, f)
  PROVE  r.files = [s.files EXCEPT ![dir][f] = 2] /\ Charged(s, r, dir, 2)
<1> DEFINE made == [s EXCEPT !.files[dir][f] = 1]
           q    == PFCreateFile(s, dir, f)
<1>1. /\ made \in SystemType
      /\ made.files = [s.files EXCEPT ![dir][f] = 1]
      /\ made.name = s.name /\ made.metadata = s.metadata /\ made.account = s.account
  BY DEF SystemType
<1>2. q = AllocateDiskPages(made, dir, 1)
  BY DEF PFCreateFile
<1> HIDE DEF made
<1>3. q.files = made.files /\ Charged(made, q, dir, 1)
  BY <1>1, <1>2, AllocateOneEffect
<1>4. Charged(s, q, dir, 1)
  BY <1>1, <1>3 DEF Charged
<1>5. q \in SystemType /\ r = AllocatePage(q, dir, f)
  BY <1>4 DEF Charged, CreateFile
<1> HIDE DEF q
<1>6. r.files = [q.files EXCEPT ![dir][f] = @ + 1] /\ Charged(q, r, dir, 1)
  BY <1>5, AllocatePageEffect
<1>7. r.files = [s.files EXCEPT ![dir][f] = 2]
  BY <1>1, <1>3, <1>6 DEF SystemType
<1>8. Charged(s, r, dir, 1 + 1)
  BY <1>4, <1>6, ChargedTwice
<1> QED
  BY <1>7, <1>8

\* A new catalog has three pages.
LEMMA SetupCatalogEffect ==
  ASSUME NEW s \in SystemType, NEW dir \in Dir, NEW f \in File,
         NEW r, r = SetupCatalog(s, dir, f)
  PROVE  r.files = [s.files EXCEPT ![dir][f] = 3] /\ Charged(s, r, dir, 3)
<1> DEFINE q == CreateFile(s, dir, f)
<1>1. q.files = [s.files EXCEPT ![dir][f] = 2] /\ Charged(s, q, dir, 2)
  BY CreateFileEffect
<1>2. q \in SystemType /\ r = AllocatePage(q, dir, f)
  BY <1>1 DEF Charged, SetupCatalog
<1> HIDE DEF q
<1>3. r.files = [q.files EXCEPT ![dir][f] = @ + 1] /\ Charged(q, r, dir, 1)
  BY <1>2, AllocatePageEffect
<1>4. r.files = [s.files EXCEPT ![dir][f] = 3]
  BY <1>1, <1>3 DEF SystemType
<1>5. Charged(s, r, dir, 2 + 1)
  BY <1>1, <1>3, ChargedTwice
<1> QED
  BY <1>4, <1>5

\* DestroyFile gives the pages of the file back and saves the account, if there
\* is a limit.
LEMMA DestroyFileEffect ==
  ASSUME NEW s \in SystemType, NEW dir \in Dir, NEW f \in File,
         s.files[dir][f] > 0, NEW r, r = DestroyFile(s, dir, f)
  PROVE  /\ r \in SystemType
         /\ r.files = [s.files EXCEPT ![dir][f] = 0] /\ r.name = s.name
         /\ s.account.limit = 0 => r.account = s.account /\ r.metadata = s.metadata
         /\ s.account.limit > 0 =>
              /\ r.account.limit = s.account.limit
              /\ r.account.used = IF s.files[dir][f] > s.account.used THEN 0
                                 ELSE s.account.used - s.files[dir][f]
              /\ r.metadata = [s.metadata EXCEPT ![dir][s.name] = r.account]
<1> DEFINE n == s.files[dir][f]
           gone == [s EXCEPT !.files[dir][f] = 0]
           freed == [gone EXCEPT !.account.used = IF n > @ THEN 0 ELSE @ - n]
<1>1. /\ gone \in SystemType
      /\ gone.files = [s.files EXCEPT ![dir][f] = 0]
      /\ gone.name = s.name /\ gone.metadata = s.metadata /\ gone.account = s.account
      /\ n \in Nat /\ s.account \in Account
  BY DEF SystemType
<1> HIDE DEF gone, n
<1>2. /\ freed \in SystemType
      /\ freed.files = gone.files /\ freed.name = gone.name /\ freed.metadata = gone.metadata
      /\ freed.account = [limit |-> s.account.limit,
                          used |-> IF n > s.account.used THEN 0 ELSE s.account.used - n]
  <2>1. (IF n > s.account.used THEN 0 ELSE s.account.used - n) \in Nat
    BY <1>1 DEF Account
  <2> QED
    BY <1>1, <2>1 DEF SystemType, Account
<1>3. r = IF s.account.limit > 0 THEN SaveDiskUsageMetadata(freed, dir) ELSE gone
  BY <1>1 DEF DestroyFile, DeallocateDiskPages, gone, n
<1> HIDE DEF freed
<1>4. CASE s.account.limit > 0
  <2>1. /\ r \in SystemType
        /\ r.files = freed.files /\ r.name = freed.name /\ r.account = freed.account
        /\ r.metadata = [freed.metadata EXCEPT ![dir][freed.name] = freed.account]
    <3>1. freed \in SystemType /\ r = SaveDiskUsageMetadata(freed, dir)
      BY <1>2, <1>3, <1>4
    <3> QED
      BY <3>1, SaveEffect
  <2>2. ~ (s.account.limit = 0)
    BY <1>4
  <2> QED
    BY <1>1, <1>2, <2>1, <2>2 DEF n
<1>5. CASE ~ (s.account.limit > 0)
  <2>1. r = gone
    BY <1>3, <1>5
  <2>2. s.account.limit = 0
    BY <1>1, <1>5 DEF Account
  <2> QED
    BY <1>1, <1>5, <2>1
<1> QED
  BY <1>4, <1>5

\* DestroyFile touches the accounts saved in its directory alone.
LEMMA DestroyFileElsewhere ==
  ASSUME NEW s \in SystemType, NEW dir \in Dir, NEW f \in File,
         s.files[dir][f] > 0, NEW r, r = DestroyFile(s, dir, f)
  PROVE  /\ r \in SystemType
         /\ r.files = [s.files EXCEPT ![dir][f] = 0]
         /\ \A e \in Dir : e # dir => r.metadata[e] = s.metadata[e]
<1>1. /\ r \in SystemType
      /\ r.files = [s.files EXCEPT ![dir][f] = 0]
      /\ s.account.limit = 0 => r.metadata = s.metadata
      /\ s.account.limit > 0 => r.metadata = [s.metadata EXCEPT ![dir][s.name] = r.account]
  BY DestroyFileEffect
<1>2. s.account.limit = 0 \/ s.account.limit > 0
  BY DEF SystemType, Account
<1> QED
  BY <1>1, <1>2 DEF SystemType

-----------------------------------------------------------------------------
(* Where the session is *)

NothingElsewhere ==
  \A dir \in Dir \ dirs : /\ files[dir] = [f \in File |-> 0]
                          /\ metadata[dir] = [n \in Name |-> NoAccount]

PlaceKept ==
  /\ ~ Complete(Home)
  /\ bDbOpen => cwd = <<currentDatabase>> /\ Complete(cwd) /\ unsaved < files[cwd]["attrcat"]
  /\ ~ bDbOpen => ~ Complete(cwd) /\ unsaved = 0

PlaceInv == TypeOK /\ NothingElsewhere /\ PlaceKept

\* CatalogsStay is about each step.
CatalogsStayed == \A dir \in dirs : Complete(dir) => Complete(dir)'

\* Names of directories.
LEMMA DirFacts ==
  /\ Home \in Dir
  /\ \A d \in Dbs : <<d>> \in Dir /\ <<d>> # Home /\ Append(Home, d) = <<d>>
  /\ \A d, e \in Dbs : <<d>> = <<e>> => d = e
  /\ \A dir \in Dir, d \in Dbs :
       Len(dir) < MaxDepth =>
         Append(dir, d) \in Dir /\ Append(dir, d) # dir /\ Append(dir, d) # Home
<1>1. Home \in [1 .. 0 -> Dbs] /\ 0 \in 0 .. MaxDepth
  BY BoundsAssumption DEF Home
<1>2. ASSUME NEW d \in Dbs
      PROVE  /\ <<d>> \in [1 .. 1 -> Dbs] /\ 1 \in 0 .. MaxDepth
             /\ <<d>> # Home /\ Append(Home, d) = <<d>>
  BY BoundsAssumption DEF Home
<1>3. ASSUME NEW dir \in Dir, NEW d \in Dbs, Len(dir) < MaxDepth
      PROVE  Append(dir, d) \in Dir /\ Append(dir, d) # dir /\ Append(dir, d) # Home
  <2>1. PICK n \in 0 .. MaxDepth : dir \in [1 .. n -> Dbs]
    BY DEF Dir
  <2>2. dir \in Seq(Dbs) /\ Len(dir) = n /\ n + 1 \in 0 .. MaxDepth
    BY <1>3, <2>1, BoundsAssumption
  <2>3. Append(dir, d) \in Seq(Dbs) /\ Len(Append(dir, d)) = n + 1
    BY <2>2
  <2>4. Append(dir, d) \in [1 .. n + 1 -> Dbs]
    BY <2>3, LenProperties
  <2>5. Append(dir, d) # dir /\ Append(dir, d) # Home
    BY <2>1, <2>2, <2>3 DEF Home
  <2> QED
    BY <2>2, <2>4, <2>5 DEF Dir
<1> QED
  BY <1>1, <1>2, <1>3 DEF Dir

\* The system is the part of the state its fields name.
LEMMA SystemFacts ==
  TypeOK => /\ System \in SystemType
            /\ System.files = files /\ System.metadata = metadata
            /\ System.name = databaseName /\ System.account = account
BY DEF TypeOK, System, SystemType

\* A charge is saved in one directory.
LEMMA ChargedElsewhere ==
  ASSUME NEW s \in SystemType, NEW r, NEW dir \in Dir, NEW n, Charged(s, r, dir, n)
  PROVE  \A e \in Dir : e # dir => r.metadata[e] = s.metadata[e]
BY DEF Charged, SystemType

\* What CREATE DATABASE does to the account first is done in the current directory.
LEMMA ConfiguredEffect ==
  ASSUME TypeOK, NEW d \in Dbs, NEW limit \in Limits, NEW r, r = Configured(d, limit)
  PROVE  /\ r \in SystemType
         /\ r.files = files /\ r.name = d /\ r.account.limit = limit
         /\ \A e \in Dir : e # cwd => r.metadata[e] = metadata[e]
<1> DEFINE s == SetDatabaseName(System, cwd, d)
<1>1. d \in Name /\ cwd \in Dir /\ limit \in Nat
  BY LimitsAssumption DEF TypeOK, Name
<1>2. /\ s \in SystemType
      /\ s.files = files /\ s.name = d
      /\ databaseName = d => s = System
      /\ databaseName # d => s.metadata = IF account.limit > 0
                                         THEN [metadata EXCEPT ![cwd][databaseName] = account]
                                         ELSE metadata
  BY <1>1, SystemFacts, SetDatabaseNameEffect
<1>3. \A e \in Dir : e # cwd => s.metadata[e] = metadata[e]
  BY <1>2, SystemFacts DEF TypeOK
<1>4. r = SetDiskSpaceLimit(s, cwd, limit)
  BY DEF Configured
<1> HIDE DEF s
<1>5. /\ r \in SystemType
      /\ r.files = s.files /\ r.name = s.name /\ r.account.limit = limit
      /\ r.metadata = [s.metadata EXCEPT ![cwd][s.name] = r.account]
  <2>1. /\ r \in SystemType
        /\ r.files = s.files /\ r.name = s.name
        /\ r.account = [limit |-> limit, used |-> IF s.account.used = 0
                                                 THEN s.metadata[cwd][s.name].used
                                                 ELSE s.account.used]
        /\ r.metadata = [s.metadata EXCEPT ![cwd][s.name] = r.account]
    BY <1>1, <1>2, <1>4, SetLimitEffect
  <2> QED
    BY <2>1
<1>6. \A e \in Dir : e # cwd => r.metadata[e] = s.metadata[e]
  BY <1>2, <1>5 DEF SystemType
<1> QED
  BY <1>2, <1>3, <1>5, <1>6

\* The process begins at home, and no directory is complete there.
LEMMA InitPlace == Init => PlaceInv
<1> SUFFICES ASSUME Init PROVE PlaceInv
  OBVIOUS
<1>1. NoAccount \in Account /\ Home \in Dir
  BY DirFacts DEF NoAccount, Account
<1>2. TypeOK
  BY <1>1 DEF Init, TypeOK, Name
<1>3. NothingElsewhere
  BY DEF Init, NothingElsewhere
<1>4. ~ Complete(Home) /\ cwd = Home /\ ~ bDbOpen /\ unsaved = 0
  BY <1>1 DEF Init, Complete, File
<1> QED
  BY <1>2, <1>3, <1>4 DEF PlaceInv, PlaceKept

-----------------------------------------------------------------------------
(* What CREATE DATABASE does *)

\* PF_Manager and the files are those of the system s.
LEMMA BecomesFacts ==
  ASSUME NEW s \in SystemType, Becomes(s)
  PROVE  System' = s
BY DEF Becomes, System, SystemType

\* The directory that CREATE DATABASE makes.
Made(d) == Append(cwd, d)

\* A new directory is empty, and not the one the session is in.
LEMMA NewDirectory ==
  ASSUME PlaceInv, NEW d \in Dbs, NEW dir, dir = Made(d), Creating(d)
  PROVE  /\ dir \in Dir \ dirs /\ dir # cwd /\ dir # Home
         /\ cwd \in Dir
         /\ files[dir] = [f \in File |-> 0] /\ metadata[dir] = [n \in Name |-> NoAccount]
BY DirFacts DEF PlaceInv, TypeOK, NothingElsewhere, Creating, Made

\* The statement that ends well: two catalogs of three pages.
LEMMA CreateDatabaseEffect ==
  ASSUME PlaceInv, NEW d \in Dbs, NEW limit \in Limits, CreateDatabase(d, limit),
         NEW dir, dir = Made(d)
  PROVE  /\ files' = [files EXCEPT ![dir] = [@ EXCEPT !["relcat"] = 3, !["attrcat"] = 3]]
         /\ Charged(Configured(d, limit), System', dir, 6)
<1> DEFINE s0 == Configured(d, limit)
           s1 == SetupCatalog(s0, dir, "relcat")
           s2 == SetupCatalog(s1, dir, "attrcat")
<1>1. dir \in Dir /\ "relcat" \in File /\ "attrcat" \in File
  BY NewDirectory DEF CreateDatabase, File
<1>2. s0 \in SystemType /\ s0.files = files
  BY ConfiguredEffect DEF PlaceInv
<1>3. Becomes(s2)
  BY DEF CreateDatabase, Made
<1> HIDE DEF s0
<1>4. s1.files = [s0.files EXCEPT ![dir]["relcat"] = 3] /\ Charged(s0, s1, dir, 3)
  BY <1>1, <1>2, SetupCatalogEffect
<1> HIDE DEF s1
<1>5. s1 \in SystemType
  BY <1>4 DEF Charged
<1>6. s2.files = [s1.files EXCEPT ![dir]["attrcat"] = 3] /\ Charged(s1, s2, dir, 3)
  BY <1>1, <1>5, SetupCatalogEffect
<1> HIDE DEF s2
<1>7. Charged(s0, s2, dir, 3 + 3)
  BY <1>1, <1>2, <1>4, <1>6, ChargedTwice
<1>8. s2 \in SystemType /\ System' = s2 /\ files' = s2.files
  BY <1>3, <1>6, BecomesFacts DEF Charged, Becomes
<1>9. files' = [files EXCEPT ![dir] = [@ EXCEPT !["relcat"] = 3, !["attrcat"] = 3]]
  BY <1>1, <1>2, <1>4, <1>6, <1>8 DEF SystemType
<1> QED
  BY <1>7, <1>8, <1>9 DEF s0

\* Without relcat no file is left.
LEMMA CreateNoRelcatEffect ==
  ASSUME PlaceInv, NEW d \in Dbs, NEW limit \in Limits, CreateDatabaseNoRelcat(d, limit),
         NEW dir, dir = Made(d)
  PROVE  /\ files' = files
         /\ System' \in SystemType
         /\ \A e \in Dir : e # cwd /\ e # dir => metadata'[e] = metadata[e]
<1> DEFINE s1 == Configured(d, limit)
           s2 == CreateFile(s1, dir, "relcat")
           s3 == DestroyFile(s2, dir, "relcat")
<1>1. dir \in Dir /\ files[dir] = [f \in File |-> 0]
  BY NewDirectory DEF CreateDatabaseNoRelcat
<1>2. dir \in Dir /\ "relcat" \in File
  BY <1>1 DEF File
<1>3. files \in [Dir -> [File -> Nat]] /\ files[dir]["relcat"] = 0
  BY <1>1, <1>2 DEF PlaceInv, TypeOK
<1>4. s1 \in SystemType /\ s1.files = files
      /\ \A e \in Dir : e # cwd => s1.metadata[e] = metadata[e]
  BY ConfiguredEffect DEF PlaceInv
<1>5. Becomes(s3) \/ Becomes(s1)
  BY DEF CreateDatabaseNoRelcat, Made
<1> HIDE DEF s1
<1>6. s2.files = [s1.files EXCEPT ![dir]["relcat"] = 2] /\ Charged(s1, s2, dir, 2)
  BY <1>2, <1>4, CreateFileEffect
<1> HIDE DEF s2
<1>7. s2 \in SystemType /\ s2.files[dir]["relcat"] > 0
  BY <1>2, <1>4, <1>6 DEF Charged, SystemType
<1>8. /\ s3 \in SystemType
      /\ s3.files = [s2.files EXCEPT ![dir]["relcat"] = 0]
      /\ \A e \in Dir : e # dir => s3.metadata[e] = s2.metadata[e]
  BY <1>2, <1>7, DestroyFileElsewhere
<1> HIDE DEF s3
<1>9. \A e \in Dir : e # dir => s2.metadata[e] = s1.metadata[e]
  BY <1>2, <1>4, <1>6, ChargedElsewhere
<1>10. s3.files = files
  BY <1>2, <1>3, <1>4, <1>6, <1>8
<1>11. PICK s \in {s1, s3} : Becomes(s)
  BY <1>5
<1>12. /\ s \in SystemType /\ s.files = files
       /\ \A e \in Dir : e # cwd /\ e # dir => s.metadata[e] = metadata[e]
  BY <1>4, <1>8, <1>9, <1>10, <1>11
<1>13. System' = s /\ files' = s.files /\ metadata' = s.metadata
  BY <1>11, <1>12, BecomesFacts DEF Becomes
<1> QED
  BY <1>12, <1>13

\* Without attrcat a relcat of three pages is left, in the new directory.
LEMMA CreateNoAttrcatEffect ==
  ASSUME PlaceInv, NEW d \in Dbs, NEW limit \in Limits, CreateDatabaseNoAttrcat(d, limit),
         NEW dir, dir = Made(d)
  PROVE  /\ files' = [files EXCEPT ![dir]["relcat"] = 3, ![cwd]["relcat"] = 0]
         /\ Charged(Configured(d, limit), System', dir, 3)
<1> DEFINE s0 == Configured(d, limit)
           s1 == SetupCatalog(s0, dir, "relcat")
           s2 == [s1 EXCEPT !.files[cwd]["relcat"] = 0]
<1>1. dir \in Dir /\ "relcat" \in File /\ cwd \in Dir
  BY NewDirectory DEF CreateDatabaseNoAttrcat, File
<1>2. s0 \in SystemType /\ s0.files = files
  BY ConfiguredEffect DEF PlaceInv
<1>3. Becomes(s2)
  BY DEF CreateDatabaseNoAttrcat, Made
<1> HIDE DEF s0
<1>4. s1.files = [s0.files EXCEPT ![dir]["relcat"] = 3] /\ Charged(s0, s1, dir, 3)
  BY <1>1, <1>2, SetupCatalogEffect
<1> HIDE DEF s1
<1>5. s1 \in SystemType
  BY <1>4 DEF Charged
<1>6. /\ s2 \in SystemType
      /\ s2.files = [s1.files EXCEPT ![cwd]["relcat"] = 0]
      /\ s2.name = s1.name /\ s2.metadata = s1.metadata /\ s2.account = s1.account
  BY <1>1, <1>5 DEF SystemType
<1> HIDE DEF s2
<1>7. Charged(s0, s2, dir, 3)
  BY <1>4, <1>6 DEF Charged
<1>8. System' = s2 /\ files' = s2.files
  BY <1>3, <1>6, BecomesFacts DEF Becomes
<1> QED
  BY <1>2, <1>4, <1>6, <1>7, <1>8 DEF s0

-----------------------------------------------------------------------------
(* Every step keeps the place *)

\* The types of PF_Manager's part of the next state.
LEMMA NextSystemTypes ==
  ASSUME System' \in SystemType
  PROVE  /\ files' \in [Dir -> [File -> Nat]] /\ metadata' \in [Dir -> [Name -> Account]]
         /\ databaseName' \in Name /\ account' \in Account
BY DEF System, SystemType

\* The three ends of CREATE DATABASE leave other directories alone, and take at
\* most relcat from the current one, when no database is open.
LEMMA CreatingKeepsPlace ==
  ASSUME PlaceInv, NEW d \in Dbs, NEW dir, dir = Made(d), Creating(d),
         System' \in SystemType, UNCHANGED sessionVars,
         \/ dirs' = dirs \union {dir}
         \/ /\ dirs' = dirs
            /\ files'[dir] = [f \in File |-> 0] /\ metadata'[dir] = [n \in Name |-> NoAccount],
         \A e \in Dir : e # dir /\ e # cwd => files'[e] = files[e] /\ metadata'[e] = metadata[e],
         files'[cwd] = files[cwd] \/ (~ bDbOpen /\ files'[cwd]["relcat"] = 0),
         granted' \in [Dbs -> Nat], drifted' \subseteq Dbs
  PROVE  PlaceInv' /\ CatalogsStayed
<1>1. /\ dir \in Dir \ dirs /\ dir # cwd /\ dir # Home
      /\ cwd \in dirs /\ Home \in dirs /\ dirs \subseteq Dir
  BY NewDirectory DEF PlaceInv, TypeOK
<1>2. dirs \subseteq dirs' /\ dirs' \subseteq dirs \union {dir}
  OBVIOUS
<1>3. careful' \in BOOLEAN
  BY DEF Creating, PlaceInv, TypeOK
<1>4. TypeOK'
  BY <1>1, <1>2, <1>3, NextSystemTypes DEF PlaceInv, TypeOK, sessionVars
<1>5. NothingElsewhere'
  <2> SUFFICES ASSUME NEW e \in Dir \ dirs'
               PROVE  files'[e] = [f \in File |-> 0] /\ metadata'[e] = [n \in Name |-> NoAccount]
    BY DEF NothingElsewhere
  <2>1. CASE e = dir
    BY <2>1
  <2>2. CASE e # dir
    <3>1. e \in Dir \ dirs /\ e # cwd
      BY <1>1, <1>2, <2>2
    <3> QED
      BY <2>2, <3>1 DEF PlaceInv, NothingElsewhere
  <2> QED
    BY <2>1, <2>2
<1>6. ASSUME NEW e \in dirs
      PROVE  /\ Complete(e) => Complete(e)'
             /\ e \in {Home, cwd} /\ ~ Complete(e) => ~ Complete(e)'
  <2>1. e \in Dir /\ e # dir /\ e \in dirs'
    BY <1>1, <1>2
  <2>2. CASE files'[e] = files[e]
    BY <2>1, <2>2 DEF Complete
  <2>3. CASE e = cwd /\ ~ bDbOpen /\ files'[cwd]["relcat"] = 0
    <3>1. ~ Complete(e)
      BY <2>3 DEF PlaceInv, PlaceKept
    <3> QED
      BY <2>3, <3>1 DEF Complete
  <2> QED
    BY <2>1, <2>2, <2>3
<1>7. /\ ~ Complete(Home) => ~ Complete(Home)'
      /\ Complete(cwd) <=> Complete(cwd)'
  BY <1>1, <1>6 DEF sessionVars, Complete
<1>8. bDbOpen => unsaved' < files'[cwd]["attrcat"]
  BY DEF PlaceInv, PlaceKept, sessionVars
<1>9. PlaceKept'
  BY <1>7, <1>8 DEF PlaceInv, PlaceKept, sessionVars
<1> QED
  BY <1>4, <1>5, <1>6, <1>9 DEF PlaceInv, CatalogsStayed

\* CREATE DATABASE that ends well.
LEMMA CreateDatabaseKeepsPlace ==
  ASSUME PlaceInv, NEW d \in Dbs, NEW limit \in Limits, CreateDatabase(d, limit)
  PROVE  PlaceInv' /\ CatalogsStayed
<1>0. PICK dir : dir = Made(d)
  OBVIOUS
<1>1. /\ files' = [files EXCEPT ![dir] = [@ EXCEPT !["relcat"] = 3, !["attrcat"] = 3]]
      /\ Charged(Configured(d, limit), System', dir, 6)
  BY <1>0, CreateDatabaseEffect
<1>2. /\ Creating(d) /\ UNCHANGED sessionVars /\ dirs' = dirs \union {dir}
      /\ granted' = IF careful' THEN [granted EXCEPT ![d] = limit] ELSE [e \in Dbs |-> 0]
      /\ drifted' \subseteq drifted \union {d}
  BY <1>0 DEF CreateDatabase, Made
<1>3. dir \in Dir /\ dir # cwd /\ cwd \in Dir
  BY <1>0, <1>2, NewDirectory
<1>4. System' \in SystemType
  BY <1>1 DEF Charged
<1>5. \A e \in Dir : e # dir /\ e # cwd => metadata'[e] = metadata[e]
  <2>1. /\ Configured(d, limit) \in SystemType
        /\ \A e \in Dir : e # cwd => Configured(d, limit).metadata[e] = metadata[e]
    BY ConfiguredEffect DEF PlaceInv
  <2>2. \A e \in Dir : e # dir => System'.metadata[e] = Configured(d, limit).metadata[e]
    BY <1>1, <1>3, <2>1, ChargedElsewhere
  <2>3. System'.metadata = metadata'
    BY DEF System
  <2> QED
    BY <2>1, <2>2, <2>3
<1>6. \A e \in Dir : e # dir => files'[e] = files[e]
  BY <1>1, <1>3 DEF PlaceInv, TypeOK
<1>7. granted' \in [Dbs -> Nat] /\ drifted' \subseteq Dbs
  BY <1>2, LimitsAssumption DEF PlaceInv, TypeOK
<1>8. /\ \A e \in Dir : e # dir /\ e # cwd => files'[e] = files[e] /\ metadata'[e] = metadata[e]
      /\ files'[cwd] = files[cwd] \/ (~ bDbOpen /\ files'[cwd]["relcat"] = 0)
      /\ dir = Made(d)
  BY <1>0, <1>3, <1>5, <1>6
<1>9. Creating(d) /\ UNCHANGED sessionVars /\ dirs' = dirs \union {dir}
  BY <1>2
<1> QED
  BY <1>4, <1>7, <1>8, <1>9, CreatingKeepsPlace

\* rmdir leaves the new directory out when it is empty.
LEMMA RemoveIfEmptyEffect ==
  ASSUME NEW dir \in Dir \ dirs, System' \in SystemType,
         NEW s, s = System', RemoveIfEmpty(s, dir)
  PROVE  \/ dirs' = dirs \union {dir}
         \/ /\ dirs' = dirs
            /\ files'[dir] = [f \in File |-> 0] /\ metadata'[dir] = [n \in Name |-> NoAccount]
<1>1. s.files = files' /\ s.metadata = metadata'
  BY DEF System
<1>2. files' \in [Dir -> [File -> Nat]] /\ metadata' \in [Dir -> [Name -> Account]]
  BY NextSystemTypes
<1>3. CASE \E f \in File : s.files[dir][f] > 0 \/ \E n \in Name : s.metadata[dir][n] # NoAccount
  BY <1>3 DEF RemoveIfEmpty
<1>4. CASE ~ \E f \in File : s.files[dir][f] > 0 \/ \E n \in Name : s.metadata[dir][n] # NoAccount
  <2>1. dirs' = dirs
    BY <1>4 DEF RemoveIfEmpty
  <2>2. \A f \in File : files'[dir][f] = 0
    BY <1>1, <1>2, <1>4
  <2>3. \A n \in Name : metadata'[dir][n] = NoAccount
    BY <1>1, <1>4 DEF File
  <2> QED
    BY <1>2, <2>1, <2>2, <2>3
<1> QED
  BY <1>3, <1>4
\* CREATE DATABASE that finds no relcat to open.
LEMMA CreateNoRelcatKeepsPlace ==
  ASSUME PlaceInv, NEW d \in Dbs, NEW limit \in Limits, CreateDatabaseNoRelcat(d, limit)
  PROVE  PlaceInv' /\ CatalogsStayed
<1> DEFINE dir == Made(d)
           s1 == Configured(d, limit)
           s2 == IF MayCreateFile(s1, dir, "relcat")
                 THEN DestroyFile(CreateFile(s1, dir, "relcat"), dir, "relcat") ELSE s1
<1>1. /\ files' = files
      /\ System' \in SystemType
      /\ \A e \in Dir : e # cwd /\ e # dir => metadata'[e] = metadata[e]
  BY CreateNoRelcatEffect
<1>2. /\ Creating(d) /\ UNCHANGED <<sessionVars, granted, drifted>>
      /\ Becomes(s2) /\ RemoveIfEmpty(s2, dir)
  BY DEF CreateDatabaseNoRelcat, Made
<1> HIDE DEF dir, s2
<1>3. dir \in Dir \ dirs /\ dir = Made(d)
  BY <1>2, NewDirectory DEF dir
<1>4. RemoveIfEmpty(System', dir)
  BY <1>2 DEF RemoveIfEmpty, Becomes, System
<1>5. \/ dirs' = dirs \union {dir}
      \/ /\ dirs' = dirs
         /\ files'[dir] = [f \in File |-> 0] /\ metadata'[dir] = [n \in Name |-> NoAccount]
  BY <1>1, <1>3, <1>4, RemoveIfEmptyEffect
<1>6. granted' \in [Dbs -> Nat] /\ drifted' \subseteq Dbs
  BY <1>2 DEF PlaceInv, TypeOK
<1>7. /\ \A e \in Dir : e # dir /\ e # cwd => files'[e] = files[e] /\ metadata'[e] = metadata[e]
      /\ files'[cwd] = files[cwd] \/ (~ bDbOpen /\ files'[cwd]["relcat"] = 0)
      /\ UNCHANGED sessionVars
  BY <1>1, <1>2
<1> QED
  BY <1>1, <1>2, <1>3, <1>5, <1>6, <1>7, CreatingKeepsPlace

\* CREATE DATABASE that the limit stops half way.
LEMMA CreateNoAttrcatKeepsPlace ==
  ASSUME PlaceInv, NEW d \in Dbs, NEW limit \in Limits, CreateDatabaseNoAttrcat(d, limit)
  PROVE  PlaceInv' /\ CatalogsStayed
<1> DEFINE dir == Made(d)
           s1 == SetupCatalog(Configured(d, limit), dir, "relcat")
           s2 == [s1 EXCEPT !.files[cwd]["relcat"] = 0]
<1>1. /\ files' = [files EXCEPT ![dir]["relcat"] = 3, ![cwd]["relcat"] = 0]
      /\ Charged(Configured(d, limit), System', dir, 3)
  BY CreateNoAttrcatEffect
<1>2. /\ Creating(d) /\ ~ bDbOpen /\ UNCHANGED <<sessionVars, granted, drifted>>
      /\ Becomes(s2) /\ RemoveIfEmpty(s2, dir)
  BY DEF CreateDatabaseNoAttrcat, Made
<1> HIDE DEF dir, s2
<1>3. dir \in Dir \ dirs /\ dir # cwd /\ cwd \in Dir /\ dir = Made(d)
  BY <1>2, NewDirectory DEF dir
<1>4. RemoveIfEmpty(System', dir)
  BY <1>2 DEF RemoveIfEmpty, Becomes, System
<1>5. System' \in SystemType
  BY <1>1 DEF Charged
<1>6. \/ dirs' = dirs \union {dir}
      \/ /\ dirs' = dirs
         /\ files'[dir] = [f \in File |-> 0] /\ metadata'[dir] = [n \in Name |-> NoAccount]
  BY <1>3, <1>4, <1>5, RemoveIfEmptyEffect
<1>7. \A e \in Dir : e # dir /\ e # cwd => metadata'[e] = metadata[e]
  <2>1. /\ Configured(d, limit) \in SystemType
        /\ \A e \in Dir : e # cwd => Configured(d, limit).metadata[e] = metadata[e]
    BY ConfiguredEffect DEF PlaceInv
  <2>2. \A e \in Dir : e # dir => System'.metadata[e] = Configured(d, limit).metadata[e]
    BY <1>1, <1>3, <2>1, ChargedElsewhere
  <2>3. System'.metadata = metadata'
    BY DEF System
  <2> QED
    BY <2>1, <2>2, <2>3
<1>8. /\ \A e \in Dir : e # dir /\ e # cwd => files'[e] = files[e]
      /\ files'[cwd]["relcat"] = 0
  BY <1>1, <1>3 DEF PlaceInv, TypeOK, File
<1>9. granted' \in [Dbs -> Nat] /\ drifted' \subseteq Dbs
  BY <1>2 DEF PlaceInv, TypeOK
<1>10. \A e \in Dir : e # dir /\ e # cwd => files'[e] = files[e] /\ metadata'[e] = metadata[e]
  BY <1>7, <1>8
<1>11. /\ Creating(d) /\ UNCHANGED sessionVars
       /\ files'[cwd] = files[cwd] \/ (~ bDbOpen /\ files'[cwd]["relcat"] = 0)
       /\ dir = Made(d)
  BY <1>2, <1>3, <1>8
<1> QED
  BY <1>5, <1>6, <1>9, <1>10, <1>11, CreatingKeepsPlace
\* A step that changes no file and no directory, and the accounts saved in one
\* existing directory at most, goes to a new place.
LEMMA MovingKeepsPlace ==
  ASSUME PlaceInv, dirs' = dirs, files' = files,
         metadata' \in [Dir -> [Name -> Account]],
         \A e \in Dir \ dirs : metadata'[e] = metadata[e],
         databaseName' \in Name, account' \in Account, cwd' \in dirs,
         currentDatabase' \in Dbs \union {None}, bDbOpen' = (currentDatabase' # None),
         unsaved' = 0, UNCHANGED <<granted, careful>>, drifted' = drifted,
         bDbOpen' => cwd' = <<currentDatabase'>> /\ Complete(cwd'),
         ~ bDbOpen' => ~ Complete(cwd')
  PROVE  PlaceInv' /\ CatalogsStayed
<1>1. \A e : Complete(e)' <=> Complete(e)
  BY DEF Complete
<1>2. TypeOK'
  BY DEF PlaceInv, TypeOK
<1>3. NothingElsewhere'
  BY DEF PlaceInv, NothingElsewhere
<1>4. PlaceKept'
  BY <1>1 DEF PlaceInv, PlaceKept, Complete
<1> QED
  BY <1>1, <1>2, <1>3, <1>4 DEF PlaceInv, CatalogsStayed

\* USE of a database that is there.
LEMMA UseKeepsPlace ==
  ASSUME PlaceInv, NEW d \in Dbs, UseDatabase(d)
  PROVE  PlaceInv' /\ CatalogsStayed
<1> DEFINE s == SetDatabaseName(System, <<d>>, d)
<1>1. /\ <<d>> \in dirs /\ <<d>> \in Dir /\ d \in Name /\ dirs \subseteq Dir
      /\ d # None
  BY DirFacts, NamesAssumption DEF UseDatabase, Complete, Name, PlaceInv, TypeOK
<1>2. System \in SystemType /\ System.files = files /\ System.metadata = metadata
  BY SystemFacts DEF PlaceInv
<1>3. /\ s \in SystemType
      /\ s.files = System.files
      /\ System.name = d => s = System
      /\ System.name # d =>
              /\ s.metadata = IF System.account.limit > 0
                              THEN [System.metadata EXCEPT ![<<d>>][System.name] = System.account]
                              ELSE System.metadata
              /\ s.account = System.metadata[<<d>>][d]
  BY <1>1, <1>2, SetDatabaseNameEffect
<1>4. \A e \in Dir \ dirs : s.metadata[e] = metadata[e]
  BY <1>1, <1>2, <1>3 DEF SystemType
<1>5. /\ Becomes(s)
      /\ Complete(<<d>>)
      /\ cwd' = <<d>> /\ currentDatabase' = d /\ bDbOpen' = TRUE /\ unsaved' = 0
      /\ UNCHANGED <<dirs, granted, drifted, careful>>
  BY DEF UseDatabase
<1> HIDE DEF s
<1>6. files' = files /\ metadata' = s.metadata /\ System' \in SystemType
  BY <1>2, <1>3, <1>5, BecomesFacts DEF Becomes
<1>7. /\ dirs' = dirs /\ UNCHANGED <<granted, careful>> /\ drifted' = drifted
      /\ cwd' \in dirs
      /\ currentDatabase' \in Dbs \union {None} /\ bDbOpen' = (currentDatabase' # None)
      /\ unsaved' = 0
      /\ bDbOpen' => cwd' = <<currentDatabase'>> /\ Complete(cwd')
      /\ ~ bDbOpen' => ~ Complete(cwd')
  BY <1>1, <1>5
<1>8. \A e \in Dir \ dirs : metadata'[e] = metadata[e]
  BY <1>4, <1>6
<1> QED
  BY <1>6, <1>7, <1>8, NextSystemTypes, MovingKeepsPlace

\* USE of a database that is not.
LEMMA UseFailsKeepsPlace ==
  ASSUME PlaceInv, NEW d \in Dbs, UseFails(d)
  PROVE  PlaceInv' /\ CatalogsStayed
<1>1. /\ dirs' = dirs /\ files' = files /\ metadata' = metadata
      /\ databaseName' = databaseName /\ account' = account
      /\ UNCHANGED <<granted, careful>> /\ drifted' = drifted
      /\ currentDatabase' = None /\ bDbOpen' = FALSE /\ unsaved' = 0
      /\ cwd' = IF <<d>> \in dirs THEN <<d>> ELSE Home
      /\ ~ Complete(<<d>>)
  BY DEF UseFails, diskVars
<1>2. cwd' \in dirs /\ ~ Complete(cwd')
  BY <1>1 DEF PlaceInv, PlaceKept, TypeOK
<1>3. /\ metadata' \in [Dir -> [Name -> Account]]
      /\ databaseName' \in Name /\ account' \in Account
  BY <1>1 DEF PlaceInv, TypeOK
<1> QED
  BY <1>1, <1>2, <1>3, MovingKeepsPlace

\* The end of the input.
LEMMA EndOfInputKeepsPlace ==
  ASSUME PlaceInv, EndOfInput
  PROVE  PlaceInv' /\ CatalogsStayed
<1>1. /\ dirs' = dirs /\ files' = files
      /\ UNCHANGED <<granted, careful>> /\ drifted' = drifted
      /\ databaseName' = Default /\ account' = metadata'[Home][Default]
      /\ cwd' = Home /\ currentDatabase' = None /\ bDbOpen' = FALSE /\ unsaved' = 0
      /\ metadata' = IF account.limit > 0 THEN SaveDiskUsageMetadata(System, cwd).metadata
                     ELSE metadata
  BY DEF EndOfInput, Restarted
<1>2. /\ System \in SystemType /\ System.metadata = metadata
      /\ cwd \in Dir /\ cwd \in dirs /\ Home \in dirs /\ Home \in Dir /\ Default \in Name
      /\ metadata \in [Dir -> [Name -> Account]]
  BY SystemFacts DEF PlaceInv, TypeOK, Name
<1> DEFINE r == SaveDiskUsageMetadata(System, cwd)
<1>3. r \in SystemType /\ r.metadata = [System.metadata EXCEPT ![cwd][System.name] = System.account]
  BY <1>2, SaveEffect
<1> HIDE DEF r
<1>4. metadata' = r.metadata \/ metadata' = metadata
  BY <1>1 DEF r
<1>5. /\ metadata' \in [Dir -> [Name -> Account]]
      /\ \A e \in Dir \ dirs : metadata'[e] = metadata[e]
  BY <1>2, <1>3, <1>4 DEF SystemType
<1>6. account' \in Account /\ databaseName' \in Name /\ cwd' \in dirs /\ ~ Complete(cwd')
  BY <1>1, <1>2, <1>5 DEF PlaceInv, PlaceKept
<1> QED
  BY <1>1, <1>5, <1>6, MovingKeepsPlace
\* quit takes the pages of attrcat that its header does not count yet, and
\* there were others.
LEMMA QuitKeepsPlace ==
  ASSUME PlaceInv, Quit
  PROVE  PlaceInv' /\ CatalogsStayed
<1>1. /\ files' = IF bDbOpen THEN [files EXCEPT ![cwd]["attrcat"] = @ - unsaved] ELSE files
      /\ UNCHANGED <<dirs, metadata, granted, careful>>
      /\ drifted' \in {drifted, IF unsaved > 0 THEN drifted \union {currentDatabase} ELSE drifted}
      /\ databaseName' = Default /\ account' = metadata[Home][Default]
      /\ cwd' = Home /\ currentDatabase' = None /\ bDbOpen' = FALSE /\ unsaved' = 0
  BY DEF Quit, Restarted
<1>2. /\ files \in [Dir -> [File -> Nat]] /\ metadata \in [Dir -> [Name -> Account]]
      /\ unsaved \in Nat /\ cwd \in Dir /\ Home \in Dir /\ Default \in Name
      /\ "attrcat" \in File /\ "relcat" \in File /\ Home \in dirs
  BY DEF PlaceInv, TypeOK, Name, File
<1>3. bDbOpen => /\ files[cwd]["attrcat"] - unsaved \in Nat
                 /\ files[cwd]["attrcat"] - unsaved > 0
  BY <1>2 DEF PlaceInv, PlaceKept
<1>4. files' \in [Dir -> [File -> Nat]]
  BY <1>1, <1>2, <1>3
<1>5. drifted' \subseteq Dbs
  <2>1. unsaved > 0 => currentDatabase \in Dbs
    <3>1. bDbOpen => currentDatabase \in Dbs
      BY DEF PlaceInv, TypeOK
    <3>2. ~ bDbOpen => unsaved = 0
      BY DEF PlaceInv, PlaceKept
    <3> QED
      BY <3>1, <3>2
  <2> QED
    BY <1>1, <2>1 DEF PlaceInv, TypeOK
<1>6. TypeOK'
  BY <1>1, <1>2, <1>4, <1>5 DEF PlaceInv, TypeOK
<1>7. ASSUME NEW e \in Dir
      PROVE  (files'[e]["relcat"] > 0 <=> files[e]["relcat"] > 0)
             /\ (files'[e]["attrcat"] > 0 <=> files[e]["attrcat"] > 0)
  <2>1. CASE bDbOpen /\ e = cwd
    <3>1. files[cwd]["attrcat"] > 0
      BY <2>1 DEF PlaceInv, PlaceKept, Complete
    <3> QED
      BY <1>1, <1>2, <1>3, <2>1, <3>1
  <2>2. CASE ~ (bDbOpen /\ e = cwd)
    BY <1>1, <1>2, <2>2
  <2> QED
    BY <2>1, <2>2
<1>8. \A e \in Dir : Complete(e)' <=> Complete(e)
  BY <1>1, <1>7 DEF Complete
<1>9. NothingElsewhere'
  BY <1>1, <1>2 DEF PlaceInv, NothingElsewhere, TypeOK
<1>10. PlaceKept'
  <2>1. ~ Complete(Home)'
    BY <1>2, <1>8 DEF PlaceInv, PlaceKept
  <2> QED
    BY <1>1, <2>1 DEF PlaceKept, Complete
<1> QED
  BY <1>6, <1>8, <1>9, <1>10 DEF PlaceInv, CatalogsStayed, TypeOK

\* A statement on the open database changes the size of one file of it and the
\* account, and leaves both catalogs with pages.
LEMMA StatementKeepsPlace ==
  ASSUME PlaceInv, bDbOpen, NEW f \in File, NEW n \in Nat,
         files' = [files EXCEPT ![cwd][f] = n],
         f \in {"relcat", "attrcat"} => n > 0,
         System' \in SystemType,
         \A e \in Dir : e # cwd => metadata'[e] = metadata[e],
         UNCHANGED <<dirs, cwd, currentDatabase, bDbOpen, granted, careful>>,
         drifted' \subseteq drifted \union {currentDatabase},
         unsaved' \in Nat, unsaved' < files'[cwd]["attrcat"]
  PROVE  PlaceInv' /\ CatalogsStayed
<1>1. /\ files \in [Dir -> [File -> Nat]] /\ cwd \in Dir /\ cwd \in dirs
      /\ currentDatabase \in Dbs /\ "attrcat" \in File /\ "relcat" \in File
      /\ Home \in Dir
  BY DEF PlaceInv, TypeOK, File
<1>2. TypeOK'
  BY <1>1, NextSystemTypes DEF PlaceInv, TypeOK
<1>3. NothingElsewhere'
  BY <1>1 DEF PlaceInv, NothingElsewhere
<1>4. Complete(cwd) /\ Complete(cwd)'
  <2>1. files[cwd]["relcat"] > 0 /\ files[cwd]["attrcat"] > 0
    BY DEF PlaceInv, PlaceKept, Complete
  <2>2. files'[cwd]["relcat"] > 0 /\ files'[cwd]["attrcat"] > 0
    BY <1>1, <2>1
  <2> QED
    BY <1>1, <2>1, <2>2 DEF Complete
<1>5. ASSUME NEW e \in Dir, e # cwd PROVE Complete(e)' <=> Complete(e)
  BY <1>1, <1>5 DEF Complete
<1>6. PlaceKept'
  <2>1. cwd # Home
    BY <1>4 DEF PlaceInv, PlaceKept
  <2>2. ~ Complete(Home)'
    BY <1>1, <1>5, <2>1 DEF PlaceInv, PlaceKept
  <2> QED
    BY <1>4, <2>2 DEF PlaceInv, PlaceKept
<1>7. CatalogsStayed
  BY <1>1, <1>4, <1>5 DEF CatalogsStayed, PlaceInv, TypeOK
<1> QED
  BY <1>2, <1>3, <1>6, <1>7 DEF PlaceInv

\* Tables are not catalogs.
LEMMA TableFacts ==
  \A t \in Tables : t \in File /\ t # "relcat" /\ t # "attrcat"
BY TablesAssumption DEF File

\* What a statement does to the open database: the file, and n charges.
LEMMA StatementEffects ==
  ASSUME PlaceInv, bDbOpen
  PROVE  /\ \A t \in Tables : CreateTable(t) =>
              /\ files' = [files EXCEPT ![cwd][t] = 2]
              /\ Charged(System, System', cwd, 2)
         /\ \A t \in Tables : GrowTable(t) =>
              /\ files' = [files EXCEPT ![cwd][t] = @ + 1]
              /\ Charged(System, System', cwd, 1)
         /\ GrowCatalog =>
              /\ files' = [files EXCEPT ![cwd]["attrcat"] = @ + 1]
              /\ Charged(System, System', cwd, 1)
<1>1. /\ System \in SystemType /\ System.files = files
      /\ cwd \in Dir /\ "attrcat" \in File
      /\ \A t \in Tables : t \in File
  BY SystemFacts, TableFacts DEF PlaceInv, TypeOK, File
<1>2. ASSUME NEW t \in Tables, CreateTable(t)
      PROVE  /\ files' = [files EXCEPT ![cwd][t] = 2]
             /\ Charged(System, System', cwd, 2)
  <2> DEFINE r == CreateFile(System, cwd, t)
  <2>1. r.files = [System.files EXCEPT ![cwd][t] = 2] /\ Charged(System, r, cwd, 2)
    BY <1>1, CreateFileEffect
  <2>2. Becomes(r)
    BY <1>2 DEF CreateTable
  <2> HIDE DEF r
  <2>3. System' = r /\ files' = r.files
    BY <2>1, <2>2, BecomesFacts DEF Charged, Becomes
  <2> QED
    BY <1>1, <2>1, <2>3
<1>3. ASSUME NEW f \in File, Becomes(AllocatePage(System, cwd, f))
      PROVE  /\ files' = [files EXCEPT ![cwd][f] = @ + 1]
             /\ Charged(System, System', cwd, 1)
  <2> DEFINE r == AllocatePage(System, cwd, f)
  <2>1. r.files = [System.files EXCEPT ![cwd][f] = @ + 1] /\ Charged(System, r, cwd, 1)
    BY <1>1, AllocatePageEffect
  <2>2. Becomes(r)
    BY <1>3
  <2> HIDE DEF r
  <2>3. System' = r /\ files' = r.files
    BY <2>1, <2>2, BecomesFacts DEF Charged, Becomes
  <2> QED
    BY <1>1, <2>1, <2>3
<1> QED
  BY <1>1, <1>2, <1>3 DEF GrowTable, GrowCatalog
\* The statements on the open database.
LEMMA StatementsKeepPlace ==
  ASSUME PlaceInv,
         GrowCatalog \/ \E t \in Tables : CreateTable(t) \/ GrowTable(t) \/ DropTable(t)
  PROVE  PlaceInv' /\ CatalogsStayed
<1>1. bDbOpen
  BY DEF GrowCatalog, CreateTable, GrowTable, DropTable
<1>2. /\ System \in SystemType /\ System.files = files /\ System.metadata = metadata
      /\ files \in [Dir -> [File -> Nat]] /\ cwd \in Dir
      /\ "attrcat" \in File /\ unsaved \in Nat /\ currentDatabase \in Dbs
  BY <1>1, SystemFacts DEF PlaceInv, TypeOK, File
<1>3. unsaved < files[cwd]["attrcat"]
  BY <1>1 DEF PlaceInv, PlaceKept
<1>4. ASSUME NEW n, Charged(System, System', cwd, n)
      PROVE  /\ System' \in SystemType
             /\ \A e \in Dir : e # cwd => metadata'[e] = metadata[e]
  <2>1. \A e \in Dir : e # cwd => System'.metadata[e] = System.metadata[e]
    BY <1>2, <1>4, ChargedElsewhere
  <2>2. System'.metadata = metadata'
    BY DEF System
  <2> QED
    BY <1>2, <1>4, <2>1, <2>2 DEF Charged
<1>5. CASE GrowCatalog
  <2>1. /\ files' = [files EXCEPT ![cwd]["attrcat"] = @ + 1]
        /\ Charged(System, System', cwd, 1)
    BY <1>1, <1>5, StatementEffects
  <2>2. /\ UNCHANGED <<dirs, cwd, currentDatabase, bDbOpen, granted, careful>>
        /\ unsaved' = unsaved + 1 /\ drifted' \subseteq drifted \union {currentDatabase}
    BY <1>5 DEF GrowCatalog, Refused
  <2>3. /\ files[cwd]["attrcat"] + 1 \in Nat /\ files[cwd]["attrcat"] + 1 > 0
        /\ files'[cwd]["attrcat"] = files[cwd]["attrcat"] + 1
        /\ unsaved' \in Nat /\ unsaved' < files'[cwd]["attrcat"]
    BY <1>2, <1>3, <2>1, <2>2
  <2>4. files' = [files EXCEPT ![cwd]["attrcat"] = files[cwd]["attrcat"] + 1]
    BY <2>1
  <2> QED
    BY <1>1, <1>2, <1>4, <2>1, <2>2, <2>3, <2>4, StatementKeepsPlace
<1>6. CASE \E t \in Tables : CreateTable(t) \/ GrowTable(t) \/ DropTable(t)
  <2>1. PICK t \in Tables : CreateTable(t) \/ GrowTable(t) \/ DropTable(t)
    BY <1>6
  <2>2. t \in File /\ t \notin {"relcat", "attrcat"} /\ files[cwd][t] \in Nat
    BY <1>2, TableFacts
  <2>3. /\ UNCHANGED <<dirs, cwd, currentDatabase, bDbOpen, granted, careful>>
        /\ unsaved' = unsaved /\ drifted' \subseteq drifted \union {currentDatabase}
    BY <2>1 DEF CreateTable, GrowTable, DropTable, Refused, sessionVars
  <2>4. PICK n \in Nat : /\ files' = [files EXCEPT ![cwd][t] = n]
                         /\ System' \in SystemType
                         /\ \A e \in Dir : e # cwd => metadata'[e] = metadata[e]
    <3>1. CASE CreateTable(t)
      BY <1>1, <1>4, <3>1, StatementEffects
    <3>2. CASE GrowTable(t)
      <4>1. files' = [files EXCEPT ![cwd][t] = files[cwd][t] + 1] /\ files[cwd][t] + 1 \in Nat
        BY <1>1, <2>2, <3>2, StatementEffects
      <4>2. Charged(System, System', cwd, 1)
        BY <1>1, <3>2, StatementEffects
      <4> QED
        BY <1>4, <4>1, <4>2
    <3>3. CASE DropTable(t)
      <4> DEFINE r == DestroyFile(System, cwd, t)
      <4>1. System.files[cwd][t] > 0 /\ Becomes(r)
        BY <1>2, <3>3 DEF DropTable
      <4> HIDE DEF r
      <4>2. /\ r \in SystemType
            /\ r.files = [System.files EXCEPT ![cwd][t] = 0]
            /\ \A e \in Dir : e # cwd => r.metadata[e] = System.metadata[e]
        <5>1. System \in SystemType /\ cwd \in Dir /\ t \in File
          BY <1>2, <2>2
        <5>2. r = DestroyFile(System, cwd, t) /\ System.files[cwd][t] > 0
          BY <4>1 DEF r
        <5> QED
          BY <5>1, <5>2, DestroyFileElsewhere
      <4>3. System' = r /\ files' = r.files /\ metadata' = r.metadata
        BY <4>1, <4>2, BecomesFacts DEF Becomes
      <4> QED
        BY <1>2, <4>2, <4>3
    <3> QED
      BY <2>1, <3>1, <3>2, <3>3
  <2>5. files'[cwd]["attrcat"] = files[cwd]["attrcat"]
    BY <1>2, <2>2, <2>4
  <2>6. unsaved' \in Nat /\ unsaved' < files'[cwd]["attrcat"]
    BY <1>2, <1>3, <2>3, <2>5
  <2> QED
    BY <1>1, <2>2, <2>3, <2>4, <2>6, StatementKeepsPlace
<1> QED
  BY <1>5, <1>6

\* Every step keeps the place, and the catalogs.
LEMMA NextKeepsPlace == PlaceInv /\ [Next]_vars => PlaceInv' /\ CatalogsStayed
<1> SUFFICES ASSUME PlaceInv, [Next]_vars PROVE PlaceInv' /\ CatalogsStayed
  OBVIOUS
<1>1. CASE UNCHANGED vars
  BY <1>1 DEF vars, diskVars, sessionVars, PlaceInv, TypeOK, NothingElsewhere, PlaceKept,
              CatalogsStayed, Complete
<1>2. ASSUME NEW d \in Dbs, NEW limit \in Limits,
             \/ CreateDatabase(d, limit)
             \/ CreateDatabaseNoRelcat(d, limit)
             \/ CreateDatabaseNoAttrcat(d, limit)
      PROVE  PlaceInv' /\ CatalogsStayed
  BY <1>2, CreateDatabaseKeepsPlace, CreateNoRelcatKeepsPlace, CreateNoAttrcatKeepsPlace
<1>3. ASSUME NEW d \in Dbs, UseDatabase(d) \/ UseFails(d)
      PROVE  PlaceInv' /\ CatalogsStayed
  BY <1>3, UseKeepsPlace, UseFailsKeepsPlace
<1>4. CASE GrowCatalog \/ \E t \in Tables : CreateTable(t) \/ GrowTable(t) \/ DropTable(t)
  BY <1>4, StatementsKeepPlace
<1>5. CASE Quit
  BY <1>5, QuitKeepsPlace
<1>6. CASE EndOfInput
  BY <1>6, EndOfInputKeepsPlace
<1> QED
  BY <1>1, <1>2, <1>3, <1>4, <1>5, <1>6 DEF Next

\* Whatever order statements come in, the session is in the directory of the
\* database in use, which has its catalogs.
THEOREM PlaceInvariant == Spec => []PlaceInv
<1>1. PlaceInv /\ [Next]_vars => PlaceInv'
  BY NextKeepsPlace
<1> QED
  BY InitPlace, <1>1, PTL DEF Spec

\* Every variable has its type.
THEOREM SessionTypeCorrect == Spec => []TypeOK
<1>1. PlaceInv => TypeOK
  BY DEF PlaceInv
<1> QED
  BY PlaceInvariant, <1>1, PTL

\* No statement takes the catalogs away from a database that has them.
THEOREM CatalogsRemain == Spec => CatalogsStay
<1>1. PlaceInv /\ [Next]_vars => [\A dir \in dirs : Complete(dir) => Complete(dir)']_vars
  BY NextKeepsPlace DEF CatalogsStayed
<1> QED
  BY PlaceInvariant, <1>1, PTL DEF Spec, CatalogsStay

-----------------------------------------------------------------------------
(* The accounts *)

\* The account a of database d has the limit that was granted, and counts the
\* pages there are unless one was refused or lost.
AccountKept(d, a) ==
  /\ a.limit = granted[d]
  /\ a.limit > 0 => /\ a.used <= a.limit
                    /\ d \notin drifted => a.used = Pages(files[<<d>>])

MadeAtHome == dirs \subseteq {Home} \union {<<d>> : d \in Dbs}

NameInUse == bDbOpen => databaseName = currentDatabase

\* No page is counted for a database that is still to be made.
NothingUsedYet ==
  \A d \in Dbs : <<d>> \notin dirs => /\ metadata[Home][d].used = 0
                                      /\ databaseName = d => account.used = 0

\* Both copies of the account of a database are right, the one saved in its
\* directory and, while its name is set, the one in memory.
BothCopiesKept ==
  \A d \in Dbs : Complete(<<d>>) => /\ AccountKept(d, metadata[<<d>>][d])
                                    /\ databaseName = d => AccountKept(d, account)

AccountsKept == careful => MadeAtHome /\ NameInUse /\ NothingUsedYet /\ BothCopiesKept

AccountsInv == PlaceInv /\ AccountsKept

\* Nothing is made and nothing counted.
LEMMA InitAccounts == Init => AccountsKept
<1> SUFFICES ASSUME Init PROVE AccountsKept
  OBVIOUS
<1>1. /\ dirs = {Home} /\ ~ bDbOpen
      /\ account = NoAccount /\ NoAccount.used = 0
      /\ \A d \in Dbs : metadata[Home][d] = NoAccount
  BY DirFacts DEF Init, NoAccount, Name
<1>2. \A d \in Dbs : ~ Complete(<<d>>)
  BY <1>1, DirFacts DEF Complete
<1> QED
  BY <1>1, <1>2 DEF AccountsKept, MadeAtHome, NameInUse, NothingUsedYet, BothCopiesKept

\* At home, a database that is made begins with its limit and no page counted,
\* whatever account was in memory.
LEMMA ConfiguredAtHome ==
  ASSUME TypeOK, NothingUsedYet, cwd = Home, NEW d \in Dbs, NEW limit \in Limits,
         <<d>> \notin dirs, NEW r, r = Configured(d, limit)
  PROVE  /\ r \in SystemType
         /\ r.account = [limit |-> limit, used |-> 0]
         /\ \A e \in Dbs : <<e>> \notin dirs => r.metadata[Home][e].used = 0
<1> DEFINE s == SetDatabaseName(System, cwd, d)
<1>1. d \in Name /\ Home \in Dir /\ limit \in Nat /\ Dbs \subseteq Name
  BY LimitsAssumption, DirFacts DEF Name
<1>2. /\ System \in SystemType
      /\ System.metadata = metadata /\ System.name = databaseName /\ System.account = account
  BY SystemFacts
<1>3. /\ s \in SystemType
      /\ s.name = d
      /\ databaseName = d => s = System
      /\ databaseName # d => /\ s.metadata = IF account.limit > 0
                                             THEN [metadata EXCEPT ![Home][databaseName] = account]
                                             ELSE metadata
                            /\ s.account = metadata[Home][d]
  BY <1>1, <1>2, SetDatabaseNameEffect
<1>4. r = SetDiskSpaceLimit(s, Home, limit)
  BY DEF Configured
<1> HIDE DEF s
<1>5. ASSUME NEW e \in Dbs, <<e>> \notin dirs
      PROVE  s.metadata[Home][e].used = 0
  <2>1. metadata \in [Dir -> [Name -> Account]] /\ e \in Name /\ databaseName \in Name
    BY <1>1 DEF TypeOK
  <2>2. metadata[Home][e].used = 0 /\ (databaseName = e => account.used = 0)
    BY <1>5 DEF NothingUsedYet
  <2>3. s.metadata = metadata \/ s.metadata = [metadata EXCEPT ![Home][databaseName] = account]
    BY <1>2, <1>3
  <2>4. s.metadata[Home][e] \in {metadata[Home][e], IF databaseName = e THEN account
                                                   ELSE metadata[Home][e]}
    BY <1>1, <2>1, <2>3
  <2> QED
    BY <2>2, <2>4
<1>6. s.account.used = 0
  BY <1>2, <1>3 DEF NothingUsedYet
<1>7. /\ r \in SystemType
      /\ r.account = [limit |-> limit, used |-> IF s.account.used = 0
                                               THEN s.metadata[Home][s.name].used
                                               ELSE s.account.used]
      /\ r.metadata = [s.metadata EXCEPT ![Home][s.name] = r.account]
  BY <1>1, <1>3, <1>4, SetLimitEffect
<1>8. r.account = [limit |-> limit, used |-> 0]
  BY <1>3, <1>5, <1>6, <1>7
<1>9. ASSUME NEW e \in Dbs, <<e>> \notin dirs
      PROVE  r.metadata[Home][e].used = 0
  <2>1. s.metadata \in [Dir -> [Name -> Account]] /\ e \in Name
    BY <1>1, <1>3 DEF SystemType
  <2>2. s.metadata[Home][e].used = 0
    BY <1>5, <1>9
  <2>3. r.account.used = 0
    BY <1>8
  <2> QED
    BY <1>1, <1>3, <1>7, <2>1, <2>2, <2>3
<1> QED
  BY <1>7, <1>8, <1>9
\* CREATE DATABASE, if it stays careful, is given at home with none open.
LEMMA CreatingAtHome ==
  ASSUME PlaceInv, AccountsKept, NEW d \in Dbs, Creating(d), careful'
  PROVE  /\ careful /\ cwd = Home /\ ~ bDbOpen
         /\ Made(d) = <<d>> /\ <<d>> \in Dir \ dirs /\ <<d>> # Home
         /\ MadeAtHome /\ NothingUsedYet /\ BothCopiesKept
BY DirFacts DEF Creating, Made, AccountsKept, PlaceInv, TypeOK

\* A database made at home with n pages counted keeps the accounts, if its own
\* is right once it is complete.
LEMMA CreatingKeepsAccounts ==
  ASSUME PlaceInv, AccountsKept, NEW d \in Dbs, NEW limit \in Limits, NEW n,
         Creating(d), careful', dirs' = dirs \union {<<d>>}, UNCHANGED sessionVars,
         Charged(Configured(d, limit), System', <<d>>, n),
         \A e \in Dbs : e # d => files'[<<e>>] = files[<<e>>],
         \A e \in Dbs : e # d => granted'[e] = granted[e] /\ (e \in drifted' <=> e \in drifted),
         Complete(<<d>>)' => /\ AccountKept(d, metadata[<<d>>][d])'
                             /\ AccountKept(d, account)'
  PROVE  AccountsKept'
<1> DEFINE s == Configured(d, limit)
<1>1. /\ careful /\ cwd = Home /\ ~ bDbOpen
      /\ <<d>> \in Dir \ dirs /\ <<d>> # Home
      /\ MadeAtHome /\ NothingUsedYet /\ BothCopiesKept
  BY CreatingAtHome
<1>2. /\ s \in SystemType
      /\ s.name = d
      /\ \A e \in Dbs : <<e>> \notin dirs => s.metadata[Home][e].used = 0
      /\ \A e \in Dir : e # Home => s.metadata[e] = metadata[e]
  <2>1. TypeOK /\ NothingUsedYet /\ cwd = Home /\ <<d>> \notin dirs
    BY <1>1 DEF PlaceInv
  <2>2. s \in SystemType /\ \A e \in Dbs : <<e>> \notin dirs => s.metadata[Home][e].used = 0
    BY <2>1, ConfiguredAtHome
  <2>3. s.name = d /\ \A e \in Dir : e # Home => s.metadata[e] = metadata[e]
    BY <2>1, ConfiguredEffect
  <2> QED
    BY <2>2, <2>3
<1> HIDE DEF s
<1>3. Charged(s, System', <<d>>, n)
  BY DEF s
<1>4. System'.metadata = metadata' /\ System'.name = databaseName'
  BY DEF System
<1>5. /\ databaseName' = d
      /\ \A e \in Dir : e # <<d>> => metadata'[e] = s.metadata[e]
  <2>1. \A e \in Dir : e # <<d>> => System'.metadata[e] = s.metadata[e]
    BY <1>1, <1>2, <1>3, ChargedElsewhere
  <2>2. System'.name = s.name
    BY <1>3 DEF Charged
  <2> QED
    BY <1>2, <1>4, <2>1, <2>2
<1>6. MadeAtHome'
  BY <1>1 DEF MadeAtHome
<1>7. NameInUse'
  BY <1>1 DEF NameInUse, sessionVars
<1>8. NothingUsedYet'
  <2> SUFFICES ASSUME NEW e \in Dbs, <<e>> \notin dirs'
               PROVE  metadata'[Home][e].used = 0 /\ (databaseName' = e => account'.used = 0)
    BY DEF NothingUsedYet
  <2>1. <<e>> \notin dirs /\ e # d
    OBVIOUS
  <2>2. metadata'[Home] = s.metadata[Home]
    BY <1>1, <1>5, DirFacts
  <2> QED
    BY <1>2, <1>5, <2>1, <2>2
<1>9. BothCopiesKept'
  <2> SUFFICES ASSUME NEW e \in Dbs, Complete(<<e>>)'
               PROVE  /\ AccountKept(e, metadata[<<e>>][e])'
                      /\ databaseName' = e => AccountKept(e, account)'
    BY DEF BothCopiesKept
  <2>1. CASE e = d
    BY <2>1
  <2>2. CASE e # d
    <3>1. /\ <<e>> \in Dir /\ <<e>> # <<d>> /\ <<e>> # Home
          /\ files'[<<e>>] = files[<<e>>]
          /\ granted'[e] = granted[e] /\ (e \in drifted' <=> e \in drifted)
      BY <2>2, DirFacts
    <3>2. metadata'[<<e>>] = metadata[<<e>>]
      BY <1>2, <1>5, <3>1
    <3>3. Complete(<<e>>)
      BY <3>1 DEF Complete
    <3>4. AccountKept(e, metadata[<<e>>][e])
      BY <1>1, <3>3 DEF BothCopiesKept
    <3>5. AccountKept(e, metadata[<<e>>][e])'
      BY <3>1, <3>2, <3>4 DEF AccountKept
    <3> QED
      BY <1>5, <2>2, <3>5
  <2> QED
    BY <2>1, <2>2
<1> QED
  BY <1>6, <1>7, <1>8, <1>9 DEF AccountsKept

\* A new database has six pages.
LEMMA NewDatabasePages ==
  Pages([[f \in File |-> 0] EXCEPT !["relcat"] = 3, !["attrcat"] = 3]) = 6
<1> DEFINE none == [f \in File |-> 0]
           one  == [none EXCEPT !["relcat"] = 3]
<1>1. "relcat" \in File /\ "attrcat" \in File
  BY DEF File
<1>2. none \in [File -> Nat] /\ none["relcat"] = 0
  BY <1>1
<1>3. Pages(none) = 0
  BY PagesBounds
<1>4. Pages(one) = 3
  <2> HIDE DEF none
  <2>1. Pages([none EXCEPT !["relcat"] = 3]) = Pages(none) - none["relcat"] + 3
    BY <1>1, <1>2, PagesChange
  <2> QED
    BY <1>2, <1>3, <2>1
<1>5. one \in [File -> Nat] /\ one["attrcat"] = 0
  BY <1>1
<1> HIDE DEF one
<1>6. Pages([one EXCEPT !["attrcat"] = 3]) = Pages(one) - one["attrcat"] + 3
  BY <1>1, <1>5, PagesChange
<1>7. Pages([one EXCEPT !["attrcat"] = 3]) = 6
  BY <1>4, <1>5, <1>6
<1> QED
  BY <1>7 DEF one
\* CREATE DATABASE that ends well: both copies have the limit, and count six
\* pages or are known to have missed one.
LEMMA CreateDatabaseKeepsAccounts ==
  ASSUME PlaceInv, AccountsKept, NEW d \in Dbs, NEW limit \in Limits,
         CreateDatabase(d, limit), careful'
  PROVE  AccountsKept'
<1> DEFINE s == Configured(d, limit)
           full == [[f \in File |-> 0] EXCEPT !["relcat"] = 3, !["attrcat"] = 3]
           after == SetupCatalog(SetupCatalog(s, Append(cwd, d), "relcat"), Append(cwd, d), "attrcat")
<1>1. /\ Creating(d) /\ UNCHANGED sessionVars /\ dirs' = dirs \union {Made(d)}
      /\ Becomes(after)
      /\ granted' = [granted EXCEPT ![d] = limit]
      /\ drifted' = {e \in drifted : careful'}
                      \union {e \in {d} : careful' /\ limit > 0 /\ after.account.used < 6}
  BY DEF CreateDatabase, Made
<1>2. /\ cwd = Home /\ Made(d) = <<d>> /\ <<d>> \in Dir \ dirs /\ <<d>> # Home
      /\ NothingUsedYet
  BY <1>1, CreatingAtHome
<1>3. /\ files' = [files EXCEPT ![<<d>>] = [@ EXCEPT !["relcat"] = 3, !["attrcat"] = 3]]
      /\ Charged(s, System', <<d>>, 6)
  <2>1. <<d>> = Made(d)
    BY <1>2
  <2> QED
    BY <2>1, CreateDatabaseEffect
<1> HIDE DEF after
<1>4. account' = after.account
  BY <1>1 DEF Becomes
<1>5. /\ granted'[d] = limit
      /\ d \notin drifted' => ~ (limit > 0 /\ account'.used < 6)
      /\ \A e \in Dbs : e # d => granted'[e] = granted[e] /\ (e \in drifted' <=> e \in drifted)
  BY <1>1, <1>4 DEF PlaceInv, TypeOK
<1>6. /\ files[<<d>>] = [f \in File |-> 0] /\ metadata[<<d>>] = [n \in Name |-> NoAccount]
      /\ files \in [Dir -> [File -> Nat]]
  BY <1>2 DEF PlaceInv, NothingElsewhere, TypeOK
<1>7. files'[<<d>>] = full /\ \A e \in Dbs : e # d => files'[<<e>>] = files[<<e>>]
  BY <1>2, <1>3, <1>6, DirFacts
<1>8. Pages(files'[<<d>>]) = 6
  BY <1>7, NewDatabasePages
<1>9. /\ s \in SystemType /\ s.name = d
      /\ s.account = [limit |-> limit, used |-> 0]
      /\ s.metadata[<<d>>] = metadata[<<d>>]
  <2>1. TypeOK
    BY DEF PlaceInv
  <2>2. s.name = d /\ s.metadata[<<d>>] = metadata[<<d>>]
    BY <1>2, <2>1, ConfiguredEffect
  <2>3. s \in SystemType /\ s.account = [limit |-> limit, used |-> 0]
    BY <1>2, <2>1, ConfiguredAtHome
  <2> QED
    BY <2>2, <2>3
<1> HIDE DEF s, full
<1>10. System'.metadata = metadata' /\ System'.name = databaseName' /\ System'.account = account'
  BY DEF System
<1>11. limit \in Nat /\ d \in Name /\ account' \in Account
  BY <1>3, <1>10, LimitsAssumption DEF Name, Charged, SystemType
<1>12. account'.limit = limit /\ (limit > 0 => account'.used = UpTo(limit, 6))
  BY <1>3, <1>9, <1>10, <1>11 DEF Charged
<1>13. metadata'[<<d>>][d] = account' \/ (limit = 0 /\ metadata'[<<d>>][d] = NoAccount)
  <2>1. CASE metadata' = s.metadata /\ account' = s.account
    <3>1. limit > 0 => UpTo(limit, 6) # 0
      BY <1>11 DEF UpTo
    <3>2. limit = 0
      BY <1>9, <1>11, <1>12, <2>1, <3>1
    <3> QED
      BY <1>6, <1>9, <1>11, <2>1, <3>2
  <2>2. CASE metadata' = [s.metadata EXCEPT ![<<d>>][d] = account']
    BY <1>2, <1>9, <1>11, <2>2 DEF SystemType
  <2> QED
    BY <1>3, <1>9, <1>10, <2>1, <2>2 DEF Charged
<1>14. ASSUME NEW a, a = account' \/ (limit = 0 /\ a = NoAccount)
       PROVE  /\ a.limit = granted'[d]
              /\ a.limit > 0 => /\ a.used <= a.limit
                                /\ d \notin drifted' => a.used = Pages(files'[<<d>>])
  <2>1. CASE limit = 0
    <3>1. a.limit = 0
      BY <1>12, <1>14, <2>1 DEF NoAccount
    <3> QED
      BY <1>5, <2>1, <3>1
  <2>2. CASE limit > 0
    <3>1. a.limit = limit /\ a.used = UpTo(limit, 6)
      BY <1>12, <1>14, <2>2
    <3>2. UpTo(limit, 6) <= limit /\ (UpTo(limit, 6) < 6 \/ UpTo(limit, 6) = 6)
      BY <1>11 DEF UpTo
    <3>3. d \notin drifted' => UpTo(limit, 6) = 6
      BY <1>5, <1>12, <2>2, <3>2
    <3> QED
      BY <1>5, <1>8, <3>1, <3>2, <3>3
  <2> QED
    BY <1>11, <2>1, <2>2
<1>15. AccountKept(d, metadata[<<d>>][d])' /\ AccountKept(d, account)'
  BY <1>13, <1>14 DEF AccountKept
<1>16. dirs' = dirs \union {<<d>>} /\ Charged(Configured(d, limit), System', <<d>>, 6)
  BY <1>1, <1>2, <1>3 DEF s
<1> QED
  BY <1>1, <1>5, <1>7, <1>15, <1>16, CreatingKeepsAccounts

\* At home with no database open there is room for relcat, since no page is
\* counted yet: CREATE DATABASE without relcat is not careful.
LEMMA NoRelcatIsCareless ==
  ASSUME PlaceInv, AccountsKept, NEW d \in Dbs, NEW limit \in Limits,
         CreateDatabaseNoRelcat(d, limit), careful'
  PROVE  FALSE
<1> DEFINE s == Configured(d, limit)
<1>1. Creating(d) /\ (bDbOpen \/ ~ MayCreateFile(s, Made(d), "relcat"))
  BY DEF CreateDatabaseNoRelcat, Made
<1>2. /\ cwd = Home /\ Made(d) = <<d>> /\ <<d>> \in Dir \ dirs /\ ~ bDbOpen
      /\ NothingUsedYet /\ TypeOK
  BY <1>1, CreatingAtHome DEF PlaceInv
<1>3. s.files = files
  BY <1>2, ConfiguredEffect
<1>4. s.account = [limit |-> limit, used |-> 0] /\ limit \in Nat
  BY <1>2, ConfiguredAtHome, LimitsAssumption
<1> HIDE DEF s
<1>5. files[<<d>>]["relcat"] = 0
  BY <1>2 DEF PlaceInv, NothingElsewhere, File
<1>6. MayCreateFile(s, <<d>>, "relcat")
  BY <1>3, <1>4, <1>5 DEF MayCreateFile, CanAllocateDiskPages
<1> QED
  BY <1>1, <1>2, <1>6

\* CREATE DATABASE that the limit stops leaves a directory that is never complete.
LEMMA CreateNoAttrcatKeepsAccounts ==
  ASSUME PlaceInv, AccountsKept, NEW d \in Dbs, NEW limit \in Limits,
         CreateDatabaseNoAttrcat(d, limit), careful'
  PROVE  AccountsKept'
<1> DEFINE s1 == SetupCatalog(Configured(d, limit), Made(d), "relcat")
           s2 == [s1 EXCEPT !.files[cwd]["relcat"] = 0]
<1>1. /\ Creating(d) /\ UNCHANGED <<sessionVars, granted, drifted>>
      /\ Becomes(s2) /\ RemoveIfEmpty(s2, Made(d))
  BY DEF CreateDatabaseNoAttrcat, Made
<1>2. /\ cwd = Home /\ Made(d) = <<d>> /\ <<d>> \in Dir \ dirs /\ <<d>> # Home
  BY <1>1, CreatingAtHome
<1>3. /\ files' = [files EXCEPT ![<<d>>]["relcat"] = 3, ![Home]["relcat"] = 0]
      /\ Charged(Configured(d, limit), System', <<d>>, 3)
  <2>1. <<d>> = Made(d)
    BY <1>2
  <2> QED
    BY <1>2, <2>1, CreateNoAttrcatEffect
<1> HIDE DEF s2
<1>4. RemoveIfEmpty(System', <<d>>) /\ System' \in SystemType
  BY <1>1, <1>2, <1>3 DEF RemoveIfEmpty, Becomes, System, Charged
<1>5. /\ files \in [Dir -> [File -> Nat]] /\ files[<<d>>] = [f \in File |-> 0]
      /\ Home \in Dir /\ "relcat" \in File /\ "attrcat" \in File
  BY <1>2, DirFacts DEF PlaceInv, NothingElsewhere, TypeOK, File
<1>6. /\ files'[<<d>>]["relcat"] = 3 /\ files'[<<d>>]["attrcat"] = 0
      /\ \A e \in Dbs : e # d => files'[<<e>>] = files[<<e>>]
  BY <1>2, <1>3, <1>5, DirFacts
<1>7. dirs' = dirs \union {<<d>>}
  <2>1. \/ dirs' = dirs \union {<<d>>}
        \/ /\ dirs' = dirs
           /\ files'[<<d>>] = [f \in File |-> 0] /\ metadata'[<<d>>] = [n \in Name |-> NoAccount]
    BY <1>2, <1>4, RemoveIfEmptyEffect
  <2>2. files'[<<d>>] # [f \in File |-> 0]
    BY <1>5, <1>6
  <2> QED
    BY <2>1, <2>2
<1>8. ~ Complete(<<d>>)'
  BY <1>6 DEF Complete
<1>9. /\ Creating(d) /\ UNCHANGED sessionVars
      /\ \A e \in Dbs : e # d => granted'[e] = granted[e] /\ (e \in drifted' <=> e \in drifted)
  BY <1>1
<1> QED
  BY <1>3, <1>6, <1>7, <1>8, <1>9, CreatingKeepsAccounts
\* USE saves the old account under its own name, in the directory it goes to,
\* and loads the one of the database; when the name is set already the account
\* in memory is the right one.
LEMMA UseKeepsAccounts ==
  ASSUME PlaceInv, AccountsKept, NEW d \in Dbs, UseDatabase(d), careful'
  PROVE  AccountsKept'
<1> DEFINE s == SetDatabaseName(System, <<d>>, d)
<1>1. /\ Complete(<<d>>) /\ Becomes(s)
      /\ currentDatabase' = d /\ UNCHANGED <<dirs, granted, drifted, careful>>
  BY DEF UseDatabase
<1>2. /\ careful /\ MadeAtHome /\ NothingUsedYet /\ BothCopiesKept
      /\ <<d>> \in dirs /\ <<d>> \in Dir /\ d \in Name /\ Dbs \subseteq Name
      /\ <<d>> # Home /\ Home \in Dir
  BY <1>1, DirFacts DEF AccountsKept, Complete, Name
<1>3. /\ System \in SystemType /\ System.files = files /\ System.metadata = metadata
      /\ System.name = databaseName /\ System.account = account
      /\ metadata \in [Dir -> [Name -> Account]] /\ databaseName \in Name
  BY SystemFacts DEF PlaceInv, TypeOK
<1>4. /\ s \in SystemType
      /\ s.files = files /\ s.name = d
      /\ databaseName = d => s = System
      /\ databaseName # d =>
           /\ s.metadata = IF account.limit > 0
                           THEN [metadata EXCEPT ![<<d>>][databaseName] = account]
                           ELSE metadata
           /\ s.account = metadata[<<d>>][d]
  <2>1. System \in SystemType /\ <<d>> \in Dir /\ d \in Name
    BY <1>2, <1>3
  <2>2. /\ s \in SystemType
        /\ s.files = System.files /\ s.name = d
        /\ System.name = d => s = System
        /\ System.name # d =>
             /\ s.metadata = IF System.account.limit > 0
                             THEN [System.metadata EXCEPT ![<<d>>][System.name] = System.account]
                             ELSE System.metadata
             /\ s.account = System.metadata[<<d>>][d]
    BY <2>1, SetDatabaseNameEffect
  <2> QED
    BY <1>3, <2>2
<1> HIDE DEF s
<1>5. files' = s.files /\ metadata' = s.metadata /\ databaseName' = s.name /\ account' = s.account
  BY <1>1 DEF Becomes
<1>6. /\ files' = files /\ databaseName' = d
      /\ databaseName = d => account' = account
      /\ databaseName # d => account' = metadata[<<d>>][d]
      /\ \/ metadata' = metadata
         \/ databaseName # d /\ metadata' = [metadata EXCEPT ![<<d>>][databaseName] = account]
  BY <1>3, <1>4, <1>5
<1>7. /\ metadata'[Home] = metadata[Home]
      /\ \A e \in Dbs : metadata'[<<e>>][e] = metadata[<<e>>][e]
  BY <1>2, <1>3, <1>6, DirFacts
<1>8. \A e \in Dbs : Complete(<<e>>)' => Complete(<<e>>)
  BY <1>1, <1>6 DEF Complete
<1>9. NothingUsedYet'
  BY <1>1, <1>2, <1>6, <1>7 DEF NothingUsedYet
<1>10. BothCopiesKept'
  <2> SUFFICES ASSUME NEW e \in Dbs, Complete(<<e>>)'
               PROVE  /\ AccountKept(e, metadata[<<e>>][e])'
                      /\ databaseName' = e => AccountKept(e, account)'
    BY DEF BothCopiesKept
  <2>1. /\ AccountKept(e, metadata[<<e>>][e])
        /\ databaseName = e => AccountKept(e, account)
    BY <1>2, <1>8 DEF BothCopiesKept
  <2>2. AccountKept(e, metadata[<<e>>][e])'
    BY <1>1, <1>6, <1>7, <2>1 DEF AccountKept
  <2>3. ASSUME e = d PROVE AccountKept(e, account)'
    BY <1>1, <1>6, <2>1, <2>3 DEF AccountKept
  <2> QED
    BY <1>6, <2>2, <2>3
<1>11. MadeAtHome' /\ NameInUse'
  BY <1>1, <1>2, <1>6 DEF MadeAtHome, NameInUse
<1> QED
  BY <1>9, <1>10, <1>11 DEF AccountsKept

\* USE that fails touches no account.
LEMMA UseFailsKeepsAccounts ==
  ASSUME AccountsKept, NEW d \in Dbs, UseFails(d), careful'
  PROVE  AccountsKept'
BY DEF UseFails, diskVars, AccountsKept, MadeAtHome, NameInUse, NothingUsedYet, BothCopiesKept,
       AccountKept, Complete

\* quit: the saved accounts stay, and the pages it loses are remembered.
LEMMA QuitKeepsAccounts ==
  ASSUME Default \notin Dbs, PlaceInv, AccountsKept, Quit, careful'
  PROVE  AccountsKept'
<1>1. /\ files' = IF bDbOpen THEN [files EXCEPT ![cwd]["attrcat"] = @ - unsaved] ELSE files
      /\ drifted' = IF unsaved > 0 THEN drifted \union {currentDatabase} ELSE drifted
      /\ UNCHANGED <<dirs, metadata, granted, careful>>
      /\ databaseName' = Default /\ bDbOpen' = FALSE
  BY DEF Quit, Restarted
<1>2. careful /\ MadeAtHome /\ NothingUsedYet /\ BothCopiesKept
  BY <1>1 DEF AccountsKept
<1>3. /\ files \in [Dir -> [File -> Nat]] /\ unsaved \in Nat /\ cwd \in Dir
      /\ bDbOpen => cwd = <<currentDatabase>> /\ currentDatabase \in Dbs /\ Complete(cwd)
  BY DEF PlaceInv, PlaceKept, TypeOK
<1>4. ASSUME NEW e \in Dbs
      PROVE  files'[<<e>>] = files[<<e>>] \/ (Complete(<<e>>) /\ e \in drifted')
  <2>1. CASE bDbOpen /\ unsaved > 0 /\ e = currentDatabase
    BY <1>1, <1>3, <2>1
  <2>2. CASE bDbOpen /\ ~ (unsaved > 0)
    <3>1. files[cwd]["attrcat"] - unsaved = files[cwd]["attrcat"]
      BY <1>3, <2>2 DEF File
    <3> QED
      BY <1>1, <1>3, <2>2, <3>1
  <2>3. CASE bDbOpen /\ e # currentDatabase
    BY <1>1, <1>3, <2>3, DirFacts
  <2>4. CASE ~ bDbOpen
    BY <1>1, <2>4
  <2> QED
    BY <2>1, <2>2, <2>3, <2>4
<1>5. BothCopiesKept'
  <2> SUFFICES ASSUME NEW e \in Dbs, Complete(<<e>>)'
               PROVE  AccountKept(e, metadata[<<e>>][e])' /\ databaseName' # e
    BY DEF BothCopiesKept
  <2>1. Complete(<<e>>)
    BY <1>1, <1>4 DEF Complete
  <2>2. AccountKept(e, metadata[<<e>>][e])
    BY <1>2, <2>1 DEF BothCopiesKept
  <2>3. AccountKept(e, metadata[<<e>>][e])'
    BY <1>1, <1>4, <2>2 DEF AccountKept
  <2> QED
    BY <1>1, <2>3
<1>6. NothingUsedYet'
  BY <1>1, <1>2 DEF NothingUsedYet
<1> QED
  BY <1>1, <1>2, <1>5, <1>6 DEF AccountsKept, MadeAtHome, NameInUse

\* The end of the input saves the account in the directory of the session: that
\* of the database in use, home, or one that is not a database.
LEMMA EndOfInputKeepsAccounts ==
  ASSUME Default \notin Dbs, PlaceInv, AccountsKept, EndOfInput, careful'
  PROVE  AccountsKept'
<1>1. /\ metadata' = IF account.limit > 0 THEN SaveDiskUsageMetadata(System, cwd).metadata
                     ELSE metadata
      /\ UNCHANGED <<dirs, files, granted, drifted, careful>>
      /\ databaseName' = Default /\ bDbOpen' = FALSE
  BY DEF EndOfInput, Restarted
<1>2. careful /\ MadeAtHome /\ NameInUse /\ NothingUsedYet /\ BothCopiesKept
  BY <1>1 DEF AccountsKept
<1>3. /\ System \in SystemType /\ System.metadata = metadata
      /\ System.name = databaseName /\ System.account = account
      /\ metadata \in [Dir -> [Name -> Account]] /\ cwd \in Dir /\ databaseName \in Name
      /\ Dbs \subseteq Name /\ Home \in Dir
  BY SystemFacts, DirFacts DEF PlaceInv, TypeOK, Name
<1>4. metadata' = metadata \/ metadata' = [metadata EXCEPT ![cwd][databaseName] = account]
  BY <1>1, <1>3, SaveEffect
<1>5. ASSUME NEW e \in Dir, NEW n \in Name
      PROVE  metadata'[e][n] = metadata[e][n]
             \/ (e = cwd /\ n = databaseName /\ metadata'[e][n] = account)
  BY <1>3, <1>4
<1>6. NothingUsedYet'
  <2> SUFFICES ASSUME NEW e \in Dbs, <<e>> \notin dirs'
               PROVE  metadata'[Home][e].used = 0 /\ databaseName' # e
    BY DEF NothingUsedYet
  <2>1. metadata[Home][e].used = 0 /\ (databaseName = e => account.used = 0)
    BY <1>1, <1>2 DEF NothingUsedYet
  <2> QED
    BY <1>1, <1>3, <1>5, <2>1
<1>7. BothCopiesKept'
  <2> SUFFICES ASSUME NEW e \in Dbs, Complete(<<e>>)'
               PROVE  AccountKept(e, metadata[<<e>>][e])' /\ databaseName' # e
    BY DEF BothCopiesKept
  <2>1. Complete(<<e>>)
    BY <1>1 DEF Complete
  <2>2. /\ AccountKept(e, metadata[<<e>>][e])
        /\ databaseName = e => AccountKept(e, account)
    BY <1>2, <2>1 DEF BothCopiesKept
  <2>3. \/ metadata'[<<e>>][e] = metadata[<<e>>][e]
        \/ databaseName = e /\ metadata'[<<e>>][e] = account
    BY <1>3, <1>5, DirFacts
  <2>4. AccountKept(e, metadata[<<e>>][e])'
    BY <1>1, <2>2, <2>3 DEF AccountKept
  <2> QED
    BY <1>1, <2>4
<1> QED
  BY <1>1, <1>2, <1>6, <1>7 DEF AccountsKept, MadeAtHome, NameInUse
\* A statement on database c keeps the accounts, if it leaves the account in
\* memory right, and either saves it or leaves the saved one right.
LEMMA StatementKeepsAccounts ==
  ASSUME PlaceInv, AccountsKept, careful, NEW c \in Dbs, cwd = <<c>>, Complete(cwd),
         databaseName = c, databaseName' = c, currentDatabase' = c,
         UNCHANGED <<dirs, granted>>,
         \A e \in Dir : e # cwd => files'[e] = files[e],
         \A e \in Dbs : e # c => (e \in drifted' <=> e \in drifted),
         AccountKept(c, account)',
         \/ metadata' = [metadata EXCEPT ![cwd][c] = account']
         \/ metadata' = metadata /\ AccountKept(c, metadata[<<c>>][c])'
  PROVE  AccountsKept'
<1>1. MadeAtHome /\ NothingUsedYet /\ BothCopiesKept
  BY DEF AccountsKept
<1>2. /\ metadata \in [Dir -> [Name -> Account]] /\ cwd \in Dir /\ <<c>> \in dirs
      /\ Home \in Dir /\ Home # cwd /\ Dbs \subseteq Name
  BY DirFacts DEF PlaceInv, TypeOK, Name
<1>3. metadata'[Home] = metadata[Home]
  BY <1>2
<1>4. NothingUsedYet'
  <2> SUFFICES ASSUME NEW e \in Dbs, <<e>> \notin dirs'
               PROVE  metadata'[Home][e].used = 0 /\ databaseName' # e
    BY DEF NothingUsedYet
  <2>1. metadata[Home][e].used = 0
    BY <1>1 DEF NothingUsedYet
  <2> QED
    BY <1>2, <1>3, <2>1
<1>5. BothCopiesKept'
  <2> SUFFICES ASSUME NEW e \in Dbs, Complete(<<e>>)'
               PROVE  /\ AccountKept(e, metadata[<<e>>][e])'
                      /\ databaseName' = e => AccountKept(e, account)'
    BY DEF BothCopiesKept
  <2>1. CASE e = c
    <3>1. metadata'[<<c>>][c] = account' \/ AccountKept(c, metadata[<<c>>][c])'
      BY <1>2
    <3>2. AccountKept(c, metadata[<<c>>][c])'
      BY <3>1 DEF AccountKept
    <3> QED
      BY <2>1, <3>2
  <2>2. CASE e # c
    <3>1. <<e>> \in Dir /\ <<e>> # cwd
      BY <2>2, DirFacts
    <3>2. files'[<<e>>] = files[<<e>>] /\ metadata'[<<e>>] = metadata[<<e>>]
      BY <1>2, <3>1
    <3>3. Complete(<<e>>)
      BY <3>2 DEF Complete
    <3>4. AccountKept(e, metadata[<<e>>][e])
      BY <1>1, <3>3 DEF BothCopiesKept
    <3>5. AccountKept(e, metadata[<<e>>][e])'
      BY <2>2, <3>2, <3>4 DEF AccountKept
    <3> QED
      BY <2>2, <3>5
  <2> QED
    BY <2>1, <2>2
<1>6. MadeAtHome' /\ NameInUse'
  BY <1>1 DEF MadeAtHome, NameInUse
<1> QED
  BY <1>4, <1>5, <1>6 DEF AccountsKept

\* While a database is open, careful sessions are in it, with its account.
LEMMA OpenFacts ==
  ASSUME PlaceInv, AccountsKept, careful, bDbOpen
  PROVE  /\ currentDatabase \in Dbs /\ cwd = <<currentDatabase>> /\ Complete(cwd)
         /\ cwd \in Dir /\ databaseName = currentDatabase
         /\ AccountKept(currentDatabase, metadata[cwd][currentDatabase])
         /\ AccountKept(currentDatabase, account)
         /\ account \in Account /\ metadata[cwd][currentDatabase] \in Account
         /\ files \in [Dir -> [File -> Nat]]
<1>1. /\ currentDatabase \in Dbs /\ cwd = <<currentDatabase>> /\ Complete(cwd)
      /\ cwd \in Dir /\ databaseName = currentDatabase
  BY DEF PlaceInv, PlaceKept, TypeOK, AccountsKept, NameInUse
<1>2. /\ AccountKept(currentDatabase, metadata[cwd][currentDatabase])
      /\ AccountKept(currentDatabase, account)
  BY <1>1 DEF AccountsKept, BothCopiesKept
<1>3. account \in Account /\ metadata[cwd][currentDatabase] \in Account
      /\ files \in [Dir -> [File -> Nat]]
  BY <1>1 DEF PlaceInv, TypeOK, Name
<1> QED
  BY <1>1, <1>2, <1>3

\* A statement that adds n pages: they are counted, or one is refused and the
\* database is known to have drifted.
LEMMA GrowingKeepsAccounts ==
  ASSUME PlaceInv, AccountsKept, careful, bDbOpen, NEW f \in File, NEW m \in Nat, NEW n \in Nat,
         n > 0, files[cwd][f] + n = m,
         files' = [files EXCEPT ![cwd][f] = m],
         Charged(System, System', cwd, n), Refused(System, n),
         UNCHANGED <<dirs, currentDatabase, granted>>
  PROVE  AccountsKept'
<1>1. PICK c \in Dbs : c = currentDatabase
  BY OpenFacts
<1>2. /\ cwd = <<c>> /\ Complete(cwd) /\ cwd \in Dir /\ databaseName = c
      /\ AccountKept(c, metadata[cwd][c]) /\ AccountKept(c, account)
      /\ account \in Account /\ metadata[cwd][c] \in Account
      /\ files \in [Dir -> [File -> Nat]]
  BY <1>1, OpenFacts
<1>3. /\ System.name = databaseName /\ System.account = account /\ System.metadata = metadata
      /\ System'.name = databaseName' /\ System'.account = account'
      /\ System'.metadata = metadata'
  BY DEF System
<1>4. /\ databaseName' = c /\ account'.limit = account.limit
      /\ \/ metadata' = metadata /\ account' = account
         \/ account.limit > 0 /\ metadata' = [metadata EXCEPT ![cwd][c] = account']
      /\ account.limit > 0 /\ account.used <= account.limit =>
           account'.used = UpTo(account.limit, account.used + n)
      /\ account' \in Account
  BY <1>2, <1>3 DEF Charged, SystemType
<1>5. /\ drifted' = IF account.limit > 0 /\ ~ (account.used + n <= account.limit)
                    THEN drifted \union {c} ELSE drifted
      /\ granted' = granted
  BY <1>1, <1>3 DEF Refused, CanAllocateDiskPages
<1>6. files[cwd] \in [File -> Nat] /\ files'[cwd] = [files[cwd] EXCEPT ![f] = m]
  BY <1>2
<1>7. /\ Pages(files'[cwd]) = Pages(files[cwd]) - files[cwd][f] + m
      /\ Pages(files[cwd]) \in Nat
  BY <1>6, PagesChange, PagesAreFinite
<1>8. Pages(files'[cwd]) = Pages(files[cwd]) + n
  BY <1>6, <1>7
<1>9. AccountKept(c, account)'
  <2>1. /\ account'.limit = granted'[c]
        /\ account'.limit > 0 => account'.used <= account'.limit
    BY <1>2, <1>4, <1>5 DEF AccountKept, UpTo, Account
  <2>2. ASSUME account'.limit > 0, c \notin drifted'
        PROVE  account'.used = Pages(files'[<<c>>])
    <3>1. account.used + n <= account.limit /\ account.limit > 0 /\ c \notin drifted
      BY <1>4, <1>5, <2>2
    <3>2. account.used = Pages(files[cwd]) /\ account.used <= account.limit
      BY <1>2, <3>1 DEF AccountKept
    <3>3. account'.used = account.used + n
      BY <1>4, <3>1, <3>2 DEF UpTo
    <3> QED
      BY <1>2, <1>8, <3>2, <3>3
  <2> QED
    BY <2>1, <2>2 DEF AccountKept
<1>10. \/ metadata' = [metadata EXCEPT ![cwd][c] = account']
       \/ metadata' = metadata /\ AccountKept(c, metadata[<<c>>][c])'
  <2>1. CASE account.limit > 0 /\ metadata' = [metadata EXCEPT ![cwd][c] = account']
    BY <2>1
  <2>2. CASE metadata' = metadata /\ account' = account
    <3>1. metadata[cwd][c].limit = account.limit
      BY <1>2 DEF AccountKept
    <3>2. account.limit > 0 => c \in drifted'
      <4>1. ASSUME account.limit > 0 PROVE ~ (account.used + n <= account.limit)
        <5>1. account.used <= account.limit
          BY <1>2, <4>1 DEF AccountKept
        <5>2. account.used = UpTo(account.limit, account.used + n)
          BY <1>4, <2>2, <4>1, <5>1
        <5> QED
          BY <1>2, <5>2 DEF UpTo, Account
      <4> QED
        BY <1>5, <4>1
    <3>3. AccountKept(c, metadata[<<c>>][c])'
      BY <1>2, <1>5, <2>2, <3>1, <3>2 DEF AccountKept
    <3> QED
      BY <2>2, <3>3
  <2> QED
    BY <1>4, <2>1, <2>2
<1>11. /\ \A e \in Dir : e # cwd => files'[e] = files[e]
       /\ \A e \in Dbs : e # c => (e \in drifted' <=> e \in drifted)
       /\ currentDatabase' = c /\ UNCHANGED <<dirs, granted>>
  BY <1>1, <1>2, <1>5
<1> QED
  BY <1>2, <1>4, <1>9, <1>10, <1>11, StatementKeepsAccounts

\* DROP TABLE gives back what the file had, which was counted.
LEMMA DropKeepsAccounts ==
  ASSUME PlaceInv, AccountsKept, careful, NEW t \in Tables, DropTable(t)
  PROVE  AccountsKept'
<1> DEFINE r == DestroyFile(System, cwd, t)
<1>1. /\ bDbOpen /\ files[cwd][t] > 0 /\ Becomes(r)
      /\ UNCHANGED <<dirs, currentDatabase, granted, drifted>>
  BY DEF DropTable, sessionVars
<1>2. PICK c \in Dbs : c = currentDatabase
  BY <1>1, OpenFacts
<1>3. /\ cwd = <<c>> /\ Complete(cwd) /\ cwd \in Dir /\ databaseName = c
      /\ AccountKept(c, metadata[cwd][c]) /\ AccountKept(c, account)
      /\ account \in Account /\ metadata[cwd][c] \in Account
      /\ files \in [Dir -> [File -> Nat]]
  BY <1>1, <1>2, OpenFacts
<1>4. /\ System \in SystemType /\ System.files = files /\ System.metadata = metadata
      /\ System.name = c /\ System.account = account
      /\ t \in File
  BY <1>3, SystemFacts, TableFacts DEF PlaceInv
<1>5. /\ r \in SystemType
      /\ r.files = [System.files EXCEPT ![cwd][t] = 0] /\ r.name = System.name
      /\ System.account.limit = 0 => r.account = System.account /\ r.metadata = System.metadata
      /\ System.account.limit > 0 =>
           /\ r.account.limit = System.account.limit
           /\ r.account.used = IF System.files[cwd][t] > System.account.used THEN 0
                              ELSE System.account.used - System.files[cwd][t]
           /\ r.metadata = [System.metadata EXCEPT ![cwd][System.name] = r.account]
  <2>1. System \in SystemType /\ cwd \in Dir /\ t \in File /\ System.files[cwd][t] > 0
    BY <1>1, <1>3, <1>4
  <2> HIDE DEF r
  <2>2. r = DestroyFile(System, cwd, t)
    BY DEF r
  <2> QED
    BY <2>1, <2>2, DestroyFileEffect
<1> HIDE DEF r
<1>6. files' = r.files /\ metadata' = r.metadata /\ databaseName' = r.name /\ account' = r.account
  BY <1>1 DEF Becomes
<1>7. files[cwd] \in [File -> Nat] /\ files'[cwd] = [files[cwd] EXCEPT ![t] = 0]
      /\ files[cwd][t] \in Nat
      /\ \A e \in Dir : e # cwd => files'[e] = files[e]
  BY <1>3, <1>4, <1>5, <1>6
<1>8. /\ Pages(files'[cwd]) = Pages(files[cwd]) - files[cwd][t] + 0
      /\ Pages(files[cwd]) \in Nat /\ files[cwd][t] <= Pages(files[cwd])
  BY <1>4, <1>7, PagesChange, PagesAreFinite, PagesBounds
<1>9. /\ databaseName' = c
      /\ account.limit = 0 => account' = account /\ metadata' = metadata
      /\ account.limit > 0 =>
           /\ account'.limit = account.limit
           /\ account'.used = IF files[cwd][t] > account.used THEN 0
                             ELSE account.used - files[cwd][t]
           /\ metadata' = [metadata EXCEPT ![cwd][c] = account']
  BY <1>4, <1>5, <1>6
<1>10. UNCHANGED <<dirs, granted, drifted>> /\ currentDatabase' = c
  BY <1>1, <1>2
<1>11. CASE account.limit = 0
  <2>1. AccountKept(c, account)' /\ AccountKept(c, metadata[<<c>>][c])'
    BY <1>3, <1>9, <1>10, <1>11 DEF AccountKept
  <2>2. metadata' = metadata
    BY <1>9, <1>11
  <2> QED
    BY <1>3, <1>7, <1>9, <1>10, <2>1, <2>2, StatementKeepsAccounts
<1>12. CASE account.limit > 0
  <2>1. /\ account.limit = granted[c] /\ account.used <= account.limit
        /\ c \notin drifted => account.used = Pages(files[cwd])
    BY <1>3, <1>12 DEF AccountKept
  <2>2. account'.used <= account'.limit
    BY <1>3, <1>7, <1>9, <1>12, <2>1 DEF Account
  <2>3. c \notin drifted => account'.used = Pages(files'[cwd])
    BY <1>7, <1>8, <1>9, <1>12, <2>1
  <2>4. AccountKept(c, account)'
    BY <1>3, <1>9, <1>10, <1>12, <2>1, <2>2, <2>3 DEF AccountKept
  <2>5. metadata' = [metadata EXCEPT ![cwd][c] = account']
    BY <1>9, <1>12
  <2> QED
    BY <1>3, <1>7, <1>9, <1>10, <2>4, <2>5, StatementKeepsAccounts
<1> QED
  BY <1>3, <1>11, <1>12 DEF Account
\* CREATE TABLE and the insertions that need a page.
LEMMA GrowthKeepsAccounts ==
  ASSUME PlaceInv, AccountsKept, careful,
         GrowCatalog \/ \E t \in Tables : CreateTable(t) \/ GrowTable(t)
  PROVE  AccountsKept'
<1>1. bDbOpen
  BY DEF GrowCatalog, CreateTable, GrowTable
<1>2. /\ cwd \in Dir /\ files \in [Dir -> [File -> Nat]] /\ System.files = files
      /\ "attrcat" \in File
  BY SystemFacts DEF PlaceInv, TypeOK, File
<1>3. CASE GrowCatalog
  <2>1. /\ files' = [files EXCEPT ![cwd]["attrcat"] = @ + 1]
        /\ Charged(System, System', cwd, 1)
    BY <1>1, <1>3, StatementEffects
  <2>2. Refused(System, 1) /\ UNCHANGED <<dirs, currentDatabase, granted>>
    BY <1>3 DEF GrowCatalog
  <2>3. /\ files[cwd]["attrcat"] + 1 \in Nat
        /\ files' = [files EXCEPT ![cwd]["attrcat"] = files[cwd]["attrcat"] + 1]
    BY <1>2, <2>1
  <2> DEFINE m == files[cwd]["attrcat"] + 1
  <2>4. m \in Nat /\ files' = [files EXCEPT ![cwd]["attrcat"] = m] /\ files[cwd]["attrcat"] + 1 = m
    BY <2>3
  <2>5. 1 \in Nat /\ 1 > 0
    OBVIOUS
  <2> HIDE DEF m
  <2> QED
    BY <1>1, <1>2, <2>1, <2>2, <2>4, <2>5, GrowingKeepsAccounts
<1>4. ASSUME NEW t \in Tables, CreateTable(t)
      PROVE  AccountsKept'
  <2>1. /\ files' = [files EXCEPT ![cwd][t] = 2]
        /\ Charged(System, System', cwd, 2)
    BY <1>1, <1>4, StatementEffects
  <2>2. Refused(System, 2) /\ UNCHANGED <<dirs, currentDatabase, granted>>
    BY <1>4 DEF CreateTable, sessionVars
  <2>3. t \in File /\ files[cwd][t] + 2 = 2
    BY <1>2, <1>4, TableFacts DEF CreateTable, MayCreateFile
  <2> QED
    BY <1>1, <2>1, <2>2, <2>3, 2 \in Nat /\ 2 > 0, GrowingKeepsAccounts
<1>5. ASSUME NEW t \in Tables, GrowTable(t)
      PROVE  AccountsKept'
  <2>1. /\ files' = [files EXCEPT ![cwd][t] = @ + 1]
        /\ Charged(System, System', cwd, 1)
    BY <1>1, <1>5, StatementEffects
  <2>2. Refused(System, 1) /\ UNCHANGED <<dirs, currentDatabase, granted>>
    BY <1>5 DEF GrowTable, sessionVars
  <2>3. t \in File /\ files[cwd][t] + 1 \in Nat
        /\ files' = [files EXCEPT ![cwd][t] = files[cwd][t] + 1]
    BY <1>2, <2>1, TableFacts
  <2> DEFINE m == files[cwd][t] + 1
  <2>4. m \in Nat /\ files' = [files EXCEPT ![cwd][t] = m] /\ files[cwd][t] + 1 = m
    BY <2>3
  <2>5. 1 \in Nat /\ 1 > 0
    OBVIOUS
  <2> HIDE DEF m
  <2> QED
    BY <1>1, <1>2, <2>1, <2>2, <2>3, <2>4, <2>5, GrowingKeepsAccounts
<1> QED
  BY <1>3, <1>4, <1>5

\* Every step keeps the accounts.
LEMMA NextKeepsAccounts ==
  ASSUME Default \notin Dbs
  PROVE  PlaceInv /\ AccountsKept /\ [Next]_vars => AccountsKept'
<1> SUFFICES ASSUME PlaceInv, AccountsKept, [Next]_vars PROVE AccountsKept'
  OBVIOUS
<1>1. CASE UNCHANGED vars
  BY <1>1 DEF vars, diskVars, sessionVars, AccountsKept, MadeAtHome, NameInUse, NothingUsedYet,
              BothCopiesKept, AccountKept, Complete
<1>2. CASE ~ careful'
  BY <1>2 DEF AccountsKept
<1>3. CASE Next /\ careful'
  <2>1. ASSUME NEW d \in Dbs, NEW limit \in Limits,
               \/ CreateDatabase(d, limit)
               \/ CreateDatabaseNoRelcat(d, limit)
               \/ CreateDatabaseNoAttrcat(d, limit)
        PROVE  AccountsKept'
    BY <1>3, <2>1, CreateDatabaseKeepsAccounts, NoRelcatIsCareless, CreateNoAttrcatKeepsAccounts
  <2>2. ASSUME NEW d \in Dbs, UseDatabase(d) \/ UseFails(d)
        PROVE  AccountsKept'
    BY <1>3, <2>2, UseKeepsAccounts, UseFailsKeepsAccounts
  <2>3. CASE GrowCatalog \/ \E t \in Tables : CreateTable(t) \/ GrowTable(t)
    <3>1. careful
      BY <1>3, <2>3 DEF GrowCatalog, CreateTable, GrowTable
    <3> QED
      BY <2>3, <3>1, GrowthKeepsAccounts
  <2>4. ASSUME NEW t \in Tables, DropTable(t)
        PROVE  AccountsKept'
    <3>1. careful
      BY <1>3, <2>4 DEF DropTable
    <3> QED
      BY <2>4, <3>1, DropKeepsAccounts
  <2>5. CASE Quit \/ EndOfInput
    BY <1>3, <2>5, QuitKeepsAccounts, EndOfInputKeepsAccounts
  <2> QED
    BY <1>3, <2>1, <2>2, <2>3, <2>4, <2>5 DEF Next
<1> QED
  BY <1>1, <1>2, <1>3

\* Unless a database has the name PF_Manager starts with, both copies of each
\* account are kept, as long as databases are made at home with none open.
THEOREM AccountsInvariant ==
  ASSUME Default \notin Dbs
  PROVE  Spec => []AccountsInv
<1>1. Init => AccountsInv
  BY InitPlace, InitAccounts DEF AccountsInv
<1>2. AccountsInv /\ [Next]_vars => AccountsInv'
  BY NextKeepsPlace, NextKeepsAccounts DEF AccountsInv
<1> QED
  BY <1>1, <1>2, PTL DEF Spec

\* Statements work on the files of the database in use and on its account.
THEOREM AccountIsOfOpenDatabase ==
  ASSUME Default \notin Dbs
  PROVE  Spec => []AccountOfOpenDatabase
<1>1. AccountsInv => AccountOfOpenDatabase
  BY OpenFacts DEF AccountsInv, AccountOfOpenDatabase
<1> QED
  BY AccountsInvariant, <1>1, PTL

\* The limit given when a database was created is in force whenever it is in
\* use, in whatever process.
THEOREM LimitStaysInForce ==
  ASSUME Default \notin Dbs
  PROVE  Spec => []LimitInForce
<1>1. AccountsInv => LimitInForce
  BY OpenFacts DEF AccountsInv, LimitInForce, AccountKept
<1> QED
  BY AccountsInvariant, <1>1, PTL

\* The count is the pages of the files, across switches and restarts, unless a
\* page was refused or lost by quit.
THEOREM AccountIsExact ==
  ASSUME Default \notin Dbs
  PROVE  Spec => []AccountExact
<1>1. AccountsInv => AccountExact
  <2> SUFFICES ASSUME AccountsInv, careful, bDbOpen, account.limit > 0,
                      currentDatabase \notin drifted
               PROVE  account.used = Pages(files[cwd])
    BY DEF AccountExact
  <2>1. AccountKept(currentDatabase, account) /\ cwd = <<currentDatabase>>
    BY OpenFacts DEF AccountsInv
  <2> QED
    BY <2>1 DEF AccountKept
<1> QED
  BY AccountsInvariant, <1>1, PTL
=============================================================================
