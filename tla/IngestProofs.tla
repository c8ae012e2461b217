---------------------------- MODULE IngestProofs ----------------------------
(***************************************************************************)
(* Proofs about Ingest, for any number of requests, connections, packages  *)
(* and contents.  IInv (module Ingest) is inductive; each lemma below      *)
(* shows that one part of it survives every step.                          *)
(***************************************************************************)
EXTENDS Ingest, TLAPS

\* An INSERT leaves the counters and the connections well typed.
LEMMA InsertedTypes ==
    ASSUME TypeOK, NEW c \in Conns, NEW t \in Tables, Inserted(c, t)
    PROVE  /\ NextId(t) \in Nat
           /\ seq' \in [Tables -> Nat]
           /\ lastId' \in [Conns -> Nat]
  BY DEF TypeOK, Inserted, NextId

\* The tables keep their columns and the locals their types.
LEMMA TypeStep ==
    ASSUME TypeOK, [Next]_vars
    PROVE  TypeOK'
  <1> USE RequestsAssumption DEF TypeOK, Request, CreatedVia, PCs, Outcomes, tables, locals
  <1>1. ASSUME NEW p \in Procs, NEW r \in Requests, Start(p, r) PROVE TypeOK'
    BY <1>1 DEF Start, Goto
  <1>2. ASSUME NEW p \in Procs, GetPackageByLookup(p) PROVE TypeOK'
    BY <1>2 DEF GetPackageByLookup, Goto, Return, AfterPackage, PackagesNamed
  <1>3. ASSUME NEW p \in Procs, GetVersion(p) PROVE TypeOK'
    BY <1>3 DEF GetVersion, Goto, Return, AfterVersion, VersionsOf
  <1>4. ASSUME NEW p \in Procs, Save(p) PROVE TypeOK'
    BY <1>4 DEF Save, Goto, Saved
  <1>5. ASSUME NEW p \in Procs, GetBlobBySHA256(p) PROVE TypeOK'
    BY <1>5 DEF GetBlobBySHA256, Goto, BlobsWith
  <1>6. ASSUME NEW p \in Procs, NEW c \in Conns, InsertPackage(p, c) PROVE TypeOK'
    <2>0. req[p] \in Request /\ req[p] \in Requests
      OBVIOUS
    <2>1. seq' \in [Tables -> Nat] /\ lastId' \in [Conns -> Nat]
      BY <1>6, InsertedTypes DEF InsertPackage, Tables
    <2>2. packages' \subseteq [id : Nat, name : Names, via : CreatedVia]
      BY <1>6, <2>0, InsertedTypes DEF InsertPackage, Tables
    <2>3. pc' \in [Procs -> PCs]
      BY <1>6 DEF InsertPackage, Goto, AfterPackage
    <2>4. pkgId' \in [Procs -> Nat]
      BY <1>6, InsertedTypes DEF InsertPackage, Tables
    <2>5. lostRace' \in BOOLEAN
      BY <1>6, Zenon DEF InsertPackage
    <2> QED
      BY <1>6, <2>1, <2>2, <2>3, <2>4, <2>5 DEF InsertPackage
  <1>7. ASSUME NEW p \in Procs, NEW c \in Conns, CreateVersion(p, c) PROVE TypeOK'
    <2>0. req[p] \in Request /\ req[p] \in Requests
      OBVIOUS
    <2>1. seq' \in [Tables -> Nat] /\ lastId' \in [Conns -> Nat]
      BY <1>7, InsertedTypes DEF CreateVersion, Tables
    <2>2. versions' \subseteq [id : Nat, pkg : Nat, ver : Vers]
      BY <1>7, <2>0, InsertedTypes DEF CreateVersion, Tables
    <2>3. /\ pc' \in [Procs -> PCs] /\ outcome' \in [Procs -> Outcomes]
          /\ pkgId' \in [Procs -> Nat] /\ verId' \in [Procs -> Nat]
          /\ blobId' \in [Procs -> Nat] /\ lostRace' \in BOOLEAN
      BY <1>7, InsertedTypes DEF CreateVersion, Goto, Return, AfterVersion, Tables
    <2> QED
      BY <1>7, <2>1, <2>2, <2>3 DEF CreateVersion
  <1>8. ASSUME NEW p \in Procs, NEW c \in Conns, SetProperty(p, c) PROVE TypeOK'
    BY <1>8 DEF SetProperty, Goto, Inserted, NextId, Tables
  <1>9. ASSUME NEW p \in Procs, NEW c \in Conns, InsertBlob(p, c) PROVE TypeOK'
    <2>0. req[p] \in Request /\ req[p] \in Requests
      OBVIOUS
    <2>1. seq' \in [Tables -> Nat] /\ lastId' \in [Conns -> Nat]
      BY <1>9, InsertedTypes DEF InsertBlob, Tables
    <2>2. blobs' \subseteq [id : Nat, sha : Shas]
      BY <1>9, <2>0, InsertedTypes DEF InsertBlob, Tables
    <2>3. /\ pc' \in [Procs -> PCs] /\ outcome' \in [Procs -> Outcomes]
          /\ pkgId' \in [Procs -> Nat] /\ verId' \in [Procs -> Nat]
          /\ blobId' \in [Procs -> Nat] /\ lostRace' \in BOOLEAN
      BY <1>9, InsertedTypes DEF InsertBlob, Goto, Tables
    <2> QED
      BY <1>9, <2>1, <2>2, <2>3 DEF InsertBlob
  <1>10. ASSUME NEW p \in Procs, NEW c \in Conns, CreateFile(p, c) PROVE TypeOK'
    <2>0. req[p] \in Request /\ req[p] \in Requests
      OBVIOUS
    <2>1. seq' \in [Tables -> Nat] /\ lastId' \in [Conns -> Nat]
      BY <1>10, InsertedTypes DEF CreateFile, Tables
    <2>2. files' \subseteq [id : Nat, ver : Nat, blob : Nat, name : FileNames, want : Requests]
      BY <1>10, <2>0, InsertedTypes DEF CreateFile, Tables
    <2>3. /\ pc' \in [Procs -> PCs] /\ outcome' \in [Procs -> Outcomes]
          /\ pkgId' \in [Procs -> Nat] /\ verId' \in [Procs -> Nat]
          /\ blobId' \in [Procs -> Nat] /\ lostRace' \in BOOLEAN
      BY <1>10, InsertedTypes DEF CreateFile, Goto, Return, Tables
    <2> QED
      BY <1>10, <2>1, <2>2, <2>3 DEF CreateFile
  <1>11. ASSUME NEW p \in Procs, Fail(p) PROVE TypeOK'
    BY <1>11 DEF Fail, Goto, Return
  <1>12. ASSUME Crash PROVE TypeOK'
    BY <1>12 DEF Crash
  <1>13. ASSUME NEW c \in Conns, Reconnect(c) PROVE TypeOK'
    BY <1>13 DEF Reconnect
  <1>14. ASSUME NEW f \in files, DeleteFile(f) PROVE TypeOK'
    BY <1>14 DEF DeleteFile
  <1>15. ASSUME NEW r \in versions, DeleteVersion(r) PROVE TypeOK'
    BY <1>15 DEF DeleteVersion, WithoutFilesOf
  <1>16. ASSUME NEW k \in packages, DeletePackage(k) PROVE TypeOK'
    BY <1>16 DEF DeletePackage, WithoutFilesOf
  <1>17. ASSUME NEW k \in packages, NEW v \in CreatedVia, SetPackageCreatedVia(k, v)
         PROVE TypeOK'
    BY <1>17 DEF SetPackageCreatedVia
  <1>18. ASSUME UNCHANGED vars PROVE TypeOK'
    BY <1>18 DEF vars
  <1> QED
    BY <1>1, <1>2, <1>3, <1>4, <1>5, <1>6, <1>7, <1>8, <1>9, <1>10, <1>11, <1>12, <1>13,
       <1>14, <1>15, <1>16, <1>17, <1>18 DEF Next, ServiceStep, Environment

\* A blob row is inserted only after Save, and no bytes are removed.
LEMMA StorageStep ==
    ASSUME TypeOK, SavedBeforeBlob, BlobBytesStored, [Next]_vars
    PROVE  SavedBeforeBlob' /\ BlobBytesStored'
  <1> USE DEF TypeOK, SavedBeforeBlob, BlobBytesStored, PCs, tables, locals
  <1>1. ASSUME NEW p \in Procs, NEW r \in Requests, Start(p, r)
        PROVE SavedBeforeBlob' /\ BlobBytesStored'
    BY <1>1 DEF Start, Goto
  <1>2. ASSUME NEW p \in Procs, GetPackageByLookup(p)
        PROVE SavedBeforeBlob' /\ BlobBytesStored'
    BY <1>2 DEF GetPackageByLookup, Goto, Return, AfterPackage, PackagesNamed
  <1>3. ASSUME NEW p \in Procs, GetVersion(p) PROVE SavedBeforeBlob' /\ BlobBytesStored'
    BY <1>3 DEF GetVersion, Goto, Return, AfterVersion, VersionsOf
  <1>4. ASSUME NEW p \in Procs, Save(p) PROVE SavedBeforeBlob' /\ BlobBytesStored'
    BY <1>4 DEF Save, Goto, Saved
  <1>5. ASSUME NEW p \in Procs, GetBlobBySHA256(p)
        PROVE SavedBeforeBlob' /\ BlobBytesStored'
    BY <1>5 DEF GetBlobBySHA256, Goto, BlobsWith
  <1>6. ASSUME NEW p \in Procs, NEW c \in Conns, InsertPackage(p, c)
        PROVE SavedBeforeBlob' /\ BlobBytesStored'
    BY <1>6 DEF InsertPackage, Goto, AfterPackage, PackagesNamed, Inserted, NextId,
       Tables
  <1>7. ASSUME NEW p \in Procs, NEW c \in Conns, CreateVersion(p, c)
        PROVE SavedBeforeBlob' /\ BlobBytesStored'
    BY <1>7 DEF CreateVersion, Goto, Return, AfterVersion, VersionsOf, Inserted, NextId,
       Tables
  <1>8. ASSUME NEW p \in Procs, NEW c \in Conns, SetProperty(p, c)
        PROVE SavedBeforeBlob' /\ BlobBytesStored'
    BY <1>8 DEF SetProperty, Goto, Inserted, NextId, Tables
  <1>9. ASSUME NEW p \in Procs, NEW c \in Conns, InsertBlob(p, c)
        PROVE SavedBeforeBlob' /\ BlobBytesStored'
    BY <1>9 DEF InsertBlob, Goto, BlobsWith, Inserted, NextId, Tables
  <1>10. ASSUME NEW p \in Procs, NEW c \in Conns, CreateFile(p, c)
         PROVE SavedBeforeBlob' /\ BlobBytesStored'
    BY <1>10 DEF CreateFile, Goto, Return, FilesNamed, Inserted, NextId, Tables
  <1>11. ASSUME NEW p \in Procs, Fail(p) PROVE SavedBeforeBlob' /\ BlobBytesStored'
    BY <1>11 DEF Fail, Goto, Return
  <1>12. ASSUME Crash PROVE SavedBeforeBlob' /\ BlobBytesStored'
    BY <1>12 DEF Crash
  <1>13. ASSUME NEW c \in Conns, Reconnect(c) PROVE SavedBeforeBlob' /\ BlobBytesStored'
    BY <1>13 DEF Reconnect
  <1>14. ASSUME NEW f \in files, DeleteFile(f)
         PROVE SavedBeforeBlob' /\ BlobBytesStored'
    BY <1>14 DEF DeleteFile
  <1>15. ASSUME NEW r \in versions, DeleteVersion(r)
         PROVE SavedBeforeBlob' /\ BlobBytesStored'
    BY <1>15 DEF DeleteVersion, WithoutFilesOf
  <1>16. ASSUME NEW k \in packages, DeletePackage(k)
         PROVE SavedBeforeBlob' /\ BlobBytesStored'
    BY <1>16 DEF DeletePackage, WithoutFilesOf
  <1>17. ASSUME NEW k \in packages, NEW v \in CreatedVia, SetPackageCreatedVia(k, v)
         PROVE SavedBeforeBlob' /\ BlobBytesStored'
    BY <1>17 DEF SetPackageCreatedVia
  <1>18. ASSUME UNCHANGED vars PROVE SavedBeforeBlob' /\ BlobBytesStored'
    BY <1>18 DEF vars
  <1> QED
    BY <1>1, <1>2, <1>3, <1>4, <1>5, <1>6, <1>7, <1>8, <1>9, <1>10, <1>11, <1>12, <1>13,
       <1>14, <1>15, <1>16, <1>17, <1>18 DEF Next, ServiceStep, Environment

\* AUTOINCREMENT hands out fresh ids only.
LEMMA IdsStep ==
    ASSUME TypeOK, IdsUnique, IdsBounded, [Next]_vars
    PROVE  IdsUnique' /\ IdsBounded'
  <1> USE DEF TypeOK, IdsUnique, IdsBounded, tables, locals
  <1>1. ASSUME NEW p \in Procs, NEW r \in Requests, Start(p, r)
        PROVE IdsUnique' /\ IdsBounded'
    BY <1>1 DEF Start, Goto
  <1>2. ASSUME NEW p \in Procs, GetPackageByLookup(p) PROVE IdsUnique' /\ IdsBounded'
    BY <1>2 DEF GetPackageByLookup, Goto, Return, AfterPackage, PackagesNamed
  <1>3. ASSUME NEW p \in Procs, GetVersion(p) PROVE IdsUnique' /\ IdsBounded'
    BY <1>3 DEF GetVersion, Goto, Return, AfterVersion, VersionsOf
  <1>4. ASSUME NEW p \in Procs, Save(p) PROVE IdsUnique' /\ IdsBounded'
    BY <1>4 DEF Save, Goto, Saved
  <1>5. ASSUME NEW p \in Procs, GetBlobBySHA256(p) PROVE IdsUnique' /\ IdsBounded'
    BY <1>5 DEF GetBlobBySHA256, Goto, BlobsWith
  <1>6. ASSUME NEW p \in Procs, NEW c \in Conns, InsertPackage(p, c)
        PROVE IdsUnique' /\ IdsBounded'
    BY <1>6 DEF InsertPackage, Goto, AfterPackage, PackagesNamed, Inserted, NextId,
       Tables
  <1>7. ASSUME NEW p \in Procs, NEW c \in Conns, CreateVersion(p, c)
        PROVE IdsUnique' /\ IdsBounded'
    BY <1>7 DEF CreateVersion, Goto, Return, AfterVersion, VersionsOf, Inserted, NextId,
       Tables
  <1>8. ASSUME NEW p \in Procs, NEW c \in Conns, SetProperty(p, c)
        PROVE IdsUnique' /\ IdsBounded'
    BY <1>8 DEF SetProperty, Goto, Inserted, NextId, Tables
  <1>9. ASSUME NEW p \in Procs, NEW c \in Conns, InsertBlob(p, c)
        PROVE IdsUnique' /\ IdsBounded'
    BY <1>9 DEF InsertBlob, Goto, BlobsWith, Inserted, NextId, Tables
  <1>10. ASSUME NEW p \in Procs, NEW c \in Conns, CreateFile(p, c)
         PROVE IdsUnique' /\ IdsBounded'
    BY <1>10 DEF CreateFile, Goto, Return, FilesNamed, Inserted, NextId, Tables
  <1>11. ASSUME NEW p \in Procs, Fail(p) PROVE IdsUnique' /\ IdsBounded'
    BY <1>11 DEF Fail, Goto, Return
  <1>12. ASSUME Crash PROVE IdsUnique' /\ IdsBounded'
    BY <1>12 DEF Crash
  <1>13. ASSUME NEW c \in Conns, Reconnect(c) PROVE IdsUnique' /\ IdsBounded'
    BY <1>13 DEF Reconnect
  <1>14. ASSUME NEW f \in files, DeleteFile(f) PROVE IdsUnique' /\ IdsBounded'
    BY <1>14 DEF DeleteFile
  <1>15. ASSUME NEW r \in versions, DeleteVersion(r) PROVE IdsUnique' /\ IdsBounded'
    BY <1>15 DEF DeleteVersion, WithoutFilesOf
  <1>16. ASSUME NEW k \in packages, DeletePackage(k) PROVE IdsUnique' /\ IdsBounded'
    BY <1>16 DEF DeletePackage, WithoutFilesOf
  <1>17. ASSUME NEW k \in packages, NEW v \in CreatedVia, SetPackageCreatedVia(k, v)
         PROVE IdsUnique' /\ IdsBounded'
    BY <1>17 DEF SetPackageCreatedVia
  <1>18. ASSUME UNCHANGED vars PROVE IdsUnique' /\ IdsBounded'
    BY <1>18 DEF vars
  <1> QED
    BY <1>1, <1>2, <1>3, <1>4, <1>5, <1>6, <1>7, <1>8, <1>9, <1>10, <1>11, <1>12, <1>13,
       <1>14, <1>15, <1>16, <1>17, <1>18 DEF Next, ServiceStep, Environment

\* Foreign keys: inserts check them and deletes cascade.
LEMMA RowsStep ==
    ASSUME TypeOK, IdsUnique, VersionRowsResolve, FileRowsResolve, [Next]_vars
    PROVE  VersionRowsResolve' /\ FileRowsResolve'
  <1> USE DEF TypeOK, IdsUnique, VersionRowsResolve, FileRowsResolve, tables, locals
  <1>1. ASSUME NEW p \in Procs, NEW r \in Requests, Start(p, r)
        PROVE VersionRowsResolve' /\ FileRowsResolve'
    BY <1>1 DEF Start, Goto
  <1>2. ASSUME NEW p \in Procs, GetPackageByLookup(p)
        PROVE VersionRowsResolve' /\ FileRowsResolve'
    BY <1>2 DEF GetPackageByLookup, Goto, Return, AfterPackage, PackagesNamed
  <1>3. ASSUME NEW p \in Procs, GetVersion(p)
        PROVE VersionRowsResolve' /\ FileRowsResolve'
    BY <1>3 DEF GetVersion, Goto, Return, AfterVersion, VersionsOf
  <1>4. ASSUME NEW p \in Procs, Save(p) PROVE VersionRowsResolve' /\ FileRowsResolve'
    BY <1>4 DEF Save, Goto, Saved
  <1>5. ASSUME NEW p \in Procs, GetBlobBySHA256(p)
        PROVE VersionRowsResolve' /\ FileRowsResolve'
    BY <1>5 DEF GetBlobBySHA256, Goto, BlobsWith
  <1>6. ASSUME NEW p \in Procs, NEW c \in Conns, InsertPackage(p, c)
        PROVE VersionRowsResolve' /\ FileRowsResolve'
    BY <1>6 DEF InsertPackage, Goto, AfterPackage, PackagesNamed, Inserted, NextId,
       Tables
  <1>7. ASSUME NEW p \in Procs, NEW c \in Conns, CreateVersion(p, c)
        PROVE VersionRowsResolve' /\ FileRowsResolve'
    BY <1>7 DEF CreateVersion, Goto, Return, AfterVersion, VersionsOf, Inserted, NextId,
       Tables
  <1>8. ASSUME NEW p \in Procs, NEW c \in Conns, SetProperty(p, c)
        PROVE VersionRowsResolve' /\ FileRowsResolve'
    BY <1>8 DEF SetProperty, Goto, Inserted, NextId, Tables
  <1>9. ASSUME NEW p \in Procs, NEW c \in Conns, InsertBlob(p, c)
        PROVE VersionRowsResolve' /\ FileRowsResolve'
    BY <1>9 DEF InsertBlob, Goto, BlobsWith, Inserted, NextId, Tables
  <1>10. ASSUME NEW p \in Procs, NEW c \in Conns, CreateFile(p, c)
         PROVE VersionRowsResolve' /\ FileRowsResolve'
    BY <1>10 DEF CreateFile, Goto, Return, FilesNamed, Inserted, NextId, Tables
  <1>11. ASSUME NEW p \in Procs, Fail(p) PROVE VersionRowsResolve' /\ FileRowsResolve'
    BY <1>11 DEF Fail, Goto, Return
  <1>12. ASSUME Crash PROVE VersionRowsResolve' /\ FileRowsResolve'
    BY <1>12 DEF Crash
  <1>13. ASSUME NEW c \in Conns, Reconnect(c)
         PROVE VersionRowsResolve' /\ FileRowsResolve'
    BY <1>13 DEF Reconnect
  <1>14. ASSUME NEW f \in files, DeleteFile(f)
         PROVE VersionRowsResolve' /\ FileRowsResolve'
    BY <1>14 DEF DeleteFile
  <1>15. ASSUME NEW r \in versions, DeleteVersion(r)
         PROVE VersionRowsResolve' /\ FileRowsResolve'
    BY <1>15 DEF DeleteVersion, WithoutFilesOf
  <1>16. ASSUME NEW k \in packages, DeletePackage(k)
         PROVE VersionRowsResolve' /\ FileRowsResolve'
    BY <1>16 DEF DeletePackage, WithoutFilesOf
  <1>17. ASSUME NEW k \in packages, NEW v \in CreatedVia, SetPackageCreatedVia(k, v)
         PROVE VersionRowsResolve' /\ FileRowsResolve'
    <2>1. \A l \in packages : \E m \in packages' : m.id = l.id
      <3>1. [k EXCEPT !.via = v] \in packages' /\ [k EXCEPT !.via = v].id = k.id
        BY <1>17 DEF SetPackageCreatedVia
      <3>2. \A l \in packages : l # k => l \in packages'
        BY <1>17 DEF SetPackageCreatedVia
      <3> QED
        BY <3>1, <3>2
    <2>2. VersionRowsResolve'
      BY <1>17, <2>1 DEF SetPackageCreatedVia
    <2>3. FileRowsResolve'
      <3> SUFFICES ASSUME NEW f \in files
                   PROVE  /\ \E r \in versions : r.id = f.ver /\ \E m \in packages' : m.id = r.pkg
                          /\ \E d \in blobs : d.id = f.blob
        BY <1>17 DEF SetPackageCreatedVia
      <3> QED
        BY <2>1
    <2> QED
      BY <2>2, <2>3
  <1>18. ASSUME UNCHANGED vars PROVE VersionRowsResolve' /\ FileRowsResolve'
    BY <1>18 DEF vars
  <1> QED
    BY <1>1, <1>2, <1>3, <1>4, <1>5, <1>6, <1>7, <1>8, <1>9, <1>10, <1>11, <1>12, <1>13,
       <1>14, <1>15, <1>16, <1>17, <1>18 DEF Next, ServiceStep, Environment

\* What a request remembers stays right while other requests and deletions run.
LEMMA LocalsStep ==
    ASSUME TypeOK, IdsUnique, IdsBounded, VersionRowsResolve, FileRowsResolve,
           lostRace \/ LocalsAreRight, [Next]_vars
    PROVE  (lostRace \/ LocalsAreRight)'
  <1> USE DEF TypeOK, IdsUnique, IdsBounded, VersionRowsResolve, LocalsAreRight,
          HavePackage, HaveVersion, PackageLocal, VersionLocal, BlobLocal, PCs, tables,
          locals
  <1>1. ASSUME NEW p \in Procs, NEW r \in Requests, Start(p, r)
        PROVE (lostRace \/ LocalsAreRight)'
    BY <1>1 DEF Start, Goto
  <1>2. ASSUME NEW p \in Procs, GetPackageByLookup(p)
        PROVE (lostRace \/ LocalsAreRight)'
    BY <1>2 DEF GetPackageByLookup, Goto, Return, AfterPackage, PackagesNamed
  <1>3. ASSUME NEW p \in Procs, GetVersion(p) PROVE (lostRace \/ LocalsAreRight)'
    BY <1>3 DEF GetVersion, Goto, Return, AfterVersion, VersionsOf
  <1>4. ASSUME NEW p \in Procs, Save(p) PROVE (lostRace \/ LocalsAreRight)'
    BY <1>4 DEF Save, Goto, Saved
  <1>5. ASSUME NEW p \in Procs, GetBlobBySHA256(p) PROVE (lostRace \/ LocalsAreRight)'
    BY <1>5 DEF GetBlobBySHA256, Goto, BlobsWith
  <1>6. ASSUME NEW p \in Procs, NEW c \in Conns, InsertPackage(p, c)
        PROVE (lostRace \/ LocalsAreRight)'
    BY <1>6 DEF InsertPackage, Goto, AfterPackage, PackagesNamed, Inserted, NextId,
       Tables
  <1>7. ASSUME NEW p \in Procs, NEW c \in Conns, CreateVersion(p, c)
        PROVE (lostRace \/ LocalsAreRight)'
    BY <1>7 DEF CreateVersion, Goto, Return, AfterVersion, VersionsOf, Inserted, NextId,
       Tables
  <1>8. ASSUME NEW p \in Procs, NEW c \in Conns, SetProperty(p, c)
        PROVE (lostRace \/ LocalsAreRight)'
    BY <1>8 DEF SetProperty, Goto, Inserted, NextId, Tables
  <1>9. ASSUME NEW p \in Procs, NEW c \in Conns, InsertBlob(p, c)
        PROVE (lostRace \/ LocalsAreRight)'
    BY <1>9 DEF InsertBlob, Goto, BlobsWith, Inserted, NextId, Tables
  <1>10. ASSUME NEW p \in Procs, NEW c \in Conns, CreateFile(p, c)
         PROVE (lostRace \/ LocalsAreRight)'
    BY <1>10 DEF CreateFile, Goto, Return, FilesNamed, Inserted, NextId, Tables
  <1>11. ASSUME NEW p \in Procs, Fail(p) PROVE (lostRace \/ LocalsAreRight)'
    BY <1>11 DEF Fail, Goto, Return
  <1>12. ASSUME Crash PROVE (lostRace \/ LocalsAreRight)'
    BY <1>12 DEF Crash
  <1>13. ASSUME NEW c \in Conns, Reconnect(c) PROVE (lostRace \/ LocalsAreRight)'
    BY <1>13 DEF Reconnect
  <1>14. ASSUME NEW f \in files, DeleteFile(f) PROVE (lostRace \/ LocalsAreRight)'
    BY <1>14 DEF DeleteFile
  <1>15. ASSUME NEW r \in versions, DeleteVersion(r) PROVE (lostRace \/ LocalsAreRight)'
    BY <1>15 DEF DeleteVersion, WithoutFilesOf
  <1>16. ASSUME NEW k \in packages, DeletePackage(k) PROVE (lostRace \/ LocalsAreRight)'
    BY <1>16 DEF DeletePackage, WithoutFilesOf
  <1>17. ASSUME NEW k \in packages, NEW v \in CreatedVia, SetPackageCreatedVia(k, v)
         PROVE (lostRace \/ LocalsAreRight)'
    BY <1>17 DEF SetPackageCreatedVia
  <1>18. ASSUME UNCHANGED vars PROVE (lostRace \/ LocalsAreRight)'
    BY <1>18 DEF vars
  <1> QED
    BY <1>1, <1>2, <1>3, <1>4, <1>5, <1>6, <1>7, <1>8, <1>9, <1>10, <1>11, <1>12, <1>13,
       <1>14, <1>15, <1>16, <1>17, <1>18 DEF Next, ServiceStep, Environment

\* A file row is inserted from locals that are right, and no later row gets
\* the id it refers to.
LEMMA SentStep ==
    ASSUME TypeOK, IdsUnique, IdsBounded, VersionRowsResolve, FileRowsResolve,
           lostRace \/ LocalsAreRight, SentUnlessLostRace, [Next]_vars
    PROVE  SentUnlessLostRace'
  <1> USE DEF SentUnlessLostRace, FilesAreWhatWasSent, FileIsWhatWasSent,
          FileRowsResolve, TypeOK, IdsUnique, IdsBounded, VersionRowsResolve,
          LocalsAreRight, HavePackage, HaveVersion, PackageLocal, VersionLocal,
          BlobLocal, PCs, tables, locals
  <1>1. ASSUME NEW p \in Procs, NEW r \in Requests, Start(p, r)
        PROVE SentUnlessLostRace'
    BY <1>1 DEF Start, Goto
  <1>2. ASSUME NEW p \in Procs, GetPackageByLookup(p) PROVE SentUnlessLostRace'
    BY <1>2 DEF GetPackageByLookup, Goto, Return, AfterPackage, PackagesNamed
  <1>3. ASSUME NEW p \in Procs, GetVersion(p) PROVE SentUnlessLostRace'
    BY <1>3 DEF GetVersion, Goto, Return, AfterVersion, VersionsOf
  <1>4. ASSUME NEW p \in Procs, Save(p) PROVE SentUnlessLostRace'
    BY <1>4 DEF Save, Goto, Saved
  <1>5. ASSUME NEW p \in Procs, GetBlobBySHA256(p) PROVE SentUnlessLostRace'
    BY <1>5 DEF GetBlobBySHA256, Goto, BlobsWith
  <1>6. ASSUME NEW p \in Procs, NEW c \in Conns, InsertPackage(p, c)
        PROVE SentUnlessLostRace'
    BY <1>6 DEF InsertPackage, Goto, AfterPackage, PackagesNamed, Inserted, NextId,
       Tables
  <1>7. ASSUME NEW p \in Procs, NEW c \in Conns, CreateVersion(p, c)
        PROVE SentUnlessLostRace'
    BY <1>7 DEF CreateVersion, Goto, Return, AfterVersion, VersionsOf, Inserted, NextId,
       Tables
  <1>8. ASSUME NEW p \in Procs, NEW c \in Conns, SetProperty(p, c)
        PROVE SentUnlessLostRace'
    BY <1>8 DEF SetProperty, Goto, Inserted, NextId, Tables
  <1>9. ASSUME NEW p \in Procs, NEW c \in Conns, InsertBlob(p, c)
        PROVE SentUnlessLostRace'
    BY <1>9 DEF InsertBlob, Goto, BlobsWith, Inserted, NextId, Tables
  <1>10. ASSUME NEW p \in Procs, NEW c \in Conns, CreateFile(p, c)
         PROVE SentUnlessLostRace'
    BY <1>10 DEF CreateFile, Goto, Return, FilesNamed, Inserted, NextId, Tables
  <1>11. ASSUME NEW p \in Procs, Fail(p) PROVE SentUnlessLostRace'
    BY <1>11 DEF Fail, Goto, Return
  <1>12. ASSUME Crash PROVE SentUnlessLostRace'
    BY <1>12 DEF Crash
  <1>13. ASSUME NEW c \in Conns, Reconnect(c) PROVE SentUnlessLostRace'
    BY <1>13 DEF Reconnect
  <1>14. ASSUME NEW f \in files, DeleteFile(f) PROVE SentUnlessLostRace'
    BY <1>14 DEF DeleteFile
  <1>15. ASSUME NEW r \in versions, DeleteVersion(r) PROVE SentUnlessLostRace'
    BY <1>15 DEF DeleteVersion, WithoutFilesOf
  <1>16. ASSUME NEW k \in packages, DeletePackage(k) PROVE SentUnlessLostRace'
    BY <1>16 DEF DeletePackage, WithoutFilesOf
  <1>17. ASSUME NEW k \in packages, NEW v \in CreatedVia, SetPackageCreatedVia(k, v)
         PROVE SentUnlessLostRace'
    BY <1>17 DEF SetPackageCreatedVia
  <1>18. ASSUME UNCHANGED vars PROVE SentUnlessLostRace'
    BY <1>18 DEF vars
  <1> QED
    BY <1>1, <1>2, <1>3, <1>4, <1>5, <1>6, <1>7, <1>8, <1>9, <1>10, <1>11, <1>12, <1>13,
       <1>14, <1>15, <1>16, <1>17, <1>18 DEF Next, ServiceStep, Environment

\* Every part of IInv holds initially: there are no rows and no requests.
LEMMA InitIInv == Init => IInv
  <1> SUFFICES ASSUME Init PROVE IInv
    OBVIOUS
  <1>1. TypeOK
    BY RequestsAssumption DEF Init, TypeOK, PCs, Outcomes, Tables
  <1>2. IdsUnique /\ IdsBounded /\ VersionRowsResolve /\ FileRowsResolve
    BY DEF Init, IdsUnique, IdsBounded, VersionRowsResolve, FileRowsResolve
  <1>3. SavedBeforeBlob /\ BlobBytesStored /\ LocalsAreRight
    BY DEF Init, SavedBeforeBlob, BlobBytesStored, LocalsAreRight, HavePackage,
       HaveVersion
  <1>4. SentUnlessLostRace
    BY DEF Init, SentUnlessLostRace, FilesAreWhatWasSent
  <1> QED
    BY <1>1, <1>2, <1>3, <1>4 DEF IInv

\* The tables, the store and the requests' locals fit together after every step
\* of every interleaving, failures, crashes and deletions included.
THEOREM Invariance == Spec => []IInv
  <1>1. IInv /\ [Next]_vars => IInv'
    <2> SUFFICES ASSUME IInv, [Next]_vars PROVE IInv'
      OBVIOUS
    <2> QED
      BY TypeStep, StorageStep, IdsStep, RowsStep, LocalsStep, SentStep DEF IInv
  <1> QED
    BY <1>1, InitIInv, PTL DEF Spec

\* Type correctness of the tables and of the requests in flight.
THEOREM TypeCorrect == Spec => []TypeOK
  <1>1. IInv => TypeOK
    BY DEF IInv
  <1> QED
    BY <1>1, Invariance, PTL

\* No blob row ever lacks its bytes (Save comes before GetOrCreateBlob).
THEOREM BlobDurability == Spec => []BlobBytesStored
  <1>1. IInv => BlobBytesStored
    BY DEF IInv
  <1> QED
    BY <1>1, Invariance, PTL

\* Every file row leads to its version, package and blob.
THEOREM Referential == Spec => []FileRowsResolve
  <1>1. IInv => FileRowsResolve
    BY DEF IInv
  <1> QED
    BY <1>1, Invariance, PTL

\* The unchecked LastInsertId of GetOrCreatePackageWithLookup and
\* GetOrCreateBlob is the only way a file row can come to hold other bytes, or
\* sit in another package, than its uploader sent.
THEOREM SentIntegrity == Spec => []SentUnlessLostRace
  <1>1. IInv => SentUnlessLostRace
    BY DEF IInv
  <1> QED
    BY <1>1, Invariance, PTL
=============================================================================
