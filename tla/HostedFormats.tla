--------------------------- MODULE HostedFormats ---------------------------
(***************************************************************************)
(* The formats without pull-through, each beside the same administrator,   *)
(* and what is expected of all of them.                                    *)
(***************************************************************************)
EXTENDS Debian, Rpm, Alpine, Generic, Cran, Maven, NuGet, Npm

Next ==
    \/ \E p \in Procs :
          \/ fmt = "debian"  /\ DebNext(p)
          \/ fmt = "rpm"     /\ RpmNext(p)
          \/ fmt = "alpine"  /\ ApkNext(p)
          \/ fmt = "generic" /\ GenNext(p)
          \/ fmt = "cran"    /\ CranNext(p)
          \/ fmt = "maven"   /\ MvnNext(p)
          \/ fmt = "nuget"   /\ NugetNext(p)
          \/ fmt = "npm"     /\ NpmNext(p)
    \/ Environment

Spec == Init /\ [][Next]_vars

-----------------------------------------------------------------------------
\* A file whose upload was answered 201 stays until somebody asks to delete it,
\* or a delete of a sibling overlaps the upload: a delete that counted one file
\* takes the version, with what was added to it since (debian/handler.go:508).
AckedFileStays == ~hist.crossed =>
    \A n \in hist.acked : FileRows(n) # {}

\* "keep version rows free of orphans" (debian/handler.go:505): when nobody is
\* writing, a version has a file, unless deletes overlapped or a request broke
\* off after it had made the row.
NoOrphanVersion == ~hist.crossed /\ ~hist.broken /\ ~InFlight(Writes) =>
    \A v \in versions : NamesIn(v.id) # {}

\* An index has no entry that lacks its description (control file or metadata;
\* for Maven and NuGet, any file), unless the reader overlapped a write or an
\* earlier request broke off: the row is visible before its properties are.
ListedIsDescribed == answer.bare => answer.met \/ hist.broken \/ hist.crossed

\* Clients pin the repository key: whatever was signed or handed out, it was one
\* pair.  It takes the ExclusivePool around GetOrCreateKeyPair; Alpine, which
\* has none, keeps it only while first requests do not overlap.
OneRepositoryKey ==
    hist.rekeyed \/ (fmt = "alpine" /\ hist.twoKeys) \/ Cardinality(hist.given) <= 1

\* When nobody is writing: a tag that was set and not removed is held by some
\* version, whatever setDistTags and publishes overlapped; and a setDistTag that
\* ran alone left it to the version it chose and to no other.
TagResolves ==
    LET holders == {v.ver : v \in {w \in versions : w.tag}} IN
    ~InFlight(Writes) /\ ~hist.broken =>
        /\ hist.tagged => holders # {}
        /\ hist.sole # None => holders = {hist.sole}

\* The metadata of a Maven version is that of its pom, whichever of the files
\* came first.
PomDescribesVersion == fmt = "maven" /\ ~hist.broken /\ ~InFlight({"upload"}) =>
    \A f \in files : f.name = Pom => \A v \in versions : v.id = f.vid => v.meta = f.sha
=============================================================================
