------------------------------- MODULE NuGet -------------------------------
(***************************************************************************)
(* internal/packages/nuget.  A push stores two files, the .nupkg and the   *)
(* .nuspec inside it, by two ingests under one lock; DELETE takes no lock. *)
(***************************************************************************)
EXTENDS Hosted

CONSTANTS Nupkg, Nuspec     \* the two names

ASSUME NugetAssumption == Nupkg # Nuspec /\ {Nupkg, Nuspec} \subseteq Names

NugetParses(c) == c \notin Malformed

\* openUploadBody and ParsePackage.
NugetUpload(p, c) ==
    \/ ~NugetParses(c) /\ AnswerAtOnce(p, Status("400"))
    \/ /\ NugetParses(c)
       /\ Begin(p, "nugetCheckIn", [NoLocal EXCEPT !.op = "upload", !.name = Nupkg, !.sha = c,
                                                   !.rest = {Nuspec}])

NugetCheckIn(p) ==
    /\ pc[p] = "nugetCheckIn"
    /\ holder = None
    /\ \/ IngestDenied /\ Respond(p, "403")
       \/ /\ ~IngestDenied
          /\ holder' = p
          /\ Goto(p, "svcPackage")
          /\ answer' = NoAnswer
          /\ UNCHANGED <<rq, hist>>
    /\ UNCHANGED <<repo, rows, keys, verdict, events>>

\* After the .nupkg the .nuspec is ingested the same way.  A duplicate is an
\* error the first time and none the second.
NugetStored(p) ==
    IF rq[p].rest # {}
      THEN Continue(p, "svcPackage", [rq[p] EXCEPT !.name = Nuspec, !.rest = {}])
      ELSE Created(p, {Nupkg, Nuspec})
NugetDuplicate(p) ==
    IF rq[p].rest # {} THEN Respond(p, "409") ELSE Created(p, {Nupkg, Nuspec})

NugetStore(p) ==
    /\ rq[p].op = "upload"
    /\ \/ GetOrCreatePackage(p)
       \/ GetOrAddVersion(p, None)
       \/ CreateFile(p, NugetStored(p), NugetDuplicate(p))

\* The .nuspec cannot be buffered: the push succeeds without it.
NugetNoBuffer(p) ==
    /\ Event("fail")
    /\ pc[p] = "svcPackage"
    /\ rq[p].op = "upload" /\ rq[p].name = Nuspec
    /\ Created(p, {Nupkg})
    /\ UNCHANGED <<rows, keys, verdict>>

NugetDelete(p) ==
    BeginDelete(p, "delVersion", [NoLocal EXCEPT !.op = "delete", !.name = Nupkg], Names)
NugetDeleteStep(p) == DeleteLookupVersion(p, VersionOf(p)) \/ DeleteApply(p)

NugetFound(n) == FileRows(n)
NugetDownload(p, n) == ServeFile(p, NugetFound(n))

\* The service index is text; registrations and version lists show the versions
\* that are not quarantined, with or without files; so does the search, where
\* an empty result is an answer.
NugetServiceIndex(p) == AnswerAtOnce(p, Status("200"))

NugetVisible == {v \in versions : ~v.quar}
NugetBare == \E v \in NugetVisible : \A f \in files : f.vid # v.id
NugetRegistration(p) ==
    AnswerAtOnce(p, [Status(IF NugetVisible = {} THEN "404" ELSE "200") EXCEPT !.bare = NugetBare])
NugetPackageVersions(p) ==
    AnswerAtOnce(p, [Status(IF NugetVisible = {} THEN "404" ELSE "200") EXCEPT !.bare = NugetBare])
NugetSearch(p) == AnswerAtOnce(p, [Status("200") EXCEPT !.bare = NugetBare])

NugetNext(p) ==
    \/ \E c \in Bodies[fmt] : NugetUpload(p, c)
    \/ \E n \in {Nupkg, Nuspec} : NugetDownload(p, n)
    \/ NugetDelete(p)
    \/ NugetServiceIndex(p) \/ NugetRegistration(p) \/ NugetPackageVersions(p) \/ NugetSearch(p)
    \/ NugetCheckIn(p) \/ NugetStore(p) \/ NugetNoBuffer(p) \/ NugetDeleteStep(p)
=============================================================================
