-------------------------------- MODULE Npm --------------------------------
(***************************************************************************)
(* internal/packages/npm.  A version is one tarball; a dist-tag is a       *)
(* property of every version that holds it, and a reader that finds        *)
(* several holders takes the last in its order.  One tag is modelled.      *)
(***************************************************************************)
EXTENDS Hosted

NpmParses(c) == c \notin Malformed

NpmPublish(p, n, c) ==
    \/ ~NpmParses(c) /\ AnswerAtOnce(p, Status("400"))
    \/ NpmParses(c) /\ IngestDenied /\ AnswerAtOnce(p, Status("403"))
    \/ /\ NpmParses(c) /\ ~IngestDenied
       /\ Begin(p, "svcPackage", [NoLocal EXCEPT !.op = "upload", !.name = n, !.sha = c])

\* CreatePackageAndAddFile: a version published before is refused.
NpmStore(p) ==
    /\ rq[p].op = "upload"
    /\ \/ GetOrCreatePackage(p)
       \/ AddVersion(p, None)
       \/ CreateFile(p, Continue(p, "setLicense", rq[p]), Respond(p, "500"))
       \/ SetLicense(p, Continue(p, "npmTag", rq[p]))

Alive(vid) == \E v \in versions : v.id = vid

\* History: vid now holds the tag and nobody is about to remove it.
StaysTagged(vid) == Alive(vid) /\ ~InFlight({"untag"})

WithTag(vid, b) == {IF v.id = vid THEN [v EXCEPT !.tag = b] ELSE v : v \in versions}
\* The dist-tag of the publish is added; other versions keep theirs.  Its error
\* is ignored.
NpmPublishTag(p) ==
    /\ pc[p] = "npmTag"
    /\ Answer(p, Status("201"))
    /\ \/ /\ versions' = WithTag(rq[p].verId, TRUE)
          /\ hist' = [hist EXCEPT !.acked = @ \cup {rq[p].name}, !.tagged = StaysTagged(rq[p].verId)]
       \/ /\ "fail" \in repo.env
          /\ UNCHANGED versions
          /\ hist' = [hist EXCEPT !.acked = @ \cup {rq[p].name}]
    /\ UNCHANGED <<repo, pkg, files, keys, verdict, events>>

\* setDistTag and deleteDistTag: the version is looked up, the tag is taken from
\* every version listed, one by one, and then given to the one.
NpmSetTag(p, n) == Begin(p, "tagLookup", [NoLocal EXCEPT !.op = "tag", !.name = n])
NpmDeleteTag(p) == Begin(p, "tagList", [NoLocal EXCEPT !.op = "untag"])

NpmTagLookup(p) ==
    /\ pc[p] = "tagLookup"
    /\ \/ VersionRows(VersionOf(p)) = {} /\ Respond(p, "404")
       \/ \E r \in VersionRows(VersionOf(p)) :
             Continue(p, "tagList", [rq[p] EXCEPT !.verId = r.id])
    /\ UNCHANGED <<repo, rows, keys, verdict, events>>

NpmTagList(p) ==
    /\ pc[p] = "tagList"
    /\ \/ pkg = 0 /\ Respond(p, "404")
       \/ pkg # 0 /\ Continue(p, "tagClear", [rq[p] EXCEPT !.tagIds = {v.id : v \in versions}])
    /\ UNCHANGED <<repo, rows, keys, verdict, events>>

NpmKeepTags(p) ==
    /\ pc[p] = "tagClear"
    /\ Continue(p, "tagSet", [rq[p] EXCEPT !.tagIds = {}])
    /\ UNCHANGED <<repo, rows, keys, verdict, events>>
NpmClearTag(p) ==
    /\ pc[p] = "tagClear"
    /\ \/ \E i \in rq[p].tagIds :
            /\ versions' = WithTag(i, FALSE)
            /\ Continue(p, "tagClear", [rq[p] EXCEPT !.tagIds = @ \ {i}])
       \/ rq[p].tagIds = {} /\ Continue(p, "tagSet", rq[p]) /\ UNCHANGED versions
    /\ UNCHANGED <<repo, pkg, files, keys, verdict, events>>

NpmTagSet(p) ==
    LET vid == rq[p].verId IN
    /\ pc[p] = "tagSet"
    /\ \/ rq[p].op = "untag" /\ UNCHANGED <<versions, hist>>
       \/ /\ rq[p].op = "tag"
          /\ versions' = WithTag(vid, TRUE)
          /\ hist' = [hist EXCEPT
               !.tagged = StaysTagged(vid),
               !.sole = IF Alive(vid) /\ ~rq[p].met THEN VersionOf(p) ELSE None]
    /\ Answer(p, Status("200"))
    /\ UNCHANGED <<repo, pkg, files, keys, verdict, events>>

\* The package document: versions the gate lets through that have a file, a tag
\* resolving to the highest version that holds it.
NpmPackument(p) ==
    AnswerAtOnce(p, Status(IF IsBlocked \/ \A v \in versions : NamesIn(v.id) = {}
                             THEN "404" ELSE "200"))
NpmListTags(p) == AnswerAtOnce(p, Status(IF pkg = 0 THEN "404" ELSE "200"))
NpmDownload(p, n) == ServeFile(p, FileRows(n))

NpmNext(p) ==
    \/ \E n \in repo.names, c \in Bodies[fmt] : NpmPublish(p, n, c)
    \/ \E n \in repo.names : NpmSetTag(p, n) \/ NpmDownload(p, n)
    \/ NpmDeleteTag(p) \/ NpmPackument(p) \/ NpmListTags(p)
    \/ NpmStore(p) \/ NpmPublishTag(p)
    \/ NpmTagLookup(p) \/ NpmTagList(p) \/ NpmClearTag(p) \/ NpmTagSet(p)
=============================================================================
