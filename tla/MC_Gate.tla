------------------------------ MODULE MC_Gate ------------------------------
(* Small instances of Gate. *)
EXTENDS Gate, TLC

CONSTANTS t1, t2, root, ann, lib, app, deb, gem, v1, v2, mit

Cooldown(n) == [minAge |-> n]
License(l, unknown) == [allow |-> l, onUnknown |-> unknown]

\* A rule with selectors <<version, package, tenant, format>>.
Rule(name, kind, sel, action, config, priority) ==
    [name |-> name, kind |-> kind, version |-> sel[1], package |-> sel[2], tenant |-> sel[3],
     format |-> sel[4], action |-> action, config |-> config, priority |-> priority,
     enabled |-> TRUE, expires |-> 0]
Everything == <<None, None, None, None>>
Off(r) == [r EXCEPT !.enabled = FALSE]
Until(r, t) == [r EXCEPT !.expires = t]

Subject(t, f, p, v, age, license) ==
    [tenant |-> t, format |-> f, package |-> p, version |-> v, age |-> age, license |-> license]
Young == Subject(t1, deb, lib, v1, 1, mit)
SomeSubjects == {Young,
                 Subject(t1, gem, app, v2, 1, None),
                 Subject(t1, deb, lib, v2, None, mit),
                 Subject(t2, deb, lib, v1, 3, None),
                 Subject(t1, deb, app, v1, 1, mit)}

Retentions == (t1 :> 1 @@ t2 :> 3)

-----------------------------------------------------------------------------
\* Requests and administrators' operations: a token's, a session's, nobody's.
ByToken(k, u) == [token |-> k, user |-> u]
Session(u) == [token |-> None, user |-> u]
Nobody == [token |-> None, user |-> None]

Op(n, do, by) == [n |-> n, do |-> do] @@ by
Read(n, by, s) == Op(n, "read", by) @@ [subject |-> s]
Ingest(n, by, s) == Op(n, "ingest", by) @@ [subject |-> s]
Save(n, by, r) == Op(n, "upsert", by) @@ [rule |-> r]
Erase(n, by, i) == Op(n, "delete", by) @@ [id |-> i]
Enable(n, by, i, b) == Op(n, "enable", by) @@ [id |-> i, enabled |-> b]
MintToken(n, u, scopes, t, x) ==
    Op(n, "mint", Session(u)) @@ [scopes |-> scopes, tenant |-> t, expires |-> x]
RevokeToken(n, u, k) == Op(n, "revoke", Session(u)) @@ [id |-> k]
Member(n, u, t, r) == Op(n, "member", Session(root)) @@ [member |-> u, tenant |-> t, role |-> r]
Show(n, t, b) == Op(n, "visibility", Session(root)) @@ [tenant |-> t, public |-> b]

Root == ByToken(1, root)
Ann == ByToken(2, ann)

Token(u, scopes, t, x) == [user |-> u, scopes |-> scopes, tenant |-> t, expires |-> x]
AdminToken == Token(root, {"read", "write", "admin"}, None, 0)
Both == (1 :> AdminToken @@ 2 :> Token(ann, {"write"}, t1, 0))
Expiring == (1 :> AdminToken @@ 2 :> Token(ann, {"read"}, None, 1))
Members(r) == (root :> (t1 :> 0 @@ t2 :> 0) @@ ann :> (t1 :> r @@ t2 :> 0))

Start == [ops |-> {}, rules |-> <<>>, tokens |-> Both, roles |-> Members(2), public |-> {},
          yaml |-> None, ticks |-> 0, faults |-> 0, stops |-> 0]

\* Rules of every rank, some off, some about to expire.
Hold == Rule("hold", "cooldown", Everything, "quarantine", Cooldown(2), 100)
Lax == Rule("hold", "cooldown", <<None, lib, None, None>>, "deny", Cooldown(0), 100)
Ranks == <<Hold,
           Until(Rule("lib", "cooldown", <<None, lib, None, None>>, "warn", Cooldown(2), 100), 1),
           Rule("deb", "cooldown", <<None, None, t1, deb>>, "deny", Cooldown(2), 1),
           Rule("pin", "cooldown", <<{v2}, None, None, None>>, "deny", BadConfig, 100)>>
Licenses == <<Rule("free", "license_allow", Everything, "deny", License({mit}, "warn"), 50),
              Rule("t2", "license_allow", <<None, None, t2, None>>, "quarantine", License({}, "deny"), 50),
              Off(Rule("none", "license_allow", <<None, None, t2, deb>>, "deny", License({}, "allow"), 50)),
              Rule("wait", "cooldown", Everything, "warn", Cooldown(2), 50)>>

Some == {
  \* the cascade, rules switched on and off, a refresh that fails
  [Start EXCEPT !.rules = Ranks, !.ticks = 3, !.faults = 1,
                !.ops = {Enable(1, Root, 3, FALSE), Read(2, Ann, Young)}],
  [Start EXCEPT !.rules = Licenses, !.ticks = 2, !.faults = 1,
                !.ops = {Enable(1, Session(root), 3, TRUE), Read(2, Ann, Young)}],
  \* one name saved by two, deleted by a third, and once more from the file
  [Start EXCEPT !.rules = <<Hold>>, !.yaml = Hold, !.stops = 1,
                !.ops = {Save(1, Root, Off(Hold)), Save(2, Session(root), Lax), Erase(3, Root, 1)}],
  [Start EXCEPT !.ops = {Save(1, Root, Off(Hold)), Save(2, Session(root), Lax), Save(3, Root, Hold)}],
  \* an id switched on that no rule has, or not yet
  [Start EXCEPT !.rules = <<Hold>>,
                !.ops = {Enable(1, Session(root), 2, TRUE),
                         Save(2, Root, Rule("new", "cooldown", Everything, "deny", Cooldown(2), 1)),
                         Ingest(3, Ann, Young)}],
  \* the audit log: a full queue, failed writes, shutdowns, retention
  [Start EXCEPT !.rules = <<Hold>>, !.ticks = 2, !.faults = 1, !.stops = 1,
                !.ops = {Ingest(1, Ann, Young), Read(2, Ann, Young), Erase(3, Session(root), 1)}],
  [Start EXCEPT !.rules = <<Hold>>, !.stops = 2,
                !.ops = {Read(1, Ann, Young), Erase(2, Root, 1), RevokeToken(3, ann, 2)}],
  \* access: tokens that expire and are revoked, members that leave, visibility
  [Start EXCEPT !.tokens = Expiring, !.ticks = 1, !.stops = 1,
                !.ops = {Read(1, Ann, Young), Member(2, ann, t1, 0), Show(3, t1, TRUE)}],
  [Start EXCEPT !.roles = Members(0),
                !.ops = {Ingest(1, Ann, Young), Member(2, ann, t1, 2), RevokeToken(3, root, 2),
                         Read(4, Nobody, Young)}],
  [Start EXCEPT !.ops = {MintToken(1, ann, {"read", "admin"}, t1, 0),
                         MintToken(2, ann, {"admin"}, None, 0), MintToken(3, ann, {"read"}, t2, 0),
                         Read(4, ByToken(3, ann), Young)}],
  [Start EXCEPT !.stops = 2,
                !.ops = {RevokeToken(1, root, 1), Show(2, t1, FALSE), RevokeToken(3, root, 1)}]}

Symmetry == Permutations(Procs)
=============================================================================
