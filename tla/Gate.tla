-------------------------------- MODULE Gate --------------------------------
(***************************************************************************)
(* The path every request takes past authentication, policy and audit, and *)
(* the administrators who change what those three go by: tokens, members,  *)
(* visibility and rules live in the database, the engine decides on a      *)
(* snapshot of the rules that a refresher renews, and events reach the     *)
(* audit_log table through a bounded queue.  The server is started, shut   *)
(* down and killed.                                                        *)
(*                                                                         *)
(* What is asked of the server is a set of operations, each carried out    *)
(* once by one of Procs.  An operation is a record with fields             *)
(*   n      tells equal operations apart                                   *)
(*   do     which handler                                                  *)
(*   token  the id of the token presented; None for a console session      *)
(*   user   the token's owner or the session's user; None for nobody       *)
(* and those its handler reads.                                            *)
(***************************************************************************)
EXTENDS Policy

CONSTANTS
    Procs,           \* request handlers
    Users, Tenants,
    Admins,          \* users with is_admin
    DefaultTenant,   \* bootstrap's tenant, its visibility and its admin
    DefaultPublic,
    BootstrapAdmin,
    RuleIds,         \* bound: ids the rules table gives out, 1 .. n
    TokenIds,        \* bound: ids the tokens table gives out, 1 .. n
    AuditReads,      \* tenants with audit_reads = 1
    RetentionOf,     \* audit_retention_days of each tenant
    SystemRetention, \* and of events of no tenant
    Subjects,        \* what requests can be about
    QueueCap,        \* the channel's buffer
    Interval,        \* the refresher's period
    Scenarios,       \* [ops, rules, tokens, roles, public, yaml, ticks, faults, stops]
    Anonymous

INSTANCE Access

ASSUME GateAssumption ==
    /\ Admins \subseteq Users /\ BootstrapAdmin \in Admins /\ DefaultTenant \in Tenants
    /\ QueueCap \in Nat /\ Interval \in Nat \ {0} /\ DefaultPublic \in BOOLEAN
    /\ RetentionOf \in [Tenants -> Int] /\ SystemRetention \in Int
    /\ None \notin Nat /\ None \notin Users

IsOp(op) ==
    /\ op # None
    /\ op.user \in Users \cup {None}
    /\ op.do = "mint" => op.user \in Users
    /\ op.do = "upsert" => IsRule(op.rule)
    /\ op.do \in {"read", "ingest"} => op.subject.tenant \in Tenants
    /\ op.do \in {"member", "visibility"} => op.tenant \in Tenants

\* A table whose rules have names of their own and the ids AUTOINCREMENT gave them.
IsRuleTable(table) ==
    /\ IsFiniteSet(DOMAIN table)
    /\ table = [i \in 1 .. Cardinality(DOMAIN table) |-> table[i]]
    /\ \A i, j \in DOMAIN table : table[i].name = table[j].name => i = j
    /\ \A i \in DOMAIN table : IsRule(table[i])

\* The database, the policy file and the operations of a scenario.
ASSUME ScenarioAssumption == \A sc \in Scenarios :
    /\ IsRuleTable(sc.rules)
    /\ sc.yaml = None \/ IsRule(sc.yaml)
    /\ \A k \in DOMAIN sc.tokens : sc.tokens[k].user \in Users
    /\ \A op \in sc.ops : IsOp(op) /\ \A other \in sc.ops : op.n = other.n => op = other

VARIABLES
    rules,       \* policy_rules: id -> rule
    tokens,      \* tokens: id -> [user, scopes, tenant, expires]
    lastRule, lastToken,  \* AUTOINCREMENT: the last id given out
    roles,       \* tenant_members: user -> tenant -> role, 0 for none
    public,      \* tenants whose visibility is public
    rows,        \* audit_log: [op, tenant, rule, token, at]
    snap,        \* the engine's snapshot: kind -> sequence of <<id, rule>>
    refresher,   \* [pc, list, due, fails]
    queue, writing, drops,   \* the audit logger: channel, event in hand (a set), counter
    phase,       \* "up", "draining", "closing" or "down"
    pc, job,     \* where each handler is, and its locals
    now, todo, left, yaml,   \* the clock; what is still to happen; the policy file
    owed,        \* history: events the audit log owes its readers
    faulted,     \* history: writes of the audit log that failed
    unlisted,    \* history: when the table first changed after the last ListEnabled
    unseen,      \* history: ... after the ListEnabled the snapshot comes from
    raced,       \* history: rule names changed under a running Upsert
    held         \* history: grounds for access each request has had since it arrived

tables == <<rules, tokens, lastRule, lastToken, roles, public>>
engine == <<snap, refresher>>
logger == <<queue, writing, drops>>
world == <<now, left, yaml, phase>>
history == <<unlisted, unseen>>
vars == <<tables, rows, engine, logger, world, todo, pc, job, owed, faulted, history, raced, held>>

NoJob == [op |-> None, token |-> None, says |-> None, roles |-> None, rule |-> None]

-----------------------------------------------------------------------------
(* The tables. *)
Named(n) == {i \in DOMAIN rules : rules[i].name = n}

NamedEnabled(n) == {i \in Named(n) : rules[i].enabled}

GetEnabledByName(n) == IF NamedEnabled(n) = {} THEN {None} ELSE NamedEnabled(n)

\* GetByName: LIMIT 1 without an order, so any row of that name.
GetByName(n) == IF Named(n) = {} THEN {None} ELSE Named(n)

\* The table once it has a row more.
With(table, id, row) ==
    [x \in DOMAIN table \cup {id} |-> IF x = id THEN row ELSE table[x]]

InsertRule(r) ==
    /\ lastRule + 1 \in RuleIds
    /\ lastRule' = lastRule + 1
    /\ rules' = With(rules, lastRule + 1, r)

\* UPDATE ... WHERE id = ?: nothing happens when the row is gone.
UpdateRule(i, r) ==
    /\ rules' = [x \in DOMAIN rules |-> IF x = i THEN r ELSE rules[x]]
    /\ UNCHANGED lastRule

\* The foreign keys of audit_log: ON DELETE SET NULL, and an INSERT must refer
\* to rows that exist.
ForgetRule(i) == {IF e.rule = i THEN [e EXCEPT !.rule = None] ELSE e : e \in rows}
ForgetToken(k) == {IF e.token = k THEN [e EXCEPT !.token = None] ELSE e : e \in rows}
Resolves(e) == e.rule \in DOMAIN rules \cup {None} /\ e.token \in DOMAIN tokens \cup {None}

-----------------------------------------------------------------------------
(* The engine's snapshot. *)
ListEnabled == {i \in DOMAIN rules : rules[i].enabled}

\* The snapshots Refresh can make of a list of rows (id -> rule).
Refreshed(list) ==
    {[k \in {Kinds[1], Kinds[2]} |-> [x \in DOMAIN order[k] |-> <<order[k][x], list[order[k][x]]>>]] :
        order \in {o \in [{Kinds[1], Kinds[2]} -> UNION {SetToSeqs(s) : s \in SUBSET DOMAIN list}] :
            \A k \in {Kinds[1], Kinds[2]} :
                o[k] \in SortRules(list, {i \in DOMAIN list : list[i].kind = k})}}

Running == phase \in {"up", "draining"}

StopAfterFailedPull == [refresher EXCEPT !.due = now - 1]

\* A failed pull is printed; the old snapshot stays and the ticker goes on.
AfterFailedPull == [refresher EXCEPT !.due = now + Interval, !.fails = @ + 1]

\* The refresher's tick: PullFromStore reads the table, then swaps the snapshot.
List ==
    /\ Running /\ refresher.pc = "wait" /\ now = refresher.due
    /\ \/ /\ refresher' = [refresher EXCEPT !.pc = "refresh", !.list = Restrict(rules, ListEnabled)]
          /\ unlisted' = None
          /\ UNCHANGED left
       \/ /\ left.faults > 0
          /\ left' = [left EXCEPT !.faults = @ - 1]
          /\ refresher' = AfterFailedPull
          /\ UNCHANGED unlisted
    /\ UNCHANGED <<tables, rows, snap, logger, now, yaml, phase, todo, pc, job, owed, faulted, unseen>>

Refresh ==
    /\ Running /\ refresher.pc = "refresh"
    /\ snap' \in Refreshed(refresher.list)
    /\ refresher' = [refresher EXCEPT !.pc = "wait", !.list = None,
                                      !.due = now + Interval, !.fails = 0]
    /\ unseen' = unlisted
    /\ UNCHANGED <<tables, rows, logger, world, todo, pc, job, owed, faulted, unlisted>>

-----------------------------------------------------------------------------
(* The audit logger. *)
EventOf(p, tenant, rule) ==
    [op |-> job[p].op.n, tenant |-> tenant, rule |-> rule, token |-> job[p].token, at |-> now]

Log(e) ==
    IF Len(queue) < QueueCap
    THEN queue' = Append(queue, e) /\ UNCHANGED <<drops, writing>>
    ELSE drops' = drops + 1 /\ UNCHANGED <<queue, writing>>

\* drain: the next event out of the channel, then its INSERT, which may fail
\* and is then only printed.
Drain ==
    /\ phase # "down" /\ writing = {} /\ queue # <<>>
    /\ writing' = {Head(queue)} /\ queue' = Tail(queue)
    /\ UNCHANGED <<tables, rows, engine, drops, world, todo, pc, job, owed, faulted, history>>

\* An event whose rule or token is not in its table is refused, and owed no more.
Write == \E e \in writing :
    /\ phase # "down"
    /\ writing' = {}
    /\ \/ /\ Resolves(e)
          /\ rows' = rows \cup {e}
          /\ UNCHANGED <<left, faulted, owed>>
       \/ /\ ~Resolves(e)
          /\ owed' = owed \ {e}
          /\ UNCHANGED <<left, faulted, rows>>
       \/ /\ left.faults > 0
          /\ left' = [left EXCEPT !.faults = @ - 1]
          /\ faulted' = faulted + 1
          /\ UNCHANGED <<rows, owed>>
    /\ UNCHANGED <<tables, engine, queue, drops, now, yaml, phase, todo, pc, job, history>>

Retention(e) == IF e.tenant = None THEN SystemRetention ELSE RetentionOf[e.tenant]

Prune ==
    /\ phase # "down"
    /\ \E e \in rows : e.at < now - Retention(e)
    /\ rows' = {e \in rows : ~(e.at < now - Retention(e))}
    /\ UNCHANGED <<tables, engine, logger, world, todo, pc, job, owed, faulted, history>>

-----------------------------------------------------------------------------
(* The handlers.  Every request is authenticated first, in steps of their own. *)
Goto(p, l) == pc' = [pc EXCEPT ![p] = l]
Done(p) == /\ Goto(p, "idle")
           /\ job' = [job EXCEPT ![p] = NoJob]

Arrive(p) == \E op \in todo :
    /\ phase = "up" /\ pc[p] = "idle"
    /\ todo' = todo \ {op}
    /\ job' = [job EXCEPT ![p] = [NoJob EXCEPT !.op = op]]
    /\ Goto(p, IF op.token # None THEN "lookup" ELSE IF op.user # None THEN "roles" ELSE "guard")
    /\ UNCHANGED <<tables, rows, engine, logger, world, owed, faulted>>

ExpiredNever(k) == FALSE

Expired(k) == tokens[k].expires # 0 /\ tokens[k].expires < now

\* Tokens.Lookup: a token that is unknown or expired makes nobody of the caller.
Lookup(p) ==
    /\ pc[p] = "lookup"
    /\ LET k == job[p].op.token IN
       IF k \in DOMAIN tokens /\ ~Expired(k)
       THEN /\ job' = [job EXCEPT ![p] = [@ EXCEPT !.token = k, !.says = tokens[k]]]
            /\ Goto(p, "roles")
       ELSE Goto(p, "guard") /\ UNCHANGED job
    /\ UNCHANGED <<tables, rows, engine, logger, world, todo, owed, faulted>>

Caller(p) == IF job[p].token = None THEN job[p].op.user ELSE job[p].says.user

\* Tenants.Memberships.
Memberships(p) ==
    /\ pc[p] = "roles"
    /\ job' = [job EXCEPT ![p].roles = roles[Caller(p)]]
    /\ Goto(p, "guard")
    /\ UNCHANGED <<tables, rows, engine, logger, world, todo, owed, faulted>>

Identity(p) ==
    IF job[p].roles = None THEN Anonymous
    ELSE [user |-> Caller(p), token |-> job[p].says, roles |-> job[p].roles]

TenantOps == {"member", "visibility"}

\* What each route asks of the identity before its handler does anything.
Permitted(p) ==
    LET op == job[p].op  id == Identity(p)
    IN CASE op.do = "read"   -> RequireRead(id, op.subject.tenant, public)
         [] op.do = "ingest" -> RequireWrite(id, op.subject.tenant)
         [] op.do = "mint"   -> id # Anonymous /\ (op.tenant = None \/ CanRead(id, op.tenant))
         [] op.do = "revoke" -> /\ op.id \in DOMAIN tokens
                                /\ tokens[op.id].user = op.user \/ IsSystemAdmin(id)
         [] OTHER            -> IsSystemAdmin(id)

\* The admin API writes the event of a deletion before it deletes.
First(op) == CASE op.do \in {"read", "ingest"} -> "evaluate"
               [] op.do = "upsert" -> "find"
               [] op.do = "delete" /\ op.token # None -> "log"
               [] OTHER -> "write"

Guard(p) ==
    /\ pc[p] = "guard"
    /\ IF Permitted(p) THEN Goto(p, First(job[p].op)) /\ UNCHANGED job ELSE Done(p)
    /\ UNCHANGED <<tables, rows, engine, logger, world, todo, owed, faulted>>

\* What the audit log is to hold of the engine's decisions (audit/engine.go).
ShouldLog(op, d) ==
    op.do = "ingest" \/ d # "allow" \/ op.subject.tenant \in AuditReads

\* The engine decides and the decorator logs.  Once the channel is closed the
\* send panics, and the handler ends with a 500.
Decide(p) ==
    /\ pc[p] = "evaluate"
    /\ LET op == job[p].op
           r == Evaluate(snap, op.subject, now)
           e == EventOf(p, op.subject.tenant, r.rule)
       IN /\ IF phase = "closing" \/ ~ShouldLog(op, r.decision)
             THEN UNCHANGED logger ELSE Log(e)
          /\ owed' = IF phase # "closing" /\ (op.do = "ingest" \/ r.decision # "allow")
                     THEN owed \cup {e} ELSE owed
    /\ Done(p)
    /\ UNCHANGED <<tables, rows, engine, world, todo, faulted>>

\* Upsert, first half: is there a rule of that name?
Find(p) ==
    /\ pc[p] = "find"
    /\ \E i \in GetByName(job[p].op.rule.name) : job' = [job EXCEPT ![p].rule = i]
    /\ Goto(p, "write")
    /\ UNCHANGED <<tables, rows, engine, logger, world, todo, owed, faulted>>

\* Upsert, second half.
Upsert(p) ==
    /\ job[p].op.do = "upsert"
    /\ \/ /\ job[p].rule = None
          /\ InsertRule(job[p].op.rule)
          /\ job' = [job EXCEPT ![p].rule = lastRule + 1]
       \/ /\ job[p].rule # None
          /\ UpdateRule(job[p].rule, job[p].op.rule)
          /\ UNCHANGED job
    /\ Goto(p, "log")
    /\ UNCHANGED <<rows, tokens, lastToken, roles, public>>

SetEnabled(p) ==
    LET op == job[p].op IN
    /\ op.do = "enable"
    /\ rules' = [i \in DOMAIN rules |->
                    IF i = op.id THEN [rules[i] EXCEPT !.enabled = op.enabled] ELSE rules[i]]
    /\ Goto(p, "log")
    /\ UNCHANGED <<rows, lastRule, tokens, lastToken, roles, public, job>>

Delete(p) ==
    LET op == job[p].op IN
    /\ op.do = "delete"
    /\ rules' = Restrict(rules, DOMAIN rules \ {op.id})
    /\ rows' = ForgetRule(op.id)
    /\ IF op.token = None THEN Goto(p, "log") /\ UNCHANGED job ELSE Done(p)
    /\ UNCHANGED <<lastRule, tokens, lastToken, roles, public>>

\* tokenMint: only an administrator's token gets the admin scope; no scope left
\* is an error.
Scopes(op) == IF op.user \in Admins THEN op.scopes ELSE op.scopes \ {"admin"}
Mint(p) ==
    LET op == job[p].op IN
    /\ op.do = "mint"
    /\ IF Scopes(op) = {} THEN Done(p) /\ UNCHANGED <<tokens, lastToken>>
       ELSE /\ lastToken + 1 \in TokenIds
            /\ lastToken' = lastToken + 1
            /\ tokens' = With(tokens, lastToken + 1,
                              [user |-> op.user, scopes |-> Scopes(op),
                               tenant |-> op.tenant, expires |-> op.expires])
            /\ Goto(p, "log") /\ UNCHANGED job
    /\ UNCHANGED <<rows, rules, lastRule, roles, public>>

\* tokenRevoke; a token that is gone by now is an error, without an event.
Revoke(p) ==
    LET op == job[p].op IN
    /\ op.do = "revoke"
    /\ IF op.id \in DOMAIN tokens THEN Goto(p, "log") /\ UNCHANGED job ELSE Done(p)
    /\ tokens' = Restrict(tokens, DOMAIN tokens \ {op.id})
    /\ rows' = ForgetToken(op.id)
    /\ UNCHANGED <<rules, lastRule, lastToken, roles, public>>

\* tenantMemberAdd, and tenantMemberRemove as role 0.
SetMember(p) ==
    LET op == job[p].op IN
    /\ op.do = "member"
    /\ roles' = [roles EXCEPT ![op.member][op.tenant] = op.role]
    /\ Goto(p, "log")
    /\ UNCHANGED <<rows, rules, lastRule, tokens, lastToken, public, job>>

\* tenantSetVisibility does nothing when there is nothing to change.
SetVisibility(p) ==
    LET op == job[p].op IN
    /\ op.do = "visibility"
    /\ public' = IF op.public THEN public \cup {op.tenant} ELSE public \ {op.tenant}
    /\ IF public' = public THEN Done(p) ELSE Goto(p, "log") /\ UNCHANGED job
    /\ UNCHANGED <<rows, rules, lastRule, tokens, lastToken, roles>>

Change(p) ==
    /\ pc[p] = "write"
    /\ \/ Upsert(p) \/ SetEnabled(p) \/ Delete(p) \/ Mint(p) \/ Revoke(p)
       \/ SetMember(p) \/ SetVisibility(p)
    /\ UNCHANGED <<engine, logger, world, todo, owed, faulted>>

\* The event of an administrator's operation.  A deletion through the API goes on
\* to delete, unless the send panicked.
Emit(p) ==
    /\ pc[p] = "log"
    /\ LET op == job[p].op
           rule == CASE op.do = "upsert" -> job[p].rule
                     [] op.do \in {"enable", "delete"} -> op.id
                     [] OTHER -> None
           e == EventOf(p, IF op.do \in TenantOps THEN op.tenant ELSE None, rule)
       IN /\ IF phase = "closing" THEN UNCHANGED <<logger, owed>>
             ELSE Log(e) /\ owed' = owed \cup {e}
          /\ IF op.do = "delete" /\ op.token # None /\ phase # "closing"
             THEN Goto(p, "write") /\ UNCHANGED job
             ELSE Done(p)
    /\ UNCHANGED <<tables, rows, engine, world, todo, faulted>>

-----------------------------------------------------------------------------
(* The server's life. *)
Tick ==
    /\ left.ticks > 0
    /\ Running => refresher.pc = "wait" /\ now # refresher.due
    /\ now' = now + 1
    /\ left' = [left EXCEPT !.ticks = @ - 1]
    /\ UNCHANGED <<tables, rows, engine, logger, yaml, phase, todo, pc, job, owed, faulted, history>>

\* SIGTERM: no new requests; those in flight get ten seconds.
Shutdown ==
    /\ phase = "up" /\ left.stops > 0
    /\ phase' = "draining"
    /\ left' = [left EXCEPT !.stops = @ - 1]
    /\ UNCHANGED <<tables, rows, engine, logger, now, yaml, todo, pc, job, owed, faulted, history>>

\* They ended, or the ten seconds did: the refresher is cancelled and the
\* channel closed.
Close ==
    /\ phase = "draining"
    /\ phase' = "closing"
    /\ UNCHANGED <<tables, rows, engine, logger, now, left, yaml, todo, pc, job, owed, faulted, history>>

Stored(es) == {e \in es : \E r \in rows : r.op = e.op}

Stop == /\ phase' = "down"
        /\ pc' = [p \in Procs |-> "idle"]
        /\ job' = [p \in Procs |-> NoJob]
        /\ queue' = <<>> /\ writing' = {}

\* logger.Close that does not wait.
ExitAtOnce ==
    /\ phase = "closing"
    /\ Stop
    /\ UNCHANGED <<tables, rows, engine, drops, now, left, yaml, todo, owed, faulted, history>>

\* logger.Close waits for the drainer, then the process ends.
Exit ==
    /\ phase = "closing" /\ queue = <<>> /\ writing = {}
    /\ Stop
    /\ UNCHANGED <<tables, rows, engine, drops, now, left, yaml, todo, owed, faulted, history>>

\* A crash takes the queue along; nothing in it is owed any more.
Crash ==
    /\ phase # "down" /\ left.stops > 0
    /\ left' = [left EXCEPT !.stops = @ - 1]
    /\ Stop
    /\ owed' = Stored(owed)
    /\ UNCHANGED <<tables, rows, engine, drops, now, yaml, todo, faulted, history>>

\* bootstrap.Ensure: the default tenant's visibility is set again, its admin is a
\* member again, and has a token again if it has none.
EnsureBootstrap ==
    /\ public' = IF DefaultPublic THEN public \cup {DefaultTenant} ELSE public \ {DefaultTenant}
    /\ roles' = [roles EXCEPT ![BootstrapAdmin][DefaultTenant] = RoleTenantAdmin]
    /\ IF \E k \in DOMAIN tokens : tokens[k].user = BootstrapAdmin
       THEN UNCHANGED <<tokens, lastToken>>
       ELSE /\ lastToken' = lastToken + 1
            /\ tokens' = With(tokens, lastToken + 1,
                              [user |-> BootstrapAdmin, scopes |-> {"read", "write", "admin"},
                               tenant |-> None, expires |-> 0])

\* SyncYAMLFile: the rules of the file are upserted, none is removed.
SyncYAML ==
    IF yaml = None THEN UNCHANGED <<rules, lastRule>>
    ELSE \E i \in GetByName(yaml.name) :
            IF i = None THEN InsertRule(yaml) ELSE UpdateRule(i, yaml)

\* main, from the database to the listening socket: nothing else runs yet.
Boot ==
    /\ phase = "down"
    /\ EnsureBootstrap
    /\ SyncYAML
    /\ snap' \in Refreshed(Restrict(rules', {i \in DOMAIN rules' : rules'[i].enabled}))
    /\ refresher' = [pc |-> "wait", list |-> None, due |-> now + Interval, fails |-> 0]
    /\ drops' = 0 /\ faulted' = 0
    /\ owed' = Stored(owed)
    /\ unlisted' = None /\ unseen' = None
    /\ phase' = "up"
    /\ UNCHANGED <<rows, queue, writing, now, left, yaml, todo, pc, job>>

-----------------------------------------------------------------------------
Init == \E sc \in Scenarios :
    /\ rules = sc.rules /\ lastRule = Cardinality(DOMAIN sc.rules)
    /\ tokens = sc.tokens /\ lastToken = Cardinality(DOMAIN sc.tokens)
    /\ roles = sc.roles /\ public = sc.public /\ rows = {}
    /\ snap = [k \in {Kinds[1], Kinds[2]} |-> <<>>]
    /\ refresher = [pc |-> "wait", list |-> None, due |-> 0, fails |-> 0]
    /\ queue = <<>> /\ writing = {} /\ drops = 0
    /\ phase = "down"
    /\ pc = [p \in Procs |-> "idle"] /\ job = [p \in Procs |-> NoJob]
    /\ now = 1 /\ todo = sc.ops /\ yaml = sc.yaml
    /\ left = [ticks |-> sc.ticks, faults |-> sc.faults, stops |-> sc.stops]
    /\ owed = {} /\ faulted = 0 /\ unlisted = None /\ unseen = None
    /\ raced = {} /\ held = [p \in Procs |-> {}]

\* When the table first changes after it was read.
Since(t) == IF t = None /\ rules' # rules THEN now ELSE t

Handler == /\ \E p \in Procs :
                 \/ Arrive(p) \/ Lookup(p) \/ Memberships(p) \/ Guard(p)
                 \/ Decide(p) \/ Find(p) \/ Change(p) \/ Emit(p)
           /\ unlisted' = Since(unlisted)
           /\ unseen' = Since(unseen)

\* A running Upsert of p, and what stands under its name.
Upserting(p) == pc[p] \in {"write", "log"} /\ job[p].op.do = "upsert"
Standing(n, table) == {<<i, table[i]>> : i \in {x \in DOMAIN table : table[x].name = n}}

\* Grounds on which p's request may be let through, as they are now.
Grounds(p, tks, rls, pub, t) ==
    LET op == job[p].op
        live(k) == k \in DOMAIN tks /\ ~(tks[k].expires # 0 /\ tks[k].expires < t)
        need == IF op.do = "read" THEN RoleReader ELSE RoleWriter
    IN IF op = None \/ op.do \notin {"read", "ingest"} THEN {}
       ELSE {g \in {"public", "credential", "role"} :
               CASE g = "public" -> op.do = "read" /\ op.subject.tenant \in pub
                 [] g = "credential" -> op.token = None \/ live(op.token)
                 [] g = "role" -> /\ op.token = None \/ job[p].token # None
                                  /\ Caller(p) \in Users
                                  /\ \/ Caller(p) \in Admins
                                     \/ rls[Caller(p)][op.subject.tenant] >= need}

Watched ==
    /\ raced' = raced \cup {n \in {job[p].op.rule.name : p \in {q \in Procs : Upserting(q)}} :
                    \E p \in Procs : /\ Upserting(p) /\ job[p].op.rule.name = n
                                     /\ pc'[p] = pc[p]
                                     /\ Standing(n, rules') # Standing(n, rules)}
    /\ held' = [p \in Procs |->
                  IF pc'[p] = "idle" THEN {}
                  ELSE held[p] \cup Grounds(p, tokens, roles, public, now)]

Next == /\ \/ Handler
           \/ List \/ Refresh \/ Drain \/ Write \/ Prune
           \/ Tick \/ Shutdown \/ Close \/ Exit \/ Crash \/ Boot
        /\ Watched

Spec == Init /\ [][Next]_vars

-----------------------------------------------------------------------------
(* Properties. *)
Accounted(e) ==
    \/ \E r \in rows : r.op = e.op
    \/ \E w \in writing : w.op = e.op
    \/ \E i \in DOMAIN queue : queue[i].op = e.op
    \/ e.at < now - Retention(e)

\* Every ingest, every decision other than allow and every administrator's
\* operation is in the log, on its way there or counted: "overflow is dropped and
\* visible via logger.Drops()" (audit/engine.go).  A clean shutdown loses none.
\* What is not counted is a failed INSERT, of which one kind needs no fault: the
\* event's rule was deleted or its token revoked before the drainer got to it, or
\* there never was a rule of the id an administrator gave.
AuditAccounted == Cardinality({e \in owed : ~Accounted(e)}) <= drops + faulted

\* An Upsert that is about to answer has made the table hold its rule, once,
\* under its name ("Upsert inserts or updates a rule keyed by name", rule_store.go)
\* unless that name was changed by somebody else while it ran.
UpsertStands == \A p \in Procs :
    (pc[p] = "log" /\ job[p].op.do = "upsert" /\ job[p].op.rule.name \notin raced) =>
        Standing(job[p].op.rule.name, rules) = {<<job[p].rule, job[p].op.rule>>}

\* As long as the table has not changed since it was last read, the engine's
\* decision on every subject is one the rules of the table themselves give:
\* per kind the most specific one, over the kinds the strictest.
CascadeDecides == (Running /\ unseen = None) => \A s \in Subjects :
    Evaluate(snap, s, now).decision \in Decisions(rules, s, now)

\* A change of the rules is in force one refresh interval later, or as many more
\* intervals later as pulls have failed in a row ("re-pulls rules from store every
\* interval", refresher.go), across restarts too.
RulesFresh == (Running /\ unseen # None) =>
    now - unseen <= Interval * (1 + refresher.fails)

\* A request that gets to the engine had grounds since it arrived: "a permission
\* revoke takes effect on the next request" (console/middleware/auth.go), and so
\* does the expiry or revocation of a token.  The parts may have held at different
\* moments: they are read one after another.
GrantedOnGrounds == \A p \in Procs : pc[p] = "evaluate" =>
    "public" \in held[p] \/ {"credential", "role"} \subseteq held[p]
=============================================================================
