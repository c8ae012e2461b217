----------------------------- MODULE GateProofs -----------------------------
(***************************************************************************)
(* Proofs about Gate, for any number of handlers, users, tenants, rules    *)
(* and operations: when a change of the rules is in force (RulesFresh),    *)
(* what an Upsert leaves behind (UpsertStands), on what grounds a request  *)
(* is let through (GrantedOnGrounds), that the engine decides as the       *)
(* table's rules say (CascadeDecides), and that the audit log loses        *)
(* nothing it does not count (AuditAccounted).                             *)
(***************************************************************************)
EXTENDS Gate, TLAPS, FiniteSetTheorems, WellFoundedInduction

Labels == {"idle", "lookup", "roles", "guard", "evaluate", "find", "write", "log"}

IsJob(j) ==
    /\ j = [op |-> j.op, token |-> j.token, says |-> j.says, roles |-> j.roles, rule |-> j.rule]
    /\ j.op = None \/ IsOp(j.op)

\* Rules have the ids that were given out, tokens belong to users, and a handler at
\* work has an operation.
RulesTyped ==
    /\ lastRule \in Nat
    /\ rules = [i \in DOMAIN rules |-> rules[i]]
    /\ \A i \in DOMAIN rules : i \in 1 .. lastRule /\ IsRule(rules[i])
    /\ yaml = None \/ IsRule(yaml)

TokensTyped == \A k \in DOMAIN tokens : tokens[k].user \in Users

JobsTyped ==
    /\ pc \in [Procs -> Labels]
    /\ job = [p \in Procs |-> job[p]]
    /\ \A p \in Procs : IsJob(job[p]) /\ (pc[p] # "idle" => job[p].op # None)
    /\ \A op \in todo : IsOp(op)

TypeInv == RulesTyped /\ TokensTyped /\ JobsTyped

-----------------------------------------------------------------------------
(* The steps, by what they leave alone. *)

\* Neither a handler nor the table moves.
Quiet == \/ List \/ Refresh \/ Drain \/ Write \/ Prune \/ Tick \/ Shutdown \/ Close

\* A handler's step.
Move(p) == \/ Arrive(p) \/ Lookup(p) \/ Memberships(p) \/ Guard(p)
           \/ Decide(p) \/ Find(p) \/ Change(p) \/ Emit(p)

\* Every step of the specification is one of these.
LEMMA NextCases ==
  ASSUME Next
  PROVE  /\ Watched
         /\ \/ /\ \E p \in Procs : Move(p)
               /\ unlisted' = Since(unlisted)
               /\ unseen' = Since(unseen)
            \/ Quiet \/ Exit \/ Crash \/ Boot
  BY DEF Next, Handler, Move, Quiet

\* A quiet step leaves the tables and the requests alone.
LEMMA QuietFrame ==
  ASSUME Quiet
  PROVE  UNCHANGED <<tables, yaml, todo, pc, job>>
  BY DEF Quiet, List, Refresh, Drain, Write, Prune, Tick, Shutdown, Close, world

\* The end of the process leaves the tables.
LEMMA StopFrame ==
  ASSUME Exit \/ Crash
  PROVE  /\ UNCHANGED <<tables, yaml, todo, now>>
         /\ phase' = "down"
         /\ pc' = [p \in Procs |-> "idle"]
         /\ job' = [p \in Procs |-> NoJob]
  BY DEF Exit, Crash, Stop

\* Only Change writes the tables, among the handlers' steps.
LEMMA MoveFrame ==
  ASSUME NEW p \in Procs, Move(p)
  PROVE  /\ UNCHANGED <<now, yaml, phase, refresher, snap>>
         /\ Change(p) \/ UNCHANGED tables
         /\ Arrive(p) \/ UNCHANGED todo
  BY DEF Move, Arrive, Lookup, Memberships, Guard, Decide, Find, Change, Emit, world, engine

-----------------------------------------------------------------------------
(* When a change of the rules is in force. *)

\* While the server runs the refresher is never late: its next pull is at most an
\* interval away and not overdue, the change the snapshot lacks is no older than the
\* last pull that succeeded, and the one a pull under way lacks no older than that pull.
ClockInv ==
    /\ now \in Nat
    /\ refresher = [pc |-> refresher.pc, list |-> refresher.list, due |-> refresher.due,
                    fails |-> refresher.fails]
    /\ Running =>
          /\ refresher.due \in Int /\ refresher.fails \in Nat
          /\ refresher.pc \in {"wait", "refresh"}
          /\ now <= refresher.due /\ refresher.due <= now + Interval
          /\ refresher.pc = "refresh" => refresher.due = now
          /\ unseen # None =>
                unseen \in Int /\ refresher.due - Interval * (1 + refresher.fails) <= unseen
          /\ refresher.pc = "refresh" /\ unlisted # None =>
                unlisted \in Int /\ unlisted >= refresher.due

\* One more failure allows one more interval.
LEMMA IntervalTimes ==
  ASSUME NEW n \in Nat
  PROVE  /\ Interval * (1 + n) \in Nat
         /\ Interval * (1 + (n + 1)) = Interval * (1 + n) + Interval
         /\ Interval * (1 + 0) = Interval
         /\ Interval <= Interval * (1 + n)
<1>1. Interval \in Nat
  BY GateAssumption
<1>2. \A i, m \in Nat : i * (1 + m) \in Nat /\ i * (1 + (m + 1)) = i * (1 + m) + i
                        /\ i * (1 + 0) = i /\ i <= i * (1 + m)
  <2>1. \A i, m \in Nat : i * m \in Nat /\ i * (1 + m) = i + i * m
    OBVIOUS
  <2> QED
    BY <2>1
<1> QED
  BY <1>1, <1>2

\* The refresher's steps.
LEMMA RefresherClock ==
  ASSUME ClockInv, List \/ Refresh
  PROVE  ClockInv'
<1> DEFINE due == refresher.due
           fails == refresher.fails
<1>1. Running /\ UNCHANGED <<now, phase>> /\ Interval \in Nat
  BY GateAssumption DEF List, Refresh, world
<1>2. /\ now \in Nat /\ due \in Int /\ fails \in Nat /\ now <= due /\ due <= now + Interval
      /\ unseen # None => unseen \in Int /\ due - Interval * (1 + fails) <= unseen
      /\ refresher = [pc |-> refresher.pc, list |-> refresher.list, due |-> due, fails |-> fails]
  BY <1>1 DEF ClockInv
<1>3. Running'
  BY <1>1 DEF Running
<1>4. CASE List
  <2>1. now = due
    BY <1>4 DEF List
  <2>2. CASE refresher' = [refresher EXCEPT !.pc = "refresh", !.list = Restrict(rules, ListEnabled)]
             /\ unlisted' = None
    <3> DEFINE list == Restrict(rules, ListEnabled)
    <3> HIDE DEF list
    <3>1. refresher' = [pc |-> "refresh", list |-> list, due |-> due, fails |-> fails]
      BY <1>2, <2>2 DEF list
    <3>2. UNCHANGED unseen
      BY <1>4 DEF List
    <3> HIDE DEF due, fails
    <3>3. /\ refresher'.pc = "refresh" /\ refresher'.list = list /\ refresher'.due = due
          /\ refresher'.fails = fails
      BY <3>1
    <3> QED
      BY <1>1, <1>2, <1>3, <2>1, <2>2, <3>1, <3>2, <3>3 DEF ClockInv
  <2>3. CASE refresher' = AfterFailedPull
    <3> DEFINE next == now + Interval
               more == fails + 1
    <3>1. refresher' = [pc |-> refresher.pc, list |-> refresher.list, due |-> next, fails |-> more]
      BY <1>2, <2>3 DEF AfterFailedPull
    <3>2. UNCHANGED unseen /\ refresher.pc = "wait"
      BY <1>4 DEF List
    <3>3. /\ next \in Int /\ more \in Nat /\ now <= next /\ next <= now + Interval
          /\ unseen # None => next - Interval * (1 + more) <= unseen
      <4> HIDE DEF due, fails
      <4>1. Interval * (1 + fails) \in Nat /\ Interval * (1 + more) = Interval * (1 + fails) + Interval
        BY <1>2, IntervalTimes
      <4> QED
        BY <1>1, <1>2, <2>1, <4>1
    <3> HIDE DEF next, more
    <3>4. /\ refresher'.pc = "wait" /\ refresher'.list = refresher.list /\ refresher'.due = next
          /\ refresher'.fails = more
      BY <3>1, <3>2
    <3> QED
      BY <1>1, <1>2, <1>3, <3>1, <3>2, <3>3, <3>4 DEF ClockInv
  <2> QED
    BY <1>4, <2>2, <2>3 DEF List
<1>5. CASE Refresh
  <2>1. refresher' = [pc |-> "wait", list |-> None, due |-> now + Interval, fails |-> 0]
    BY <1>2, <1>5 DEF Refresh
  <2>2. /\ refresher'.pc = "wait" /\ refresher'.list = None /\ refresher'.due = now + Interval
        /\ refresher'.fails = 0
    BY <2>1
  <2>3. unseen' = unlisted /\ refresher.pc = "refresh"
    BY <1>5 DEF Refresh
  <2>4. due = now /\ (unlisted # None => unlisted \in Int /\ unlisted >= due)
    BY <1>1, <2>3 DEF ClockInv
  <2>5. Interval * (1 + 0) = Interval
    BY IntervalTimes
  <2> QED
    BY <1>1, <1>2, <1>3, <2>1, <2>2, <2>3, <2>4, <2>5 DEF ClockInv
<1> QED
  BY <1>4, <1>5

\* A handler's step, which may change the table.
LEMMA MoveClock ==
  ASSUME ClockInv, NEW p \in Procs, Move(p), unlisted' = Since(unlisted), unseen' = Since(unseen)
  PROVE  ClockInv'
<1>1. UNCHANGED <<now, phase, refresher>> /\ Interval \in Nat
  BY MoveFrame, GateAssumption
<1>2. unlisted' \in {unlisted, now} /\ unseen' \in {unseen, now}
  BY DEF Since
<1>3. Running' <=> Running
  BY <1>1 DEF Running
<1>4. CASE ~Running
  BY <1>1, <1>3, <1>4 DEF ClockInv
<1>5. CASE Running
  <2> DEFINE due == refresher.due
             fails == refresher.fails
  <2>1. /\ now \in Nat /\ due \in Int /\ fails \in Nat /\ now <= due /\ due <= now + Interval
    BY <1>5 DEF ClockInv
  <2>2. Interval <= Interval * (1 + fails) /\ Interval * (1 + fails) \in Nat
    BY <2>1, IntervalTimes
  <2>3. due - Interval * (1 + fails) <= now
    BY <1>1, <2>1, <2>2
  <2> QED
    BY <1>1, <1>2, <1>3, <1>5, <2>1, <2>3 DEF ClockInv
<1> QED
  BY <1>4, <1>5

\* The refresher holds the clock up until it has pulled and swapped.
LEMMA ClockStep ==
  ASSUME ClockInv, [Next]_vars
  PROVE  ClockInv'
<1>1. CASE UNCHANGED vars
  BY <1>1 DEF vars, world, engine, history, ClockInv, Running
<1>2. CASE Tick
  <2>1. now' = now + 1 /\ UNCHANGED <<phase, refresher, unlisted, unseen>> /\ Interval \in Nat
    BY <1>2, GateAssumption DEF Tick, engine, history
  <2>2. Running => refresher.pc = "wait" /\ now # refresher.due
    BY <1>2 DEF Tick
  <2>3. Running' <=> Running
    BY <2>1 DEF Running
  <2> QED
    BY <2>1, <2>2, <2>3 DEF ClockInv
<1>3. CASE Drain \/ Write \/ Prune \/ Shutdown \/ Close
  <2>1. UNCHANGED <<now, refresher, unlisted, unseen>>
    BY <1>3 DEF Drain, Write, Prune, Shutdown, Close, engine, history, world
  <2>2. Running' => Running
    BY <1>3 DEF Running, Drain, Write, Prune, Shutdown, Close, world
  <2> QED
    BY <2>1, <2>2 DEF ClockInv
<1>4. CASE Exit \/ Crash
  <2>1. UNCHANGED <<now, refresher>> /\ phase' = "down"
    BY <1>4 DEF Exit, Crash, Stop, engine
  <2> QED
    BY <2>1 DEF ClockInv, Running
<1>5. CASE Boot
  <2>1. /\ refresher' = [pc |-> "wait", list |-> None, due |-> now + Interval, fails |-> 0]
        /\ unlisted' = None /\ unseen' = None /\ now' = now /\ Interval \in Nat
    BY <1>5, GateAssumption DEF Boot
  <2>2. /\ refresher'.pc = "wait" /\ refresher'.list = None /\ refresher'.due = now + Interval
        /\ refresher'.fails = 0
    BY <2>1
  <2> QED
    BY <2>1, <2>2 DEF ClockInv
<1> QED
  BY <1>1, <1>2, <1>3, <1>4, <1>5, NextCases, RefresherClock, MoveClock DEF Quiet

\* The refresher keeps time.
THEOREM ClockHolds == Spec => []ClockInv
<1>1. Init => ClockInv
  BY DEF Init, ClockInv, Running
<1>2. ClockInv /\ [Next]_vars => ClockInv'
  BY ClockStep
<1> QED
  BY <1>1, <1>2, PTL DEF Spec

\* A change of the rules is in force one interval after it was made, and one more for
\* every pull that failed since (refresher.go): for any number of rules and operations,
\* across restarts.
THEOREM RulesFreshHolds == Spec => []RulesFresh
<1>1. ClockInv => RulesFresh
  <2> SUFFICES ASSUME ClockInv, Running, unseen # None
               PROVE  now - unseen <= Interval * (1 + refresher.fails)
    BY DEF RulesFresh
  <2>1. /\ now \in Nat /\ refresher.due \in Int /\ refresher.fails \in Nat /\ unseen \in Int
        /\ now <= refresher.due
        /\ refresher.due - Interval * (1 + refresher.fails) <= unseen
    BY DEF ClockInv
  <2>2. Interval * (1 + refresher.fails) \in Nat
    BY <2>1, IntervalTimes
  <2> QED
    BY <2>1, <2>2
<1> QED
  BY <1>1, ClockHolds, PTL

-----------------------------------------------------------------------------
(* The types. *)

\* INSERT adds a row under an id not given out before.
LEMMA InsertFacts ==
  ASSUME RulesTyped, NEW r, IsRule(r), InsertRule(r)
  PROVE  /\ lastRule' = lastRule + 1 /\ lastRule' \in Nat
         /\ lastRule + 1 \notin DOMAIN rules
         /\ DOMAIN rules' = DOMAIN rules \cup {lastRule + 1}
         /\ rules'[lastRule + 1] = r
         /\ \A i \in DOMAIN rules : rules'[i] = rules[i]
         /\ rules' = [i \in DOMAIN rules' |-> rules'[i]]
         /\ \A i \in DOMAIN rules' : i \in 1 .. lastRule' /\ IsRule(rules'[i])
<1>1. lastRule' = lastRule + 1 /\ lastRule \in Nat /\ lastRule + 1 \notin DOMAIN rules
  BY DEF InsertRule, RulesTyped
<1>2. rules' = [i \in DOMAIN rules \cup {lastRule + 1} |->
                   IF i = lastRule + 1 THEN r ELSE rules[i]]
  BY DEF InsertRule, With
<1>3. /\ DOMAIN rules' = DOMAIN rules \cup {lastRule + 1}
      /\ rules'[lastRule + 1] = r
      /\ \A i \in DOMAIN rules : rules'[i] = rules[i]
      /\ rules' = [i \in DOMAIN rules' |-> rules'[i]]
  BY <1>1, <1>2
<1>4. \A i \in DOMAIN rules' : i \in 1 .. lastRule' /\ IsRule(rules'[i])
  BY <1>1, <1>3 DEF RulesTyped
<1> QED
  BY <1>1, <1>3, <1>4

\* UPDATE changes a row there is.
LEMMA UpdateFacts ==
  ASSUME RulesTyped, NEW r, IsRule(r), NEW i, UpdateRule(i, r)
  PROVE  /\ lastRule' = lastRule
         /\ DOMAIN rules' = DOMAIN rules
         /\ \A x \in DOMAIN rules : rules'[x] = IF x = i THEN r ELSE rules[x]
         /\ rules' = [x \in DOMAIN rules' |-> rules'[x]]
         /\ \A x \in DOMAIN rules' : x \in 1 .. lastRule' /\ IsRule(rules'[x])
  BY DEF UpdateRule, RulesTyped

\* Switching a rule on or off leaves its name; deleting it leaves the others.
LEMMA SwitchFacts ==
  ASSUME RulesTyped, NEW p \in Procs, SetEnabled(p)
  PROVE  /\ lastRule' = lastRule
         /\ DOMAIN rules' = DOMAIN rules
         /\ \A x \in DOMAIN rules : rules'[x].name = rules[x].name
         /\ rules' = [x \in DOMAIN rules' |-> rules'[x]]
         /\ \A x \in DOMAIN rules' : x \in 1 .. lastRule' /\ IsRule(rules'[x])
<1> DEFINE op == job[p].op
<1>1. /\ rules' = [i \in DOMAIN rules |->
                     IF i = op.id THEN [rules[i] EXCEPT !.enabled = op.enabled] ELSE rules[i]]
      /\ lastRule' = lastRule
  BY DEF SetEnabled
<1>2. ASSUME NEW r, IsRule(r), NEW b
      PROVE  IsRule([r EXCEPT !.enabled = b]) /\ [r EXCEPT !.enabled = b].name = r.name
  <2> DEFINE s == [r EXCEPT !.enabled = b]
  <2>1. s = [name |-> r.name, kind |-> r.kind, tenant |-> r.tenant, format |-> r.format,
             package |-> r.package, version |-> r.version, action |-> r.action,
             config |-> r.config, priority |-> r.priority, enabled |-> b,
             expires |-> r.expires]
    BY <1>2 DEF IsRule
  <2>2. /\ s.name = r.name /\ s.kind = r.kind /\ s.tenant = r.tenant /\ s.format = r.format
        /\ s.package = r.package /\ s.version = r.version /\ s.action = r.action
        /\ s.config = r.config /\ s.priority = r.priority /\ s.enabled = b
        /\ s.expires = r.expires
    <3> HIDE DEF s
    <3> QED BY <2>1
  <2> HIDE DEF s
  <2>3. IsRule(s) /\ s.name = r.name
    BY <1>2, <2>1, <2>2 DEF IsRule
  <2> QED
    BY <2>3 DEF s
<1>3. ASSUME NEW x \in DOMAIN rules
      PROVE  rules'[x].name = rules[x].name /\ IsRule(rules'[x])
  BY <1>1, <1>2 DEF RulesTyped
<1>4. DOMAIN rules' = DOMAIN rules /\ rules' = [x \in DOMAIN rules' |-> rules'[x]]
  BY <1>1
<1> QED
  BY <1>1, <1>3, <1>4 DEF RulesTyped

\* DELETE takes rows away and changes none of those that stay.
LEMMA DeleteFacts ==
  ASSUME RulesTyped, NEW p \in Procs, Delete(p)
  PROVE  /\ lastRule' = lastRule
         /\ DOMAIN rules' \subseteq DOMAIN rules
         /\ \A x \in DOMAIN rules' : rules'[x] = rules[x]
         /\ rules' = [x \in DOMAIN rules' |-> rules'[x]]
         /\ \A x \in DOMAIN rules' : x \in 1 .. lastRule' /\ IsRule(rules'[x])
  BY DEF Delete, Restrict, RulesTyped

\* What a Change does to the table: nothing, an Upsert, a switch or a deletion.
LEMMA ChangeCases ==
  ASSUME NEW p \in Procs, Change(p)
  PROVE  /\ pc[p] = "write"
         /\ Upsert(p) \/ SetEnabled(p) \/ Delete(p) \/ UNCHANGED <<rules, lastRule>>
         /\ UNCHANGED <<yaml, todo>>
  BY DEF Change, Mint, Revoke, SetMember, SetVisibility, world

\* Every step keeps the rule table a table of rules with ids that were given out.
LEMMA RulesTypedStep ==
  ASSUME TypeInv, [Next]_vars
  PROVE  RulesTyped'
<1>1. CASE UNCHANGED <<rules, lastRule, yaml>>
  BY <1>1 DEF TypeInv, RulesTyped
<1>2. ASSUME NEW p \in Procs, Change(p)
      PROVE  RulesTyped'
  <2>1. CASE Upsert(p)
    <3>1. IsRule(job[p].op.rule)
      BY <2>1, <1>2, ChangeCases DEF Upsert, TypeInv, JobsTyped, IsJob, IsOp
    <3> QED
      BY <1>2, <2>1, <3>1, ChangeCases, InsertFacts, UpdateFacts DEF Upsert, TypeInv, RulesTyped
  <2>2. CASE SetEnabled(p) \/ Delete(p)
    BY <1>2, <2>2, ChangeCases, SwitchFacts, DeleteFacts DEF TypeInv, RulesTyped
  <2> QED
    BY <1>1, <1>2, <2>1, <2>2, ChangeCases
<1>3. CASE Boot
  <2>1. UNCHANGED yaml /\ SyncYAML
    BY <1>3 DEF Boot
  <2>2. CASE yaml = None
    BY <1>1, <2>1, <2>2 DEF SyncYAML
  <2>3. CASE yaml # None
    <3>1. IsRule(yaml) /\ \E i : InsertRule(yaml) \/ UpdateRule(i, yaml)
      BY <2>1, <2>3 DEF SyncYAML, TypeInv, RulesTyped
    <3> QED
      BY <2>1, <3>1, InsertFacts, UpdateFacts DEF TypeInv, RulesTyped
  <2> QED
    BY <2>2, <2>3
<1>4. CASE UNCHANGED vars
  BY <1>1, <1>4 DEF vars, tables, world
<1>5. CASE Quiet \/ Exit \/ Crash
  BY <1>1, <1>5, QuietFrame, StopFrame DEF tables
<1>6. ASSUME NEW p \in Procs, Move(p)
      PROVE  RulesTyped'
  BY <1>1, <1>2, <1>6, MoveFrame DEF tables
<1> QED
  BY <1>3, <1>4, <1>5, <1>6, NextCases

\* Whoever has a token is a user.
LEMMA TokensTypedStep ==
  ASSUME TypeInv, [Next]_vars
  PROVE  TokensTyped'
<1>1. CASE UNCHANGED tokens
  BY <1>1 DEF TypeInv, TokensTyped
<1>2. ASSUME NEW k, NEW e, e.user \in Users, tokens' = With(tokens, k, e)
      PROVE  TokensTyped'
  BY <1>2 DEF With, TypeInv, TokensTyped
<1>3. ASSUME NEW p \in Procs, Change(p)
      PROVE  TokensTyped'
  <2>1. CASE Mint(p)
    <3> DEFINE op == job[p].op
               e == [user |-> op.user, scopes |-> Scopes(op), tenant |-> op.tenant,
                     expires |-> op.expires]
    <3>1. op.user \in Users
      BY <1>3, <2>1, ChangeCases DEF Mint, TypeInv, JobsTyped, IsJob, IsOp
    <3>2. UNCHANGED tokens \/ tokens' = With(tokens, lastToken + 1, e)
      BY <2>1 DEF Mint
    <3>3. e.user = op.user
      OBVIOUS
    <3> HIDE DEF e
    <3> QED
      BY <1>1, <1>2, <3>1, <3>2, <3>3
  <2>2. CASE Revoke(p)
    BY <2>2 DEF Revoke, Restrict, TypeInv, TokensTyped
  <2>3. CASE UNCHANGED tokens
    BY <1>1, <2>3
  <2> QED
    BY <1>3, <2>1, <2>2, <2>3 DEF Change, Upsert, SetEnabled, Delete, SetMember, SetVisibility
<1>4. CASE Boot
  <2> DEFINE e == [user |-> BootstrapAdmin, scopes |-> {"read", "write", "admin"},
                   tenant |-> None, expires |-> 0]
  <2>1. UNCHANGED tokens \/ tokens' = With(tokens, lastToken + 1, e)
    BY <1>4 DEF Boot, EnsureBootstrap
  <2>2. e.user \in Users
    BY GateAssumption
  <2> HIDE DEF e
  <2> QED
    BY <1>1, <1>2, <2>1, <2>2
<1>5. CASE UNCHANGED vars \/ Quiet \/ Exit \/ Crash
  BY <1>1, <1>5, QuietFrame, StopFrame DEF vars, tables
<1>6. ASSUME NEW p \in Procs, Move(p)
      PROVE  TokensTyped'
  BY <1>1, <1>3, <1>6, MoveFrame DEF tables
<1> QED
  BY <1>4, <1>5, <1>6, NextCases

\* What a handler's step does to its locals: they start over, or keep the operation.
JobStep(p) ==
    /\ \A q \in Procs \ {p} : pc'[q] = pc[q] /\ job'[q] = job[q]
    /\ pc' \in [Procs -> Labels]
    /\ job' = [q \in Procs |-> job'[q]]
    /\ IsJob(job'[p])
    /\ pc'[p] # "idle" => job'[p].op # None /\ (pc[p] = "idle" \/ job'[p].op = job[p].op)

\* A request that ends is idle.
LEMMA DoneJob ==
  ASSUME JobsTyped, NEW p \in Procs, Done(p)
  PROVE  JobStep(p) /\ pc'[p] = "idle"
<1>1. IsJob(NoJob)
  BY DEF IsJob, NoJob
<1> QED
  BY <1>1 DEF JobsTyped, JobStep, Done, Goto, Labels

\* A request that goes on keeps its locals.
LEMMA GotoJob ==
  ASSUME JobsTyped, NEW p \in Procs, pc[p] # "idle", NEW l \in Labels, Goto(p, l), UNCHANGED job
  PROVE  JobStep(p) /\ pc'[p] = l
  BY DEF JobsTyped, JobStep, Goto

\* A step that stores one value read.
LEMMA StoreJob ==
  ASSUME JobsTyped, NEW p \in Procs, pc[p] # "idle", NEW l \in Labels, Goto(p, l), NEW j,
         IsJob(j), j.op = job[p].op, job' = [job EXCEPT ![p] = j]
  PROVE  JobStep(p) /\ pc'[p] = l /\ job'[p] = j
  BY DEF JobsTyped, JobStep, Goto

\* A request whose rule or roles are set keeps its other locals.
LEMMA JobWith ==
  ASSUME NEW j, IsJob(j), NEW x
  PROVE  /\ IsJob([j EXCEPT !.rule = x]) /\ [j EXCEPT !.rule = x].op = j.op
         /\ [j EXCEPT !.rule = x].rule = x
         /\ IsJob([j EXCEPT !.roles = x]) /\ [j EXCEPT !.roles = x].op = j.op
         /\ [j EXCEPT !.roles = x].roles = x /\ [j EXCEPT !.roles = x].token = j.token
         /\ [j EXCEPT !.roles = x].says = j.says
<1>1. [j EXCEPT !.rule = x] =
         [op |-> j.op, token |-> j.token, says |-> j.says, roles |-> j.roles, rule |-> x]
  BY DEF IsJob
<1>2. [j EXCEPT !.roles = x] =
         [op |-> j.op, token |-> j.token, says |-> j.says, roles |-> x, rule |-> j.rule]
  BY DEF IsJob
<1> QED
  BY <1>1, <1>2 DEF IsJob

\* A request whose token or message is set keeps its other locals.
LEMMA JobWithToken ==
  ASSUME NEW j, IsJob(j), NEW x
  PROVE  /\ IsJob([j EXCEPT !.token = x]) /\ [j EXCEPT !.token = x].op = j.op
         /\ [j EXCEPT !.token = x].token = x /\ [j EXCEPT !.token = x].roles = j.roles
         /\ IsJob([j EXCEPT !.says = x]) /\ [j EXCEPT !.says = x].op = j.op
         /\ [j EXCEPT !.says = x].token = j.token /\ [j EXCEPT !.says = x].roles = j.roles
         /\ [j EXCEPT !.says = x].says = x
<1>1. [j EXCEPT !.token = x] =
         [op |-> j.op, token |-> x, says |-> j.says, roles |-> j.roles, rule |-> j.rule]
  BY DEF IsJob
<1>2. [j EXCEPT !.says = x] =
         [op |-> j.op, token |-> j.token, says |-> x, roles |-> j.roles, rule |-> j.rule]
  BY DEF IsJob
<1> QED
  BY <1>1, <1>2 DEF IsJob

\* Arrive.
LEMMA ArriveJob ==
  ASSUME JobsTyped, NEW p \in Procs, Arrive(p)
  PROVE  /\ JobStep(p) /\ todo' \subseteq todo
         /\ pc[p] = "idle" /\ pc'[p] \in {"lookup", "roles", "guard"}
         /\ job'[p].token = None /\ job'[p].roles = None
         /\ pc'[p] = "roles" => job'[p].op.token = None /\ job'[p].op.user # None
         /\ pc'[p] = "lookup" => job'[p].op.token # None
<1>1. PICK op \in todo :
        /\ pc[p] = "idle" /\ todo' = todo \ {op}
        /\ job' = [job EXCEPT ![p] = [NoJob EXCEPT !.op = op]]
        /\ Goto(p, IF op.token # None THEN "lookup" ELSE IF op.user # None THEN "roles" ELSE "guard")
  BY DEF Arrive
<1> DEFINE j == [NoJob EXCEPT !.op = op]
<1>2. j = [op |-> op, token |-> None, says |-> None, roles |-> None, rule |-> None]
  BY DEF NoJob
<1>3. IsOp(op) /\ op # None
  BY <1>1 DEF JobsTyped, IsOp
<1> HIDE DEF j
<1>4. IsJob(j) /\ j.op = op /\ j.token = None /\ j.roles = None
  BY <1>2, <1>3 DEF IsJob
<1> DEFINE l == IF op.token # None THEN "lookup" ELSE IF op.user # None THEN "roles" ELSE "guard"
<1>5. /\ l \in {"lookup", "roles", "guard"}
      /\ l = "roles" => op.token = None /\ op.user # None
      /\ l = "lookup" => op.token # None
  OBVIOUS
<1>7. Goto(p, l)
  BY <1>1
<1> HIDE DEF l
<1>6. job' = [job EXCEPT ![p] = j]
  BY <1>1 DEF j
<1> QED
  BY <1>1, <1>3, <1>4, <1>5, <1>6, <1>7 DEF JobsTyped, JobStep, Goto, Labels

\* Lookup.
LEMMA LookupJob ==
  ASSUME JobsTyped, NEW p \in Procs, Lookup(p)
  PROVE  /\ JobStep(p) /\ pc[p] = "lookup"
         /\ \/ pc'[p] = "guard" /\ job'[p] = job[p]
            \/ LET k == job[p].op.token
               IN  /\ pc'[p] = "roles" /\ k \in DOMAIN tokens /\ ~Expired(k)
                   /\ job'[p].token = k /\ job'[p].says = tokens[k]
                   /\ job'[p].roles = job[p].roles
<1> DEFINE k == job[p].op.token
           j == [job[p] EXCEPT !.token = k, !.says = tokens[k]]
<1>1. pc[p] = "lookup" /\ IsJob(job[p])
  BY DEF Lookup, JobsTyped
<1>2. CASE k \in DOMAIN tokens /\ ~Expired(k)
  <2>1. job' = [job EXCEPT ![p] = j] /\ Goto(p, "roles")
    BY <1>2 DEF Lookup
  <2>2. IsJob(j) /\ j.op = job[p].op /\ j.token = k /\ j.says = tokens[k] /\ j.roles = job[p].roles
    <3> DEFINE h == [job[p] EXCEPT !.token = k]
    <3>1. j = [h EXCEPT !.says = tokens[k]]
      OBVIOUS
    <3>2. IsJob(h) /\ h.op = job[p].op /\ h.token = k /\ h.roles = job[p].roles
      BY <1>1, JobWithToken
    <3> HIDE DEF h, j, k
    <3>3. PICK x : x = tokens[k]
      OBVIOUS
    <3>4. j = [h EXCEPT !.says = x]
      BY <3>1, <3>3
    <3>5. IsJob(j) /\ j.op = h.op /\ j.token = h.token /\ j.roles = h.roles /\ j.says = x
      BY <3>2, <3>4, JobWithToken
    <3> QED
      BY <3>2, <3>3, <3>5
  <2> HIDE DEF j
  <2>3. JobStep(p) /\ pc'[p] = "roles" /\ job'[p] = j
    BY <1>1, <2>1, <2>2, StoreJob DEF Labels
  <2> QED
    BY <1>1, <1>2, <2>2, <2>3
<1>3. CASE ~(k \in DOMAIN tokens /\ ~Expired(k))
  BY <1>1, <1>3, GotoJob DEF Lookup, Labels
<1> QED
  BY <1>2, <1>3

\* Memberships and Find.
LEMMA MembershipsJob ==
  ASSUME JobsTyped, NEW p \in Procs, Memberships(p)
  PROVE  /\ JobStep(p) /\ pc[p] = "roles" /\ pc'[p] = "guard"
         /\ job'[p].roles = roles[Caller(p)]
         /\ job'[p].token = job[p].token /\ job'[p].says = job[p].says
<1> DEFINE j == [job[p] EXCEPT !.roles = roles[Caller(p)]]
<1>1. /\ pc[p] = "roles" /\ IsJob(job[p]) /\ job' = [job EXCEPT ![p] = j] /\ Goto(p, "guard")
  BY DEF Memberships, JobsTyped
<1>2. /\ IsJob(j) /\ j.op = job[p].op /\ j.roles = roles[Caller(p)]
      /\ j.token = job[p].token /\ j.says = job[p].says
  BY <1>1, JobWith
<1> HIDE DEF j
<1>3. JobStep(p) /\ pc'[p] = "guard" /\ job'[p] = j
  BY <1>1, <1>2, StoreJob DEF Labels
<1> QED
  BY <1>1, <1>2, <1>3

\* upsert's lookup keeps a rule that has the name, or none.
LEMMA FindJob ==
  ASSUME JobsTyped, NEW p \in Procs, Find(p)
  PROVE  /\ JobStep(p) /\ pc[p] = "find" /\ pc'[p] = "write"
         /\ job'[p].rule \in GetByName(job[p].op.rule.name)
<1>1. PICK i \in GetByName(job[p].op.rule.name) : job' = [job EXCEPT ![p].rule = i]
  BY DEF Find
<1> DEFINE j == [job[p] EXCEPT !.rule = i]
<1>2. pc[p] = "find" /\ IsJob(job[p]) /\ job' = [job EXCEPT ![p] = j] /\ Goto(p, "write")
  BY <1>1 DEF Find, JobsTyped
<1>3. IsJob(j) /\ j.op = job[p].op /\ j.rule = i
  BY <1>2, JobWith
<1> HIDE DEF j
<1>4. JobStep(p) /\ pc'[p] = "write" /\ job'[p] = j
  BY <1>2, <1>3, StoreJob DEF Labels
<1> QED
  BY <1>1, <1>2, <1>3, <1>4

\* Guard, Decide and Emit.
LEMMA GuardJob ==
  ASSUME JobsTyped, NEW p \in Procs, Guard(p)
  PROVE  /\ JobStep(p) /\ pc[p] = "guard"
         /\ \/ pc'[p] = "idle"
            \/ /\ Permitted(p) /\ pc'[p] = First(job[p].op) /\ job'[p] = job[p]
<1>1. \A op : First(op) \in Labels
  BY DEF First, Labels
<1> QED
  BY <1>1, DoneJob, GotoJob DEF Guard

\* A request that was decided ends.
LEMMA DecideJob ==
  ASSUME JobsTyped, NEW p \in Procs, Decide(p)
  PROVE  JobStep(p) /\ pc'[p] = "idle"
  BY DoneJob DEF Decide

\* After its event a request ends, or a purge goes on to its DELETE.
LEMMA EmitJob ==
  ASSUME JobsTyped, NEW p \in Procs, Emit(p)
  PROVE  /\ JobStep(p) /\ pc[p] = "log"
         /\ \/ pc'[p] = "idle"
            \/ pc'[p] = "write" /\ job[p].op.do = "delete" /\ job'[p] = job[p]
<1>1. \/ Done(p)
      \/ job[p].op.do = "delete" /\ Goto(p, "write") /\ UNCHANGED job
  BY DEF Emit
<1>2. pc[p] = "log"
  BY DEF Emit
<1>3. CASE Done(p)
  BY <1>2, <1>3, DoneJob
<1>4. CASE job[p].op.do = "delete" /\ Goto(p, "write") /\ UNCHANGED job
  BY <1>2, <1>4, GotoJob DEF Labels
<1> QED
  BY <1>1, <1>3, <1>4

\* Change.
LEMMA UpsertJob ==
  ASSUME JobsTyped, NEW p \in Procs, pc[p] = "write", Upsert(p)
  PROVE  /\ JobStep(p) /\ pc'[p] = "log" /\ job[p].op.do = "upsert"
         /\ \/ /\ job[p].rule = None /\ job'[p].rule = lastRule + 1 /\ InsertRule(job[p].op.rule)
            \/ /\ job[p].rule # None /\ job'[p] = job[p]
               /\ UpdateRule(job[p].rule, job[p].op.rule)
<1>1. job[p].op.do = "upsert" /\ Goto(p, "log") /\ IsJob(job[p])
  BY DEF Upsert, JobsTyped
<1>2. CASE /\ job[p].rule = None /\ InsertRule(job[p].op.rule)
           /\ job' = [job EXCEPT ![p].rule = lastRule + 1]
  <2> DEFINE j == [job[p] EXCEPT !.rule = lastRule + 1]
  <2>1. IsJob(j) /\ j.op = job[p].op /\ j.rule = lastRule + 1
    BY <1>1, JobWith
  <2>2. job' = [job EXCEPT ![p] = j]
    BY <1>2 DEF JobsTyped
  <2> HIDE DEF j
  <2>3. JobStep(p) /\ pc'[p] = "log" /\ job'[p] = j
    BY <1>1, <2>1, <2>2, StoreJob DEF Labels
  <2> QED
    BY <1>1, <1>2, <2>1, <2>3
<1>3. CASE /\ job[p].rule # None /\ UpdateRule(job[p].rule, job[p].op.rule) /\ UNCHANGED job
  BY <1>1, <1>3, GotoJob DEF Labels
<1> QED
  BY <1>2, <1>3 DEF Upsert

\* A write either goes on to its event or ends the request.
LEMMA ChangeJob ==
  ASSUME JobsTyped, NEW p \in Procs, Change(p)
  PROVE  /\ JobStep(p) /\ pc[p] = "write" /\ pc'[p] \in {"log", "idle"}
         /\ pc'[p] = "log" => Upsert(p) \/ job[p].op.do # "upsert"
<1>1. pc[p] = "write"
  BY DEF Change
<1>2. CASE Upsert(p)
  BY <1>1, <1>2, UpsertJob
<1>3. ASSUME ~Upsert(p)
      PROVE  job[p].op.do # "upsert" /\ (Done(p) \/ (Goto(p, "log") /\ UNCHANGED job))
  BY <1>3 DEF Change, SetEnabled, Delete, Mint, Revoke, SetMember, SetVisibility
<1> QED
  BY <1>1, <1>2, <1>3, DoneJob, GotoJob DEF Labels

\* So every handler's step is of this form.
LEMMA MoveJob ==
  ASSUME JobsTyped, NEW p \in Procs, Move(p)
  PROVE  JobStep(p)
  BY ArriveJob, LookupJob, MembershipsJob, GuardJob, DecideJob, FindJob, ChangeJob, EmitJob DEF Move

\* Every step keeps the requests' locals in shape.
LEMMA JobsTypedStep ==
  ASSUME TypeInv, [Next]_vars
  PROVE  JobsTyped'
<1>1. CASE UNCHANGED <<pc, job, todo>>
  BY <1>1 DEF TypeInv, JobsTyped
<1>2. CASE Exit \/ Crash
  <2>1. IsJob(NoJob)
    BY DEF IsJob, NoJob
  <2> QED
    BY <1>2, <2>1, StopFrame DEF TypeInv, JobsTyped, Labels
<1>3. ASSUME NEW p \in Procs, Move(p)
      PROVE  JobsTyped'
  <2>1. JobStep(p) /\ todo' \subseteq todo
    BY <1>3, MoveJob, ArriveJob, MoveFrame DEF TypeInv
  <2> QED
    BY <2>1 DEF JobStep, TypeInv, JobsTyped
<1>4. CASE Boot \/ Quiet \/ UNCHANGED vars
  BY <1>1, <1>4, QuietFrame DEF Boot, vars
<1> QED
  BY <1>2, <1>3, <1>4, NextCases

\* The types hold throughout.
THEOREM TypesHold == Spec => []TypeInv
<1>1. Init => TypeInv
  <2> SUFFICES ASSUME Init PROVE TypeInv
    OBVIOUS
  <2>1. PICK sc \in Scenarios :
          /\ rules = sc.rules /\ lastRule = Cardinality(DOMAIN sc.rules) /\ tokens = sc.tokens
          /\ yaml = sc.yaml /\ todo = sc.ops
    BY DEF Init
  <2>2. /\ IsRuleTable(sc.rules)
        /\ sc.yaml = None \/ IsRule(sc.yaml)
        /\ \A k \in DOMAIN sc.tokens : sc.tokens[k].user \in Users
        /\ \A op \in sc.ops : IsOp(op)
    BY ScenarioAssumption
  <2>3. JobsTyped
    <3>1. IsJob(NoJob)
      BY DEF IsJob, NoJob
    <3> QED
      BY <2>1, <2>2, <3>1 DEF Init, JobsTyped, Labels
  <2>4. RulesTyped
    <3>1. Cardinality(DOMAIN sc.rules) \in Nat
      BY <2>2, FS_CardinalityType DEF IsRuleTable
    <3> QED
      BY <2>1, <2>2, <3>1 DEF RulesTyped, IsRuleTable
  <2>5. TokensTyped
    BY <2>1, <2>2 DEF TokensTyped
  <2> QED
    BY <2>3, <2>4, <2>5 DEF TypeInv
<1>2. TypeInv /\ [Next]_vars => TypeInv'
  BY RulesTypedStep, TokensTypedStep, JobsTypedStep DEF TypeInv
<1> QED
  BY <1>1, <1>2, PTL DEF Spec

-----------------------------------------------------------------------------
(* What an Upsert leaves behind. *)

\* Between the two halves of p's Upsert, the table holds what the first half found.
FoundStands(p) ==
    (pc[p] = "write" /\ job[p].op.do = "upsert" /\ job[p].op.rule.name \notin raced) =>
        Named(job[p].op.rule.name) = IF job[p].rule = None THEN {} ELSE {job[p].rule}

Stands(p) ==
    (pc[p] = "log" /\ job[p].op.do = "upsert" /\ job[p].op.rule.name \notin raced) =>
        Standing(job[p].op.rule.name, rules) = {<<job[p].rule, job[p].op.rule>>}

\* A name nobody raced for belongs to one rule at most.
NamesUnique == \A i, j \in DOMAIN rules :
    (rules[i].name = rules[j].name /\ rules[i].name \notin raced) => i = j

UpsertInv == NamesUnique /\ \A p \in Procs : FoundStands(p) /\ Stands(p)

\* Names that were raced for stay so.
LEMMA RacedGrows ==
  ASSUME Watched
  PROVE  raced \subseteq raced'
  BY DEF Watched

\* What stands under a name tells which rules have it.
LEMMA StandingNamed ==
  ASSUME NEW n, Standing(n, rules') = Standing(n, rules)
  PROVE  Named(n)' = Named(n)
<1>1. \A i \in Named(n) : <<i, rules[i]>> \in Standing(n, rules)
  BY DEF Named, Standing
<1>2. \A x \in Standing(n, rules) : x[1] \in Named(n)
  BY DEF Named, Standing
<1>3. \A i \in Named(n)' : <<i, rules'[i]>> \in Standing(n, rules')
  BY DEF Named, Standing
<1>4. \A x \in Standing(n, rules') : x[1] \in Named(n)'
  BY DEF Named, Standing
<1>5. ASSUME NEW i \in Named(n) PROVE i \in Named(n)'
  <2>1. <<i, rules[i]>>[1] \in Named(n)'
    BY <1>1, <1>4
  <2> QED
    BY <2>1
<1>6. ASSUME NEW i \in Named(n)' PROVE i \in Named(n)
  <2>1. <<i, rules'[i]>>[1] \in Named(n)
    BY <1>2, <1>3
  <2> QED
    BY <2>1
<1> QED
  BY <1>5, <1>6

\* Under a running Upsert whose name is not raced for, nothing changes.
LEMMA Undisturbed ==
  ASSUME Watched, NEW p \in Procs, Upserting(p), pc'[p] = pc[p], NEW n,
         n = job[p].op.rule.name, n \notin raced'
  PROVE  Standing(n, rules') = Standing(n, rules)
  BY DEF Watched

\* A handler that does not move keeps what its Upsert found and did.
LEMMA UpsertStays ==
  ASSUME Watched, UpsertInv, NEW p \in Procs, pc'[p] = pc[p], job'[p] = job[p]
  PROVE  FoundStands(p)' /\ Stands(p)'
<1>1. PICK n : n = job[p].op.rule.name
  OBVIOUS
<1>2. ASSUME pc[p] = "write", job[p].op.do = "upsert", n \notin raced'
      PROVE  Named(n)' = IF job[p].rule = None THEN {} ELSE {job[p].rule}
  <2>1. n \notin raced /\ Standing(n, rules') = Standing(n, rules)
    BY <1>1, <1>2, Undisturbed, RacedGrows DEF Upserting
  <2> QED
    BY <1>1, <1>2, <2>1, StandingNamed DEF UpsertInv, FoundStands
<1>3. ASSUME pc[p] = "log", job[p].op.do = "upsert", n \notin raced'
      PROVE  Standing(n, rules') = {<<job[p].rule, job[p].op.rule>>}
  <2>1. n \notin raced /\ Standing(n, rules') = Standing(n, rules)
    BY <1>1, <1>3, Undisturbed, RacedGrows DEF Upserting
  <2> QED
    BY <1>1, <1>3, <2>1 DEF UpsertInv, Stands
<1>4. FoundStands(p)'
  BY <1>1, <1>2 DEF FoundStands
<1>5. Stands(p)'
  BY <1>1, <1>3 DEF Stands
<1> QED
  BY <1>4, <1>5

\* Rules keep their names, or a row is added under a name no row has.
LEMMA NamesStayUnique ==
  ASSUME Watched, NamesUnique,
         \A i \in DOMAIN rules' : i \in DOMAIN rules /\ rules'[i].name = rules[i].name
  PROVE  NamesUnique'
  BY RacedGrows DEF NamesUnique

\* An INSERT under a free name leaves the name with one row.
LEMMA InsertUnique ==
  ASSUME Watched, RulesTyped, NamesUnique, NEW r, IsRule(r), InsertRule(r),
         r.name \notin raced => Named(r.name) = {}
  PROVE  /\ NamesUnique'
         /\ r.name \notin raced => Standing(r.name, rules') = {<<lastRule + 1, r>>}
<1>1. /\ DOMAIN rules' = DOMAIN rules \cup {lastRule + 1} /\ rules'[lastRule + 1] = r
      /\ \A i \in DOMAIN rules : rules'[i] = rules[i]
  BY InsertFacts
<1>2. r.name \notin raced => \A i \in DOMAIN rules : rules[i].name # r.name
  BY DEF Named
<1>3. NamesUnique'
  BY <1>1, <1>2, RacedGrows DEF NamesUnique
<1>4. r.name \notin raced => Standing(r.name, rules') = {<<lastRule + 1, r>>}
  BY <1>1, <1>2 DEF Standing
<1> QED
  BY <1>3, <1>4

\* A row is rewritten under the name it has, or the name was raced for.
LEMMA UpdateUnique ==
  ASSUME Watched, RulesTyped, NamesUnique, NEW r, IsRule(r), NEW i, UpdateRule(i, r),
         r.name \notin raced => Named(r.name) = {i}
  PROVE  /\ NamesUnique'
         /\ r.name \notin raced => Standing(r.name, rules') = {<<i, r>>}
<1>1. /\ DOMAIN rules' = DOMAIN rules
      /\ \A x \in DOMAIN rules : rules'[x] = IF x = i THEN r ELSE rules[x]
  BY UpdateFacts
<1>2. r.name \notin raced =>
         /\ i \in DOMAIN rules /\ rules[i].name = r.name
         /\ \A x \in DOMAIN rules : rules[x].name = r.name => x = i
  BY DEF Named
<1>3. NamesUnique'
  <2> SUFFICES ASSUME NEW x \in DOMAIN rules', NEW y \in DOMAIN rules',
                      rules'[x].name = rules'[y].name, rules'[x].name \notin raced'
               PROVE  x = y
    BY DEF NamesUnique
  <2>1. rules'[x].name \notin raced
    BY RacedGrows
  <2>2. CASE rules'[x].name = r.name
    BY <1>1, <1>2, <2>1, <2>2
  <2>3. CASE rules'[x].name # r.name
    BY <1>1, <2>1, <2>3 DEF NamesUnique
  <2> QED
    BY <2>2, <2>3
<1>4. r.name \notin raced => Standing(r.name, rules') = {<<i, r>>}
  BY <1>1, <1>2 DEF Standing
<1> QED
  BY <1>3, <1>4

\* A handler's step.
LEMMA MoveUpsert ==
  ASSUME Watched, TypeInv, UpsertInv, NEW p \in Procs, Move(p)
  PROVE  UpsertInv'
<1>1. JobStep(p) /\ JobsTyped /\ RulesTyped
  BY MoveJob DEF TypeInv
<1>2. \A q \in Procs \ {p} : FoundStands(q)' /\ Stands(q)'
  BY <1>1, UpsertStays DEF JobStep
<1>3. CASE Upsert(p) /\ Change(p)
  <2>1. PICK r : r = job[p].op.rule
    OBVIOUS
  <2>2. /\ pc[p] = "write" /\ pc'[p] = "log" /\ job[p].op.do = "upsert" /\ job'[p].op = job[p].op
        /\ \/ job[p].rule = None /\ job'[p].rule = lastRule + 1 /\ InsertRule(r)
           \/ job[p].rule # None /\ job'[p].rule = job[p].rule /\ UpdateRule(job[p].rule, r)
    BY <1>1, <1>3, <2>1, ChangeCases, UpsertJob DEF JobStep
  <2>3. IsRule(r)
    BY <1>1, <2>1, <2>2 DEF JobsTyped, IsJob, IsOp
  <2>4. r.name \notin raced => Named(r.name) = IF job[p].rule = None THEN {} ELSE {job[p].rule}
    BY <2>1, <2>2 DEF UpsertInv, FoundStands
  <2>5. /\ NamesUnique'
        /\ r.name \notin raced => Standing(r.name, rules') = {<<job'[p].rule, r>>}
    <3>1. CASE job[p].rule = None
      BY <1>1, <2>2, <2>3, <2>4, <3>1, InsertUnique DEF UpsertInv
    <3>2. CASE job[p].rule # None
      <4>1. PICK i : i = job[p].rule
        OBVIOUS
      <4>2. UpdateRule(i, r) /\ (r.name \notin raced => Named(r.name) = {i}) /\ job'[p].rule = i
        BY <2>2, <2>4, <3>2, <4>1
      <4> QED
        BY <1>1, <2>3, <4>2, UpdateUnique DEF UpsertInv
    <3> QED
      BY <3>1, <3>2
  <2>6. FoundStands(p)'
    BY <2>2 DEF FoundStands
  <2>7. Stands(p)'
    BY <2>1, <2>2, <2>5, RacedGrows DEF Stands
  <2> QED
    BY <1>2, <2>5, <2>6, <2>7 DEF UpsertInv
<1>4. CASE ~(Upsert(p) /\ Change(p))
  <2>1. NamesUnique'
    <3>1. Change(p) => SetEnabled(p) \/ Delete(p) \/ UNCHANGED rules
      BY <1>4, ChangeCases
    <3>2. \A i \in DOMAIN rules' : i \in DOMAIN rules /\ rules'[i].name = rules[i].name
      BY <1>1, <3>1, MoveFrame, SwitchFacts, DeleteFacts DEF tables
    <3> QED
      BY <3>2, NamesStayUnique DEF UpsertInv
  <2>2. CASE Find(p)
    <3>1. PICK n, i : n = job[p].op.rule.name /\ i = job'[p].rule
      OBVIOUS
    <3>2. /\ pc'[p] = "write" /\ i \in GetByName(n) /\ job'[p].op = job[p].op
      BY <1>1, <2>2, <3>1, FindJob DEF JobStep
    <3>3. UNCHANGED rules
      BY <2>2 DEF Find, tables
    <3>4. ASSUME n \notin raced
          PROVE  Named(n) = IF i = None THEN {} ELSE {i}
      <4>1. None \notin Named(n)
        BY <1>1, GateAssumption DEF Named, RulesTyped
      <4>2. \A x, y \in Named(n) : x = y
        BY <3>4 DEF UpsertInv, NamesUnique, Named
      <4> QED
        BY <3>2, <4>1, <4>2 DEF GetByName
    <3>5. Named(n)' = Named(n)
      BY <3>3 DEF Named
    <3>6. FoundStands(p)'
      BY <3>1, <3>2, <3>4, <3>5, RacedGrows DEF FoundStands
    <3> QED
      BY <1>2, <2>1, <3>2, <3>6 DEF UpsertInv, Stands
  <2>3. CASE ~Find(p)
    <3>1. ~(pc'[p] \in {"write", "log"} /\ job'[p].op.do = "upsert")
      <4>1. CASE Arrive(p) \/ Lookup(p) \/ Memberships(p) \/ Decide(p)
        BY <1>1, <4>1, ArriveJob, LookupJob, MembershipsJob, DecideJob
      <4>2. CASE Guard(p)
        <5>1. job[p].op.do = "upsert" => First(job[p].op) = "find"
          BY DEF First
        <5> QED
          BY <1>1, <4>2, <5>1, GuardJob
      <4>3. CASE Change(p)
        BY <1>1, <1>4, <4>3, ChangeJob DEF JobStep
      <4>4. CASE Emit(p)
        BY <1>1, <4>4, EmitJob
      <4> QED
        BY <2>3, <4>1, <4>2, <4>3, <4>4 DEF Move
    <3> QED
      BY <1>2, <2>1, <3>1 DEF UpsertInv, FoundStands, Stands
  <2> QED
    BY <2>2, <2>3
<1> QED
  BY <1>3, <1>4

\* main, at the start: the rule of the file goes where its name is, or is new.
LEMMA BootUpsert ==
  ASSUME Watched, TypeInv, UpsertInv, Boot
  PROVE  UpsertInv'
<1>1. UNCHANGED <<pc, job>> /\ SyncYAML /\ RulesTyped
  BY DEF Boot, TypeInv
<1>2. \A p \in Procs : FoundStands(p)' /\ Stands(p)'
  BY <1>1, UpsertStays
<1>3. CASE yaml = None
  <2>1. UNCHANGED rules
    BY <1>1, <1>3 DEF SyncYAML
  <2> QED
    BY <1>2, <2>1, NamesStayUnique DEF UpsertInv
<1>4. CASE yaml # None
  <2>1. IsRule(yaml)
    BY <1>1, <1>4 DEF RulesTyped
  <2>2. PICK i \in GetByName(yaml.name) :
           IF i = None THEN InsertRule(yaml) ELSE UpdateRule(i, yaml)
    BY <1>1, <1>4 DEF SyncYAML
  <2>3. None \notin Named(yaml.name)
    BY <1>1, GateAssumption DEF Named, RulesTyped
  <2>4. yaml.name \notin raced => \A x, y \in Named(yaml.name) : x = y
    BY DEF UpsertInv, NamesUnique, Named
  <2>5. yaml.name \notin raced => Named(yaml.name) = IF i = None THEN {} ELSE {i}
    BY <2>2, <2>3, <2>4 DEF GetByName
  <2>6. CASE i = None
    BY <1>1, <1>2, <2>1, <2>2, <2>5, <2>6, InsertUnique DEF UpsertInv
  <2>7. CASE i # None
    BY <1>1, <1>2, <2>1, <2>2, <2>5, <2>7, UpdateUnique DEF UpsertInv
  <2> QED
    BY <2>6, <2>7
<1> QED
  BY <1>3, <1>4

\* Every step keeps what an upsert knows of the rows it is about to write.
LEMMA UpsertStep ==
  ASSUME TypeInv, UpsertInv, [Next]_vars
  PROVE  UpsertInv'
<1>1. CASE UNCHANGED vars
  BY <1>1 DEF vars, tables, UpsertInv, NamesUnique, FoundStands, Stands, Named
<1>2. CASE Watched /\ Quiet
  <2>1. UNCHANGED <<pc, job, rules>>
    BY <1>2, QuietFrame DEF tables
  <2> QED
    BY <1>2, <2>1, UpsertStays, NamesStayUnique DEF UpsertInv
<1>3. CASE Watched /\ (Exit \/ Crash)
  <2>1. UNCHANGED rules /\ \A p \in Procs : pc'[p] = "idle"
    BY <1>3, StopFrame DEF tables
  <2> QED
    BY <1>3, <2>1, NamesStayUnique DEF UpsertInv, FoundStands, Stands
<1> QED
  BY <1>1, <1>2, <1>3, NextCases, MoveUpsert, BootUpsert

\* An Upsert that is about to answer has made the table hold its rule, once, under its
\* name, unless somebody else changed that name while it ran (rule_store.go's Upsert):
\* for any number of rules and of handlers, from a table in which no name is used twice.
THEOREM UpsertStandsHolds == Spec => []UpsertStands
<1>1. Init => UpsertInv
  <2> SUFFICES ASSUME Init PROVE UpsertInv
    OBVIOUS
  <2>1. PICK sc \in Scenarios : rules = sc.rules
    BY DEF Init
  <2>2. IsRuleTable(sc.rules)
    BY ScenarioAssumption
  <2>3. \A p \in Procs : pc[p] = "idle"
    BY DEF Init
  <2> QED
    BY <2>1, <2>2, <2>3 DEF UpsertInv, IsRuleTable, NamesUnique, FoundStands, Stands
<1>2. TypeInv /\ UpsertInv /\ [Next]_vars => UpsertInv'
  BY UpsertStep
<1>3. UpsertInv => UpsertStands
  BY DEF UpsertInv, Stands, UpsertStands
<1> QED
  BY <1>1, <1>2, <1>3, TypesHold, PTL DEF Spec

-----------------------------------------------------------------------------
(* On what grounds a request is let through. *)

AsksAccess(p) == job[p].op.do \in {"read", "ingest"}
Need(p) == IF job[p].op.do = "read" THEN RoleReader ELSE RoleWriter

\* The request is a session's, or its token was found; either way it is a user's.
Known(p) == (job[p].op.token = None \/ job[p].token # None) /\ Caller(p) \in Users

Granted(p) == "public" \in held[p] \/ {"credential", "role"} \subseteq held[p]

\* What was read along the way was a ground when it was read.
GrantInv(p) ==
    /\ pc[p] = "lookup" => job[p].op.token # None
    /\ pc[p] \in {"lookup", "roles"} => job[p].roles = None
    /\ pc[p] = "roles" => Known(p)
    /\ pc[p] \in {"find", "write", "log"} => ~AsksAccess(p)
    /\ (pc[p] # "idle" /\ AsksAccess(p)) =>
          /\ job[p].token # None => "credential" \in held[p]
          /\ job[p].roles # None =>
                /\ Known(p)
                /\ job[p].roles[job[p].op.subject.tenant] >= Need(p) => "role" \in held[p]
    /\ pc[p] = "evaluate" => AsksAccess(p) /\ Granted(p)

\* The three grounds, one by one.
LEMMA GroundsAre ==
  ASSUME NEW p \in Procs, job[p].op # None, AsksAccess(p), NEW G,
         G = Grounds(p, tokens, roles, public, now)
  PROVE  /\ job[p].op.do = "read" /\ job[p].op.subject.tenant \in public => "public" \in G
         /\ job[p].op.token = None => "credential" \in G
         /\ job[p].op.token \in DOMAIN tokens /\ ~Expired(job[p].op.token) => "credential" \in G
         /\ Known(p) /\ (\/ Caller(p) \in Admins
                         \/ roles[Caller(p)][job[p].op.subject.tenant] >= Need(p))
            => "role" \in G
  BY DEF Grounds, AsksAccess, Known, Need, Expired

\* A request that is not over keeps the grounds it has had.
LEMMA HeldGrows ==
  ASSUME Watched, NEW p \in Procs, pc'[p] # "idle"
  PROVE  held'[p] = held[p] \cup Grounds(p, tokens, roles, public, now)
  BY DEF Watched

\* What a request was granted does not depend on what others do.
LEMMA GrantStays ==
  ASSUME Watched, NEW p \in Procs, GrantInv(p), pc'[p] = pc[p], job'[p] = job[p]
  PROVE  GrantInv(p)'
<1>1. CASE pc[p] = "idle"
  BY <1>1 DEF GrantInv
<1>2. CASE pc[p] # "idle"
  <2>1. PICK G : held'[p] = held[p] \cup G
    BY <1>2, HeldGrows
  <2> QED
    BY <1>2, <2>1 DEF GrantInv, Granted, Known, AsksAccess, Need, Caller
<1> QED
  BY <1>1, <1>2

\* The guard lets through whom the invariant knows to have had the grounds.
LEMMA PermittedGranted ==
  ASSUME Watched, JobsTyped, NEW p \in Procs, GrantInv(p), pc[p] = "guard", AsksAccess(p),
         Permitted(p), pc'[p] # "idle"
  PROVE  Granted(p)'
<1>1. PICK G : G = Grounds(p, tokens, roles, public, now)
  OBVIOUS
<1>2. held'[p] = held[p] \cup G
  BY <1>1, HeldGrows
<1> DEFINE t == job[p].op.subject.tenant
           id == Identity(p)
<1>3. job[p].op # None
  BY DEF JobsTyped
<1>4. \/ job[p].op.do = "read" /\ t \in public
      \/ job[p].op.do = "read" /\ CanRead(id, t)
      \/ job[p].op.do = "ingest" /\ CanWrite(id, t)
  BY DEF Permitted, AsksAccess, RequireRead, RequireWrite
<1>5. CASE job[p].op.do = "read" /\ t \in public
  BY <1>1, <1>2, <1>3, <1>5, GroundsAre DEF Granted
<1>6. ASSUME NEW scopes, Can(id, t, scopes, Need(p))
      PROVE  Granted(p)'
  <2>1. id # Anonymous /\ (IsSystemAdmin(id) \/ id.roles[t] >= Need(p))
    BY <1>6 DEF Can
  <2>2. job[p].roles # None
    BY <2>1 DEF Identity
  <2>3. id.user = Caller(p) /\ id.roles = job[p].roles
    BY <2>2 DEF Identity
  <2>4. Known(p) /\ (job[p].roles[t] >= Need(p) => "role" \in held[p])
        /\ (job[p].token # None => "credential" \in held[p])
    BY <2>2 DEF GrantInv
  <2>5. "credential" \in held[p] \cup G
    BY <1>1, <1>3, <2>4, GroundsAre DEF Known
  <2>6. "role" \in held[p] \cup G
    <3>1. CASE IsSystemAdmin(id)
      BY <1>1, <1>3, <2>3, <2>4, <3>1, GroundsAre DEF IsSystemAdmin
    <3>2. CASE id.roles[t] >= Need(p)
      BY <2>3, <2>4, <3>2
    <3> QED
      BY <2>1, <3>1, <3>2
  <2> QED
    BY <1>2, <2>5, <2>6 DEF Granted
<1> HIDE DEF id, t
<1>7. CASE job[p].op.do = "read" /\ CanRead(id, t)
  BY <1>6, <1>7 DEF CanRead, Need
<1>8. CASE job[p].op.do = "ingest" /\ CanWrite(id, t)
  BY <1>6, <1>8 DEF CanWrite, Need
<1> QED
  BY <1>4, <1>5, <1>7, <1>8

\* The steps that authenticate.
LEMMA ArriveGrant ==
  ASSUME JobsTyped, NEW p \in Procs, Arrive(p)
  PROVE  GrantInv(p)'
<1>1. /\ IsJob(job'[p]) /\ pc'[p] \in {"lookup", "roles", "guard"} /\ job'[p].op # None
      /\ job'[p].token = None /\ job'[p].roles = None
      /\ pc'[p] = "roles" => job'[p].op.token = None /\ job'[p].op.user # None
      /\ pc'[p] = "lookup" => job'[p].op.token # None
  BY ArriveJob DEF JobStep
<1>2. job'[p].op.user \in Users \cup {None}
  BY <1>1 DEF IsJob, IsOp
<1>3. pc'[p] = "roles" => Known(p)'
  BY <1>1, <1>2 DEF Known, Caller
<1> QED
  BY <1>1, <1>3 DEF GrantInv

\* The token or session lookup records grounds that were there.
LEMMA LookupGrant ==
  ASSUME Watched, TypeInv, NEW p \in Procs, GrantInv(p), Lookup(p)
  PROVE  GrantInv(p)'
<1>1. JobsTyped /\ TokensTyped
  BY DEF TypeInv
<1>2. PICK G : G = Grounds(p, tokens, roles, public, now)
  OBVIOUS
<1>3. PICK k : k = job[p].op.token
  OBVIOUS
<1>4. /\ pc[p] = "lookup" /\ job[p].op # None /\ job[p].roles = None /\ k # None
      /\ JobStep(p)
  BY <1>1, <1>3, LookupJob DEF JobsTyped, GrantInv
<1>5. CASE pc'[p] = "guard" /\ job'[p] = job[p]
  <2>1. held'[p] = held[p] \cup G
    BY <1>2, <1>5, HeldGrows
  <2> QED
    BY <1>4, <1>5, <2>1 DEF GrantInv, Known, AsksAccess, Need, Caller
<1>6. CASE /\ pc'[p] = "roles" /\ k \in DOMAIN tokens /\ ~Expired(k)
           /\ job'[p].token = k /\ job'[p].says = tokens[k] /\ job'[p].roles = job[p].roles
  <2>1. held'[p] = held[p] \cup G
    BY <1>2, <1>6, HeldGrows
  <2>2. job'[p].op = job[p].op
    BY <1>4, <1>6 DEF JobStep
  <2>3. AsksAccess(p)' => "credential" \in held'[p]
    BY <1>2, <1>3, <1>4, <1>6, <2>1, <2>2, GroundsAre DEF AsksAccess
  <2>4. Known(p)'
    BY <1>1, <1>4, <1>6 DEF Known, Caller, TokensTyped
  <2> QED
    BY <1>4, <1>6, <2>3, <2>4 DEF GrantInv
<1> QED
  BY <1>1, <1>3, <1>5, <1>6, LookupJob

\* The membership query gives roles that were there.
LEMMA MembershipsGrant ==
  ASSUME Watched, JobsTyped, NEW p \in Procs, GrantInv(p), Memberships(p)
  PROVE  GrantInv(p)'
<1>1. PICK G : G = Grounds(p, tokens, roles, public, now)
  OBVIOUS
<1>2. PICK c : c = Caller(p)
  OBVIOUS
<1>3. /\ JobStep(p) /\ pc[p] = "roles" /\ pc'[p] = "guard" /\ job'[p].roles = roles[c]
      /\ job'[p].token = job[p].token /\ job'[p].says = job[p].says /\ job[p].op # None
  BY <1>2, MembershipsJob DEF JobsTyped
<1>4. job'[p].op = job[p].op /\ held'[p] = held[p] \cup G
  BY <1>1, <1>3, HeldGrows DEF JobStep
<1>5. Known(p) /\ Known(p)'
  BY <1>3, <1>4 DEF GrantInv, Known, Caller
<1>6. ASSUME AsksAccess(p)', job'[p].roles[job'[p].op.subject.tenant] >= Need(p)'
      PROVE  "role" \in held'[p]
  <2>1. AsksAccess(p) /\ roles[c][job[p].op.subject.tenant] >= Need(p)
    BY <1>3, <1>4, <1>6 DEF AsksAccess, Need
  <2> QED
    BY <1>1, <1>2, <1>3, <1>4, <1>5, <2>1, GroundsAre
<1>7. AsksAccess(p)' /\ job'[p].token # None => "credential" \in held'[p]
  BY <1>3, <1>4 DEF GrantInv, AsksAccess
<1> QED
  BY <1>3, <1>5, <1>6, <1>7 DEF GrantInv

\* The guard, and what comes after it.
LEMMA GuardGrant ==
  ASSUME Watched, JobsTyped, NEW p \in Procs, GrantInv(p), Guard(p)
  PROVE  GrantInv(p)'
<1>1. pc[p] = "guard"
  BY GuardJob
<1>2. CASE pc'[p] = "idle"
  BY <1>2 DEF GrantInv
<1>3. CASE pc'[p] # "idle"
  <2>1. Permitted(p) /\ pc'[p] = First(job[p].op) /\ job'[p] = job[p]
    BY <1>3, GuardJob
  <2>2. PICK G : held'[p] = held[p] \cup G
    BY <1>3, HeldGrows
  <2>3. CASE AsksAccess(p)
    <3>1. pc'[p] = "evaluate" /\ Granted(p)'
      BY <1>1, <1>3, <2>1, <2>3, PermittedGranted DEF First, AsksAccess
    <3> QED
      BY <1>1, <2>1, <2>2, <2>3, <3>1 DEF GrantInv, Known, AsksAccess, Need, Caller
  <2>4. CASE ~AsksAccess(p)
    <3>1. pc'[p] \in {"find", "write", "log"}
      BY <2>1, <2>4 DEF First, AsksAccess
    <3> QED
      BY <2>1, <2>4, <3>1 DEF GrantInv, AsksAccess
  <2> QED
    BY <2>3, <2>4
<1> QED
  BY <1>2, <1>3

\* No step of a request makes up grounds.
LEMMA MoveGrant ==
  ASSUME Watched, TypeInv, NEW p \in Procs, GrantInv(p), Move(p)
  PROVE  GrantInv(p)'
<1>1. JobsTyped
  BY DEF TypeInv
<1>2. CASE Arrive(p) \/ Lookup(p) \/ Memberships(p) \/ Guard(p)
  BY <1>1, <1>2, ArriveGrant, LookupGrant, MembershipsGrant, GuardGrant
<1>3. CASE Decide(p)
  <2>1. pc'[p] = "idle"
    BY <1>1, <1>3, DecideJob
  <2> QED
    BY <2>1 DEF GrantInv
<1>4. CASE Find(p) \/ Change(p) \/ Emit(p)
  <2>1. /\ JobStep(p) /\ pc[p] \in {"find", "write", "log"}
        /\ pc'[p] \in {"idle", "write", "log"}
    BY <1>1, <1>4, FindJob, ChangeJob, EmitJob
  <2>2. pc'[p] # "idle" => job'[p].op = job[p].op
    BY <2>1 DEF JobStep
  <2> QED
    BY <2>1, <2>2 DEF GrantInv, AsksAccess
<1> QED
  BY <1>2, <1>3, <1>4 DEF Move

\* The invariant holds throughout.
THEOREM GrantsHold == Spec => []\A p \in Procs : GrantInv(p)
<1> DEFINE Inv == \A p \in Procs : GrantInv(p)
<1>1. Init => Inv
  BY DEF Init, GrantInv
<1>2. TypeInv /\ Inv /\ [Next]_vars => Inv'
  <2> SUFFICES ASSUME TypeInv, Inv, [Next]_vars, NEW q \in Procs
               PROVE  GrantInv(q)'
    OBVIOUS
  <2>1. CASE UNCHANGED vars
    BY <2>1 DEF vars, GrantInv, Granted, Known, AsksAccess, Need, Caller
  <2>2. CASE Watched /\ (Quiet \/ Boot)
    <3>1. pc'[q] = pc[q] /\ job'[q] = job[q]
      BY <2>2, QuietFrame DEF Boot
    <3> QED
      BY <2>2, <3>1, GrantStays
  <2>3. CASE Exit \/ Crash
    <3>1. pc'[q] = "idle"
      BY <2>3, StopFrame
    <3> QED
      BY <3>1 DEF GrantInv
  <2>4. ASSUME Watched, NEW p \in Procs, Move(p)
        PROVE  GrantInv(q)'
    <3>1. CASE q = p
      BY <2>4, <3>1, MoveGrant
    <3>2. CASE q # p
      <4>1. pc'[q] = pc[q] /\ job'[q] = job[q]
        BY <2>4, <3>2, MoveJob DEF JobStep, TypeInv
      <4> QED
        BY <2>4, <4>1, GrantStays
    <3> QED
      BY <3>1, <3>2
  <2> QED
    BY <2>1, <2>2, <2>3, <2>4, NextCases
<1> QED
  BY <1>1, <1>2, TypesHold, PTL DEF Spec

\* Whoever gets to the engine had the grounds since the request arrived: the tenant was
\* public, or the credential was good and the user had the role, each at the moment it
\* was read (auth.go, middleware/auth.go); for any number of requests, users, tokens and
\* administrators who change them meanwhile.
THEOREM GrantedOnGroundsHolds == Spec => []GrantedOnGrounds
<1>1. (\A p \in Procs : GrantInv(p)) => GrantedOnGrounds
  BY DEF GrantInv, Granted, GrantedOnGrounds
<1> QED
  BY <1>1, GrantsHold, PTL

-----------------------------------------------------------------------------
(* The engine decides as the table's rules say. *)

\* As long as nothing has changed since it was read, what the refresher read is the
\* table's enabled rules, and the snapshot is one of the orders sort.Slice may give them.
SnapInv ==
    /\ (Running /\ refresher.pc = "refresh" /\ unlisted = None) =>
          refresher.list = Restrict(rules, ListEnabled)
    /\ (Running /\ unseen = None) => snap \in Refreshed(Restrict(rules, ListEnabled))

\* A set of numbers has a least one.
LEMMA Least ==
  ASSUME NEW T \in SUBSET Nat, T # {}
  PROVE  Min(T) \in T /\ \A y \in T : Min(T) <= y
<1>1. PICK R : R = OpToRel(<, Nat)
  BY Zenon
<1>2. IsWellFoundedOn(R, Nat)
  BY <1>1, NatLessThanWellFounded, Zenon
<1>3. PICK x \in T : \A y \in T : ~(<<y, x>> \in R)
  BY <1>2, WFMin
<1>4. \A a, b \in Nat : a < b => <<a, b>> \in R
  BY <1>1 DEF OpToRel
<1>5. \A y \in T : ~(y < x)
  BY <1>3, <1>4
<1>6. \E z \in T : \A y \in T : z <= y
  BY <1>5
<1> QED
  BY <1>6 DEF Min

\* The larger of two numbers.
LEMMA MaxOfTwo ==
  ASSUME NEW a \in Nat, NEW b \in Nat
  PROVE  Max({a, b}) = IF a >= b THEN a ELSE b
<1>1. \E x \in {a, b} : \A y \in {a, b} : x >= y
  OBVIOUS
<1>2. Max({a, b}) \in {a, b} /\ \A y \in {a, b} : Max({a, b}) >= y
  BY <1>1 DEF Max
<1> QED
  BY <1>2

\* An order of all the elements of a set leaves none out.
LEMMA OrderCovers ==
  ASSUME NEW S, IsFiniteSet(S), NEW f \in SetToSeqs(S), NEW x \in S
  PROVE  \E i \in DOMAIN f : f[i] = x
<1> DEFINE D == 1 .. Cardinality(S)
<1>1. f \in [D -> S] /\ \A i, j \in D : i # j => f[i] # f[j]
  BY DEF SetToSeqs
<1>2. Cardinality(S) \in Nat
  BY FS_CardinalityType
<1>3. IsFiniteSet(D) /\ Cardinality(D) = Cardinality(S)
  BY <1>2, FS_Interval
<1>4. f \in Injection(D, S)
  BY <1>1 DEF Injection, IsInjective
<1>5. f \in Surjection(D, S)
  BY <1>3, <1>4, FS_Injection
<1> QED
  BY <1>5 DEF Surjection

\* The weights of the selectors never add up to that of the next stronger one.
LEMMA OutranksComesFirst ==
  ASSUME NEW r, NEW q, Outranks(r, q)
  PROVE  Before(r, q)
<1>1. \A x : Selectors(x)[1] = x.version /\ Selectors(x)[2] = x.package
             /\ Selectors(x)[3] = x.tenant /\ Selectors(x)[4] = x.format
  BY DEF Selectors
<1>2. CASE /\ \A i \in 1 .. 4 : (Selectors(r)[i] = None) = (Selectors(q)[i] = None)
           /\ r.priority < q.priority
  <2>1. /\ (r.version = None) = (q.version = None) /\ (r.package = None) = (q.package = None)
        /\ (r.tenant = None) = (q.tenant = None) /\ (r.format = None) = (q.format = None)
    BY <1>1, <1>2
  <2> QED
    BY <1>2, <2>1 DEF Before, Specificity, Weight
<1>3. ASSUME NEW i \in 1 .. 4, Selectors(r)[i] # None, Selectors(q)[i] = None,
             \A j \in 1 .. (i - 1) : (Selectors(r)[j] = None) = (Selectors(q)[j] = None)
      PROVE  Before(r, q)
  <2>1. CASE i = 1
    BY <1>1, <1>3, <2>1 DEF Before, Specificity, Weight
  <2>2. CASE i = 2
    <3>1. (r.version = None) = (q.version = None)
      BY <1>1, <1>3, <2>2
    <3> QED
      BY <1>1, <1>3, <2>2, <3>1 DEF Before, Specificity, Weight
  <2>3. CASE i = 3
    <3>1. (r.version = None) = (q.version = None) /\ (r.package = None) = (q.package = None)
      BY <1>1, <1>3, <2>3
    <3> QED
      BY <1>1, <1>3, <2>3, <3>1 DEF Before, Specificity, Weight
  <2>4. CASE i = 4
    <3>1. /\ (r.version = None) = (q.version = None) /\ (r.package = None) = (q.package = None)
          /\ (r.tenant = None) = (q.tenant = None)
      BY <1>1, <1>3, <2>4
    <3> QED
      BY <1>1, <1>3, <2>4, <3>1 DEF Before, Specificity, Weight
  <2> QED
    BY <2>1, <2>2, <2>3, <2>4
<1> QED
  BY <1>2, <1>3 DEF Outranks

\* The order of rules is strict.
LEMMA NotBeforeItself ==
  ASSUME NEW r, IsRule(r)
  PROVE  ~Before(r, r)
<1>1. Specificity(r) \in Nat
  BY DEF Specificity, Weight
<1> QED
  BY <1>1 DEF Before, IsRule

\* The rules of one kind as the snapshot has them: all of the table's enabled ones, and
\* none before one that comes first.
Ordered(rs, table, kind) ==
    /\ DOMAIN rs \subseteq Nat
    /\ \A x \in DOMAIN rs : /\ rs[x][1] \in DOMAIN table
                            /\ table[rs[x][1]].enabled /\ table[rs[x][1]].kind = kind
                            /\ rs[x][2] = table[rs[x][1]]
    /\ \A i \in DOMAIN table : table[i].enabled /\ table[i].kind = kind =>
          \E x \in DOMAIN rs : rs[x][1] = i
    /\ \A x, y \in DOMAIN rs : x < y => ~Before(rs[y][2], rs[x][2])

\* A snapshot holds the enabled rules of a kind in cascade order.
LEMMA RefreshedIsOrdered ==
  ASSUME NEW table, IsFiniteSet(DOMAIN table),
         NEW list, list = Restrict(table, {i \in DOMAIN table : table[i].enabled}),
         NEW sn \in Refreshed(list), NEW k \in {Kinds[1], Kinds[2]}
  PROVE  Ordered(sn[k], table, k)
<1> DEFINE ids == {i \in DOMAIN list : list[i].kind = k}
<1>1. PICK o : /\ sn = [h \in {Kinds[1], Kinds[2]} |->
                         [x \in DOMAIN o[h] |-> <<o[h][x], list[o[h][x]]>>]]
               /\ o[k] \in SortRules(list, ids)
  BY DEF Refreshed
<1>2. PICK f : f = o[k]
  OBVIOUS
<1>3. f \in SetToSeqs(ids) /\ \A i, j \in DOMAIN f : i < j => ~Before(list[f[j]], list[f[i]])
  BY <1>1, <1>2 DEF SortRules
<1>4. PICK rs : rs = sn[k] /\ rs = [x \in DOMAIN f |-> <<f[x], list[f[x]]>>]
  BY <1>1, <1>2
<1>5. DOMAIN f = 1 .. Cardinality(ids) /\ \A x \in DOMAIN f : f[x] \in ids
  BY <1>3 DEF SetToSeqs
<1>6. \A i : i \in ids <=> i \in DOMAIN table /\ table[i].enabled /\ table[i].kind = k
  BY DEF Restrict
<1>7. \A i \in ids : list[i] = table[i]
  BY DEF Restrict
<1>8. IsFiniteSet(ids)
  <2>1. ids \in SUBSET (DOMAIN table)
    BY <1>6
  <2> QED
    BY <2>1, FS_Subset
<1> HIDE DEF ids
<1>9. \A i \in ids : \E x \in DOMAIN f : f[x] = i
  BY <1>3, <1>8, OrderCovers
<1>10. DOMAIN rs = DOMAIN f /\ \A x \in DOMAIN rs : rs[x][1] = f[x] /\ rs[x][2] = list[f[x]]
  BY <1>4
<1>11. DOMAIN rs \subseteq Nat
  <2>1. Cardinality(ids) \in Nat
    BY <1>8, FS_CardinalityType
  <2> QED
    BY <1>5, <1>10, <2>1
<1>12. ASSUME NEW x \in DOMAIN rs, NEW y \in DOMAIN rs, x < y
       PROVE  ~Before(rs[y][2], rs[x][2])
  BY <1>3, <1>10, <1>12
<1> QED
  BY <1>4, <1>5, <1>6, <1>7, <1>9, <1>10, <1>11, <1>12 DEF Ordered

\* The first rule that matches is one no applicable rule outranks.
LEMMA WinnerIsBest ==
  ASSUME NEW table, NEW kind, NEW s, NEW t, NEW rs, Ordered(rs, table, kind),
         \A i \in DOMAIN table : IsRule(table[i])
  PROVE  EvaluateKind(rs, kind, s, t).decision \in Verdicts(table, kind, s, t)
<1> DEFINE matched == {x \in DOMAIN rs : Matches(rs[x][2], s, t)}
           live == Applicable(table, kind, s, t)
<1>1. \A x \in matched : rs[x][1] \in live /\ rs[x][2] = table[rs[x][1]]
  BY DEF Ordered, Applicable
<1>2. \A i \in live : \E x \in matched : rs[x][1] = i
  BY DEF Ordered, Applicable
<1>3. CASE matched = {}
  <2>1. live = {}
    BY <1>2, <1>3
  <2>2. EvaluateKind(rs, kind, s, t).decision = "allow"
    BY <1>3 DEF EvaluateKind, Allowed
  <2> QED
    BY <2>1, <2>2 DEF Verdicts
<1>4. CASE matched # {}
  <2>1. PICK m : m = Min(matched)
    OBVIOUS
  <2>2. m \in matched /\ \A y \in matched : m <= y
    BY <1>4, <2>1, Least DEF Ordered
  <2>3. PICK w : w = rs[m][1]
    OBVIOUS
  <2>4. w \in live /\ rs[m][2] = table[w] /\ w \in DOMAIN table
    BY <1>1, <2>2, <2>3 DEF Applicable
  <2>5. EvaluateKind(rs, kind, s, t).decision = Verdict(kind, table[w], s)
    BY <1>4, <2>1, <2>4 DEF EvaluateKind
  <2>6. ASSUME NEW j \in live
        PROVE  ~Outranks(table[j], table[w])
    <3>1. PICK y \in matched : rs[y][1] = j
      BY <1>2
    <3>2. rs[y][2] = table[j] /\ m <= y /\ m \in Nat /\ y \in Nat
          /\ m \in DOMAIN rs /\ y \in DOMAIN rs
      BY <1>1, <2>2, <3>1 DEF Ordered
    <3>3. CASE m = y
      BY <2>3, <2>4, <3>1, <3>3, NotBeforeItself, OutranksComesFirst
    <3>4. CASE m < y
      <4>1. ~Before(rs[y][2], rs[m][2])
        BY <3>2, <3>4 DEF Ordered
      <4> QED
        BY <2>4, <3>2, <4>1, OutranksComesFirst
    <3> QED
      BY <3>2, <3>3, <3>4
  <2> HIDE DEF live
  <2>7. Verdict(kind, table[w], s) \in
           {Verdict(kind, table[i], s) : i \in {x \in live : \A j \in live : ~Outranks(table[j], table[x])}}
    BY <2>4, <2>6
  <2>8. live # {}
    BY <2>4
  <2> QED
    BY <2>5, <2>7, <2>8 DEF Verdicts, live
<1> QED
  BY <1>3, <1>4

FourDecisions == {"allow", "warn", "quarantine", "deny"}

\* An evaluator answers with one of the four decisions.
LEMMA VerdictIsDecision ==
  ASSUME NEW table, NEW kind, NEW s, NEW t
  PROVE  Verdicts(table, kind, s, t) \subseteq FourDecisions
<1>1. \A a : DecisionFromAction(a) \in FourDecisions
  BY DEF DecisionFromAction, FourDecisions
<1>2. \A r : HandleUnknown(r) \in FourDecisions
  BY <1>1 DEF HandleUnknown, FourDecisions
<1>3. \A r : Verdict(kind, r, s) \in FourDecisions
  BY <1>1, <1>2 DEF Verdict, CooldownVerdict, LicenseVerdict, FourDecisions
<1> QED
  BY <1>3 DEF Verdicts, FourDecisions

\* The severities of the four decisions.
LEMMA SeverityOf ==
  /\ Severity("allow") = 0 /\ Severity("warn") = 1
  /\ Severity("quarantine") = 2 /\ Severity("deny") = 3
  BY DEF Severity

\* The chain gives the strictest of the two winners' verdicts.
LEMMA ChainIsStrictest ==
  ASSUME NEW table, NEW sn, NEW s, NEW t,
         EvaluateKind(sn["cooldown"], "cooldown", s, t).decision
            \in Verdicts(table, "cooldown", s, t),
         EvaluateKind(sn["license_allow"], "license_allow", s, t).decision
            \in Verdicts(table, "license_allow", s, t)
  PROVE  Evaluate(sn, s, t).decision \in Decisions(table, s, t)
<1>1. PICK a : a = EvaluateKind(sn["cooldown"], "cooldown", s, t)
  OBVIOUS
<1>2. PICK b : b = EvaluateKind(sn["license_allow"], "license_allow", s, t)
  OBVIOUS
<1>3. PICK da \in FourDecisions : da = a.decision
  BY <1>1, VerdictIsDecision
<1>4. PICK db \in FourDecisions : db = b.decision
  BY <1>2, VerdictIsDecision
<1>5. Severity(da) \in Nat /\ Severity(db) \in Nat
  BY SeverityOf DEF FourDecisions
<1>6. Kinds[1] = "cooldown" /\ Kinds[2] = "license_allow"
  BY DEF Kinds
<1>7. PICK first : first = StricterOf(Allowed, a)
  OBVIOUS
<1>8. first.decision = da
  BY <1>3, <1>7, SeverityOf DEF StricterOf, Allowed, FourDecisions
<1>9. Evaluate(sn, s, t) = IF first.decision = "deny" THEN first ELSE StricterOf(first, b)
  BY <1>1, <1>2, <1>6, <1>7 DEF Evaluate
<1>10. PICK d : d = Evaluate(sn, s, t).decision
  OBVIOUS
<1>11. d = IF da # "deny" /\ Severity(db) > Severity(da) THEN db ELSE da
  BY <1>4, <1>8, <1>9, <1>10 DEF StricterOf
<1>12. Severity(d) = Max({Severity(da), Severity(db)})
  <2>1. Max({Severity(da), Severity(db)}) =
           IF Severity(da) >= Severity(db) THEN Severity(da) ELSE Severity(db)
    BY <1>5, MaxOfTwo
  <2>2. da = "deny" => Severity(da) >= Severity(db)
    BY SeverityOf DEF FourDecisions
  <2> QED
    BY <1>5, <1>11, <2>1, <2>2
<1>13. d \in {da, db} /\ d \in FourDecisions
  BY <1>11
<1>14. da \in Verdicts(table, "cooldown", s, t) /\ db \in Verdicts(table, "license_allow", s, t)
  BY <1>1, <1>2, <1>3, <1>4
<1> QED
  BY <1>10, <1>12, <1>13, <1>14 DEF Decisions, FourDecisions

\* The snapshot is of the table as long as the table has not changed since it was read.
LEMMA SnapStep ==
  ASSUME ClockInv, SnapInv, [Next]_vars
  PROVE  SnapInv'
<1>1. now # None /\ refresher = [pc |-> refresher.pc, list |-> refresher.list,
                                 due |-> refresher.due, fails |-> refresher.fails]
  BY GateAssumption DEF ClockInv
<1>2. CASE UNCHANGED <<rules, snap, refresher, unlisted, unseen>> /\ (Running' => Running)
  BY <1>2 DEF SnapInv, ListEnabled
<1>3. CASE List
  <2>1. /\ Running /\ refresher.pc = "wait" /\ UNCHANGED <<rules, snap, unseen, phase>>
    BY <1>3 DEF List, tables
  <2>2. CASE refresher' = [refresher EXCEPT !.pc = "refresh", !.list = Restrict(rules, ListEnabled)]
    <3>1. PICK list : list = Restrict(rules, ListEnabled)
      OBVIOUS
    <3>2. refresher' = [pc |-> "refresh", list |-> list, due |-> refresher.due,
                        fails |-> refresher.fails]
      BY <1>1, <2>2, <3>1
    <3> QED
      BY <2>1, <3>1, <3>2 DEF SnapInv, ListEnabled
  <2>3. CASE refresher' = AfterFailedPull
    <3>1. refresher' = [pc |-> refresher.pc, list |-> refresher.list,
                        due |-> now + Interval, fails |-> refresher.fails + 1]
      BY <1>1, <2>3 DEF AfterFailedPull
    <3> QED
      BY <2>1, <3>1 DEF SnapInv, ListEnabled, Running
  <2> QED
    BY <1>3, <2>2, <2>3 DEF List
<1>4. CASE Refresh
  <2>1. /\ Running /\ refresher.pc = "refresh" /\ UNCHANGED <<rules, unlisted>>
        /\ snap' \in Refreshed(refresher.list) /\ unseen' = unlisted
    BY <1>4 DEF Refresh, tables
  <2>2. refresher' = [pc |-> "wait", list |-> None, due |-> now + Interval, fails |-> 0]
    BY <1>1, <1>4 DEF Refresh
  <2> QED
    BY <2>1, <2>2 DEF SnapInv, ListEnabled
<1>5. CASE Drain \/ Write \/ Prune \/ Tick \/ Shutdown \/ Close
  BY <1>2, <1>5 DEF Drain, Write, Prune, Tick, Shutdown, Close, tables, engine, history, world, Running
<1>6. CASE Exit \/ Crash
  BY <1>6, StopFrame DEF SnapInv, Running
<1>7. CASE Boot
  <2>1. /\ snap' \in Refreshed(Restrict(rules', {i \in DOMAIN rules' : rules'[i].enabled}))
        /\ refresher'.pc = "wait"
    BY <1>7 DEF Boot
  <2> QED
    BY <2>1 DEF SnapInv, ListEnabled
<1>8. ASSUME NEW p \in Procs, Move(p), unlisted' = Since(unlisted), unseen' = Since(unseen)
      PROVE  SnapInv'
  <2>1. UNCHANGED <<refresher, snap, phase>>
    BY <1>8, MoveFrame
  <2>2. /\ unlisted' = None => unlisted = None /\ rules' = rules
        /\ unseen' = None => unseen = None /\ rules' = rules
    BY <1>1, <1>8 DEF Since
  <2> QED
    BY <2>1, <2>2 DEF SnapInv, ListEnabled, Running
<1>9. CASE UNCHANGED vars
  BY <1>2, <1>9 DEF vars, tables, engine, history, world, Running
<1> QED
  BY <1>3, <1>4, <1>5, <1>6, <1>7, <1>8, <1>9, NextCases DEF Quiet

\* As long as the table has not changed since it was last read, the engine's decision on
\* every subject is one the table's rules themselves give: per kind a most specific rule,
\* then the lower priority, over the kinds the strictest verdict (engine.go, rule.go and
\* the evaluators); for tables of any size and whatever order sort.Slice leaves ties in.
THEOREM CascadeDecidesHolds == Spec => []CascadeDecides
<1>1. Init => SnapInv
  BY DEF Init, SnapInv, Running
<1>2. ClockInv /\ SnapInv /\ [Next]_vars => SnapInv'
  BY SnapStep
<1>3. RulesTyped /\ SnapInv => CascadeDecides
  <2> SUFFICES ASSUME RulesTyped, SnapInv, Running, unseen = None, NEW s \in Subjects
               PROVE  Evaluate(snap, s, now).decision \in Decisions(rules, s, now)
    BY DEF CascadeDecides
  <2>1. PICK list : list = Restrict(rules, {i \in DOMAIN rules : rules[i].enabled})
    OBVIOUS
  <2>2. snap \in Refreshed(list)
    BY <2>1 DEF SnapInv, ListEnabled
  <2>3. IsFiniteSet(DOMAIN rules)
    <3>1. DOMAIN rules \in SUBSET (1 .. lastRule) /\ IsFiniteSet(1 .. lastRule)
      BY FS_Interval DEF RulesTyped
    <3> QED
      BY <3>1, FS_Subset
  <2>4. Kinds[1] = "cooldown" /\ Kinds[2] = "license_allow"
    BY DEF Kinds
  <2>5. /\ Ordered(snap["cooldown"], rules, "cooldown")
        /\ Ordered(snap["license_allow"], rules, "license_allow")
    BY <2>1, <2>2, <2>3, <2>4, RefreshedIsOrdered
  <2>6. \A i \in DOMAIN rules : IsRule(rules[i])
    BY DEF RulesTyped
  <2>7. /\ EvaluateKind(snap["cooldown"], "cooldown", s, now).decision
              \in Verdicts(rules, "cooldown", s, now)
        /\ EvaluateKind(snap["license_allow"], "license_allow", s, now).decision
              \in Verdicts(rules, "license_allow", s, now)
    BY <2>5, <2>6, WinnerIsBest
  <2> QED
    BY <2>7, ChainIsStrictest
<1> QED
  BY <1>1, <1>2, <1>3, TypesHold, ClockHolds, PTL DEF Spec, TypeInv

-----------------------------------------------------------------------------
(* The audit log. *)

IsEvent(e) ==
    /\ e = [op |-> e.op, tenant |-> e.tenant, rule |-> e.rule, token |-> e.token, at |-> e.at]
    /\ e.tenant \in Tenants \cup {None} /\ e.at \in Int

\* Events on their way to the log.
Pending == writing \cup {queue[i] : i \in DOMAIN queue}

\* The operation numbers the logger has been told of.
Heard(n) == \E x \in Pending \cup rows \cup owed : x.op = n

\* An event owed is, under its number, the one on its way or, but for the foreign keys,
\* the one stored.
Tracked ==
    /\ now \in Nat
    /\ \E S : queue \in Seq(S)
    /\ \A v, w \in writing : v = w
    /\ \A e \in Pending \cup rows \cup owed : IsEvent(e)
    /\ \A e \in owed : \A x \in Pending : x.op = e.op => x = e
    /\ \A e \in owed : \A r \in rows : r.op = e.op => r.at = e.at /\ r.tenant = e.tenant

Lost == {e \in owed : ~Accounted(e)}

Counted ==
    /\ drops \in Nat /\ faulted \in Nat
    /\ IsFiniteSet(Lost) /\ Cardinality(Lost) <= drops + faulted

\* The deletion through the API whose event is already sent.
Told(p) == pc[p] = "write" /\ job[p].op.do = "delete" /\ job[p].op.token # None

\* An operation is carried out once, and its event is sent once.
OpsOnce ==
    /\ \A a, b \in todo : a.n = b.n => a = b
    /\ \A p \in Procs : pc[p] # "idle" => \A a \in todo : a.n # job[p].op.n
    /\ \A p, q \in Procs : (p # q /\ pc[p] # "idle" /\ pc[q] # "idle") =>
                              job[p].op.n # job[q].op.n

Unsaid ==
    /\ \A a \in todo : ~Heard(a.n)
    /\ \A p \in Procs : pc[p] # "idle" /\ ~Told(p) => ~Heard(job[p].op.n)

AuditInv == Tracked /\ Counted /\ OpsOnce /\ Unsaid

-----------------------------------------------------------------------------
(* Counting. *)

\* Nothing more is lost.
LEMMA CountStays ==
  ASSUME Counted, Lost' \subseteq Lost, UNCHANGED <<drops, faulted>>
  PROVE  Counted'
<1>1. IsFiniteSet(Lost') /\ Cardinality(Lost') <= Cardinality(Lost)
  BY FS_Subset DEF Counted
<1>2. Cardinality(Lost') \in Nat /\ Cardinality(Lost) \in Nat
  BY <1>1, FS_CardinalityType DEF Counted
<1> QED
  BY <1>1, <1>2 DEF Counted

\* One event more is lost, and one more is counted.
LEMMA CountOneMore ==
  ASSUME Counted, NEW x, Lost' \subseteq Lost \cup {x},
         drops' \in Nat, faulted' \in Nat, drops' + faulted' = drops + faulted + 1
  PROVE  Counted'
<1>1. PICK L : L = Lost
  OBVIOUS
<1>2. IsFiniteSet(L) /\ Cardinality(L) \in Nat /\ Cardinality(L) <= drops + faulted
  BY <1>1, FS_CardinalityType DEF Counted
<1>3. /\ IsFiniteSet(L \cup {x})
      /\ Cardinality(L \cup {x}) = IF x \in L THEN Cardinality(L) ELSE Cardinality(L) + 1
  BY <1>2, FS_AddElement
<1>4. IsFiniteSet(Lost') /\ Cardinality(Lost') <= Cardinality(L \cup {x})
  BY <1>1, <1>3, FS_Subset
<1>5. Cardinality(Lost') \in Nat
  BY <1>4, FS_CardinalityType
<1>6. drops \in Nat /\ faulted \in Nat
  BY DEF Counted
<1>7. Cardinality(L \cup {x}) \in Nat /\ Cardinality(L \cup {x}) <= Cardinality(L) + 1
  BY <1>2, <1>3
<1>8. Cardinality(Lost') <= drops' + faulted'
  <2>1. PICK m \in Nat : m = Cardinality(Lost')
    BY <1>5
  <2>2. PICK k \in Nat : k = Cardinality(L)
    BY <1>2
  <2>3. PICK j \in Nat : j = Cardinality(L \cup {x})
    BY <1>7
  <2>4. m <= j
    BY <1>4, <2>1, <2>3
  <2>5. j <= k + 1 /\ k <= drops + faulted
    BY <1>2, <1>7, <2>2, <2>3
  <2>6. m <= drops' + faulted'
    <3>1. PICK s \in Nat : s = drops + faulted
      BY <1>6
    <3>2. m <= s + 1
      BY <2>4, <2>5, <3>1
    <3>3. drops' + faulted' = s + 1
      BY <3>1
    <3> QED
      BY <3>2, <3>3
  <2> QED
    BY <2>1, <2>6
<1> QED
  BY <1>4, <1>8 DEF Counted

\* Everything owed is accounted for.
LEMMA CountNone ==
  ASSUME Lost' = {}, drops' \in Nat, faulted' \in Nat
  PROVE  Counted'
  BY FS_EmptySet DEF Counted

-----------------------------------------------------------------------------
(* The steps of the logger. *)

\* No event is sent, taken out of the queue or written: rows may only lose their
\* references and be pruned when their time is over.
Settles ==
    /\ UNCHANGED <<queue, writing, owed, drops, faulted>>
    /\ now' \in Nat /\ now <= now'
    /\ \A r \in rows' : IsEvent(r) /\ \E s \in rows : s.op = r.op /\ s.at = r.at /\ s.tenant = r.tenant
    /\ \A s \in rows : (\E r \in rows' : r.op = s.op) \/ s.at < now - Retention(s)

\* The retention of an event is a number of days.
LEMMA RetentionType ==
  ASSUME NEW e, IsEvent(e)
  PROVE  Retention(e) \in Int
  BY GateAssumption DEF Retention, IsEvent

\* What is accounted for stays so.
LEMMA SettlesAudit ==
  ASSUME Tracked, Counted, Settles
  PROVE  Tracked' /\ Counted' /\ \A n : Heard(n)' => Heard(n)
<1>1. Pending' = Pending
  BY DEF Settles, Pending
<1>2. Tracked'
  BY <1>1 DEF Settles, Tracked
<1>3. ASSUME NEW e \in owed, Accounted(e)
      PROVE  Accounted(e)'
  <2>1. now \in Nat /\ now' \in Nat /\ now <= now' /\ e.at \in Int /\ Retention(e) \in Int
    BY RetentionType DEF Tracked, Settles, IsEvent
  <2>2. CASE \E r \in rows : r.op = e.op
    <3>1. PICK s \in rows : s.op = e.op
      BY <2>2
    <3>2. s.at = e.at /\ Retention(s) = Retention(e)
      BY <3>1 DEF Tracked, Retention
    <3>3. CASE \E r \in rows' : r.op = s.op
      BY <3>1, <3>3 DEF Accounted
    <3>4. CASE s.at < now - Retention(s)
      <4>1. e.at < now' - Retention(e)
        BY <2>1, <3>2, <3>4
      <4> QED
        BY <4>1 DEF Accounted
    <3> QED
      BY <3>3, <3>4 DEF Settles
  <2>3. CASE e.at < now - Retention(e)
    <3>1. e.at < now' - Retention(e)
      BY <2>1, <2>3
    <3> QED
      BY <3>1 DEF Accounted
  <2>4. CASE (\E w \in writing : w.op = e.op) \/ \E i \in DOMAIN queue : queue[i].op = e.op
    BY <2>4 DEF Accounted, Settles
  <2> QED
    BY <1>3, <2>2, <2>3, <2>4 DEF Accounted
<1>4. Lost' \subseteq Lost
  BY <1>3 DEF Lost, Settles
<1>5. Counted'
  BY <1>4, CountStays DEF Settles
<1>6. ASSUME NEW n, Heard(n)' PROVE Heard(n)
  BY <1>1, <1>6 DEF Heard, Settles
<1> QED
  BY <1>2, <1>5, <1>6

\* drain takes the next event in hand.
LEMMA DrainAudit ==
  ASSUME Tracked, Counted, Drain
  PROVE  Tracked' /\ Counted' /\ \A n : Heard(n)' => Heard(n)
<1>1. PICK S : queue \in Seq(S)
  BY DEF Tracked
<1>2. /\ queue # <<>> /\ writing = {} /\ writing' = {Head(queue)} /\ queue' = Tail(queue)
      /\ UNCHANGED <<now, rows, owed, drops, faulted>>
  BY DEF Drain, world
<1>3. /\ Len(queue) \in Nat /\ Len(queue) > 0 /\ DOMAIN queue = 1 .. Len(queue)
      /\ Head(queue) = queue[1] /\ 1 \in DOMAIN queue
      /\ queue' \in Seq(S) /\ DOMAIN queue' = 1 .. (Len(queue) - 1)
      /\ \A i \in DOMAIN queue' : i + 1 \in DOMAIN queue /\ queue'[i] = queue[i + 1]
  BY <1>1, <1>2
<1>4. \A i \in DOMAIN queue : i = 1 \/ (i - 1 \in DOMAIN queue' /\ queue'[i - 1] = queue[i])
  BY <1>3
<1>5. Pending' = Pending
  <2>1. ASSUME NEW x \in Pending PROVE x \in Pending'
    <3>1. PICK i \in DOMAIN queue : x = queue[i]
      BY <1>2 DEF Pending
    <3> QED
      BY <1>2, <1>3, <1>4, <3>1 DEF Pending
  <2>2. ASSUME NEW x \in Pending' PROVE x \in Pending
    BY <1>2, <1>3 DEF Pending
  <2> QED
    BY <2>1, <2>2
<1>6. Tracked'
  BY <1>2, <1>3, <1>5 DEF Tracked
<1>7. ASSUME NEW e \in owed, Accounted(e)
      PROVE  Accounted(e)'
  <2>1. CASE \E i \in DOMAIN queue : queue[i].op = e.op
    BY <1>2, <1>3, <1>4, <2>1 DEF Accounted
  <2> QED
    BY <1>2, <1>7, <2>1 DEF Accounted
<1>8. Lost' \subseteq Lost
  BY <1>2, <1>7 DEF Lost
<1>9. Counted'
  BY <1>2, <1>8, CountStays
<1>10. ASSUME NEW n, Heard(n)' PROVE Heard(n)
  BY <1>2, <1>5, <1>10 DEF Heard
<1> QED
  BY <1>6, <1>9, <1>10

\* The INSERT stores the event, is refused, or fails and is counted.
LEMMA WriteAudit ==
  ASSUME Tracked, Counted, Write
  PROVE  Tracked' /\ Counted' /\ \A n : Heard(n)' => Heard(n)
<1>1. PICK w \in writing :
        /\ writing' = {}
        /\ \/ rows' = rows \cup {w} /\ UNCHANGED <<faulted, owed>>
           \/ owed' = owed \ {w} /\ UNCHANGED <<faulted, rows>>
           \/ faulted' = faulted + 1 /\ UNCHANGED <<rows, owed>>
        /\ UNCHANGED <<queue, drops, now>>
  BY DEF Write
<1>2. /\ Pending' \subseteq Pending /\ w \in Pending /\ owed' \subseteq owed
      /\ rows' \subseteq rows \cup {w} /\ rows \subseteq rows'
  BY <1>1 DEF Pending
<1>3. \A e \in owed : w.op = e.op => w = e
  BY <1>2 DEF Tracked
<1>4. Tracked'
  <2>1. now' \in Nat /\ (\E S : queue' \in Seq(S)) /\ \A u, v \in writing' : u = v
    BY <1>1 DEF Tracked
  <2>2. \A e \in Pending' \cup rows' \cup owed' : IsEvent(e)
    BY <1>2 DEF Tracked
  <2>3. \A e \in owed' : \A x \in Pending' : x.op = e.op => x = e
    BY <1>2 DEF Tracked
  <2>4. \A e \in owed' : \A r \in rows' : r.op = e.op => r.at = e.at /\ r.tenant = e.tenant
    BY <1>2, <1>3 DEF Tracked
  <2> QED
    BY <2>1, <2>2, <2>3, <2>4 DEF Tracked
<1>5. ASSUME NEW e \in owed', Accounted(e), e # w
      PROVE  Accounted(e)'
  <2>1. ~ \E v \in writing : v.op = e.op
    BY <1>2, <1>3, <1>5 DEF Tracked
  <2> QED
    BY <1>1, <1>2, <1>5, <2>1 DEF Accounted
<1>6. ASSUME NEW n, Heard(n)' PROVE Heard(n)
  BY <1>2, <1>6 DEF Heard
<1>7. Lost' \subseteq Lost \cup {w}
  BY <1>2, <1>5 DEF Lost
<1>8. CASE rows' = rows \cup {w} /\ UNCHANGED <<faulted, owed>>
  <2>1. Accounted(w)'
    BY <1>8 DEF Accounted
  <2>2. Lost' \subseteq Lost
    BY <1>7, <2>1 DEF Lost
  <2> QED
    BY <1>1, <1>4, <1>6, <1>8, <2>2, CountStays
<1>9. CASE owed' = owed \ {w} /\ UNCHANGED <<faulted, rows>>
  <2>1. Lost' \subseteq Lost
    BY <1>7, <1>9 DEF Lost
  <2> QED
    BY <1>1, <1>4, <1>6, <1>9, <2>1, CountStays
<1>10. CASE faulted' = faulted + 1 /\ UNCHANGED <<rows, owed>>
  <2>1. drops' \in Nat /\ faulted' \in Nat /\ drops' + faulted' = drops + faulted + 1
    BY <1>1, <1>10 DEF Counted
  <2> QED
    BY <1>4, <1>6, <1>7, <2>1, CountOneMore
<1> QED
  BY <1>1, <1>8, <1>9, <1>10

\* An event is sent: it is in the queue, or the drop is counted.
LEMMA LogAudit ==
  ASSUME Tracked, Counted, NEW e, IsEvent(e), ~Heard(e.op), Log(e),
         owed' = owed \cup {e} \/ owed' = owed, UNCHANGED <<rows, now, faulted>>
  PROVE  Tracked' /\ Counted' /\ \A n : Heard(n)' => Heard(n) \/ n = e.op
<1>1. PICK S : queue \in Seq(S)
  BY DEF Tracked
<1>2. \A x \in Pending \cup rows \cup owed : x.op # e.op
  BY DEF Heard
<1>3. CASE queue' = Append(queue, e) /\ UNCHANGED <<drops, writing>>
  <2>1. queue \in Seq(S \cup {e}) /\ e \in S \cup {e}
    BY <1>1
  <2>2. /\ queue' \in Seq(S \cup {e}) /\ Len(queue) \in Nat
        /\ DOMAIN queue = 1 .. Len(queue) /\ DOMAIN queue' = 1 .. (Len(queue) + 1)
        /\ \A i \in DOMAIN queue : i \in DOMAIN queue' /\ queue'[i] = queue[i]
        /\ Len(queue) + 1 \in DOMAIN queue' /\ queue'[Len(queue) + 1] = e
        /\ \A i \in DOMAIN queue' : i = Len(queue) + 1 \/ i \in DOMAIN queue
    BY <1>3, <2>1
  <2>3. Pending' = Pending \cup {e}
    <3>1. ASSUME NEW x \in Pending \cup {e} PROVE x \in Pending'
      BY <1>3, <2>2 DEF Pending
    <3>2. ASSUME NEW x \in Pending' PROVE x \in Pending \cup {e}
      BY <1>3, <2>2 DEF Pending
    <3> QED
      BY <3>1, <3>2
  <2>4. Tracked'
    <3>1. now' \in Nat /\ (\E T : queue' \in Seq(T)) /\ \A u, v \in writing' : u = v
      BY <1>3, <2>2 DEF Tracked
    <3>2. \A x \in Pending' \cup rows' \cup owed' : IsEvent(x)
      BY <2>3 DEF Tracked
    <3>3. \A o \in owed' : \A x \in Pending' : x.op = o.op => x = o
      BY <1>2, <2>3 DEF Tracked
    <3>4. \A o \in owed' : \A r \in rows' : r.op = o.op => r.at = o.at /\ r.tenant = o.tenant
      BY <1>2 DEF Tracked
    <3> QED
      BY <3>1, <3>2, <3>3, <3>4 DEF Tracked
  <2>5. Accounted(e)'
    BY <2>2 DEF Accounted
  <2>6. \A o \in owed : Accounted(o) => Accounted(o)'
    BY <1>3, <2>2 DEF Accounted
  <2>7. Lost' \subseteq Lost
    BY <2>5, <2>6 DEF Lost
  <2>8. ASSUME NEW n, Heard(n)' PROVE Heard(n) \/ n = e.op
    BY <2>3, <2>8 DEF Heard
  <2> QED
    BY <1>3, <2>4, <2>7, <2>8, CountStays
<1>4. CASE drops' = drops + 1 /\ UNCHANGED <<queue, writing>>
  <2>1. Pending' = Pending
    BY <1>4 DEF Pending
  <2>2. Tracked'
    <3>1. now' \in Nat /\ (\E T : queue' \in Seq(T)) /\ \A u, v \in writing' : u = v
      BY <1>4 DEF Tracked
    <3>2. \A x \in Pending' \cup rows' \cup owed' : IsEvent(x)
      BY <2>1 DEF Tracked
    <3>3. \A o \in owed' : \A x \in Pending' : x.op = o.op => x = o
      BY <1>2, <2>1 DEF Tracked
    <3>4. \A o \in owed' : \A r \in rows' : r.op = o.op => r.at = o.at /\ r.tenant = o.tenant
      BY <1>2 DEF Tracked
    <3> QED
      BY <3>1, <3>2, <3>3, <3>4 DEF Tracked
  <2>3. \A o \in owed : Accounted(o) => Accounted(o)'
    BY <1>4 DEF Accounted
  <2>4. Lost' \subseteq Lost \cup {e}
    BY <2>3 DEF Lost
  <2>5. drops' \in Nat /\ faulted' \in Nat /\ drops' + faulted' = drops + faulted + 1
    BY <1>4 DEF Counted
  <2>6. Counted'
    BY <2>4, <2>5, CountOneMore
  <2>7. ASSUME NEW n, Heard(n)' PROVE Heard(n) \/ n = e.op
    BY <2>1, <2>7 DEF Heard
  <2> QED
    BY <2>2, <2>6, <2>7
<1> QED
  BY <1>3, <1>4 DEF Log

\* What a crash leaves, and what the next start goes on with, is what is stored.
LEMMA RestartAudit ==
  ASSUME Tracked, Counted, Crash \/ Boot
  PROVE  Tracked' /\ Counted' /\ \A n : Heard(n)' => Heard(n)
<1>1. /\ owed' = Stored(owed) /\ UNCHANGED <<rows, now>>
      /\ \/ queue' = <<>> /\ writing' = {}
         \/ UNCHANGED <<queue, writing>>
      /\ \/ UNCHANGED <<drops, faulted>>
         \/ drops' = 0 /\ faulted' = 0
  BY DEF Crash, Stop, Boot
<1>2. Pending' \subseteq Pending /\ owed' \subseteq owed
  <2>1. CASE queue' = <<>> /\ writing' = {}
    <3>1. DOMAIN queue' = {}
      BY <2>1
    <3> QED
      BY <1>1, <2>1, <3>1 DEF Pending, Stored
  <2>2. CASE UNCHANGED <<queue, writing>>
    BY <1>1, <2>2 DEF Pending, Stored
  <2> QED
    BY <1>1, <2>1, <2>2
<1>3. \E S : queue' \in Seq(S)
  <2>1. <<>> \in Seq({})
    OBVIOUS
  <2> QED
    BY <1>1, <2>1 DEF Tracked
<1>4. Tracked'
  BY <1>1, <1>2, <1>3 DEF Tracked
<1>5. \A e \in owed' : Accounted(e)'
  BY <1>1 DEF Stored, Accounted
<1>6. Lost' = {}
  BY <1>5 DEF Lost
<1>7. Counted'
  BY <1>1, <1>6, CountNone DEF Counted
<1>8. ASSUME NEW n, Heard(n)' PROVE Heard(n)
  BY <1>1, <1>2, <1>8 DEF Heard
<1> QED
  BY <1>4, <1>7, <1>8

-----------------------------------------------------------------------------
(* The steps of the handlers. *)

\* What p's step does to the logger when it sends an event: that ends the request, or
\* leaves only the deletion to be done.
Says(p, e) ==
    /\ IsEvent(e) /\ e.op = job[p].op.n /\ pc[p] \in {"evaluate", "log"}
    /\ Log(e)
    /\ owed' = owed \cup {e} \/ owed' = owed
    /\ UNCHANGED <<rows, now, faulted>>
    /\ pc'[p] = "idle" \/ Told(p)'

\* Steps that leave the log alone.
LEMMA Untouched ==
  ASSUME Tracked, UNCHANGED <<rows, queue, writing, owed, drops, faulted>>,
         now' = now \/ now' = now + 1
  PROVE  Settles
  BY DEF Tracked, Settles

\* ON DELETE SET NULL changes nothing else of an event.
LEMMA ForgetSettles ==
  ASSUME Tracked, UNCHANGED <<queue, writing, owed, drops, faulted, now>>, NEW i,
         rows' = ForgetRule(i) \/ rows' = ForgetToken(i)
  PROVE  Settles
<1>1. ASSUME NEW e \in rows
      PROVE  /\ IsEvent([e EXCEPT !.rule = None]) /\ IsEvent([e EXCEPT !.token = None])
             /\ [e EXCEPT !.rule = None].op = e.op /\ [e EXCEPT !.token = None].op = e.op
             /\ [e EXCEPT !.rule = None].at = e.at /\ [e EXCEPT !.token = None].at = e.at
             /\ [e EXCEPT !.rule = None].tenant = e.tenant
             /\ [e EXCEPT !.token = None].tenant = e.tenant
  <2>1. IsEvent(e)
    BY DEF Tracked
  <2>2. /\ [e EXCEPT !.rule = None] = [op |-> e.op, tenant |-> e.tenant, rule |-> None,
                                       token |-> e.token, at |-> e.at]
        /\ [e EXCEPT !.token = None] = [op |-> e.op, tenant |-> e.tenant, rule |-> e.rule,
                                        token |-> None, at |-> e.at]
    BY <2>1 DEF IsEvent
  <2> QED
    BY <2>1, <2>2 DEF IsEvent
<1>2. PICK F : /\ rows' = {F[e] : e \in rows}
               /\ \A e \in rows : F[e] = e \/ F[e] = [e EXCEPT !.rule = None]
                                  \/ F[e] = [e EXCEPT !.token = None]
  <2>1. CASE rows' = ForgetRule(i)
    <3> DEFINE F == [e \in rows |-> IF e.rule = i THEN [e EXCEPT !.rule = None] ELSE e]
    <3>1. rows' = {F[e] : e \in rows}
      BY <2>1 DEF ForgetRule
    <3> QED
      BY <3>1, Zenon
  <2>2. CASE rows' = ForgetToken(i)
    <3> DEFINE F == [e \in rows |-> IF e.token = i THEN [e EXCEPT !.token = None] ELSE e]
    <3>1. rows' = {F[e] : e \in rows}
      BY <2>2 DEF ForgetToken
    <3> QED
      BY <3>1, Zenon
  <2> QED
    BY <2>1, <2>2
<1>3. \A e \in rows : /\ IsEvent(F[e]) /\ F[e].op = e.op /\ F[e].at = e.at
                      /\ F[e].tenant = e.tenant
  <2> SUFFICES ASSUME NEW e \in rows
               PROVE  IsEvent(F[e]) /\ F[e].op = e.op /\ F[e].at = e.at /\ F[e].tenant = e.tenant
    OBVIOUS
  <2>1. IsEvent(e)
    BY DEF Tracked
  <2> QED
    BY <1>1, <1>2, <2>1
<1> QED
  BY <1>2, <1>3 DEF Settles, Tracked

\* A write of the tables owes the log nothing yet; audit rows at most lose the ids it deleted.
LEMMA ChangeSettles ==
  ASSUME Tracked, NEW p \in Procs, Change(p)
  PROVE  Settles
<1>1. UNCHANGED <<queue, writing, owed, drops, faulted, now>>
  BY DEF Change, logger, world
<1>2. \/ UNCHANGED rows
      \/ \E i : rows' = ForgetRule(i) \/ rows' = ForgetToken(i)
  BY DEF Change, Upsert, SetEnabled, Delete, Mint, Revoke, SetMember, SetVisibility
<1> QED
  BY <1>1, <1>2, Untouched, ForgetSettles

\* The engine's decision.
LEMMA DecideSays ==
  ASSUME TypeInv, Tracked, NEW p \in Procs, GrantInv(p), Decide(p)
  PROVE  Settles \/ \E e : Says(p, e)
<1> DEFINE op == job[p].op
           r == Evaluate(snap, op.subject, now)
<1>1. PICK e : e = EventOf(p, op.subject.tenant, r.rule)
  OBVIOUS
<1>2. /\ pc[p] = "evaluate" /\ AsksAccess(p) /\ IsOp(op) /\ now \in Nat
      /\ UNCHANGED <<rows, now, faulted>>
  BY DEF Decide, TypeInv, JobsTyped, IsJob, GrantInv, Tracked, world
<1>3. pc'[p] = "idle"
  BY DecideJob DEF TypeInv
<1>4. IsEvent(e) /\ e.op = op.n
  <2>1. op.subject.tenant \in Tenants
    BY <1>2 DEF IsOp, AsksAccess
  <2> QED
    BY <1>1, <1>2, <2>1 DEF EventOf, IsEvent
<1>5. \/ UNCHANGED <<logger, owed>>
      \/ Log(e) /\ (owed' = owed \cup {e} \/ owed' = owed)
  BY <1>1 DEF Decide, ShouldLog
<1>6. CASE UNCHANGED <<logger, owed>>
  BY <1>2, <1>6, Untouched DEF logger
<1>7. CASE Log(e) /\ (owed' = owed \cup {e} \/ owed' = owed)
  BY <1>2, <1>3, <1>4, <1>7 DEF Says
<1> QED
  BY <1>5, <1>6, <1>7

\* An administrator's operation.
LEMMA EmitSays ==
  ASSUME TypeInv, Tracked, NEW p \in Procs, Emit(p)
  PROVE  Settles \/ \E e : Says(p, e)
<1> DEFINE op == job[p].op
           rule == CASE op.do = "upsert" -> job[p].rule
                     [] op.do \in {"enable", "delete"} -> op.id
                     [] OTHER -> None
           tenant == IF op.do \in TenantOps THEN op.tenant ELSE None
<1>1. PICK e : e = EventOf(p, tenant, rule)
  OBVIOUS
<1>2. /\ pc[p] = "log" /\ IsOp(op) /\ now \in Nat /\ UNCHANGED <<rows, now, faulted>>
  BY DEF Emit, TypeInv, JobsTyped, IsJob, Tracked, world
<1>3. IsEvent(e) /\ e.op = op.n
  <2>1. tenant \in Tenants \cup {None}
    BY <1>2 DEF IsOp, TenantOps
  <2> HIDE DEF tenant, rule
  <2> QED
    BY <1>1, <1>2, <2>1 DEF EventOf, IsEvent
<1>4. \/ UNCHANGED <<logger, owed>>
      \/ Log(e) /\ owed' = owed \cup {e}
  BY <1>1 DEF Emit
<1>5. pc'[p] = "idle" \/ Told(p)'
  <2>1. \/ Done(p)
        \/ op.do = "delete" /\ op.token # None /\ Goto(p, "write") /\ UNCHANGED job
    BY DEF Emit
  <2>2. CASE Done(p)
    BY <2>2, DoneJob DEF TypeInv
  <2>3. CASE op.do = "delete" /\ op.token # None /\ Goto(p, "write") /\ UNCHANGED job
    <3>1. pc'[p] = "write"
      BY <2>3 DEF Goto, TypeInv, JobsTyped
    <3> QED
      BY <2>3, <3>1 DEF Told
  <2> QED
    BY <2>1, <2>2, <2>3
<1>6. CASE UNCHANGED <<logger, owed>>
  BY <1>2, <1>6, Untouched DEF logger
<1>7. CASE Log(e) /\ owed' = owed \cup {e}
  BY <1>2, <1>3, <1>5, <1>7 DEF Says
<1> QED
  BY <1>4, <1>6, <1>7

\* A handler's step leaves the log alone or sends one event.
LEMMA MoveSays ==
  ASSUME TypeInv, Tracked, NEW p \in Procs, GrantInv(p), Move(p)
  PROVE  Settles \/ \E e : Says(p, e)
<1>1. CASE Arrive(p) \/ Lookup(p) \/ Memberships(p) \/ Guard(p) \/ Find(p)
  <2>1. UNCHANGED <<rows, queue, writing, owed, drops, faulted, now>>
    BY <1>1 DEF Arrive, Lookup, Memberships, Guard, Find, logger, world
  <2> QED
    BY <2>1, Untouched
<1> QED
  BY <1>1, ChangeSettles, DecideSays, EmitSays DEF Move

-----------------------------------------------------------------------------
(* Every operation is carried out once. *)

\* A request takes its operation off the list.
LEMMA ArriveTakes ==
  ASSUME JobsTyped, NEW p \in Procs, Arrive(p)
  PROVE  \E op \in todo : todo' = todo \ {op} /\ job'[p].op = op
<1>1. PICK op \in todo : /\ todo' = todo \ {op}
                         /\ job' = [job EXCEPT ![p] = [NoJob EXCEPT !.op = op]]
  BY DEF Arrive
<1>2. [NoJob EXCEPT !.op = op].op = op
  BY DEF NoJob
<1> QED
  BY <1>1, <1>2 DEF JobsTyped

\* The other steps go on with it.
LEMMA OthersGoOn ==
  ASSUME JobsTyped, NEW p \in Procs, Move(p), ~Arrive(p)
  PROVE  /\ UNCHANGED todo /\ pc[p] # "idle"
         /\ pc'[p] # "idle" => job'[p].op = job[p].op
<1>1. pc[p] # "idle"
  BY DEF Move, Lookup, Memberships, Guard, Decide, Find, Change, Emit
<1> QED
  BY <1>1, MoveFrame, MoveJob DEF JobStep

\* No step of a request makes two requests work for the same operation.
LEMMA MoveOnce ==
  ASSUME JobsTyped, OpsOnce, NEW p \in Procs, Move(p)
  PROVE  OpsOnce'
<1>1. \A q \in Procs \ {p} : pc'[q] = pc[q] /\ job'[q] = job[q]
  BY MoveJob DEF JobStep
<1>2. CASE Arrive(p)
  <2>1. PICK op \in todo : todo' = todo \ {op} /\ job'[p].op = op
    BY <1>2, ArriveTakes
  <2> QED
    BY <1>1, <2>1 DEF OpsOnce
<1>3. CASE ~Arrive(p)
  <2>1. /\ UNCHANGED todo /\ pc[p] # "idle"
        /\ pc'[p] # "idle" => job'[p].op = job[p].op
    BY <1>3, OthersGoOn
  <2> QED
    BY <1>1, <2>1 DEF OpsOnce
<1> QED
  BY <1>2, <1>3

\* A deletion whose event is sent ends with its next step.
LEMMA ToldEnds ==
  ASSUME JobsTyped, NEW p \in Procs, Told(p), Move(p)
  PROVE  pc'[p] = "idle"
<1>1. Change(p)
  BY DEF Told, Move, Arrive, Lookup, Memberships, Guard, Decide, Find, Emit
<1>2. Delete(p)
  BY <1>1 DEF Told, Change, Upsert, SetEnabled, Mint, Revoke, SetMember, SetVisibility
<1>3. Done(p)
  BY <1>2 DEF Told, Delete
<1> QED
  BY <1>3, DoneJob

\* A request's step reports no operation but its own, and reports that one once.
LEMMA MoveUnsaid ==
  ASSUME JobsTyped, OpsOnce, Unsaid, NEW p \in Procs, Move(p),
         \/ \A n : Heard(n)' => Heard(n)
         \/ /\ \A n : Heard(n)' => Heard(n) \/ n = job[p].op.n
            /\ pc[p] # "idle" /\ (pc'[p] = "idle" \/ Told(p)')
  PROVE  Unsaid'
<1>1. \A q \in Procs \ {p} : pc'[q] = pc[q] /\ job'[q] = job[q]
  BY MoveJob DEF JobStep
<1>2. CASE Arrive(p)
  <2>1. PICK op \in todo : todo' = todo \ {op} /\ job'[p].op = op
    BY <1>2, ArriveTakes
  <2>2. pc[p] = "idle"
    BY <1>2, ArriveJob
  <2>3. \A n : Heard(n)' => Heard(n)
    BY <2>2
  <2> QED
    BY <1>1, <2>1, <2>3 DEF Unsaid, Told
<1>3. CASE ~Arrive(p)
  <2>1. /\ UNCHANGED todo /\ pc[p] # "idle"
        /\ pc'[p] # "idle" => job'[p].op = job[p].op
    BY <1>3, OthersGoOn
  <2>2. \A a \in todo' : ~Heard(a.n)'
    BY <2>1 DEF Unsaid, OpsOnce
  <2>3. ASSUME NEW q \in Procs, pc'[q] # "idle", ~Told(q)'
        PROVE  ~Heard(job[q].op.n)' /\ job'[q].op = job[q].op
    <3>1. CASE q = p
      <4>1. ~Told(p)
        BY <2>3, <3>1, ToldEnds
      <4> QED
        BY <2>1, <2>3, <3>1, <4>1 DEF Unsaid
    <3>2. CASE q # p
      <4>1. pc'[q] = pc[q] /\ job'[q] = job[q]
        BY <1>1, <3>2
      <4>2. ~Told(q) /\ pc[q] # "idle"
        BY <2>3, <4>1 DEF Told
      <4> QED
        BY <2>1, <3>2, <4>1, <4>2 DEF Unsaid, OpsOnce
    <3> QED
      BY <3>1, <3>2
  <2> QED
    BY <2>2, <2>3 DEF Unsaid
<1> QED
  BY <1>2, <1>3

\* Steps of nobody's request.
LEMMA OthersAudit ==
  ASSUME Tracked, Counted, Quiet \/ Exit \/ Crash \/ Boot
  PROVE  Tracked' /\ Counted' /\ \A n : Heard(n)' => Heard(n)
<1>1. CASE List \/ Refresh \/ Tick \/ Shutdown \/ Close
  <2>1. UNCHANGED <<rows, queue, writing, owed, drops, faulted>> /\ (now' = now \/ now' = now + 1)
    BY <1>1 DEF List, Refresh, Tick, Shutdown, Close, logger, world
  <2> QED
    BY <2>1, Untouched, SettlesAudit
<1>2. CASE Prune
  <2>1. /\ UNCHANGED <<queue, writing, owed, drops, faulted, now>>
        /\ rows' = {e \in rows : ~(e.at < now - Retention(e))}
    BY <1>2 DEF Prune, logger, world
  <2>2. Settles
    BY <2>1 DEF Settles, Tracked
  <2> QED
    BY <2>2, SettlesAudit
<1>3. CASE Exit
  <2>1. UNCHANGED <<rows, queue, writing, owed, drops, faulted, now>>
    BY <1>3 DEF Exit, Stop
  <2> QED
    BY <2>1, Untouched, SettlesAudit
<1> QED
  BY <1>1, <1>2, <1>3, DrainAudit, WriteAudit, RestartAudit DEF Quiet

\* Every step accounts for the audit events it owes.
LEMMA AuditStep ==
  ASSUME TypeInv, \A p \in Procs : GrantInv(p), AuditInv, [Next]_vars
  PROVE  AuditInv'
<1>1. Tracked /\ Counted /\ OpsOnce /\ Unsaid /\ JobsTyped
  BY DEF AuditInv, TypeInv
<1>2. CASE UNCHANGED vars
  <2>1. /\ UNCHANGED <<rows, queue, writing, owed, drops, faulted, todo, pc, job>>
        /\ now' = now
    BY <1>2 DEF vars, logger, world
  <2>2. Tracked' /\ Counted' /\ \A n : Heard(n)' => Heard(n)
    BY <1>1, <2>1, Untouched, SettlesAudit
  <2> QED
    BY <1>1, <2>1, <2>2 DEF AuditInv, OpsOnce, Unsaid, Told
<1>3. CASE Quiet \/ Exit \/ Crash \/ Boot
  <2>1. Tracked' /\ Counted' /\ \A n : Heard(n)' => Heard(n)
    BY <1>1, <1>3, OthersAudit
  <2>2. /\ UNCHANGED todo
        /\ \/ UNCHANGED <<pc, job>>
           \/ \A p \in Procs : pc'[p] = "idle"
    BY <1>3, QuietFrame, StopFrame DEF Boot
  <2> QED
    BY <1>1, <2>1, <2>2 DEF AuditInv, OpsOnce, Unsaid, Told
<1>4. ASSUME NEW p \in Procs, Move(p)
      PROVE  AuditInv'
  <2>1. OpsOnce'
    BY <1>1, <1>4, MoveOnce
  <2>2. CASE Settles
    <3>1. Tracked' /\ Counted' /\ \A n : Heard(n)' => Heard(n)
      BY <1>1, <2>2, SettlesAudit
    <3> QED
      BY <1>1, <1>4, <2>1, <3>1, MoveUnsaid DEF AuditInv
  <2>3. ASSUME NEW e, Says(p, e)
        PROVE  AuditInv'
    <3>1. ~Heard(e.op)
      <4>1. ~Told(p)
        BY <2>3 DEF Says, Told
      <4> QED
        BY <1>1, <2>3, <4>1 DEF Says, Unsaid
    <3>2. Tracked' /\ Counted' /\ \A n : Heard(n)' => Heard(n) \/ n = e.op
      BY <1>1, <2>3, <3>1, LogAudit DEF Says
    <3> QED
      BY <1>1, <1>4, <2>1, <2>3, <3>2, MoveUnsaid DEF AuditInv, Says
  <2> QED
    BY <1>1, <1>4, <2>2, <2>3, MoveSays
<1> QED
  BY <1>2, <1>3, <1>4, NextCases

\* Every ingest, every decision other than allow and every administrator's operation is
\* in the log, on its way there or counted (audit.go, audit/engine.go): for any capacity
\* of the queue, any number of requests and however writes fail and servers stop.
THEOREM AuditAccountedHolds == Spec => []AuditAccounted
<1>1. Init => AuditInv
  <2> SUFFICES ASSUME Init PROVE AuditInv
    OBVIOUS
  <2>1. PICK sc \in Scenarios : todo = sc.ops
    BY DEF Init
  <2>2. \A a, b \in todo : a.n = b.n => a = b
    BY <2>1, ScenarioAssumption
  <2>3. /\ now = 1 /\ queue = <<>> /\ writing = {} /\ rows = {} /\ owed = {}
        /\ drops = 0 /\ faulted = 0 /\ pc = [p \in Procs |-> "idle"]
    BY DEF Init
  <2>4. queue \in Seq({}) /\ DOMAIN queue = {}
    BY <2>3
  <2>5. Pending = {}
    BY <2>3, <2>4 DEF Pending
  <2>6. Tracked
    BY <2>3, <2>4, <2>5 DEF Tracked
  <2>7. Lost = {}
    BY <2>3 DEF Lost
  <2>8. Counted
    BY <2>3, <2>7, FS_EmptySet DEF Counted
  <2>9. OpsOnce /\ Unsaid
    BY <2>2, <2>3, <2>5 DEF OpsOnce, Unsaid, Heard
  <2> QED
    BY <2>6, <2>8, <2>9 DEF AuditInv
<1>2. TypeInv /\ (\A p \in Procs : GrantInv(p)) /\ AuditInv /\ [Next]_vars => AuditInv'
  BY AuditStep
<1>3. AuditInv => AuditAccounted
  BY DEF AuditInv, Counted, Lost, AuditAccounted
<1> QED
  BY <1>1, <1>2, <1>3, TypesHold, GrantsHold, PTL DEF Spec

=============================================================================
