------------------------------- MODULE Policy -------------------------------
(***************************************************************************)
(* The rule cascade of the policy engine (policy/engine.go, rule.go and    *)
(* the two evaluators), as operators on rules and subjects.                *)
(*                                                                         *)
(* A rule is a record [name, kind, tenant, format, package, version,       *)
(* action, config, priority, enabled, expires].  A selector that is None   *)
(* means "any"; a version pattern is the set of versions it matches.       *)
(* expires = 0 means never.  A configuration that does not decode is       *)
(* BadConfig; otherwise it is [minAge] for a cooldown rule and             *)
(* [allow, onUnknown] for a license rule.  A subject is a record           *)
(* [tenant, format, package, version, age, license], age and license       *)
(* None where the handler knows none.                                      *)
(***************************************************************************)
EXTENDS Integers, Sequences, FiniteSets, SequencesExt, FiniteSetsExt

CONSTANTS None, BadConfig

Kinds == <<"cooldown", "license_allow">>     \* the evaluators, in chain order

\* A rule's record has all of these fields.
IsRule(r) ==
    /\ r = [name |-> r.name, kind |-> r.kind, tenant |-> r.tenant, format |-> r.format,
            package |-> r.package, version |-> r.version, action |-> r.action,
            config |-> r.config, priority |-> r.priority, enabled |-> r.enabled,
            expires |-> r.expires]
    /\ r.priority \in Int

Severity(d) == CASE d = "allow" -> 0 [] d = "warn" -> 1
                 [] d = "quarantine" -> 2 [] d = "deny" -> 3

DecisionFromAction(a) == IF a \in {"deny", "quarantine"} THEN a ELSE "warn"

-----------------------------------------------------------------------------
Weight(selector, w) == IF selector = None THEN 0 ELSE w
Specificity(r) == Weight(r.version, 16) + Weight(r.package, 8)
                + Weight(r.tenant, 4) + Weight(r.format, 2)

Matches(r, s, t) ==
    /\ ~(r.expires # 0 /\ r.expires < t)
    /\ r.tenant \in {None, s.tenant}
    /\ r.format \in {None, s.format}
    /\ r.package \in {None, s.package}
    /\ r.version = None \/ s.version \in r.version

PriorityFirst(r, q) == r.priority < q.priority

\* The comparison sort.Slice is given; it says nothing of rules that tie.
Before(r, q) ==
    \/ Specificity(r) > Specificity(q)
    \/ Specificity(r) = Specificity(q) /\ r.priority < q.priority

\* sort.Slice is not stable: any order that Before allows.
SortRules(table, ids) ==
    {s \in SetToSeqs(ids) : \A i, j \in DOMAIN s :
        i < j => ~Before(table[s[j]], table[s[i]])}

\* The evaluators, on the rule they call the winner.
CooldownVerdict(r, s) ==
    IF \/ r.config = BadConfig \/ r.config.minAge = 0
       \/ s.age = None \/ s.age >= r.config.minAge
    THEN "allow" ELSE DecisionFromAction(r.action)

HandleUnknown(r) ==
    CASE r.config.onUnknown = "allow" -> "allow"
      [] r.config.onUnknown = "deny"  -> DecisionFromAction(r.action)
      [] OTHER                        -> "warn"

LicenseVerdict(r, s) ==
    IF r.config = BadConfig THEN "allow"
    ELSE IF s.license = None THEN HandleUnknown(r)
    ELSE IF s.license \in r.config.allow THEN "allow"
    ELSE DecisionFromAction(r.action)

Verdict(kind, r, s) ==
    IF kind = "cooldown" THEN CooldownVerdict(r, s) ELSE LicenseVerdict(r, s)

Allowed == [decision |-> "allow", rule |-> None]

\* One evaluator over the snapshot's rules of its kind, which are pairs
\* <<id, rule>> in sorted order: the first one that matches wins.
EvaluateKind(rs, kind, s, t) ==
    LET matched == {i \in DOMAIN rs : Matches(rs[i][2], s, t)}
        winner == rs[Min(matched)]
    IN IF matched = {} THEN Allowed
       ELSE [decision |-> Verdict(kind, winner[2], s), rule |-> winner[1]]

\* The chain: the strictest result, and the first of equally strict ones; a
\* Deny ends it.
StricterOf(a, b) == IF Severity(b.decision) > Severity(a.decision) THEN b ELSE a

Evaluate(snap, s, t) ==
    LET Result(i) == EvaluateKind(snap[Kinds[i]], Kinds[i], s, t)
        deepest == StricterOf(Allowed, Result(1))
    IN IF deepest.decision = "deny" THEN deepest ELSE StricterOf(deepest, Result(2))

-----------------------------------------------------------------------------
(* What the cascade promises, stated on the table itself: "highest          *)
(* specificity wins", where a version outranks a package, a package a      *)
(* tenant and a tenant a format, whatever else the two rules select on;    *)
(* then the lower priority number; rules that tie in both are all          *)
(* candidates.  The decision is the strictest of the winners' verdicts.    *)
Selectors(r) == <<r.version, r.package, r.tenant, r.format>>

Outranks(r, q) ==
    \/ \E i \in 1 .. 4 : /\ Selectors(r)[i] # None /\ Selectors(q)[i] = None
                          /\ \A j \in 1 .. (i - 1) :
                                (Selectors(r)[j] = None) = (Selectors(q)[j] = None)
    \/ /\ \A i \in 1 .. 4 : (Selectors(r)[i] = None) = (Selectors(q)[i] = None)
       /\ r.priority < q.priority

Applicable(table, kind, s, t) ==
    {i \in DOMAIN table : /\ table[i].enabled /\ table[i].kind = kind
                          /\ Matches(table[i], s, t)}

Verdicts(table, kind, s, t) ==
    LET live == Applicable(table, kind, s, t)
    IN IF live = {} THEN {"allow"}
       ELSE {Verdict(kind, table[i], s) :
                i \in {w \in live : \A j \in live : ~Outranks(table[j], table[w])}}

Decisions(table, s, t) ==
    {d \in {"allow", "warn", "quarantine", "deny"} :
        \E a \in Verdicts(table, "cooldown", s, t), b \in Verdicts(table, "license_allow", s, t) :
            d \in {a, b} /\ Severity(d) = Max({Severity(a), Severity(b)})}
=============================================================================
