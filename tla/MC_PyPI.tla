------------------------------ MODULE MC_PyPI ------------------------------
(* Small instances of PyPI. *)
EXTENDS PyPI, TLC

CONSTANTS f1, f2,      \* files
          v1, v2,      \* versions
          x, y         \* contents

Cooldown(a) == [kind |-> "cooldown", action |-> a]
LicenseAllow(a) == [kind |-> "license", action |-> a]

NoRules == {NoRule}
ReleasedRules == {NoRule, Cooldown("quarantine")}
AllRules == {NoRule, Cooldown("quarantine"), Cooldown("deny"), LicenseAllow("quarantine")}
CooldownRules == {NoRule, Cooldown("quarantine"), Cooldown("deny")}

OneFile == (f1 :> v1)
TwoVersions == (f1 :> v1 @@ f2 :> v2)

Symmetry == Permutations(Procs)
=============================================================================
