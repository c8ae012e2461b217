---------------------------- MODULE MC_GoProxy ----------------------------
(* Small instances of GoProxy. *)
EXTENDS GoProxy, TLC

CONSTANTS f1, f2,      \* zips
          v1, v2,      \* versions
          x, y         \* contents

Cooldown(a) == [kind |-> "cooldown", action |-> a]

NoRules == {NoRule}
CooldownRules == {NoRule, Cooldown("quarantine"), Cooldown("deny")}

OneZip == (f1 :> v1)
TwoZips == (f1 :> v1 @@ f2 :> v2)

Symmetry == Permutations(Procs)
=============================================================================
