---------------------------- MODULE MC_RubyGems ----------------------------
(* Small instances of RubyGems. *)
EXTENDS RubyGems, TLC

CONSTANTS f1, v1,      \* the gem and its version
          x, y         \* contents

Cooldown(a) == [kind |-> "cooldown", action |-> a]
LicenseAllow(a) == [kind |-> "license", action |-> a]

AllRules == {NoRule, Cooldown("quarantine"), LicenseAllow("deny")}

OneFile == (f1 :> v1)
OneLicensed == (x :> "none" @@ y :> "bad")
BadLicense == (x :> "bad")

Symmetry == Permutations(Procs)
=============================================================================
