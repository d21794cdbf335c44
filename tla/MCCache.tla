------------------------------ MODULE MCCache ------------------------------
(* Instances of Cache for TLC. *)
EXTENDS Cache, TLC

Kept(policy, seconds) == [policy |-> policy, max_age |-> seconds]

\* Routes that are kept for ever, and routes that expire after a second.
LastingRules == [k \in Keys |-> {Kept("forever", 1)}]
AgeingRules == [k \in Keys |-> {Kept("for", 1)}]

\* A path that one of two caches of the same name keeps for a while and the
\* other for ever, and one of each kind that bypasses the list.
RoutedKeys == {"asset", "live", "off"}
RoutedRules ==
    [k \in RoutedKeys |-> CASE k = "asset" -> {Kept("for", 2), Kept("forever", 1)}
                            [] k = "live" -> {Kept("never", 1)}
                            [] k = "off" -> {Kept("disabled", 1)}]

Symmetry == Permutations(Requests) \cup Permutations(Keys)
RequestSymmetry == Permutations(Requests)
=============================================================================
