---------------------------- MODULE ByteTotals ----------------------------
(***************************************************************************)
(* Adding up byte counts.  A natural number n is the size of the set 1..n, *)
(* so the total of a family of naturals is the size of the disjoint union  *)
(* of such sets.  Stated this way a total needs no recursion, and the      *)
(* library's theorems about Cardinality apply to it.                       *)
(***************************************************************************)
EXTENDS Naturals, FiniteSets

\* One pair per byte counted by f for a member of S.
BytesOf(f, S) == UNION {{s} \X (1..f[s]) : s \in S}

\* The sum of f[s] over the members s of S.
TotalBytes(f, S) == Cardinality(BytesOf(f, S))
=============================================================================
