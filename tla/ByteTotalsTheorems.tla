------------------------ MODULE ByteTotalsTheorems ------------------------
(***************************************************************************)
(* Facts about totals: what one change does to them, and how they compare. *)
(***************************************************************************)
EXTENDS ByteTotals, Integers, Functions, FiniteSetTheorems, TLAPS

\* A total over a finite set is a natural number.
LEMMA TotalType ==
    ASSUME NEW S, IsFiniteSet(S), NEW f, \A s \in S : f[s] \in Nat
    PROVE  IsFiniteSet(BytesOf(f, S)) /\ TotalBytes(f, S) \in Nat
<1> DEFINE Part == [s \in S |-> {s} \X (1..f[s])]
           Parts == {{s} \X (1..f[s]) : s \in S}
<1>1. Part \in Surjection(S, Parts)
  BY DEF Surjection
<1>2. IsFiniteSet(Parts)
  BY <1>1, FS_Surjection
<1>3. ASSUME NEW s \in S PROVE IsFiniteSet({s} \X (1..f[s]))
  <2>1. IsFiniteSet({s})
    BY FS_Singleton
  <2>2. IsFiniteSet(1..f[s])
    BY FS_Interval
  <2> QED
    BY <2>1, <2>2, FS_Product
<1>4. \A P \in Parts : IsFiniteSet(P)
  BY <1>3
<1>5. IsFiniteSet(UNION Parts)
  BY <1>2, <1>4, FS_UNION
<1> QED
  BY <1>5, FS_CardinalityType DEF BytesOf, TotalBytes

\* A total depends only on the numbers of the members counted.
LEMMA TotalSame ==
    ASSUME NEW S, NEW f, NEW g, \A s \in S : f[s] = g[s]
    PROVE  TotalBytes(f, S) = TotalBytes(g, S)
<1>1. BytesOf(f, S) = BytesOf(g, S)
  BY DEF BytesOf
<1> QED
  BY <1>1 DEF TotalBytes

\* One member's share can be counted apart.
LEMMA TotalSplit ==
    ASSUME NEW S, IsFiniteSet(S), NEW f, \A s \in S : f[s] \in Nat, NEW x \in S
    PROVE  TotalBytes(f, S) = TotalBytes(f, S \ {x}) + f[x]
<1> DEFINE Own == {x} \X (1..f[x])
           Rest == BytesOf(f, S \ {x})
<1>1. IsFiniteSet(S \ {x})
  BY FS_RemoveElement
<1>2. IsFiniteSet(Rest)
  BY <1>1, TotalType
<1>3. IsFiniteSet(Own) /\ Cardinality(Own) = f[x]
  <2>1. IsFiniteSet({x}) /\ Cardinality({x}) = 1
    BY FS_Singleton
  <2>2. IsFiniteSet(1..f[x]) /\ Cardinality(1..f[x]) = f[x]
    BY FS_Interval
  <2> QED
    BY <2>1, <2>2, FS_Product
<1>4. BytesOf(f, S) = Rest \cup Own
  BY DEF BytesOf
<1>5. Rest \cap Own = {}
  BY DEF BytesOf
<1>6. Cardinality(Rest) \in Nat /\ Cardinality(Rest \cap Own) = 0
  BY <1>2, <1>5, FS_CardinalityType, FS_EmptySet
<1>7. Cardinality(Rest \cup Own)
        = Cardinality(Rest) + Cardinality(Own) - Cardinality(Rest \cap Own)
  <2> HIDE DEF Own, Rest
  <2> QED
    BY <1>2, <1>3, FS_Union
<1> QED
  BY <1>3, <1>4, <1>6, <1>7 DEF TotalBytes

\* What changing one member's number does to the total.
LEMMA TotalChange ==
    ASSUME NEW S, IsFiniteSet(S), NEW x \in S,
           NEW f, \A s \in S : f[s] \in Nat,
           NEW g, \A s \in S : g[s] \in Nat,
           \A s \in S \ {x} : g[s] = f[s]
    PROVE  TotalBytes(g, S) = TotalBytes(f, S) - f[x] + g[x]
<1>1. TotalBytes(f, S) = TotalBytes(f, S \ {x}) + f[x]
  BY TotalSplit
<1>2. TotalBytes(g, S) = TotalBytes(g, S \ {x}) + g[x]
  BY TotalSplit
<1>3. TotalBytes(g, S \ {x}) = TotalBytes(f, S \ {x})
  BY TotalSame
<1>4. TotalBytes(f, S \ {x}) \in Nat
  BY TotalType, FS_RemoveElement
<1> QED
  BY <1>1, <1>2, <1>3, <1>4

\* The same for a function and an update of it.
LEMMA TotalExcept ==
    ASSUME NEW S, IsFiniteSet(S), NEW f \in [S -> Nat], NEW x \in S, NEW n \in Nat
    PROVE  TotalBytes([f EXCEPT ![x] = n], S) = TotalBytes(f, S) - f[x] + n
<1> DEFINE g == [f EXCEPT ![x] = n]
<1>1. /\ \A s \in S : f[s] \in Nat
      /\ \A s \in S : g[s] \in Nat
      /\ \A s \in S \ {x} : g[s] = f[s]
      /\ g[x] = n
  OBVIOUS
<1> HIDE DEF g
<1>2. TotalBytes(g, S) = TotalBytes(f, S) - f[x] + g[x]
  BY <1>1, TotalChange
<1> QED
  BY <1>1, <1>2 DEF g

\* A total of zeroes.
LEMMA TotalZero ==
    ASSUME NEW S, NEW f, \A s \in S : f[s] = 0
    PROVE  TotalBytes(f, S) = 0
<1>1. BytesOf(f, S) = {}
  BY DEF BytesOf
<1> QED
  BY <1>1, FS_EmptySet DEF TotalBytes

\* Fewer members with smaller numbers have a smaller total.
LEMMA TotalMonotone ==
    ASSUME NEW S, IsFiniteSet(S), NEW T \in SUBSET S,
           NEW f, \A t \in T : f[t] \in Nat,
           NEW g, \A s \in S : g[s] \in Nat,
           \A t \in T : f[t] <= g[t]
    PROVE  TotalBytes(f, T) <= TotalBytes(g, S)
<1>1. BytesOf(f, T) \subseteq BytesOf(g, S)
  BY DEF BytesOf
<1>2. IsFiniteSet(BytesOf(g, S))
  BY TotalType
<1> QED
  BY <1>1, <1>2, FS_Subset DEF TotalBytes
=============================================================================
