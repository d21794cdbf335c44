------------------------- MODULE FallthroughProofs -------------------------
(***************************************************************************)
(* Proofs that nested fallthroughs do what is promised of a flat list, for *)
(* lists of any length, nested to any depth.                               *)
(*                                                                         *)
(* The flat list is defined by recursion over the configuration, and the   *)
(* concatenation of lists by recursion over their number.  That there are  *)
(* functions with these equations is shown here by induction, in the form  *)
(* of InductionUpTo, which speaks of a set and not of a predicate.         *)
(***************************************************************************)
EXTENDS Fallthrough, Integers, FiniteSetTheorems, SequenceTheorems, TLAPS

-----------------------------------------------------------------------------
(* Induction, and the functions it gives.                                  *)

\* A set that has 0 and, with a number below n, the next one too, has all of
\* them up to n: otherwise those up to some last that it misses would be as
\* many without last as with it.
LEMMA InductionUpTo ==
    ASSUME NEW n \in Nat, NEW T, 0 \in T, \A m \in 0 .. n - 1 : m \in T => m + 1 \in T
    PROVE  \A m \in 0 .. n : m \in T
<1> SUFFICES ASSUME NEW last \in 0 .. n, last \notin T PROVE FALSE
  OBVIOUS
<1> DEFINE Missed == {m \in 0 .. last : m \notin T}
           before == [m \in Missed |-> m - 1]
<1>1. \A m \in Missed : m \in Int /\ m - 1 \in Missed /\ m - 1 # last
  OBVIOUS
<1>2. last \in Missed
  OBVIOUS
<1>3. IsFiniteSet(Missed)
  <2>1. IsFiniteSet(0 .. last)
    BY FS_Interval
  <2> QED
    BY <2>1, FS_Subset
<1> HIDE DEF Missed
<1>4. before \in Injection(Missed, Missed \ {last})
  BY <1>1 DEF Injection, IsInjective
<1>5. /\ IsFiniteSet(Missed \ {last})
      /\ Cardinality(Missed \ {last}) = Cardinality(Missed) - 1
  BY <1>2, <1>3, FS_RemoveElement
<1>6. Cardinality(Missed) <= Cardinality(Missed \ {last})
  <2> HIDE DEF before
  <2> QED
    BY <1>4, <1>5, FS_Injection
<1>7. Cardinality(Missed) \in Nat
  BY <1>3, FS_CardinalityType
<1> QED
  BY <1>5, <1>6, <1>7

\* A list of lists, its first i of them put together, for i up to all.
Partial(seqs, h) ==
    h = [i \in 1 .. Len(seqs) |-> IF i = 1 THEN seqs[i] ELSE h[i - 1] \o seqs[i]]

\* FlattenSeq puts them together.
LEMMA FlattenSeqPartial ==
    ASSUME NEW S, NEW seqs \in Seq(Seq(S)), Len(seqs) # 0
    PROVE  \E h : /\ FlattenSeq(seqs) = h[Len(seqs)]
                  /\ Partial(seqs, h)
                  /\ \A i \in 1 .. Len(seqs) : h[i] \in Seq(S)
<1> DEFINE n == Len(seqs)
           Step(h) == [i \in 1 .. n |-> IF i = 1 THEN seqs[i] ELSE h[i - 1] \o seqs[i]]
           UpTo(h, m) == \A i \in 1 .. n : i <= m => h[i] = Step(h)[i]
           T == {m \in 0 .. n : \E h : DOMAIN h = 1 .. n /\ UpTo(h, m)}
<1>1. n \in Nat
  OBVIOUS
<1>2. 0 \in T
  <2>1. UpTo(seqs, 0) /\ DOMAIN seqs = 1 .. n
    OBVIOUS
  <2> QED
    BY <1>1, <2>1
<1>3. ASSUME NEW m \in 0 .. n - 1, m \in T PROVE m + 1 \in T
  <2>1. PICK h : DOMAIN h = 1 .. n /\ UpTo(h, m)
    BY <1>3
  <2> DEFINE g == Step(h)
  <2>2. DOMAIN g = 1 .. n
    OBVIOUS
  <2>3. ASSUME NEW i \in 1 .. n, i <= m + 1 PROVE g[i] = Step(g)[i]
    <3>1. CASE i = 1
      BY <3>1
    <3>2. CASE i # 1
      <4>1. i - 1 \in 1 .. n /\ i - 1 <= m
        BY <2>3, <3>2
      <4>2. g[i - 1] = h[i - 1]
        BY <2>1, <4>1
      <4> QED
        BY <3>2, <4>1, <4>2
    <3> QED
      BY <3>1, <3>2
  <2>4. UpTo(g, m + 1)
    BY <2>3
  <2> HIDE DEF g, UpTo
  <2>5. m + 1 \in 0 .. n
    OBVIOUS
  <2> QED
    BY <2>2, <2>4, <2>5
<1>4. n \in T
  <2>1. \A m \in 0 .. n - 1 : m \in T => m + 1 \in T
    BY <1>3
  <2> HIDE DEF T, n
  <2>2. \A m \in 0 .. n : m \in T
    BY <1>1, <1>2, <2>1, InductionUpTo
  <2> QED
    BY <1>1, <2>2
<1>5. PICK h : DOMAIN h = 1 .. n /\ UpTo(h, n)
  BY <1>4
<1>6. Partial(seqs, Step(h))
  <2>1. ASSUME NEW i \in 1 .. n PROVE h[i] = Step(h)[i]
    <3>1. i <= n
      BY <1>1
    <3> HIDE DEF Step
    <3> QED
      BY <1>5, <3>1
  <2>2. \A i \in 1 .. n : i # 1 => i - 1 \in 1 .. n
    OBVIOUS
  <2> QED
    BY <2>1, <2>2 DEF Partial
<1>7. PICK g : Partial(seqs, g) /\ FlattenSeq(seqs) = g[n]
  <2>1. FlattenSeq(seqs) = (CHOOSE g : Partial(seqs, g))[Len(seqs)]
    BY Zenon DEF FlattenSeq, Partial
  <2>2. Partial(seqs, CHOOSE g : Partial(seqs, g))
    <3> HIDE DEF Step
    <3> QED
      BY <1>6, Zenon
  <2> QED
    BY <2>1, <2>2
<1>8. \A i \in 1 .. n : g[i] \in Seq(S)
  <2> DEFINE U == {m \in 0 .. n : \A i \in 1 .. m : g[i] \in Seq(S)}
  <2>1. 0 \in U
    BY <1>1
  <2>2. \A i \in 1 .. n : g[i] = IF i = 1 THEN seqs[i] ELSE g[i - 1] \o seqs[i]
    BY <1>7 DEF Partial
  <2>3. ASSUME NEW m \in 0 .. n - 1, m \in U PROVE m + 1 \in U
    <3>1. m + 1 \in 1 .. n /\ (m + 1) - 1 = m
      BY <1>1
    <3>2. seqs[m + 1] \in Seq(S)
      BY <3>1
    <3>3. m # 0 => g[m] \in Seq(S)
      BY <2>3
    <3>4. g[m + 1] = IF m + 1 = 1 THEN seqs[m + 1] ELSE g[m] \o seqs[m + 1]
      BY <2>2, <3>1
    <3>5. g[m + 1] \in Seq(S)
      BY <3>1, <3>2, <3>3, <3>4, ConcatProperties
    <3>6. \A i \in 1 .. m + 1 : i = m + 1 \/ i \in 1 .. m
      OBVIOUS
    <3>7. \A i \in 1 .. m + 1 : g[i] \in Seq(S)
      BY <2>3, <3>5, <3>6
    <3>8. m + 1 \in 0 .. n
      BY <1>1
    <3> QED
      BY <3>7, <3>8
  <2>4. \A m \in 0 .. n - 1 : m \in U => m + 1 \in U
    BY <2>3
  <2>5. \A m \in 0 .. n : m \in U
    <3> HIDE DEF U, n
    <3> QED
      BY <1>1, <2>1, <2>4, InductionUpTo
  <2> QED
    BY <1>1, <2>5
<1> QED
  BY <1>7, <1>8

\* The beginning of t is s.
Begins(s, t) == Len(s) <= Len(t) /\ \A k \in 1 .. Len(s) : t[k] = s[k]

\* What s and t put together is: s, and then t.
Joined(s, t, r) ==
    /\ Len(r) = Len(s) + Len(t)
    /\ Begins(s, r)
    /\ \A j \in 1 .. Len(t) : r[Len(s) + j] = t[j]

LEMMA ConcatParts ==
    ASSUME NEW S, NEW s \in Seq(S), NEW t \in Seq(S), NEW r, r = s \o t
    PROVE  Joined(s, t, r)
<1>1. Len(s) \in Nat /\ Len(t) \in Nat
  OBVIOUS
<1>2. /\ Len(r) = Len(s) + Len(t)
      /\ \A i \in 1 .. Len(s) + Len(t) : r[i] = IF i <= Len(s) THEN s[i] ELSE t[i - Len(s)]
  BY ConcatProperties
<1>3. Begins(s, r)
  BY <1>1, <1>2 DEF Begins
<1>4. ASSUME NEW j \in 1 .. Len(t) PROVE r[Len(s) + j] = t[j]
  <2>1. /\ Len(s) + j \in 1 .. Len(s) + Len(t) /\ ~ (Len(s) + j <= Len(s))
        /\ (Len(s) + j) - Len(s) = j
    BY <1>1
  <2> QED
    BY <1>2, <2>1
<1> QED
  BY <1>2, <1>3, <1>4 DEF Joined

\* Where each list begins in what FlattenSeq makes of them.
Offsets(seqs, off) ==
    /\ off \in [0 .. Len(seqs) -> Nat]
    /\ off[0] = 0 /\ off[Len(seqs)] = Len(FlattenSeq(seqs))
    /\ \A i \in 1 .. Len(seqs) :
          /\ off[i] = off[i - 1] + Len(seqs[i])
          /\ \A j \in 1 .. Len(seqs[i]) : FlattenSeq(seqs)[off[i - 1] + j] = seqs[i][j]

\* Each list has a place of its own in what FlattenSeq makes of them, and there
\* is nothing else in it.
LEMMA FlattenSeqParts ==
    ASSUME NEW S, NEW seqs \in Seq(Seq(S))
    PROVE  FlattenSeq(seqs) \in Seq(S) /\ \E off : Offsets(seqs, off)
<1> DEFINE n == Len(seqs)
<1>1. n \in Nat /\ \A i \in 1 .. n : seqs[i] \in Seq(S)
  OBVIOUS
<1>2. CASE n = 0
  <2>1. FlattenSeq(seqs) = seqs /\ seqs = <<>>
    BY <1>2 DEF FlattenSeq
  <2>2. Offsets(seqs, [i \in 0 .. 0 |-> 0])
    BY <2>1 DEF Offsets
  <2> QED
    BY <2>1, <2>2
<1>3. CASE n # 0
  <2>1. PICK h : /\ FlattenSeq(seqs) = h[n]
                 /\ Partial(seqs, h)
                 /\ \A i \in 1 .. n : h[i] \in Seq(S)
    BY <1>3, FlattenSeqPartial
  <2>2. \A i \in 1 .. n : h[i] = IF i = 1 THEN seqs[i] ELSE h[i - 1] \o seqs[i]
    BY <2>1 DEF Partial
  <2> DEFINE off == [i \in 0 .. n |-> IF i = 0 THEN 0 ELSE Len(h[i])]
             U == {m \in 0 .. n : \A i \in 1 .. m : Begins(h[i], h[m])}
  <2>3. ASSUME NEW i \in 1 .. n
        PROVE  /\ off[i - 1] \in Nat /\ off[i] = off[i - 1] + Len(seqs[i])
               /\ off[i] = Len(h[i])
               /\ \A j \in 1 .. Len(seqs[i]) : h[i][off[i - 1] + j] = seqs[i][j]
               /\ i # 1 => Begins(h[i - 1], h[i])
    <3>1. seqs[i] \in Seq(S) /\ h[i] \in Seq(S)
      BY <1>1, <2>1
    <3>2. CASE i = 1
      <4>1. off[i - 1] = 0 /\ off[i] = Len(h[i]) /\ h[i] = seqs[i]
        BY <1>1, <2>2, <3>2
      <4> QED
        BY <3>1, <3>2, <4>1
    <3>3. CASE i # 1
      <4>1. i - 1 \in 1 .. n /\ i - 1 # 0 /\ i - 1 \in 0 .. n /\ i \in 0 .. n /\ i # 0
        BY <1>1, <3>3
      <4>2. h[i - 1] \in Seq(S) /\ h[i] = h[i - 1] \o seqs[i]
        BY <2>1, <2>2, <3>3, <4>1
      <4>3. off[i - 1] = Len(h[i - 1]) /\ off[i] = Len(h[i])
        BY <4>1
      <4>4. /\ Len(h[i]) = Len(h[i - 1]) + Len(seqs[i])
            /\ Begins(h[i - 1], h[i])
            /\ \A j \in 1 .. Len(seqs[i]) : h[i][Len(h[i - 1]) + j] = seqs[i][j]
        <5>1. seqs[i] \in Seq(S)
          BY <3>1
        <5> HIDE DEF n
        <5>2. Joined(h[i - 1], seqs[i], h[i])
          BY <4>2, <5>1, ConcatParts, Zenon
        <5> QED
          BY <5>2 DEF Joined
      <4>5. Len(h[i - 1]) \in Nat
        BY <4>2
      <4> HIDE DEF off
      <4> QED
        BY <4>3, <4>4, <4>5
    <3> QED
      BY <3>2, <3>3
  <2>4. 0 \in U
    BY <1>1
  <2>5. ASSUME NEW m \in 0 .. n - 1, m \in U PROVE m + 1 \in U
    <3>1. m + 1 \in 1 .. n /\ m + 1 \in 0 .. n /\ (m + 1) - 1 = m
      BY <1>1
    <3>2. ASSUME NEW i \in 1 .. m + 1 PROVE Begins(h[i], h[m + 1])
      <4>1. h[m + 1] \in Seq(S)
        BY <2>1, <3>1
      <4>2. CASE i = m + 1
        BY <4>1, <4>2 DEF Begins
      <4>3. CASE i # m + 1
        <5>1. i \in 1 .. m /\ m # 0 /\ i \in 1 .. n /\ m \in 1 .. n
          BY <1>1, <4>3
        <5>2. Begins(h[i], h[m])
          BY <2>5, <5>1
        <5>3. Begins(h[m], h[m + 1])
          <6> HIDE DEF off
          <6> QED
            BY <2>3, <3>1, <5>1
        <5>4. h[i] \in Seq(S) /\ h[m] \in Seq(S)
          BY <2>1, <5>1
        <5> QED
          BY <4>1, <5>2, <5>3, <5>4, SMTT(30) DEF Begins
      <4> QED
        BY <4>2, <4>3
    <3> QED
      BY <3>1, <3>2
  <2>6. \A i \in 1 .. n : Begins(h[i], h[n])
    <3>1. \A m \in 0 .. n - 1 : m \in U => m + 1 \in U
      BY <2>5
    <3>2. \A m \in 0 .. n : m \in U
      <4> HIDE DEF U, n
      <4> QED
        BY <1>1, <2>4, <3>1, InductionUpTo
    <3> QED
      BY <1>1, <3>2
  <2>7. h[n] \in Seq(S)
    BY <1>1, <1>3, <2>1
  <2>8. off \in [0 .. n -> Nat] /\ off[0] = 0 /\ off[n] = Len(h[n])
    BY <1>1, <1>3, <2>1
  <2>9. ASSUME NEW i \in 1 .. n, NEW j \in 1 .. Len(seqs[i])
        PROVE  h[n][off[i - 1] + j] = seqs[i][j]
    <3> HIDE DEF off
    <3>1. h[i][off[i - 1] + j] = seqs[i][j] /\ off[i - 1] + Len(seqs[i]) = Len(h[i])
      BY <2>3
    <3>2. off[i - 1] \in Nat /\ Len(seqs[i]) \in Nat
      BY <1>1, <2>3
    <3>3. off[i - 1] + j \in 1 .. Len(h[i])
      BY <3>1, <3>2, SMTT(30)
    <3> QED
      BY <2>6, <3>1, <3>3 DEF Begins
  <2> HIDE DEF off
  <2>10. Offsets(seqs, off)
    BY <2>1, <2>3, <2>8, <2>9 DEF Offsets
  <2> QED
    BY <2>1, <2>7, <2>10
<1> QED
  BY <1>2, <1>3

-----------------------------------------------------------------------------
(* The flat list.                                                          *)

\* What the definition of Leaves says of one upstream.
Flat(leaves, u) ==
    IF u \in Fallthroughs
    THEN FlattenSeq([i \in DOMAIN Children[u] |-> leaves[Children[u][i]]])
    ELSE <<u>>

\* The recursion of Leaves ends, because configurations are trees.
LEMMA LeavesUnfold ==
    /\ DOMAIN Leaves = Upstreams
    /\ \A u \in Upstreams : Leaves[u] = Flat(Leaves, u) /\ Leaves[u] \in Seq(Upstreams)
<1> DEFINE N == Cardinality(Upstreams)
           Step(L) == [u \in Upstreams |-> Flat(L, u)]
           Below(L, m) == \A u \in Upstreams : Depth[u] < m => L[u] = Flat(L, u)
           T == {m \in 0 .. N + 1 : \E L : Below(L, m)}
<1>1. N \in Nat /\ \A u \in Upstreams : Depth[u] \in 0 .. N
  BY FS_CardinalityType, FallthroughAssumption
<1>2. \A f \in Fallthroughs : \A i \in DOMAIN Children[f] :
        /\ f \in Upstreams /\ Children[f][i] \in Upstreams
        /\ Depth[Children[f][i]] < Depth[f]
  BY FallthroughAssumption
<1>3. ASSUME NEW L, NEW g, NEW u \in Upstreams,
             u \in Fallthroughs => \A i \in DOMAIN Children[u] :
                L[Children[u][i]] = g[Children[u][i]]
      PROVE  Flat(L, u) = Flat(g, u)
  <2>1. u \in Fallthroughs =>
          [i \in DOMAIN Children[u] |-> L[Children[u][i]]]
             = [i \in DOMAIN Children[u] |-> g[Children[u][i]]]
    BY <1>3
  <2> QED
    BY <2>1 DEF Flat
<1>4. 0 \in T
  <2>1. Below(<<>>, 0)
    BY <1>1
  <2> QED
    BY <1>1, <2>1
<1>5. ASSUME NEW m \in 0 .. (N + 1) - 1, m \in T PROVE m + 1 \in T
  <2>1. PICK L : Below(L, m)
    BY <1>5
  <2> DEFINE g == Step(L)
  <2>2. ASSUME NEW u \in Upstreams, Depth[u] < m + 1 PROVE g[u] = Flat(g, u)
    <3>1. ASSUME u \in Fallthroughs, NEW i \in DOMAIN Children[u]
          PROVE  L[Children[u][i]] = g[Children[u][i]]
      <4>1. Children[u][i] \in Upstreams /\ Depth[Children[u][i]] < m
        BY <1>1, <1>2, <2>2, <3>1
      <4> QED
        BY <2>1, <4>1
    <3>2. g[u] = Flat(L, u)
      OBVIOUS
    <3>3. Flat(L, u) = Flat(g, u)
      <4> HIDE DEF g
      <4> QED
        BY <1>3, <3>1
    <3> QED
      BY <3>2, <3>3
  <2>3. Below(g, m + 1)
    BY <2>2
  <2> HIDE DEF g, Below
  <2> QED
    BY <1>1, <2>3
<1>6. PICK L : Below(L, N + 1)
  <2>1. \A m \in 0 .. (N + 1) - 1 : m \in T => m + 1 \in T
    BY <1>5
  <2>2. \A m \in 0 .. N + 1 : m \in T
    <3>1. N + 1 \in Nat
      BY <1>1
    <3> HIDE DEF T, N
    <3> QED
      BY <1>4, <2>1, <3>1, InductionUpTo
  <2> QED
    BY <1>1, <2>2
<1> DEFINE G == Step(L)
<1>7. G = Step(G)
  <2>1. ASSUME NEW u \in Upstreams PROVE G[u] = Flat(G, u)
    <3>1. \A v \in Upstreams : L[v] = G[v]
      BY <1>1, <1>6
    <3>2. G[u] = Flat(L, u)
      OBVIOUS
    <3>3. Flat(L, u) = Flat(G, u)
      <4> HIDE DEF G
      <4> QED
        BY <1>2, <1>3, <3>1
    <3> QED
      BY <3>2, <3>3
  <2> QED
    BY <2>1
<1>8. Leaves = Step(Leaves)
  <2>1. Leaves = CHOOSE l : l = Step(l)
    BY Zenon DEF Leaves, Flat
  <2> HIDE DEF G, Step
  <2> QED
    BY <1>7, <2>1, Zenon
<1>9. DOMAIN Leaves = Upstreams /\ \A u \in Upstreams : Leaves[u] = Flat(Leaves, u)
  <2> HIDE DEF Leaves
  <2> QED
    BY <1>8
<1> DEFINE U == {m \in 0 .. N + 1 : \A u \in Upstreams : Depth[u] < m => Leaves[u] \in Seq(Upstreams)}
<1>10. 0 \in U
  BY <1>1
<1>11. ASSUME NEW m \in 0 .. (N + 1) - 1, m \in U PROVE m + 1 \in U
  <2>1. ASSUME NEW u \in Upstreams, Depth[u] < m + 1 PROVE Leaves[u] \in Seq(Upstreams)
    <3>1. CASE u \notin Fallthroughs
      <4>1. Leaves[u] = <<u>>
        BY <1>9, <3>1, Zenon DEF Flat
      <4>2. <<u>> \in Seq(Upstreams)
        OBVIOUS
      <4> QED
        BY <4>1, <4>2
    <3>2. CASE u \in Fallthroughs
      <4> DEFINE parts == [i \in DOMAIN Children[u] |-> Leaves[Children[u][i]]]
      <4>1. ASSUME NEW i \in DOMAIN Children[u] PROVE Leaves[Children[u][i]] \in Seq(Upstreams)
        <5>1. Children[u][i] \in Upstreams /\ Depth[Children[u][i]] < m
          BY <1>1, <1>2, <2>1, <3>2
        <5> QED
          BY <1>11, <5>1
      <4>2. Children[u] \in Seq(Upstreams)
        BY <3>2, FallthroughAssumption
      <4>3. parts \in Seq(Seq(Upstreams))
        BY <4>1, <4>2
      <4>4. Leaves[u] = FlattenSeq(parts)
        BY <1>9, <3>2 DEF Flat
      <4> HIDE DEF parts
      <4> QED
        BY <4>3, <4>4, FlattenSeqParts
    <3> QED
      BY <3>1, <3>2
  <2>2. m + 1 \in 0 .. N + 1
    BY <1>1
  <2> QED
    BY <2>1, <2>2
<1>12. \A u \in Upstreams : Leaves[u] \in Seq(Upstreams)
  <2>1. \A m \in 0 .. (N + 1) - 1 : m \in U => m + 1 \in U
    BY <1>11
  <2>2. \A m \in 0 .. N + 1 : m \in U
    <3>1. N + 1 \in Nat
      BY <1>1
    <3> HIDE DEF U, N
    <3> QED
      BY <1>10, <2>1, <3>1, InductionUpTo
  <2> QED
    BY <1>1, <2>2
<1> QED
  BY <1>9, <1>12

-----------------------------------------------------------------------------
(* Places in the flat list of the root.                                    *)

\* What is flattened into the list of f, and where each of it begins.
Parts(f) == [i \in DOMAIN Children[f] |-> Leaves[Children[f][i]]]
Place(f) == CHOOSE off : Offsets(Parts(f), off)

\* The n-th of f begins at Place(f)[n - 1], where the one before it ends.
LEMMA Places ==
    ASSUME NEW f \in Fallthroughs
    PROVE  /\ Len(Children[f]) \in Nat /\ DOMAIN Children[f] = 1 .. Len(Children[f])
           /\ Place(f) \in [0 .. Len(Children[f]) -> Nat]
           /\ Place(f)[0] = 0 /\ Place(f)[Len(Children[f])] = Len(Leaves[f])
           /\ \A n \in 1 .. Len(Children[f]) :
                 /\ Children[f][n] \in Upstreams
                 /\ Place(f)[n] = Place(f)[n - 1] + Len(Leaves[Children[f][n]])
                 /\ \A j \in 1 .. Len(Leaves[Children[f][n]]) :
                       Leaves[f][Place(f)[n - 1] + j] = Leaves[Children[f][n]][j]
<1> DEFINE len == Len(Children[f])
<1>1. f \in Upstreams /\ Children[f] \in Seq(Upstreams)
  BY FallthroughAssumption
<1>2. len \in Nat /\ DOMAIN Children[f] = 1 .. len /\ \A n \in 1 .. len : Children[f][n] \in Upstreams
  BY <1>1
<1>3. /\ Parts(f) \in Seq(Seq(Upstreams)) /\ Len(Parts(f)) = len
      /\ \A n \in 1 .. len : Parts(f)[n] = Leaves[Children[f][n]]
  <2>1. \A u \in Upstreams : Leaves[u] \in Seq(Upstreams)
    BY LeavesUnfold
  <2> HIDE DEF Leaves
  <2> QED
    BY <1>2, <2>1 DEF Parts
<1>4. Leaves[f] = FlattenSeq(Parts(f))
  <2>1. Leaves[f] = Flat(Leaves, f)
    BY <1>1, LeavesUnfold
  <2> QED
    BY <2>1 DEF Flat, Parts
<1>5. Offsets(Parts(f), Place(f))
  <2>1. \E off : Offsets(Parts(f), off)
    BY <1>3, FlattenSeqParts
  <2> QED
    BY <2>1, Zenon DEF Place
<1> HIDE DEF len
<1>6. /\ Place(f) \in [0 .. len -> Nat]
      /\ Place(f)[0] = 0 /\ Place(f)[len] = Len(Leaves[f])
      /\ \A n \in 1 .. len :
            /\ Place(f)[n] = Place(f)[n - 1] + Len(Parts(f)[n])
            /\ \A j \in 1 .. Len(Parts(f)[n]) : Leaves[f][Place(f)[n - 1] + j] = Parts(f)[n][j]
  BY <1>3, <1>4, <1>5, ZenonT(60) DEF Offsets
<1> QED
  BY <1>2, <1>3, <1>6 DEF len

LEMMA PlacesInOrder ==
    ASSUME NEW f \in Fallthroughs, NEW n \in 0 .. Len(Children[f])
    PROVE  Place(f)[n] <= Len(Leaves[f])
<1> DEFINE len == Len(Children[f])
           place == Place(f)
           T == {m \in 0 .. len : \A k \in 0 .. m : place[k] <= place[m]}
<1>1. len \in Nat /\ place \in [0 .. len -> Nat] /\ place[len] = Len(Leaves[f])
  BY Places
<1>2. ASSUME NEW m \in 0 .. len - 1 PROVE place[m] <= place[m + 1]
  <2>1. m + 1 \in 1 .. len /\ (m + 1) - 1 = m
    BY <1>1
  <2>2. Children[f][m + 1] \in Upstreams /\ place[m + 1] = place[m] + Len(Leaves[Children[f][m + 1]])
    <3>1. /\ Children[f][m + 1] \in Upstreams
          /\ place[m + 1] = place[(m + 1) - 1] + Len(Leaves[Children[f][m + 1]])
      BY <2>1, Places
    <3> QED
      BY <2>1, <3>1
  <2>3. Leaves[Children[f][m + 1]] \in Seq(Upstreams)
    BY <2>2, LeavesUnfold
  <2>4. Len(Leaves[Children[f][m + 1]]) \in Nat
    BY <2>3
  <2> HIDE DEF place
  <2>5. place[m] \in Nat
    BY <1>1
  <2> QED
    BY <2>2, <2>4, <2>5
<1> HIDE DEF place, len
<1>3. 0 \in T
  BY <1>1
<1>4. ASSUME NEW m \in 0 .. len - 1, m \in T PROVE m + 1 \in T
  <2>1. \A k \in 0 .. m + 1 : k = m + 1 \/ k \in 0 .. m
    OBVIOUS
  <2>2. m + 1 \in 0 .. len
    BY <1>1
  <2>3. \A k \in 0 .. m + 1 : place[k] \in Nat
    BY <1>1, <2>2
  <2> QED
    BY <1>1, <1>2, <1>4, <2>1, <2>2, <2>3
<1>5. \A m \in 0 .. len - 1 : m \in T => m + 1 \in T
  BY <1>4
<1>6. \A m \in 0 .. len : m \in T
  <2> HIDE DEF T
  <2> QED
    BY <1>1, <1>3, <1>5, InductionUpTo
<1>7. place[n] <= place[len]
  <2>1. len \in T /\ n \in 0 .. len
    BY <1>1, <1>6 DEF len
  <2> QED
    BY <2>1
<1> QED
  BY <1>1, <1>7 DEF place

\* The list of u is the part of that of whole that begins after p.
At(whole, p, u) ==
    /\ u \in Upstreams /\ p \in Nat
    /\ p + Len(Leaves[u]) <= Len(Leaves[whole])
    /\ \A j \in 1 .. Len(Leaves[u]) : Leaves[whole][p + j] = Leaves[u][j]

\* Within the part of a fallthrough are those of its upstreams.
LEMMA AtChild ==
    ASSUME NEW whole \in Upstreams, NEW p, NEW f \in Fallthroughs, At(whole, p, f),
           NEW n \in 0 .. Len(Children[f]) - 1
    PROVE  At(whole, p + Place(f)[n], Children[f][n + 1])
<1> DEFINE u == Children[f][n + 1]
           len == Len(Children[f])
           q == p + Place(f)[n]
<1>1. len \in Nat /\ n + 1 \in 1 .. len /\ (n + 1) - 1 = n /\ n \in 0 .. len /\ n + 1 \in 0 .. len
  BY Places
<1>2. u \in Upstreams /\ Place(f)[n] \in Nat /\ Place(f)[n + 1] \in Nat
  BY <1>1, Places
<1>3. Place(f)[n + 1] = Place(f)[n] + Len(Leaves[u])
  <2>1. Place(f)[n + 1] = Place(f)[(n + 1) - 1] + Len(Leaves[u])
    BY <1>1, Places
  <2> QED
    BY <1>1, <2>1
<1>4. ASSUME NEW j \in 1 .. Len(Leaves[u]) PROVE Leaves[f][Place(f)[n] + j] = Leaves[u][j]
  <2>1. Leaves[f][Place(f)[(n + 1) - 1] + j] = Leaves[u][j]
    BY <1>1, Places
  <2> QED
    BY <1>1, <2>1
<1>5. Place(f)[n + 1] <= Len(Leaves[f])
  BY <1>1, PlacesInOrder
<1>6. Len(Leaves[u]) \in Nat /\ Len(Leaves[f]) \in Nat /\ Len(Leaves[whole]) \in Int
  <2>1. f \in Upstreams /\ Leaves[u] \in Seq(Upstreams) /\ Leaves[f] \in Seq(Upstreams)
    BY <1>2, LeavesUnfold, FallthroughAssumption
  <2>2. Leaves[whole] \in Seq(Upstreams)
    BY LeavesUnfold
  <2> QED
    BY <2>1, <2>2
<1>7. /\ p \in Nat /\ p + Len(Leaves[f]) <= Len(Leaves[whole])
      /\ \A j \in 1 .. Len(Leaves[f]) : Leaves[whole][p + j] = Leaves[f][j]
  BY DEF At
<1>8. /\ q \in Nat /\ q + Len(Leaves[u]) <= Len(Leaves[whole])
      /\ \A j \in 1 .. Len(Leaves[u]) :
            /\ Place(f)[n] + j \in 1 .. Len(Leaves[f])
            /\ p + (Place(f)[n] + j) = q + j
  <2> DEFINE here == Place(f)[n]
             next == Place(f)[n + 1]
             inner == Len(Leaves[u])
             outer == Len(Leaves[f])
             all == Len(Leaves[whole])
  <2>1. /\ here \in Nat /\ inner \in Nat /\ outer \in Nat /\ all \in Int /\ p \in Nat
        /\ next = here + inner /\ next <= outer /\ p + outer <= all
    BY <1>2, <1>3, <1>5, <1>6, <1>7
  <2> HIDE DEF here, next, inner, outer, all
  <2>2. /\ p + here \in Nat /\ (p + here) + inner <= all
        /\ \A j \in 1 .. inner : here + j \in 1 .. outer /\ p + (here + j) = (p + here) + j
    BY <2>1
  <2> QED
    BY <2>2 DEF here, inner, outer, all
<1>9. ASSUME NEW j \in 1 .. Len(Leaves[u]) PROVE Leaves[whole][q + j] = Leaves[u][j]
  <2>1. Place(f)[n] + j \in 1 .. Len(Leaves[f]) /\ p + (Place(f)[n] + j) = q + j
    BY <1>8
  <2>2. Leaves[whole][p + (Place(f)[n] + j)] = Leaves[f][Place(f)[n] + j]
    BY <1>7, <2>1
  <2> QED
    BY <1>4, <2>1, <2>2
<1> HIDE DEF u, q
<1>10. At(whole, q, u)
  BY <1>2, <1>8, <1>9, Zenon DEF At
<1> QED
  BY <1>10 DEF u, q

-----------------------------------------------------------------------------
(* Types.                                                                  *)

\* What a call is, by its type, and the innermost one.
LEMMA CallTypes ==
    ASSUME TypeOK
    PROVE  /\ Len(calls) \in Nat /\ DOMAIN calls = 1 .. Len(calls)
           /\ root \in Upstreams /\ root \in Fallthroughs
           /\ \A i \in DOMAIN calls :
                 /\ calls[i] \in Calls /\ calls[i].of \in Fallthroughs /\ calls[i].done \in Nat
                 /\ calls[i].first_error \in Replies \cup {NoReply}
           /\ calls # <<>> => Len(calls) \in DOMAIN calls /\ call = calls[Len(calls)]
<1>1. calls \in Seq(Calls) /\ root \in Roots
  BY DEF TypeOK
<1>2. \A c \in Calls : c.of \in Fallthroughs /\ c.done \in Nat /\ c.first_error \in Replies \cup {NoReply}
  BY DEF Calls
<1>3. call = calls[Len(calls)]
  BY DEF call, Last
<1> HIDE DEF call
<1>4. /\ Len(calls) \in Nat /\ DOMAIN calls = 1 .. Len(calls)
      /\ \A i \in DOMAIN calls : calls[i] \in Calls
      /\ calls # <<>> => Len(calls) \in DOMAIN calls
  BY <1>1
<1> QED
  BY <1>1, <1>2, <1>3, <1>4, FallthroughAssumption

\* What a reply says of what was heard, for the upstreams that ask (http.rs:44-56,
\* s3.rs:60-82): only a bucket that is not asked for a name replies unheard.
LEMMA Told ==
    ASSUME TypeOK, Ask
    PROVE  /\ Upcoming \in Upstreams \ Fallthroughs
           /\ \E r \in {Found(Upcoming), Failed(Upcoming), NotFound} :
                 /\ r \in Replies /\ reply' = r /\ asked' = Append(asked, r)
                 /\ \/ heard' = heard /\ r.kind = "not_found"
                    \/ \E response \in Accepted \cup Absences \cup Failures :
                          /\ heard' = Append(heard, response)
                          /\ r.kind = "found" <=> response \in Accepted
                          /\ r.kind = "not_found" <=> response \in Absences
                          /\ r.kind = "error" <=> response \in Failures
<1> DEFINE u == Upcoming
<1>1. u \in Upstreams
  <2>1. /\ call \in Calls /\ call.of \in Fallthroughs
        /\ call.done + 1 \in 1 .. Len(Children[call.of])
    BY CallTypes DEF Ask, HasNext
  <2> QED
    BY <2>1, Places DEF Upcoming
<1>2. Found(u) \in Replies /\ Failed(u) \in Replies /\ NotFound \in Replies
  BY <1>1 DEF Found, Failed, NotFound, Replies
<1>3. /\ Found(u).kind = "found" /\ Failed(u).kind = "error" /\ NotFound.kind = "not_found"
  BY DEF Found, Failed, NotFound
<1> HIDE DEF u
<1>4. CASE AskHttp(u)
  <2>1. PICK response \in {"2xx", "3xx", "404", "4xx", "5xx", "no_response", "no_url"} :
          Reply(HttpReply(u, response)) /\ Hear(response)
    BY <1>4 DEF AskHttp
  <2>2. HttpReply(u, response) = IF response = "404" THEN NotFound
                                 ELSE IF response \in {"2xx", "3xx"} THEN Found(u) ELSE Failed(u)
    BY <2>1 DEF HttpReply
  <2>3. u \notin Fallthroughs
    BY <1>4 DEF AskHttp
  <2> QED
    BY <1>1, <1>2, <1>3, <2>1, <2>2, <2>3 DEF u, Reply, Hear, Accepted, Absences, Failures
<1>5. CASE AskS3(u)
  <2>1. u \notin Fallthroughs
    BY <1>5, FallthroughAssumption DEF AskS3
  <2>2. CASE Reply(NotFound) /\ UNCHANGED heard
    BY <1>1, <1>2, <1>3, <2>1, <2>2 DEF u, Reply
  <2>3. CASE \E response \in {"object", "no_such_key", "s3_error", "no_response"} :
               Reply(S3Reply(u, response)) /\ Hear(response)
    <3>1. PICK response \in {"object", "no_such_key", "s3_error", "no_response"} :
               Reply(S3Reply(u, response)) /\ Hear(response)
      BY <2>3
    <3>2. S3Reply(u, response) = IF response = "object" THEN Found(u)
                                 ELSE IF response = "no_such_key" THEN NotFound ELSE Failed(u)
      BY <3>1 DEF S3Reply
    <3> QED
      BY <1>1, <1>2, <1>3, <2>1, <3>1, <3>2 DEF u, Reply, Hear, Accepted, Absences, Failures
  <2> QED
    BY <1>5, <2>2, <2>3 DEF AskS3
<1> QED
  BY <1>4, <1>5 DEF Ask, u

\* Continue changes the innermost call alone.
LEMMA ContinueCalls ==
    ASSUME TypeOK, Continue
    PROVE  /\ calls' \in Seq(Calls) /\ Len(calls') = Len(calls)
           /\ \A i \in 1 .. Len(calls) :
                 /\ calls'[i].of = calls[i].of
                 /\ i # Len(calls) => calls'[i] = calls[i]
           /\ calls'[Len(calls)].done = calls[Len(calls)].done + 1
           /\ calls'[Len(calls)].first_error =
                 IF reply.kind = "error" /\ calls[Len(calls)].first_error = NoReply
                 THEN reply ELSE calls[Len(calls)].first_error
<1> DEFINE top == Len(calls)
           keep == reply.kind = "error" /\ call.first_error = NoReply
           fresh == IF keep THEN reply ELSE calls[top].first_error
           one == [calls EXCEPT ![top].done = @ + 1]
           two == [one EXCEPT ![top].first_error = fresh]
<1>1. top \in DOMAIN calls /\ calls[top] \in Calls /\ call = calls[top]
  BY CallTypes DEF Continue
<1>2. fresh \in Replies \cup {NoReply}
  <2>1. reply \in Replies \cup {NoReply} /\ calls[top].first_error \in Replies \cup {NoReply}
    BY <1>1, CallTypes DEF TypeOK
  <2> QED
    BY <2>1
<1>3. calls' = two
  BY <1>1 DEF Continue
<1>4. fresh = IF reply.kind = "error" /\ calls[top].first_error = NoReply
              THEN reply ELSE calls[top].first_error
  BY <1>1
<1>5. calls \in Seq(Calls)
  BY DEF TypeOK
<1> HIDE DEF fresh
<1>6. /\ one \in Seq(Calls) /\ Len(one) = top
      /\ \A i \in 1 .. top : one[i] = IF i = top THEN [calls[top] EXCEPT !.done = @ + 1] ELSE calls[i]
  BY <1>1, <1>5 DEF Calls
<1> HIDE DEF one
<1>7. one[top] = [calls[top] EXCEPT !.done = @ + 1] /\ one[top] \in Calls
  BY <1>1, <1>5, <1>6
<1>8. /\ two \in Seq(Calls) /\ Len(two) = top
      /\ \A i \in 1 .. top : two[i] = IF i = top THEN [one[top] EXCEPT !.first_error = fresh] ELSE one[i]
  <2> DEFINE c == [one[top] EXCEPT !.first_error = fresh]
  <2>1. c \in Calls
    BY <1>2, <1>7 DEF Calls
  <2>2. two = [one EXCEPT ![top] = c]
    OBVIOUS
  <2>3. top \in 1 .. top
    BY <1>1, <1>5
  <2> HIDE DEF c, two, top
  <2>4. two \in Seq(Calls) /\ Len(two) = Len(one)
    BY <1>6, <2>1, <2>2, <2>3, ExceptSeq
  <2>5. DOMAIN one = 1 .. top
    BY <1>6
  <2>6. \A i \in DOMAIN one : two[i] = IF i = top THEN c ELSE one[i]
    BY <2>2, <2>5, <2>3
  <2> QED
    BY <1>6, <2>4, <2>5, <2>6 DEF c
<1>9. one[top].of = calls[top].of /\ one[top].done = calls[top].done + 1
  BY <1>1, <1>7 DEF Calls
<1>10. /\ two[top].of = one[top].of /\ two[top].done = one[top].done
       /\ two[top].first_error = fresh
  <2>1. two[top] = [one[top] EXCEPT !.first_error = fresh]
    BY <1>1, <1>5, <1>8
  <2> HIDE DEF two, top
  <2> QED
    BY <1>7, <2>1 DEF Calls
<1> HIDE DEF two
<1> QED
  BY <1>3, <1>4, <1>6, <1>8, <1>9, <1>10

\* Every variable keeps its type.
THEOREM FallthroughTypeCorrect == Spec => []TypeOK
<1>1. Init => TypeOK
  BY FallthroughAssumption DEF Init, TypeOK, Begin, Calls
<1>2. TypeOK /\ [Next]_vars => TypeOK'
  <2> SUFFICES ASSUME TypeOK, [Next]_vars PROVE TypeOK'
    OBVIOUS
  <2> USE DEF TypeOK
  <2>1. CASE Enter
    <3>1. Begin(Upcoming) \in Calls
      BY <2>1 DEF Enter, Begin, Calls
    <3> QED
      BY <2>1, <3>1 DEF Enter
  <2>2. CASE Ask
    <3>1. PICK r \in Replies :
            /\ reply' = r /\ asked' = Append(asked, r)
            /\ \/ heard' = heard
               \/ \E response \in Accepted \cup Absences \cup Failures :
                     heard' = Append(heard, response)
      BY <2>2, Told
    <3>2. UNCHANGED <<root, bare, calls, result>>
      BY <2>2 DEF Ask
    <3>3. heard' \in Seq(Accepted \cup Absences \cup Failures)
      <4>1. heard \in Seq(Accepted \cup Absences \cup Failures)
        OBVIOUS
      <4>2. \A S : \A h \in Seq(S) : \A x \in S : Append(h, x) \in Seq(S)
        OBVIOUS
      <4> QED
        BY <3>1, <4>1, <4>2, Zenon
    <3> QED
      BY <3>1, <3>2, <3>3
  <2>3. CASE Return
    BY <2>3 DEF Return, Front
  <2>4. CASE Continue
    BY <2>4, ContinueCalls DEF Continue
  <2>5. CASE Exhausted
    <3>1. call \in Calls
      BY <2>5 DEF Exhausted, call, Last
    <3>2. reply' \in Replies
      BY <2>5, <3>1 DEF Exhausted, Calls, NotFound, Replies
    <3> QED
      BY <2>5, <3>2 DEF Exhausted, Front
  <2>6. CASE Done
    BY <2>6 DEF Done
  <2>7. CASE UNCHANGED vars
    BY <2>7 DEF vars
  <2> QED
    BY <2>1, <2>2, <2>3, <2>4, <2>5, <2>6, <2>7 DEF Next, Over
<1> QED
  BY <1>1, <1>2, PTL DEF Spec

-----------------------------------------------------------------------------
(* The invariant.                                                          *)

\* How many upstreams are before the one that call i awaits or is to ask next,
\* if the list of call i begins after start[i].
Before(start, i) == start[i] + Place(calls[i].of)[calls[i].done]

\* There is no success among the first q replies.
NoneFound(replies, q) == \A j \in 1 .. q : replies[j].kind # "found"

\* Of the replies after p, up to q, r is the first error, or NoReply without one.
FirstError(replies, r, p, q) ==
    /\ p \in Nat /\ q \in Nat /\ p <= q /\ q <= Len(replies)
    /\ \/ r = NoReply /\ \A j \in p + 1 .. q : replies[j].kind # "error"
       \/ \E i \in p + 1 .. q :
             /\ r = replies[i] /\ replies[i].kind = "error"
             /\ \A j \in p + 1 .. i - 1 : replies[j].kind # "error"

\* Each call is at its place in the list of the root, which is the one where
\* the call around it awaits it, and its first_error is of the part of the list
\* that it is done with.
Nested(start) ==
    /\ start \in [Nat -> Nat]
    /\ \A i \in DOMAIN calls :
          /\ calls[i].done <= Len(Children[calls[i].of])
          /\ At(root, start[i], calls[i].of)
          /\ FirstError(asked, calls[i].first_error, start[i], Before(start, i))
          /\ i = 1 => calls[i].of = root /\ start[i] = 0
          /\ i # 1 => /\ calls[i - 1].done < Len(Children[calls[i - 1].of])
                      /\ calls[i].of = Children[calls[i - 1].of][calls[i - 1].done + 1]
                      /\ start[i] = Before(start, i - 1)

\* The innermost call goes on when all before have been asked in vain.
Going(start) ==
    /\ calls # <<>> /\ Len(asked) = Before(start, Len(calls))
    /\ NoneFound(asked, Len(asked))

\* A success is that of the last upstream that was asked.
Succeeded ==
    /\ asked # <<>> /\ reply = asked[Len(asked)] /\ Len(asked) <= Len(Leaves[root])
    /\ NoneFound(asked, Len(asked) - 1)

\* Without one, u has asked all of its list, and its reply is the first error.
Exhausting(p, u) ==
    /\ NoneFound(asked, Len(asked)) /\ Len(asked) = p + Len(Leaves[u])
    /\ \/ reply.kind = "error" /\ FirstError(asked, reply, p, Len(asked))
       \/ reply = NotFound /\ FirstError(asked, NoReply, p, Len(asked))

\* The replies so far, of those asked in turn and of the last call that returned.
Replied(start) ==
    /\ reply = NoReply => Going(start)
    /\ reply # NoReply /\ reply.kind = "found" => Succeeded
    /\ reply # NoReply /\ reply.kind # "found" =>
          \/ calls = <<>> /\ Exhausting(0, root)
          \/ calls # <<>> /\ HasNext /\ Exhausting(Before(start, Len(calls)), Upcoming)

Ended == result # NoReply => calls = <<>> /\ result = reply

\* What was heard is what the replies say of it.
Heard ==
    /\ NoneFound(asked, Len(asked)) => ToSet(heard) \cap Accepted = {}
    /\ (\A j \in 1 .. Len(asked) : asked[j].kind = "not_found") => ToSet(heard) \subseteq Absences
    /\ (\E j \in 1 .. Len(asked) : asked[j].kind = "error") => ToSet(heard) \cap Failures # {}
    /\ asked # <<>> /\ asked[Len(asked)].kind = "found" /\ NoneFound(asked, Len(asked) - 1) =>
          /\ heard # <<>> /\ Last(heard) \in Accepted
          /\ ToSet(Front(heard)) \cap Accepted = {}

\* The inductive invariant: the calls in progress are places in one list.
IInv == TypeOK /\ Heard /\ Ended /\ \E start : Nested(start) /\ Replied(start)

-----------------------------------------------------------------------------
(* Lemmas on first errors.                                                 *)

LEMMA FirstErrorAppend ==
    ASSUME NEW s \in Seq(Replies), NEW x \in Replies, NEW r, NEW p, NEW q, FirstError(s, r, p, q)
    PROVE  FirstError(Append(s, x), r, p, q)
<1> DEFINE t == Append(s, x)
<1>1. Len(s) \in Nat /\ Len(t) = Len(s) + 1 /\ \A i \in 1 .. Len(s) : t[i] = s[i]
  OBVIOUS
<1>2. p \in Nat /\ q \in Nat /\ p <= q /\ q <= Len(s)
  BY DEF FirstError
<1>3. \A j \in p + 1 .. q : j \in 1 .. Len(s) /\ t[j] = s[j]
  BY <1>1, <1>2
<1> HIDE DEF t
<1>4. CASE r = NoReply /\ \A j \in p + 1 .. q : s[j].kind # "error"
  BY <1>1, <1>2, <1>3, <1>4 DEF FirstError
<1>5. ASSUME NEW i \in p + 1 .. q, r = s[i], s[i].kind = "error",
             \A j \in p + 1 .. i - 1 : s[j].kind # "error"
      PROVE  FirstError(t, r, p, q)
  <2>1. \A j \in p + 1 .. i - 1 : j \in p + 1 .. q
    BY <1>2
  <2>2. /\ r = t[i] /\ t[i].kind = "error"
        /\ \A j \in p + 1 .. i - 1 : t[j].kind # "error"
    BY <1>3, <1>5, <2>1
  <2>3. q <= Len(t)
    BY <1>1, <1>2
  <2> QED
    BY <1>2, <2>2, <2>3, Zenon DEF FirstError
<1> QED
  BY <1>4, <1>5 DEF FirstError, t

\* The first error of two parts is that of the first part that has one.
LEMMA FirstErrorJoin ==
    ASSUME NEW s \in Seq(Replies), NEW a, NEW b, NEW p, NEW q, NEW t,
           FirstError(s, a, p, q), FirstError(s, b, q, t)
    PROVE  FirstError(s, IF a = NoReply THEN b ELSE a, p, t)
<1>1. /\ p \in Nat /\ q \in Nat /\ t \in Nat /\ p <= q /\ q <= t /\ t <= Len(s)
  BY DEF FirstError
<1>2. /\ \A j \in p + 1 .. t : j \in p + 1 .. q \/ j \in q + 1 .. t
      /\ \A j \in p + 1 .. q : j \in p + 1 .. t
      /\ \A j \in q + 1 .. t : j \in p + 1 .. t
  BY <1>1
<1>3. \A i \in q + 1 .. t : \A j \in p + 1 .. i - 1 : j \in p + 1 .. q \/ j \in q + 1 .. i - 1
  BY <1>1
<1>4. ASSUME NEW i \in p + 1 .. q, a = s[i] PROVE a # NoReply
  <2>1. i \in 1 .. Len(s)
    BY <1>1
  <2> QED
    BY <1>4, <2>1, FallthroughAssumption
<1>5. CASE a = NoReply
  <2>1. \A j \in p + 1 .. q : s[j].kind # "error"
    BY <1>4, <1>5, Zenon DEF FirstError
  <2>2. CASE b = NoReply /\ \A j \in q + 1 .. t : s[j].kind # "error"
    BY <1>1, <1>2, <1>5, <2>1, <2>2 DEF FirstError
  <2>3. ASSUME NEW i \in q + 1 .. t, b = s[i], s[i].kind = "error",
               \A j \in q + 1 .. i - 1 : s[j].kind # "error"
        PROVE  FirstError(s, b, p, t)
    <3>1. i \in p + 1 .. t /\ \A j \in p + 1 .. i - 1 : s[j].kind # "error"
      BY <1>2, <1>3, <2>1, <2>3, Zenon
    <3>2. p <= t
      BY <1>1
    <3> QED
      BY <1>1, <2>3, <3>1, <3>2, Zenon DEF FirstError
  <2> QED
    BY <1>5, <2>2, <2>3, Zenon DEF FirstError
<1>6. CASE a # NoReply
  <2>1. PICK i \in p + 1 .. q : /\ a = s[i] /\ s[i].kind = "error"
                                /\ \A j \in p + 1 .. i - 1 : s[j].kind # "error"
    BY <1>6, Zenon DEF FirstError
  <2>2. i \in p + 1 .. t /\ p <= t
    BY <1>1, <1>2
  <2> QED
    BY <1>1, <1>6, <2>1, <2>2, Zenon DEF FirstError
<1> QED
  BY <1>5, <1>6

LEMMA AppendSet ==
    ASSUME NEW S, NEW s \in Seq(S), NEW x
    PROVE  /\ ToSet(Append(s, x)) = ToSet(s) \cup {x}
           /\ Front(Append(s, x)) = s /\ Last(Append(s, x)) = x /\ Append(s, x) # <<>>
<1> DEFINE t == Append(s, x)
<1>1. /\ Len(s) \in Nat /\ DOMAIN s = 1 .. Len(s)
      /\ Len(t) = Len(s) + 1 /\ DOMAIN t = 1 .. Len(s) + 1
      /\ t[Len(s) + 1] = x /\ \A i \in 1 .. Len(s) : t[i] = s[i]
  OBVIOUS
<1>2. t # <<>> /\ Front(t) = s
  BY DEF Front
<1>3. Last(t) = x
  BY <1>1 DEF Last
<1>4. ToSet(t) = ToSet(s) \cup {x}
  <2> HIDE DEF t
  <2>1. \A i \in DOMAIN t : i \in DOMAIN s \/ i = Len(s) + 1
    BY <1>1
  <2>2. (\A i \in DOMAIN s : i \in DOMAIN t) /\ Len(s) + 1 \in DOMAIN t
    BY <1>1
  <2> QED
    BY <1>1, <2>1, <2>2 DEF ToSet
<1> QED
  BY <1>2, <1>3, <1>4

-----------------------------------------------------------------------------
(* What was heard.                                                         *)

\* An upstream is asked when all before were asked in vain.
LEMMA AskHeard ==
    ASSUME TypeOK, Heard, NoneFound(asked, Len(asked)), Ask
    PROVE  Heard'
<1>1. PICK r \in Replies :
        /\ asked' = Append(asked, r)
        /\ \/ heard' = heard /\ r.kind = "not_found"
           \/ \E response \in Accepted \cup Absences \cup Failures :
                 /\ heard' = Append(heard, response)
                 /\ r.kind = "found" <=> response \in Accepted
                 /\ r.kind = "not_found" <=> response \in Absences
                 /\ r.kind = "error" <=> response \in Failures
  BY Told
<1>2. /\ Len(asked) \in Nat /\ asked' # <<>> /\ Len(asked') = Len(asked) + 1
      /\ asked'[Len(asked) + 1] = r
      /\ \A j \in 1 .. Len(asked) : asked'[j] = asked[j]
  BY <1>1 DEF TypeOK
<1>3. /\ \A j \in 1 .. Len(asked) + 1 : j \in 1 .. Len(asked) \/ j = Len(asked) + 1
      /\ \A j \in 1 .. Len(asked) : j \in 1 .. Len(asked) + 1
      /\ Len(asked) + 1 \in 1 .. Len(asked) + 1 /\ Len(asked') - 1 = Len(asked)
  BY <1>2
<1>4. ToSet(heard) \cap Accepted = {}
  BY DEF Heard
<1>5. /\ NoneFound(asked', Len(asked')) <=> r.kind # "found"
      /\ NoneFound(asked', Len(asked') - 1)
  BY <1>2, <1>3 DEF NoneFound
<1>6. /\ (\A j \in 1 .. Len(asked') : asked'[j].kind = "not_found")
            => r.kind = "not_found" /\ ToSet(heard) \subseteq Absences
      /\ (\E j \in 1 .. Len(asked') : asked'[j].kind = "error")
            => r.kind = "error" \/ ToSet(heard) \cap Failures # {}
  BY <1>2, <1>3, Zenon DEF Heard
<1>7. CASE heard' = heard /\ r.kind = "not_found"
  <2>1. asked'[Len(asked')].kind = "not_found"
    BY <1>2, <1>7
  <2> QED
    BY <1>4, <1>5, <1>6, <1>7, <2>1 DEF Heard
<1>8. ASSUME NEW response \in Accepted \cup Absences \cup Failures,
             heard' = Append(heard, response),
             r.kind = "found" <=> response \in Accepted,
             r.kind = "not_found" <=> response \in Absences,
             r.kind = "error" <=> response \in Failures
      PROVE  Heard'
  <2>1. heard \in Seq(Accepted \cup Absences \cup Failures)
    BY DEF TypeOK
  <2>2. /\ ToSet(heard') = ToSet(heard) \cup {response}
        /\ Front(heard') = heard /\ Last(heard') = response /\ heard' # <<>>
    BY <1>8, <2>1, AppendSet
  <2>3. asked'[Len(asked')].kind = r.kind
    BY <1>2
  <2>4. NoneFound(asked', Len(asked')) => ToSet(heard') \cap Accepted = {}
    BY <1>4, <1>5, <1>8, <2>2
  <2>5. (\A j \in 1 .. Len(asked') : asked'[j].kind = "not_found") => ToSet(heard') \subseteq Absences
    BY <1>6, <1>8, <2>2
  <2>6. (\E j \in 1 .. Len(asked') : asked'[j].kind = "error") => ToSet(heard') \cap Failures # {}
    <3>1. response \in ToSet(heard') /\ ToSet(heard) \subseteq ToSet(heard')
      BY <2>2
    <3> QED
      BY <1>6, <1>8, <3>1, Zenon
  <2>7. r.kind = "found" => /\ heard' # <<>> /\ Last(heard') \in Accepted
                            /\ ToSet(Front(heard')) \cap Accepted = {}
    BY <1>4, <1>8, <2>2
  <2> QED
    BY <2>3, <2>4, <2>5, <2>6, <2>7, Zenon DEF Heard
<1> QED
  BY <1>1, <1>7, <1>8

-----------------------------------------------------------------------------
(* The steps.                                                              *)

LEMMA LeafList ==
    ASSUME NEW u \in Upstreams \ Fallthroughs
    PROVE  Len(Leaves[u]) = 1 /\ Leaves[u][1] = u
<1>1. Leaves[u] = <<u>>
  BY LeavesUnfold, Zenon DEF Flat
<1>2. Len(<<u>>) = 1 /\ <<u>>[1] = u
  OBVIOUS
<1> QED
  BY <1>1, <1>2, Zenon

\* Each call is at a place.
LEMMA CallPlace ==
    ASSUME TypeOK, NEW start, Nested(start), NEW i \in DOMAIN calls
    PROVE  /\ calls[i].of \in Fallthroughs /\ Len(Children[calls[i].of]) \in Nat
           /\ calls[i].done \in 0 .. Len(Children[calls[i].of])
           /\ start[i] \in Nat /\ Before(start, i) \in Nat
<1>1. /\ calls[i].of \in Fallthroughs /\ calls[i].done \in Nat
      /\ calls[i].done <= Len(Children[calls[i].of])
      /\ start[i] \in Nat
  <2>1. calls[i].of \in Fallthroughs /\ calls[i].done \in Nat /\ i \in Nat
    BY CallTypes
  <2>2. start \in [Nat -> Nat] /\ calls[i].done <= Len(Children[calls[i].of])
    BY Zenon DEF Nested
  <2> QED
    BY <2>1, <2>2
<1>2. Len(Children[calls[i].of]) \in Nat
  BY <1>1, Places
<1>3. calls[i].done \in 0 .. Len(Children[calls[i].of])
  BY <1>1, <1>2
<1>4. Place(calls[i].of)[calls[i].done] \in Nat
  BY <1>1, <1>3, Places
<1> QED
  BY <1>1, <1>2, <1>3, <1>4 DEF Before

\* The next upstream of the innermost call is at the place it has come to.
LEMMA UpcomingPlace ==
    ASSUME TypeOK, NEW start, Nested(start), calls # <<>>, HasNext
    PROVE  LET top == Len(calls) IN
           /\ Upcoming \in Upstreams /\ Upcoming = Children[calls[top].of][calls[top].done + 1]
           /\ At(root, Before(start, top), Upcoming)
           /\ calls[top].done < Len(Children[calls[top].of])
           /\ start[top] + Place(calls[top].of)[calls[top].done + 1]
                 = Before(start, top) + Len(Leaves[Upcoming])
           /\ Len(Leaves[Upcoming]) \in Nat
<1> DEFINE top == Len(calls)
           f == calls[top].of
           n == calls[top].done
<1>1. top \in DOMAIN calls /\ call = calls[top] /\ root \in Upstreams
  BY CallTypes
<1>2. n < Len(Children[f]) /\ Upcoming = Children[f][n + 1]
  BY <1>1 DEF HasNext, Upcoming
<1>3. /\ f \in Fallthroughs /\ Len(Children[f]) \in Nat /\ n \in 0 .. Len(Children[f])
      /\ start[top] \in Nat
  BY <1>1, CallPlace
<1>4. At(root, start[top], f)
  BY <1>1 DEF Nested
<1>5. n \in 0 .. Len(Children[f]) - 1 /\ n + 1 \in 1 .. Len(Children[f]) /\ (n + 1) - 1 = n
  BY <1>2, <1>3
<1> HIDE DEF f, n
<1>6. At(root, start[top] + Place(f)[n], Children[f][n + 1])
  BY <1>1, <1>3, <1>4, <1>5, AtChild
<1>7. Children[f][n + 1] \in Upstreams /\ Place(f)[n + 1] = Place(f)[n] + Len(Leaves[Children[f][n + 1]])
  <2>1. Place(f)[n + 1] = Place(f)[(n + 1) - 1] + Len(Leaves[Children[f][n + 1]])
    BY <1>3, <1>5, Places
  <2> QED
    BY <1>3, <1>5, <2>1, Places
<1>8. Len(Leaves[Children[f][n + 1]]) \in Nat
  <2>1. Leaves[Children[f][n + 1]] \in Seq(Upstreams)
    BY <1>7, LeavesUnfold
  <2> QED
    BY <2>1
<1>9. Place(f)[n] \in Nat
  BY <1>3, Places
<1>10. Before(start, top) = start[top] + Place(f)[n]
  BY DEF Before, f, n
<1>11. start[top] + Place(f)[n + 1] = Before(start, top) + Len(Leaves[Children[f][n + 1]])
  BY <1>3, <1>7, <1>8, <1>9, <1>10
<1> QED
  BY <1>2, <1>6, <1>7, <1>8, <1>10, <1>11 DEF f, n

\* A nested fallthrough begins where the call around it has come to.
LEMMA EnterStep ==
    ASSUME TypeOK, NEW start, Nested(start), Replied(start), Enter
    PROVE  \E s : (Nested(s) /\ Replied(s))'
<1>1. /\ calls # <<>> /\ reply = NoReply /\ HasNext /\ Upcoming \in Fallthroughs
      /\ calls' = Append(calls, Begin(Upcoming))
      /\ UNCHANGED <<root, bare, reply, heard, asked, result>>
  BY DEF Enter
<1>2. PICK n \in Nat : n = Len(calls)
  BY CallTypes
<1>3. n \in DOMAIN calls /\ n + 1 \in Nat /\ n + 1 # n /\ n # 0 /\ DOMAIN calls = 1 .. n
  BY <1>1, <1>2, CallTypes
<1>4. PICK p \in Nat : p = Before(start, n)
  BY <1>3, CallPlace
<1>5. /\ At(root, p, Upcoming) /\ calls[n].done < Len(Children[calls[n].of])
      /\ Upcoming = Children[calls[n].of][calls[n].done + 1]
  BY <1>1, <1>2, <1>4, UpcomingPlace
<1>6. Len(asked) = p /\ NoneFound(asked, Len(asked))
  BY <1>1, <1>2, <1>4 DEF Replied, Going
<1>7. /\ calls' # <<>> /\ Len(calls') = n + 1 /\ DOMAIN calls' = 1 .. n + 1
      /\ \A i \in 1 .. n : calls'[i] = calls[i]
      /\ calls'[n + 1] = Begin(Upcoming)
  <2>1. calls \in Seq(Calls)
    BY DEF TypeOK
  <2> QED
    BY <1>1, <1>2, <2>1, AppendProperties
<1>8. /\ calls'[n + 1].of = Upcoming /\ calls'[n + 1].done = 0
      /\ calls'[n + 1].first_error = NoReply
  BY <1>7 DEF Begin
<1> DEFINE s == [start EXCEPT ![n + 1] = p]
<1>9. start \in [Nat -> Nat]
  BY DEF Nested
<1>10. s \in [Nat -> Nat] /\ s[n + 1] = p /\ \A i \in 1 .. n : s[i] = start[i]
  BY <1>3, <1>4, <1>9, SMTT(30)
<1> HIDE DEF s
<1>11. Before(s, n + 1)' = p
  <2>1. Place(Upcoming)[0] = 0
    BY <1>1, Places
  <2> QED
    BY <1>8, <1>10, <2>1 DEF Before
<1>12. \A i \in 1 .. n : Before(s, i)' = Before(start, i)
  BY <1>7, <1>10 DEF Before
<1>13. Nested(s)'
  <2>1. ASSUME NEW i \in 1 .. n
        PROVE  /\ calls'[i].done <= Len(Children[calls'[i].of])
               /\ At(root', s[i], calls'[i].of)
               /\ FirstError(asked', calls'[i].first_error, s[i], Before(s, i)')
               /\ i = 1 => calls'[i].of = root' /\ s[i] = 0
               /\ i # 1 => /\ calls'[i - 1].done < Len(Children[calls'[i - 1].of])
                           /\ calls'[i].of = Children[calls'[i - 1].of][calls'[i - 1].done + 1]
                           /\ s[i] = Before(s, i - 1)'
    <3>1. i # 1 => i - 1 \in 1 .. n
      OBVIOUS
    <3>2. i \in DOMAIN calls
      BY <1>3
    <3> QED
      BY <1>1, <1>7, <1>10, <1>12, <3>1, <3>2 DEF Nested
  <2>2. FirstError(asked', NoReply, p, p)
    <3>1. \A j \in p + 1 .. p : FALSE
      OBVIOUS
    <3> QED
      BY <1>1, <1>4, <1>6, <3>1 DEF FirstError
  <2>3. At(root', s[n + 1], calls'[n + 1].of)
    BY <1>1, <1>5, <1>8, <1>10, Zenon
  <2>4. calls'[n + 1].done <= Len(Children[calls'[n + 1].of])
    <3>1. Len(Children[Upcoming]) \in Nat
      BY <1>1, Places
    <3> QED
      BY <1>8, <3>1
  <2>5. (n + 1) - 1 = n /\ n + 1 # 1 /\ n \in 1 .. n /\ calls'[n] = calls[n]
    BY <1>3, <1>7
  <2>6. /\ calls'[(n + 1) - 1].done < Len(Children[calls'[(n + 1) - 1].of])
        /\ calls'[n + 1].of = Children[calls'[(n + 1) - 1].of][calls'[(n + 1) - 1].done + 1]
        /\ s[n + 1] = Before(s, (n + 1) - 1)'
    <3>1. s[n + 1] = Before(s, n)'
      BY <1>4, <1>10, <1>12, <2>5
    <3> QED
      BY <1>5, <1>8, <2>5, <3>1
  <2>7. FirstError(asked', calls'[n + 1].first_error, s[n + 1], Before(s, n + 1)')
    BY <1>8, <1>10, <1>11, <2>2
  <2>8. \A i \in DOMAIN calls' : i \in 1 .. n \/ i = n + 1
    BY <1>7
  <2> QED
    BY <1>10, <2>1, <2>3, <2>4, <2>5, <2>6, <2>7, <2>8 DEF Nested
<1>14. Replied(s)'
  BY <1>1, <1>6, <1>7, <1>11 DEF Replied, Going
<1> QED
  BY <1>13, <1>14

\* The upstream that is asked is the next in the list of the root.
LEMMA AskStep ==
    ASSUME TypeOK, NEW start, Nested(start), Replied(start), Ask
    PROVE  /\ (Nested(start) /\ Replied(start))'
           /\ NoneFound(asked, Len(asked)) /\ Len(asked) < Len(Leaves[root])
           /\ Leaves[root][Len(asked) + 1] = Upcoming
<1>1. calls # <<>> /\ reply = NoReply /\ HasNext /\ UNCHANGED <<root, bare, calls, result>>
  BY DEF Ask
<1>2. PICK r \in {Found(Upcoming), Failed(Upcoming), NotFound} :
        r \in Replies /\ reply' = r /\ asked' = Append(asked, r)
  BY Told
<1>3. Upcoming \in Upstreams \ Fallthroughs
  BY Told
<1>4. Len(Leaves[Upcoming]) = 1 /\ Leaves[Upcoming][1] = Upcoming
  BY <1>3, LeafList
<1>5. PICK p \in Nat : p = Before(start, Len(calls))
  BY <1>1, CallPlace, CallTypes
<1>6. At(root, p, Upcoming)
  BY <1>1, <1>5, UpcomingPlace
<1>7. Len(asked) = p /\ NoneFound(asked, Len(asked))
  BY <1>1, <1>5 DEF Replied, Going
<1>8. p + 1 <= Len(Leaves[root]) /\ Leaves[root][p + 1] = Upcoming
  BY <1>4, <1>6 DEF At
<1>9. Len(Leaves[root]) \in Nat
  <2>1. Leaves[root] \in Seq(Upstreams)
    BY CallTypes, LeavesUnfold
  <2> QED
    BY <2>1
<1>10. asked \in Seq(Replies)
  BY DEF TypeOK
<1>11. /\ Len(asked') = p + 1 /\ asked'[p + 1] = r /\ asked' # <<>>
       /\ \A j \in 1 .. p : asked'[j] = asked[j]
  BY <1>2, <1>7, <1>10
<1>12. r # NoReply
  BY <1>2, FallthroughAssumption
<1>13. NoneFound(asked', p)
  BY <1>7, <1>11 DEF NoneFound
<1>14. Nested(start)'
  <2>1. \A q, a, b : FirstError(asked, a, b, q) => FirstError(asked', a, b, q)
    BY <1>2, <1>10, FirstErrorAppend
  <2>2. \A i : Before(start, i)' = Before(start, i)
    BY <1>1 DEF Before
  <2> QED
    BY <1>1, <2>1, <2>2, Zenon DEF Nested
<1>15. /\ HasNext' /\ Upcoming' = Upcoming /\ Before(start, Len(calls))' = p /\ calls' # <<>>
  BY <1>1, <1>5 DEF HasNext, Upcoming, call, Before
<1>16. CASE r = Found(Upcoming)
  <2>1. r.kind = "found"
    BY <1>16 DEF Found
  <2>2. (p + 1) - 1 = p
    OBVIOUS
  <2>3. Succeeded'
    BY <1>1, <1>2, <1>8, <1>11, <1>13, <2>2 DEF Succeeded
  <2>4. Replied(start)'
    BY <1>2, <1>12, <2>1, <2>3 DEF Replied
  <2> QED
    BY <1>7, <1>8, <1>9, <1>14, <2>4
<1>17. CASE r \in {Failed(Upcoming), NotFound}
  <2>1. r.kind = "error" \/ (r = NotFound /\ r.kind = "not_found")
    BY <1>17 DEF Failed, NotFound
  <2>2. r.kind # "found"
    BY <2>1
  <2>3. NoneFound(asked', p + 1)
    <3>1. \A j \in 1 .. p + 1 : j \in 1 .. p \/ j = p + 1
      OBVIOUS
    <3> QED
      BY <1>11, <1>13, <2>2, <3>1 DEF NoneFound
  <2>4. p + 1 \in p + 1 .. p + 1 /\ p <= p + 1 /\ p + 1 \in Nat
        /\ \A j \in p + 1 .. (p + 1) - 1 : FALSE
    OBVIOUS
  <2>5. ASSUME r.kind = "error" PROVE Exhausting(p, Upcoming)'
    <3>1. FirstError(asked', r, p, p + 1)
      BY <1>11, <2>4, <2>5 DEF FirstError
    <3> QED
      BY <1>2, <1>4, <1>11, <1>15, <2>3, <2>5, <3>1 DEF Exhausting
  <2>6. ASSUME r = NotFound, r.kind = "not_found" PROVE Exhausting(p, Upcoming)'
    <3>1. FirstError(asked', NoReply, p, p + 1)
      <4>1. \A j \in p + 1 .. p + 1 : j = p + 1
        OBVIOUS
      <4> QED
        BY <1>11, <2>4, <2>6, <4>1 DEF FirstError
    <3> QED
      BY <1>2, <1>4, <1>11, <1>15, <2>3, <2>6, <3>1 DEF Exhausting
  <2>7. Exhausting(p, Upcoming)'
    BY <2>1, <2>5, <2>6
  <2>8. Replied(start)'
    BY <1>2, <1>12, <1>15, <2>2, <2>7 DEF Replied
  <2> QED
    BY <1>7, <1>8, <1>9, <1>14, <2>8
<1> QED
  BY <1>2, <1>16, <1>17

\* When a call returns, those around it are where they were.
LEMMA Pop ==
    ASSUME TypeOK, NEW start, Nested(start), calls # <<>>,
           calls' = Front(calls), UNCHANGED <<root, asked>>
    PROVE  /\ Nested(start)'
           /\ Len(calls') = Len(calls) - 1 /\ Len(calls') \in Nat
           /\ calls' = <<>> <=> Len(calls) = 1
           /\ \A i \in 1 .. Len(calls) - 1 : calls'[i] = calls[i]
<1>1. /\ Len(calls) \in Nat \ {0} /\ DOMAIN calls = 1 .. Len(calls)
      /\ Len(calls') = Len(calls) - 1 /\ DOMAIN calls' = 1 .. Len(calls) - 1
      /\ \A i \in 1 .. Len(calls) - 1 : calls'[i] = calls[i]
      /\ calls' = <<>> <=> Len(calls) = 1
  <2>1. calls \in Seq(Calls)
    BY DEF TypeOK
  <2>2. Len(calls) \in Nat \ {0} /\ DOMAIN calls = 1 .. Len(calls)
    BY <2>1
  <2>3. calls' = SubSeq(calls, 1, Len(calls) - 1)
    BY DEF Front
  <2>4. /\ calls' \in Seq(Calls) /\ Len(calls') = Len(calls) - 1
        /\ \A i \in 1 .. Len(calls) - 1 : calls'[i] = calls[i]
    BY <2>1, <2>2, <2>3
  <2>5. DOMAIN calls' = 1 .. Len(calls')
    BY <2>4
  <2>6. calls' = <<>> <=> Len(calls) = 1
    BY <2>2, <2>4, EmptySeq
  <2> QED
    BY <2>2, <2>4, <2>5, <2>6
<1>2. \A i \in 1 .. Len(calls) - 1 : i \in DOMAIN calls /\ (i # 1 => i - 1 \in 1 .. Len(calls) - 1)
  BY <1>1
<1>3. \A i \in 1 .. Len(calls) - 1 : Before(start, i)' = Before(start, i)
  BY <1>1 DEF Before
<1>4. Nested(start)'
  <2>1. start \in [Nat -> Nat]
    BY DEF Nested
  <2>2. ASSUME NEW i \in 1 .. Len(calls) - 1
        PROVE  /\ calls'[i].done <= Len(Children[calls'[i].of])
               /\ At(root', start[i], calls'[i].of)
               /\ FirstError(asked', calls'[i].first_error, start[i], Before(start, i)')
               /\ i = 1 => calls'[i].of = root' /\ start[i] = 0
               /\ i # 1 => /\ calls'[i - 1].done < Len(Children[calls'[i - 1].of])
                           /\ calls'[i].of = Children[calls'[i - 1].of][calls'[i - 1].done + 1]
                           /\ start[i] = Before(start, i - 1)'
    BY <1>1, <1>2, <1>3 DEF Nested
  <2> QED
    BY <1>1, <2>1, <2>2 DEF Nested
<1> QED
  BY <1>1, <1>4

\* A success is handed on.
LEMMA ReturnStep ==
    ASSUME TypeOK, NEW start, Nested(start), Replied(start), Return
    PROVE  (Nested(start) /\ Replied(start))'
<1>1. /\ calls # <<>> /\ reply # NoReply /\ reply.kind = "found" /\ calls' = Front(calls)
      /\ UNCHANGED <<root, bare, reply, heard, asked, result>>
  BY DEF Return
<1>2. Nested(start)'
  BY <1>1, Pop
<1>3. Succeeded
  BY <1>1 DEF Replied
<1>4. Succeeded'
  BY <1>1, <1>3 DEF Succeeded
<1> QED
  BY <1>1, <1>2, <1>4 DEF Replied

\* The call has come to the next place of its list, and its first_error is that
\* of the part before and of the upstream that has replied.
LEMMA ContinueStep ==
    ASSUME TypeOK, NEW start, Nested(start), Replied(start), Continue
    PROVE  (Nested(start) /\ Replied(start))'
<1>1. /\ calls # <<>> /\ reply # NoReply /\ reply.kind # "found" /\ reply' = NoReply
      /\ UNCHANGED <<root, bare, heard, asked, result>>
  BY DEF Continue
<1>2. PICK n \in Nat : n = Len(calls)
  BY CallTypes
<1>3. n \in DOMAIN calls /\ n \in 1 .. n /\ DOMAIN calls = 1 .. n
  BY <1>1, <1>2, CallTypes
<1>4. PICK p \in Nat : p = Before(start, n)
  BY <1>3, CallPlace
<1> DEFINE c == calls[n]
           fresh == IF c.first_error = NoReply
                    THEN IF reply.kind = "error" THEN reply ELSE NoReply
                    ELSE c.first_error
<1>5. HasNext /\ Exhausting(p, Upcoming)
  BY <1>1, <1>2, <1>4 DEF Replied
<1>6. /\ c.done < Len(Children[c.of])
      /\ start[n] + Place(c.of)[c.done + 1] = p + Len(Leaves[Upcoming])
  BY <1>1, <1>2, <1>4, <1>5, UpcomingPlace
<1>7. /\ calls' \in Seq(Calls) /\ Len(calls') = n
      /\ \A i \in 1 .. n : calls'[i].of = calls[i].of /\ (i # n => calls'[i] = calls[i])
      /\ calls'[n].done = c.done + 1
      /\ calls'[n].first_error =
            IF reply.kind = "error" /\ c.first_error = NoReply THEN reply ELSE c.first_error
  BY <1>2, ContinueCalls
<1>8. calls'[n].first_error = fresh /\ DOMAIN calls' = 1 .. n /\ calls' # <<>>
  BY <1>3, <1>7
<1>9. Len(asked) = p + Len(Leaves[Upcoming]) /\ NoneFound(asked, Len(asked))
  BY <1>5 DEF Exhausting
<1>10. FirstError(asked, IF reply.kind = "error" THEN reply ELSE NoReply, p, Len(asked))
  <2>1. NotFound.kind # "error"
    BY DEF NotFound
  <2> QED
    BY <1>5, <2>1 DEF Exhausting
<1>11. FirstError(asked, c.first_error, start[n], p)
  BY <1>3, <1>4 DEF Nested
<1>12. FirstError(asked, fresh, start[n], Len(asked))
  <2>1. asked \in Seq(Replies)
    BY DEF TypeOK
  <2>2. \A a, b, x, q, t : FirstError(asked, a, x, q) /\ FirstError(asked, b, q, t)
           => FirstError(asked, IF a = NoReply THEN b ELSE a, x, t)
    BY <2>1, FirstErrorJoin
  <2> DEFINE last == IF reply.kind = "error" THEN reply ELSE NoReply
             len == Len(asked)
  <2>3. fresh = IF c.first_error = NoReply THEN last ELSE c.first_error
    OBVIOUS
  <2> HIDE DEF fresh, last, c, len
  <2>4. FirstError(asked, IF c.first_error = NoReply THEN last ELSE c.first_error, start[n], len)
    BY <1>10, <1>11, <2>2, Zenon DEF last, len
  <2> QED
    BY <2>3, <2>4 DEF len
<1> HIDE DEF fresh
<1>13. Before(start, n)' = Len(asked)
  <2>1. calls'[n].of = c.of /\ calls'[n].done = c.done + 1
    BY <1>3, <1>7
  <2> HIDE DEF c
  <2> QED
    BY <1>6, <1>9, <2>1 DEF Before
<1>14. \A i \in 1 .. n : i # n => Before(start, i)' = Before(start, i)
  BY <1>7 DEF Before
<1>15. Nested(start)'
  <2>1. start \in [Nat -> Nat]
    BY DEF Nested
  <2>2. ASSUME NEW i \in 1 .. n
        PROVE  /\ At(root', start[i], calls'[i].of)
               /\ i = 1 => calls'[i].of = root' /\ start[i] = 0
               /\ i # 1 => /\ calls'[i - 1].done < Len(Children[calls'[i - 1].of])
                           /\ calls'[i].of = Children[calls'[i - 1].of][calls'[i - 1].done + 1]
                           /\ start[i] = Before(start, i - 1)'
    <3>1. i # 1 => i - 1 \in 1 .. n /\ i - 1 # n
      OBVIOUS
    <3>2. calls'[i].of = calls[i].of /\ (i # 1 => calls'[i - 1] = calls[i - 1])
      BY <1>7, <3>1
    <3>3. /\ At(root, start[i], calls[i].of)
          /\ i = 1 => calls[i].of = root /\ start[i] = 0
          /\ i # 1 => /\ calls[i - 1].done < Len(Children[calls[i - 1].of])
                      /\ calls[i].of = Children[calls[i - 1].of][calls[i - 1].done + 1]
                      /\ start[i] = Before(start, i - 1)
      BY <1>3, Zenon DEF Nested
    <3> QED
      BY <1>1, <1>14, <3>1, <3>2, <3>3
  <2>3. ASSUME NEW i \in 1 .. n
        PROVE  /\ calls'[i].done <= Len(Children[calls'[i].of])
               /\ FirstError(asked', calls'[i].first_error, start[i], Before(start, i)')
    <3>1. CASE i = n
      <4>1. c.done + 1 <= Len(Children[c.of])
        <5>1. c.done \in Nat /\ Len(Children[c.of]) \in Nat
          BY <1>3, CallPlace
        <5> QED
          BY <1>6, <5>1
      <4> QED
        BY <1>1, <1>3, <1>7, <1>8, <1>12, <1>13, <3>1, <4>1
    <3>2. CASE i # n
      <4>1. calls'[i] = calls[i]
        BY <1>7, <3>2
      <4> QED
        BY <1>1, <1>3, <1>14, <3>2, <4>1 DEF Nested
    <3> QED
      BY <3>1, <3>2
  <2> QED
    BY <1>8, <2>1, <2>2, <2>3 DEF Nested
<1>16. Going(start)'
  BY <1>1, <1>7, <1>8, <1>9, <1>13 DEF Going
<1> QED
  BY <1>1, <1>15, <1>16 DEF Replied

\* A call that is done with its list has come to the end of its part of the
\* root's, and so has the upstream that the call around it awaits.
LEMMA ExhaustedStep ==
    ASSUME TypeOK, NEW start, Nested(start), Replied(start), Exhausted
    PROVE  (Nested(start) /\ Replied(start))'
<1>1. /\ calls # <<>> /\ reply = NoReply /\ ~ HasNext /\ calls' = Front(calls)
      /\ reply' = (IF call.first_error # NoReply THEN call.first_error ELSE NotFound)
      /\ UNCHANGED <<root, bare, heard, asked, result>>
  BY DEF Exhausted
<1>2. PICK n \in Nat : n = Len(calls)
  BY CallTypes
<1>3. n \in DOMAIN calls /\ n # 0 /\ call = calls[n] /\ DOMAIN calls = 1 .. n
  BY <1>1, <1>2, CallTypes
<1>4. PICK f \in Fallthroughs : f = calls[n].of
  BY <1>3, CallPlace
<1>5. calls[n].done = Len(Children[f]) /\ start[n] \in Nat
  <2>1. calls[n].done \in 0 .. Len(Children[f]) /\ Len(Children[f]) \in Nat /\ start[n] \in Nat
    BY <1>3, <1>4, CallPlace
  <2>2. ~ (calls[n].done < Len(Children[f]))
    BY <1>1, <1>3, <1>4 DEF HasNext
  <2> QED
    BY <2>1, <2>2
<1>6. Before(start, n) = start[n] + Len(Leaves[f])
  BY <1>4, <1>5, Places DEF Before
<1>7. Len(asked) = start[n] + Len(Leaves[f]) /\ NoneFound(asked, Len(asked))
  BY <1>1, <1>2, <1>6 DEF Replied, Going
<1>8. FirstError(asked, calls[n].first_error, start[n], Len(asked))
  BY <1>3, <1>6, <1>7 DEF Nested
<1>9. Exhausting(start[n], f)' /\ reply' # NoReply /\ reply'.kind # "found"
  <2>1. NotFound.kind = "not_found" /\ NotFound # NoReply
    <3>1. NotFound \in Replies
      BY DEF NotFound, Replies
    <3> QED
      BY <3>1, FallthroughAssumption DEF NotFound
  <2>2. CASE calls[n].first_error # NoReply
    <3>1. reply' = calls[n].first_error
      BY <1>1, <1>3, <2>2
    <3>2. calls[n].first_error.kind = "error"
      BY <1>8, <2>2, Zenon DEF FirstError
    <3> QED
      BY <1>1, <1>7, <1>8, <2>2, <3>1, <3>2 DEF Exhausting
  <2>3. CASE calls[n].first_error = NoReply
    <3>1. reply' = NotFound
      BY <1>1, <1>3, <2>3
    <3> QED
      BY <1>1, <1>7, <1>8, <2>1, <2>3, <3>1 DEF Exhausting
  <2> QED
    BY <2>2, <2>3
<1>10. /\ Nested(start)' /\ Len(calls') = n - 1 /\ (calls' = <<>> <=> n = 1)
       /\ \A i \in 1 .. n - 1 : calls'[i] = calls[i]
  BY <1>1, <1>2, Pop
<1>11. CASE n = 1
  <2>1. calls' = <<>> /\ f = root' /\ start[n] = 0
    BY <1>1, <1>3, <1>4, <1>10, <1>11 DEF Nested
  <2>2. Exhausting(0, root)'
    BY <1>9, <2>1 DEF Exhausting
  <2> QED
    BY <1>9, <1>10, <2>1, <2>2 DEF Replied
<1>12. CASE n # 1
  <2>1. n - 1 \in 1 .. n - 1 /\ calls' # <<>>
    BY <1>3, <1>10, <1>12
  <2>2. call' = calls[n - 1] /\ calls'[n - 1] = calls[n - 1]
    BY <1>10, <2>1 DEF call, Last
  <2>3. /\ calls[n - 1].done < Len(Children[calls[n - 1].of])
        /\ f = Children[calls[n - 1].of][calls[n - 1].done + 1]
        /\ start[n] = Before(start, n - 1)
    BY <1>3, <1>4, <1>12, Zenon DEF Nested
  <2>4. HasNext' /\ Upcoming' = f /\ Before(start, Len(calls))' = start[n]
    BY <1>10, <2>2, <2>3 DEF HasNext, Upcoming, Before
  <2>5. Exhausting(Before(start, Len(calls)), Upcoming)'
    BY <1>9, <2>4 DEF Exhausting
  <2> QED
    BY <1>9, <1>10, <2>1, <2>4, <2>5 DEF Replied
<1> QED
  BY <1>11, <1>12

-----------------------------------------------------------------------------
(* Theorems.                                                               *)

LEMMA InitNested == Init => \E start : Nested(start) /\ Replied(start)
<1> SUFFICES ASSUME Init PROVE \E start : Nested(start) /\ Replied(start)
  OBVIOUS
<1> DEFINE start == [i \in Nat |-> 0]
<1>1. /\ root \in Fallthroughs /\ root \in Upstreams /\ calls = <<Begin(root)>>
      /\ reply = NoReply /\ asked = <<>>
  BY FallthroughAssumption DEF Init
<1>2. /\ calls # <<>> /\ Len(calls) = 1 /\ DOMAIN calls = {1} /\ calls[1] = Begin(root)
      /\ Len(asked) = 0
  BY <1>1
<1>3. calls[1].of = root /\ calls[1].done = 0 /\ calls[1].first_error = NoReply
  BY <1>2 DEF Begin
<1>4. Before(start, 1) = 0 /\ Len(Children[root]) \in Nat
  <2>1. Place(root)[0] = 0 /\ Len(Children[root]) \in Nat
    BY <1>1, Places
  <2> QED
    BY <1>3, <2>1 DEF Before
<1>5. At(root, 0, root)
  <2>1. Leaves[root] \in Seq(Upstreams)
    BY <1>1, LeavesUnfold
  <2>2. Len(Leaves[root]) \in Nat
    BY <2>1
  <2> QED
    BY <1>1, <2>2 DEF At
<1>6. FirstError(asked, NoReply, 0, 0) /\ NoneFound(asked, 0)
  BY <1>2 DEF FirstError, NoneFound
<1>7. start \in [Nat -> Nat] /\ start[1] = 0
  OBVIOUS
<1> HIDE DEF start
<1>8. Nested(start)
  BY <1>2, <1>3, <1>4, <1>5, <1>6, <1>7, SMTT(30) DEF Nested
<1>9. Replied(start)
  BY <1>1, <1>2, <1>4, <1>6 DEF Replied, Going
<1> QED
  BY <1>8, <1>9

LEMMA InvariantStep == IInv /\ TypeOK' /\ [Next]_vars => IInv'
<1> SUFFICES ASSUME IInv, TypeOK', [Next]_vars PROVE IInv'
  OBVIOUS
<1> USE DEF IInv
<1>1. PICK start : Nested(start) /\ Replied(start)
  OBVIOUS
<1>2. CASE Enter
  <2>1. \E s : (Nested(s) /\ Replied(s))'
    BY <1>1, <1>2, EnterStep
  <2>2. Heard' /\ Ended'
    BY <1>2 DEF Enter, Heard, Ended
  <2> QED
    BY <2>1, <2>2
<1>3. CASE Ask
  <2>1. (Nested(start) /\ Replied(start))' /\ NoneFound(asked, Len(asked))
    BY <1>1, <1>3, AskStep
  <2>2. Heard'
    BY <1>3, <2>1, AskHeard
  <2>3. Ended'
    BY <1>3 DEF Ask, Ended
  <2> QED
    BY <2>1, <2>2, <2>3
<1>4. CASE Return
  <2>1. (Nested(start) /\ Replied(start))'
    BY <1>1, <1>4, ReturnStep
  <2>2. Heard' /\ Ended'
    BY <1>4 DEF Return, Heard, Ended
  <2> QED
    BY <2>1, <2>2
<1>5. CASE Continue
  <2>1. (Nested(start) /\ Replied(start))'
    BY <1>1, <1>5, ContinueStep
  <2>2. Heard' /\ Ended'
    BY <1>5 DEF Continue, Heard, Ended
  <2> QED
    BY <2>1, <2>2
<1>6. CASE Exhausted
  <2>1. (Nested(start) /\ Replied(start))'
    BY <1>1, <1>6, ExhaustedStep
  <2>2. Heard' /\ Ended'
    BY <1>6 DEF Exhausted, Heard, Ended
  <2> QED
    BY <2>1, <2>2
<1>7. CASE Done
  <2>1. UNCHANGED <<root, bare, calls, reply, heard, asked>>
    BY <1>7 DEF Done
  <2>2. (Nested(start) /\ Replied(start))'
    <3>1. \A i : Before(start, i)' = Before(start, i)
      BY <2>1 DEF Before
    <3>2. Nested(start)'
      BY <1>1, <2>1, <3>1 DEF Nested
    <3>3. Replied(start)'
      BY <1>1, <2>1 DEF Replied, Going, Succeeded, Exhausting, Before, HasNext, Upcoming, call
    <3> QED
      BY <3>2, <3>3
  <2>3. Heard' /\ Ended'
    BY <1>7 DEF Done, Heard, Ended
  <2> QED
    BY <2>2, <2>3
<1>8. CASE UNCHANGED vars
  <2>1. (Nested(start) /\ Replied(start))'
    BY <1>1, <1>8 DEF vars, Nested, Before, Replied, Going, Succeeded, Exhausting, HasNext, Upcoming, call
  <2>2. Heard' /\ Ended'
    BY <1>8 DEF vars, Heard, Ended
  <2> QED
    BY <2>1, <2>2
<1> QED
  BY <1>2, <1>3, <1>4, <1>5, <1>6, <1>7, <1>8 DEF Next, Over

\* The calls in progress are places in one flat list, and the replies so far
\* are those of the part of it before the innermost one.
THEOREM FallthroughInvariant == Spec => []IInv
<1>1. Init /\ TypeOK => IInv
  <2> SUFFICES ASSUME Init, TypeOK PROVE Heard /\ Ended
    BY InitNested DEF IInv
  <2>1. heard = <<>> /\ asked = <<>> /\ result = NoReply
    BY DEF Init
  <2>2. ToSet(heard) = {} /\ Len(asked) = 0
    BY <2>1 DEF ToSet
  <2> QED
    BY <2>1, <2>2 DEF Heard, Ended
<1> QED
  BY <1>1, InvariantStep, FallthroughTypeCorrect, PTL DEF Spec

\* What a call that is over has come to.
LEMMA Outcome ==
    ASSUME IInv, calls = <<>>
    PROVE  /\ reply \in Replies /\ reply # NoReply
           /\ reply.kind = "found" => Succeeded
           /\ reply.kind # "found" => Exhausting(0, root)
<1>1. PICK start : Replied(start)
  BY DEF IInv
<1>2. reply # NoReply
  BY <1>1 DEF Replied, Going
<1> QED
  BY <1>1, <1>2 DEF IInv, TypeOK, Replied

\* Without a success, and without an error, all is absence.
LEMMA Absent ==
    ASSUME TypeOK, NoneFound(asked, Len(asked))
    PROVE  \A j \in 1 .. Len(asked) : asked[j].kind # "error" => asked[j].kind = "not_found"
<1>1. \A r \in Replies : r.kind \in {"found", "error", "not_found"}
  BY DEF Replies
<1>2. \A j \in 1 .. Len(asked) : asked[j] \in Replies
  BY DEF TypeOK
<1> QED
  BY <1>1, <1>2 DEF NoneFound

\* A result is true of the world: a failure never passes for absence, nor is a
\* success passed over (fallthrough.rs:18-36).
THEOREM FallthroughResultJustified == Spec => []ResultIsJustified
<1>1. IInv => ResultIsJustified
  <2> SUFFICES ASSUME IInv, result # NoReply PROVE ResultIsJustified
    BY DEF ResultIsJustified
  <2>1. calls = <<>> /\ result = reply /\ TypeOK /\ Heard
    BY DEF IInv, Ended
  <2>2. result.kind \in {"found", "error", "not_found"}
    BY <2>1, Outcome DEF Replies
  <2>3. CASE result.kind = "found"
    <3>1. Succeeded
      BY <2>1, <2>3, Outcome
    <3>2. Last(heard) \in Accepted /\ ToSet(Front(heard)) \cap Accepted = {}
      BY <2>1, <2>3, <3>1 DEF Succeeded, Heard
    <3> QED
      BY <2>3, <3>2 DEF ResultIsJustified
  <2>4. CASE result.kind # "found"
    <3>1. Exhausting(0, root) /\ NoneFound(asked, Len(asked))
      BY <2>1, <2>4, Outcome DEF Exhausting
    <3>2. CASE result.kind = "error"
      <4>1. FirstError(asked, reply, 0, Len(asked)) /\ reply # NoReply
        <5>1. NotFound.kind = "not_found"
          BY DEF NotFound
        <5> QED
          BY <2>1, <3>1, <3>2, <5>1, Outcome DEF Exhausting
      <4>2. \E j \in 1 .. Len(asked) : asked[j].kind = "error"
        BY <4>1 DEF FirstError
      <4> QED
        BY <2>1, <3>1, <3>2, <4>2 DEF Heard, ResultIsJustified
    <3>3. CASE result.kind = "not_found"
      <4>1. FirstError(asked, NoReply, 0, Len(asked))
        BY <2>1, <3>1, <3>3 DEF Exhausting
      <4>2. \A j \in 1 .. Len(asked) : asked[j].kind # "error"
        <5>1. \A j \in 1 .. Len(asked) : asked[j] # NoReply
          BY <2>1, FallthroughAssumption DEF TypeOK
        <5> QED
          BY <4>1, <5>1 DEF FirstError
      <4>3. ToSet(heard) \subseteq Absences
        BY <2>1, <3>1, <4>2, Absent DEF Heard
      <4> QED
        BY <3>3, <4>3 DEF ResultIsJustified
    <3> QED
      BY <2>2, <2>4, <3>2, <3>3
  <2> QED
    BY <2>3, <2>4
<1> QED
  BY <1>1, FallthroughInvariant, PTL

\* However fallthroughs are nested, upstreams are asked in the order of one flat
\* list, and the result is what is promised of that list (config.rs:118-120).
THEOREM FallthroughImplementsOrder == Spec => ImplementsOrder
<1>1. Init => Promise!Init
  BY DEF Init, Promise!Init
<1>2. IInv /\ [Next]_vars => [Promise!Ask \/ Promise!Conclude]_(Promise!vars)
  <2> SUFFICES ASSUME IInv, [Next]_vars
               PROVE  Promise!Ask \/ Promise!Conclude \/ UNCHANGED Promise!vars
    OBVIOUS
  <2>1. TypeOK /\ Ended
    BY DEF IInv
  <2>2. CASE Ask
    <3>1. PICK start : Nested(start) /\ Replied(start)
      BY DEF IInv
    <3>2. /\ NoneFound(asked, Len(asked)) /\ Len(asked) < Len(Leaves[root])
          /\ Leaves[root][Len(asked) + 1] = Upcoming
      BY <2>1, <2>2, <3>1, AskStep
    <3>3. \E r \in {Found(Upcoming), Failed(Upcoming), NotFound} : asked' = Append(asked, r)
      BY <2>1, <2>2, Told
    <3>4. result = NoReply /\ UNCHANGED <<root, result>>
      BY <2>1, <2>2 DEF Ask, Ended
    <3>5. \A i \in DOMAIN asked : asked[i].kind # "found"
      BY <2>1, <3>2 DEF TypeOK, NoneFound
    <3>6. Promise!Ask
      BY <3>2, <3>3, <3>4, <3>5
         DEF Promise!Ask, Promise!Found, Promise!Failed, Promise!NotFound, Found, Failed, NotFound
    <3> QED
      BY <3>6
  <2>3. CASE Done
    <3>1. calls = <<>> /\ result = NoReply /\ result' = reply /\ UNCHANGED <<root, asked>>
      BY <2>3 DEF Done
    <3>2. DOMAIN asked = 1 .. Len(asked)
      BY <2>1 DEF TypeOK
    <3>3. CASE reply.kind = "found"
      <4>1. Succeeded
        BY <3>1, <3>3, Outcome
      <4> QED
        BY <3>1, <3>3, <4>1 DEF Succeeded, Promise!Conclude
    <3>4. CASE reply.kind # "found"
      <4>1. /\ Exhausting(0, root) /\ NoneFound(asked, Len(asked))
            /\ Len(asked) = Len(Leaves[root])
        <5>1. Exhausting(0, root)
          BY <3>1, <3>4, Outcome
        <5>2. Leaves[root] \in Seq(Upstreams)
          BY <2>1, CallTypes, LeavesUnfold
        <5>3. Len(Leaves[root]) \in Nat
          BY <5>2
        <5> QED
          BY <5>1, <5>3 DEF Exhausting
      <4>2. \A j \in 1 .. Len(asked) : /\ asked[j] # NoReply /\ asked[j].kind # "found"
                                       /\ asked[j].kind # "error" => asked[j].kind = "not_found"
        <5>1. \A j \in 1 .. Len(asked) : asked[j] # NoReply
          BY <2>1, FallthroughAssumption DEF TypeOK
        <5> QED
          BY <2>1, <4>1, <5>1, Absent DEF NoneFound
      <4>3. CASE reply.kind = "error" /\ FirstError(asked, reply, 0, Len(asked))
        <5>1. PICK i \in 1 .. Len(asked) :
                /\ reply = asked[i] /\ asked[i].kind = "error"
                /\ \A j \in 1 .. i - 1 : asked[j].kind # "error"
          <6>1. reply # NoReply
            BY <3>1, Outcome
          <6> QED
            BY <4>3, <6>1 DEF FirstError
        <5>2. \A j \in 1 .. i - 1 : asked[j].kind = "not_found"
          <6>1. \A j \in 1 .. i - 1 : j \in 1 .. Len(asked)
            BY <2>1 DEF TypeOK
          <6> QED
            BY <4>2, <5>1, <6>1
        <5> QED
          BY <3>1, <3>2, <4>1, <4>2, <5>1, <5>2 DEF Promise!Conclude
      <4>4. CASE reply = NotFound /\ FirstError(asked, NoReply, 0, Len(asked))
        <5>1. \A j \in 1 .. Len(asked) : asked[j].kind # "error"
          BY <4>2, <4>4 DEF FirstError
        <5>2. \A j \in DOMAIN asked : asked[j].kind = "not_found"
          BY <3>2, <4>2, <5>1
        <5> QED
          BY <3>1, <4>1, <4>4, <5>2 DEF Promise!Conclude, Promise!NotFound, NotFound
      <4> QED
        BY <4>1, <4>3, <4>4 DEF Exhausting
    <3> QED
      BY <3>3, <3>4
  <2>4. CASE UNCHANGED <<root, asked, result>>
    BY <2>4 DEF Promise!vars
  <2>5. Enter \/ Return \/ Continue \/ Exhausted \/ Over => UNCHANGED <<root, asked, result>>
    BY DEF Enter, Return, Continue, Exhausted, Over, vars
  <2>6. UNCHANGED vars => UNCHANGED <<root, asked, result>>
    BY DEF vars
  <2> QED
    BY <2>2, <2>3, <2>4, <2>5, <2>6 DEF Next
<1> QED
  BY <1>1, <1>2, FallthroughInvariant, PTL DEF Spec, ImplementsOrder, Promise!Spec

=============================================================================
