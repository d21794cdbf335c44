---------------------------- MODULE CacheProofs ----------------------------
(***************************************************************************)
(* Proofs about Cache, for any requests, keys, sizes and capacity: its     *)
(* inductive invariant, the pool, and the list.                            *)
(***************************************************************************)
EXTENDS Cache, ByteTotalsTheorems, SequenceTheorems

Inv == TypeOK /\ Conservation /\ StructureInv

-----------------------------------------------------------------------------
(* The list.                                                               *)

\* The members of a list, by position.
LEMMA Members ==
    ASSUME NEW s \in Seq(Requests)
    PROVE  /\ \A c : c \in ToSet(s) <=> \E j \in 1..Len(s) : s[j] = c
           /\ ToSet(s) \subseteq Requests
<1>1. DOMAIN s = 1..Len(s) /\ \A j \in 1..Len(s) : s[j] \in Requests
  OBVIOUS
<1> QED
  BY <1>1 DEF ToSet

\* A list that grows by an entry.
LEMMA AppendList ==
    ASSUME NEW s \in Seq(Requests), NEW c \in Requests
    PROVE  Append(s, c) \in Seq(Requests) /\ ToSet(Append(s, c)) = ToSet(s) \cup {c}
<1> DEFINE t == Append(s, c)
<1>1. t \in Seq(Requests) /\ Len(t) = Len(s) + 1 /\ t[Len(s) + 1] = c
  OBVIOUS
<1>2. \A j \in 1..Len(s) : t[j] = s[j]
  OBVIOUS
<1>3. Len(s) \in Nat
  OBVIOUS
<1> HIDE DEF t
<1>4. \A d : (\E j \in 1..Len(t) : t[j] = d) <=> (\E j \in 1..Len(s) : s[j] = d) \/ d = c
  BY <1>1, <1>2, <1>3
<1>5. \A d : d \in ToSet(t) <=> d \in ToSet(s) \/ d = c
  BY <1>1, <1>4, Members
<1> QED
  BY <1>1, <1>5 DEF t

\* A list without its first entry.
LEMMA TailList ==
    ASSUME NEW s \in Seq(Requests), s # <<>>
    PROVE  /\ Tail(s) \in Seq(Requests) /\ Head(s) \in ToSet(s)
           /\ Head(s) \in Requests
           /\ ToSet(Tail(s)) \subseteq ToSet(s)
           /\ ToSet(s) \subseteq ToSet(Tail(s)) \cup {Head(s)}
<1> DEFINE t == Tail(s)
<1>1. Len(s) \in Nat /\ Len(s) > 0 /\ Head(s) = s[1]
  OBVIOUS
<1>2. /\ t \in Seq(Requests) /\ Len(t) = Len(s) - 1
      /\ \A j \in 1..Len(s)-1 : t[j] = s[j+1]
  BY <1>1
<1> HIDE DEF t
<1>3. \A j \in 1..Len(s) : j # 1 => j - 1 \in 1..Len(t) /\ t[j - 1] = s[j]
  BY <1>1, <1>2
<1>4. \A d \in ToSet(s) : d \in ToSet(t) \/ d = s[1]
  <2> TAKE d \in ToSet(s)
  <2>1. PICK j \in 1..Len(s) : s[j] = d
    BY Members
  <2>2. j # 1 => d \in ToSet(t)
    BY <1>2, <1>3, <2>1, Members
  <2> QED
    BY <2>1, <2>2
<1>5. \A d \in ToSet(t) : d \in ToSet(s)
  BY <1>1, <1>2, Members
<1>6. s[1] \in ToSet(s)
  BY <1>1, Members
<1> QED
  BY <1>1, <1>2, <1>4, <1>5, <1>6, Members DEF t

\* A list with one entry taken out, by position.
LEMMA RemoveEntry ==
    ASSUME NEW s \in Seq(Requests), NEW i \in DOMAIN s
    PROVE  /\ RemoveAt(s, i) \in Seq(Requests) /\ Len(RemoveAt(s, i)) = Len(s) - 1
           /\ \A j \in 1..Len(s)-1 :
                 RemoveAt(s, i)[j] = IF j < i THEN s[j] ELSE s[j + 1]
<1> DEFINE n == Len(s)
           left == SubSeq(s, 1, i - 1)
           right == SubSeq(s, i + 1, n)
           rest == RemoveAt(s, i)
<1>1. n \in Nat /\ i \in 1..n
  OBVIOUS
<1>2. /\ left \in Seq(Requests) /\ Len(left) = i - 1
      /\ \A j \in 1..i-1 : left[j] = s[j]
  BY <1>1
<1>3. /\ right \in Seq(Requests) /\ Len(right) = n - i
      /\ \A j \in 1..n-i : right[j] = s[i + j]
  BY <1>1
<1>4. rest = left \o right
  BY DEF RemoveAt
<1> HIDE DEF left, right
<1>5. /\ left \o right \in Seq(Requests) /\ Len(left \o right) = n - 1
      /\ \A j \in 1..n-1 : (left \o right)[j] = IF j < i THEN left[j] ELSE right[j - (i - 1)]
  <2>1. left \o right \in Seq(Requests)
    BY <1>2, <1>3
  <2>2. Len(left \o right) = Len(left) + Len(right)
    BY <1>2, <1>3, ConcatProperties
  <2>3. \A j \in 1..(Len(left) + Len(right)) :
            (left \o right)[j] = IF j <= Len(left) THEN left[j] ELSE right[j - Len(left)]
    BY <1>2, <1>3, ConcatProperties
  <2>4. Len(left) = i - 1 /\ Len(right) = n - i
    BY <1>2, <1>3
  <2>5. Len(left) + Len(right) = n - 1 /\ \A j \in 1..n-1 : j <= Len(left) <=> j < i
    <3>1. Len(left) + Len(right) = n - 1
      BY <1>1, <2>4
    <3>2. \A j \in 1..n-1 : j <= i - 1 <=> j < i
      BY <1>1
    <3> QED
      BY <2>4, <3>1, <3>2
  <2> QED
    BY <1>2, <2>1, <2>2, <2>3, <2>5
<1> HIDE DEF rest
<1>6. /\ rest \in Seq(Requests) /\ Len(rest) = n - 1
      /\ \A j \in 1..n-1 : rest[j] = IF j < i THEN s[j] ELSE s[j + 1]
  <2>1. \A j \in 1..n-1 : j >= i => right[j - (i - 1)] = s[j + 1]
    <3> TAKE j \in 1..n-1
    <3> HAVE j >= i
    <3>1. j - (i - 1) \in 1..n-i /\ i + (j - (i - 1)) = j + 1
      BY <1>1
    <3> QED
      BY <1>3, <3>1
  <2>2. \A j \in 1..n-1 : j < i => left[j] = s[j]
    BY <1>1, <1>2
  <2> QED
    BY <1>1, <1>4, <1>5, <2>1, <2>2
<1> QED
  BY <1>1, <1>6 DEF rest

\* A list with one entry taken out.
LEMMA RemoveList ==
    ASSUME NEW s \in Seq(Requests), NEW i \in DOMAIN s
    PROVE  /\ s[i] \in ToSet(s) /\ s[i] \in Requests
           /\ RemoveAt(s, i) \in Seq(Requests)
           /\ ToSet(RemoveAt(s, i)) \subseteq ToSet(s)
           /\ ToSet(s) \subseteq ToSet(RemoveAt(s, i)) \cup {s[i]}
<1> DEFINE n == Len(s)
           rest == RemoveAt(s, i)
<1>1. n \in Nat /\ i \in 1..n
  OBVIOUS
<1>6. /\ rest \in Seq(Requests) /\ Len(rest) = n - 1
      /\ \A j \in 1..n-1 : rest[j] = IF j < i THEN s[j] ELSE s[j + 1]
  BY RemoveEntry
<1> HIDE DEF rest
<1>7. \A j \in 1..n : j = i \/ \E k \in 1..n-1 : rest[k] = s[j]
  <2> TAKE j \in 1..n
  <2>1. CASE j < i
    BY <1>1, <1>6, <2>1
  <2>2. CASE j > i
    <3>1. j - 1 \in 1..n-1 /\ rest[j - 1] = s[(j - 1) + 1]
      BY <1>1, <1>6, <2>2
    <3> QED
      BY <1>1, <3>1
  <2> QED
    BY <1>1, <2>1, <2>2
<1>8. \A j \in 1..n-1 : \E k \in 1..n : s[k] = rest[j]
  <2> TAKE j \in 1..n-1
  <2>1. j \in 1..n /\ j + 1 \in 1..n
    BY <1>1
  <2> QED
    BY <1>6, <2>1
<1>9. \A d \in ToSet(s) : d \in ToSet(rest) \/ d = s[i]
  <2> TAKE d \in ToSet(s)
  <2>1. PICK j \in 1..n : s[j] = d
    BY Members
  <2>2. j # i => \E k \in 1..n-1 : rest[k] = d
    BY <1>7, <2>1
  <2>3. (\E k \in 1..n-1 : rest[k] = d) => d \in ToSet(rest)
    BY <1>6, Members
  <2> QED
    BY <2>1, <2>2, <2>3
<1>10. \A d \in ToSet(rest) : d \in ToSet(s)
  BY <1>6, <1>8, Members
<1> QED
  BY <1>1, <1>6, <1>9, <1>10, Members DEF rest

\* A list with one entry taken out and one put at the end.
LEMMA ReuseList ==
    ASSUME lru \in Seq(Requests), NEW i \in DOMAIN lru, NEW c \in Requests
    PROVE  /\ lru[i] \in ToSet(lru) /\ lru[i] \in Requests
           /\ Reuse(i, c) \in Seq(Requests)
           /\ ToSet(Reuse(i, c)) \subseteq ToSet(lru) \cup {c}
           /\ ToSet(lru) \subseteq ToSet(Reuse(i, c)) \cup {lru[i]}
           /\ c \in ToSet(Reuse(i, c))
  BY RemoveList, AppendList DEF Reuse

-----------------------------------------------------------------------------
(* What a step can do to the store.                                        *)

\* The request of a resource is past publishing it.
LEMMA ValuesArePublished ==
    ASSUME Inv, NEW c \in Requests, value[c] # None
    PROVE  value[c] \in Requests /\ pc[value[c]] \in {"clone", "stream", "done"}
  BY DEF Inv, StructureInv, ValuesAreOwned, TypeOK

\* A request that holds a cell.
LEMMA HoldsCell ==
    ASSUME Inv, NEW q \in Requests,
           pc[q] \in {"cell", "clone"} \cup Initializing
    PROVE  cellOf[q] \in Requests /\ cellOf[q] # None
  BY CacheAssumption DEF Inv, StructureInv, CellsAreHeld, TypeOK

\* Moving bytes between the pool and one reservation keeps their sum.
LEMMA TransferConserves ==
    ASSUME TypeOK, Conservation, NEW r \in Requests, NEW n \in Nat,
           available' + n = available + reserved[r], available' \in Nat,
           reserved' = [reserved EXCEPT ![r] = n]
    PROVE  Conservation'
<1>1. reserved \in [Requests -> Nat] /\ available \in Nat /\ IsFiniteSet(Requests)
  BY CacheAssumption DEF TypeOK
<1>2. TotalBytes([reserved EXCEPT ![r] = n], Requests)
        = TotalBytes(reserved, Requests) - reserved[r] + n
  <2>1. IsFiniteSet(Requests)
    BY <1>1
  <2>2. reserved \in [Requests -> Nat]
    BY <1>1
  <2> QED
    BY <2>1, <2>2, TotalExcept, Zenon
<1>3. TotalBytes(reserved, Requests) \in Nat
  BY <1>1, TotalType
<1> QED
  BY <1>1, <1>2, <1>3, CacheAssumption DEF Conservation

\* Somebody has an Arc to cell c, before and after a step.
Referenced(c) == c \in ToSet(lru) \/ \E p \in Requests : cellOf[p] = c

\* What a step that drops the last Arc to a cell does to the store, and what
\* one that drops none does too: resources that stay keep their bytes, the
\* others give theirs back, and none stays that nobody refers to.
Trimmed ==
    /\ value' \in [Requests -> Requests \cup {None}]
    /\ \A d \in Requests : value'[d] # None =>
          /\ value'[d] = value[d]
          /\ reserved'[value[d]] = reserved[value[d]]
          /\ Referenced(d)'
    /\ \A d \in Requests : Referenced(d)' => value'[d] = value[d]
    /\ \A r \in Requests : pc[r] \notin {"clone", "stream", "done"} =>
          reserved'[r] = reserved[r]
    /\ \A r \in Requests : reserved'[r] > 0 =>
          reserved[r] > 0 /\ \A d \in Requests : value[d] = r => value'[d] = r

\* A step that drops no Arc trims nothing off the store.
LEMMA KeepTrims ==
    ASSUME Inv, UNCHANGED store,
           \A d \in Requests : value[d] # None => Referenced(d)'
    PROVE  Trimmed /\ Conservation'
<1>1. value' = value /\ reserved' = reserved /\ available' = available
  BY DEF store
<1>2. Conservation'
  BY <1>1 DEF Inv, Conservation
<1> QED
  BY <1>1, <1>2 DEF Inv, TypeOK, Trimmed

\* A step that may drop the last Arc to a cell trims the store at most by that
\* cell's resource, and the pool gets its bytes back.
LEMMA ReleaseTrims ==
    ASSUME Inv, NEW c \in Requests, Release(c),
           \A d \in Requests : d # c /\ value[d] # None => Referenced(d)'
    PROVE  Trimmed /\ Conservation'
<1> USE DEF Inv
<1>1. CASE Referenced(c)' \/ value[c] = None
  <2>1. UNCHANGED store
    BY <1>1 DEF Release, Referenced
  <2>2. \A d \in Requests : value[d] # None => Referenced(d)'
    BY <1>1
  <2> QED
    BY <2>1, <2>2, KeepTrims
<1>2. CASE ~ Referenced(c)' /\ value[c] # None
  <2> DEFINE r == value[c]
  <2>1. /\ value' = [value EXCEPT ![c] = None]
        /\ available' = available + reserved[r]
        /\ reserved' = [reserved EXCEPT ![r] = 0]
    BY <1>2 DEF Release, Referenced
  <2>2. r \in Requests /\ r # None /\ pc[r] \in {"clone", "stream", "done"}
    BY <1>2, ValuesArePublished, CacheAssumption
  <2>3. Conservation'
    <3>1. /\ reserved[r] \in Nat /\ available \in Nat /\ 0 \in Nat
          /\ available' \in Nat /\ available' + 0 = available + reserved[r]
      BY <2>1, <2>2 DEF TypeOK
    <3> HIDE DEF r
    <3> QED
      BY <2>1, <2>2, <3>1, TransferConserves
  <2>4. /\ value' \in [Requests -> Requests \cup {None}] /\ value'[c] = None
        /\ \A d \in Requests : d # c => value'[d] = value[d]
    BY <2>1 DEF TypeOK
  <2>5. /\ reserved'[r] = 0
        /\ \A s \in Requests : s # r => reserved'[s] = reserved[s]
    BY <2>1, <2>2 DEF TypeOK
  <2>6. \A d \in Requests : d # c /\ value[d] # None => value[d] \in Requests /\ value[d] # r
    BY <1>2, ValuesArePublished DEF StructureInv, ValuesAreOwned
  <2>7. \A d \in Requests : value'[d] # None =>
            /\ value'[d] = value[d]
            /\ reserved'[value[d]] = reserved[value[d]]
            /\ Referenced(d)'
    BY <2>4, <2>5, <2>6
  <2>8. \A d \in Requests : Referenced(d)' => value'[d] = value[d]
    BY <1>2, <2>4
  <2>9. \A s \in Requests : reserved'[s] > 0 =>
            reserved[s] > 0 /\ \A d \in Requests : value[d] = s => value'[d] = s
    BY <2>4, <2>5
  <2>10. \A s \in Requests : pc[s] \notin {"clone", "stream", "done"} =>
            reserved'[s] = reserved[s]
    BY <2>2, <2>5
  <2> QED
    BY <2>3, <2>4, <2>7, <2>8, <2>9, <2>10 DEF Trimmed
<1> QED
  BY <1>1, <1>2

-----------------------------------------------------------------------------
(* Steps that leave the list, the cells and the store alone.               *)

\* A request moves from one place of Cache::get to another.
Moves(q, l) ==
    /\ pc' = [pc EXCEPT ![q] = l]
    /\ \/ pc[q] = "cell" /\ l = "clone" /\ value[cellOf[q]] # None
       \/ /\ pc[q] = "cell" /\ l = "fetch" /\ value[cellOf[q]] = None
          /\ \A p \in Requests : pc[p] \in Initializing => cellOf[p] # cellOf[q]
       \/ pc[q] = "fetch" /\ l = "copy"
       \/ pc[q] = "copy" /\ l = "reserve"
       \/ pc[q] = "reserve" /\ l = "want_lock"
       \/ pc[q] = "want_lock" /\ l = "evict" /\ ListIsFree
       \/ pc[q] = "retry" /\ l = "evict"
       \/ pc[q] = "evict" /\ l = "up_to" /\ lru = <<>>
       \/ pc[q] = "stream" /\ l = "done"
    /\ \A r \in Requests : size'[r] = size[r] \/ (r = q /\ pc[q] = "copy")
    /\ UNCHANGED <<cellOf, store, lru, request>>

\* A request that only goes on to its next await keeps every invariant.
LEMMA MovesStep ==
    ASSUME Inv, NEW q \in Requests, NEW l, Moves(q, l), TypeOK'
    PROVE  Inv'
<1> USE CacheAssumption DEF Inv, Moves, store, request
<1>0. pc'[q] = l /\ \A p \in Requests : p # q => pc'[p] = pc[p]
  BY DEF TypeOK
<1>1. CellsAreHeld'
  <2>1. pc[q] \in {"cell", "clone"} \cup Initializing <=> l \in {"cell", "clone"} \cup Initializing
    BY DEF Initializing
  <2> QED
    BY <1>0, <2>1 DEF StructureInv, CellsAreHeld
<1>2. CellsAreFresh'
  BY DEF StructureInv, CellsAreFresh, TypeOK
<1>3. ValuesAreOwned'
  <2>1. \A r \in Requests :
            pc[r] \in {"clone", "stream", "done"} => pc'[r] \in {"clone", "stream", "done"}
    BY DEF TypeOK
  <2>2. /\ value' = value /\ cellOf' = cellOf /\ lru' = lru
        /\ value \in [Requests -> Requests \cup {None}] /\ ValuesAreOwned
    BY DEF TypeOK, StructureInv
  <2> QED
    BY <2>1, <2>2 DEF ValuesAreOwned
<1>4. PermitsAreExclusive'
  <2>1. \A p \in Requests : pc'[p] \in Initializing =>
            \/ pc[p] \in Initializing
            \/ /\ p = q /\ value[cellOf[q]] = None
               /\ \A r \in Requests : pc[r] \in Initializing => cellOf[r] # cellOf[q]
    BY <1>0 DEF Initializing
  <2>2. cellOf' = cellOf /\ value' = value
    OBVIOUS
  <2> HIDE DEF Moves
  <2> QED
    BY <2>1, <2>2 DEF StructureInv, PermitsAreExclusive
<1>5. MutexIsExclusive'
  <2>1. \A p \in Requests : pc'[p] \in Evicting =>
            pc[p] \in Evicting \/ (p = q /\ \A r \in Requests : pc[r] \notin Evicting)
    BY DEF TypeOK, ListIsFree, Evicting
  <2>2. \A p \in Requests : pc'[p] = "up_to" => pc[p] = "up_to" \/ lru = <<>>
    BY DEF TypeOK
  <2> QED
    BY <2>1, <2>2 DEF StructureInv, MutexIsExclusive
<1>6. NoReservationLeaks'
  <2>1. reserved' = reserved /\ value' = value
    OBVIOUS
  <2>2. \A r \in Requests : pc[r] = "publish" => pc'[r] = "publish"
    BY DEF TypeOK
  <2> HIDE DEF Moves
  <2> QED
    BY <2>1, <2>2 DEF StructureInv, NoReservationLeaks, Live
<1>7. ListIsReserved'
  <2>1. \A c \in ToSet(lru) : c \in Requests
    BY Members DEF TypeOK
  <2>2. \A c \in Requests : value[c] # None =>
            value[c] \in Requests /\ size'[value[c]] = size[value[c]]
    <3>1. \A r \in Requests :
              pc[r] \in {"clone", "stream", "done"} => size'[r] = size[r]
      OBVIOUS
    <3> QED
      BY <3>1, ValuesArePublished
  <2>3. \A p \in Requests : pc'[p] = "publish" => pc[p] = "publish" /\ size'[p] = size[p]
    BY DEF TypeOK
  <2> QED
    BY <2>1, <2>2, <2>3 DEF StructureInv, ListIsReserved
<1>8. KeysAgree'
  BY DEF StructureInv, KeysAgree, TypeOK
<1>9. HeldStaysLive'
  BY DEF StructureInv, HeldStaysLive, CellsAreHeld, KeysAgree, TypeOK
<1>10. Conservation'
  BY DEF Conservation
<1> QED
  BY <1>1, <1>2, <1>3, <1>4, <1>5, <1>6, <1>7, <1>8, <1>9, <1>10 DEF StructureInv

\* An arriving request, which names its key and the time, keeps every invariant.
LEMMA ArriveStep ==
    ASSUME Inv, NEW q \in Requests, Arrive(q), TypeOK'
    PROVE  Inv'
<1> USE CacheAssumption DEF Inv, store
<1>1. /\ pc[q] = "idle" /\ cellOf' = cellOf /\ value' = value /\ lru' = lru
      /\ reserved' = reserved /\ available' = available /\ size' = size
      /\ diskFiles' = diskFiles /\ diskBytes' = diskBytes
  BY DEF Arrive
<1>2. \E l \in {"done", "proxy", "lookup"} : pc' = [pc EXCEPT ![q] = l]
  BY DEF Arrive, Goto
<1>3. \A p \in Requests : p # q => key'[p] = key[p]
  BY DEF Arrive, TypeOK
<1>4. \A p \in Requests : p # q => pc'[p] = pc[p]
  BY <1>2 DEF TypeOK
<1>5. pc'[q] \in {"done", "proxy", "lookup"}
  BY <1>2 DEF TypeOK
<1>6. CellsAreHeld'
  BY <1>1, <1>4, <1>5 DEF StructureInv, CellsAreHeld, Initializing
<1>7. CellsAreFresh'
  BY <1>1, <1>4, <1>5 DEF StructureInv, CellsAreFresh
<1>8. ValuesAreOwned'
  <2>1. \A c \in Requests : value[c] # None => pc'[value[c]] = pc[value[c]]
    BY <1>1, <1>4, ValuesArePublished
  <2> QED
    BY <1>1, <2>1 DEF StructureInv, ValuesAreOwned
<1>9. PermitsAreExclusive'
  BY <1>1, <1>4, <1>5 DEF StructureInv, PermitsAreExclusive, Initializing
<1>10. MutexIsExclusive'
  BY <1>1, <1>4, <1>5 DEF StructureInv, MutexIsExclusive, Evicting
<1>11. NoReservationLeaks'
  BY <1>1, <1>4, <1>5 DEF StructureInv, NoReservationLeaks, Live
<1>12. ListIsReserved'
  BY <1>1, <1>4, <1>5 DEF StructureInv, ListIsReserved
<1>13. KeysAgree'
  <2>1. \A c \in Requests : cellOf[c] # q /\ (value[c] # None => value[c] # q)
    BY <1>1, ValuesArePublished DEF StructureInv, CellsAreFresh
  <2>2. value[q] = None /\ cellOf[q] = None
    BY <1>1 DEF StructureInv, CellsAreFresh, CellsAreHeld, Initializing
  <2> QED
    BY <1>1, <1>3, <2>1, <2>2 DEF StructureInv, KeysAgree, TypeOK
<1>14. HeldStaysLive'
  <2>1. \A p \in Requests : pc'[p] = "clone" =>
            p # q /\ cellOf[p] \in Requests /\ value[cellOf[p]] # None
    BY <1>1, <1>4, <1>5 DEF StructureInv, HeldStaysLive, CellsAreHeld, TypeOK
  <2>2. \A p \in Requests : pc'[p] = "clone" => value[cellOf[p]] # q
    BY <1>1, <2>1, ValuesArePublished
  <2> QED
    BY <1>1, <1>3, <1>4, <2>1, <2>2, ValuesArePublished DEF StructureInv, HeldStaysLive
<1>15. Conservation'
  BY <1>1 DEF Conservation
<1> QED
  BY <1>6, <1>7, <1>8, <1>9, <1>10, <1>11, <1>12, <1>13, <1>14, <1>15 DEF StructureInv

-----------------------------------------------------------------------------
(* What remains true of a trimmed store.                                   *)

\* What is left of a trimmed store is still owned.
LEMMA TrimmedOwned ==
    ASSUME Inv, Trimmed,
           \A r \in Requests : pc[r] \in {"clone", "stream", "done"} =>
               pc'[r] \in {"clone", "stream", "done"}
    PROVE  ValuesAreOwned'
<1>1. \A d \in Requests : value'[d] # None =>
          /\ pc'[value'[d]] \in {"clone", "stream", "done"}
          /\ d \in ToSet(lru') \/ \E p \in Requests : cellOf'[p] = d
  BY ValuesArePublished DEF Trimmed, Referenced
<1>2. \A d, e \in Requests : value'[d] # None /\ value'[d] = value'[e] => d = e
  BY DEF Trimmed, Inv, StructureInv, ValuesAreOwned
<1> QED
  BY <1>1, <1>2 DEF ValuesAreOwned

\* A trimmed store leaks no reservation.
LEMMA TrimmedAccounted ==
    ASSUME Inv, Trimmed,
           \A r \in Requests : pc[r] = "publish" => pc'[r] = "publish"
    PROVE  NoReservationLeaks'
<1> SUFFICES ASSUME NEW r \in Requests, reserved'[r] > 0, pc'[r] # "publish"
             PROVE  \E d \in Requests : value'[d] = r /\ r # None
  BY DEF NoReservationLeaks, Live
<1>1. reserved[r] > 0 /\ pc[r] # "publish"
  BY DEF Trimmed
<1>2. PICK d \in Requests : value[d] = r
  BY <1>1 DEF Inv, StructureInv, NoReservationLeaks, Live
<1> QED
  BY <1>2, CacheAssumption DEF Trimmed

\* The list of a trimmed store still has all of its bytes reserved.
LEMMA TrimmedListReserved ==
    ASSUME Inv, Trimmed, UNCHANGED size,
           \A p \in Requests : pc'[p] = "publish" =>
               pc[p] = "publish" /\ cellOf'[p] = cellOf[p],
           lru' \in Seq(Requests),
           \A c \in ToSet(lru') : c \in ToSet(lru) \/
               (value[c] = None /\ \A p \in Requests : cellOf[p] # c)
    PROVE  ListIsReserved'
<1>1. \A c \in ToSet(lru') : value'[c] # None => reserved'[value'[c]] = size[value'[c]]
  <2> SUFFICES ASSUME NEW c \in ToSet(lru'), value'[c] # None
               PROVE  reserved'[value'[c]] = size[value'[c]]
    OBVIOUS
  <2>1. c \in Requests
    BY Members
  <2>2. value'[c] = value[c] /\ reserved'[value[c]] = reserved[value[c]]
    BY <2>1 DEF Trimmed
  <2>3. c \in ToSet(lru)
    BY <2>2
  <2> QED
    BY <2>2, <2>3 DEF Inv, StructureInv, ListIsReserved
<1>2. \A p \in Requests : pc'[p] = "publish" /\ cellOf'[p] \in ToSet(lru') =>
          reserved'[p] = size[p]
  BY DEF Trimmed, Inv, StructureInv, ListIsReserved
<1> QED
  BY <1>1, <1>2 DEF ListIsReserved

\* The cells of a trimmed store still hold resources of their own key.
LEMMA TrimmedKeys ==
    ASSUME Inv, Trimmed, UNCHANGED key,
           \A p \in Requests : cellOf'[p] \in {None, cellOf[p]} \/ key[cellOf'[p]] = key[p]
    PROVE  KeysAgree'
  BY DEF Trimmed, Inv, StructureInv, KeysAgree

\* The resource that a request is about to answer from survives a trim.
LEMMA TrimmedHeld ==
    ASSUME Inv, Trimmed, UNCHANGED key, TypeOK',
           \A p \in Requests : pc'[p] = "clone" => pc[p] = "clone" /\ cellOf'[p] = cellOf[p]
    PROVE  HeldStaysLive'
<1> SUFFICES ASSUME NEW p \in Requests, pc'[p] = "clone"
             PROVE  /\ value'[cellOf'[p]] # None
                    /\ key[value'[cellOf'[p]]] = key[p]
  BY DEF HeldStaysLive
<1>1. /\ pc[p] = "clone" /\ cellOf'[p] = cellOf[p] /\ cellOf[p] \in Requests
  BY DEF Inv, StructureInv, CellsAreHeld, TypeOK
<1>2. Referenced(cellOf[p])'
  BY <1>1 DEF Referenced
<1>3. value'[cellOf[p]] = value[cellOf[p]]
  BY <1>1, <1>2 DEF Trimmed
<1> QED
  BY <1>1, <1>3 DEF Inv, StructureInv, HeldStaysLive

-----------------------------------------------------------------------------
(* Steps that end a request's use of its cell.                             *)

LetsGo(q, l) ==
    /\ pc' = [pc EXCEPT ![q] = l] /\ l \in {"stream", "done"}
    /\ pc[q] \in {"lookup", "proxy", "cell", "fetch", "copy", "want_lock", "clone"}
    /\ cellOf' = [cellOf EXCEPT ![q] = None]
    /\ IF cellOf[q] = None THEN UNCHANGED store ELSE Release(cellOf[q])
    /\ UNCHANGED <<lru, request, size>>

\* A request that lets go of its cell, by answering or by giving up, keeps every
\* invariant.
LEMMA LetsGoStep ==
    ASSUME Inv, NEW q \in Requests, NEW l, LetsGo(q, l), TypeOK'
    PROVE  Inv'
<1> USE CacheAssumption DEF Inv
<1>1. /\ lru' = lru /\ key' = key /\ size' = size /\ lru' \in Seq(Requests)
      /\ pc[q] \in {"lookup", "proxy", "cell", "fetch", "copy", "want_lock", "clone"}
  BY DEF LetsGo, request, TypeOK
<1>2. pc'[q] \in {"stream", "done"} /\ \A p \in Requests : p # q => pc'[p] = pc[p]
  BY DEF LetsGo, TypeOK
<1>3. cellOf'[q] = None /\ \A p \in Requests : p # q => cellOf'[p] = cellOf[p]
  BY DEF LetsGo, TypeOK
<1>4. Trimmed /\ Conservation'
  <2>1. \A d \in Requests : d # cellOf[q] /\ value[d] # None => Referenced(d)'
    BY <1>1, <1>3 DEF Referenced, StructureInv, ValuesAreOwned
  <2>2. CASE cellOf[q] = None
    BY <2>1, <2>2, KeepTrims DEF LetsGo
  <2>3. CASE cellOf[q] # None
    BY <2>1, <2>3, ReleaseTrims DEF LetsGo, TypeOK
  <2> QED
    BY <2>2, <2>3
<1>5. CellsAreHeld'
  BY <1>2, <1>3 DEF StructureInv, CellsAreHeld, Initializing
<1>6. CellsAreFresh'
  <2> SUFFICES ASSUME NEW c \in Requests, pc'[c] \in {"idle", "lookup", "proxy"}
               PROVE  /\ value'[c] = None /\ c \notin ToSet(lru')
                      /\ \A p \in Requests : cellOf'[p] # c
    BY DEF CellsAreFresh
  <2>1. pc[c] \in {"idle", "lookup", "proxy"}
    BY <1>2
  <2>2. value[c] = None /\ c \notin ToSet(lru) /\ \A p \in Requests : cellOf[p] # c
    BY <2>1 DEF StructureInv, CellsAreFresh
  <2>3. value'[c] = None
    BY <1>4, <2>2 DEF Trimmed
  <2>4. \A p \in Requests : cellOf'[p] # c
    BY <1>3, <2>2
  <2> QED
    BY <1>1, <2>2, <2>3, <2>4
<1>7. ValuesAreOwned'
  BY <1>2, <1>4, TrimmedOwned
<1>8. PermitsAreExclusive'
  <2>1. \A p \in Requests : pc'[p] \in Initializing =>
            pc[p] \in Initializing /\ cellOf'[p] = cellOf[p] /\ cellOf[p] \in Requests
    <3> TAKE p \in Requests
    <3> HAVE pc'[p] \in Initializing
    <3>1. p # q
      BY <1>2 DEF Initializing
    <3>2. pc[p] \in Initializing /\ cellOf'[p] = cellOf[p]
      BY <1>2, <1>3, <3>1
    <3>3. cellOf[p] # None /\ cellOf[p] \in Requests \cup {None}
      BY <3>2 DEF StructureInv, CellsAreHeld, TypeOK
    <3> QED
      BY <3>2, <3>3
  <2> QED
    BY <1>4, <2>1 DEF Trimmed, StructureInv, PermitsAreExclusive
<1>9. MutexIsExclusive'
  BY <1>1, <1>2 DEF StructureInv, MutexIsExclusive, Evicting
<1>10. NoReservationLeaks'
  BY <1>1, <1>2, <1>4, TrimmedAccounted
<1>11. ListIsReserved'
  BY <1>1, <1>2, <1>3, <1>4, TrimmedListReserved
<1>12. KeysAgree'
  BY <1>1, <1>3, <1>4, TrimmedKeys
<1>13. HeldStaysLive'
  BY <1>1, <1>2, <1>3, <1>4, TrimmedHeld
<1> QED
  BY <1>4, <1>5, <1>6, <1>7, <1>8, <1>9, <1>10, <1>11, <1>12, <1>13 DEF StructureInv

-----------------------------------------------------------------------------
(* pop_lru.                                                                *)

\* The eviction of the least recently used cell keeps every invariant.
LEMMA EvictStep ==
    ASSUME Inv, NEW q \in Requests, Evict(q), TypeOK'
    PROVE  Inv'
<1> USE CacheAssumption DEF Inv
<1> DEFINE c == Head(lru)
<1>1. /\ key' = key /\ size' = size /\ cellOf' = cellOf /\ pc[q] = "evict"
      /\ lru' = Tail(lru) /\ lru # <<>> /\ lru' \in Seq(Requests)
      /\ Release(c)
  BY DEF Evict, request, TypeOK
<1>2. pc'[q] = "retry" /\ \A p \in Requests : p # q => pc'[p] = pc[p]
  BY DEF Evict, Goto, TypeOK
<1>3. /\ c \in Requests /\ ToSet(lru') \subseteq ToSet(lru)
      /\ ToSet(lru) \subseteq ToSet(lru') \cup {c}
  BY <1>1, TailList DEF TypeOK
<1> HIDE DEF c
<1>4. Trimmed /\ Conservation'
  <2>1. \A d \in Requests : d # c /\ value[d] # None => Referenced(d)'
    BY <1>1, <1>3 DEF Referenced, StructureInv, ValuesAreOwned
  <2> QED
    BY <1>1, <1>3, <2>1, ReleaseTrims
<1>5. CellsAreHeld'
  BY <1>1, <1>2 DEF StructureInv, CellsAreHeld, Initializing
<1>6. CellsAreFresh'
  <2> SUFFICES ASSUME NEW d \in Requests, pc'[d] \in {"idle", "lookup", "proxy"}
               PROVE  /\ value'[d] = None /\ d \notin ToSet(lru')
                      /\ \A p \in Requests : cellOf'[p] # d
    BY DEF CellsAreFresh
  <2>1. d # q /\ pc[d] \in {"idle", "lookup", "proxy"}
    BY <1>2
  <2> QED
    BY <1>1, <1>3, <1>4, <2>1 DEF Trimmed, StructureInv, CellsAreFresh
<1>7. ValuesAreOwned'
  BY <1>1, <1>2, <1>4, TrimmedOwned
<1>8. PermitsAreExclusive'
  <2>1. \A p \in Requests : pc'[p] \in Initializing =>
            pc[p] \in Initializing /\ cellOf'[p] = cellOf[p] /\ cellOf[p] \in Requests
    BY <1>1, <1>2 DEF StructureInv, CellsAreHeld, TypeOK, Initializing
  <2> QED
    BY <1>4, <2>1 DEF Trimmed, StructureInv, PermitsAreExclusive
<1>9. MutexIsExclusive'
  <2>1. \A p \in Requests : pc'[p] \in Evicting => p = q
    BY <1>1, <1>2 DEF StructureInv, MutexIsExclusive, Evicting
  <2> QED
    BY <1>2, <2>1 DEF MutexIsExclusive, Evicting
<1>10. NoReservationLeaks'
  BY <1>1, <1>2, <1>4, TrimmedAccounted
<1>11. ListIsReserved'
  BY <1>1, <1>2, <1>3, <1>4, TrimmedListReserved
<1>12. KeysAgree'
  BY <1>1, <1>4, TrimmedKeys
<1>13. HeldStaysLive'
  BY <1>1, <1>2, <1>4, TrimmedHeld
<1> QED
  BY <1>4, <1>5, <1>6, <1>7, <1>8, <1>9, <1>10, <1>11, <1>12, <1>13 DEF StructureInv

-----------------------------------------------------------------------------
(* A reservation is granted.                                               *)

\* What a request asks for is all of its bytes, or what there is once the
\* list is empty.
LEMMA GrantStep ==
    ASSUME Inv, NEW q \in Requests, NEW n \in Nat, n <= available, Grant(q, n),
           pc[q] \in {"reserve", "retry", "up_to"},
           pc[q] # "up_to" => n = size[q],
           UNCHANGED <<cellOf, value, lru, size, key>>, TypeOK'
    PROVE  Inv'
<1> USE CacheAssumption DEF Inv
<1>1. /\ cellOf' = cellOf /\ value' = value /\ lru' = lru /\ size' = size /\ key' = key
      /\ pc[q] \in {"reserve", "retry", "up_to"}
  OBVIOUS
<1>2. pc'[q] = "publish" /\ \A p \in Requests : p # q => pc'[p] = pc[p]
  BY DEF Grant, Goto, TypeOK
<1>3. reserved'[q] = n /\ \A r \in Requests : r # q => reserved'[r] = reserved[r]
  BY DEF Grant, TypeOK
<1>4. \A c \in Requests : value[c] # None => value[c] \in Requests /\ value[c] # q
  BY <1>1, ValuesArePublished
<1>5. reserved[q] = 0
  <2>1. q \notin Live /\ pc[q] # "publish"
    BY <1>1, <1>4 DEF Live
  <2> QED
    BY <2>1 DEF StructureInv, NoReservationLeaks, TypeOK
<1>6. Conservation'
  <2>1. available' \in Nat /\ available' + n = available + reserved[q]
    BY <1>5 DEF Grant, TypeOK
  <2>2. reserved' = [reserved EXCEPT ![q] = n]
    BY DEF Grant
  <2> QED
    BY <2>1, <2>2, TransferConserves
<1>7. CellsAreHeld'
  BY <1>1, <1>2 DEF StructureInv, CellsAreHeld, Initializing
<1>8. CellsAreFresh'
  BY <1>1, <1>2 DEF StructureInv, CellsAreFresh
<1>9. ValuesAreOwned'
  <2>1. \A c \in Requests : value[c] # None => pc'[value[c]] = pc[value[c]]
    BY <1>2, <1>4
  <2> QED
    BY <1>1, <2>1 DEF StructureInv, ValuesAreOwned
<1>10. PermitsAreExclusive'
  <2>1. \A p \in Requests : pc'[p] \in Initializing => pc[p] \in Initializing
    BY <1>1, <1>2 DEF Initializing
  <2> QED
    BY <1>1, <2>1 DEF StructureInv, PermitsAreExclusive
<1>11. MutexIsExclusive'
  <2>1. \A p \in Requests : pc'[p] \in Evicting => pc[p] \in Evicting /\ pc'[p] = pc[p]
    BY <1>2 DEF Evicting
  <2>2. \A p \in Requests : pc'[p] = "up_to" => pc[p] = "up_to"
    BY <1>2
  <2> QED
    BY <1>1, <2>1, <2>2 DEF StructureInv, MutexIsExclusive
<1>12. NoReservationLeaks'
  BY <1>1, <1>2, <1>3 DEF StructureInv, NoReservationLeaks, Live
<1>13. ListIsReserved'
  <2>1. \A c \in ToSet(lru) : value[c] # None => reserved'[value[c]] = size[value[c]]
    <3>1. \A c \in ToSet(lru) : c \in Requests
      BY Members DEF TypeOK
    <3> QED
      BY <1>3, <1>4, <3>1 DEF StructureInv, ListIsReserved
  <2>2. pc[q] = "up_to" => ToSet(lru) = {}
    BY DEF StructureInv, MutexIsExclusive, ToSet
  <2>3. \A p \in Requests : pc'[p] = "publish" /\ cellOf[p] \in ToSet(lru) =>
            reserved'[p] = size[p]
    <3> TAKE p \in Requests
    <3>1. CASE p = q
      BY <1>3, <2>2, <3>1
    <3>2. CASE p # q
      BY <1>2, <1>3, <3>2 DEF StructureInv, ListIsReserved
    <3> QED
      BY <3>1, <3>2
  <2> QED
    BY <1>1, <2>1, <2>3 DEF ListIsReserved
<1>14. KeysAgree'
  BY <1>1 DEF StructureInv, KeysAgree
<1>15. HeldStaysLive'
  BY <1>1, <1>2 DEF StructureInv, HeldStaysLive
<1> QED
  BY <1>6, <1>7, <1>8, <1>9, <1>10, <1>11, <1>12, <1>13, <1>14, <1>15 DEF StructureInv

-----------------------------------------------------------------------------
(* The lookup.                                                             *)

\* A request takes a cell that is in the list.
Takes(q, c, l) ==
    /\ pc[q] = "lookup" /\ pc' = [pc EXCEPT ![q] = l]
    /\ (l = "clone" /\ value[c] # None) \/ l = "cell"
    /\ c \in ToSet(lru) /\ key[c] = key[q]
    /\ lru' \in Seq(Requests) /\ ToSet(lru') = ToSet(lru)
    /\ cellOf' = [cellOf EXCEPT ![q] = c]
    /\ UNCHANGED <<store, size, key>>

\* A lookup that finds a cell, filled or pending, keeps every invariant.
LEMMA TakesStep ==
    ASSUME Inv, NEW q \in Requests, NEW c \in Requests, NEW l, Takes(q, c, l),
           ListIsFree, TypeOK'
    PROVE  Inv'
<1> USE CacheAssumption DEF Inv
<1>1. /\ value' = value /\ reserved' = reserved /\ available' = available
      /\ size' = size /\ key' = key /\ ToSet(lru') = ToSet(lru)
      /\ pc[q] = "lookup" /\ c \in ToSet(lru) /\ key[c] = key[q]
  BY DEF Takes, store
<1>2. /\ pc'[q] = l /\ l \in {"clone", "cell"} /\ (l = "clone" => value[c] # None)
      /\ \A p \in Requests : p # q => pc'[p] = pc[p]
  <2>1. l \in {"clone", "cell"} /\ (l = "clone" => value[c] # None)
    BY DEF Takes
  <2>2. DOMAIN pc = Requests /\ pc' = [pc EXCEPT ![q] = l]
    BY DEF Takes, TypeOK
  <2>3. pc'[q] = l /\ \A p \in Requests : p # q => pc'[p] = pc[p]
    BY ONLY <2>2, q \in Requests
  <2> QED
    BY <2>1, <2>3
<1>3. cellOf'[q] = c /\ \A p \in Requests : p # q => cellOf'[p] = cellOf[p]
  BY DEF Takes, TypeOK
<1>4. cellOf[q] = None
  BY <1>1 DEF StructureInv, CellsAreHeld, Initializing
<1>5. Conservation'
  BY <1>1 DEF Conservation
<1>6. CellsAreHeld'
  BY <1>2, <1>3 DEF StructureInv, CellsAreHeld
<1>7. CellsAreFresh'
  <2> SUFFICES ASSUME NEW d \in Requests, pc'[d] \in {"idle", "lookup", "proxy"}
               PROVE  /\ value[d] = None /\ d \notin ToSet(lru)
                      /\ \A p \in Requests : cellOf'[p] # d
    BY <1>1 DEF CellsAreFresh
  <2>1. pc[d] \in {"idle", "lookup", "proxy"}
    BY <1>2
  <2>2. value[d] = None /\ d \notin ToSet(lru) /\ \A p \in Requests : cellOf[p] # d
    BY <2>1 DEF StructureInv, CellsAreFresh
  <2> QED
    BY <1>1, <1>3, <2>2
<1>8. ValuesAreOwned'
  <2>1. \A d \in Requests : value[d] # None =>
            /\ value[d] \in Requests /\ pc'[value[d]] = pc[value[d]]
            /\ pc[value[d]] \in {"clone", "stream", "done"}
    BY <1>1, <1>2, ValuesArePublished
  <2>2. \A d \in Requests : value[d] # None =>
            d \in ToSet(lru) \/ \E p \in Requests : cellOf'[p] = d
    BY <1>3, <1>4 DEF StructureInv, ValuesAreOwned
  <2> QED
    BY <1>1, <2>1, <2>2 DEF StructureInv, ValuesAreOwned
<1>9. PermitsAreExclusive'
  <2>1. \A p \in Requests : pc'[p] \in Initializing =>
            p # q /\ pc[p] \in Initializing /\ cellOf'[p] = cellOf[p]
    BY <1>2, <1>3 DEF Initializing
  <2> QED
    BY <1>1, <2>1 DEF StructureInv, PermitsAreExclusive
<1>10. MutexIsExclusive'
  BY <1>2 DEF ListIsFree, MutexIsExclusive, Evicting
<1>11. NoReservationLeaks'
  BY <1>1, <1>2 DEF StructureInv, NoReservationLeaks, Live
<1>12. ListIsReserved'
  BY <1>1, <1>2, <1>3 DEF StructureInv, ListIsReserved
<1>13. KeysAgree'
  BY <1>1, <1>3 DEF StructureInv, KeysAgree
<1>14. HeldStaysLive'
  <2> SUFFICES ASSUME NEW p \in Requests, pc'[p] = "clone"
               PROVE  value[cellOf'[p]] # None /\ key[value[cellOf'[p]]] = key[p]
    BY <1>1 DEF HeldStaysLive
  <2>1. CASE p = q
    BY <1>1, <1>2, <1>3, <2>1 DEF StructureInv, KeysAgree
  <2>2. CASE p # q
    BY <1>2, <1>3, <2>2 DEF StructureInv, HeldStaysLive
  <2> QED
    BY <2>1, <2>2
<1> QED
  BY <1>5, <1>6, <1>7, <1>8, <1>9, <1>10, <1>11, <1>12, <1>13, <1>14 DEF StructureInv

\* A request puts a cell of its own in the list, for the cell c or for none.
Inserts(q) ==
    /\ pc[q] = "lookup" /\ pc' = [pc EXCEPT ![q] = "cell"]
    /\ cellOf' = [cellOf EXCEPT ![q] = q]
    /\ lru' \in Seq(Requests) /\ ToSet(lru') \subseteq ToSet(lru) \cup {q}
    /\ \/ UNCHANGED store /\ ToSet(lru) \subseteq ToSet(lru')
       \/ \E c \in Requests : Release(c) /\ ToSet(lru) \subseteq ToSet(lru') \cup {c}
    /\ UNCHANGED <<size, key>>

\* A lookup that puts a new cell in the list keeps every invariant.
LEMMA InsertsStep ==
    ASSUME Inv, NEW q \in Requests, Inserts(q), ListIsFree, TypeOK'
    PROVE  Inv'
<1> USE CacheAssumption DEF Inv
<1>1. /\ size' = size /\ key' = key /\ pc[q] = "lookup"
      /\ lru' \in Seq(Requests) /\ ToSet(lru') \subseteq ToSet(lru) \cup {q}
  BY DEF Inserts
<1>2. pc'[q] = "cell" /\ \A p \in Requests : p # q => pc'[p] = pc[p]
  BY DEF Inserts, TypeOK
<1>3. cellOf'[q] = q /\ \A p \in Requests : p # q => cellOf'[p] = cellOf[p]
  BY DEF Inserts, TypeOK
<1>4. /\ cellOf[q] = None /\ value[q] = None /\ q \notin ToSet(lru)
      /\ \A p \in Requests : cellOf[p] # q
  BY <1>1 DEF StructureInv, CellsAreHeld, CellsAreFresh, Initializing
<1>5. Trimmed /\ Conservation'
  <2>1. \A d \in Requests : value[d] # None =>
            d \in ToSet(lru) \/ \E p \in Requests : cellOf'[p] = d
    BY <1>3, <1>4 DEF StructureInv, ValuesAreOwned
  <2>2. CASE UNCHANGED store /\ ToSet(lru) \subseteq ToSet(lru')
    <3>1. \A d \in Requests : value[d] # None => Referenced(d)'
      BY <2>1, <2>2 DEF Referenced
    <3> QED
      BY <2>2, <3>1, KeepTrims
  <2>3. ASSUME NEW c \in Requests, Release(c), ToSet(lru) \subseteq ToSet(lru') \cup {c}
        PROVE  Trimmed /\ Conservation'
    <3>1. \A d \in Requests : d # c /\ value[d] # None => Referenced(d)'
      BY <2>1, <2>3 DEF Referenced
    <3> QED
      BY <2>3, <3>1, ReleaseTrims
  <2> QED
    BY <2>2, <2>3 DEF Inserts
<1>6. CellsAreHeld'
  BY <1>2, <1>3 DEF StructureInv, CellsAreHeld
<1>7. CellsAreFresh'
  <2> SUFFICES ASSUME NEW d \in Requests, pc'[d] \in {"idle", "lookup", "proxy"}
               PROVE  /\ value'[d] = None /\ d \notin ToSet(lru')
                      /\ \A p \in Requests : cellOf'[p] # d
    BY DEF CellsAreFresh
  <2>1. d # q /\ pc[d] \in {"idle", "lookup", "proxy"}
    BY <1>2
  <2>2. value[d] = None /\ d \notin ToSet(lru) /\ \A p \in Requests : cellOf[p] # d
    BY <2>1 DEF StructureInv, CellsAreFresh
  <2>3. value'[d] = None
    BY <1>5, <2>2 DEF Trimmed
  <2>4. \A p \in Requests : cellOf'[p] # d
    BY <1>3, <2>1, <2>2
  <2> QED
    BY <1>1, <2>1, <2>2, <2>3, <2>4
<1>8. ValuesAreOwned'
  <2>1. \A r \in Requests : pc[r] \in {"clone", "stream", "done"} =>
            pc'[r] \in {"clone", "stream", "done"}
    BY <1>1, <1>2
  <2> QED
    BY <1>5, <2>1, TrimmedOwned
<1>9. PermitsAreExclusive'
  <2>1. \A p \in Requests : pc'[p] \in Initializing =>
            pc[p] \in Initializing /\ cellOf'[p] = cellOf[p] /\ cellOf[p] \in Requests
    <3> TAKE p \in Requests
    <3> HAVE pc'[p] \in Initializing
    <3>1. p # q
      BY <1>2 DEF Initializing
    <3>2. pc[p] \in Initializing /\ cellOf'[p] = cellOf[p]
      BY <1>2, <1>3, <3>1
    <3>3. cellOf[p] # None /\ cellOf[p] \in Requests \cup {None}
      BY <3>2 DEF StructureInv, CellsAreHeld, TypeOK
    <3> QED
      BY <3>2, <3>3
  <2> QED
    BY <1>5, <2>1 DEF Trimmed, StructureInv, PermitsAreExclusive
<1>10. MutexIsExclusive'
  BY <1>2 DEF ListIsFree, MutexIsExclusive, Evicting
<1>11. NoReservationLeaks'
  <2>1. \A r \in Requests : pc[r] = "publish" => pc'[r] = "publish"
    BY <1>1, <1>2
  <2> QED
    BY <1>5, <2>1, TrimmedAccounted
<1>12. ListIsReserved'
  <2>1. \A p \in Requests : pc'[p] = "publish" =>
            pc[p] = "publish" /\ cellOf'[p] = cellOf[p]
    BY <1>2, <1>3
  <2>2. \A d \in ToSet(lru') : d \in ToSet(lru) \/
            (value[d] = None /\ \A p \in Requests : cellOf[p] # d)
    BY <1>1, <1>4
  <2> QED
    BY <1>1, <1>5, <2>1, <2>2, TrimmedListReserved
<1>13. KeysAgree'
  <2>1. \A p \in Requests :
            cellOf'[p] \in {None, cellOf[p]} \/ key[cellOf'[p]] = key[p]
    BY <1>3
  <2> QED
    BY <1>1, <1>5, <2>1, TrimmedKeys
<1>14. HeldStaysLive'
  <2>1. \A p \in Requests : pc'[p] = "clone" => pc[p] = "clone" /\ cellOf'[p] = cellOf[p]
    BY <1>2, <1>3
  <2> QED
    BY <1>1, <1>5, <2>1, TrimmedHeld
<1> QED
  BY <1>5, <1>6, <1>7, <1>8, <1>9, <1>10, <1>11, <1>12, <1>13, <1>14 DEF StructureInv

-----------------------------------------------------------------------------
(* The resource is put in its cell.                                        *)

\* A resource that is put in its cell keeps every invariant.
LEMMA PublishStep ==
    ASSUME Inv, NEW q \in Requests, Publish(q), TypeOK'
    PROVE  Inv'
<1> USE CacheAssumption DEF Inv
<1> DEFINE c == cellOf[q]
<1>1. /\ cellOf' = cellOf /\ lru' = lru /\ size' = size /\ key' = key
      /\ reserved' = reserved /\ available' = available /\ pc[q] = "publish"
  BY DEF Publish, pool, request
<1>2. pc'[q] = "clone" /\ \A p \in Requests : p # q => pc'[p] = pc[p]
  BY DEF Publish, Goto, TypeOK
<1>3. c \in Requests /\ value[c] = None /\ c # None
  BY <1>1 DEF StructureInv, CellsAreHeld, PermitsAreExclusive, Initializing, TypeOK
<1>4. value'[c] = q /\ \A d \in Requests : d # c => value'[d] = value[d]
  BY <1>3 DEF Publish, TypeOK
<1>5. key[c] = key[q]
  BY <1>3 DEF StructureInv, KeysAgree
<1>6. \A d \in Requests : value[d] # None => value[d] \in Requests /\ value[d] # q
  BY <1>1, ValuesArePublished
<1> HIDE DEF c
<1>7. \A p \in Requests : cellOf[p] = c /\ pc[p] \in Initializing => p = q
  BY <1>1 DEF StructureInv, PermitsAreExclusive, Initializing, c
<1>8. Conservation'
  BY <1>1 DEF Conservation
<1>9. CellsAreHeld'
  BY <1>1, <1>2 DEF StructureInv, CellsAreHeld, Initializing
<1>10. CellsAreFresh'
  <2> SUFFICES ASSUME NEW d \in Requests, pc'[d] \in {"idle", "lookup", "proxy"}
               PROVE  /\ value'[d] = None /\ d \notin ToSet(lru)
                      /\ \A p \in Requests : cellOf[p] # d
    BY <1>1 DEF CellsAreFresh
  <2>1. pc[d] \in {"idle", "lookup", "proxy"}
    BY <1>2
  <2>2. value[d] = None /\ d \notin ToSet(lru) /\ \A p \in Requests : cellOf[p] # d
    BY <2>1 DEF StructureInv, CellsAreFresh
  <2>3. d # c
    BY <2>2 DEF c
  <2> QED
    BY <1>4, <2>2, <2>3
<1>11. ValuesAreOwned'
  <2>1. \A d \in Requests : value'[d] # None =>
            /\ pc'[value'[d]] \in {"clone", "stream", "done"}
            /\ d \in ToSet(lru) \/ \E p \in Requests : cellOf[p] = d
    <3> TAKE d \in Requests
    <3>1. CASE d = c
      BY <1>2, <1>4, <3>1 DEF c
    <3>2. CASE d # c
      BY <1>2, <1>4, <1>6, <3>2 DEF StructureInv, ValuesAreOwned
    <3> QED
      BY <3>1, <3>2
  <2>2. \A d, e \in Requests : value'[d] # None /\ value'[d] = value'[e] => d = e
    BY <1>4, <1>6 DEF StructureInv, ValuesAreOwned
  <2> QED
    BY <1>1, <2>1, <2>2 DEF ValuesAreOwned
<1>12. PermitsAreExclusive'
  <2>1. \A p \in Requests : pc'[p] \in Initializing => p # q /\ pc[p] \in Initializing
    BY <1>2 DEF Initializing
  <2>2. \A p \in Requests : pc'[p] \in Initializing =>
            cellOf[p] \in Requests /\ value[cellOf[p]] = None
    BY <2>1, HoldsCell DEF StructureInv, PermitsAreExclusive
  <2>3. \A p \in Requests : pc'[p] \in Initializing => value'[cellOf[p]] = None
    BY <1>4, <1>7, <2>1, <2>2
  <2> QED
    BY <1>1, <2>1, <2>3 DEF StructureInv, PermitsAreExclusive
<1>13. MutexIsExclusive'
  <2>1. \A p \in Requests : pc'[p] \in Evicting => pc[p] \in Evicting /\ pc'[p] = pc[p]
    BY <1>2 DEF Evicting
  <2>2. \A p \in Requests : pc'[p] = "up_to" => pc[p] = "up_to"
    BY <1>2
  <2> QED
    BY <1>1, <2>1, <2>2 DEF StructureInv, MutexIsExclusive
<1>14. NoReservationLeaks'
  <2> SUFFICES ASSUME NEW r \in Requests, reserved[r] > 0, pc'[r] # "publish"
               PROVE  r # None /\ \E d \in Requests : value'[d] = r
    BY <1>1 DEF NoReservationLeaks, Live
  <2>1. CASE r = q
    BY <1>3, <1>4, <2>1
  <2>2. CASE r # q
    <3>1. PICK d \in Requests : value[d] = r
      BY <1>2, <2>2 DEF StructureInv, NoReservationLeaks, Live
    <3>2. d # c
      BY <1>3, <3>1
    <3> QED
      BY <1>4, <3>1, <3>2
  <2> QED
    BY <2>1, <2>2
<1>15. ListIsReserved'
  <2>1. \A d \in ToSet(lru) : d \in Requests
    BY Members DEF TypeOK
  <2>2. c \in ToSet(lru) => reserved[q] = size[q]
    BY <1>1 DEF StructureInv, ListIsReserved, c
  <2>3. \A d \in ToSet(lru) : value'[d] # None => reserved[value'[d]] = size[value'[d]]
    BY <1>4, <2>1, <2>2 DEF StructureInv, ListIsReserved
  <2>4. \A p \in Requests : pc'[p] = "publish" => pc[p] = "publish"
    BY <1>2
  <2> QED
    BY <1>1, <2>3, <2>4 DEF StructureInv, ListIsReserved
<1>16. KeysAgree'
  BY <1>1, <1>4, <1>5 DEF StructureInv, KeysAgree
<1>17. HeldStaysLive'
  <2> SUFFICES ASSUME NEW p \in Requests, pc'[p] = "clone"
               PROVE  value'[cellOf[p]] # None /\ key[value'[cellOf[p]]] = key[p]
    BY <1>1 DEF HeldStaysLive
  <2>1. CASE p = q
    BY <1>3, <1>4, <2>1 DEF c
  <2>2. CASE p # q
    <3>1. pc[p] = "clone"
      BY <1>2, <2>2
    <3>2. /\ cellOf[p] \in Requests /\ value[cellOf[p]] # None
          /\ key[value[cellOf[p]]] = key[p]
      BY <3>1 DEF StructureInv, CellsAreHeld, HeldStaysLive, TypeOK
    <3> QED
      BY <1>3, <1>4, <3>2
  <2> QED
    BY <2>1, <2>2
<1> QED
  BY <1>8, <1>9, <1>10, <1>11, <1>12, <1>13, <1>14, <1>15, <1>16, <1>17 DEF StructureInv

-----------------------------------------------------------------------------
(* Types.                                                                  *)

\* The drop of a cell keeps the types of the store.
LEMMA ReleaseType ==
    ASSUME TypeOK, NEW c \in Requests, Release(c)
    PROVE  /\ value' \in [Requests -> Requests \cup {None}]
           /\ available' \in Nat /\ reserved' \in [Requests -> Nat]
           /\ diskFiles' \in Int /\ diskBytes' \in Int
<1>1. CASE UNCHANGED store
  BY <1>1 DEF store, TypeOK
<1>2. CASE ~ UNCHANGED store
  <2> DEFINE r == value[c]
  <2>1. /\ r # None
        /\ value' = [value EXCEPT ![c] = None]
        /\ available' = available + reserved[r]
        /\ reserved' = [reserved EXCEPT ![r] = 0]
        /\ diskFiles' = diskFiles - 1
        /\ diskBytes' = diskBytes - size[r]
    BY <1>2 DEF Release
  <2>2. reserved[r] \in Nat /\ size[r] \in Nat
    BY <2>1 DEF TypeOK
  <2>3. /\ value' \in [Requests -> Requests \cup {None}]
        /\ reserved' \in [Requests -> Nat]
    BY <2>1 DEF TypeOK
  <2>4. available' \in Nat /\ diskFiles' \in Int /\ diskBytes' \in Int
    BY <2>1, <2>2 DEF TypeOK
  <2> QED
    BY <2>3, <2>4
<1> QED
  BY <1>1, <1>2

\* A request that gives up keeps the types of the variables.
LEMMA GiveUpType ==
    ASSUME TypeOK, NEW q \in Requests, NEW a \in Answers, GiveUp(q, a),
           counted' \in [Requests -> SUBSET Outcomes]
    PROVE  TypeOK'
<1>1. /\ value' \in [Requests -> Requests \cup {None}]
      /\ available' \in Nat /\ reserved' \in [Requests -> Nat]
      /\ diskFiles' \in Int /\ diskBytes' \in Int
  <2>1. CASE cellOf[q] = None
    BY <2>1 DEF GiveUp, store, TypeOK
  <2>2. CASE cellOf[q] # None
    BY <2>2, ReleaseType DEF GiveUp, TypeOK
  <2> QED
    BY <2>1, <2>2
<1>2. /\ pc' = [pc EXCEPT ![q] = "done"] /\ answer' = [answer EXCEPT ![q] = a]
      /\ cellOf' = [cellOf EXCEPT ![q] = None] /\ lru' = lru
      /\ UNCHANGED <<clock, key, rule, started, size, published, served, evicted>>
  BY DEF GiveUp, Goto, Answer, request
<1> QED
  BY <1>1, <1>2 DEF TypeOK

\* Every step keeps the types.
LEMMA TypeStep ==
    ASSUME Inv, [Next]_vars
    PROVE  TypeOK'
<1> USE CacheAssumption DEF Inv
<1> SUFFICES ASSUME NEW q \in Requests,
                    Arrive(q) \/ Step(q) \/ StreamEnd(q) \/ Cancel(q)
             PROVE  TypeOK'
  <2>1. ASSUME Tick PROVE TypeOK'
    BY <2>1 DEF Tick, TypeOK, store, request, replies
  <2>2. ASSUME UNCHANGED vars PROVE TypeOK'
    BY <2>2 DEF vars, TypeOK, store, request, replies
  <2> QED
    BY <2>1, <2>2 DEF Next, Quiet
<1>1. CASE Arrive(q)
  <2>1. PICK k \in Keys : \E r \in Rules[k] :
          /\ key' = [key EXCEPT ![q] = k]
          /\ rule' = [rule EXCEPT ![q] = r]
          /\ started' = [started EXCEPT ![q] = clock]
          /\ CASE r.policy = "disabled" ->
                    Goto(q, "done") /\ Count(q, "unrouted") /\ Answer(q, "not_found")
               [] r.policy = "never" ->
                    Goto(q, "proxy") /\ Count(q, "never") /\ UNCHANGED answer
               [] OTHER ->
                    Goto(q, "lookup") /\ UNCHANGED <<counted, answer>>
    BY <1>1 DEF Arrive
  <2>2. UNCHANGED <<clock, cellOf, store, lru, size, published, served, evicted>>
    BY <1>1 DEF Arrive
  <2>3. \E l \in {"done", "proxy", "lookup"} : pc' = [pc EXCEPT ![q] = l]
    BY <2>1 DEF Goto
  <2>4. counted' \in [Requests -> SUBSET Outcomes]
    <3>1. \/ counted' = counted
          \/ counted' = [counted EXCEPT ![q] = @ \cup {"unrouted"}]
          \/ counted' = [counted EXCEPT ![q] = @ \cup {"never"}]
      BY <2>1 DEF Count
    <3>2. \A o \in Outcomes :
              [counted EXCEPT ![q] = @ \cup {o}] \in [Requests -> SUBSET Outcomes]
      BY DEF TypeOK
    <3>3. counted \in [Requests -> SUBSET Outcomes]
      BY DEF TypeOK
    <3> QED
      BY <3>1, <3>2, <3>3 DEF Outcomes
  <2>5. answer' \in [Requests -> Answers \cup {"pending"}]
    BY <2>1 DEF Answer, TypeOK, Answers
  <2>6. /\ key' \in [Requests -> Keys \cup {None}]
        /\ started' \in [Requests -> 0..MaxTime]
    BY <2>1 DEF TypeOK
  <2>8. rule' \in [Requests -> CacheRouteRules \cup {None}]
    <3>1. PICK r \in Rules[k] : rule' = [rule EXCEPT ![q] = r]
      BY <2>1
    <3>2. r \in CacheRouteRules
      BY <3>1
    <3> QED
      BY <3>1, <3>2 DEF TypeOK
  <2>7. pc' \in [Requests -> {"idle", "lookup", "proxy", "cell", "clone", "stream",
                             "done"} \cup Initializing]
    BY <2>3 DEF TypeOK
  <2> QED
    BY <2>2, <2>4, <2>5, <2>6, <2>7, <2>8 DEF TypeOK, store
<1>2. CASE ProxyReply(q)
  <2>1. counted' \in [Requests -> SUBSET Outcomes]
    BY <1>2 DEF ProxyReply, TypeOK
  <2> QED
    BY <1>2, <2>1, GiveUpType DEF ProxyReply, Answers
<1>3. CASE LookupHit(q)
  <2>1. PICK i \in Places(q) :
          /\ lru' = Reuse(i, lru[i])
          /\ cellOf' = [cellOf EXCEPT ![q] = lru[i]]
          /\ Count(q, HitOrMiss(q, value[lru[i]]))
    BY <1>3 DEF LookupHit
  <2>2. lru[i] \in Requests /\ lru' \in Seq(Requests)
    BY <2>1, RemoveList, ReuseList DEF TypeOK, Places
  <2>3. counted' \in [Requests -> SUBSET Outcomes]
    BY <2>1 DEF Count, HitOrMiss, TypeOK, Outcomes
  <2> QED
    BY <1>3, <2>1, <2>2, <2>3 DEF LookupHit, Goto, TypeOK, store, request, replies
<1>4. CASE LookupPending(q)
  <2>1. PICK i \in Places(q) :
          lru' = Reuse(i, lru[i]) /\ cellOf' = [cellOf EXCEPT ![q] = lru[i]]
    BY <1>4 DEF LookupPending
  <2>2. lru[i] \in Requests /\ lru' \in Seq(Requests)
    BY <2>1, RemoveList, ReuseList DEF TypeOK, Places
  <2> QED
    BY <1>4, <2>1, <2>2 DEF LookupPending, Goto, TypeOK, store, request, replies
<1>5. CASE LookupExpired(q)
  <2>1. PICK i \in Places(q) : lru' = Reuse(i, q) /\ Release(lru[i])
    BY <1>5 DEF LookupExpired
  <2>2. lru[i] \in Requests /\ lru' \in Seq(Requests)
    BY <2>1, RemoveList, ReuseList DEF TypeOK, Places
  <2>3. /\ value' \in [Requests -> Requests \cup {None}]
        /\ available' \in Nat /\ reserved' \in [Requests -> Nat]
        /\ diskFiles' \in Int /\ diskBytes' \in Int
    BY <2>1, <2>2, ReleaseType
  <2>4. cellOf' = [cellOf EXCEPT ![q] = q]
    BY <1>5 DEF LookupExpired
  <2> QED
    BY <1>5, <2>2, <2>3, <2>4 DEF LookupExpired, Goto, TypeOK, request, replies
<1>6. CASE LookupAbsent(q)
  <2>1. lru' \in Seq(Requests)
    <3>1. CASE Len(lru) < MaxCacheFiles
      <4>1. lru' = Append(lru, q) /\ lru \in Seq(Requests)
        BY <1>6, <3>1 DEF LookupAbsent, TypeOK
      <4> QED
        BY <4>1, AppendList
    <3>2. CASE ~ (Len(lru) < MaxCacheFiles)
      <4>1. lru \in Seq(Requests) /\ lru # <<>>
        BY <3>2 DEF TypeOK
      <4> QED
        <5>1. lru' = Append(Tail(lru), q)
          BY <1>6, <3>2 DEF LookupAbsent
        <5>2. Tail(lru) \in Seq(Requests)
          BY <4>1, TailList
        <5> QED
          BY <5>1, <5>2, AppendList
    <3> QED
      BY <3>1, <3>2
  <2>2. /\ value' \in [Requests -> Requests \cup {None}]
        /\ available' \in Nat /\ reserved' \in [Requests -> Nat]
        /\ diskFiles' \in Int /\ diskBytes' \in Int
    <3>1. CASE UNCHANGED store
      BY <3>1 DEF TypeOK, store
    <3>2. CASE ~ (Len(lru) < MaxCacheFiles) /\ Release(Head(lru))
      <4>1. lru # <<>>
        BY <3>2
      <4> QED
        BY <3>2, <4>1, TailList, ReleaseType DEF TypeOK
    <3> QED
      BY <1>6, <3>1, <3>2 DEF LookupAbsent
  <2> QED
    BY <1>6, <2>1, <2>2 DEF LookupAbsent, Goto, TypeOK, request, replies
<1>7. CASE ReadCell(q)
  <2>1. counted' \in [Requests -> SUBSET Outcomes]
    BY <1>7 DEF ReadCell, Count, HitOrMiss, TypeOK, Outcomes
  <2> QED
    BY <1>7, <2>1 DEF ReadCell, Goto, TypeOK, store, request, replies
<1>8. CASE BeginInit(q) \/ FetchOk(q) \/ TakeLock(q) \/ NothingToEvict(q) \/ StreamEnd(q)
  <2>1. \E l \in {"fetch", "copy", "evict", "up_to", "done"} : pc' = [pc EXCEPT ![q] = l]
    BY <1>8 DEF BeginInit, FetchOk, TakeLock, NothingToEvict, StreamEnd, Goto
  <2>2. UNCHANGED <<clock, request, cellOf, store, lru, size, published, replies,
                    counted, evicted>>
    BY <1>8 DEF BeginInit, FetchOk, TakeLock, NothingToEvict, StreamEnd
  <2>3. pc' \in [Requests -> {"idle", "lookup", "proxy", "cell", "clone", "stream",
                             "done"} \cup Initializing]
    BY <2>1 DEF TypeOK, Initializing
  <2> QED
    BY <2>2, <2>3 DEF TypeOK, store, request, replies
<1>9. CASE FetchFail(q)
  <2>1. counted' \in [Requests -> SUBSET Outcomes]
    BY <1>9 DEF FetchFail, Count, TypeOK, Outcomes
  <2> QED
    BY <1>9, <2>1, GiveUpType DEF FetchFail, Answers
<1>10. CASE CopyDone(q)
  <2>1. size' \in [Requests -> Nat]
    BY <1>10 DEF CopyDone, TypeOK
  <2> QED
    BY <1>10, <2>1 DEF CopyDone, Goto, TypeOK, store, request, replies, Initializing
<1>11. CASE CopyFail(q)
  <2>1. counted' \in [Requests -> SUBSET Outcomes]
    BY <1>11 DEF CopyFail, Count, TypeOK, Outcomes
  <2> QED
    BY <1>11, <2>1, GiveUpType DEF CopyFail, Answers
<1>12. CASE Reserve(q) \/ Retry(q) \/ ReserveUpTo(q)
  <2>1. UNCHANGED <<clock, request, cellOf, value, gauges, lru, size, published,
                    replies, counted, evicted>>
    BY <1>12 DEF Reserve, Retry, ReserveUpTo, TryReserve
  <2>2. /\ \E l \in {"publish", "want_lock", "evict"} : pc' = [pc EXCEPT ![q] = l]
        /\ available' \in Nat /\ reserved' \in [Requests -> Nat]
    <3>1. \/ UNCHANGED pool /\ \E l \in {"want_lock", "evict"} : Goto(q, l)
          \/ \E n \in Nat : n <= available /\ Grant(q, n)
      BY <1>12 DEF Reserve, Retry, ReserveUpTo, TryReserve, TypeOK
    <3>2. CASE UNCHANGED pool /\ \E l \in {"want_lock", "evict"} : Goto(q, l)
      BY <3>2 DEF Goto, pool, TypeOK
    <3>3. ASSUME NEW n \in Nat, n <= available, Grant(q, n)
          PROVE  /\ pc' = [pc EXCEPT ![q] = "publish"]
                 /\ available' \in Nat /\ reserved' \in [Requests -> Nat]
      BY <3>3 DEF Grant, Goto, TypeOK
    <3> QED
      BY <3>1, <3>2, <3>3
  <2>3. pc' \in [Requests -> {"idle", "lookup", "proxy", "cell", "clone", "stream",
                           "done"} \cup Initializing]
    BY <2>2 DEF TypeOK, Initializing
  <2> QED
    BY <2>1, <2>2, <2>3 DEF TypeOK, gauges, request, replies
<1>13. CASE Evict(q)
  <2>1. /\ pc[q] = "evict" /\ lru # <<>> /\ lru' = Tail(lru) /\ Release(Head(lru))
        /\ evicted' = evicted \cup ({value[Head(lru)]} \ {None})
    BY <1>13 DEF Evict
  <2>2. Head(lru) \in Requests /\ lru' \in Seq(Requests)
    BY <2>1, TailList DEF TypeOK
  <2>3. evicted' \subseteq Requests
    BY <2>1, <2>2 DEF TypeOK
  <2>4. /\ value' \in [Requests -> Requests \cup {None}]
        /\ available' \in Nat /\ reserved' \in [Requests -> Nat]
        /\ diskFiles' \in Int /\ diskBytes' \in Int
    BY <2>1, <2>2, ReleaseType
  <2> QED
    BY <1>13, <2>2, <2>3, <2>4 DEF Evict, Goto, TypeOK, request, replies, Initializing
<1>14. CASE Publish(q)
  <2>1. cellOf[q] \in Requests
    BY <1>14, HoldsCell DEF Publish, Initializing
  <2>2. counted' \in [Requests -> SUBSET Outcomes]
    BY <1>14 DEF Publish, Count, HitOrMiss, TypeOK, Outcomes
  <2>3. value' \in [Requests -> Requests \cup {None}]
    BY <1>14 DEF Publish, TypeOK
  <2>4. diskFiles' \in Int /\ diskBytes' \in Int
    BY <1>14 DEF Publish, TypeOK
  <2>5. published' \in [Requests -> 0..MaxTime \cup {None}]
    <3>1. published' = [published EXCEPT ![q] = clock] /\ clock \in 0..MaxTime
      BY <1>14 DEF Publish, TypeOK
    <3> QED
      BY <3>1 DEF TypeOK
  <2> QED
    BY <1>14, <2>2, <2>3, <2>4, <2>5 DEF Publish, Goto, TypeOK, pool, request, replies
<1>15. CASE CloneOk(q)
  <2>1. cellOf[q] \in Requests
    BY <1>15, HoldsCell DEF CloneOk
  <2>2. /\ value' \in [Requests -> Requests \cup {None}]
        /\ available' \in Nat /\ reserved' \in [Requests -> Nat]
        /\ diskFiles' \in Int /\ diskBytes' \in Int
    BY <1>15, <2>1, ReleaseType DEF CloneOk
  <2>3. served' \in [Requests -> Requests \cup {None}]
    BY <1>15, <2>1 DEF CloneOk, TypeOK
  <2>4. /\ pc' = [pc EXCEPT ![q] = "stream"] /\ answer' = [answer EXCEPT ![q] = "body"]
        /\ cellOf' = [cellOf EXCEPT ![q] = None] /\ lru' = lru
        /\ UNCHANGED <<clock, request, size, published, counted, evicted>>
    BY <1>15 DEF CloneOk, Goto, Answer
  <2> QED
    BY <2>2, <2>3, <2>4 DEF TypeOK, request, Answers
<1>16. CASE CloneFail(q) \/ Cancel(q)
  <2>1. counted' \in [Requests -> SUBSET Outcomes]
    BY <1>16 DEF CloneFail, Cancel, TypeOK
  <2> QED
    BY <1>16, <2>1, GiveUpType DEF CloneFail, Cancel, Answers
<1> QED
  BY <1>1, <1>2, <1>3, <1>4, <1>5, <1>6, <1>7, <1>8, <1>9, <1>10, <1>11, <1>12,
     <1>13, <1>14, <1>15, <1>16 DEF Step

-----------------------------------------------------------------------------
(* The invariant.                                                          *)

\* The invariant holds of an empty cache.
LEMMA InvInit ==
    ASSUME Init
    PROVE  Inv
<1> USE CacheAssumption DEF Init
<1>1. TypeOK
  BY DEF TypeOK
<1>2. Conservation
  <2>1. /\ reserved \in [Requests -> Nat] /\ \A r \in Requests : reserved[r] = 0
        /\ IsFiniteSet(Requests)
    OBVIOUS
  <2>2. TotalBytes(reserved, Requests) = 0
    BY <2>1, TotalZero
  <2> QED
    BY <2>2 DEF Conservation
<1>3. ToSet(lru) = {}
  BY DEF ToSet
<1>4. StructureInv
  BY <1>3 DEF StructureInv, CellsAreHeld, CellsAreFresh, ValuesAreOwned,
     PermitsAreExclusive, MutexIsExclusive, NoReservationLeaks, ListIsReserved,
     KeysAgree, HeldStaysLive, Initializing, Evicting
<1> QED
  BY <1>1, <1>2, <1>4 DEF Inv

\* Every step keeps the invariant.
LEMMA InvStep ==
    ASSUME Inv, [Next]_vars
    PROVE  Inv'
<1>1. TypeOK'
  BY TypeStep
<1>2. ASSUME UNCHANGED vars PROVE Inv'
  <2>1. /\ value' = value /\ reserved' = reserved /\ available' = available
        /\ size' = size /\ key' = key /\ lru' = lru /\ pc' = pc /\ cellOf' = cellOf
    BY <1>2 DEF vars, store, request
  <2>2. Conservation'
    BY <2>1 DEF Inv, Conservation
  <2>3. StructureInv'
    BY <2>1 DEF Inv, StructureInv, CellsAreHeld, CellsAreFresh, ValuesAreOwned,
       PermitsAreExclusive, MutexIsExclusive, NoReservationLeaks, ListIsReserved,
       KeysAgree, HeldStaysLive, Live
  <2> QED
    BY <1>1, <2>2, <2>3 DEF Inv
<1>3. ASSUME Tick PROVE Inv'
  <2>1. /\ value' = value /\ reserved' = reserved /\ available' = available
        /\ size' = size /\ key' = key /\ lru' = lru /\ pc' = pc /\ cellOf' = cellOf
    BY <1>3 DEF Tick, store, request
  <2>2. Conservation'
    BY <2>1 DEF Inv, Conservation
  <2>3. StructureInv'
    BY <2>1 DEF Inv, StructureInv, CellsAreHeld, CellsAreFresh, ValuesAreOwned,
       PermitsAreExclusive, MutexIsExclusive, NoReservationLeaks, ListIsReserved,
       KeysAgree, HeldStaysLive, Live
  <2> QED
    BY <1>1, <2>2, <2>3 DEF Inv
<1> SUFFICES ASSUME NEW q \in Requests,
                    Arrive(q) \/ Step(q) \/ StreamEnd(q) \/ Cancel(q)
             PROVE  Inv'
  BY <1>2, <1>3 DEF Next, Quiet
<1>4. CASE Arrive(q)
  BY <1>1, <1>4, ArriveStep
<1>5. CASE \/ ReadCell(q) \/ BeginInit(q) \/ FetchOk(q) \/ TakeLock(q)
           \/ NothingToEvict(q) \/ StreamEnd(q)
  <2>1. CASE ReadCell(q)
    <3>1. Moves(q, "clone")
      BY <2>1 DEF ReadCell, Moves, Goto, store, request
    <3> QED
      BY <1>1, <3>1, MovesStep
  <2>2. CASE BeginInit(q)
    <3>1. Moves(q, "fetch")
      BY <2>2 DEF BeginInit, Moves, Goto, store, request
    <3> QED
      BY <1>1, <3>1, MovesStep
  <2>3. CASE FetchOk(q)
    <3>1. Moves(q, "copy")
      BY <2>3 DEF FetchOk, Moves, Goto, store, request
    <3> QED
      BY <1>1, <3>1, MovesStep
  <2>4. CASE TakeLock(q)
    <3>1. Moves(q, "evict")
      BY <2>4 DEF TakeLock, Moves, Goto, store, request
    <3> QED
      BY <1>1, <3>1, MovesStep
  <2>5. CASE NothingToEvict(q)
    <3>1. Moves(q, "up_to")
      BY <2>5 DEF NothingToEvict, Moves, Goto, store, request
    <3> QED
      BY <1>1, <3>1, MovesStep
  <2>6. CASE StreamEnd(q)
    <3>1. Moves(q, "done")
      BY <2>6 DEF StreamEnd, Moves, Goto, store, request
    <3> QED
      BY <1>1, <3>1, MovesStep
  <2> QED
    BY <1>5, <2>1, <2>2, <2>3, <2>4, <2>5, <2>6
<1>6. CASE CopyDone(q)
  <2>1. \A r \in Requests : size'[r] = size[r] \/ (r = q /\ pc[q] = "copy")
    BY <1>6 DEF CopyDone, Inv, TypeOK
  <2>2. Moves(q, "reserve")
    BY <1>6, <2>1 DEF CopyDone, Moves, Goto
  <2> QED
    BY <1>1, <2>2, MovesStep
<1>7. ASSUME NEW a, GiveUp(q, a),
             pc[q] \in {"lookup", "proxy", "cell", "fetch", "copy", "want_lock", "clone"}
      PROVE  Inv'
  <2>1. LetsGo(q, "done")
    BY <1>7 DEF GiveUp, LetsGo, Goto
  <2> QED
    BY <1>1, <2>1, LetsGoStep
<1>8. CASE ProxyReply(q) \/ FetchFail(q) \/ CopyFail(q) \/ CloneFail(q) \/ Cancel(q)
  BY <1>7, <1>8 DEF ProxyReply, FetchFail, CopyFail, CloneFail, Cancel
<1>9. CASE CloneOk(q)
  <2>1. cellOf[q] # None
    BY <1>9, HoldsCell DEF CloneOk
  <2>2. LetsGo(q, "stream")
    BY <1>9, <2>1 DEF CloneOk, LetsGo, Goto
  <2> QED
    BY <1>1, <2>2, LetsGoStep
<1>10. CASE Reserve(q) \/ Retry(q) \/ ReserveUpTo(q)
  <2>1. /\ UNCHANGED <<request, cellOf, value, gauges, lru, size>>
        /\ pc[q] \in {"reserve", "retry", "up_to"}
    BY <1>10 DEF Reserve, Retry, ReserveUpTo, TryReserve
  <2>2. CASE Grant(q, size[q]) /\ size[q] <= available
    BY <1>1, <2>1, <2>2, GrantStep DEF request, Inv, TypeOK
  <2>3. CASE Grant(q, available) /\ pc[q] = "up_to"
    <3>1. available \in Nat /\ available <= available
      BY DEF Inv, TypeOK
    <3>2. UNCHANGED <<cellOf, value, lru, size, key>>
      BY <2>1 DEF request
    <3> QED
      BY <1>1, <2>1, <2>3, <3>1, <3>2, GrantStep
  <2>4. CASE /\ UNCHANGED pool
             /\ \/ pc[q] = "reserve" /\ Goto(q, "want_lock")
                \/ pc[q] = "retry" /\ Goto(q, "evict")
    <3>1. UNCHANGED <<cellOf, store, lru, request, size>>
      BY <2>1, <2>4 DEF store, pool, gauges
    <3>2. CASE pc[q] = "reserve" /\ Goto(q, "want_lock")
      <4>1. Moves(q, "want_lock")
        BY <3>1, <3>2 DEF Moves, Goto, store, request
      <4> QED
        BY <1>1, <4>1, MovesStep
    <3>3. CASE pc[q] = "retry" /\ Goto(q, "evict")
      <4>1. Moves(q, "evict")
        BY <3>1, <3>3 DEF Moves, Goto, store, request
      <4> QED
        BY <1>1, <4>1, MovesStep
    <3> QED
      BY <2>4, <3>2, <3>3
  <2> QED
    BY <1>10, <2>2, <2>3, <2>4 DEF Reserve, Retry, ReserveUpTo, TryReserve
<1>11. CASE LookupHit(q) \/ LookupPending(q)
  <2>1. PICK i \in Places(q) :
          /\ lru' = Reuse(i, lru[i]) /\ cellOf' = [cellOf EXCEPT ![q] = lru[i]]
          /\ \/ value[lru[i]] # None /\ Goto(q, "clone")
             \/ Goto(q, "cell")
    BY <1>11 DEF LookupHit, LookupPending
  <2>2. lru \in Seq(Requests) /\ i \in DOMAIN lru /\ key[lru[i]] = key[q]
    BY DEF Inv, TypeOK, Places
  <2>3. /\ lru[i] \in ToSet(lru) /\ lru[i] \in Requests
        /\ lru' \in Seq(Requests) /\ ToSet(lru') = ToSet(lru)
    <3> DEFINE c == lru[i]
    <3>1. c \in ToSet(lru) /\ c \in Requests
      BY <2>2, RemoveList
    <3> HIDE DEF c
    <3>2. /\ Reuse(i, c) \in Seq(Requests)
          /\ ToSet(Reuse(i, c)) \subseteq ToSet(lru) \cup {c}
          /\ ToSet(lru) \subseteq ToSet(Reuse(i, c)) \cup {lru[i]}
          /\ c \in ToSet(Reuse(i, c))
      BY <2>2, <3>1, ReuseList
    <3>3. lru' = Reuse(i, c) /\ lru[i] = c
      BY <2>1 DEF c
    <3>4. lru[i] \in ToSet(lru) /\ lru[i] \in Requests /\ lru' \in Seq(Requests)
      BY <3>1, <3>2, <3>3
    <3>5. \A d : d \in ToSet(lru') <=> d \in ToSet(lru)
      BY <3>1, <3>2, <3>3
    <3> QED
      BY <3>4, <3>5
  <2>4. pc[q] = "lookup" /\ ListIsFree /\ UNCHANGED <<store, size, key>>
    BY <1>11 DEF LookupHit, LookupPending, CanLookup, request
  <2>5. \E l \in {"clone", "cell"} : Takes(q, lru[i], l)
    BY <2>1, <2>2, <2>3, <2>4 DEF Takes, Goto
  <2> QED
    BY <1>1, <2>3, <2>4, <2>5, TakesStep
<1>12. CASE LookupExpired(q) \/ LookupAbsent(q)
  <2>1. /\ pc[q] = "lookup" /\ ListIsFree /\ UNCHANGED <<size, key>>
        /\ pc' = [pc EXCEPT ![q] = "cell"] /\ cellOf' = [cellOf EXCEPT ![q] = q]
    BY <1>12 DEF LookupExpired, LookupAbsent, CanLookup, request, Goto
  <2>2. lru \in Seq(Requests)
    BY DEF Inv, TypeOK
  <2>3. CASE LookupExpired(q)
    <3>1. PICK i \in Places(q) : lru' = Reuse(i, q) /\ Release(lru[i])
      BY <2>3 DEF LookupExpired
    <3>2. /\ lru[i] \in Requests /\ lru' \in Seq(Requests)
          /\ ToSet(lru') \subseteq ToSet(lru) \cup {q}
          /\ ToSet(lru) \subseteq ToSet(lru') \cup {lru[i]}
      BY <2>2, <3>1, ReuseList DEF Places
    <3> QED
      BY <1>1, <2>1, <3>1, <3>2, InsertsStep DEF Inserts
  <2>4. CASE LookupAbsent(q) /\ Len(lru) < MaxCacheFiles
    <3>1. lru' = Append(lru, q) /\ UNCHANGED store
      BY <2>4 DEF LookupAbsent
    <3>2. lru' \in Seq(Requests) /\ ToSet(lru') = ToSet(lru) \cup {q}
      BY <2>2, <3>1, AppendList
    <3> QED
      BY <1>1, <2>1, <3>1, <3>2, InsertsStep DEF Inserts
  <2>5. CASE LookupAbsent(q) /\ ~ (Len(lru) < MaxCacheFiles)
    <3> DEFINE c == Head(lru)
    <3>1. lru' = Append(Tail(lru), q) /\ Release(c)
      BY <2>5 DEF LookupAbsent
    <3>2. lru # <<>>
      BY <2>5, CacheAssumption
    <3>3. /\ c \in Requests /\ Tail(lru) \in Seq(Requests)
          /\ ToSet(Tail(lru)) \subseteq ToSet(lru)
          /\ ToSet(lru) \subseteq ToSet(Tail(lru)) \cup {c}
      BY <2>2, <3>2, TailList
    <3>4. lru' \in Seq(Requests) /\ ToSet(lru') = ToSet(Tail(lru)) \cup {q}
      BY <3>1, <3>3, AppendList
    <3> HIDE DEF c
    <3>5. /\ ToSet(lru') \subseteq ToSet(lru) \cup {q}
          /\ ToSet(lru) \subseteq ToSet(lru') \cup {c}
      BY <3>3, <3>4
    <3> QED
      BY <1>1, <2>1, <3>1, <3>3, <3>4, <3>5, InsertsStep DEF Inserts
  <2> QED
    BY <1>12, <2>3, <2>4, <2>5
<1>13. CASE Evict(q)
  BY <1>1, <1>13, EvictStep
<1>14. CASE Publish(q)
  BY <1>1, <1>14, PublishStep
<1> QED
  BY <1>4, <1>5, <1>6, <1>8, <1>9, <1>10, <1>11, <1>12, <1>13, <1>14 DEF Step

\* The inductive invariant: whatever requests do, types and accounting hold,
\* and cells, permits, the mutex and resources relate as StructureInv says.
THEOREM CacheInvariance == Spec => []Inv
<1>1. Init => Inv
  BY InvInit
<1>2. Inv /\ [Next]_vars => Inv'
  BY InvStep
<1> QED
  BY <1>1, <1>2, PTL DEF Spec

\* The types of the model hold in every reachable state.
THEOREM CacheTypeCorrect == Spec => []TypeOK
<1>1. Inv => TypeOK
  BY DEF Inv
<1> QED
  BY <1>1, CacheInvariance, PTL

\* Cells, permits, the mutex and the resources relate as the code counts on: a
\* cell has one permit, a resource one cell, and the list one editor
\* (cache.rs:184-227, 462-538).
THEOREM CacheStructure == Spec => []StructureInv
<1>1. Inv => StructureInv
  BY DEF Inv
<1> QED
  BY <1>1, CacheInvariance, PTL

\* Bytes of disk capacity are neither lost nor handed out twice, whatever
\* requests fetch, evict, replace, fail and leave, in any order
\* (cache.rs:460-509, 599-604, 717).
THEOREM CacheConservesCapacity == Spec => []Conservation
<1>1. Inv => Conservation
  BY DEF Inv
<1> QED
  BY <1>1, CacheInvariance, PTL

\* Every reservation belongs to a resource that exists or is about to
\* (cache.rs:590).
THEOREM CacheLeaksNoReservation == Spec => []NoReservationLeaks
<1>1. Inv => NoReservationLeaks
  BY DEF Inv, StructureInv
<1> QED
  BY <1>1, CacheInvariance, PTL

\* No resource is dropped under a request that answers from it
\* (cache.rs:193, 242, 257).
THEOREM CacheHoldsWhatItServes == Spec => []HeldStaysLive
<1>1. Inv => HeldStaysLive
  BY DEF Inv, StructureInv
<1> QED
  BY <1>1, CacheInvariance, PTL

\* What is in the list has its bytes reserved, and no byte is reserved twice:
\* so the cached files fit in max_disk_capacity (cache.rs:460-509).
THEOREM CacheStaysWithinCapacity == Spec => []CacheFits
<1>1. ASSUME Inv PROVE CacheFits
  <2>1. /\ IsFiniteSet(Requests) /\ Capacity \in Nat /\ available \in Nat
        /\ size \in [Requests -> Nat] /\ reserved \in [Requests -> Nat]
    BY <1>1, CacheAssumption DEF Inv, TypeOK
  <2>2. \A r \in Cached : r \in Requests /\ size[r] = reserved[r]
    <3>1. \A c \in ToSet(lru) : c \in Requests
      BY <1>1, Members DEF Inv, TypeOK
    <3> QED
      BY <1>1, <3>1, ValuesArePublished DEF Inv, StructureInv, ListIsReserved, Cached
  <2>3. TotalBytes(size, Cached) <= TotalBytes(reserved, Requests)
    <3>1. Cached \in SUBSET Requests
      BY <2>2
    <3>2. \A r \in Cached : size[r] \in Nat /\ size[r] <= reserved[r]
      BY <2>1, <2>2
    <3> HIDE DEF Cached
    <3> QED
      BY <2>1, <3>1, <3>2, TotalMonotone
  <2>4. TotalBytes(reserved, Requests) \in Nat
    BY <2>1, TotalType
  <2>5. TotalBytes(size, Cached) \in Nat
    <3>1. IsFiniteSet(Cached)
      BY <2>1, <2>2, FS_Subset
    <3> QED
      BY <2>1, <2>2, <3>1, TotalType
  <2>6. available + TotalBytes(reserved, Requests) = Capacity
    BY <1>1 DEF Inv, Conservation
  <2> QED
    BY <2>1, <2>3, <2>4, <2>5, <2>6 DEF CacheFits
<1> QED
  BY <1>1, CacheInvariance, PTL

-----------------------------------------------------------------------------
(* The list, and the requests that share its cells.                        *)

\* The cells of a list have different keys.
DistinctKeys(s) == \A i, j \in 1..Len(s) : i # j => key[s[i]] # key[s[j]]

ListInv == Inv /\ ListWellFormed

\* Taking an entry out leaves different keys, none of them the entry's.
LEMMA DistinctWithout ==
    ASSUME NEW s \in Seq(Requests), NEW i \in DOMAIN s, DistinctKeys(s)
    PROVE  LET rest == RemoveAt(s, i) IN
           /\ rest \in Seq(Requests) /\ Len(rest) = Len(s) - 1
           /\ DistinctKeys(rest)
           /\ \A j \in 1..Len(rest) : key[rest[j]] # key[s[i]]
<1> DEFINE n == Len(s)
           rest == RemoveAt(s, i)
           from(j) == IF j < i THEN j ELSE j + 1
<1>1. n \in Nat /\ i \in 1..n
  OBVIOUS
<1>2. /\ rest \in Seq(Requests) /\ Len(rest) = n - 1
      /\ \A j \in 1..n-1 : rest[j] = IF j < i THEN s[j] ELSE s[j + 1]
  BY RemoveEntry
<1> HIDE DEF rest
<1>3. \A j \in 1..n-1 : rest[j] = s[from(j)] /\ from(j) \in 1..n /\ from(j) # i
  BY <1>1, <1>2
<1>4. \A j, k \in 1..n-1 : j # k => from(j) # from(k)
  BY <1>1
<1> HIDE DEF from
<1>5. DistinctKeys(rest)
  <2> SUFFICES ASSUME NEW j \in 1..n-1, NEW k \in 1..n-1, j # k
               PROVE  key[rest[j]] # key[rest[k]]
    BY <1>2 DEF DistinctKeys
  <2>1. from(j) \in 1..n /\ from(k) \in 1..n /\ from(j) # from(k)
    BY <1>3, <1>4
  <2>2. key[s[from(j)]] # key[s[from(k)]]
    BY <2>1 DEF DistinctKeys
  <2> QED
    BY <1>3, <2>2
<1>6. \A j \in 1..n-1 : key[rest[j]] # key[s[i]]
  BY <1>1, <1>3 DEF DistinctKeys
<1> QED
  BY <1>2, <1>5, <1>6 DEF rest

\* A list without its first entry has different keys still.
LEMMA DistinctTail ==
    ASSUME NEW s \in Seq(Requests), s # <<>>, DistinctKeys(s)
    PROVE  LET t == Tail(s) IN
           /\ t \in Seq(Requests) /\ Len(t) = Len(s) - 1
           /\ DistinctKeys(t)
           /\ \A j \in 1..Len(t) : \E k \in 1..Len(s) : t[j] = s[k]
<1> DEFINE t == Tail(s)
<1>1. Len(s) \in Nat /\ Len(s) > 0
  OBVIOUS
<1>2. /\ t \in Seq(Requests) /\ Len(t) = Len(s) - 1
      /\ \A j \in 1..Len(s)-1 : t[j] = s[j + 1]
  BY <1>1
<1> HIDE DEF t
<1>3. \A j \in 1..Len(t) : j + 1 \in 1..Len(s)
  BY <1>1, <1>2
<1>4. \A j, k \in 1..Len(t) : j # k => j + 1 # k + 1
  BY <1>1, <1>2
<1>5. DistinctKeys(t)
  BY <1>2, <1>3, <1>4 DEF DistinctKeys
<1> QED
  BY <1>2, <1>3, <1>5 DEF t

\* So does a list that grows by a cell of a key that was not in it.
LEMMA DistinctAppend ==
    ASSUME NEW s \in Seq(Requests), NEW c \in Requests, DistinctKeys(s),
           \A j \in 1..Len(s) : key[s[j]] # key[c]
    PROVE  DistinctKeys(Append(s, c)) /\ Len(Append(s, c)) = Len(s) + 1
<1> DEFINE n == Len(s)
           t == Append(s, c)
<1>1. n \in Nat /\ Len(t) = n + 1 /\ t[n + 1] = c
  OBVIOUS
<1>2. \A j \in 1..n : t[j] = s[j]
  OBVIOUS
<1> HIDE DEF t
<1> SUFFICES ASSUME NEW i \in 1..n+1, NEW j \in 1..n+1, i # j
             PROVE  key[t[i]] # key[t[j]]
  BY <1>1 DEF DistinctKeys, t
<1>3. (i \in 1..n \/ i = n + 1) /\ (j \in 1..n \/ j = n + 1)
  BY <1>1
<1> HIDE DEF n
<1> QED
  BY <1>1, <1>2, <1>3 DEF DistinctKeys, n

\* A cell that takes the place of one of its own key leaves the list well formed.
LEMMA ReuseKeeps ==
    ASSUME ListInv, NEW i \in DOMAIN lru, NEW c \in Requests, key[c] = key[lru[i]]
    PROVE  DistinctKeys(Reuse(i, c)) /\ Len(Reuse(i, c)) <= MaxCacheFiles
<1> DEFINE rest == RemoveAt(lru, i)
<1>1. lru \in Seq(Requests) /\ DistinctKeys(lru) /\ Len(lru) <= MaxCacheFiles
  BY DEF ListInv, Inv, TypeOK, ListWellFormed, DistinctKeys
<1>2. /\ rest \in Seq(Requests) /\ Len(rest) = Len(lru) - 1
      /\ DistinctKeys(rest) /\ \A j \in 1..Len(rest) : key[rest[j]] # key[c]
  BY <1>1, DistinctWithout
<1> HIDE DEF rest
<1>3. DistinctKeys(Append(rest, c)) /\ Len(Append(rest, c)) = Len(rest) + 1
  BY <1>2, DistinctAppend
<1>4. Len(lru) \in Nat /\ MaxCacheFiles \in Nat
  BY <1>1, CacheAssumption
<1> QED
  BY <1>1, <1>2, <1>3, <1>4 DEF Reuse, rest

-----------------------------------------------------------------------------
(* The steps.                                                              *)

\* The only step that names a key is the arrival of a request, whose cell is
\* not in the list yet.
LEMMA ArriveKeeps ==
    ASSUME ListInv, NEW q \in Requests, Arrive(q)
    PROVE  ListWellFormed'
<1>1. lru' = lru /\ lru \in Seq(Requests) /\ q \notin ToSet(lru)
  BY DEF Arrive, ListInv, Inv, StructureInv, CellsAreFresh, TypeOK
<1>2. \A c \in Requests : c # q => key'[c] = key[c]
  BY DEF Arrive, ListInv, Inv, TypeOK
<1>3. \A j \in 1..Len(lru) : lru[j] \in Requests /\ lru[j] # q
  BY <1>1, Members
<1> QED
  BY <1>1, <1>2, <1>3 DEF ListInv, ListWellFormed

\* Every step leaves one cell per key, and no more cells than fit.
LEMMA ListStep ==
    ASSUME ListInv, [Next]_vars
    PROVE  ListWellFormed'
<1>1. ASSUME UNCHANGED <<lru, key>> PROVE ListWellFormed'
  BY <1>1 DEF ListInv, ListWellFormed
<1>2. ASSUME key' = key, lru' \in Seq(Requests), DistinctKeys(lru'),
             Len(lru') <= MaxCacheFiles
      PROVE  ListWellFormed'
  BY <1>2 DEF ListWellFormed, DistinctKeys
<1>3. /\ lru \in Seq(Requests) /\ DistinctKeys(lru) /\ Len(lru) <= MaxCacheFiles
      /\ lru' \in Seq(Requests) /\ Len(lru) \in Nat /\ MaxCacheFiles \in Nat \ {0}
  BY TypeStep, CacheAssumption DEF ListInv, Inv, TypeOK, ListWellFormed, DistinctKeys
<1>4. ASSUME UNCHANGED vars \/ Tick \/ Quiet PROVE ListWellFormed'
  BY <1>1, <1>4 DEF vars, Tick, Quiet, request
<1> SUFFICES ASSUME NEW q \in Requests,
                    Arrive(q) \/ Step(q) \/ StreamEnd(q) \/ Cancel(q)
             PROVE  ListWellFormed'
  BY <1>4 DEF Next
<1>5. CASE Arrive(q)
  BY <1>5, ArriveKeeps
<1>6. ASSUME NEW a, GiveUp(q, a) PROVE ListWellFormed'
  BY <1>1, <1>6 DEF GiveUp, request
<1>7. CASE \/ ProxyReply(q) \/ FetchFail(q) \/ CopyFail(q) \/ CloneFail(q) \/ Cancel(q)
  BY <1>6, <1>7 DEF ProxyReply, FetchFail, CopyFail, CloneFail, Cancel
<1>8. CASE \/ ReadCell(q) \/ BeginInit(q) \/ FetchOk(q) \/ CopyDone(q) \/ TakeLock(q)
           \/ NothingToEvict(q) \/ Publish(q) \/ CloneOk(q) \/ StreamEnd(q)
  BY <1>1, <1>8 DEF ReadCell, BeginInit, FetchOk, CopyDone, TakeLock,
     NothingToEvict, Publish, CloneOk, StreamEnd, request
<1>9. CASE Reserve(q) \/ Retry(q) \/ ReserveUpTo(q)
  BY <1>1, <1>9 DEF Reserve, Retry, ReserveUpTo, TryReserve, request
<1>10. CASE LookupHit(q) \/ LookupPending(q) \/ LookupExpired(q)
  <2>1. key' = key
    BY <1>10 DEF LookupHit, LookupPending, LookupExpired, request
  <2>2. PICK i \in Places(q) : lru' = Reuse(i, lru[i]) \/ lru' = Reuse(i, q)
    BY <1>10 DEF LookupHit, LookupPending, LookupExpired
  <2>3. i \in DOMAIN lru /\ lru[i] \in Requests /\ key[lru[i]] = key[q]
    BY <1>3, <2>2 DEF Places
  <2>4. PICK c \in Requests : lru' = Reuse(i, c) /\ key[c] = key[lru[i]]
    BY <2>2, <2>3
  <2>5. DistinctKeys(Reuse(i, c)) /\ Len(Reuse(i, c)) <= MaxCacheFiles
    BY <2>3, <2>4, ReuseKeeps
  <2> QED
    BY <1>2, <1>3, <2>1, <2>4, <2>5
<1>11. CASE LookupAbsent(q)
  <2>1. key' = key
    BY <1>11 DEF LookupAbsent, request
  <2>2. \A j \in 1..Len(lru) : key[lru[j]] # key[q]
    BY <1>3, <1>11 DEF LookupAbsent, Places
  <2>3. CASE Len(lru) < MaxCacheFiles
    <3>1. lru' = Append(lru, q)
      BY <1>11, <2>3 DEF LookupAbsent
    <3>2. DistinctKeys(lru') /\ Len(lru') = Len(lru) + 1
      BY <1>3, <2>2, <3>1, DistinctAppend
    <3> QED
      BY <1>2, <1>3, <2>1, <2>3, <3>2
  <2>4. CASE ~ (Len(lru) < MaxCacheFiles)
    <3> DEFINE t == Tail(lru)
    <3>1. lru' = Append(t, q) /\ lru # <<>>
      BY <1>3, <1>11, <2>4 DEF LookupAbsent
    <3>2. /\ t \in Seq(Requests) /\ Len(t) = Len(lru) - 1 /\ DistinctKeys(t)
          /\ \A j \in 1..Len(t) : \E k \in 1..Len(lru) : t[j] = lru[k]
      BY <1>3, <3>1, DistinctTail
    <3> HIDE DEF t
    <3>3. \A j \in 1..Len(t) : key[t[j]] # key[q]
      BY <2>2, <3>2
    <3>4. DistinctKeys(lru') /\ Len(lru') = Len(t) + 1
      BY <3>1, <3>2, <3>3, DistinctAppend
    <3> QED
      BY <1>2, <1>3, <2>1, <3>2, <3>4
  <2> QED
    BY <2>3, <2>4
<1>12. CASE Evict(q)
  <2>1. key' = key /\ lru' = Tail(lru) /\ lru # <<>>
    BY <1>12 DEF Evict, request
  <2>2. DistinctKeys(lru') /\ Len(lru') = Len(lru) - 1
    BY <1>3, <2>1, DistinctTail
  <2> QED
    BY <1>2, <1>3, <2>1, <2>2
<1> QED
  BY <1>5, <1>7, <1>8, <1>9, <1>10, <1>11, <1>12 DEF Step

-----------------------------------------------------------------------------
(* What follows.                                                           *)

\* The list is well formed in every reachable state, and with it the rest.
THEOREM ListInvariance == Spec => []ListInv
<1>1. Init => ListInv
  <2>1. Init => ListWellFormed
    BY CacheAssumption DEF Init, ListWellFormed
  <2> QED
    BY <2>1, InvInit DEF ListInv
<1>2. ListInv /\ [Next]_vars => ListInv'
  BY InvStep, ListStep DEF ListInv
<1> QED
  BY <1>1, <1>2, PTL DEF Spec

\* The list has one cell per key and at most max_cache_files of them, through
\* promotion, replacement, insertion and eviction (cache.rs:184-194, 477).
THEOREM CacheListWellFormed == Spec => []ListWellFormed
<1>1. ListInv => ListWellFormed
  BY DEF ListInv
<1> QED
  BY <1>1, ListInvariance, PTL

\* Two requests ask the upstream for the same key at once only when the cell
\* of one of them has left the list: the cells of a key are one, and a cell
\* has one permit (cache.rs:195-227).
THEOREM CacheSingleFlight == Spec => []SingleFlight
<1>1. ASSUME ListInv PROVE SingleFlight
  <2> SUFFICES ASSUME NEW p \in Requests, NEW q \in Requests,
                      p # q, key[p] = key[q],
                      pc[p] \in Initializing, pc[q] \in Initializing
               PROVE  /\ cellOf[p] # cellOf[q]
                      /\ ~ {cellOf[p], cellOf[q]} \subseteq ToSet(lru)
    BY DEF SingleFlight
  <2>1. /\ cellOf[p] \in Requests /\ cellOf[p] # None
        /\ cellOf[q] \in Requests /\ cellOf[q] # None
    BY <1>1, HoldsCell DEF ListInv
  <2>2. cellOf[p] # cellOf[q]
    BY <1>1 DEF ListInv, Inv, StructureInv, PermitsAreExclusive
  <2>3. key[cellOf[p]] = key[cellOf[q]]
    BY <1>1, <2>1 DEF ListInv, Inv, StructureInv, KeysAgree
  <2>4. ASSUME {cellOf[p], cellOf[q]} \subseteq ToSet(lru) PROVE FALSE
    <3>1. lru \in Seq(Requests)
      BY <1>1 DEF ListInv, Inv, TypeOK
    <3>2. PICK i \in 1..Len(lru) : lru[i] = cellOf[p]
      BY <2>4, <3>1, Members
    <3>3. PICK j \in 1..Len(lru) : lru[j] = cellOf[q]
      BY <2>4, <3>1, Members
    <3> QED
      BY <1>1, <2>2, <2>3, <3>2, <3>3 DEF ListInv, ListWellFormed
  <2> QED
    BY <2>2, <2>4
<1> QED
  BY <1>1, ListInvariance, PTL
=============================================================================
