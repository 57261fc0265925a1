------------------------- MODULE ManagedBlockProofs -------------------------
(***************************************************************************)
(* Proofs about ManagedBlock: what an update does to a text of any length  *)
(* with any number of keys, whatever its owner edits in between.  Facts    *)
(* about loops over keys and lines are proved by the least counterexample  *)
(* (Least), which the provers can use where they cannot use induction.     *)
(***************************************************************************)
EXTENDS ManagedBlock, SequenceTheorems, WellFoundedInduction, TLAPS

-----------------------------------------------------------------------------
(* Numbers                                                                 *)

LEMMA Least ==
    ASSUME NEW T \in SUBSET Nat, T # {}
    PROVE  \E n \in T : \A m \in T : n <= m
<1>1. IsWellFoundedOn(OpToRel(<, Nat), Nat)
  BY NatLessThanWellFounded
<1>2. PICK n \in T : \A m \in T : <<m, n>> \notin OpToRel(<, Nat)
  BY <1>1, WFMin
<1>3. \A m \in T : ~(m < n)
  BY <1>2 DEF OpToRel
<1> QED
  BY <1>3

\* A set that has 0 and with each number below n the next one has all up to n.
LEMMA Induction ==
    ASSUME NEW n \in Nat, NEW P \in SUBSET (0 .. n), 0 \in P,
           \A i \in 0 .. n : i + 1 <= n /\ i \in P => i + 1 \in P
    PROVE  P = 0 .. n
<1> SUFFICES ASSUME (0 .. n) \ P # {} PROVE FALSE
  OBVIOUS
<1> DEFINE Q == (0 .. n) \ P
<1>1. PICK m \in Q : \A i \in Q : m <= i
  <2>1. Q \in SUBSET Nat /\ Q # {}
    OBVIOUS
  <2> HIDE DEF Q
  <2> QED
    BY <2>1, Least
<1>2. m # 0 /\ m \in 0 .. n
  BY <1>1
<1>3. m - 1 \in 0 .. n /\ m - 1 \in P
  BY <1>1, <1>2
<1> QED
  BY <1>1, <1>2, <1>3

LEMMA MaxOfRange ==
    ASSUME NEW n \in Nat, NEW s \in SUBSET (1 .. n), s # {}
    PROVE  Max(s) \in s /\ \A i \in s : i <= Max(s)
<1> DEFINE T == {k \in 0 .. n : n - k \in s}
<1>1. PICK j : j \in s
  OBVIOUS
<1>2. n - j \in T
  BY <1>1
<1>3. PICK k \in T : \A m \in T : k <= m
  <2>1. T \in SUBSET Nat /\ T # {}
    BY <1>2
  <2> HIDE DEF T
  <2> QED
    BY <2>1, Least
<1>4. n - k \in s /\ k \in 0 .. n
  BY <1>3
<1>5. \A i \in s : n - k >= i
  <2> SUFFICES ASSUME NEW i \in s PROVE n - k >= i
    OBVIOUS
  <2>1. n - i \in T /\ i \in 1 .. n
    OBVIOUS
  <2>2. k <= n - i
    BY <1>3, <2>1
  <2> QED
    BY <1>4, <2>1, <2>2
<1>6. Max(s) \in s /\ \A i \in s : Max(s) >= i
  BY <1>4, <1>5 DEF Max
<1>7. \A i \in s : i \in Int
  OBVIOUS
<1> QED
  BY <1>6, <1>7

-----------------------------------------------------------------------------
(* Loops                                                                   *)

\* FoldLeft of the community modules folds the set of indices, greatest last;
\* such a fold of a step f on the indices up to n is defined.
IsFold(h, n, base, f) ==
    h = [s \in SUBSET (1 .. n) |->
            IF s = {} THEN base ELSE f[h[s \ {Max(s)}], Max(s)]]

LEMMA FoldDefined ==
    ASSUME NEW n \in Nat, NEW X, NEW base \in X, NEW f \in [X \X (1 .. n) -> X]
    PROVE  \E h \in [SUBSET (1 .. n) -> X] : IsFold(h, n, base, f)
<1> DEFINE P == {m \in 0 .. n : \E h \in [SUBSET (1 .. m) -> X] : IsFold(h, m, base, f)}
<1>1. 0 \in P
  <2> DEFINE h == [s \in SUBSET (1 .. 0) |-> base]
  <2>1. \A s \in SUBSET (1 .. 0) : s = {}
    OBVIOUS
  <2>2. h = [s \in SUBSET (1 .. 0) |-> IF s = {} THEN base ELSE f[h[s \ {Max(s)}], Max(s)]]
    BY <2>1
  <2>3. h \in [SUBSET (1 .. 0) -> X]
    OBVIOUS
  <2> HIDE DEF h
  <2>4. IsFold(h, 0, base, f)
    BY <2>2, Zenon DEF IsFold
  <2>5. 0 \in 0 .. n
    OBVIOUS
  <2> QED
    BY <2>3, <2>4, <2>5
<1>2. ASSUME NEW m \in 0 .. n, m + 1 <= n, m \in P PROVE m + 1 \in P
  <2>1. PICK h \in [SUBSET (1 .. m) -> X] : IsFold(h, m, base, f)
    BY <1>2
  <2> DEFINE k == m + 1
             S == SUBSET (1 .. k)
             g == [s \in S |-> IF k \in s THEN f[h[s \ {k}], k] ELSE h[s]]
  <2>2. k \in 1 .. n /\ k \in Nat /\ 1 .. k = (1 .. m) \cup {k}
    BY <1>2
  <2>3. ASSUME NEW s \in S PROVE g[s] \in X
    <3>1. CASE k \in s
      <4>1. s \ {k} \in SUBSET (1 .. m)
        BY <2>2
      <4>2. h[s \ {k}] \in X
        BY <4>1
      <4> QED
        BY <2>2, <3>1, <4>2
    <3>2. CASE k \notin s
      <4>1. s \in SUBSET (1 .. m)
        BY <2>2, <3>2
      <4> QED
        BY <3>2, <4>1
    <3> QED
      BY <3>1, <3>2
  <2>4. ASSUME NEW s \in S
        PROVE  g[s] = IF s = {} THEN base ELSE f[g[s \ {Max(s)}], Max(s)]
    <3>1. CASE k \in s
      <4>1. Max(s) = k
        <5>1. Max(s) \in s /\ k <= Max(s) /\ Max(s) \in 1 .. k
          BY <2>2, <3>1, MaxOfRange
        <5> QED
          BY <2>2, <5>1
      <4>2. s \ {k} \in S /\ k \notin s \ {k}
        OBVIOUS
      <4>3. g[s \ {k}] = h[s \ {k}]
        BY <4>2
      <4>4. g[s] = f[h[s \ {k}], k]
        BY <3>1
      <4> HIDE DEF g, S, k
      <4> QED
        BY <3>1, <4>1, <4>3, <4>4
    <3>2. CASE k \notin s
      <4>1. s \in SUBSET (1 .. m)
        BY <2>2, <3>2
      <4>2. g[s] = h[s]
        BY <3>2
      <4>3. h[s] = IF s = {} THEN base ELSE f[h[s \ {Max(s)}], Max(s)]
        BY <2>1, <4>1 DEF IsFold
      <4>4. s \ {Max(s)} \in S /\ k \notin s \ {Max(s)}
        BY <3>2
      <4>5. g[s \ {Max(s)}] = h[s \ {Max(s)}]
        BY <4>4
      <4> HIDE DEF g, S, k
      <4> QED
        BY <4>2, <4>3, <4>5
    <3> QED
      BY <3>1, <3>2
  <2>5. g = [s \in S |-> g[s]]
    OBVIOUS
  <2> HIDE DEF g
  <2>6. g \in [S -> X]
    BY <2>3, <2>5
  <2>7. g = [s \in S |-> IF s = {} THEN base ELSE f[g[s \ {Max(s)}], Max(s)]]
    BY <2>4, <2>5
  <2>8. k \in 0 .. n
    BY <2>2
  <2> QED
    BY <2>6, <2>7, <2>8 DEF IsFold
<1>3. P \in SUBSET (0 .. n)
  OBVIOUS
<1> HIDE DEF P
<1>4. P = 0 .. n
  BY <1>1, <1>2, <1>3, Induction
<1>5. n \in P
  BY <1>4
<1> QED
  BY <1>5, Zenon DEF P

\* The loops of the model, one turn of each.
DedupStep(out, raw) ==
    IF Contains(out, normalize_public_key(raw)) THEN out
    ELSE Append(out, normalize_public_key(raw))

WithoutStep(line, out, l) == IF l = line THEN out ELSE Append(out, l)

\* g says what a loop with n turns has after each of them.
LEMMA DedupLoop ==
    ASSUME NEW R, NEW keys \in Seq(R)
    PROVE  \E g : /\ g[0] = <<>>
                  /\ \A i \in 1 .. Len(keys) : g[i] = DedupStep(g[i - 1], keys[i])
                  /\ normalize_and_dedup(keys) = g[Len(keys)]
<1> DEFINE n == Len(keys)
           Fold(h) == [s \in SUBSET (1 .. n) |->
                         IF s = {} THEN <<>> ELSE DedupStep(h[s \ {Max(s)}], keys[Max(s)])]
           X == Seq({normalize_public_key(r) : r \in R})
           f == [x \in X \X (1 .. n) |-> DedupStep(x[1], keys[x[2]])]
           h == CHOOSE h : h = Fold(h)
<1>1. n \in Nat /\ DOMAIN keys = 1 .. n
  OBVIOUS
<1>2. normalize_and_dedup(keys) = h[1 .. n]
  BY <1>1 DEF normalize_and_dedup, FoldLeft, MapThenFoldSet, DedupStep
<1>3. f \in [X \X (1 .. n) -> X] /\ <<>> \in X
  <2>1. ASSUME NEW out \in X, NEW i \in 1 .. n PROVE DedupStep(out, keys[i]) \in X
    <3>1. normalize_public_key(keys[i]) \in {normalize_public_key(r) : r \in R}
      OBVIOUS
    <3> QED
      BY <3>1 DEF DedupStep
  <2>2. \A x \in X \X (1 .. n) : DedupStep(x[1], keys[x[2]]) \in X
    BY <2>1
  <2> QED
    BY <2>2
<1> HIDE DEF n, X
<1>4. PICK k \in [SUBSET (1 .. n) -> X] : IsFold(k, n, <<>>, f)
  <2> HIDE DEF f
  <2> QED
    BY <1>1, <1>3, FoldDefined
<1>5. k = Fold(k)
  <2>1. ASSUME NEW s \in SUBSET (1 .. n), s # {}
        PROVE  f[k[s \ {Max(s)}], Max(s)] = DedupStep(k[s \ {Max(s)}], keys[Max(s)])
    <3>1. Max(s) \in 1 .. n
      BY <1>1, <2>1, MaxOfRange
    <3>2. k[s \ {Max(s)}] \in X
      OBVIOUS
    <3> QED
      BY <3>1, <3>2
  <2> HIDE DEF f
  <2>2. k = [s \in SUBSET (1 .. n) |->
               IF s = {} THEN <<>> ELSE f[k[s \ {Max(s)}], Max(s)]]
    BY <1>4 DEF IsFold
  <2> QED
    BY <2>1, <2>2
<1>6. h = Fold(h)
  <2> HIDE DEF Fold
  <2> QED
    BY <1>5
<1> HIDE DEF h
<1> DEFINE g == [i \in 0 .. n |-> h[1 .. i]]
<1>7. g[0] = <<>>
  <2>1. 0 \in 0 .. n /\ 1 .. 0 = {} /\ {} \in SUBSET (1 .. n)
    BY <1>1
  <2>2. h[{}] = <<>>
    BY <1>6, <2>1
  <2> QED
    BY <2>1, <2>2
<1>8. ASSUME NEW i \in 1 .. n PROVE g[i] = DedupStep(g[i - 1], keys[i])
  <2>1. 1 .. i \in SUBSET (1 .. n) /\ i \in 1 .. i /\ i \in 0 .. n /\ i - 1 \in 0 .. n
    BY <1>1
  <2>2. Max(1 .. i) = i
    <3>1. Max(1 .. i) \in 1 .. i /\ i <= Max(1 .. i)
      BY <1>1, <2>1, MaxOfRange
    <3> QED
      BY <1>1, <3>1
  <2>3. (1 .. i) \ {i} = 1 .. (i - 1)
    BY <1>1
  <2>4. h[1 .. i] = DedupStep(h[(1 .. i) \ {Max(1 .. i)}], keys[Max(1 .. i)])
    BY <1>6, <2>1
  <2> QED
    BY <2>1, <2>2, <2>3, <2>4
<1>9. g[n] = h[1 .. n]
  BY <1>1
<1> HIDE DEF g
<1> QED
  BY <1>2, <1>7, <1>8, <1>9 DEF n

LEMMA WithoutLoop ==
    ASSUME NEW R, NEW lines \in Seq(R), NEW line
    PROVE  \E g : /\ g[0] = <<>>
                  /\ \A i \in 1 .. Len(lines) : g[i] = WithoutStep(line, g[i - 1], lines[i])
                  /\ without(lines, line) = g[Len(lines)]
<1> DEFINE n == Len(lines)
           Fold(h) == [s \in SUBSET (1 .. n) |->
                         IF s = {} THEN <<>> ELSE WithoutStep(line, h[s \ {Max(s)}], lines[Max(s)])]
           X == Seq(R)
           f == [x \in X \X (1 .. n) |-> WithoutStep(line, x[1], lines[x[2]])]
           h == CHOOSE h : h = Fold(h)
<1>1. n \in Nat /\ DOMAIN lines = 1 .. n
  OBVIOUS
<1>2. without(lines, line) = h[1 .. n]
  BY <1>1 DEF without, FoldLeft, MapThenFoldSet, WithoutStep
<1>3. f \in [X \X (1 .. n) -> X] /\ <<>> \in X
  <2>1. ASSUME NEW out \in X, NEW i \in 1 .. n PROVE WithoutStep(line, out, lines[i]) \in X
    BY DEF WithoutStep
  <2>2. \A x \in X \X (1 .. n) : WithoutStep(line, x[1], lines[x[2]]) \in X
    BY <2>1
  <2> QED
    BY <2>2
<1> HIDE DEF n, X
<1>4. PICK k \in [SUBSET (1 .. n) -> X] : IsFold(k, n, <<>>, f)
  <2> HIDE DEF f
  <2> QED
    BY <1>1, <1>3, FoldDefined
<1>5. k = Fold(k)
  <2>1. ASSUME NEW s \in SUBSET (1 .. n), s # {}
        PROVE  f[k[s \ {Max(s)}], Max(s)] = WithoutStep(line, k[s \ {Max(s)}], lines[Max(s)])
    <3>1. Max(s) \in 1 .. n
      BY <1>1, <2>1, MaxOfRange
    <3>2. k[s \ {Max(s)}] \in X
      OBVIOUS
    <3> QED
      BY <3>1, <3>2
  <2> HIDE DEF f
  <2>2. k = [s \in SUBSET (1 .. n) |->
               IF s = {} THEN <<>> ELSE f[k[s \ {Max(s)}], Max(s)]]
    BY <1>4 DEF IsFold
  <2> QED
    BY <2>1, <2>2
<1>6. h = Fold(h)
  <2> HIDE DEF Fold
  <2> QED
    BY <1>5
<1> HIDE DEF h
<1> DEFINE g == [i \in 0 .. n |-> h[1 .. i]]
<1>7. g[0] = <<>>
  <2>1. 0 \in 0 .. n /\ 1 .. 0 = {} /\ {} \in SUBSET (1 .. n)
    BY <1>1
  <2>2. h[{}] = <<>>
    BY <1>6, <2>1
  <2> QED
    BY <2>1, <2>2
<1>8. ASSUME NEW i \in 1 .. n PROVE g[i] = WithoutStep(line, g[i - 1], lines[i])
  <2>1. 1 .. i \in SUBSET (1 .. n) /\ i \in 1 .. i /\ i \in 0 .. n /\ i - 1 \in 0 .. n
    BY <1>1
  <2>2. Max(1 .. i) = i
    <3>1. Max(1 .. i) \in 1 .. i /\ i <= Max(1 .. i)
      BY <1>1, <2>1, MaxOfRange
    <3> QED
      BY <1>1, <3>1
  <2>3. (1 .. i) \ {i} = 1 .. (i - 1)
    BY <1>1
  <2>4. h[1 .. i] = WithoutStep(line, h[(1 .. i) \ {Max(1 .. i)}], lines[Max(1 .. i)])
    BY <1>6, <2>1
  <2> QED
    BY <2>1, <2>2, <2>3, <2>4
<1>9. g[n] = h[1 .. n]
  BY <1>1
<1> HIDE DEF g
<1> QED
  BY <1>2, <1>7, <1>8, <1>9 DEF n

\* normalize_and_dedup returns every key once, normalised, and nothing else.
LEMMA Dedup ==
    ASSUME NEW R, NEW keys \in Seq(R)
    PROVE  /\ normalize_and_dedup(keys) \in Seq({normalize_public_key(r) : r \in R})
           /\ IsInjective(normalize_and_dedup(keys))
           /\ Range(normalize_and_dedup(keys)) = {normalize_public_key(k) : k \in Range(keys)}
<1>1. PICK g : /\ g[0] = <<>>
               /\ \A i \in 1 .. Len(keys) : g[i] = DedupStep(g[i - 1], keys[i])
               /\ normalize_and_dedup(keys) = g[Len(keys)]
  BY DedupLoop
<1> DEFINE n == Len(keys)
           NK == {normalize_public_key(r) : r \in R}
           Done(i) == /\ g[i] \in Seq(NK)
                      /\ \A a, b \in 1 .. Len(g[i]) : g[i][a] = g[i][b] => a = b
                      /\ \A a \in 1 .. Len(g[i]) : \E j \in 1 .. i :
                            g[i][a] = normalize_public_key(keys[j])
                      /\ \A j \in 1 .. i : \E a \in 1 .. Len(g[i]) :
                            g[i][a] = normalize_public_key(keys[j])
           P == {i \in 0 .. n : Done(i)}
<1>2. n \in Nat /\ DOMAIN keys = 1 .. n
  OBVIOUS
<1>3. 0 \in P
  <2>1. Done(0)
    BY <1>1
  <2> QED
    BY <1>2, <2>1
<1>4. ASSUME NEW i \in 0 .. n, i + 1 <= n, i \in P PROVE i + 1 \in P
  <2> DEFINE k == i + 1
             raw == normalize_public_key(keys[k])
             out == g[i]
             new == g[k]
  <2>1. k \in 1 .. n /\ k \in 0 .. n /\ k - 1 = i
    BY <1>2, <1>4
  <2>2. new = DedupStep(out, keys[k])
    BY <1>1, <2>1
  <2>3. raw \in NK
    <3>1. keys[k] \in R
      BY <2>1
    <3> QED
      BY <3>1
  <2>4. Done(i)
    BY <1>4
  <2> HIDE DEF new, raw, NK
  <2>5. CASE Contains(out, raw)
    <3>1. new = out
      BY <2>2, <2>5 DEF DedupStep, raw
    <3>2. \E a \in 1 .. Len(out) : out[a] = raw
      BY <2>5 DEF Contains
    <3>3. \A j \in 1 .. k : j \in 1 .. i \/ j = k
      BY <1>2
    <3>4. \A j \in 1 .. i : j \in 1 .. k
      BY <1>2
    <3>5. Done(k)
      BY <2>4, <3>1, <3>2, <3>3, <3>4 DEF new, raw
    <3> QED
      BY <2>1, <3>5
  <2>6. CASE ~Contains(out, raw)
    <3>1. new = Append(out, raw)
      BY <2>2, <2>6 DEF DedupStep, raw
    <3>2. /\ new \in Seq(NK) /\ Len(new) = Len(out) + 1 /\ Len(out) \in Nat
          /\ \A a \in 1 .. Len(out) : new[a] = out[a]
          /\ new[Len(out) + 1] = raw
      BY <2>3, <2>4, <3>1
    <3>3. \A a \in 1 .. Len(out) : out[a] # raw
      BY <2>6 DEF Contains
    <3>4. \A a \in 1 .. Len(new) : a \in 1 .. Len(out) \/ a = Len(out) + 1
      BY <3>2
    <3>5. \A a \in 1 .. Len(out) + 1 : a \in 1 .. Len(new)
      BY <3>2
    <3>6. \A j \in 1 .. k : j \in 1 .. i \/ j = k
      BY <1>2
    <3>7. \A j \in 1 .. i : j \in 1 .. k
      BY <1>2
    <3> HIDE DEF out, k
    <3>8. \A a, b \in 1 .. Len(new) : new[a] = new[b] => a = b
      BY <2>4, <3>2, <3>3, <3>4 DEF out
    <3>9. \A a \in 1 .. Len(new) : \E j \in 1 .. k : new[a] = normalize_public_key(keys[j])
      <4> SUFFICES ASSUME NEW a \in 1 .. Len(new)
                   PROVE  \E j \in 1 .. k : new[a] = normalize_public_key(keys[j])
        OBVIOUS
      <4>1. CASE a = Len(out) + 1
        <5>1. k \in 1 .. k
          BY <2>1
        <5> QED
          BY <3>2, <4>1, <5>1 DEF raw
      <4>2. CASE a \in 1 .. Len(out)
        <5>1. PICK j \in 1 .. i : out[a] = normalize_public_key(keys[j])
          BY <2>4, <4>2 DEF out
        <5>2. j \in 1 .. k /\ new[a] = out[a]
          BY <3>2, <3>7, <4>2
        <5> QED
          BY <5>1, <5>2
      <4> QED
        BY <3>4, <4>1, <4>2
    <3>10. \A j \in 1 .. k : \E a \in 1 .. Len(new) : new[a] = normalize_public_key(keys[j])
      <4> SUFFICES ASSUME NEW j \in 1 .. k
                   PROVE  \E a \in 1 .. Len(new) : new[a] = normalize_public_key(keys[j])
        OBVIOUS
      <4>1. CASE j = k
        <5>1. Len(out) + 1 \in 1 .. Len(new) /\ new[Len(out) + 1] = raw
          BY <3>2
        <5> QED
          BY <4>1, <5>1 DEF raw
      <4>2. CASE j \in 1 .. i
        <5>1. PICK a \in 1 .. Len(out) : out[a] = normalize_public_key(keys[j])
          BY <2>4, <4>2 DEF out
        <5>2. a \in 1 .. Len(new) /\ new[a] = out[a]
          BY <3>2
        <5> QED
          BY <5>1, <5>2
      <4> QED
        BY <3>6, <4>1, <4>2
    <3>11. Done(k)
      BY <3>2, <3>8, <3>9, <3>10 DEF new
    <3> QED
      BY <2>1, <3>11 DEF k
  <2> QED
    BY <2>5, <2>6
<1>5. P \in SUBSET (0 .. n)
  OBVIOUS
<1> HIDE DEF P
<1>6. P = 0 .. n
  BY <1>2, <1>3, <1>4, <1>5, Induction
<1>7. n \in P
  BY <1>2, <1>6
<1>8. Done(n)
  BY <1>7 DEF P
<1>9. /\ g[n] \in Seq(NK) /\ DOMAIN g[n] = 1 .. Len(g[n])
  BY <1>8
<1>10. IsInjective(g[n])
  BY <1>8, <1>9 DEF IsInjective
<1>11. Range(g[n]) = {normalize_public_key(k) : k \in Range(keys)}
  <2>1. ASSUME NEW x \in Range(g[n]) PROVE \E k \in Range(keys) : x = normalize_public_key(k)
    <3>1. PICK a \in 1 .. Len(g[n]) : x = g[n][a]
      BY <1>9, <2>1 DEF Range
    <3>2. PICK j \in 1 .. n : g[n][a] = normalize_public_key(keys[j])
      BY <1>8
    <3>3. keys[j] \in Range(keys)
      BY <1>2 DEF Range
    <3> QED
      BY <3>1, <3>2, <3>3
  <2>2. ASSUME NEW k \in Range(keys) PROVE normalize_public_key(k) \in Range(g[n])
    <3>1. PICK j \in 1 .. n : k = keys[j]
      BY <1>2, <2>2 DEF Range
    <3>2. PICK a \in 1 .. Len(g[n]) : g[n][a] = normalize_public_key(keys[j])
      BY <1>8
    <3>3. g[n][a] \in Range(g[n])
      BY <1>9 DEF Range
    <3> QED
      BY <3>1, <3>2, <3>3
  <2> QED
    BY <2>1, <2>2
<1> QED
  BY <1>1, <1>9, <1>10, <1>11

\* The places of t are places of s, in the same order.
Embeds(h, t, s) ==
    /\ h \in [1 .. Len(t) -> 1 .. Len(s)]
    /\ \A a, b \in 1 .. Len(t) : a < b => h[a] < h[b]
    /\ \A a \in 1 .. Len(t) : t[a] = s[h[a]]

\* What is left without a line are the others, in order.
LEMMA Without ==
    ASSUME NEW R, NEW lines \in Seq(R), NEW line
    PROVE  /\ without(lines, line) \in Seq(R)
           /\ Len(without(lines, line)) <= Len(lines)
           /\ \E h : /\ Embeds(h, without(lines, line), lines)
                     /\ \A i \in 1 .. Len(lines) : lines[i] # line =>
                          \E a \in 1 .. Len(without(lines, line)) : h[a] = i
<1>1. PICK g : /\ g[0] = <<>>
               /\ \A i \in 1 .. Len(lines) : g[i] = WithoutStep(line, g[i - 1], lines[i])
               /\ without(lines, line) = g[Len(lines)]
  BY WithoutLoop
<1> DEFINE n == Len(lines)
           Kept(i, h) == /\ h \in [1 .. Len(g[i]) -> 1 .. i]
                         /\ \A a, b \in 1 .. Len(g[i]) : a < b => h[a] < h[b]
                         /\ \A a \in 1 .. Len(g[i]) : g[i][a] = lines[h[a]]
                         /\ \A j \in 1 .. i : lines[j] # line =>
                               \E a \in 1 .. Len(g[i]) : h[a] = j
           Done(i) == /\ g[i] \in Seq(R) /\ Len(g[i]) <= i
                      /\ \E h : Kept(i, h)
           P == {i \in 0 .. n : Done(i)}
<1>2. n \in Nat
  OBVIOUS
<1>3. 0 \in P
  <2>1. g[0] \in Seq(R) /\ Len(g[0]) = 0
    BY <1>1
  <2>2. Kept(0, [a \in {} |-> a])
    BY <2>1
  <2>3. Len(g[0]) <= 0
    BY <2>1
  <2>4. Done(0)
    BY <2>1, <2>2, <2>3
  <2> QED
    BY <1>2, <2>4
<1>4. ASSUME NEW i \in 0 .. n, i + 1 <= n, i \in P PROVE i + 1 \in P
  <2> DEFINE k == i + 1
             out == g[i]
             new == g[k]
  <2>1. k \in 1 .. n /\ k \in 0 .. n /\ k - 1 = i
    BY <1>2, <1>4
  <2>2. new = WithoutStep(line, out, lines[k])
    BY <1>1, <2>1
  <2>3. lines[k] \in R
    BY <2>1
  <2>4. PICK h : Kept(i, h)
    BY <1>4
  <2>5. out \in Seq(R) /\ Len(out) <= i /\ Len(out) \in Nat
    BY <1>4
  <2>6. /\ \A j \in 1 .. k : j \in 1 .. i \/ j = k
        /\ \A j \in 1 .. i : j \in 1 .. k /\ j < k
        /\ k \in 1 .. k
    BY <1>2
  <2> HIDE DEF new
  <2>7. CASE lines[k] = line
    <3>1. new = out
      BY <2>2, <2>7 DEF WithoutStep
    <3> HIDE DEF k
    <3>2. Kept(k, h)
      BY <2>4, <2>6, <2>7, <3>1 DEF new
    <3>3. Len(new) <= k
      BY <2>1, <2>5, <3>1
    <3>4. Done(k)
      BY <2>5, <3>1, <3>2, <3>3 DEF new
    <3> QED
      BY <2>1, <3>4 DEF k
  <2>8. CASE lines[k] # line
    <3> DEFINE m == Len(out) + 1
               e == [a \in 1 .. m |-> IF a = m THEN k ELSE h[a]]
    <3>1. new = Append(out, lines[k])
      BY <2>2, <2>8 DEF WithoutStep
    <3>2. /\ new \in Seq(R) /\ Len(new) = m
          /\ \A a \in 1 .. Len(out) : new[a] = out[a]
          /\ new[m] = lines[k]
      BY <2>3, <2>5, <3>1
    <3>3. /\ \A a \in 1 .. m : a \in 1 .. Len(out) \/ a = m
          /\ \A a \in 1 .. Len(out) : a \in 1 .. m /\ a # m /\ a < m
          /\ m \in 1 .. m /\ m <= k
      BY <2>1, <2>5
    <3>4. /\ \A a \in 1 .. Len(out) : e[a] = h[a] /\ h[a] \in 1 .. i
          /\ e[m] = k
      BY <2>4, <3>3
    <3>5. e \in [1 .. m -> 1 .. k]
      BY <2>4, <2>6, <3>3
    <3> HIDE DEF e, m, k, out
    <3>6. ASSUME NEW a \in 1 .. m, NEW b \in 1 .. m, a < b PROVE e[a] < e[b]
      <4>1. a \in 1 .. Len(out)
        BY <2>5, <3>3, <3>6 DEF m
      <4>2. CASE b = m
        BY <2>6, <3>4, <4>1, <4>2
      <4>3. CASE b \in 1 .. Len(out)
        BY <2>4, <3>4, <3>6, <4>1, <4>3 DEF out
      <4> QED
        BY <3>3, <4>2, <4>3
    <3>7. ASSUME NEW a \in 1 .. m PROVE new[a] = lines[e[a]]
      BY <2>4, <3>2, <3>3, <3>4 DEF out
    <3>8. ASSUME NEW j \in 1 .. k, lines[j] # line PROVE \E a \in 1 .. m : e[a] = j
      <4>1. CASE j = k
        BY <3>3, <3>4, <4>1
      <4>2. CASE j \in 1 .. i
        <5>1. PICK a \in 1 .. Len(out) : h[a] = j
          BY <2>4, <3>8, <4>2 DEF out
        <5> QED
          BY <3>3, <3>4, <5>1
      <4> QED
        BY <2>6, <4>1, <4>2
    <3>9. Kept(k, e)
      BY <3>2, <3>5, <3>6, <3>7, <3>8 DEF new
    <3>10. Done(k)
      BY <3>2, <3>3, <3>9, ZenonT(40) DEF new
    <3> QED
      BY <2>1, <3>10 DEF k
  <2> QED
    BY <2>7, <2>8
<1>5. P \in SUBSET (0 .. n)
  OBVIOUS
<1> HIDE DEF P
<1>6. P = 0 .. n
  BY <1>2, <1>3, <1>4, <1>5, Induction
<1>7. n \in P
  BY <1>2, <1>6
<1>8. Done(n)
  BY <1>7 DEF P
<1>9. PICK h : Kept(n, h)
  BY <1>8
<1>10. Embeds(h, g[n], lines)
  BY <1>9 DEF Embeds
<1> QED
  BY <1>1, <1>8, <1>9, <1>10

-----------------------------------------------------------------------------
(* The text after an update                                                *)

\* The first of its kind is at i.
FirstAt(lines, marker, i) ==
    /\ i \in 1 .. Len(lines) /\ lines[i] = marker
    /\ \A j \in 1 .. Len(lines) : lines[j] = marker => i <= j

\* The text t has a block of the keys after p lines and q lines after it.
HasBlock(t, p, keys, q) ==
    /\ p \in Nat /\ q \in Nat /\ Len(t) = p + Len(keys) + 2 + q
    /\ t[p + 1] = BEGIN /\ t[p + Len(keys) + 2] = END
    /\ \A j \in 1 .. Len(keys) : t[p + 1 + j] = KeyLine(keys[j])

\* The block was added to the lines,
Added(t, lines, p, q) ==
    /\ Positions(lines, BEGIN) = {} /\ q = 0 /\ Len(lines) <= p
    /\ \A i \in 1 .. Len(lines) : t[i] = lines[i]
    /\ \A i \in Len(lines) + 1 .. p : t[i] = Blank

\* or came in the place of what was between the markers; an empty line at
\* the end is gone.
Exchanged(t, lines, p, n, q) ==
    \E e \in 1 .. Len(lines) :
        /\ FirstAt(lines, BEGIN, p + 1) /\ FirstAt(lines, END, e)
        /\ e + q <= Len(lines)
        /\ \A i \in 1 .. p : t[i] = lines[i]
        /\ \A j \in 1 .. q : t[p + n + 2 + j] = lines[e + j]
        /\ \A j \in e + q + 1 .. Len(lines) : lines[j] = Blank

LEMMA FirstPosition ==
    ASSUME NEW R, NEW lines \in Seq(R), NEW marker, Positions(lines, marker) # {}
    PROVE  FirstAt(lines, marker, position(lines, marker))
<1> DEFINE S == Positions(lines, marker)
<1>1. S \in SUBSET Nat /\ S # {}
  BY DEF Positions
<1>2. \E i \in S : \A j \in S : i <= j
  <2> HIDE DEF S
  <2> QED
    BY <1>1, Least
<1>3. position(lines, marker) \in S /\ \A j \in S : position(lines, marker) <= j
  BY <1>2 DEF position
<1> QED
  BY <1>3 DEF FirstAt, Positions

LEMMA Concat ==
    ASSUME NEW X, NEW a \in Seq(X), NEW b \in Seq(X)
    PROVE  /\ a \o b \in Seq(X) /\ Len(a \o b) = Len(a) + Len(b)
           /\ \A i \in 1 .. Len(a) : (a \o b)[i] = a[i]
           /\ \A i \in 1 .. Len(b) : (a \o b)[Len(a) + i] = b[i]
<1>1. /\ a \o b \in Seq(X) /\ Len(a \o b) = Len(a) + Len(b)
      /\ \A i \in 1 .. Len(a) + Len(b) :
            (a \o b)[i] = IF i <= Len(a) THEN a[i] ELSE b[i - Len(a)]
  BY ConcatProperties, Zenon
<1>2. Len(a) \in Nat /\ Len(b) \in Nat
  OBVIOUS
<1> QED
  BY <1>1, <1>2

\* The block of any keys.
LEMMA Block ==
    ASSUME NEW K, NEW keys \in Seq(K)
    PROVE  /\ managed_block(keys) \in Seq({BEGIN, END} \cup {KeyLine(k) : k \in K})
           /\ Len(managed_block(keys)) = Len(keys) + 2
           /\ managed_block(keys)[1] = BEGIN
           /\ managed_block(keys)[Len(keys) + 2] = END
           /\ \A j \in 1 .. Len(keys) : managed_block(keys)[1 + j] = KeyLine(keys[j])
<1> DEFINE X == {BEGIN, END} \cup {KeyLine(k) : k \in K}
           m == [i \in 1 .. Len(keys) |-> KeyLine(keys[i])]
           n == Len(keys)
<1>1. n \in Nat /\ m \in Seq(X) /\ Len(m) = n /\ \A i \in 1 .. n : m[i] = KeyLine(keys[i])
  <2>1. n \in Nat /\ \A i \in 1 .. n : KeyLine(keys[i]) \in X
    OBVIOUS
  <2>2. m \in [1 .. n -> X]
    BY <2>1
  <2> HIDE DEF X
  <2> QED
    BY <2>1, <2>2
<1>2. <<BEGIN>> \in Seq(X) /\ Len(<<BEGIN>>) = 1 /\ <<BEGIN>>[1] = BEGIN
  OBVIOUS
<1>3. <<END>> \in Seq(X) /\ Len(<<END>>) = 1 /\ <<END>>[1] = END
  OBVIOUS
<1> HIDE DEF X, m, n
<1> DEFINE A == <<BEGIN>>
           B == <<END>>
           c == A \o m
<1> HIDE DEF A, B
<1>4. /\ c \in Seq(X) /\ Len(c) = Len(A) + Len(m)
      /\ \A i \in 1 .. Len(A) : c[i] = A[i]
      /\ \A i \in 1 .. Len(m) : c[Len(A) + i] = m[i]
  <2>1. A \in Seq(X) /\ m \in Seq(X)
    BY <1>1, <1>2 DEF A
  <2> QED
    BY <2>1, Concat
<1> HIDE DEF c
<1>5. /\ c \in Seq(X) /\ Len(c) = n + 1 /\ c[1] = BEGIN
      /\ \A i \in 1 .. n : c[1 + i] = KeyLine(keys[i])
  BY <1>1, <1>2, <1>4 DEF A
<1>6. /\ c \o B \in Seq(X) /\ Len(c \o B) = Len(c) + Len(B)
      /\ \A i \in 1 .. Len(c) : (c \o B)[i] = c[i]
      /\ \A i \in 1 .. Len(B) : (c \o B)[Len(c) + i] = B[i]
  <2>1. c \in Seq(X) /\ B \in Seq(X)
    BY <1>3, <1>4 DEF B
  <2> QED
    BY <2>1, Concat
<1> DEFINE d == c \o B
<1> HIDE DEF d
<1>7. managed_block(keys) = d
  BY DEF managed_block, d, c, A, B, m
<1>8. /\ d \in Seq(X) /\ Len(d) = n + 2 /\ d[1] = BEGIN /\ d[n + 2] = END
      /\ \A j \in 1 .. n : d[1 + j] = KeyLine(keys[j])
  <2>1. Len(B) = 1 /\ B[1] = END
    BY <1>3 DEF B
  <2>2. Len(d) = n + 2 /\ d \in Seq(X)
    BY <1>1, <1>5, <1>6, <2>1 DEF d
  <2>3. \A i \in 1 .. n + 1 : d[i] = c[i]
    BY <1>1, <1>5, <1>6 DEF d
  <2>4. d[n + 2] = END
    <3>1. (c \o B)[Len(c) + 1] = B[1]
      BY <1>6, <2>1
    <3>2. Len(c) + 1 = n + 2
      BY <1>1, <1>5
    <3> QED
      BY <2>1, <3>1, <3>2 DEF d
  <2>5. d[1] = BEGIN /\ \A j \in 1 .. n : d[1 + j] = c[1 + j]
    BY <1>1, <1>5, <2>3
  <2> QED
    BY <1>5, <2>2, <2>4, <2>5
<1> QED
  BY <1>7, <1>8 DEF n, X

\* A block between lines.
Between(t, pre, keys, suf) ==
    /\ \E X : t \in Seq(X)
    /\ HasBlock(t, Len(pre), keys, Len(suf))
    /\ \A i \in 1 .. Len(pre) : t[i] = pre[i]
    /\ \A j \in 1 .. Len(suf) : t[Len(pre) + Len(keys) + 2 + j] = suf[j]

LEMMA Pieces ==
    ASSUME NEW R, NEW pre \in Seq(R), NEW suf \in Seq(R), NEW K, NEW keys \in Seq(K)
    PROVE  Between(pre \o managed_block(keys) \o suf, pre, keys, suf)
<1> DEFINE X == R \cup {BEGIN, END} \cup {KeyLine(k) : k \in K}
           m == managed_block(keys)
           c == pre \o m
           t == c \o suf
           p == Len(pre)
           n == Len(keys)
           q == Len(suf)
<1>1. pre \in Seq(X) /\ suf \in Seq(X) /\ p \in Nat /\ q \in Nat /\ n \in Nat
  OBVIOUS
<1>2. /\ m \in Seq(X) /\ Len(m) = n + 2 /\ m[1] = BEGIN /\ m[n + 2] = END
      /\ \A j \in 1 .. n : m[1 + j] = KeyLine(keys[j])
  <2> DEFINE Y == {BEGIN, END} \cup {KeyLine(k) : k \in K}
  <2>1. /\ m \in Seq(Y) /\ Len(m) = n + 2 /\ m[1] = BEGIN /\ m[n + 2] = END
        /\ \A j \in 1 .. n : m[1 + j] = KeyLine(keys[j])
    <3> HIDE DEF m
    <3> QED
      BY Block DEF m
  <2>2. \A y \in Y : y \in X
    OBVIOUS
  <2> HIDE DEF m, X, Y
  <2>3. m \in Seq(X)
    BY <2>1, <2>2
  <2> QED
    BY <2>1, <2>3
<1> HIDE DEF X, m
<1>3. /\ c \in Seq(X) /\ Len(c) = p + Len(m)
      /\ \A i \in 1 .. p : c[i] = pre[i]
      /\ \A i \in 1 .. Len(m) : c[p + i] = m[i]
  <2>1. m \in Seq(X)
    BY <1>2
  <2> QED
    BY <1>1, <2>1, Concat
<1> HIDE DEF c
<1>4. /\ t \in Seq(X) /\ Len(t) = Len(c) + q
      /\ \A i \in 1 .. Len(c) : t[i] = c[i]
      /\ \A i \in 1 .. q : t[Len(c) + i] = suf[i]
  <2>1. c \in Seq(X)
    BY <1>3
  <2> QED
    BY <1>1, <2>1, Concat
<1> HIDE DEF t, p, n, q
<1>5. Len(c) = p + n + 2
  BY <1>1, <1>2, <1>3
<1>6. Len(t) = p + n + 2 + q
  BY <1>4, <1>5
<1>7. \A i \in 1 .. n + 2 : t[p + i] = m[i]
  BY <1>1, <1>2, <1>3, <1>4, <1>5
<1>8. t[p + 1] = BEGIN /\ t[p + (n + 2)] = END
  BY <1>1, <1>2, <1>7
<1>9. \A j \in 1 .. n : t[p + (1 + j)] = KeyLine(keys[j])
  BY <1>1, <1>2, <1>7
<1>10. p + (n + 2) = p + n + 2 /\ \A j \in 1 .. n : p + (1 + j) = p + 1 + j
  BY <1>1
<1>11. HasBlock(t, p, keys, q)
  BY <1>1, <1>6, <1>8, <1>9, <1>10 DEF HasBlock, n
<1>12. \A i \in 1 .. p : t[i] = pre[i]
  BY <1>1, <1>3, <1>4, <1>5
<1>13. \A j \in 1 .. q : t[p + n + 2 + j] = suf[j]
  BY <1>4, <1>5
<1>14. t = pre \o managed_block(keys) \o suf
  BY DEF t, c, m
<1> QED
  BY <1>4, <1>11, <1>12, <1>13, <1>14 DEF Between, p, n, q

\* join takes an empty last line away, which is none of the block's.
JoinOf(j, X, t, p, keys, q) ==
    /\ j.lines \in Seq(X) /\ j.nl \in BOOLEAN /\ j = [lines |-> j.lines, nl |-> j.nl]
    /\ Len(j.lines) <= Len(t)
    /\ \A i \in 1 .. Len(j.lines) : j.lines[i] = t[i]
    /\ \E r \in {q, q - 1} :
          /\ r \in Nat /\ HasBlock(j.lines, p, keys, r)
          /\ r = q \/ (r = q - 1 /\ t[p + Len(keys) + 2 + q] = Blank)

LEMMA Joined ==
    ASSUME NEW X, NEW t \in Seq(X), NEW p, NEW K, NEW keys \in Seq(K), NEW q,
           HasBlock(t, p, keys, q)
    PROVE  JoinOf(join(t), X, t, p, keys, q)
<1> DEFINE n == Len(keys)
           s == join(t).lines
<1>1. p \in Nat /\ q \in Nat /\ n \in Nat /\ Len(t) = p + n + 2 + q
  BY DEF HasBlock
<1>2. t # <<>>
  <2>1. Len(t) # 0
    BY <1>1
  <2> QED
    BY <2>1
<1>3. CASE Last(t) # Blank
  <2>1. join(t) = [lines |-> t, nl |-> FALSE]
    BY <1>3 DEF join
  <2>2. Len(t) <= Len(t)
    BY <1>1
  <2> QED
    BY <1>1, <2>1, <2>2 DEF JoinOf
<1>4. CASE Last(t) = Blank
  <2>1. join(t) = [lines |-> Front(t), nl |-> Len(t) > 1]
    BY <1>2, <1>4 DEF join
  <2>2. t[Len(t)] = Blank
    BY <1>4 DEF Last
  <2>3. q # 0
    <3> SUFFICES ASSUME q = 0 PROVE FALSE
      OBVIOUS
    <3>1. t[p + n + 2] = END
      BY DEF HasBlock
    <3>2. Len(t) = p + n + 2
      BY <1>1
    <3> QED
      BY <2>2, <3>1, <3>2 DEF END, Blank
  <2>4. 1 <= Len(t)
    BY <1>1
  <2>5. /\ Front(t) \in Seq(X) /\ Len(Front(t)) = Len(t) - 1
        /\ \A i \in 1 .. Len(t) - 1 : Front(t)[i] = t[i]
    <3> DEFINE l == Len(t) - 1
    <3>1. l \in Nat /\ l <= Len(t)
      BY <1>1, <2>4
    <3>2. Front(t) = SubSeq(t, 1, l)
      BY DEF Front
    <3> HIDE DEF l
    <3>3. /\ SubSeq(t, 1, l) \in Seq(X) /\ Len(SubSeq(t, 1, l)) = l
          /\ \A i \in 1 .. l : SubSeq(t, 1, l)[i] = t[i]
      BY <3>1
    <3> QED
      BY <3>2, <3>3 DEF l
  <2>6. s = Front(t) /\ q - 1 \in Nat
    BY <1>1, <2>1, <2>3
  <2> HIDE DEF s
  <2>7. /\ Len(s) = p + n + 2 + (q - 1)
        /\ \A i \in 1 .. p + n + 2 : s[i] = t[i]
    BY <1>1, <2>5, <2>6
  <2>8. HasBlock(s, p, keys, q - 1)
    <3>1. p + 1 \in 1 .. p + n + 2 /\ p + n + 2 \in 1 .. p + n + 2
      BY <1>1
    <3>2. \A j \in 1 .. n : p + 1 + j \in 1 .. p + n + 2
      BY <1>1
    <3> QED
      BY <1>1, <2>6, <2>7, <3>1, <3>2 DEF HasBlock
  <2>9. t[p + n + 2 + q] = Blank
    BY <1>1, <2>2
  <2>10. Len(s) <= Len(t) /\ \A i \in 1 .. Len(s) : s[i] = t[i]
    BY <1>1, <2>5, <2>6
  <2>11. join(t).nl \in BOOLEAN /\ join(t) = [lines |-> join(t).lines, nl |-> join(t).nl]
    BY <2>1
  <2> QED
    BY <2>5, <2>6, <2>8, <2>9, <2>10, <2>11 DEF JoinOf, s
<1> QED
  BY <1>3, <1>4

LEMMA OwnRange ==
    ASSUME NEW X, NEW s \in Seq(X)
    PROVE  s \in Seq(Range(s))
<1>1. Len(s) \in Nat /\ DOMAIN s = 1 .. Len(s) /\ s = [i \in 1 .. Len(s) |-> s[i]]
  OBVIOUS
<1>2. \A i \in 1 .. Len(s) : s[i] \in Range(s)
  BY <1>1 DEF Range
<1>3. s \in [1 .. Len(s) -> Range(s)]
  BY <1>1, <1>2
<1> QED
  BY <1>1, <1>3

\* An update that the markers allow.
LEMMA NewText ==
    ASSUME NEW R, NEW lines \in Seq(R), NEW K, NEW keys \in Seq(K),
           ~MissingManagedEnd(lines),
           NEW t, t = upsert_managed_block(lines, keys),
           NEW N, N = normalize_and_dedup(keys),
           NEW T, T = join(t).lines
    PROVE  /\ T \in Seq(Range(T)) /\ Len(T) <= Len(t)
           /\ join(t).nl \in BOOLEAN /\ join(t) = [lines |-> T, nl |-> join(t).nl]
           /\ \E p, q \in Nat : /\ HasBlock(T, p, N, q)
                                /\ Added(T, lines, p, q) \/ Exchanged(T, lines, p, Len(N), q)
<1> DEFINE L == R \cup {Blank}
           n == Len(N)
           NK == {normalize_public_key(r) : r \in K}
<1>1. N \in Seq(NK) /\ n \in Nat
  <2>1. N \in Seq(NK)
    BY Dedup
  <2> HIDE DEF NK
  <2> QED
    BY <2>1
<1>2. lines \in Seq(L) /\ Len(lines) \in Nat
  OBVIOUS
<1> HIDE DEF NK, n
<1>3. ASSUME NEW pre \in Seq(L), NEW suf \in Seq(L), t = pre \o managed_block(N) \o suf
      PROVE  /\ T \in Seq(Range(T)) /\ Len(T) <= Len(t)
             /\ join(t).nl \in BOOLEAN /\ join(t) = [lines |-> T, nl |-> join(t).nl]
             /\ \E r \in Nat :
                   /\ HasBlock(T, Len(pre), N, r)
                   /\ r = Len(suf) \/ (r = Len(suf) - 1 /\ suf[Len(suf)] = Blank)
                   /\ \A i \in 1 .. Len(pre) : T[i] = pre[i]
                   /\ \A j \in 1 .. r : T[Len(pre) + n + 2 + j] = suf[j]
  <2> DEFINE p == Len(pre)
             q == Len(suf)
  <2>1. PICK X : /\ t \in Seq(X)
                 /\ HasBlock(t, p, N, q)
                 /\ \A i \in 1 .. p : t[i] = pre[i]
                 /\ \A j \in 1 .. q : t[p + n + 2 + j] = suf[j]
    <3>1. Between(t, pre, N, suf)
      <4> HIDE DEF L
      <4> QED
        BY <1>1, <1>3, Pieces
    <3> QED
      BY <3>1 DEF Between, n
  <2>2. p \in Nat /\ q \in Nat
    OBVIOUS
  <2> HIDE DEF p, q
  <2>3. /\ T \in Seq(X) /\ join(t).nl \in BOOLEAN
        /\ join(t) = [lines |-> T, nl |-> join(t).nl]
        /\ Len(T) <= Len(t)
        /\ \A i \in 1 .. Len(T) : T[i] = t[i]
        /\ \E r \in {q, q - 1} :
              /\ r \in Nat /\ HasBlock(T, p, N, r)
              /\ r = q \/ (r = q - 1 /\ t[p + n + 2 + q] = Blank)
    <3>1. JoinOf(join(t), X, t, p, N, q)
      BY <1>1, <2>1, Joined
    <3> QED
      BY <3>1 DEF JoinOf, n
  <2>4. PICK r \in Nat : /\ HasBlock(T, p, N, r)
                         /\ r = q \/ (r = q - 1 /\ t[p + n + 2 + q] = Blank)
    BY <2>3
  <2>5. Len(T) = p + n + 2 + r
    BY <2>4 DEF HasBlock, n
  <2>6. /\ r <= q
        /\ \A i \in 1 .. p : i \in 1 .. Len(T)
        /\ \A j \in 1 .. r : j \in 1 .. q /\ p + n + 2 + j \in 1 .. Len(T)
    BY <1>1, <2>2, <2>4, <2>5
  <2>7. /\ \A i \in 1 .. p : T[i] = pre[i]
        /\ \A j \in 1 .. r : T[p + n + 2 + j] = suf[j]
    BY <2>1, <2>3, <2>6
  <2>8. r = q \/ (r = q - 1 /\ suf[q] = Blank)
    BY <2>1, <2>2, <2>4
  <2>9. T \in Seq(Range(T))
    BY <2>3, OwnRange
  <2> QED
    BY <2>3, <2>4, <2>7, <2>8, <2>9 DEF p, q
<1>4. CASE Positions(lines, BEGIN) = {}
  <2> DEFINE gap == IF lines = <<>> \/ Last(lines) = Blank THEN <<>> ELSE <<Blank>>
             pre == lines \o gap
             m == managed_block(N)
  <2>1. /\ gap \in Seq(L) /\ Len(gap) \in Nat
        /\ \A i \in 1 .. Len(gap) : gap[i] = Blank
    <3>1. CASE lines = <<>> \/ Last(lines) = Blank
      BY <3>1
    <3>2. CASE ~(lines = <<>> \/ Last(lines) = Blank)
      <4>1. gap = <<Blank>> /\ Blank \in L
        BY <3>2
      <4> HIDE DEF gap, L
      <4> QED
        BY <4>1
    <3> QED
      BY <3>1, <3>2
  <2> HIDE DEF gap
  <2>2. /\ pre \in Seq(L) /\ Len(pre) = Len(lines) + Len(gap)
        /\ \A i \in 1 .. Len(lines) : pre[i] = lines[i]
        /\ \A i \in 1 .. Len(gap) : pre[Len(lines) + i] = gap[i]
    <3> HIDE DEF L
    <3> QED
      BY <1>2, <2>1, Concat
  <2>3. t = pre \o m
    BY <1>4 DEF upsert_managed_block, appended, gap
  <2> HIDE DEF pre
  <2>4. pre \o m \o <<>> = pre \o m
    <3>1. \E X : pre \o m \in Seq(X)
      <4>1. m \in Seq({BEGIN, END} \cup {KeyLine(k) : k \in NK})
        BY <1>1, Block
      <4> DEFINE Y == {BEGIN, END} \cup {KeyLine(k) : k \in NK}
                 Z == L \cup Y
      <4> HIDE DEF L, Y, m
      <4>2. pre \in Seq(Z) /\ m \in Seq(Z)
        BY <2>2, <4>1 DEF Y
      <4> HIDE DEF Z
      <4> QED
        BY <4>2, Concat
    <3> QED
      BY <3>1, ConcatEmptySeq
  <2>5. <<>> \in Seq(L) /\ Len(<<>>) = 0
    OBVIOUS
  <2> HIDE DEF m, L
  <2>6. /\ T \in Seq(Range(T)) /\ Len(T) <= Len(t)
        /\ join(t).nl \in BOOLEAN /\ join(t) = [lines |-> T, nl |-> join(t).nl]
    BY <1>3, <2>2, <2>3, <2>4, <2>5 DEF m
  <2>7. PICK r \in Nat :
                   /\ HasBlock(T, Len(pre), N, r)
                   /\ r = 0 \/ r = 0 - 1
                   /\ \A i \in 1 .. Len(pre) : T[i] = pre[i]
    BY <1>3, <2>2, <2>3, <2>4, <2>5 DEF m
  <2>8. r = 0 /\ Len(pre) \in Nat
    BY <2>2, <2>7
  <2>9. Added(T, lines, Len(pre), r)
    <3>1. Len(lines) <= Len(pre)
      BY <1>2, <2>1, <2>2
    <3>2. \A i \in 1 .. Len(lines) : T[i] = lines[i]
      BY <1>2, <2>2, <2>7, <3>1
    <3>3. ASSUME NEW i \in Len(lines) + 1 .. Len(pre) PROVE T[i] = Blank
      <4>1. i - Len(lines) \in 1 .. Len(gap) /\ Len(lines) + (i - Len(lines)) = i /\ i \in 1 .. Len(pre)
        BY <1>2, <2>1, <2>2
      <4>2. pre[i] = gap[i - Len(lines)]
        BY <2>2, <4>1
      <4> QED
        BY <2>1, <2>7, <4>1, <4>2
    <3> QED
      BY <1>4, <2>8, <3>1, <3>2, <3>3 DEF Added
  <2> QED
    BY <2>6, <2>7, <2>8, <2>9
<1>5. CASE Positions(lines, BEGIN) # {}
  <2> DEFINE b == position(lines, BEGIN)
             e == position(lines, END)
             pre == SubSeq(lines, 1, b - 1)
             suf == SubSeq(lines, e + 1, Len(lines))
  <2>1. FirstAt(lines, BEGIN, b) /\ FirstAt(lines, END, e)
    BY <1>5, FirstPosition DEF MissingManagedEnd
  <2>2. t = pre \o managed_block(N) \o suf
    BY <1>5 DEF upsert_managed_block, replaced
  <2>3. b \in 1 .. Len(lines) /\ e \in 1 .. Len(lines)
    BY <2>1 DEF FirstAt
  <2> HIDE DEF b, e
  <2>4. /\ pre \in Seq(L) /\ Len(pre) = b - 1 /\ \A i \in 1 .. b - 1 : pre[i] = lines[i]
    <3> DEFINE c == b - 1
    <3>1. c \in Nat /\ c <= Len(lines)
      BY <1>2, <2>3
    <3> HIDE DEF c, L
    <3>2. /\ SubSeq(lines, 1, c) \in Seq(L) /\ Len(SubSeq(lines, 1, c)) = c
          /\ \A i \in 1 .. c : SubSeq(lines, 1, c)[i] = lines[i]
      BY <1>2, <3>1
    <3> QED
      BY <3>2 DEF c
  <2>5. /\ suf \in Seq(L) /\ Len(suf) = Len(lines) - e
        /\ \A j \in 1 .. Len(lines) - e : suf[j] = lines[e + j]
    <3> HIDE DEF L
    <3>1. /\ suf \in Seq(L) /\ Len(suf) = Len(lines) - e
      BY <1>2, <2>3
    <3>2. \A j \in 1 .. Len(lines) - e : suf[j] = lines[(e + 1) + j - 1]
      BY <1>2, <2>3
    <3>3. \A j \in 1 .. Len(lines) - e : (e + 1) + j - 1 = e + j
      BY <2>3
    <3> QED
      BY <3>1, <3>2, <3>3
  <2> HIDE DEF L, pre, suf
  <2>6. /\ T \in Seq(Range(T)) /\ Len(T) <= Len(t)
        /\ join(t).nl \in BOOLEAN /\ join(t) = [lines |-> T, nl |-> join(t).nl]
    BY <1>3, <2>2, <2>4, <2>5
  <2>7. PICK r \in Nat :
                   /\ HasBlock(T, Len(pre), N, r)
                   /\ r = Len(suf) \/ (r = Len(suf) - 1 /\ suf[Len(suf)] = Blank)
                   /\ \A i \in 1 .. Len(pre) : T[i] = pre[i]
                   /\ \A j \in 1 .. r : T[Len(pre) + n + 2 + j] = suf[j]
    BY <1>3, <2>2, <2>4, <2>5
  <2> DEFINE p == Len(pre)
  <2>8. p \in Nat /\ p = b - 1 /\ p + 1 = b
    BY <2>3, <2>4
  <2> HIDE DEF p
  <2>9. Exchanged(T, lines, p, n, r)
    <3>1. FirstAt(lines, BEGIN, p + 1) /\ FirstAt(lines, END, e)
      BY <2>1, <2>8
    <3>2. e + r <= Len(lines) /\ r <= Len(lines) - e
      BY <1>2, <2>3, <2>5, <2>7
    <3>3. \A i \in 1 .. p : T[i] = lines[i]
      BY <2>4, <2>7, <2>8 DEF p
    <3>4. \A j \in 1 .. r : T[p + n + 2 + j] = lines[e + j]
      <4>1. \A j \in 1 .. r : j \in 1 .. Len(lines) - e
        BY <1>2, <2>3, <3>2
      <4> QED
        BY <2>5, <2>7, <4>1 DEF p
    <3>5. ASSUME NEW j \in e + r + 1 .. Len(lines) PROVE lines[j] = Blank
      <4>1. r = Len(suf) - 1 /\ suf[Len(suf)] = Blank
        BY <1>2, <2>3, <2>5, <2>7
      <4>2. j = Len(lines) /\ Len(suf) \in 1 .. Len(lines) - e
        BY <1>2, <2>3, <2>5, <2>7, <4>1
      <4>3. suf[Len(suf)] = lines[e + Len(suf)]
        BY <2>5, <4>2
      <4>4. e + Len(suf) = j
        BY <1>2, <2>3, <2>5, <4>2
      <4> QED
        BY <4>1, <4>3, <4>4
    <3> QED
      BY <2>3, <3>1, <3>2, <3>3, <3>4, <3>5 DEF Exchanged
  <2> QED
    BY <2>6, <2>7, <2>8, <2>9 DEF p, n
<1> QED
  BY <1>4, <1>5

-----------------------------------------------------------------------------
(* The invariant                                                           *)

\* Between a begin marker and the first end marker are only keys: what the
\* next update throws away is nothing of the owner's.
Sealed(lines) ==
    \A b, e \in 1 .. Len(lines) :
        lines[b] = BEGIN /\ FirstAt(lines, END, e) =>
            \A i \in b + 1 .. e - 1 : lines[i][1] = "key"

\* After an update its block is somewhere in the text.
Fresh ==
    result = "ok" =>
        \E p, q \in 0 .. Len(text.lines) :
            HasBlock(text.lines, p, normalize_and_dedup(applied), q)

BlockInv ==
    /\ TypeOK
    /\ text.lines \in Seq(Range(text.lines))
    /\ Sealed(text.lines)
    /\ Fresh

-----------------------------------------------------------------------------
(* The owner's edits                                                       *)

Gained(t, s, i, x) ==
    /\ Len(t) = Len(s) + 1 /\ t[i] = x
    /\ \A j \in 1 .. i - 1 : t[j] = s[j]
    /\ \A j \in i .. Len(s) : t[j + 1] = s[j]

Lost(t, s, i) ==
    /\ Len(t) = Len(s) - 1
    /\ \A j \in 1 .. i - 1 : t[j] = s[j]
    /\ \A j \in i .. Len(s) - 1 : t[j] = s[j + 1]

LEMMA Cut ==
    ASSUME NEW X, NEW s \in Seq(X), NEW i \in 1 .. Len(s) + 1
    PROVE  /\ SubSeq(s, 1, i - 1) \in Seq(X) /\ Len(SubSeq(s, 1, i - 1)) = i - 1
           /\ \A j \in 1 .. i - 1 : SubSeq(s, 1, i - 1)[j] = s[j]
           /\ SubSeq(s, i, Len(s)) \in Seq(X) /\ Len(SubSeq(s, i, Len(s))) = Len(s) + 1 - i
           /\ \A j \in 1 .. Len(s) + 1 - i : SubSeq(s, i, Len(s))[j] = s[i + j - 1]
<1>1. /\ SubSeq(s, 1, i - 1) \in Seq(X) /\ Len(SubSeq(s, 1, i - 1)) = i - 1
      /\ \A j \in 1 .. i - 1 : SubSeq(s, 1, i - 1)[j] = s[j]
  <2> DEFINE c == i - 1
  <2>1. c \in Nat /\ c <= Len(s)
    OBVIOUS
  <2> HIDE DEF c
  <2>2. /\ SubSeq(s, 1, c) \in Seq(X) /\ Len(SubSeq(s, 1, c)) = c
        /\ \A j \in 1 .. c : SubSeq(s, 1, c)[j] = s[j]
    BY <2>1
  <2> QED
    BY <2>2 DEF c
<1>2. /\ SubSeq(s, i, Len(s)) \in Seq(X) /\ Len(SubSeq(s, i, Len(s))) = Len(s) + 1 - i
      /\ \A j \in 1 .. Len(s) + 1 - i : SubSeq(s, i, Len(s))[j] = s[i + j - 1]
  OBVIOUS
<1> QED
  BY <1>1, <1>2

LEMMA Insertion ==
    ASSUME NEW X, NEW s \in Seq(X), NEW i \in 1 .. Len(s) + 1, NEW x \in X
    PROVE  InsertAt(s, i, x) \in Seq(X) /\ Gained(InsertAt(s, i, x), s, i, x)
<1> DEFINE a == SubSeq(s, 1, i - 1)
           o == <<x>>
           b == SubSeq(s, i, Len(s))
           c == a \o o
           t == c \o b
           n == Len(s)
<1>1. n \in Nat /\ i \in Nat /\ 1 <= i /\ i <= n + 1
  OBVIOUS
<1>2. /\ a \in Seq(X) /\ Len(a) = i - 1 /\ \A j \in 1 .. i - 1 : a[j] = s[j]
      /\ b \in Seq(X) /\ Len(b) = n + 1 - i /\ \A j \in 1 .. n + 1 - i : b[j] = s[i + j - 1]
  BY Cut
<1>3. o \in Seq(X) /\ Len(o) = 1 /\ o[1] = x
  OBVIOUS
<1> HIDE DEF a, o, b, n
<1>4. /\ c \in Seq(X) /\ Len(c) = Len(a) + Len(o)
      /\ \A j \in 1 .. Len(a) : c[j] = a[j]
      /\ \A j \in 1 .. Len(o) : c[Len(a) + j] = o[j]
  <2>1. a \in Seq(X) /\ o \in Seq(X)
    BY <1>2, <1>3
  <2> QED
    BY <2>1, Concat
<1> HIDE DEF c
<1>5. /\ t \in Seq(X) /\ Len(t) = Len(c) + Len(b)
      /\ \A j \in 1 .. Len(c) : t[j] = c[j]
      /\ \A j \in 1 .. Len(b) : t[Len(c) + j] = b[j]
  <2>1. c \in Seq(X) /\ b \in Seq(X)
    BY <1>2, <1>4
  <2> QED
    BY <2>1, Concat
<1> HIDE DEF t
<1>6. Len(c) = i /\ Len(t) = n + 1
  BY <1>1, <1>2, <1>3, <1>4, <1>5
<1>7. \A j \in 1 .. i - 1 : t[j] = s[j]
  BY <1>1, <1>2, <1>4, <1>5, <1>6
<1>8. t[i] = x
  <2>1. c[Len(a) + 1] = x /\ Len(a) + 1 = i
    BY <1>1, <1>2, <1>3, <1>4
  <2> QED
    BY <1>1, <1>5, <1>6, <2>1
<1>9. ASSUME NEW j \in i .. n PROVE t[j + 1] = s[j]
  <2> DEFINE k == j + 1 - i
  <2>1. k \in 1 .. n + 1 - i /\ i + k = j + 1 /\ i + k - 1 = j
    BY <1>1
  <2>2. t[i + k] = b[k]
    BY <1>2, <1>5, <1>6, <2>1
  <2>3. b[k] = s[i + k - 1]
    BY <1>2, <2>1
  <2> QED
    BY <2>1, <2>2, <2>3
<1>10. InsertAt(s, i, x) = t
  BY DEF InsertAt, t, c, a, o, b
<1> QED
  BY <1>5, <1>6, <1>7, <1>8, <1>9, <1>10 DEF Gained, n

LEMMA Removal ==
    ASSUME NEW X, NEW s \in Seq(X), NEW i \in 1 .. Len(s)
    PROVE  RemoveAt(s, i) \in Seq(X) /\ Lost(RemoveAt(s, i), s, i)
<1> DEFINE a == SubSeq(s, 1, i - 1)
           b == SubSeq(s, i + 1, Len(s))
           t == a \o b
           n == Len(s)
<1>1. n \in Nat /\ i \in Nat /\ 1 <= i /\ i <= n
  OBVIOUS
<1>2. a \in Seq(X) /\ Len(a) = i - 1 /\ \A j \in 1 .. i - 1 : a[j] = s[j]
  <2>1. i \in 1 .. Len(s) + 1
    BY <1>1
  <2> QED
    BY <2>1, Cut
<1>3. /\ b \in Seq(X) /\ Len(b) = n + 1 - (i + 1)
      /\ \A j \in 1 .. n + 1 - (i + 1) : b[j] = s[(i + 1) + j - 1]
  <2> DEFINE k == i + 1
  <2>1. k \in 1 .. Len(s) + 1
    BY <1>1
  <2> HIDE DEF k
  <2>2. /\ SubSeq(s, k, Len(s)) \in Seq(X) /\ Len(SubSeq(s, k, Len(s))) = Len(s) + 1 - k
        /\ \A j \in 1 .. Len(s) + 1 - k : SubSeq(s, k, Len(s))[j] = s[k + j - 1]
    BY <2>1, Cut
  <2> QED
    BY <2>2 DEF k
<1> HIDE DEF a, b, n
<1>4. /\ t \in Seq(X) /\ Len(t) = Len(a) + Len(b)
      /\ \A j \in 1 .. Len(a) : t[j] = a[j]
      /\ \A j \in 1 .. Len(b) : t[Len(a) + j] = b[j]
  <2>1. a \in Seq(X) /\ b \in Seq(X)
    BY <1>2, <1>3
  <2> QED
    BY <2>1, Concat
<1> HIDE DEF t
<1>5. Len(t) = n - 1
  BY <1>1, <1>2, <1>3, <1>4
<1>6. \A j \in 1 .. i - 1 : t[j] = s[j]
  BY <1>1, <1>2, <1>4
<1>7. ASSUME NEW j \in i .. n - 1 PROVE t[j] = s[j + 1]
  <2> DEFINE k == j + 1 - i
  <2>1. k \in 1 .. n + 1 - (i + 1) /\ (i - 1) + k = j /\ (i + 1) + k - 1 = j + 1
    BY <1>1
  <2>2. t[(i - 1) + k] = b[k]
    BY <1>2, <1>3, <1>4, <2>1
  <2>3. b[k] = s[(i + 1) + k - 1]
    BY <1>3, <2>1
  <2> QED
    BY <2>1, <2>2, <2>3
<1>8. RemoveAt(s, i) = t
  BY DEF RemoveAt, t, a, b
<1> QED
  BY <1>4, <1>5, <1>6, <1>7, <1>8 DEF Lost, n

\* Lines that go away, end markers excepted, break no seal;
LEMMA SealedThinned ==
    ASSUME NEW X, NEW s \in Seq(X), NEW t \in Seq(X), NEW h, Embeds(h, t, s), Sealed(s),
           \A j \in 1 .. Len(s) : s[j] = END => \E a \in 1 .. Len(t) : h[a] = j
    PROVE  Sealed(t)
<1> SUFFICES ASSUME NEW b \in 1 .. Len(t), NEW e \in 1 .. Len(t),
                    t[b] = BEGIN, FirstAt(t, END, e), NEW i \in b + 1 .. e - 1
             PROVE  t[i][1] = "key"
  BY DEF Sealed
<1>1. i \in 1 .. Len(t) /\ b < i /\ i < e
  OBVIOUS
<1>2. /\ h[b] \in 1 .. Len(s) /\ h[i] \in 1 .. Len(s) /\ h[e] \in 1 .. Len(s)
      /\ h[b] < h[i] /\ h[i] < h[e]
      /\ s[h[b]] = BEGIN /\ s[h[e]] = END /\ t[i] = s[h[i]]
  BY <1>1 DEF Embeds, FirstAt
<1>3. ASSUME NEW j \in 1 .. Len(s), s[j] = END PROVE h[e] <= j
  <2>1. PICK a \in 1 .. Len(t) : h[a] = j
    BY <1>3
  <2>2. t[a] = END
    BY <1>3, <2>1 DEF Embeds
  <2>3. e <= a
    BY <2>2 DEF FirstAt
  <2>4. CASE e = a
    BY <2>1, <2>4, <1>2
  <2>5. CASE e < a
    BY <2>1, <2>5, <1>2 DEF Embeds
  <2> QED
    BY <2>3, <2>4, <2>5
<1>4. FirstAt(s, END, h[e])
  BY <1>2, <1>3 DEF FirstAt
<1>5. h[i] \in h[b] + 1 .. h[e] - 1
  BY <1>2
<1>6. s[h[i]][1] = "key"
  BY <1>2, <1>4, <1>5 DEF Sealed
<1> QED
  BY <1>2, <1>6

\* nor does a line that is no marker and comes after all others, or in the
\* place of the last one;
LEMMA SealedExtended ==
    ASSUME NEW X, NEW s \in Seq(X), NEW t \in Seq(X), NEW n \in Nat, n <= Len(s),
           Len(t) = n + 1, \A i \in 1 .. n : t[i] = s[i], t[n + 1] \notin {BEGIN, END},
           Sealed(s)
    PROVE  Sealed(t)
<1> SUFFICES ASSUME NEW b \in 1 .. Len(t), NEW e \in 1 .. Len(t),
                    t[b] = BEGIN, FirstAt(t, END, e), NEW i \in b + 1 .. e - 1
             PROVE  t[i][1] = "key"
  BY DEF Sealed
<1>1. t[e] = END /\ \A j \in 1 .. Len(t) : t[j] = END => e <= j
  BY DEF FirstAt
<1>2. b \in 1 .. n /\ e \in 1 .. n
  BY <1>1
<1>3. b \in 1 .. Len(s) /\ e \in 1 .. Len(s) /\ i \in 1 .. n
  BY <1>2
<1>4. s[b] = BEGIN /\ s[e] = END /\ s[i] = t[i]
  BY <1>1, <1>2, <1>3
<1>5. ASSUME NEW j \in 1 .. Len(s), s[j] = END PROVE e <= j
  <2>1. CASE j <= n
    <3>1. j \in 1 .. n /\ j \in 1 .. Len(t)
      BY <2>1
    <3>2. t[j] = END
      BY <1>5, <3>1
    <3> QED
      BY <1>1, <3>1, <3>2
  <2>2. CASE n < j
    BY <1>2, <2>2
  <2> QED
    BY <2>1, <2>2
<1>6. FirstAt(s, END, e)
  BY <1>3, <1>4, <1>5 DEF FirstAt
<1> QED
  BY <1>3, <1>4, <1>6 DEF Sealed

\* nor one that comes in outside of the block.
LEMMA SealedInserted ==
    ASSUME NEW X, NEW s \in Seq(X), NEW t \in Seq(X), NEW i \in Outside(s), NEW x,
           x \notin {BEGIN, END}, Gained(t, s, i, x), Sealed(s)
    PROVE  Sealed(t)
<1> SUFFICES ASSUME NEW b \in 1 .. Len(t), NEW e \in 1 .. Len(t),
                    t[b] = BEGIN, FirstAt(t, END, e), NEW k \in b + 1 .. e - 1
             PROVE  t[k][1] = "key"
  BY DEF Sealed
<1> DEFINE n == Len(s)
           h == [j \in 1 .. n + 1 |-> IF j < i THEN j ELSE j - 1]
<1>1. n \in Nat /\ i \in 1 .. n + 1 /\ Len(t) = n + 1
  BY DEF Outside, Gained
<1>2. t[i] = x /\ (\A j \in 1 .. i - 1 : t[j] = s[j]) /\ \A j \in i .. n : t[j + 1] = s[j]
  BY DEF Gained
<1>3. t[e] = END /\ \A j \in 1 .. n + 1 : t[j] = END => e <= j
  BY <1>1 DEF FirstAt
<1>4. b # i /\ e # i
  BY <1>2, <1>3
<1> HIDE DEF n
<1>5. ASSUME NEW j \in 1 .. n + 1, j # i PROVE h[j] \in 1 .. n /\ s[h[j]] = t[j]
  <2>1. CASE j < i
    <3>1. j \in 1 .. i - 1 /\ j \in 1 .. n /\ h[j] = j
      BY <1>1, <2>1
    <3> QED
      BY <1>2, <3>1
  <2>2. CASE i < j
    <3>1. j - 1 \in i .. n /\ j - 1 \in 1 .. n /\ h[j] = j - 1 /\ (j - 1) + 1 = j
      BY <1>1, <2>2
    <3>2. t[(j - 1) + 1] = s[j - 1]
      BY <1>2, <3>1
    <3> QED
      BY <3>1, <3>2
  <2> QED
    BY <1>1, <1>5, <2>1, <2>2
<1>6. b \in 1 .. n + 1 /\ e \in 1 .. n + 1 /\ k \in 1 .. n + 1 /\ b < k /\ k < e
  BY <1>1
<1>7. h[b] \in 1 .. n /\ s[h[b]] = BEGIN /\ h[e] \in 1 .. n /\ s[h[e]] = END
  BY <1>3, <1>4, <1>5, <1>6
<1>8. ~(b < i /\ i < e)
  <2> SUFFICES ASSUME b < i, i < e PROVE FALSE
    OBVIOUS
  <2>1. h[b] = b /\ h[e] = e - 1 /\ h[b] < i /\ h[e] >= i
    BY <1>1, <1>6
  <2>2. h[b] \in Positions(s, BEGIN) /\ h[e] \in Positions(s, END)
    BY <1>7 DEF Positions, n
  <2> QED
    BY <2>1, <2>2 DEF Outside
<1>9. k # i
  BY <1>1, <1>6, <1>8
<1>10. h[k] \in 1 .. n /\ s[h[k]] = t[k]
  BY <1>5, <1>6, <1>9
<1>11. h[k] \in h[b] + 1 .. h[e] - 1
  BY <1>1, <1>4, <1>6, <1>8, <1>9
<1>12. ASSUME NEW j \in 1 .. n, s[j] = END PROVE h[e] <= j
  <2>1. CASE j < i
    <3>1. j \in 1 .. i - 1 /\ j \in 1 .. n + 1
      BY <1>1, <2>1
    <3>2. t[j] = END
      BY <1>2, <1>12, <3>1
    <3>3. e <= j
      BY <1>3, <3>1, <3>2
    <3> QED
      BY <1>1, <1>6, <2>1, <3>3
  <2>2. CASE i <= j
    <3>1. j \in i .. n /\ j + 1 \in 1 .. n + 1
      BY <1>1, <2>2
    <3>2. t[j + 1] = END
      BY <1>2, <1>12, <3>1
    <3>3. e <= j + 1
      BY <1>3, <3>1, <3>2
    <3> QED
      BY <1>1, <1>4, <1>6, <2>2, <3>3
  <2> QED
    BY <1>1, <2>1, <2>2
<1>13. FirstAt(s, END, h[e])
  BY <1>7, <1>12 DEF FirstAt, n
<1>14. s[h[k]][1] = "key"
  <2> HIDE DEF h
  <2> QED
    BY <1>7, <1>11, <1>13 DEF Sealed, n
<1> QED
  BY <1>10, <1>14

-----------------------------------------------------------------------------
(* What an update makes of the text                                        *)

LEMMA Places ==
    ASSUME NEW T, NEW p, NEW K, NEW N \in Seq(K), NEW q, HasBlock(T, p, N, q),
           NEW i \in 1 .. Len(T)
    PROVE  \/ i \in 1 .. p
           \/ i = p + 1 /\ T[i] = BEGIN
           \/ \E j \in 1 .. Len(N) : i = p + 1 + j /\ T[i] = KeyLine(N[j])
           \/ i = p + Len(N) + 2 /\ T[i] = END
           \/ \E j \in 1 .. q : i = p + Len(N) + 2 + j
<1> DEFINE n == Len(N)
<1>1. p \in Nat /\ q \in Nat /\ n \in Nat /\ Len(T) = p + n + 2 + q
  BY DEF HasBlock
<1>2. /\ T[p + 1] = BEGIN /\ T[p + n + 2] = END
      /\ \A j \in 1 .. n : T[p + 1 + j] = KeyLine(N[j])
  BY DEF HasBlock
<1> HIDE DEF n
<1>3. CASE i > p + 1 /\ i < p + n + 2
  <2>1. i - p - 1 \in 1 .. n /\ i = p + 1 + (i - p - 1)
    BY <1>1, <1>3
  <2>2. T[i] = KeyLine(N[i - p - 1])
    BY <1>2, <2>1
  <2> QED
    BY <2>1, <2>2 DEF n
<1>4. CASE i > p + n + 2
  <2>1. i - p - n - 2 \in 1 .. q /\ i = p + n + 2 + (i - p - n - 2)
    BY <1>1, <1>4
  <2> QED
    BY <2>1 DEF n
<1>5. CASE i <= p + 1 \/ i = p + n + 2
  BY <1>1, <1>2, <1>5 DEF n
<1> QED
  BY <1>1, <1>3, <1>4, <1>5

\* There is no begin marker before the block.
LEMMA FirstBlock ==
    ASSUME NEW R, NEW lines \in Seq(R), NEW T, NEW p \in Nat, NEW n, NEW q,
           Added(T, lines, p, q) \/ Exchanged(T, lines, p, n, q),
           NEW i \in 1 .. p
    PROVE  T[i] # BEGIN
<1>1. CASE Added(T, lines, p, q)
  <2>1. CASE i \in 1 .. Len(lines)
    BY <1>1, <2>1 DEF Added, Positions
  <2>2. CASE i \in Len(lines) + 1 .. p
    BY <1>1, <2>2 DEF Added, BEGIN, Blank
  <2> QED
    BY <2>1, <2>2
<1>2. CASE Exchanged(T, lines, p, n, q)
  <2>1. T[i] = lines[i] /\ FirstAt(lines, BEGIN, p + 1)
    BY <1>2 DEF Exchanged
  <2>2. p + 1 \in 1 .. Len(lines) /\ i \in 1 .. Len(lines) /\ ~(p + 1 <= i)
    BY <2>1 DEF FirstAt
  <2> QED
    BY <2>1, <2>2 DEF FirstAt
<1> QED
  BY <1>1, <1>2

LEMMA SealedUpdated ==
    ASSUME NEW R, NEW lines \in Seq(R), NEW T, NEW p, NEW K, NEW N \in Seq(K), NEW q,
           HasBlock(T, p, N, q),
           Added(T, lines, p, q) \/ Exchanged(T, lines, p, Len(N), q)
    PROVE  Sealed(T)
<1> SUFFICES ASSUME NEW b \in 1 .. Len(T), NEW e \in 1 .. Len(T),
                    T[b] = BEGIN, FirstAt(T, END, e), NEW i \in b + 1 .. e - 1
             PROVE  T[i][1] = "key"
  BY DEF Sealed
<1> DEFINE n == Len(N)
<1>1. p \in Nat /\ q \in Nat /\ n \in Nat /\ Len(T) = p + n + 2 + q
  BY DEF HasBlock
<1>2. T[p + n + 2] = END /\ p + n + 2 \in 1 .. Len(T)
  BY <1>1 DEF HasBlock
<1>3. e <= p + n + 2
  BY <1>2 DEF FirstAt
<1>4. b \notin 1 .. p
  BY <1>1, FirstBlock
<1>5. i - p - 1 \in 1 .. n /\ i = p + 1 + (i - p - 1)
  BY <1>1, <1>3, <1>4
<1>6. T[i] = KeyLine(N[i - p - 1])
  BY <1>5 DEF HasBlock
<1> QED
  BY <1>6 DEF KeyLine

LEMMA LinesUpdated ==
    ASSUME NEW R, NEW lines \in Seq(R), NEW T, NEW p, NEW q, NEW N,
           N \in Seq({normalize_public_key(r) : r \in RawKey}),
           HasBlock(T, p, N, q),
           Added(T, lines, p, q) \/ Exchanged(T, lines, p, Len(N), q),
           \A i \in 1 .. Len(lines) : IsLine(lines[i]),
           NEW i \in 1 .. Len(T)
    PROVE  IsLine(T[i])
<1> DEFINE n == Len(N)
<1>1. p \in Nat /\ q \in Nat /\ n \in Nat /\ Len(lines) \in Nat
  <2>1. n \in Nat
    <3> DEFINE NK == {normalize_public_key(r) : r \in RawKey}
    <3> HIDE DEF NK
    <3> QED
      BY DEF NK
  <2> QED
    BY <2>1 DEF HasBlock
<1>2. IsLine(BEGIN) /\ IsLine(END) /\ IsLine(Blank)
  BY DEF IsLine, Line
<1>3. ASSUME NEW j \in 1 .. n PROVE IsLine(KeyLine(N[j]))
  <2>1. N[j] \in {normalize_public_key(r) : r \in RawKey}
    BY <1>1
  <2>2. PICK r \in RawKey : N[j] = normalize_public_key(r)
    BY <2>1
  <2>3. KeyLine(N[j]) = KeyLine(r)
    BY <2>2 DEF KeyLine, normalize_public_key
  <2> QED
    BY <2>3 DEF IsLine, Line
<1>4. CASE i \in 1 .. p
  <2>1. CASE Added(T, lines, p, q)
    <3>1. T[i] = Blank \/ (i \in 1 .. Len(lines) /\ T[i] = lines[i])
      BY <1>1, <1>4, <2>1 DEF Added
    <3> QED
      BY <1>2, <3>1
  <2>2. CASE Exchanged(T, lines, p, n, q)
    <3>1. T[i] = lines[i] /\ p + 1 \in 1 .. Len(lines)
      BY <1>4, <2>2 DEF Exchanged, FirstAt
    <3>2. i \in 1 .. Len(lines)
      BY <1>1, <1>4, <3>1
    <3> QED
      BY <3>1, <3>2
  <2> QED
    BY <2>1, <2>2
<1>5. ASSUME NEW j \in 1 .. q, i = p + n + 2 + j PROVE IsLine(T[i])
  <2>1. CASE Added(T, lines, p, q)
    BY <2>1 DEF Added
  <2>2. CASE Exchanged(T, lines, p, n, q)
    <3>1. PICK e \in 1 .. Len(lines) : e + q <= Len(lines) /\ T[p + n + 2 + j] = lines[e + j]
      BY <2>2 DEF Exchanged
    <3>2. e + j \in 1 .. Len(lines)
      BY <1>1, <3>1
    <3> QED
      BY <1>5, <3>1, <3>2
  <2> QED
    BY <2>1, <2>2
<1>6. \/ i \in 1 .. p
      \/ i = p + 1 /\ T[i] = BEGIN
      \/ \E j \in 1 .. n : i = p + 1 + j /\ T[i] = KeyLine(N[j])
      \/ i = p + n + 2 /\ T[i] = END
      \/ \E j \in 1 .. q : i = p + n + 2 + j
  <2> DEFINE NK == {normalize_public_key(r) : r \in RawKey}
  <2> HIDE DEF NK
  <2>1. N \in Seq(NK)
    BY DEF NK
  <2> QED
    BY <2>1, Places
<1> QED
  BY <1>2, <1>3, <1>4, <1>5, <1>6

\* Every key of the update is in the block.
LEMMA KeysUpdated ==
    ASSUME NEW K, NEW keys \in Seq(K), NEW T, NEW p, NEW q,
           HasBlock(T, p, normalize_and_dedup(keys), q), NEW k \in Range(keys)
    PROVE  Contains(T, KeyLine(k))
<1> DEFINE N == normalize_and_dedup(keys)
           NK == {normalize_public_key(r) : r \in K}
<1>1. /\ N \in Seq(NK)
      /\ Range(N) = {normalize_public_key(r) : r \in Range(keys)}
  BY Dedup
<1>2. normalize_public_key(k) \in Range(N)
  BY <1>1
<1> HIDE DEF N, NK
<1>3. Len(N) \in Nat /\ DOMAIN N = 1 .. Len(N)
  BY <1>1
<1>4. PICK j \in 1 .. Len(N) : N[j] = normalize_public_key(k)
  BY <1>2, <1>3 DEF Range
<1>5. HasBlock(T, p, N, q)
  BY DEF N
<1>6. T[p + 1 + j] = KeyLine(N[j]) /\ p + 1 + j \in 1 .. Len(T)
  BY <1>3, <1>5 DEF HasBlock
<1>7. KeyLine(N[j]) = KeyLine(k)
  BY <1>4 DEF KeyLine, normalize_public_key
<1> QED
  BY <1>6, <1>7 DEF Contains

\* No line of the owner is lost.
LEMMA OwnerUpdated ==
    ASSUME NEW R, NEW lines \in Seq(R), NEW T, NEW p, NEW K, NEW N \in Seq(K), NEW q,
           HasBlock(T, p, N, q),
           Added(T, lines, p, q) \/ Exchanged(T, lines, p, Len(N), q),
           Sealed(lines),
           NEW l \in Range(lines), l[1] \in {"owner", "glued"}
    PROVE  Contains(T, l)
<1> DEFINE n == Len(N)
<1>1. p \in Nat /\ q \in Nat /\ n \in Nat /\ Len(T) = p + n + 2 + q /\ Len(lines) \in Nat
  BY DEF HasBlock
<1>2. PICK i \in 1 .. Len(lines) : lines[i] = l
  BY DEF Range
<1> HIDE DEF n
<1>3. lines[i] # BEGIN /\ lines[i] # END /\ lines[i] # Blank /\ lines[i][1] # "key"
  BY <1>2 DEF BEGIN, END, Blank
<1>4. CASE Added(T, lines, p, q)
  <2>1. T[i] = l /\ i \in 1 .. Len(T)
    BY <1>1, <1>2, <1>4 DEF Added
  <2> QED
    BY <2>1 DEF Contains
<1>5. CASE Exchanged(T, lines, p, n, q)
  <2>1. PICK e \in 1 .. Len(lines) :
              /\ FirstAt(lines, BEGIN, p + 1) /\ FirstAt(lines, END, e)
              /\ e + q <= Len(lines)
              /\ \A j \in 1 .. p : T[j] = lines[j]
              /\ \A j \in 1 .. q : T[p + n + 2 + j] = lines[e + j]
              /\ \A j \in e + q + 1 .. Len(lines) : lines[j] = Blank
    BY <1>5 DEF Exchanged
  <2>2. p + 1 \in 1 .. Len(lines) /\ lines[p + 1] = BEGIN /\ lines[e] = END
    BY <2>1 DEF FirstAt
  <2>3. CASE i \in 1 .. p
    <3>1. T[i] = l /\ i \in 1 .. Len(T)
      BY <1>1, <1>2, <2>1, <2>3
    <3> QED
      BY <3>1 DEF Contains
  <2>4. CASE i > e
    <3>1. i <= e + q
      BY <1>1, <1>3, <2>1, <2>4
    <3>2. i - e \in 1 .. q /\ e + (i - e) = i
      BY <1>1, <2>4, <3>1
    <3>3. PICK j \in 1 .. q : e + j = i
      BY <3>2
    <3>4. T[p + n + 2 + j] = l
      BY <1>2, <2>1, <3>3
    <3>5. p + n + 2 + j \in 1 .. Len(T)
      BY <1>1
    <3> QED
      BY <3>4, <3>5 DEF Contains
  <2>5. CASE i \notin 1 .. p /\ ~(i > e)
    <3>1. i # p + 1 /\ i # e
      BY <1>3, <2>2
    <3>2. i \in (p + 1) + 1 .. e - 1
      BY <1>1, <2>5, <3>1
    <3>3. lines[i][1] = "key"
      BY <2>1, <2>2, <3>2 DEF Sealed
    <3> QED
      BY <1>3, <3>3
  <2> QED
    BY <2>3, <2>4, <2>5
<1> QED
  BY <1>4, <1>5 DEF n

\* In a text with its markers in order, the block is the only one
LEMMA OneBlock ==
    ASSUME NEW T, NEW p, NEW K, NEW N \in Seq(K), NEW q, HasBlock(T, p, N, q), InOrder(T)
    PROVE  Positions(T, BEGIN) = {p + 1} /\ Positions(T, END) = {p + Len(N) + 2}
<1> DEFINE n == Len(N)
<1>1. p \in Nat /\ q \in Nat /\ n \in Nat /\ Len(T) = p + n + 2 + q
      /\ T[p + 1] = BEGIN /\ T[p + n + 2] = END
  BY DEF HasBlock
<1>2. p + 1 \in Positions(T, BEGIN) /\ p + n + 2 \in Positions(T, END)
  BY <1>1 DEF Positions
<1>3. PICK b, e \in 1 .. Len(T) : Positions(T, BEGIN) = {b} /\ Positions(T, END) = {e}
  BY <1>2 DEF InOrder
<1> QED
  BY <1>2, <1>3

OnlyBlock(T, p, n) == Positions(T, BEGIN) = {p + 1} /\ Positions(T, END) = {p + n + 2}

\* and stays the only one in an update.
LEMMA StillOneBlock ==
    ASSUME NEW R, NEW lines \in Seq(R), NEW T, NEW p, NEW K, NEW N \in Seq(K), NEW q,
           HasBlock(T, p, N, q),
           Added(T, lines, p, q) \/ Exchanged(T, lines, p, Len(N), q),
           InOrder(lines)
    PROVE  OnlyBlock(T, p, Len(N))
<1> DEFINE n == Len(N)
<1>1. /\ p \in Nat /\ q \in Nat /\ n \in Nat /\ Len(T) = p + n + 2 + q /\ Len(lines) \in Nat
      /\ T[p + 1] = BEGIN /\ T[p + n + 2] = END
  BY DEF HasBlock
<1>2. BEGIN # END /\ Blank # BEGIN /\ Blank # END /\ \A k : KeyLine(k) # BEGIN /\ KeyLine(k) # END
  BY DEF BEGIN, END, Blank, KeyLine
<1>3. ASSUME NEW i \in 1 .. p PROVE T[i] # BEGIN /\ T[i] # END
  <2>1. CASE Added(T, lines, p, q)
    <3>1. Positions(lines, BEGIN) = {} /\ Positions(lines, END) = {}
      BY <2>1 DEF Added, InOrder
    <3>2. T[i] = Blank \/ (i \in 1 .. Len(lines) /\ T[i] = lines[i])
      BY <1>1, <2>1 DEF Added
    <3> QED
      BY <1>2, <3>1, <3>2 DEF Positions
  <2>2. CASE Exchanged(T, lines, p, n, q)
    <3>1. PICK e \in 1 .. Len(lines) :
              FirstAt(lines, BEGIN, p + 1) /\ FirstAt(lines, END, e) /\ T[i] = lines[i]
      BY <2>2 DEF Exchanged
    <3>2. p + 1 \in Positions(lines, BEGIN) /\ e \in Positions(lines, END)
      BY <3>1 DEF FirstAt, Positions
    <3>3. Positions(lines, BEGIN) = {p + 1} /\ Positions(lines, END) = {e} /\ p + 1 < e
      BY <3>2 DEF InOrder
    <3>4. i \in 1 .. Len(lines) /\ i # p + 1 /\ i # e
      BY <1>1, <3>3
    <3> QED
      BY <3>1, <3>3, <3>4 DEF Positions
  <2> QED
    BY <2>1, <2>2
<1>4. ASSUME NEW j \in 1 .. q PROVE T[p + n + 2 + j] # BEGIN /\ T[p + n + 2 + j] # END
  <2>1. CASE Added(T, lines, p, q)
    BY <2>1 DEF Added
  <2>2. CASE Exchanged(T, lines, p, n, q)
    <3>1. PICK e \in 1 .. Len(lines) :
              /\ FirstAt(lines, BEGIN, p + 1) /\ FirstAt(lines, END, e)
              /\ e + q <= Len(lines) /\ T[p + n + 2 + j] = lines[e + j]
      BY <2>2 DEF Exchanged
    <3>2. p + 1 \in Positions(lines, BEGIN) /\ e \in Positions(lines, END)
      BY <3>1 DEF FirstAt, Positions
    <3>3. Positions(lines, BEGIN) = {p + 1} /\ Positions(lines, END) = {e} /\ p + 1 < e
      BY <3>2 DEF InOrder
    <3>4. e + j \in 1 .. Len(lines) /\ e + j # p + 1 /\ e + j # e
      BY <1>1, <3>1, <3>3
    <3> QED
      BY <3>1, <3>3, <3>4 DEF Positions
  <2> QED
    BY <2>1, <2>2
<1>5. p + 1 \in 1 .. Len(T) /\ p + n + 2 \in 1 .. Len(T)
  BY <1>1
<1>6. ASSUME NEW i \in 1 .. Len(T)
      PROVE  (T[i] = BEGIN => i = p + 1) /\ (T[i] = END => i = p + n + 2)
  <2>1. \/ i \in 1 .. p
        \/ i = p + 1 /\ T[i] = BEGIN
        \/ \E j \in 1 .. n : i = p + 1 + j /\ T[i] = KeyLine(N[j])
        \/ i = p + n + 2 /\ T[i] = END
        \/ \E j \in 1 .. q : i = p + n + 2 + j
    BY Places
  <2> HIDE DEF n
  <2> QED
    BY <1>2, <1>3, <1>4, <2>1
<1> QED
  BY <1>1, <1>5, <1>6 DEF OnlyBlock, Positions

\* The lines of the block are the keys, each once.
LEMMA BlockKeys ==
    ASSUME NEW X, NEW T \in Seq(X), NEW K, NEW keys \in Seq(K), NEW p, NEW q,
           NEW N, N = normalize_and_dedup(keys), HasBlock(T, p, N, q)
    PROVE  LET block == SubSeq(T, p + 2, p + Len(N) + 1)
           IN  IsInjective(block) /\ Range(block) = {KeyLine(k) : k \in Range(keys)}
<1> DEFINE n == Len(N)
           block == SubSeq(T, p + 2, p + n + 1)
           NK == {normalize_public_key(r) : r \in K}
<1>1. /\ N \in Seq(NK) /\ IsInjective(N)
      /\ Range(N) = {normalize_public_key(k) : k \in Range(keys)}
  BY Dedup
<1> HIDE DEF NK
<1>2. n \in Nat /\ DOMAIN N = 1 .. n
  BY <1>1
<1>3. p \in Nat /\ q \in Nat /\ Len(T) = p + n + 2 + q
  BY DEF HasBlock
<1> HIDE DEF n
<1>4. DOMAIN block = 1 .. n /\ \A j \in 1 .. n : block[j] = T[p + 2 + j - 1]
  <2> DEFINE a == p + 2
             c == p + n + 1
  <2>1. a \in Nat /\ c \in Nat /\ 1 <= a /\ a <= c + 1 /\ c <= Len(T) /\ c - a + 1 = n
    BY <1>2, <1>3
  <2> HIDE DEF a, c
  <2>2. /\ DOMAIN SubSeq(T, a, c) = 1 .. (c - a + 1)
        /\ \A j \in 1 .. (c - a + 1) : SubSeq(T, a, c)[j] = T[a + j - 1]
    BY <2>1
  <2> QED
    BY <2>1, <2>2 DEF a, c
<1> HIDE DEF block
<1>5. ASSUME NEW j \in 1 .. n PROVE block[j] = KeyLine(N[j])
  <2>1. p + 2 + j - 1 = p + 1 + j
    BY <1>2, <1>3
  <2>2. T[p + 1 + j] = KeyLine(N[j])
    BY DEF HasBlock, n
  <2> QED
    BY <1>4, <2>1, <2>2
<1>6. ASSUME NEW j \in 1 .. n
      PROVE  \E k \in Range(keys) : N[j] = normalize_public_key(k)
  <2>1. N[j] \in Range(N)
    BY <1>2 DEF Range
  <2> QED
    BY <1>1, <2>1
<1>7. ASSUME NEW i \in 1 .. n, NEW j \in 1 .. n, block[i] = block[j] PROVE i = j
  <2>1. KeyLine(N[i]) = KeyLine(N[j])
    BY <1>5, <1>7
  <2>2. N[i].words = N[j].words
    BY <2>1 DEF KeyLine
  <2>3. PICK k, l \in Range(keys) :
            N[i] = normalize_public_key(k) /\ N[j] = normalize_public_key(l)
    BY <1>6
  <2>4. k.words = l.words
    BY <2>2, <2>3 DEF normalize_public_key
  <2>5. N[i] = N[j]
    BY <2>3, <2>4 DEF normalize_public_key
  <2> QED
    BY <1>1, <1>2, <2>5 DEF IsInjective
<1>8. IsInjective(block)
  BY <1>4, <1>7 DEF IsInjective
<1>9. \A k : KeyLine(normalize_public_key(k)) = KeyLine(k)
  BY DEF KeyLine, normalize_public_key
<1>10. ASSUME NEW j \in 1 .. n PROVE block[j] \in {KeyLine(k) : k \in Range(keys)}
  <2>1. PICK k \in Range(keys) : N[j] = normalize_public_key(k)
    BY <1>6
  <2> QED
    BY <1>5, <1>9, <2>1
<1>11. ASSUME NEW k \in Range(keys) PROVE \E j \in 1 .. n : block[j] = KeyLine(k)
  <2>1. normalize_public_key(k) \in Range(N)
    BY <1>1
  <2>2. PICK j \in 1 .. n : N[j] = normalize_public_key(k)
    BY <1>2, <2>1 DEF Range
  <2> QED
    BY <1>5, <1>9, <2>2
<1>12. Range(block) = {KeyLine(k) : k \in Range(keys)}
  BY <1>4, <1>10, <1>11 DEF Range
<1> QED
  BY <1>8, <1>12 DEF block, n

\* A second update with the same keys changes nothing.
LEMMA SecondUpdate ==
    ASSUME NEW X, NEW T \in Seq(X), NEW K, NEW keys \in Seq(K), NEW p, NEW q,
           HasBlock(T, p, normalize_and_dedup(keys), q), InOrder(T)
    PROVE  upsert_managed_block(T, keys) = T
<1> DEFINE N == normalize_and_dedup(keys)
           NK == {normalize_public_key(r) : r \in K}
           n == Len(N)
           pre == SubSeq(T, 1, p)
           suf == SubSeq(T, p + n + 3, Len(T))
           u == pre \o managed_block(N) \o suf
<1>1. N \in Seq(NK) /\ HasBlock(T, p, N, q)
  BY Dedup
<1> HIDE DEF N, NK
<1>2. n \in Nat /\ p \in Nat /\ q \in Nat /\ Len(T) = p + n + 2 + q
  BY <1>1 DEF HasBlock
<1>3. Positions(T, BEGIN) = {p + 1} /\ Positions(T, END) = {p + n + 2}
  BY <1>1, OneBlock
<1> HIDE DEF n
<1>4. position(T, BEGIN) = p + 1 /\ position(T, END) = p + n + 2
  <2>1. FirstAt(T, BEGIN, position(T, BEGIN)) /\ FirstAt(T, END, position(T, END))
    BY <1>3, FirstPosition
  <2> QED
    BY <1>3, <2>1 DEF FirstAt, Positions
<1>5. upsert_managed_block(T, keys) = u
  <2>1. (p + 1) - 1 = p /\ (p + n + 2) + 1 = p + n + 3
    BY <1>2
  <2>2. replaced(T, N) = u
    BY <1>4, <2>1 DEF replaced
  <2> QED
    BY <1>3, <2>2 DEF upsert_managed_block, N
<1>6. pre \in Seq(X) /\ Len(pre) = p /\ \A i \in 1 .. p : pre[i] = T[i]
  BY <1>2
<1>7. suf \in Seq(X) /\ Len(suf) = q /\ \A j \in 1 .. q : suf[j] = T[p + n + 2 + j]
  <2> DEFINE a == p + n + 3
  <2>1. a \in Nat /\ 1 <= a /\ a <= Len(T) + 1 /\ Len(T) - a + 1 = q
    BY <1>2
  <2>2. \A j \in 1 .. q : a + j - 1 = p + n + 2 + j
    BY <1>2
  <2> HIDE DEF a
  <2>3. /\ SubSeq(T, a, Len(T)) \in Seq(X) /\ Len(SubSeq(T, a, Len(T))) = Len(T) - a + 1
        /\ \A j \in 1 .. Len(T) - a + 1 : SubSeq(T, a, Len(T))[j] = T[a + j - 1]
    BY <2>1
  <2> QED
    BY <2>1, <2>2, <2>3 DEF a
<1> HIDE DEF pre, suf
<1>8. Between(u, pre, N, suf)
  BY <1>1, <1>6, <1>7, Pieces
<1> HIDE DEF u
<1>9. PICK Y : u \in Seq(Y)
  BY <1>8 DEF Between
<1>10. HasBlock(u, p, N, q)
  BY <1>6, <1>7, <1>8 DEF Between
<1>11. (\A i \in 1 .. p : u[i] = T[i]) /\ \A j \in 1 .. q : u[p + n + 2 + j] = T[p + n + 2 + j]
  BY <1>6, <1>7, <1>8 DEF Between, n
<1>12. Len(u) = Len(T)
  BY <1>2, <1>10 DEF HasBlock, n
<1>13. ASSUME NEW i \in 1 .. Len(u) PROVE u[i] = T[i]
  <2>1. \/ i \in 1 .. p
        \/ i = p + 1 /\ u[i] = BEGIN
        \/ \E j \in 1 .. n : i = p + 1 + j /\ u[i] = KeyLine(N[j])
        \/ i = p + n + 2 /\ u[i] = END
        \/ \E j \in 1 .. q : i = p + n + 2 + j
    <3>1. N \in Seq(NK)
      BY <1>1
    <3> QED
      BY <1>10, <3>1, Places DEF n
  <2>2. /\ T[p + 1] = BEGIN /\ T[p + n + 2] = END
        /\ \A j \in 1 .. n : T[p + 1 + j] = KeyLine(N[j])
    BY <1>1 DEF HasBlock, n
  <2> QED
    BY <1>11, <2>1, <2>2
<1>14. u = T
  BY <1>9, <1>12, <1>13, SeqEqual
<1> QED
  BY <1>5, <1>14

-----------------------------------------------------------------------------
(* The invariant is one                                                    *)

LEMMA Lists ==
    ASSUME NEW S, NEW n \in Nat, NEW s \in BoundedSeq(S, n)
    PROVE  s \in Seq(S) /\ Len(s) <= n
<1>1. PICK m \in 0 .. n : s \in [1 .. m -> S]
  BY DEF BoundedSeq, SeqOf
<1> QED
  BY <1>1

LEMMA Initial == Init => BlockInv
<1> SUFFICES ASSUME Init PROVE BlockInv
  OBVIOUS
<1>1. PICK u \in BoundedSeq(UserLine, 2) :
          /\ text = Saved([i \in 1 .. Len(u) |-> OwnerLine(u[i])])
          /\ mine = Range(u)
  BY DEF Init
<1> DEFINE s == [i \in 1 .. Len(u) |-> OwnerLine(u[i])]
           O == {OwnerLine(v) : v \in UserLine}
<1>2. u \in Seq(UserLine) /\ Len(u) <= 2 /\ Len(u) \in Nat
  <2>1. u \in Seq(UserLine) /\ Len(u) <= 2
    BY Lists
  <2> QED
    BY <2>1
<1>3. \A i \in 1 .. Len(u) : s[i] = OwnerLine(u[i]) /\ s[i] \in O
  BY <1>2
<1>4. s \in [1 .. Len(u) -> O]
  BY <1>2
<1> HIDE DEF s, O
<1>5. s \in Seq(O) /\ Len(s) = Len(u)
  BY <1>2, <1>4
<1>6. text = [lines |-> s, nl |-> s # <<>>]
  BY <1>1 DEF Saved, s
<1>7. text.lines = s /\ text.nl \in BOOLEAN /\ text = [lines |-> text.lines, nl |-> text.nl]
  BY <1>6
<1>8. s \in Seq(Range(s))
  BY <1>5, OwnRange
<1>9. Len(text.lines) <= MaxLines
  BY <1>2, <1>5, <1>7, BoundsAssumption
<1>10. \A i \in 1 .. Len(text.lines) : IsLine(text.lines[i])
  BY <1>3, <1>5, <1>7 DEF IsLine, Line, O
<1>11. mine \subseteq UserLine
  BY <1>1, <1>2 DEF Range
<1>12. applied \in Keys
  <2>1. applied \in [1 .. 0 -> RawKey] /\ 0 \in 0 .. MaxKeys
    BY BoundsAssumption DEF Init
  <2> QED
    BY <2>1 DEF Keys, BoundedSeq, SeqOf
<1>13. edits \in 0 .. MaxEdits /\ result = "edited"
  BY BoundsAssumption DEF Init
<1>14. TypeOK
  BY <1>7, <1>9, <1>10, <1>11, <1>12, <1>13 DEF TypeOK
<1>15. Sealed(s)
  <2>1. \A v : OwnerLine(v) # BEGIN
    BY DEF OwnerLine, BEGIN
  <2>2. \A i \in 1 .. Len(s) : s[i] # BEGIN
    BY <1>3, <1>5, <2>1
  <2> QED
    BY <2>2 DEF Sealed
<1> QED
  BY <1>7, <1>8, <1>13, <1>14, <1>15 DEF BlockInv, Fresh

\* What a successful update leaves, in terms of what it found.
Updated(T, lines, keys, p, q) ==
    /\ HasBlock(T, p, normalize_and_dedup(keys), q)
    /\ \/ Added(T, lines, p, q)
       \/ Exchanged(T, lines, p, Len(normalize_and_dedup(keys)), q)

LEMMA ApplyUpdates ==
    ASSUME BlockInv, NEW keys \in Keys, Apply(keys)
    PROVE  /\ text' = [lines |-> text'.lines, nl |-> text'.nl] /\ text'.nl \in BOOLEAN
           /\ text'.lines \in Seq(Range(text'.lines)) /\ Len(text'.lines) <= MaxLines
           /\ \E p, q \in 0 .. Len(text'.lines) : Updated(text'.lines, text.lines, keys, p, q)
<1> DEFINE lines == text.lines
           t == upsert_managed_block(lines, keys)
           N == normalize_and_dedup(keys)
           T == join(t).lines
<1>1. lines \in Seq(Range(lines)) /\ keys \in Seq(RawKey)
  <2>1. keys \in Seq(RawKey)
    BY Lists, BoundsAssumption DEF Keys
  <2> QED
    BY <2>1 DEF BlockInv
<1>2. ~MissingManagedEnd(lines) /\ Len(t) <= MaxLines /\ text' = join(t)
  BY DEF Apply
<1>3. text'.lines = T /\ text'.nl = join(t).nl
  BY <1>2
<1>4. /\ T \in Seq(Range(T)) /\ Len(T) <= Len(t)
      /\ join(t).nl \in BOOLEAN /\ join(t) = [lines |-> T, nl |-> join(t).nl]
      /\ \E p, q \in Nat : /\ HasBlock(T, p, N, q)
                           /\ Added(T, lines, p, q) \/ Exchanged(T, lines, p, Len(N), q)
  <2> HIDE DEF lines, t, N, T
  <2>1. t = upsert_managed_block(lines, keys) /\ N = normalize_and_dedup(keys) /\ T = join(t).lines
    BY DEF t, N, T
  <2> QED
    BY <1>1, <1>2, <2>1, NewText
<1>5. Len(T) \in Nat
  <2> HIDE DEF T
  <2> QED
    BY <1>4
<1>6. Len(T) <= MaxLines
  <2>1. Len(t) \in Int \/ Len(t) \notin Int
    OBVIOUS
  <2> HIDE DEF T, t
  <2> QED
    BY <1>2, <1>4, <1>5, BoundsAssumption
<1>7. \E p, q \in 0 .. Len(T) : Updated(T, lines, keys, p, q)
  <2>1. PICK p, q \in Nat : /\ HasBlock(T, p, N, q)
                            /\ Added(T, lines, p, q) \/ Exchanged(T, lines, p, Len(N), q)
    BY <1>4
  <2>2. Len(N) \in Nat
    <3>1. N \in Seq({normalize_public_key(r) : r \in RawKey})
      BY <1>1, Dedup
    <3> DEFINE NK == {normalize_public_key(r) : r \in RawKey}
    <3> HIDE DEF N, NK
    <3> QED
      BY <3>1 DEF NK
  <2> HIDE DEF T, lines, N
  <2>3. p <= Len(T) /\ q <= Len(T)
    BY <1>5, <2>1, <2>2 DEF HasBlock
  <2>4. p \in 0 .. Len(T) /\ q \in 0 .. Len(T)
    BY <1>5, <2>3
  <2> QED
    BY <2>1, <2>4 DEF Updated, N
<1> HIDE DEF T, t
<1> QED
  BY <1>2, <1>3, <1>4, <1>6, <1>7

LEMMA ApplyKeeps ==
    ASSUME BlockInv, NEW keys \in Keys, Apply(keys)
    PROVE  BlockInv'
<1> DEFINE T == text'.lines
           N == normalize_and_dedup(keys)
           NK == {normalize_public_key(r) : r \in RawKey}
<1>1. /\ text' = [lines |-> T, nl |-> text'.nl] /\ text'.nl \in BOOLEAN
      /\ T \in Seq(Range(T)) /\ Len(T) <= MaxLines
  BY ApplyUpdates
<1>2. PICK p, q \in 0 .. Len(T) : Updated(T, text.lines, keys, p, q)
  BY ApplyUpdates
<1>3. N \in Seq(NK)
  <2>1. keys \in Seq(RawKey)
    BY Lists, BoundsAssumption DEF Keys
  <2> QED
    BY <2>1, Dedup
<1>4. text.lines \in Seq(Range(text.lines))
  BY DEF BlockInv
<1> HIDE DEF N, T
<1>5. HasBlock(T, p, N, q) /\ (Added(T, text.lines, p, q) \/ Exchanged(T, text.lines, p, Len(N), q))
  BY <1>2 DEF Updated, N
<1>6. Sealed(T)
  <2> HIDE DEF NK
  <2> QED
    BY <1>3, <1>4, <1>5, SealedUpdated
<1>7. \A i \in 1 .. Len(T) : IsLine(T[i])
  <2>1. \A i \in 1 .. Len(text.lines) : IsLine(text.lines[i])
    BY DEF BlockInv, TypeOK
  <2> QED
    BY <1>3, <1>4, <1>5, <2>1, LinesUpdated
<1>8. applied' = keys /\ result' = "ok" /\ mine' = mine /\ edits' = edits
  BY DEF Apply
<1>9. TypeOK'
  <2>1. mine \subseteq UserLine /\ edits \in 0 .. MaxEdits
    BY DEF BlockInv, TypeOK
  <2>2. /\ text' = [lines |-> text'.lines, nl |-> text'.nl] /\ text'.nl \in BOOLEAN
        /\ Len(text'.lines) <= MaxLines /\ \A i \in 1 .. Len(text'.lines) : IsLine(text'.lines[i])
    BY <1>1, <1>7 DEF T
  <2> QED
    BY <1>8, <2>1, <2>2 DEF TypeOK, Keys, IsLine, Line
<1>10. Fresh'
  BY <1>2, <1>5, <1>8 DEF Fresh, T, N
<1> QED
  BY <1>1, <1>6, <1>9, <1>10 DEF BlockInv, T, Sealed

\* The owner's edits leave a text of lines with its blocks sealed.
LEMMA EditKeeps ==
    ASSUME BlockInv, Edited, NEW s, NEW X, s \in Seq(X), Len(s) <= MaxLines,
           \A i \in 1 .. Len(s) : IsLine(s[i]), Sealed(s),
           text'.lines = s, text'.nl \in BOOLEAN, text' = [lines |-> text'.lines, nl |-> text'.nl],
           mine' \subseteq UserLine
    PROVE  BlockInv'
<1>1. applied' = applied /\ result' = "edited" /\ edits' \in 0 .. MaxEdits
  BY BoundsAssumption DEF BlockInv, TypeOK, Edited
<1>2. s \in Seq(Range(s))
  BY OwnRange
<1>3. applied \in Keys
  BY DEF BlockInv, TypeOK
<1>4. TypeOK'
  BY <1>1, <1>3 DEF TypeOK, Keys, IsLine, Line
<1> QED
  BY <1>1, <1>2, <1>4 DEF BlockInv, Sealed, Fresh

LEMMA NotMarker == \A v : OwnerLine(v) \notin {BEGIN, END}
  BY DEF OwnerLine, BEGIN, END

LEMMA InsertLineKeeps ==
    ASSUME BlockInv, NEW u \in UserLine, InsertLine(u)
    PROVE  BlockInv'
<1> DEFINE s == text.lines
           X == Range(s) \cup {OwnerLine(u)}
<1>1. PICK i \in Outside(s) : text' = Saved(InsertAt(s, i, OwnerLine(u)))
  BY DEF InsertLine
<1> DEFINE t == InsertAt(s, i, OwnerLine(u))
<1>2. s \in Seq(Range(s)) /\ Sealed(s) /\ \A j \in 1 .. Len(s) : IsLine(s[j])
  BY DEF BlockInv, TypeOK
<1>3. s \in Seq(X) /\ OwnerLine(u) \in X /\ Len(s) \in Nat
  BY <1>2
<1>4. i \in 1 .. Len(s) + 1
  BY DEF Outside
<1>5. Len(s) < MaxLines /\ Edited /\ mine' = mine \cup {u}
  BY DEF InsertLine
<1> HIDE DEF s, X
<1>6. t \in Seq(X) /\ Gained(t, s, i, OwnerLine(u))
  BY <1>3, <1>4, Insertion
<1> HIDE DEF t
<1>7. Sealed(t)
  <2>1. OwnerLine(u) \notin {BEGIN, END}
    BY NotMarker
  <2> QED
    BY <1>2, <1>3, <1>6, <2>1, SealedInserted
<1>8. Len(t) = Len(s) + 1 /\ Len(t) <= MaxLines
  BY <1>3, <1>5, <1>6, BoundsAssumption DEF Gained
<1>9. ASSUME NEW j \in 1 .. Len(t) PROVE IsLine(t[j])
  <2>1. CASE j < i
    <3>1. j \in 1 .. i - 1 /\ j \in 1 .. Len(s)
      BY <1>3, <1>4, <2>1
    <3>2. t[j] = s[j]
      BY <1>6, <3>1 DEF Gained
    <3> QED
      BY <1>2, <3>1, <3>2
  <2>2. CASE j = i
    <3>1. t[j] = OwnerLine(u)
      BY <1>6, <2>2 DEF Gained
    <3> QED
      BY <3>1 DEF IsLine, Line
  <2>3. CASE j > i
    <3>1. j - 1 \in i .. Len(s) /\ j - 1 \in 1 .. Len(s) /\ (j - 1) + 1 = j
      BY <1>3, <1>4, <1>8, <2>3
    <3>2. t[(j - 1) + 1] = s[j - 1]
      BY <1>6, <3>1 DEF Gained
    <3> QED
      BY <1>2, <3>1, <3>2
  <2> QED
    BY <1>4, <2>1, <2>2, <2>3
<1>10. /\ text'.lines = t /\ text'.nl \in BOOLEAN
       /\ text' = [lines |-> text'.lines, nl |-> text'.nl]
  BY <1>1 DEF Saved, t
<1>11. mine' \subseteq UserLine
  BY <1>5 DEF BlockInv, TypeOK
<1> QED
  BY <1>5, <1>6, <1>7, <1>8, <1>9, <1>10, <1>11, EditKeeps

LEMMA DeleteLineKeeps ==
    ASSUME BlockInv, NEW u \in UserLine, DeleteLine(u)
    PROVE  BlockInv'
<1> DEFINE s == text.lines
           X == Range(s)
           t == without(s, OwnerLine(u))
<1>1. text' = Saved(t) /\ Edited /\ mine' = mine \ {u}
  BY DEF DeleteLine
<1>2. s \in Seq(X) /\ Sealed(s) /\ (\A j \in 1 .. Len(s) : IsLine(s[j])) /\ Len(s) <= MaxLines
  BY DEF BlockInv, TypeOK
<1> HIDE DEF s, X
<1>3. /\ t \in Seq(X) /\ Len(t) <= Len(s)
      /\ \E h : /\ Embeds(h, t, s)
                /\ \A i \in 1 .. Len(s) : s[i] # OwnerLine(u) => \E a \in 1 .. Len(t) : h[a] = i
  <2>1. s \in Seq(X)
    BY <1>2
  <2> QED
    BY <2>1, Without
<1> HIDE DEF t
<1>4. PICK h : /\ Embeds(h, t, s)
               /\ \A i \in 1 .. Len(s) : s[i] # OwnerLine(u) => \E a \in 1 .. Len(t) : h[a] = i
  BY <1>3
<1>5. OwnerLine(u) # END
  BY NotMarker
<1>6. Sealed(t)
  <2>1. \A j \in 1 .. Len(s) : s[j] = END => \E a \in 1 .. Len(t) : h[a] = j
    BY <1>4, <1>5
  <2> QED
    BY <1>2, <1>3, <1>4, <2>1, SealedThinned
<1>7. Len(t) \in Nat /\ Len(s) \in Nat /\ Len(t) <= MaxLines
  BY <1>2, <1>3, BoundsAssumption
<1>8. \A j \in 1 .. Len(t) : IsLine(t[j])
  BY <1>2, <1>4 DEF Embeds
<1>9. /\ text'.lines = t /\ text'.nl \in BOOLEAN
      /\ text' = [lines |-> text'.lines, nl |-> text'.nl]
  BY <1>1 DEF Saved
<1>10. mine' \subseteq UserLine
  BY <1>1 DEF BlockInv, TypeOK
<1> QED
  BY <1>1, <1>3, <1>6, <1>7, <1>8, <1>9, <1>10, EditKeeps

\* The lines without one of them.
LEMMA LostEmbeds ==
    ASSUME NEW X, NEW s \in Seq(X), NEW t \in Seq(X), NEW i \in 1 .. Len(s), Lost(t, s, i)
    PROVE  \E h : /\ Embeds(h, t, s)
                  /\ \A j \in 1 .. Len(s) : j # i => \E a \in 1 .. Len(t) : h[a] = j
<1> DEFINE n == Len(s)
           h == [j \in 1 .. Len(t) |-> IF j < i THEN j ELSE j + 1]
<1>1. n \in Nat /\ i \in 1 .. n /\ Len(t) = n - 1
  BY DEF Lost
<1>2. (\A j \in 1 .. i - 1 : t[j] = s[j]) /\ \A j \in i .. n - 1 : t[j] = s[j + 1]
  BY DEF Lost
<1> HIDE DEF n
<1>3. h \in [1 .. Len(t) -> 1 .. n] /\ \A a, b \in 1 .. Len(t) : a < b => h[a] < h[b]
  BY <1>1
<1>4. ASSUME NEW a \in 1 .. Len(t) PROVE t[a] = s[h[a]]
  <2>1. CASE a < i
    <3>1. a \in 1 .. i - 1 /\ h[a] = a
      BY <1>1, <2>1
    <3> QED
      BY <1>2, <3>1
  <2>2. CASE i <= a
    <3>1. a \in i .. n - 1 /\ h[a] = a + 1
      BY <1>1, <2>2
    <3> QED
      BY <1>2, <3>1
  <2> QED
    BY <1>1, <2>1, <2>2
<1>5. ASSUME NEW j \in 1 .. n, j # i PROVE \E a \in 1 .. Len(t) : h[a] = j
  <2>1. CASE j < i
    <3>1. j \in 1 .. Len(t) /\ h[j] = j
      BY <1>1, <2>1
    <3> QED
      BY <3>1
  <2>2. CASE i < j
    <3>1. j - 1 \in 1 .. Len(t) /\ h[j - 1] = j
      BY <1>1, <2>2
    <3> QED
      BY <3>1
  <2> QED
    BY <1>1, <1>5, <2>1, <2>2
<1>6. Embeds(h, t, s)
  BY <1>3, <1>4 DEF Embeds, n
<1> HIDE DEF h
<1> QED
  BY <1>5, <1>6 DEF n

\* What DeleteMarker does: all lines but one marker stay.
LEMMA MarkerDeleted ==
    ASSUME BlockInv, NEW marker \in {BEGIN, END}, DeleteMarker(marker)
    PROVE  LET s == text.lines
               t == text'.lines
           IN  /\ t \in Seq(Range(s)) /\ Len(t) <= Len(s)
               /\ text'.nl \in BOOLEAN /\ text' = [lines |-> t, nl |-> text'.nl]
               /\ \E h : /\ Embeds(h, t, s)
                         /\ \A j \in 1 .. Len(s) : s[j] # marker => \E a \in 1 .. Len(t) : h[a] = j
               /\ marker = END => \A a \in 1 .. Len(t) : t[a] # END
<1> DEFINE s == text.lines
           i == position(s, marker)
           t == RemoveAt(s, i)
<1>1. s \in Seq(Range(s))
  BY DEF BlockInv
<1>2. FirstAt(s, marker, i)
  <2>1. Positions(s, marker) # {}
    BY DEF DeleteMarker
  <2> HIDE DEF s
  <2> QED
    BY <1>1, <2>1, FirstPosition
<1>3. text' = Saved(t)
  BY DEF DeleteMarker
<1>4. i \in 1 .. Len(s) /\ s[i] = marker
  BY <1>2 DEF FirstAt
<1> HIDE DEF s, i
<1>5. t \in Seq(Range(s)) /\ Lost(t, s, i)
  BY <1>1, <1>4, Removal
<1> HIDE DEF t
<1>6. PICK h : /\ Embeds(h, t, s)
               /\ \A j \in 1 .. Len(s) : j # i => \E a \in 1 .. Len(t) : h[a] = j
  BY <1>1, <1>4, <1>5, LostEmbeds
<1>7. Len(t) <= Len(s)
  BY <1>1, <1>5 DEF Lost
<1>8. \A j \in 1 .. Len(s) : s[j] # marker => \E a \in 1 .. Len(t) : h[a] = j
  BY <1>4, <1>6
<1>9. text'.lines = t /\ text'.nl \in BOOLEAN /\ text' = [lines |-> t, nl |-> text'.nl]
  BY <1>3 DEF Saved
<1>10. ASSUME marker = END, NEW a \in 1 .. Len(t), t[a] = END PROVE FALSE
  <2>1. InOrder(s)
    BY <1>10 DEF DeleteMarker, s
  <2>2. \A j \in 1 .. Len(s) : s[j] = END => j = i
    <3>1. i \in Positions(s, END)
      BY <1>4, <1>10 DEF Positions
    <3>2. PICK e : Positions(s, END) = {e}
      BY <2>1, <3>1 DEF InOrder
    <3> QED
      BY <3>1, <3>2 DEF Positions
  <2>3. Len(s) \in Nat /\ i \in Nat /\ a \in Nat /\ Len(t) = Len(s) - 1
    BY <1>1, <1>4, <1>5 DEF Lost
  <2>4. CASE a < i
    <3>1. a \in 1 .. i - 1 /\ a \in 1 .. Len(s) /\ a # i
      BY <2>3, <2>4
    <3> QED
      BY <1>5, <1>10, <2>2, <3>1 DEF Lost
  <2>5. CASE i <= a
    <3>1. a \in i .. Len(s) - 1 /\ a + 1 \in 1 .. Len(s) /\ a + 1 # i
      BY <2>3, <2>5
    <3> QED
      BY <1>5, <1>10, <2>2, <3>1 DEF Lost
  <2> QED
    BY <2>3, <2>4, <2>5
<1> QED
  BY <1>5, <1>6, <1>7, <1>8, <1>9, <1>10 DEF s

LEMMA DeleteMarkerKeeps ==
    ASSUME BlockInv, NEW marker \in {BEGIN, END}, DeleteMarker(marker)
    PROVE  BlockInv'
<1> DEFINE s == text.lines
           X == Range(s)
           t == text'.lines
<1>1. Edited /\ mine' = mine
  BY DEF DeleteMarker
<1>2. s \in Seq(X) /\ Sealed(s) /\ (\A j \in 1 .. Len(s) : IsLine(s[j])) /\ Len(s) <= MaxLines
  BY DEF BlockInv, TypeOK
<1>3. /\ t \in Seq(X) /\ Len(t) <= Len(s)
      /\ text'.nl \in BOOLEAN /\ text' = [lines |-> t, nl |-> text'.nl]
  BY MarkerDeleted
<1>4. PICK h : /\ Embeds(h, t, s)
               /\ \A j \in 1 .. Len(s) : s[j] # marker => \E a \in 1 .. Len(t) : h[a] = j
  BY MarkerDeleted
<1> HIDE DEF s, X, t
<1>5. Sealed(t)
  <2>1. CASE marker = BEGIN
    <3>1. \A j \in 1 .. Len(s) : s[j] = END => \E a \in 1 .. Len(t) : h[a] = j
      BY <1>4, <2>1 DEF BEGIN, END
    <3> QED
      BY <1>2, <1>3, <1>4, <3>1, SealedThinned
  <2>2. CASE marker = END
    <3>1. \A a \in 1 .. Len(t) : t[a] # END
      BY <2>2, MarkerDeleted DEF t
    <3> QED
      BY <3>1 DEF Sealed, FirstAt
  <2> QED
    BY <2>1, <2>2
<1>6. Len(t) \in Nat /\ Len(s) \in Nat /\ Len(t) <= MaxLines
  BY <1>2, <1>3, BoundsAssumption
<1>7. \A j \in 1 .. Len(t) : IsLine(t[j])
  BY <1>2, <1>4 DEF Embeds
<1>8. mine' \subseteq UserLine
  BY <1>1 DEF BlockInv, TypeOK
<1> QED
  BY <1>1, <1>3, <1>5, <1>6, <1>7, <1>8, EditKeeps DEF t

LEMMA AppendLineKeeps ==
    ASSUME BlockInv, NEW u \in UserLine, AppendLine(u)
    PROVE  BlockInv'
<1> DEFINE s == text.lines
           t == text'.lines
<1>1. s \in Seq(Range(s)) /\ Sealed(s) /\ \A j \in 1 .. Len(s) : IsLine(s[j])
  BY DEF BlockInv, TypeOK
<1>2. Len(s) < MaxLines /\ Edited /\ mine' = mine \cup {u} /\ Len(s) \in Nat
  BY <1>1 DEF AppendLine
<1>3. /\ t = IF text.nl \/ s = <<>> THEN Append(s, OwnerLine(u))
             ELSE Append(Front(s), Glued(Last(s), OwnerLine(u)))
      /\ text'.nl \in BOOLEAN /\ text' = [lines |-> t, nl |-> text'.nl]
  BY DEF AppendLine
<1> HIDE DEF s, t
<1>4. ASSUME NEW n \in Nat, n <= Len(s), NEW x, IsLine(x), x \notin {BEGIN, END},
             NEW X, t \in Seq(X), s \in Seq(X), Len(t) = n + 1, t[n + 1] = x,
             \A i \in 1 .. n : t[i] = s[i]
      PROVE  BlockInv'
  <2>1. Sealed(t)
    BY <1>1, <1>4, SealedExtended
  <2>2. Len(t) <= MaxLines
    BY <1>2, <1>4, BoundsAssumption
  <2>3. ASSUME NEW j \in 1 .. Len(t) PROVE IsLine(t[j])
    <3>1. j \in 1 .. n \/ j = n + 1
      BY <1>4
    <3>2. CASE j \in 1 .. n
      BY <1>1, <1>2, <1>4, <3>2
    <3>3. CASE j = n + 1
      BY <1>4, <3>3
    <3> QED
      BY <3>1, <3>2, <3>3
  <2>4. mine' \subseteq UserLine
    BY <1>2 DEF BlockInv, TypeOK
  <2> QED
    BY <1>2, <1>3, <1>4, <2>1, <2>2, <2>3, <2>4, EditKeeps DEF t
<1>5. CASE text.nl \/ s = <<>>
  <2> DEFINE x == OwnerLine(u)
             X == Range(s) \cup {x}
  <2>1. IsLine(x) /\ x \notin {BEGIN, END}
    BY NotMarker DEF IsLine, Line
  <2>2. t = Append(s, x)
    BY <1>3, <1>5
  <2>3. s \in Seq(X) /\ x \in X
    BY <1>1
  <2> HIDE DEF x, X
  <2>4. /\ t \in Seq(X) /\ Len(t) = Len(s) + 1 /\ t[Len(s) + 1] = x
        /\ \A i \in 1 .. Len(s) : t[i] = s[i]
    BY <2>2, <2>3
  <2>5. Len(s) <= Len(s)
    BY <1>2
  <2> QED
    BY <1>2, <1>4, <2>1, <2>3, <2>4, <2>5
<1>6. CASE ~(text.nl \/ s = <<>>)
  <2> DEFINE x == Glued(Last(s), OwnerLine(u))
             X == Range(s) \cup {x}
             n == Len(s) - 1
             f == Front(s)
  <2>1. IsLine(x) /\ x \notin {BEGIN, END}
    BY DEF IsLine, Glued, BEGIN, END
  <2>2. t = Append(f, x)
    BY <1>3, <1>6
  <2>3. s \in Seq(X) /\ x \in X
    BY <1>1
  <2> HIDE DEF x, X
  <2>4. Len(s) \in 1 .. Len(s) + 1 /\ n \in Nat /\ n <= Len(s)
    <3>1. Len(s) # 0
      BY <1>1, <1>6
    <3> QED
      BY <1>2, <3>1
  <2>5. f \in Seq(X) /\ Len(f) = n /\ \A i \in 1 .. n : f[i] = s[i]
    BY <2>3, <2>4, Cut, ZenonT(40) DEF Front
  <2> HIDE DEF f, n
  <2>6. /\ t \in Seq(X) /\ Len(t) = n + 1 /\ t[n + 1] = x
        /\ \A i \in 1 .. n : t[i] = s[i]
    BY <2>2, <2>3, <2>5
  <2> QED
    BY <1>4, <2>1, <2>3, <2>4, <2>6
<1> QED
  BY <1>5, <1>6

LEMMA FailureKeeps ==
    ASSUME BlockInv, NEW keys \in Keys, ApplyInvalidKey(keys) \/ ApplyMissingEnd(keys)
    PROVE  BlockInv'
<1>1. /\ UNCHANGED <<text, mine, applied, edits>>
      /\ result' \in {"InvalidPublicKey", "MissingManagedEnd"}
  BY DEF ApplyInvalidKey, ApplyMissingEnd
<1> QED
  BY <1>1 DEF BlockInv, TypeOK, Sealed, Fresh, Keys, IsLine, Line

LEMMA BlockStep == BlockInv /\ [Next]_vars => BlockInv'
<1> SUFFICES ASSUME BlockInv, [Next]_vars PROVE BlockInv'
  OBVIOUS
<1>1. ASSUME NEW keys \in Keys, Apply(keys) PROVE BlockInv'
  BY <1>1, ApplyKeeps
<1>2. ASSUME NEW keys \in Keys, ApplyInvalidKey(keys) \/ ApplyMissingEnd(keys) PROVE BlockInv'
  BY <1>2, FailureKeeps
<1>3. ASSUME NEW u \in UserLine, InsertLine(u) PROVE BlockInv'
  BY <1>3, InsertLineKeeps
<1>4. ASSUME NEW u \in UserLine, DeleteLine(u) PROVE BlockInv'
  BY <1>4, DeleteLineKeeps
<1>5. ASSUME NEW u \in UserLine, AppendLine(u) PROVE BlockInv'
  BY <1>5, AppendLineKeeps
<1>6. ASSUME NEW marker \in {BEGIN, END}, DeleteMarker(marker) PROVE BlockInv'
  BY <1>6, DeleteMarkerKeeps
<1>7. CASE UNCHANGED vars
  BY <1>7 DEF vars, BlockInv, TypeOK, Sealed, Fresh, Keys, IsLine, Line
<1> QED
  BY <1>1, <1>2, <1>3, <1>4, <1>5, <1>6, <1>7 DEF Next

LEMMA BlockAlways == Spec => []BlockInv
<1> QED
  BY Initial, BlockStep, PTL DEF Spec

-----------------------------------------------------------------------------
(* Theorems                                                                *)

\* The state keeps its type: the text is made of lines of known kinds and
\* no longer than MaxLines, whatever updates (upsert_managed_block,
\* authorized_keys.rs) and edits make of it.
THEOREM BlockTypes == Spec => []TypeOK
<1>1. BlockInv => TypeOK
  BY DEF BlockInv
<1> QED
  BY <1>1, BlockAlways, PTL

\* upsert_managed_block: an update that succeeds has put every key it was
\* given into the file, however many keys and lines there are and wherever
\* the markers stand.
THEOREM UpdateIsComplete == Spec => []KeysPresent
<1>1. BlockInv => KeysPresent
  <2> SUFFICES ASSUME BlockInv, result = "ok", NEW k \in Range(applied)
               PROVE  Contains(text.lines, KeyLine(k))
    BY DEF KeysPresent
  <2>1. applied \in Seq(RawKey)
    <3>1. applied \in Keys
      BY DEF BlockInv, TypeOK
    <3> QED
      BY <3>1, Lists, BoundsAssumption DEF Keys
  <2>2. PICK p, q \in 0 .. Len(text.lines) :
            HasBlock(text.lines, p, normalize_and_dedup(applied), q)
    BY DEF BlockInv, Fresh
  <2> QED
    BY <2>1, <2>2, KeysUpdated
<1> QED
  BY <1>1, BlockAlways, PTL

\* README: "updates are idempotent": reapplying the keys to a text with its
\* markers in order gives the same lines.
THEOREM UpdateIsIdempotent == Spec => []Idempotent
<1>1. BlockInv => Idempotent
  <2> SUFFICES ASSUME BlockInv, result = "ok", InOrder(text.lines)
               PROVE  upsert_managed_block(text.lines, applied) = text.lines
    BY DEF Idempotent
  <2>1. applied \in Seq(RawKey) /\ text.lines \in Seq(Range(text.lines))
    <3>1. applied \in Keys /\ text.lines \in Seq(Range(text.lines))
      BY DEF BlockInv, TypeOK
    <3> QED
      BY <3>1, Lists, BoundsAssumption DEF Keys
  <2>2. PICK p, q \in 0 .. Len(text.lines) :
            HasBlock(text.lines, p, normalize_and_dedup(applied), q)
    BY DEF BlockInv, Fresh
  <2> QED
    BY <2>1, <2>2, SecondUpdate
<1> QED
  BY <1>1, BlockAlways, PTL

\* A step that is none of the owner's changes leaves the owner's lines there.
LEMMA OwnersSurvive ==
    ASSUME BlockInv, Next, mine' = mine, NEW l \in Range(text.lines), l[1] \in {"owner", "glued"}
    PROVE  Contains(text'.lines, l)
<1>1. text.lines \in Seq(Range(text.lines)) /\ Sealed(text.lines)
  BY DEF BlockInv
<1>2. PICK i \in 1 .. Len(text.lines) : text.lines[i] = l
  BY <1>1 DEF Range
<1>3. ASSUME NEW keys \in Keys, Apply(keys) PROVE Contains(text'.lines, l)
  <2> DEFINE N == normalize_and_dedup(keys)
             NK == {normalize_public_key(r) : r \in RawKey}
  <2>1. PICK p, q \in 0 .. Len(text'.lines) : Updated(text'.lines, text.lines, keys, p, q)
    BY <1>3, ApplyUpdates
  <2>2. N \in Seq(NK)
    <3>1. keys \in Seq(RawKey)
      BY Lists, BoundsAssumption DEF Keys
    <3> QED
      BY <3>1, Dedup
  <2> HIDE DEF N, NK
  <2>3. /\ HasBlock(text'.lines, p, N, q)
        /\ Added(text'.lines, text.lines, p, q) \/ Exchanged(text'.lines, text.lines, p, Len(N), q)
    BY <2>1 DEF Updated, N
  <2> QED
    BY <1>1, <2>2, <2>3, OwnerUpdated
<1>4. ASSUME NEW keys \in Keys, ApplyInvalidKey(keys) \/ ApplyMissingEnd(keys)
      PROVE  Contains(text'.lines, l)
  <2>1. text' = text
    BY <1>4 DEF ApplyInvalidKey, ApplyMissingEnd
  <2> QED
    BY <1>2, <2>1 DEF Contains
<1>5. ASSUME NEW u \in UserLine, InsertLine(u) \/ DeleteLine(u) \/ AppendLine(u)
      PROVE  Contains(text'.lines, l)
  <2>1. mine' # mine
    BY <1>5 DEF InsertLine, DeleteLine, AppendLine
  <2> QED
    BY <2>1
<1>6. ASSUME NEW marker \in {BEGIN, END}, DeleteMarker(marker) PROVE Contains(text'.lines, l)
  <2>1. PICK h : /\ Embeds(h, text'.lines, text.lines)
                 /\ \A j \in 1 .. Len(text.lines) : text.lines[j] # marker =>
                       \E a \in 1 .. Len(text'.lines) : h[a] = j
    BY <1>6, MarkerDeleted
  <2>2. l # marker
    BY DEF BEGIN, END
  <2>3. PICK a \in 1 .. Len(text'.lines) : h[a] = i
    BY <1>2, <2>1, <2>2
  <2>4. text'.lines[a] = l
    BY <1>2, <2>1, <2>3 DEF Embeds
  <2> QED
    BY <2>4 DEF Contains
<1> QED
  BY <1>3, <1>4, <1>5, <1>6 DEF Next

\* README: "user-managed lines outside this block are preserved": no update,
\* successful or failed, loses a line of the owner, whichever marker the owner
\* removed before.
THEOREM OwnerLinesSurvive == Spec => UpdateKeepsOwnerLines
<1> DEFINE Kept == mine' = mine =>
              \A l \in Range(text.lines) : l[1] \in {"owner", "glued"} => Contains(text'.lines, l)
<1>1. BlockInv /\ [Next]_vars => [Kept]_vars
  BY OwnersSurvive
<1> QED
  BY <1>1, BlockAlways, PTL DEF Spec, UpdateKeepsOwnerLines

\* The owner's shell would glue a line to the last one.
Glues == \E u \in UserLine : AppendLine(u) /\ ~(text.nl \/ text.lines = <<>>)

\* No other step loses a line that the owner wrote.
LEMMA OwnerStep ==
    ASSUME BlockInv, OwnerLinesKept, Next, ~Glues
    PROVE  OwnerLinesKept'
<1> SUFFICES ASSUME NEW v \in mine' PROVE Contains(text'.lines, OwnerLine(v))
  BY DEF OwnerLinesKept
<1> DEFINE s == text.lines
           t == text'.lines
           x == OwnerLine(v)
<1>1. s \in Seq(Range(s)) /\ Len(s) \in Nat
  BY DEF BlockInv
<1>2. v \in mine => \E i \in 1 .. Len(s) : s[i] = x
  BY DEF OwnerLinesKept, Contains
<1>3. CASE mine' = mine
  <2>1. PICK i \in 1 .. Len(s) : s[i] = x
    BY <1>2, <1>3
  <2>2. x \in Range(s) /\ x[1] = "owner"
    BY <1>1, <2>1 DEF Range, OwnerLine
  <2> QED
    BY <1>3, <2>2, OwnersSurvive
<1>4. ASSUME NEW u \in UserLine, InsertLine(u) PROVE Contains(t, x)
  <2>1. PICK i \in Outside(s) : text' = Saved(InsertAt(s, i, OwnerLine(u)))
    BY <1>4 DEF InsertLine
  <2> DEFINE X == Range(s) \cup {OwnerLine(u)}
  <2>2. s \in Seq(X) /\ OwnerLine(u) \in X /\ i \in 1 .. Len(s) + 1
    BY <1>1 DEF Outside
  <2>3. t = InsertAt(s, i, OwnerLine(u)) /\ mine' = mine \cup {u}
    BY <1>4, <2>1 DEF Saved, InsertLine
  <2> HIDE DEF s, t, X
  <2>4. Gained(t, s, i, OwnerLine(u))
    BY <2>2, <2>3, Insertion
  <2>5. CASE v = u
    <3>1. i \in 1 .. Len(t) /\ t[i] = x
      BY <1>1, <2>2, <2>4, <2>5 DEF Gained
    <3> QED
      BY <3>1 DEF Contains
  <2>6. CASE v # u
    <3>1. PICK j \in 1 .. Len(s) : s[j] = x
      BY <1>2, <2>3, <2>6
    <3>2. CASE j < i
      <4>1. j \in 1 .. i - 1 /\ j \in 1 .. Len(t)
        BY <1>1, <2>2, <2>4, <3>2 DEF Gained
      <4> QED
        BY <2>4, <3>1, <4>1 DEF Gained, Contains
    <3>3. CASE i <= j
      <4>1. j \in i .. Len(s) /\ j + 1 \in 1 .. Len(t)
        BY <1>1, <2>2, <2>4, <3>3 DEF Gained
      <4> QED
        BY <2>4, <3>1, <4>1 DEF Gained, Contains
    <3> QED
      BY <2>2, <3>2, <3>3
  <2> QED
    BY <2>5, <2>6
<1>5. ASSUME NEW u \in UserLine, DeleteLine(u) PROVE Contains(t, x)
  <2>1. t = without(s, OwnerLine(u)) /\ mine' = mine \ {u}
    BY <1>5 DEF DeleteLine, Saved
  <2>2. PICK j \in 1 .. Len(s) : s[j] = x
    BY <1>2, <2>1
  <2>3. x # OwnerLine(u)
    BY <2>1 DEF OwnerLine
  <2> HIDE DEF s, t, x
  <2>4. PICK h : /\ Embeds(h, t, s)
                 /\ \A i \in 1 .. Len(s) : s[i] # OwnerLine(u) => \E a \in 1 .. Len(t) : h[a] = i
    BY <1>1, <2>1, Without
  <2>5. PICK a \in 1 .. Len(t) : h[a] = j
    BY <2>2, <2>3, <2>4
  <2> QED
    BY <2>2, <2>4, <2>5 DEF Embeds, Contains
<1>6. ASSUME NEW u \in UserLine, AppendLine(u) PROVE Contains(t, x)
  <2> DEFINE X == Range(s) \cup {OwnerLine(u)}
  <2>1. t = Append(s, OwnerLine(u)) /\ mine' = mine \cup {u}
    BY <1>6 DEF Glues, AppendLine
  <2>2. s \in Seq(X) /\ OwnerLine(u) \in X
    BY <1>1
  <2> HIDE DEF s, t, X
  <2>3. /\ Len(t) = Len(s) + 1 /\ t[Len(s) + 1] = OwnerLine(u)
        /\ \A i \in 1 .. Len(s) : t[i] = s[i]
    BY <2>1, <2>2
  <2>4. CASE v = u
    <3>1. Len(s) + 1 \in 1 .. Len(t)
      BY <1>1, <2>3
    <3> QED
      BY <2>3, <2>4, <3>1 DEF Contains
  <2>5. CASE v # u
    <3>1. PICK j \in 1 .. Len(s) : s[j] = x
      BY <1>2, <2>1, <2>5
    <3>2. j \in 1 .. Len(t)
      BY <1>1, <2>3
    <3> QED
      BY <2>3, <3>1, <3>2 DEF Contains
  <2> QED
    BY <2>4, <2>5
<1>7. mine' = mine \/ \E u \in UserLine : InsertLine(u) \/ DeleteLine(u) \/ AppendLine(u)
  BY DEF Next, Apply, ApplyInvalidKey, ApplyMissingEnd, DeleteMarker
<1> QED
  BY <1>3, <1>4, <1>5, <1>6, <1>7

\* README: "user-managed lines outside this block are preserved".  An owner who
\* uses an editor finds every line that was written and not removed, whatever
\* updates came in between and whichever marker is removed: the newline
\* that upsert_managed_block leaves out at the end of the text is all that can
\* cost a line, and only one that a shell appends.
THEOREM EditorsKeepLines ==
    ASSUME "append" \notin Edit
    PROVE  Spec => []OwnerLinesKept
<1>1. Init => OwnerLinesKept
  <2> SUFFICES ASSUME Init, NEW v \in mine PROVE Contains(text.lines, OwnerLine(v))
    BY DEF OwnerLinesKept
  <2>1. PICK u \in BoundedSeq(UserLine, 2) :
           /\ text = Saved([i \in 1 .. Len(u) |-> OwnerLine(u[i])]) /\ mine = Range(u)
    BY DEF Init
  <2>2. u \in Seq(UserLine)
    BY Lists
  <2> DEFINE s == [i \in 1 .. Len(u) |-> OwnerLine(u[i])]
  <2>3. text.lines = s
    BY <2>1 DEF Saved
  <2>4. PICK i \in 1 .. Len(u) : u[i] = v
    BY <2>1, <2>2 DEF Range
  <2>5. Len(s) = Len(u) /\ s[i] = OwnerLine(v)
    BY <2>2, <2>4
  <2> QED
    BY <2>3, <2>4, <2>5 DEF Contains
<1>2. BlockInv /\ OwnerLinesKept /\ [Next]_vars => OwnerLinesKept'
  <2>1. ~Glues
    BY DEF Glues, AppendLine
  <2>2. ASSUME OwnerLinesKept, UNCHANGED vars PROVE OwnerLinesKept'
    BY <2>2 DEF OwnerLinesKept, vars
  <2> QED
    BY <2>1, <2>2, OwnerStep
<1> QED
  BY <1>1, <1>2, BlockAlways, PTL DEF Spec

\* With every edit allowed, the shell's too: the step that loses a line of the
\* owner's is an append to a text that upsert_managed_block left without a
\* newline at its end, and no other step.
THEOREM OnlyGluingLoses == Spec => [][OwnerLinesKept /\ ~Glues => OwnerLinesKept']_vars
<1>1. BlockInv /\ [Next]_vars => [OwnerLinesKept /\ ~Glues => OwnerLinesKept']_vars
  BY OwnerStep
<1> QED
  BY <1>1, BlockAlways, PTL DEF Spec

\* upsert_managed_block: an update of a text with its markers in order leaves
\* exactly one block, which holds the keys of this update, each once; a block
\* never nests, doubles or keeps keys of an earlier update.
THEOREM OneBlockOfItsKeys == Spec => BlockIsApplied
<1> DEFINE Block1 ==
          edits' = edits /\ result' = "ok" /\ InOrder(text.lines) =>
              \E b, e \in 1 .. Len(text'.lines) :
                  LET block == SubSeq(text'.lines, b + 1, e - 1)
                  IN  /\ Positions(text'.lines, BEGIN) = {b}
                      /\ Positions(text'.lines, END) = {e}
                      /\ b < e
                      /\ IsInjective(block)
                      /\ Range(block) = {KeyLine(k) : k \in Range(applied')}
<1>1. ASSUME BlockInv, Next PROVE Block1
  <2> SUFFICES ASSUME edits' = edits, result' = "ok", InOrder(text.lines)
               PROVE  \E b, e \in 1 .. Len(text'.lines) :
                  LET block == SubSeq(text'.lines, b + 1, e - 1)
                  IN  /\ Positions(text'.lines, BEGIN) = {b}
                      /\ Positions(text'.lines, END) = {e}
                      /\ b < e
                      /\ IsInjective(block)
                      /\ Range(block) = {KeyLine(k) : k \in Range(applied')}
    OBVIOUS
  <2>1. PICK keys \in Keys : Apply(keys)
    BY <1>1 DEF Next, ApplyInvalidKey, ApplyMissingEnd, InsertLine, DeleteLine, AppendLine,
                DeleteMarker, Edited
  <2> DEFINE T == text'.lines
             N == normalize_and_dedup(keys)
             NK == {normalize_public_key(r) : r \in RawKey}
             n == Len(N)
  <2>2. T \in Seq(Range(T)) /\ text.lines \in Seq(Range(text.lines)) /\ keys \in Seq(RawKey)
    <3>1. T \in Seq(Range(T)) /\ text.lines \in Seq(Range(text.lines))
      BY <1>1, <2>1, ApplyUpdates DEF BlockInv
    <3> QED
      BY <3>1, Lists, BoundsAssumption DEF Keys
  <2>3. PICK p, q \in 0 .. Len(T) : Updated(T, text.lines, keys, p, q)
    BY <1>1, <2>1, ApplyUpdates
  <2>4. N \in Seq(NK)
    BY <2>2, Dedup
  <2> HIDE DEF T, N, NK
  <2>5. /\ HasBlock(T, p, N, q)
        /\ Added(T, text.lines, p, q) \/ Exchanged(T, text.lines, p, Len(N), q)
    BY <2>3 DEF Updated, N
  <2>6. Positions(T, BEGIN) = {p + 1} /\ Positions(T, END) = {p + n + 2}
    <3>1. text.lines \in Seq(Range(text.lines)) /\ HasBlock(T, p, N, q)
      BY <2>2, <2>5
    <3>2. OnlyBlock(T, p, n)
      BY <2>4, <2>5, <3>1, StillOneBlock
    <3> QED
      BY <3>2 DEF OnlyBlock
  <2>7. IsInjective(SubSeq(T, p + 2, p + n + 1))
        /\ Range(SubSeq(T, p + 2, p + n + 1)) = {KeyLine(k) : k \in Range(keys)}
    BY <2>2, <2>5, BlockKeys DEF N
  <2>8. p \in Nat /\ n \in Nat /\ q \in Nat /\ Len(T) = p + n + 2 + q
    BY <2>4, <2>5 DEF HasBlock
  <2> HIDE DEF n
  <2> DEFINE b == p + 1
             e == p + n + 2
  <2>9. /\ b \in 1 .. Len(T) /\ e \in 1 .. Len(T) /\ b < e
        /\ b + 1 = p + 2 /\ e - 1 = p + n + 1
    BY <2>8
  <2>10. applied' = keys
    BY <2>1 DEF Apply
  <2> HIDE DEF b, e
  <2>11. Positions(T, BEGIN) = {b} /\ Positions(T, END) = {e}
    BY <2>6 DEF b, e
  <2>12. IsInjective(SubSeq(T, b + 1, e - 1))
         /\ Range(SubSeq(T, b + 1, e - 1)) = {KeyLine(k) : k \in Range(applied')}
    BY <2>7, <2>9, <2>10
  <2> QED
    BY <2>9, <2>11, <2>12 DEF T
<1>2. BlockInv /\ [Next]_vars => [Block1]_vars
  <2> HIDE DEF Block1
  <2> QED
    BY <1>1
<1> QED
  BY <1>2, BlockAlways, PTL DEF Spec, BlockIsApplied
=============================================================================
