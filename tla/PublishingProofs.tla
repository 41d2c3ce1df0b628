--------------------------- MODULE PublishingProofs ---------------------------
(***************************************************************************)
(* Proofs about Publishing for every number of calls, requests, findings   *)
(* and batches: what GitHub shows of a review is shown once, whole and     *)
(* true, and a call completes a review only under its own approval.        *)
(***************************************************************************)
EXTENDS Publishing, FiniteSetTheorems, TLAPS

-----------------------------------------------------------------------------
(* Sequences built one element after the other.                            *)

\* Induction over an interval, for a set: the smallest prefix of the interval
\* that is not within the set would end at a successor of a member.
LEMMA IntervalInduction ==
    ASSUME NEW N \in Nat, NEW P, 0 \in P,
           \A i \in 1..N : i - 1 \in P => i \in P
    PROVE  \A i \in 0..N : i \in P
  <1> DEFINE D == {i \in 0..N : i \notin P}
             T == {0..i : i \in D}
             U == 0..N
  <1> SUFFICES ASSUME D # {} PROVE FALSE
    OBVIOUS
  <1>1. IsFiniteSet(U)
    BY FS_Interval
  <1>2. T \subseteq FiniteSubsetsOf(U)
    <2> SUFFICES ASSUME NEW i \in D PROVE 0..i \in FiniteSubsetsOf(U)
      OBVIOUS
    <2>1. 0..i \subseteq U /\ IsFiniteSet(0..i)
      BY FS_Interval
    <2> QED BY <2>1 DEF FiniteSubsetsOf
  <1>3. PICK E \in T : \A F \in T : ~(<<F, E>> \in StrictSubsetOrdering(U))
    <2>1. T # {}
      OBVIOUS
    <2> HIDE DEF T, U
    <2> QED BY <1>1, <1>2, <2>1, FS_StrictSubsetOrderingWellFounded, WFMin
  <1>4. PICK i \in D : E = 0..i
    BY <1>3
  <1>5. i # 0 /\ i - 1 \in D
    BY <1>4
  <1>6. /\ 0..(i - 1) \in T /\ 0..(i - 1) \subseteq 0..i
        /\ i \in 0..i /\ i \notin 0..(i - 1)
        /\ 0..i \subseteq U /\ 0..(i - 1) \subseteq U
    BY <1>4, <1>5
  <1> HIDE DEF T, U, D
  <1> QED BY <1>3, <1>4, <1>6 DEF StrictSubsetOrdering

Stepwise(f, T, x0, n, step) ==
    /\ f \in [0..n -> T] /\ f[0] = x0
    /\ \A i \in 1..n : f[i] = step[i][f[i - 1]]

\* A function that is defined step by step exists.
LEMMA StepwiseExists ==
    ASSUME NEW T, NEW x0 \in T, NEW N \in Nat,
           NEW step \in [1..N -> [T -> T]]
    PROVE  \E f : Stepwise(f, T, x0, N, step)
  <1> DEFINE Builds(f, n) == Stepwise(f, T, x0, n, step)
             P == {n \in 0..N : \E f : Builds(f, n)}
  <1>1. 0 \in P
    <2> DEFINE h == [i \in 0..0 |-> x0]
    <2>1. h \in [0..0 -> T] /\ h[0] = x0 /\ 1..0 = {}
      OBVIOUS
    <2> HIDE DEF h
    <2>2. Builds(h, 0)
      BY <2>1 DEF Stepwise
    <2> QED BY <2>2
  <1>2. ASSUME NEW n \in 1..N, n - 1 \in P
        PROVE  n \in P
    <2>1. PICK f : Builds(f, n - 1)
      BY <1>2
    <2>1a. /\ f \in [0..(n - 1) -> T] /\ f[0] = x0
           /\ \A i \in 1..(n - 1) : f[i] = step[i][f[i - 1]]
      BY <2>1 DEF Stepwise
    <2> DEFINE y == step[n][f[n - 1]]
               g == [i \in 0..n |-> IF i = n THEN y ELSE f[i]]
    <2>2. n \in Nat /\ n - 1 \in 0..(n - 1) /\ n # 0 /\ f[n - 1] \in T
      BY <2>1a
    <2>3. y \in T
      BY <2>2
    <2>4. \A i \in 0..n : i # n => i \in 0..(n - 1) /\ f[i] \in T
      BY <2>1a, <2>2
    <2> HIDE DEF y
    <2>5. g \in [0..n -> T] /\ g[0] = x0 /\ g[n] = y
      BY <2>1a, <2>2, <2>3, <2>4
    <2>6. ASSUME NEW i \in 1..n
          PROVE  g[i] = step[i][g[i - 1]]
      <3>1. i - 1 \in 0..n /\ i - 1 # n
        BY <2>2
      <3>2. g[i - 1] = f[i - 1]
        BY <3>1
      <3>3. CASE i = n
        BY <2>5, <3>2, <3>3 DEF y
      <3>4. CASE i # n
        <4>1. i \in 1..(n - 1) /\ i \in 0..n
          BY <2>2, <3>4
        <4>2. f[i] = step[i][f[i - 1]] /\ g[i] = f[i]
          BY <2>1a, <3>4, <4>1
        <4> QED BY <3>2, <4>2
      <3> QED BY <3>3, <3>4
    <2> HIDE DEF g
    <2>7. Builds(g, n)
      BY <2>5, <2>6 DEF Stepwise
    <2> QED BY <2>7
  <1> HIDE DEF P
  <1>3. N \in P
    <2>1. \A i \in 0..N : i \in P
      BY <1>1, <1>2, IntervalInduction
    <2> QED BY <2>1
  <1> QED BY <1>3 DEF P

Elements(seq) == {seq[i] : i \in 1..Len(seq)}
Distinct(seq) == \A i, j \in 1..Len(seq) : seq[i] = seq[j] => i = j

LEMMA ElementsAppend ==
    ASSUME NEW S, NEW seq \in Seq(S), NEW x \in S
    PROVE  /\ Append(seq, x) \in Seq(S)
           /\ Elements(Append(seq, x)) = Elements(seq) \union {x}
           /\ Distinct(seq) /\ x \notin Elements(seq) => Distinct(Append(seq, x))
  <1> DEFINE t == Append(seq, x)
  <1>1. /\ t \in Seq(S) /\ Len(t) = Len(seq) + 1 /\ Len(seq) \in Nat
        /\ \A i \in 1..Len(seq) : t[i] = seq[i]
        /\ t[Len(seq) + 1] = x
    OBVIOUS
  <1> HIDE DEF t
  <1>2. \A i \in 1..Len(t) : i \in 1..Len(seq) \/ i = Len(seq) + 1
    BY <1>1
  <1>3. 1..Len(seq) \subseteq 1..Len(t) /\ Len(seq) + 1 \in 1..Len(t)
    BY <1>1
  <1>4. Elements(t) \subseteq Elements(seq) \union {x}
    BY <1>1, <1>2 DEF Elements
  <1>5. Elements(seq) \union {x} \subseteq Elements(t)
    BY <1>1, <1>3 DEF Elements
  <1>6. ASSUME Distinct(seq), x \notin Elements(seq)
        PROVE  Distinct(t)
    <2> SUFFICES ASSUME NEW i \in 1..Len(t), NEW j \in 1..Len(t), t[i] = t[j]
                 PROVE  i = j
      BY DEF Distinct
    <2>1. CASE i \in 1..Len(seq) /\ j \in 1..Len(seq)
      BY <1>1, <1>6, <2>1 DEF Distinct
    <2>2. CASE i = Len(seq) + 1 /\ j = Len(seq) + 1
      BY <2>2
    <2>3. CASE i \in 1..Len(seq) /\ j = Len(seq) + 1
      BY <1>1, <1>6, <2>3 DEF Elements
    <2>4. CASE i = Len(seq) + 1 /\ j \in 1..Len(seq)
      BY <1>1, <1>6, <2>4 DEF Elements
    <2> QED BY <1>2, <2>1, <2>2, <2>3, <2>4
  <1> QED BY <1>1, <1>4, <1>5, <1>6 DEF t

LEMMA ElementsSize ==
    ASSUME NEW S, NEW seq \in Seq(S), Distinct(seq)
    PROVE  /\ IsFiniteSet(Elements(seq)) /\ Cardinality(Elements(seq)) = Len(seq)
           /\ Elements(seq) \subseteq S
  <1> DEFINE f == [i \in 1..Len(seq) |-> seq[i]]
             E == Elements(seq)
             n == Len(seq)
  <1>1. n \in Nat /\ E \subseteq S
    BY DEF Elements
  <1>2. f \in [1..n -> E] /\ \A y \in E : \E i \in 1..n : f[i] = y
    BY DEF Elements
  <1>3. \A i, j \in 1..n : f[i] = f[j] => i = j
    BY DEF Distinct
  <1> HIDE DEF f, E, n
  <1>4. f \in Bijection(1..n, E)
    BY <1>2, <1>3 DEF Bijection, Injection, Surjection, IsInjective
  <1>5. ExistsBijection(1..n, E)
    BY <1>4 DEF ExistsBijection
  <1> QED BY <1>1, <1>5, FS_CountingElements, FS_NatBijection DEF E, n

\* The members of a prefix.
Prefix(seq, n) == {seq[i] : i \in 1..n}

LEMMA PrefixGrows ==
    ASSUME NEW S, NEW seq \in Seq(S), NEW n \in 1..Len(seq)
    PROVE  /\ Prefix(seq, n) = Prefix(seq, n - 1) \union {seq[n]}
           /\ Distinct(seq) => seq[n] \notin Prefix(seq, n - 1)
           /\ seq[n] \in S
  <1>1. n \in Nat /\ \A i \in 1..n : i = n \/ i \in 1..(n - 1)
    OBVIOUS
  <1>2. n \in 1..n /\ 1..(n - 1) \subseteq 1..n /\ n \notin 1..(n - 1)
        /\ 1..n \subseteq 1..Len(seq)
    OBVIOUS
  <1>3. Prefix(seq, n) = Prefix(seq, n - 1) \union {seq[n]}
    BY <1>1, <1>2 DEF Prefix
  <1>4. Distinct(seq) => seq[n] \notin Prefix(seq, n - 1)
    BY <1>2 DEF Prefix, Distinct
  <1> QED BY <1>3, <1>4

\* The chosen members of a sequence.
LEMMA ChosenMembers ==
    ASSUME NEW S, NEW seq \in Seq(S), NEW set
    PROVE  /\ Chosen(seq, set) \in Seq(S)
           /\ Elements(Chosen(seq, set)) = Elements(seq) \cap set
           /\ Distinct(seq) => Distinct(Chosen(seq, set))
  <1>0. PICK N \in Nat : N = Len(seq)
    OBVIOUS
  <1> DEFINE Follows(f) == f = [i \in 0..N |->
                               IF i = 0 THEN <<>>
                               ELSE IF seq[i] \in set THEN Append(f[i - 1], seq[i])
                               ELSE f[i - 1]]
             g == CHOOSE f : Follows(f)
             step == [i \in 1..N |-> [q \in Seq(S) |->
                        IF seq[i] \in set THEN Append(q, seq[i]) ELSE q]]
  <1>1. step \in [1..N -> [Seq(S) -> Seq(S)]]
    <2>1. \A q \in Seq(S) : \A i \in 1..N : Append(q, seq[i]) \in Seq(S)
      BY <1>0
    <2> QED BY <2>1
  <1>2. <<>> \in Seq(S)
    OBVIOUS
  <1>3. PICK f : Stepwise(f, Seq(S), <<>>, N, step)
    <2> DEFINE T == Seq(S)
               x0 == <<>>
    <2> HIDE DEF step, T, x0
    <2>1. step \in [1..N -> [T -> T]] /\ x0 \in T
      BY <1>1, <1>2 DEF T, x0
    <2>2. \E f : Stepwise(f, T, x0, N, step)
      BY <2>1, StepwiseExists
    <2> QED BY <2>2 DEF T, x0
  <1>3a. /\ f \in [0..N -> Seq(S)] /\ f[0] = <<>>
         /\ \A i \in 1..N : f[i] = step[i][f[i - 1]]
    <2> HIDE DEF step
    <2> QED BY <1>3 DEF Stepwise
  <1>4. Follows(f)
    <2>1. ASSUME NEW i \in 1..N
          PROVE  f[i] = IF seq[i] \in set THEN Append(f[i - 1], seq[i])
                        ELSE f[i - 1]
      <3>1. f[i - 1] \in Seq(S) /\ f[i] = step[i][f[i - 1]]
        <4>1. i - 1 \in 0..N
          OBVIOUS
        <4> HIDE DEF step
        <4> QED BY <1>3a, <4>1
      <3> QED BY <3>1
    <2> DEFINE r == [i \in 0..N |->
                       IF i = 0 THEN <<>>
                       ELSE IF seq[i] \in set THEN Append(f[i - 1], seq[i])
                       ELSE f[i - 1]]
    <2>2. ASSUME NEW i \in 0..N PROVE f[i] = r[i]
      <3>1. CASE i = 0
        BY <1>3a, <3>1
      <3>2. CASE i # 0
        <4>1. i \in 1..N
          BY <3>2
        <4> QED BY <2>1, <3>2, <4>1
      <3> QED BY <3>1, <3>2
    <2>3. r = [i \in 0..N |-> r[i]] /\ f = [i \in 0..N |-> f[i]]
      BY <1>3a
    <2> HIDE DEF r
    <2>4. f = r
      BY <2>2, <2>3
    <2> QED BY <2>4 DEF r
  <1>5. Follows(g)
    <2> HIDE DEF Follows
    <2> QED BY <1>4
  <1>6. Chosen(seq, set) = g[N]
    BY <1>0 DEF Chosen
  <1>5a. /\ g[0] = <<>>
         /\ \A n \in 1..N : g[n] = IF seq[n] \in set THEN Append(g[n - 1], seq[n])
                                  ELSE g[n - 1]
    <2> HIDE DEF g
    <2>1. g[0] = <<>>
      BY <1>5
    <2>2. ASSUME NEW n \in 1..N
          PROVE  g[n] = IF seq[n] \in set THEN Append(g[n - 1], seq[n]) ELSE g[n - 1]
      <3>1. n \in 0..N /\ n # 0
        OBVIOUS
      <3> QED BY <1>5, <3>1
    <2> QED BY <2>1, <2>2
  <1> HIDE DEF g, step
  <1> DEFINE P == {n \in 0..N :
                     /\ g[n] \in Seq(S)
                     /\ Elements(g[n]) = Prefix(seq, n) \cap set
                     /\ Distinct(seq) => Distinct(g[n])}
  <1>7. 0 \in P
    <2>1. g[0] = <<>>
      BY <1>5a
    <2>2. Elements(<<>>) = {} /\ Prefix(seq, 0) = {} /\ Distinct(<<>>)
      BY DEF Elements, Prefix, Distinct
    <2>3. 0 \in 0..N
      OBVIOUS
    <2> QED BY <1>2, <2>1, <2>2, <2>3
  <1>8. ASSUME NEW n \in 1..N, n - 1 \in P PROVE n \in P
    <2>1. g[n] = IF seq[n] \in set THEN Append(g[n - 1], seq[n]) ELSE g[n - 1]
      BY <1>5a
    <2>2. /\ Prefix(seq, n) = Prefix(seq, n - 1) \union {seq[n]}
          /\ Distinct(seq) => seq[n] \notin Prefix(seq, n - 1)
          /\ seq[n] \in S
      BY <1>0, PrefixGrows
    <2>3. /\ g[n - 1] \in Seq(S)
          /\ Elements(g[n - 1]) = Prefix(seq, n - 1) \cap set
          /\ Distinct(seq) => Distinct(g[n - 1])
      BY <1>8
    <2>0. n \in 0..N
      OBVIOUS
    <2> HIDE DEF Follows
    <2>4. CASE seq[n] \in set
      <3>1. /\ Append(g[n - 1], seq[n]) \in Seq(S)
            /\ Elements(Append(g[n - 1], seq[n])) = Elements(g[n - 1]) \union {seq[n]}
            /\ Distinct(g[n - 1]) /\ seq[n] \notin Elements(g[n - 1])
                  => Distinct(Append(g[n - 1], seq[n]))
        BY <2>2, <2>3, ElementsAppend
      <3>2. g[n] = Append(g[n - 1], seq[n])
        BY <2>1, <2>4
      <3>3. Distinct(seq) => seq[n] \notin Elements(g[n - 1])
        BY <2>2, <2>3
      <3>4. Elements(g[n]) = Prefix(seq, n) \cap set
        BY <2>2, <2>3, <2>4, <3>1, <3>2
      <3> QED BY <2>0, <2>3, <3>1, <3>2, <3>3, <3>4
    <2>5. CASE seq[n] \notin set
      <3>1. Prefix(seq, n) \cap set = Prefix(seq, n - 1) \cap set
        BY <2>2, <2>5
      <3> QED BY <2>0, <2>1, <2>3, <2>5, <3>1
    <2> QED BY <2>4, <2>5
  <1> HIDE DEF P, Follows
  <1>9. N \in P
    <2>1. \A i \in 0..N : i \in P
      BY <1>7, <1>8, IntervalInduction
    <2> QED BY <2>1
  <1>10. Prefix(seq, N) = Elements(seq)
    BY <1>0 DEF Prefix, Elements
  <1> QED BY <1>6, <1>9, <1>10 DEF P

\* The findings of a sequence of batches.
Members(batches) == UNION {Elements(batches[i]) : i \in 1..Len(batches)}
Disjoint(batches) ==
    \A i, j \in 1..Len(batches) :
        i # j => Elements(batches[i]) \cap Elements(batches[j]) = {}

\* Batches of which the last has taken one more finding, or was opened for it.
Extends(t, b, f) ==
    /\ Len(t) \in Nat \ {0} /\ Len(b) \in Nat
    /\ Len(b) <= Len(t) /\ Len(t) - 1 <= Len(b)
    /\ \A i \in 1..Len(t) :
          /\ i <= Len(b) /\ i # Len(t) => Elements(t[i]) = Elements(b[i])
          /\ i <= Len(b) /\ i = Len(t) => Elements(t[i]) = Elements(b[i]) \union {f}
          /\ i > Len(b) => Elements(t[i]) = {f}

LEMMA ExtendsMembers ==
    ASSUME NEW t, NEW b, NEW f, Extends(t, b, f)
    PROVE  /\ Members(t) = Members(b) \union {f}
           /\ Disjoint(b) /\ f \notin Members(b) => Disjoint(t)
  <1>0. PICK m \in Nat, n \in Nat : m = Len(t) /\ n = Len(b)
    BY DEF Extends
  <1>1. /\ m # 0 /\ n <= m /\ m - 1 <= n
        /\ \A i \in 1..m :
              /\ i <= n /\ i # m => Elements(t[i]) = Elements(b[i])
              /\ i <= n /\ i = m => Elements(t[i]) = Elements(b[i]) \union {f}
              /\ i > n => Elements(t[i]) = {f}
    BY <1>0 DEF Extends
  <1>1a. m # 0 /\ n <= m /\ m - 1 <= n
    BY <1>0 DEF Extends
  <1>2. \A i \in 1..m : i \in 1..n \/ (i = m /\ i > n)
    BY <1>1a
  <1>3. m \in 1..m /\ \A i \in 1..n : i \in 1..m /\ i <= n
    BY <1>1a
  <1>4. f \in Elements(t[m])
    BY <1>1, <1>2, <1>3
  <1>5. \A i \in 1..n : Elements(b[i]) \subseteq Elements(t[i])
    BY <1>1, <1>3
  <1>6. \A i \in 1..m : i \in 1..n => Elements(t[i]) \subseteq Elements(b[i]) \union {f}
    BY <1>1, <1>3
  <1>7. Members(t) \subseteq Members(b) \union {f}
    <2> SUFFICES ASSUME NEW i \in 1..m, NEW x \in Elements(t[i])
                 PROVE  x \in Members(b) \union {f}
      BY <1>0 DEF Members
    <2>1. CASE i \in 1..n
      BY <1>0, <1>6, <2>1 DEF Members
    <2>2. CASE i > n
      BY <1>1, <2>2
    <2> QED BY <1>2, <2>1, <2>2
  <1>8. Members(b) \union {f} \subseteq Members(t)
    BY <1>0, <1>3, <1>4, <1>5 DEF Members
  <1>9. ASSUME Disjoint(b), f \notin Members(b)
        PROVE  Disjoint(t)
    <2>1. \A i, j \in 1..n : i # j => Elements(b[i]) \cap Elements(b[j]) = {}
      BY <1>0, <1>9 DEF Disjoint
    <2>2. \A i \in 1..n : f \notin Elements(b[i])
      BY <1>0, <1>9 DEF Members
    <2>3. ASSUME NEW i \in 1..m, NEW j \in 1..m, i # m, i # j
          PROVE  Elements(t[i]) \cap Elements(t[j]) = {}
      <3>1. i \in 1..n /\ Elements(t[i]) = Elements(b[i])
        BY <1>1, <1>2, <1>3, <2>3
      <3>2. CASE j \in 1..n
        BY <1>6, <2>1, <2>2, <2>3, <3>1, <3>2
      <3>3. CASE j > n
        BY <1>1, <2>2, <3>1, <3>3
      <3> QED BY <1>2, <3>2, <3>3
    <2>4. ASSUME NEW i \in 1..m, NEW j \in 1..m, i # j
          PROVE  Elements(t[i]) \cap Elements(t[j]) = {}
      <3>1. CASE i # m
        BY <2>3, <2>4, <3>1
      <3>2. CASE j # m
        BY <2>3, <2>4, <3>2
      <3> QED BY <2>4, <3>1, <3>2
    <2> QED BY <1>0, <2>4 DEF Disjoint
  <1> QED BY <1>7, <1>8, <1>9

LEMMA AddCommentExtends ==
    ASSUME NEW b \in Seq(Seq(Findings)), NEW f \in Findings
    PROVE  AddComment(b, f) \in Seq(Seq(Findings)) /\ Extends(AddComment(b, f), b, f)
  <1>0. PICK n \in Nat : n = Len(b)
    OBVIOUS
  <1>1. CASE n > 0 /\ Bytes(Append(b[n], f)) <= MaxRequest
    <2> DEFINE q == Append(b[n], f)
               t == [b EXCEPT ![n] = q]
    <2>1. n \in 1..Len(b) /\ b[n] \in Seq(Findings)
      BY <1>0, <1>1
    <2>2. q \in Seq(Findings) /\ Elements(q) = Elements(b[n]) \union {f}
      BY <2>1, ElementsAppend
    <2>3. AddComment(b, f) = t
      BY <1>0, <1>1 DEF AddComment
    <2> HIDE DEF q
    <2>4. /\ t \in Seq(Seq(Findings)) /\ Len(t) = n /\ t[n] = q
          /\ \A i \in 1..n : i # n => t[i] = b[i]
      BY <1>0, <2>1, <2>2
    <2> HIDE DEF t
    <2>5. Extends(t, b, f)
      BY <1>0, <1>1, <2>2, <2>4 DEF Extends
    <2> QED BY <2>3, <2>4, <2>5
  <1>2. CASE ~(n > 0 /\ Bytes(Append(b[n], f)) <= MaxRequest)
    <2> DEFINE t == Append(b, <<f>>)
    <2>1. <<f>> \in Seq(Findings) /\ Elements(<<f>>) = {f}
      <3>1. <<f>> \in Seq(Findings) /\ Len(<<f>>) = 1 /\ <<f>>[1] = f
        OBVIOUS
      <3>2. 1..1 = {1}
        OBVIOUS
      <3> QED BY <3>1, <3>2 DEF Elements
    <2>2. AddComment(b, f) = t
      BY <1>0, <1>2 DEF AddComment
    <2>3. /\ t \in Seq(Seq(Findings)) /\ Len(t) = n + 1 /\ t[n + 1] = <<f>>
          /\ \A i \in 1..n : t[i] = b[i]
      BY <1>0, <2>1
    <2> HIDE DEF t
    <2>4. Extends(t, b, f)
      BY <1>0, <2>1, <2>3 DEF Extends
    <2> QED BY <2>2, <2>3, <2>4
  <1> QED BY <1>1, <1>2

\* The batches hold the findings of the sequence, each once.
LEMMA InlineBatchesMembers ==
    ASSUME NEW seq \in Seq(Findings)
    PROVE  /\ InlineBatches(seq) \in Seq(Seq(Findings))
           /\ Members(InlineBatches(seq)) = Elements(seq)
           /\ Distinct(seq) => Disjoint(InlineBatches(seq))
  <1>0. PICK N \in Nat : N = Len(seq)
    OBVIOUS
  <1> DEFINE T == Seq(Seq(Findings))
             Follows(f) == f = [i \in 0..N |->
                               IF i = 0 THEN <<>> ELSE AddComment(f[i - 1], seq[i])]
             g == CHOOSE f : Follows(f)
             step == [i \in 1..N |-> [q \in T |-> AddComment(q, seq[i])]]
  <1>1. <<>> \in T
    OBVIOUS
  <1> HIDE DEF T
  <1>2. \A i \in 1..N : seq[i] \in Findings
    BY <1>0
  <1>3. step \in [1..N -> [T -> T]]
    <2>1. \A q \in T : \A i \in 1..N : AddComment(q, seq[i]) \in T
      BY <1>2, AddCommentExtends DEF T
    <2> QED BY <2>1
  <1>4. PICK f : Stepwise(f, T, <<>>, N, step)
    <2> DEFINE x0 == <<>>
    <2> HIDE DEF step, x0
    <2>1. x0 \in T
      BY <1>1 DEF x0
    <2>2. \E f : Stepwise(f, T, x0, N, step)
      BY <1>3, <2>1, StepwiseExists
    <2> QED BY <2>2 DEF x0
  <1>5. /\ f \in [0..N -> T] /\ f[0] = <<>>
        /\ \A i \in 1..N : f[i] = step[i][f[i - 1]]
    <2> HIDE DEF step
    <2> QED BY <1>4 DEF Stepwise
  <1>6. Follows(f)
    <2> DEFINE r == [i \in 0..N |-> IF i = 0 THEN <<>> ELSE AddComment(f[i - 1], seq[i])]
    <2>1. ASSUME NEW i \in 1..N
          PROVE  f[i] = AddComment(f[i - 1], seq[i])
      <3>1. f[i - 1] \in T /\ f[i] = step[i][f[i - 1]]
        <4>1. i - 1 \in 0..N
          OBVIOUS
        <4> HIDE DEF step
        <4> QED BY <1>5, <4>1
      <3> QED BY <3>1
    <2>2. ASSUME NEW i \in 0..N PROVE f[i] = r[i]
      <3>1. CASE i = 0
        BY <1>5, <3>1
      <3>2. CASE i # 0
        <4>1. i \in 1..N
          BY <3>2
        <4> QED BY <2>1, <3>2, <4>1
      <3> QED BY <3>1, <3>2
    <2>3. r = [i \in 0..N |-> r[i]] /\ f = [i \in 0..N |-> f[i]]
      BY <1>5
    <2> HIDE DEF r
    <2>4. f = r
      BY <2>2, <2>3
    <2> QED BY <2>4 DEF r
  <1>7. Follows(g)
    <2> HIDE DEF Follows
    <2> QED BY <1>6
  <1>8. InlineBatches(seq) = g[N]
    BY <1>0 DEF InlineBatches
  <1>9. g[0] = <<>> /\ \A n \in 1..N : g[n] = AddComment(g[n - 1], seq[n])
    <2> HIDE DEF g
    <2>1. g[0] = <<>>
      BY <1>7
    <2>2. ASSUME NEW n \in 1..N
          PROVE  g[n] = AddComment(g[n - 1], seq[n])
      <3>1. n \in 0..N /\ n # 0
        OBVIOUS
      <3> QED BY <1>7, <3>1
    <2> QED BY <2>1, <2>2
  <1> HIDE DEF g, step, Follows
  <1> DEFINE P == {n \in 0..N :
                     /\ g[n] \in T
                     /\ Members(g[n]) = Prefix(seq, n)
                     /\ Distinct(seq) => Disjoint(g[n])}
  <1>10. 0 \in P
    <2>1. Members(<<>>) = {} /\ Prefix(seq, 0) = {} /\ Disjoint(<<>>)
      BY DEF Members, Prefix, Disjoint
    <2>2. 0 \in 0..N
      OBVIOUS
    <2> QED BY <1>1, <1>9, <2>1, <2>2
  <1>11. ASSUME NEW n \in 1..N, n - 1 \in P PROVE n \in P
    <2>1. /\ g[n - 1] \in T
          /\ Members(g[n - 1]) = Prefix(seq, n - 1)
          /\ Distinct(seq) => Disjoint(g[n - 1])
      BY <1>11
    <2>2. /\ Prefix(seq, n) = Prefix(seq, n - 1) \union {seq[n]}
          /\ Distinct(seq) => seq[n] \notin Prefix(seq, n - 1)
          /\ seq[n] \in Findings
      BY <1>0, PrefixGrows
    <2>3. g[n] \in T /\ Extends(g[n], g[n - 1], seq[n])
      BY <1>9, <2>1, <2>2, AddCommentExtends DEF T
    <2>4. /\ Members(g[n]) = Members(g[n - 1]) \union {seq[n]}
          /\ Disjoint(g[n - 1]) /\ seq[n] \notin Members(g[n - 1]) => Disjoint(g[n])
      BY <2>3, ExtendsMembers
    <2>5. n \in 0..N
      OBVIOUS
    <2> QED BY <2>1, <2>2, <2>3, <2>4, <2>5
  <1> HIDE DEF P
  <1>12. N \in P
    <2>1. \A i \in 0..N : i \in P
      BY <1>10, <1>11, IntervalInduction
    <2> QED BY <2>1
  <1>13. Prefix(seq, N) = Elements(seq)
    BY <1>0 DEF Prefix, Elements
  <1> QED BY <1>8, <1>12, <1>13 DEF P, T

LEMMA PrefixOfSequence ==
    ASSUME NEW S, NEW seq \in Seq(S), NEW n \in 0..Len(seq)
    PROVE  /\ SubSeq(seq, 1, n) \in Seq(S)
           /\ Len(SubSeq(seq, 1, n)) = n
           /\ Distinct(seq) => Distinct(SubSeq(seq, 1, n))
  <1> DEFINE q == SubSeq(seq, 1, n)
  <1>1. /\ q \in Seq(S) /\ Len(q) = n
        /\ \A i \in 1..n : q[i] = seq[i] /\ i \in 1..Len(seq)
    OBVIOUS
  <1> HIDE DEF q
  <1>2. Distinct(seq) => Distinct(q)
    BY <1>1 DEF Distinct
  <1> QED BY <1>1, <1>2 DEF q

-----------------------------------------------------------------------------
(* The invariant.                                                          *)

Objects(w) == IF w = "check" THEN github.check ELSE github.summary
KeyOf(w) == IF w = "check" THEN CheckKey ELSE SummaryKey
Kinds == {"check", "summary"}

Posted == {f \in Findings : github.inline[f] > 0}

\* What the write with a key leaves on GitHub.
Done(k) ==
    CASE k.type = "check_run" -> github.check # <<>>
      [] k.type = "summary_comment" -> github.summary # <<>>
      [] OTHER -> Elements(k.batch) \subseteq Posted

\* A call writes comments, in batches that share no finding.
WritesInline(a) == MidWrite(a) /\ attempt[a].write = "inline"
BatchesOf(a) ==
    WritesInline(a) => attempt[a].todo # <<>> /\ Disjoint(attempt[a].todo)

\* What a call has counted: the comments that were there when it looked, and
\* those of its batches, of which the ones it still has to send may be missing.
Counts(a, C, M) ==
    /\ Cardinality(C) = attempt[a].inline /\ Cardinality(M) = attempt[a].missing
    /\ M \subseteq C /\ C \ M \subseteq Posted
    /\ C \ Members(attempt[a].todo) \subseteq Posted

\* A call has left its comments behind.
PastInline(a) ==
    \/ attempt[a].pc \in {"check", "summary", "finish"}
    \/ MidWrite(a) /\ attempt[a].write \in Kinds

CountOf(a) ==
    /\ WritesInline(a) => \E C, M \in SUBSET Findings : Counts(a, C, M)
    /\ PastInline(a) => attempt[a].inline <= Cardinality(Posted)

\* A call between its acquisition and its record owns its row, unexpired.
Leased(a, k) ==
    /\ k \in DOMAIN ledger /\ ledger[k].state = "running"
    /\ ledger[k].owner = a /\ ledger[k].expires > clock

LeaseOf(a) == attempt[a].pc \in {"send", "record"} => Leased(a, Key(a))

\* A write that succeeded, or whose answer was lost, has landed.
OutcomeOf(a) ==
    attempt[a].pc = "record" =>
        /\ attempt[a].outcome \in {"ok", "lost"} => Done(Key(a))
        /\ attempt[a].outcome = "invalid" => attempt[a].write = "inline"

\* What a call has read of GitHub, and what the order of its writes leaves.
ReadOf(a) ==
    /\ \A w \in Kinds :
          MidWrite(a) /\ attempt[a].write = w /\ attempt[a].exists => Objects(w) # <<>>
    /\ \/ attempt[a].pc \in {"summary", "finish"}
       \/ MidWrite(a) /\ attempt[a].write = "summary"
       => github.check # <<>>
    /\ attempt[a].pc = "finish" => github.summary # <<>>

CallInv(a) == BatchesOf(a) /\ CountOf(a) /\ LeaseOf(a) /\ OutcomeOf(a) /\ ReadOf(a)
CallsInv == \A a \in Attempts : CallInv(a)

DoneInv == \A k \in DOMAIN ledger : ledger[k].state = "succeeded" => Done(k)

\* The row of a key is with a call that has written, or that died.
Taken(k, a) ==
    /\ Busy(k, a)
    /\ ledger[k].owner \in Attempts
    /\ LET b == ledger[k].owner IN
       \/ attempt[b].pc = "done"
       \/ attempt[b].pc = "record" /\ attempt[b].outcome = "ok" /\ Key(b) = k

\* A call that found no check or summary still finds none when it writes it.
AbsentOf(a) ==
    \A w \in Kinds :
        attempt[a].write = w /\ ~attempt[a].exists =>
           /\ attempt[a].pc = "send" => Objects(w) = <<>>
           /\ attempt[a].pc = "acquire" =>
                  \/ Objects(w) = <<>>
                  \/ Succeeded(KeyOf(w))
                  \/ Taken(KeyOf(w), a)

Single == \A w \in Kinds : Len(Objects(w)) <= 1
AbsentInv == overlap # "lost" => Single /\ \A a \in Attempts : AbsentOf(a)

\* The comments a call has to send are missing.
UnsentOf(a) ==
    WritesInline(a) =>
        \A i \in 1..Len(attempt[a].todo) :
            attempt[a].pc # "record" \/ i # 1
               => Elements(attempt[a].todo[i]) \cap Posted = {}

OneActive == \A a, b \in Attempts : Active(a) /\ Active(b) => a = b
CommentedOnce == \A f \in Findings : github.inline[f] <= 1

\* As long as no two calls overlap.
AloneInv ==
    overlap = "none" => OneActive /\ CommentedOnce /\ \A a \in Attempts : UnsentOf(a)

\* What relates the calls, the ledger and GitHub.
Core == CallsInv /\ DoneInv /\ CountTruthful /\ AbsentInv /\ AloneInv

RoundInv ==
    \A a \in Attempts :
        run.status = "publishing" /\ run.token = a /\ Active(a) /\ attempt[a].pc # "fail"
            => attempt[a].round = round

\* A call publishes for the request it was started with.
RequestInv ==
    \A a \in Attempts :
        Active(a) /\ attempt[a].pc # "fail" => attempt[a].request \in Requests

PublishInv == TypeOK /\ Core /\ RequestInv /\ CompletedIsPublished /\ RoundInv

-----------------------------------------------------------------------------
(* What a step leaves alone.                                               *)

\* A step of one call, or of none.
Only(a) == /\ attempt \in [Attempts -> CallState] /\ attempt' \in [Attempts -> CallState]
           /\ \A b \in Attempts : b # a => attempt'[b] = attempt[b]

\* GitHub loses nothing.
Grows == /\ Posted \subseteq Posted' /\ IsFiniteSet(Posted')
         /\ github.check # <<>> => github'.check # <<>>
         /\ github.summary # <<>> => github'.summary # <<>>

LEMMA PostedFinite == IsFiniteSet(Posted)
  <1>1. Posted \subseteq Findings
    BY DEF Posted
  <1> QED BY <1>1, PublishingAssumption, FS_Subset

LEMMA DoneGrows ==
    ASSUME Grows, NEW k, Done(k)
    PROVE  Done(k)'
  BY DEF Grows, Done

\* The invariant of a call that does not move.
LEMMA OtherCall ==
    ASSUME attempt \in [Attempts -> CallState],
           NEW b \in Attempts, attempt'[b] = attempt[b], CallInv(b), Grows,
           attempt[b].pc \in {"send", "record"} => Leased(b, Key(b))'
    PROVE  CallInv(b)'
  <1>1. Key(b)' = Key(b) /\ MidWrite(b)' = MidWrite(b)
        /\ WritesInline(b)' = WritesInline(b) /\ PastInline(b)' = PastInline(b)
    BY DEF Key, MidWrite, WritesInline, PastInline
  <1>2. BatchesOf(b)'
    BY <1>1 DEF CallInv, BatchesOf
  <1>3. CountOf(b)'
    <2>1. ASSUME NEW C \in SUBSET Findings, NEW M \in SUBSET Findings, Counts(b, C, M)
          PROVE  Counts(b, C, M)'
      BY <2>1 DEF Counts, Grows
    <2>2. Cardinality(Posted) <= Cardinality(Posted')
          /\ Cardinality(Posted) \in Nat /\ Cardinality(Posted') \in Nat
      <3>1. IsFiniteSet(Posted') /\ Posted \subseteq Posted'
        BY DEF Grows
      <3> QED BY <3>1, PostedFinite, FS_Subset, FS_CardinalityType
    <2>3. attempt[b].inline <= Cardinality(Posted) => attempt'[b].inline <= Cardinality(Posted')
      <3>1. attempt[b].inline \in Nat
        BY DEF CallState
      <3> QED BY <2>2, <3>1
    <2> QED BY <1>1, <2>1, <2>3 DEF CallInv, CountOf
  <1>4. LeaseOf(b)'
    BY DEF LeaseOf
  <1>5. OutcomeOf(b)'
    <2>1. PICK k : k = Key(b)
      OBVIOUS
    <2>2. Key(b)' = k
      BY <1>1, <2>1
    <2>3. Done(k) => Done(k)'
      BY DoneGrows
    <2> HIDE DEF Key
    <2>4. Done(Key(b)) => Done(Key(b))'
      BY <2>1, <2>2, <2>3
    <2> QED BY <2>4 DEF CallInv, OutcomeOf
  <1>6. ReadOf(b)'
    BY <1>1 DEF CallInv, ReadOf, Grows, Objects, Kinds
  <1> QED BY <1>2, <1>3, <1>4, <1>5, <1>6 DEF CallInv

\* A call that waits still does when the state it looks at has not changed.
LEMMA OtherTaken ==
    ASSUME NEW a \in Attempts, NEW b \in Attempts, NEW k, Only(a), a # b,
           ledger' = ledger, clock' = clock,
           attempt[a].pc \notin {"done", "record"} \/ attempt'[a].pc = "done",
           Taken(k, b)
    PROVE  Taken(k, b)'
  <1>1. PICK c \in Attempts : c = ledger[k].owner
    BY DEF Taken
  <1>2. \/ attempt[c].pc = "done"
        \/ attempt[c].pc = "record" /\ attempt[c].outcome = "ok" /\ Key(c) = k
    BY <1>1 DEF Taken
  <1>3. Busy(k, b)'
    BY DEF Taken, Busy
  <1>4. CASE c = a
    <2>1. attempt'[a].pc = "done"
      BY <1>2, <1>4
    <2> QED BY <1>1, <1>3, <1>4, <2>1 DEF Taken
  <1>5. CASE c # a
    <2>1. attempt'[c] = attempt[c]
      BY <1>5 DEF Only
    <2>2. Key(c)' = Key(c)
      BY <2>1 DEF Key
    <2> QED BY <1>1, <1>2, <1>3, <2>1, <2>2 DEF Taken
  <1> QED BY <1>4, <1>5

\* The invariant after a step that touches neither GitHub nor the ledger.
LEMMA Quiet ==
    ASSUME Core, NEW a \in Attempts, Only(a),
           github' = github, ledger' = ledger, clock' = clock,
           CallInv(a)',
           attempt[a].pc \notin {"done", "record"} \/ attempt'[a].pc = "done",
           overlap # "lost" => AbsentOf(a)',
           overlap' = overlap \/ (overlap = "none" /\ overlap' = "some"),
           overlap' = "none" /\ Active(a)' => Active(a) \/ ~Overlapping(a),
           overlap' = "none" => UnsentOf(a)'
    PROVE  Core'
  <1>1. Posted' = Posted /\ Grows
    BY PostedFinite DEF Posted, Grows
  <1>2. \A b \in Attempts : b # a => attempt'[b] = attempt[b]
    BY DEF Only
  <1>3. CallsInv'
    <2>1. ASSUME NEW b \in Attempts, b # a
          PROVE  CallInv(b)'
      <3>1. CallInv(b) /\ attempt'[b] = attempt[b]
        BY <1>2, <2>1 DEF Core, CallsInv
      <3>2. Key(b)' = Key(b)
        BY <3>1 DEF Key
      <3>3. attempt[b].pc \in {"send", "record"} => Leased(b, Key(b))'
        BY <3>1, <3>2 DEF CallInv, LeaseOf, Leased
      <3> QED BY <1>1, <3>1, <3>3, OtherCall DEF Only
    <2> QED BY <2>1 DEF CallsInv
  <1>4. DoneInv'
    <2>1. ASSUME NEW k, Done(k) PROVE Done(k)'
      BY <1>1, <2>1, DoneGrows
    <2> QED BY <2>1 DEF Core, DoneInv
  <1>5. CountTruthful'
    BY DEF Core, CountTruthful
  <1>6. AbsentInv'
    <2> SUFFICES ASSUME overlap' # "lost"
                 PROVE  Single' /\ \A b \in Attempts : AbsentOf(b)'
      BY DEF AbsentInv
    <2>1. overlap # "lost" /\ Single /\ \A b \in Attempts : AbsentOf(b)
      BY DEF Core, AbsentInv
    <2>2. Single'
      BY <2>1 DEF Single, Objects
    <2>3. ASSUME NEW b \in Attempts, b # a
          PROVE  AbsentOf(b)'
      <3>1. attempt'[b] = attempt[b]
        BY <1>2, <2>3
      <3>2. \A w : Succeeded(KeyOf(w)) => Succeeded(KeyOf(w))'
        BY DEF Succeeded, KeyOf, CheckKey, SummaryKey
      <3>3. \A w : Objects(w)' = Objects(w)
        BY DEF Objects
      <3>4. ASSUME NEW w, Taken(KeyOf(w), b)
            PROVE  Taken(KeyOf(w), b)'
        <4>1. PICK k : k = KeyOf(w)
          OBVIOUS
        <4>2. KeyOf(w)' = k
          BY <4>1 DEF KeyOf, CheckKey, SummaryKey
        <4>3. Taken(k, b)'
          BY <2>3, <3>4, <4>1, OtherTaken
        <4> QED BY <4>2, <4>3
      <3> QED BY <2>1, <3>1, <3>2, <3>3, <3>4 DEF AbsentOf
    <2> QED BY <2>1, <2>2, <2>3
  <1>7. AloneInv'
    <2> SUFFICES ASSUME overlap' = "none"
                 PROVE  OneActive' /\ CommentedOnce' /\ \A b \in Attempts : UnsentOf(b)'
      BY DEF AloneInv
    <2>1. overlap = "none" /\ OneActive /\ CommentedOnce /\ \A b \in Attempts : UnsentOf(b)
      BY DEF Core, AloneInv
    <2>2. CommentedOnce'
      BY <2>1 DEF CommentedOnce
    <2>3. \A b \in Attempts : b # a => UnsentOf(b)'
      BY <1>1, <1>2, <2>1 DEF UnsentOf, WritesInline, MidWrite
    <2>4. \A b \in Attempts : b # a => Active(b)' = Active(b)
      BY <1>2 DEF Active
    <2>5. OneActive'
      BY <2>1, <2>4 DEF OneActive, Overlapping
    <2> QED BY <2>2, <2>3, <2>5
  <1> QED BY <1>3, <1>4, <1>5, <1>6, <1>7 DEF Core

-----------------------------------------------------------------------------
(* What each step of a call makes of its program state.                    *)

LEMMA Moved ==
    ASSUME attempt \in [Attempts -> CallState], NEW a \in Attempts, NEW r \in CallState,
           attempt' = [attempt EXCEPT ![a] = r]
    PROVE  Only(a) /\ attempt'[a] = r
  BY DEF Only

LEMMA IdleIsState ==
    /\ \A p \in {"idle", "done", "fail"} :
          /\ [IdleAttempt EXCEPT !.pc = p] \in CallState
          /\ [IdleAttempt EXCEPT !.pc = p].pc = p
    /\ IdleAttempt \in CallState
  <1>1. IdleAttempt \in CallState
    BY DEF IdleAttempt, CallState, Working
  <1>2. ASSUME NEW p \in {"idle", "done", "fail"}
        PROVE  /\ [IdleAttempt EXCEPT !.pc = p] \in CallState
               /\ [IdleAttempt EXCEPT !.pc = p].pc = p
    BY <1>1 DEF CallState, Working
  <1> QED BY <1>1, <1>2

LEMMA Leaves ==
    ASSUME attempt \in [Attempts -> CallState], NEW a \in Attempts
    PROVE  /\ Return(a) => Only(a) /\ attempt'[a].pc = "done"
           /\ Raise(a) => Only(a) /\ attempt'[a].pc = "fail"
  BY IdleIsState, Moved DEF Return, Raise

\* Only the stage of a call changes.
LEMMA Goes ==
    ASSUME attempt \in [Attempts -> CallState], NEW a \in Attempts,
           NEW p \in Working, Goto(a, p)
    PROVE  /\ Only(a) /\ attempt'[a].pc = p
           /\ attempt'[a].write = attempt[a].write
           /\ attempt'[a].todo = attempt[a].todo
           /\ attempt'[a].index = attempt[a].index
           /\ attempt'[a].inline = attempt[a].inline
           /\ attempt'[a].missing = attempt[a].missing
           /\ attempt'[a].exists = attempt[a].exists
           /\ attempt'[a].round = attempt[a].round /\ attempt'[a].request = attempt[a].request
  <1>1. PICK s \in CallState : s = attempt[a]
    OBVIOUS
  <1> DEFINE r == [s EXCEPT !.pc = p]
  <1>2. /\ r \in CallState /\ r.pc = p /\ r.write = s.write /\ r.todo = s.todo
        /\ r.index = s.index /\ r.inline = s.inline /\ r.missing = s.missing
        /\ r.exists = s.exists /\ r.round = s.round /\ r.request = s.request
    BY DEF CallState
  <1>3. attempt' = [attempt EXCEPT ![a] = r]
    BY <1>1 DEF Goto
  <1> HIDE DEF r
  <1> QED BY <1>1, <1>2, <1>3, Moved

LEMMA BeginMoves ==
    ASSUME TypeOK, NEW a \in Attempts, NEW q \in Requests, Begin(a, q)
    PROVE  Only(a) /\ attempt'[a].pc = "load" /\ attempt'[a].round = round
           /\ attempt'[a].request = q
  <1>1. PICK s \in CallState : s = attempt[a]
    BY DEF TypeOK
  <1> DEFINE r == [s EXCEPT !.pc = "load", !.request = q, !.round = round]
  <1>2. r \in CallState /\ r.pc = "load" /\ r.round = round /\ r.request = q
    BY DEF CallState, TypeOK, Working
  <1>3. attempt' = [attempt EXCEPT ![a] = r]
    BY <1>1 DEF Begin, TypeOK
  <1> HIDE DEF r
  <1> QED BY <1>2, <1>3, Moved DEF TypeOK

LEMMA LoadMoves ==
    ASSUME TypeOK, NEW a \in Attempts, Load(a)
    PROVE  Only(a) /\ attempt'[a].pc = "validate"
           /\ attempt'[a].round = attempt[a].round /\ attempt'[a].request = attempt[a].request
  <1>1. PICK s \in CallState : s = attempt[a]
    BY DEF TypeOK
  <1> DEFINE r == [s EXCEPT !.pc = "validate", !.shown = valid]
  <1>2. r \in CallState /\ r.pc = "validate" /\ r.round = s.round /\ r.request = s.request
    BY DEF CallState, TypeOK, Working
  <1>3. attempt' = [attempt EXCEPT ![a] = r]
    BY <1>1 DEF Load, TypeOK
  <1> HIDE DEF r
  <1> QED BY <1>1, <1>2, <1>3, Moved DEF TypeOK

\* The reading of the check runs and of the comments.
LEMMA FindMoves ==
    ASSUME attempt \in [Attempts -> CallState], NEW a \in Attempts,
           NEW w \in Kinds, NEW e \in BOOLEAN,
           attempt' = [attempt EXCEPT ![a].pc = "acquire", ![a].write = w, ![a].exists = e]
    PROVE  /\ Only(a) /\ attempt'[a].pc = "acquire" /\ attempt'[a].write = w
           /\ attempt'[a].exists = e /\ attempt'[a].inline = attempt[a].inline
           /\ attempt'[a].round = attempt[a].round /\ attempt'[a].request = attempt[a].request
  <1>1. PICK s \in CallState : s = attempt[a]
    OBVIOUS
  <1> DEFINE r == [s EXCEPT !.pc = "acquire", !.write = w, !.exists = e]
  <1>2. /\ r \in CallState /\ r.pc = "acquire" /\ r.write = w /\ r.exists = e
        /\ r.inline = s.inline /\ r.round = s.round /\ r.request = s.request
    BY DEF CallState, Working, Kinds
  <1>3. attempt' = [attempt EXCEPT ![a] = r]
    BY <1>1
  <1> HIDE DEF r
  <1> QED BY <1>1, <1>2, <1>3, Moved

\* The end of a write that has succeeded, now or under an earlier call.
LEMMA AfterWriteMoves ==
    ASSUME attempt \in [Attempts -> CallState], NEW a \in Attempts,
           attempt[a].write = "inline" => attempt[a].todo # <<>>,
           attempt' = [attempt EXCEPT ![a] = AfterWrite(a)]
    PROVE  /\ Only(a) /\ attempt'[a].inline = attempt[a].inline
           /\ attempt'[a].missing = attempt[a].missing
           /\ attempt'[a].round = attempt[a].round /\ attempt'[a].request = attempt[a].request
           /\ attempt[a].write = "inline" =>
                 /\ attempt'[a].write = "inline"
                 /\ attempt'[a].todo = Tail(attempt[a].todo)
                 /\ attempt'[a].pc = IF Len(attempt[a].todo) = 1 THEN "check" ELSE "acquire"
           /\ attempt[a].write = "check" => attempt'[a].pc = "summary"
           /\ attempt[a].write = "summary" => attempt'[a].pc = "finish"
  <1>1. PICK s \in CallState : s = attempt[a]
    OBVIOUS
  <1>2. s.write \in {"inline", "check", "summary"} /\ s.todo \in Seq(Seq(Findings))
    BY DEF CallState
  <1>3. CASE s.write = "inline"
    <2> DEFINE p == IF Len(s.todo) = 1 THEN "check" ELSE "acquire"
               y == Tail(s.todo)
               r == [s EXCEPT !.todo = y, !.index = @ + 1, !.outcome = "none", !.pc = p]
    <2>1. y \in Seq(Seq(Findings)) /\ p \in Working
      BY <1>1, <1>2, <1>3 DEF Working
    <2> HIDE DEF y, p
    <2>2. /\ r \in CallState /\ r.pc = p /\ r.write = s.write /\ r.todo = y
          /\ r.inline = s.inline /\ r.missing = s.missing /\ r.round = s.round /\ r.request = s.request
      <3> DEFINE u == [s EXCEPT !.todo = y, !.index = @ + 1]
                 v == [u EXCEPT !.outcome = "none", !.pc = p]
      <3>0. s.index + 1 \in Nat
        BY DEF CallState
      <3>1. /\ u \in CallState /\ u.write = s.write /\ u.todo = y
            /\ u.inline = s.inline /\ u.missing = s.missing /\ u.round = s.round /\ u.request = s.request
        BY <2>1, <3>0 DEF CallState
      <3>2. r = v
        OBVIOUS
      <3> HIDE DEF u
      <3>3. /\ v \in CallState /\ v.pc = p /\ v.write = u.write /\ v.todo = u.todo
            /\ v.inline = u.inline /\ v.missing = u.missing /\ v.round = u.round /\ v.request = u.request
        BY <2>1, <3>1 DEF CallState
      <3> HIDE DEF v
      <3> QED BY <3>1, <3>2, <3>3
    <2>3. attempt' = [attempt EXCEPT ![a] = r]
      BY <1>1, <1>3 DEF AfterWrite, y, p
    <2> HIDE DEF r
    <2> QED BY <1>1, <1>3, <2>2, <2>3, Moved DEF y, p
  <1>4. CASE s.write = "check"
    <2> DEFINE r == [s EXCEPT !.pc = "summary", !.exists = FALSE, !.outcome = "none"]
    <2>1. /\ r \in CallState /\ r.pc = "summary"
          /\ r.inline = s.inline /\ r.missing = s.missing /\ r.round = s.round /\ r.request = s.request
      BY DEF CallState, Working
    <2>2. attempt' = [attempt EXCEPT ![a] = r]
      BY <1>1, <1>4 DEF AfterWrite
    <2> HIDE DEF r
    <2> QED BY <1>1, <1>4, <2>1, <2>2, Moved
  <1>5. CASE s.write = "summary"
    <2> DEFINE r == [s EXCEPT !.pc = "finish"]
    <2>1. /\ r \in CallState /\ r.pc = "finish"
          /\ r.inline = s.inline /\ r.missing = s.missing /\ r.round = s.round /\ r.request = s.request
      BY DEF CallState, Working
    <2>2. attempt' = [attempt EXCEPT ![a] = r]
      BY <1>1, <1>5 DEF AfterWrite
    <2> HIDE DEF r
    <2> QED BY <1>1, <1>5, <2>1, <2>2, Moved
  <1> QED BY <1>2, <1>3, <1>4, <1>5

-----------------------------------------------------------------------------
(* The core of the invariant, step by step.                                *)

\* A step into a stage that has read nothing yet, or out of the publication.
LEMMA Calm ==
    ASSUME Core, NEW a \in Attempts, Only(a),
           github' = github, ledger' = ledger, clock' = clock,
           attempt'[a].pc \in {"load", "validate", "inline", "done", "fail"},
           attempt[a].pc \notin {"done", "record"} \/ attempt'[a].pc = "done",
           overlap' = overlap \/ (overlap = "none" /\ overlap' = "some"),
           overlap' = "none" /\ Active(a)' => Active(a) \/ ~Overlapping(a)
    PROVE  Core'
  <1>1. /\ ~MidWrite(a)' /\ ~WritesInline(a)' /\ ~PastInline(a)'
        /\ attempt'[a].pc \notin {"acquire", "send", "record", "summary", "finish"}
    BY DEF MidWrite, WritesInline, PastInline
  <1>2. CallInv(a)'
    BY <1>1 DEF CallInv, BatchesOf, CountOf, LeaseOf, OutcomeOf, ReadOf
  <1>3. AbsentOf(a)' /\ UnsentOf(a)'
    BY <1>1 DEF AbsentOf, UnsentOf
  <1> QED BY <1>2, <1>3, Quiet

LEMMA BeginCore ==
    ASSUME TypeOK, Core, NEW a \in Attempts, NEW q \in Requests, Begin(a, q)
    PROVE  Core'
  <1>1. Only(a) /\ attempt'[a].pc = "load"
    BY BeginMoves
  <1>2. /\ github' = github /\ ledger' = ledger /\ clock' = clock
        /\ attempt[a].pc = "idle"
        /\ overlap' = IF overlap = "none" /\ Overlapping(a) THEN "some" ELSE overlap
    BY DEF Begin
  <1> QED BY <1>1, <1>2, Calm

\* The steps that only leave the call, and those that lead to the next reading.
LEMMA CalmSteps ==
    ASSUME TypeOK, Core, NEW a \in Attempts,
           Load(a) \/ ValidateTarget(a) \/ Finish(a) \/ MarkPublishFailed(a) \/ Crash(a)
    PROVE  Core'
  <1>0. attempt \in [Attempts -> CallState]
    BY DEF TypeOK
  <1>1. /\ github' = github /\ ledger' = ledger /\ clock' = clock /\ overlap' = overlap
        /\ attempt[a].pc \in Working
    BY DEF Load, ValidateTarget, Finish, MarkPublishFailed, Crash, Active, Working
  <1>2. /\ Only(a) /\ attempt'[a].pc \in {"load", "validate", "inline", "done", "fail"}
        /\ attempt[a].pc # "record" \/ attempt'[a].pc = "done"
    <2>1. CASE Load(a)
      BY <2>1, LoadMoves DEF Load
    <2>2. CASE ValidateTarget(a)
      <3>1. Goto(a, "inline") \/ Raise(a)
        BY <2>2 DEF ValidateTarget
      <3>2. attempt[a].pc = "validate"
        BY <2>2 DEF ValidateTarget
      <3> QED BY <1>0, <3>1, <3>2, Goes, Leaves DEF Working
    <2>3. CASE Finish(a) \/ MarkPublishFailed(a) \/ Crash(a)
      <3>1. Return(a)
        BY <2>3 DEF Finish, MarkPublishFailed, Crash
      <3> QED BY <1>0, <3>1, Leaves
    <2> QED BY <2>1, <2>2, <2>3
  <1>3. attempt[a].pc # "done" /\ Active(a)
    BY <1>1 DEF Working, Active
  <1> QED BY <1>1, <1>2, <1>3, Calm

LEMMA FindCore ==
    ASSUME TypeOK, Core, NEW a \in Attempts, FindCheckRun(a) \/ FindSummaryComment(a)
    PROVE  Core'
  <1>1. PICK w \in Kinds :
           /\ attempt[a].pc = w
           /\ attempt' = [attempt EXCEPT ![a].pc = "acquire", ![a].write = w,
                                         ![a].exists = (Objects(w) # <<>>)]
           /\ github' = github /\ ledger' = ledger /\ clock' = clock /\ overlap' = overlap
    BY DEF FindCheckRun, FindSummaryComment, Kinds, Objects
  <1>2. PICK e \in BOOLEAN : e = (Objects(w) # <<>>)
    OBVIOUS
  <1>3. /\ Only(a) /\ attempt'[a].pc = "acquire" /\ attempt'[a].write = w
        /\ attempt'[a].exists = e /\ attempt'[a].inline = attempt[a].inline
    BY <1>1, <1>2, FindMoves, ZenonT(30) DEF TypeOK
  <1>4. /\ MidWrite(a)' /\ ~WritesInline(a)' /\ PastInline(a)
    BY <1>1, <1>3 DEF MidWrite, WritesInline, PastInline, Kinds
  <1>5. CallInv(a)
    BY DEF Core, CallsInv
  <1>6. CallInv(a)'
    <2>1. BatchesOf(a)' /\ LeaseOf(a)' /\ OutcomeOf(a)'
      BY <1>3, <1>4 DEF BatchesOf, LeaseOf, OutcomeOf
    <2>2. CountOf(a)'
      BY <1>1, <1>3, <1>4, <1>5 DEF CountOf, CallInv, Posted
    <2>3. ReadOf(a)'
      BY <1>1, <1>2, <1>3, <1>5 DEF ReadOf, CallInv, Objects, Kinds
    <2> QED BY <2>1, <2>2, <2>3 DEF CallInv
  <1>7. AbsentOf(a)'
    BY <1>1, <1>2, <1>3 DEF AbsentOf, Objects
  <1>8. UnsentOf(a)'
    BY <1>4 DEF UnsentOf
  <1>9. attempt[a].pc \notin {"done", "record"} /\ Active(a)
    BY <1>1 DEF Kinds, Active, Working
  <1> QED BY <1>1, <1>3, <1>6, <1>7, <1>8, <1>9, Quiet

\* The candidates are findings, each once.
LEMMA Candidates ==
    ASSUME TypeOK, NEW a \in Attempts
    PROVE  InlineCandidates(a) \in Seq(Findings) /\ Distinct(InlineCandidates(a))
  <1> DEFINE set == attempt[a].shown \cap Inlineable
             all == Chosen(Order, set)
             n == IF Len(all) < MaxInline THEN Len(all) ELSE MaxInline
  <1>1. Order \in Seq(Findings) /\ Distinct(Order) /\ MaxInline \in Nat
    BY PublishingAssumption DEF Distinct
  <1> HIDE DEF set
  <1>2. all \in Seq(Findings) /\ Distinct(all)
    BY <1>1, ChosenMembers
  <1> HIDE DEF all
  <1>3. n \in 0..Len(all)
    BY <1>1, <1>2
  <1> HIDE DEF n
  <1>4. SubSeq(all, 1, n) \in Seq(Findings) /\ Distinct(SubSeq(all, 1, n))
    BY <1>2, <1>3, PrefixOfSequence
  <1>5. InlineCandidates(a) = SubSeq(all, 1, n)
    BY DEF InlineCandidates, all, set, n
  <1> QED BY <1>4, <1>5

\* What a call makes of the comments it has read: C are the candidates, M the
\* missing ones, B their batches.
Planned(a, B, C, M, big) ==
    /\ B \in Seq(Seq(Findings)) /\ Members(B) = M /\ Disjoint(B)
    /\ M \subseteq C /\ C \subseteq Findings
    /\ C \ M \subseteq Posted /\ M \cap Posted = {}
    /\ attempt'[a].write = "inline" /\ attempt'[a].missing = Cardinality(M)
    /\ attempt'[a].round = attempt[a].round /\ attempt'[a].request = attempt[a].request
    /\ big => /\ attempt'[a].pc = "check"
              /\ attempt'[a].inline = Cardinality(C \ M)
    /\ ~big => /\ attempt'[a].pc = IF M = {} THEN "check" ELSE "acquire"
               /\ attempt'[a].todo = B
               /\ attempt'[a].inline = Cardinality(C)

LEMMA EmptyElements ==
    ASSUME NEW S, NEW seq \in Seq(S)
    PROVE  seq = <<>> <=> Elements(seq) = {}
  <1>1. CASE seq = <<>>
    BY <1>1 DEF Elements
  <1>2. CASE seq # <<>>
    <2>1. 1 \in 1..Len(seq)
      BY <1>2
    <2> QED BY <1>2, <2>1 DEF Elements
  <1> QED BY <1>1, <1>2

LEMMA LoadInlineMoves ==
    ASSUME TypeOK, NEW a \in Attempts, LoadInlineMarkers(a)
    PROVE  Only(a) /\ \E B, C, M : \E big \in BOOLEAN : Planned(a, B, C, M, big)
  <1>0. PICK s \in CallState : s = attempt[a]
    BY DEF TypeOK
  <1> DEFINE absent == {f \in Findings : github.inline[f] = 0}
             c == InlineCandidates(a)
             m == Chosen(c, absent)
             B == InlineBatches(m)
             C == Elements(c)
             M == Elements(m)
             big == TooLarge(B)
             existing == Len(c) - Len(m)
             p == IF m = <<>> \/ big THEN "check" ELSE "acquire"
             y == IF big THEN <<>> ELSE B
             n == IF big THEN existing ELSE Len(c)
             r == [s EXCEPT !.pc = p, !.write = "inline", !.todo = y, !.index = 0,
                            !.missing = Len(m), !.inline = n]
  <1>1. attempt' = [attempt EXCEPT ![a] = r]
    BY <1>0 DEF LoadInlineMarkers
  <1>2. c \in Seq(Findings) /\ Distinct(c)
    BY Candidates
  <1>3. \A f \in Findings : github.inline[f] \in Nat
    BY DEF TypeOK, GitHubState
  <1>4. big \in BOOLEAN
    BY DEF TooLarge
  <1> HIDE DEF c, absent, big
  <1>5. m \in Seq(Findings) /\ Distinct(m) /\ M = C \cap absent
    BY <1>2, ChosenMembers
  <1> HIDE DEF m
  <1>6. B \in Seq(Seq(Findings)) /\ Members(B) = M /\ Disjoint(B)
    BY <1>5, InlineBatchesMembers
  <1> HIDE DEF B
  <1>7. /\ C \subseteq Findings /\ IsFiniteSet(C) /\ Cardinality(C) = Len(c)
        /\ IsFiniteSet(M) /\ Cardinality(M) = Len(m)
        /\ (m = <<>> <=> M = {})
    BY <1>2, <1>5, ElementsSize, EmptyElements
  <1>8. M \subseteq C /\ C \ M \subseteq Posted /\ M \cap Posted = {}
    BY <1>3, <1>5, <1>7 DEF absent, Posted
  <1> HIDE DEF C, M
  <1>9. Cardinality(C \ M) = existing /\ Len(c) \in Nat /\ Len(m) \in Nat
        /\ existing \in Nat
    <2>1. C \cap M = M
      BY <1>8
    <2>2. /\ Cardinality(C \ M) = Cardinality(C) - Cardinality(C \cap M)
          /\ IsFiniteSet(C \ M)
      BY <1>7, FS_Difference
    <2>3. Cardinality(C \ M) \in Nat
      BY <2>2, FS_CardinalityType
    <2>4. Len(c) \in Nat /\ Len(m) \in Nat
      BY <1>2, <1>5
    <2>5. Cardinality(C \ M) = Len(c) - Len(m)
      BY <1>7, <2>1, <2>2
    <2> QED BY <2>3, <2>4, <2>5
  <1>10. /\ p \in {"check", "acquire"} /\ y \in Seq(Seq(Findings)) /\ n \in Nat
    <2>1. <<>> \in Seq(Seq(Findings))
      OBVIOUS
    <2> QED BY <1>6, <1>9, <2>1
  <1>11. /\ p = IF M = {} \/ big THEN "check" ELSE "acquire"
         /\ y = IF big THEN <<>> ELSE B
         /\ n = IF big THEN Cardinality(C \ M) ELSE Cardinality(C)
    BY <1>7, <1>9
  <1> HIDE DEF p, y, n, existing
  <1>12. /\ r \in CallState /\ r.pc = p /\ r.write = "inline" /\ r.todo = y
         /\ r.missing = Len(m) /\ r.inline = n /\ r.round = s.round /\ r.request = s.request
    <2> DEFINE u == [s EXCEPT !.pc = p, !.write = "inline", !.todo = y]
               v == [u EXCEPT !.index = 0, !.missing = Len(m), !.inline = n]
    <2>1. /\ u \in CallState /\ u.pc = p /\ u.write = "inline" /\ u.todo = y
          /\ u.round = s.round /\ u.request = s.request
      BY <1>10 DEF CallState, Working
    <2>2. r = v
      OBVIOUS
    <2> HIDE DEF u
    <2>3. /\ v \in CallState /\ v.pc = u.pc /\ v.write = u.write /\ v.todo = u.todo
          /\ v.missing = Len(m) /\ v.inline = n /\ v.round = u.round /\ v.request = u.request
      BY <1>9, <1>10, <2>1 DEF CallState
    <2> HIDE DEF v, r
    <2> QED BY <2>1, <2>2, <2>3
  <1> HIDE DEF r
  <1>13. Only(a) /\ attempt'[a] = r
    BY <1>1, <1>12, Moved DEF TypeOK
  <1>14. Planned(a, B, C, M, big)
    BY <1>0, <1>6, <1>7, <1>8, <1>11, <1>12, <1>13 DEF Planned
  <1> QED BY <1>4, <1>13, <1>14

LEMMA PostedBounds ==
    ASSUME NEW X, X \subseteq Posted
    PROVE  Cardinality(X) <= Cardinality(Posted)
  BY PostedFinite, FS_Subset

LEMMA LoadInlineCore ==
    ASSUME TypeOK, Core, NEW a \in Attempts, LoadInlineMarkers(a)
    PROVE  Core'
  <1>1. /\ github' = github /\ ledger' = ledger /\ clock' = clock /\ overlap' = overlap
        /\ attempt[a].pc = "inline"
    BY DEF LoadInlineMarkers
  <1>2. Only(a)
    BY LoadInlineMoves
  <1>2a. PICK B, C, M : \E big \in BOOLEAN : Planned(a, B, C, M, big)
    BY LoadInlineMoves
  <1>3. PICK big \in BOOLEAN : Planned(a, B, C, M, big)
    BY <1>2a
  <1>4. /\ attempt'[a].pc \in {"check", "acquire"} /\ attempt'[a].write = "inline"
        /\ attempt'[a].missing = Cardinality(M)
        /\ attempt'[a].pc = "acquire" => /\ ~big /\ M # {} /\ attempt'[a].todo = B
                                         /\ attempt'[a].inline = Cardinality(C)
    BY <1>3 DEF Planned
  <1>5. /\ Members(B) = M /\ Disjoint(B) /\ M \subseteq C /\ C \subseteq Findings
        /\ C \ M \subseteq Posted /\ M \cap Posted = {}
    BY <1>3 DEF Planned
  <1>6. Posted' = Posted
    BY <1>1 DEF Posted
  <1>7. BatchesOf(a)'
    <2>1. M # {} => B # <<>>
      BY <1>5 DEF Members
    <2> QED BY <1>4, <1>5, <2>1 DEF BatchesOf, WritesInline, MidWrite
  <1>8. CountOf(a)'
    <2>1. ASSUME attempt'[a].pc = "acquire"
          PROVE  Counts(a, C, M)'
      BY <1>4, <1>5, <1>6, <2>1 DEF Counts
    <2>2. ASSUME attempt'[a].pc = "check"
          PROVE  attempt'[a].inline <= Cardinality(Posted)
      <3>1. \/ attempt'[a].inline = Cardinality(C \ M)
            \/ attempt'[a].inline = Cardinality(C) /\ C \subseteq Posted
        BY <1>3, <1>5, <2>2 DEF Planned
      <3> QED BY <1>5, <3>1, PostedBounds
    <2> QED BY <1>4, <1>5, <1>6, <2>1, <2>2
            DEF CountOf, WritesInline, PastInline, MidWrite, Kinds
  <1>9. LeaseOf(a)' /\ OutcomeOf(a)' /\ ReadOf(a)'
    BY <1>4 DEF LeaseOf, OutcomeOf, ReadOf, Kinds
  <1>10. AbsentOf(a)'
    BY <1>4 DEF AbsentOf, Kinds
  <1>11. UnsentOf(a)'
    <2>1. \A i \in 1..Len(B) : Elements(B[i]) \subseteq M
      BY <1>5 DEF Members
    <2> QED BY <1>4, <1>5, <1>6, <2>1 DEF UnsentOf, WritesInline, MidWrite
  <1>12. CallInv(a)'
    BY <1>7, <1>8, <1>9 DEF CallInv
  <1>13. attempt[a].pc \notin {"done", "record"} /\ Active(a)
    BY <1>1 DEF Active, Working
  <1> QED BY <1>1, <1>2, <1>10, <1>11, <1>12, <1>13, Quiet

\* The batches of a call without the first.
LEMMA TailMembers ==
    ASSUME NEW b \in Seq(Seq(Findings)), b # <<>>
    PROVE  /\ Tail(b) \in Seq(Seq(Findings)) /\ Len(Tail(b)) = Len(b) - 1
           /\ \A i \in 1..Len(Tail(b)) : Tail(b)[i] = b[i + 1] /\ i + 1 \in 1..Len(b)
           /\ Head(b) = b[1] /\ Head(b) \in Seq(Findings) /\ 1 \in 1..Len(b)
           /\ Members(b) \subseteq Elements(Head(b)) \union Members(Tail(b))
           /\ Disjoint(b) => Disjoint(Tail(b))
  <1>1. PICK n \in Nat : n = Len(b)
    OBVIOUS
  <1>2. n > 0 /\ 1 \in 1..n /\ Head(b) = b[1] /\ Head(b) \in Seq(Findings)
    BY <1>1
  <1>3. PICK c : c = Tail(b)
    OBVIOUS
  <1>4. /\ c \in Seq(Seq(Findings)) /\ Len(c) = n - 1
        /\ \A i \in 1..(n - 1) : c[i] = b[i + 1]
    BY <1>1, <1>3
  <1>5. \A i \in 1..(n - 1) : i + 1 \in 1..n
    BY <1>1
  <1>6. \A i \in 1..n : i = 1 \/ i - 1 \in 1..(n - 1)
    BY <1>1
  <1>7. Members(b) \subseteq Elements(Head(b)) \union Members(c)
    <2> SUFFICES ASSUME NEW i \in 1..n, NEW x \in Elements(b[i])
                 PROVE  x \in Elements(Head(b)) \union Members(c)
      BY <1>1 DEF Members
    <2>1. CASE i = 1
      BY <1>2, <2>1
    <2>2. CASE i - 1 \in 1..(n - 1)
      <3>1. c[i - 1] = b[(i - 1) + 1] /\ (i - 1) + 1 = i
        BY <1>4, <2>2
      <3> QED BY <1>4, <2>2, <3>1 DEF Members
    <2> QED BY <1>6, <2>1, <2>2
  <1>8. ASSUME Disjoint(b) PROVE Disjoint(c)
    <2> SUFFICES ASSUME NEW i \in 1..(n - 1), NEW j \in 1..(n - 1), i # j
                 PROVE  Elements(c[i]) \cap Elements(c[j]) = {}
      BY <1>4 DEF Disjoint
    <2>1. i + 1 \in 1..n /\ j + 1 \in 1..n /\ i + 1 # j + 1
      BY <1>5
    <2> QED BY <1>1, <1>4, <1>8, <2>1 DEF Disjoint
  <1> QED BY <1>1, <1>2, <1>3, <1>4, <1>5, <1>7, <1>8

\* The call goes on after a write that is known to have landed.
LEMMA AfterWriteCall ==
    ASSUME TypeOK, NEW a \in Attempts, CallInv(a), MidWrite(a), Done(Key(a)),
           attempt' = [attempt EXCEPT ![a] = AfterWrite(a)],
           github' = github
    PROVE  /\ Only(a) /\ CallInv(a)' /\ AbsentOf(a)'
           /\ attempt'[a].pc \in {"acquire", "check", "summary", "finish"}
           /\ attempt'[a].round = attempt[a].round /\ attempt'[a].request = attempt[a].request
           /\ UnsentOf(a) => UnsentOf(a)'
  <1>0. attempt \in [Attempts -> CallState] /\ attempt[a].write \in {"inline", "check", "summary"}
    BY DEF TypeOK, CallState
  <1>1. attempt[a].write = "inline" => attempt[a].todo # <<>> /\ Disjoint(attempt[a].todo)
    BY DEF CallInv, BatchesOf, WritesInline
  <1>2. /\ Only(a) /\ attempt'[a].inline = attempt[a].inline
        /\ attempt'[a].missing = attempt[a].missing
        /\ attempt'[a].round = attempt[a].round /\ attempt'[a].request = attempt[a].request
        /\ attempt[a].write = "inline" =>
              /\ attempt'[a].write = "inline"
              /\ attempt'[a].todo = Tail(attempt[a].todo)
              /\ attempt'[a].pc = IF Len(attempt[a].todo) = 1 THEN "check" ELSE "acquire"
        /\ attempt[a].write = "check" => attempt'[a].pc = "summary"
        /\ attempt[a].write = "summary" => attempt'[a].pc = "finish"
    BY <1>0, <1>1, AfterWriteMoves
  <1>3. Posted' = Posted
    BY DEF Posted
  <1>4. CASE attempt[a].write = "inline"
    <2>1. PICK b \in Seq(Seq(Findings)) : b = attempt[a].todo
      BY <1>0 DEF CallState
    <2>2. PICK c : c = Tail(b)
      OBVIOUS
    <2>3. /\ c \in Seq(Seq(Findings)) /\ Len(c) = Len(b) - 1 /\ Len(b) \in Nat \ {0}
          /\ \A i \in 1..Len(c) : c[i] = b[i + 1] /\ i + 1 \in 1..Len(b)
          /\ Members(b) \subseteq Elements(Head(b)) \union Members(c)
          /\ Disjoint(c)
      BY <1>1, <1>4, <2>1, <2>2, TailMembers
    <2>4. Elements(Head(b)) \subseteq Posted
      <3>1. Key(a) = [type |-> "inline_review", index |-> attempt[a].index, batch |-> Head(b)]
        BY <1>4, <2>1 DEF Key, InlineKey
      <3>2. Key(a).type = "inline_review" /\ Key(a).batch = Head(b)
        BY <3>1
      <3> QED BY <3>2 DEF Done
    <2>5. PICK C \in SUBSET Findings, M \in SUBSET Findings : Counts(a, C, M)
      BY <1>4 DEF CallInv, CountOf, WritesInline
    <2>6. C \ Members(c) \subseteq Posted
      BY <2>1, <2>3, <2>4, <2>5 DEF Counts
    <2>7. /\ attempt'[a].write = "inline" /\ attempt'[a].todo = c
          /\ attempt'[a].pc = IF Len(b) = 1 THEN "check" ELSE "acquire"
      BY <1>2, <1>4, <2>1, <2>2
    <2>8. Counts(a, C, M)'
      BY <1>2, <1>3, <2>5, <2>6, <2>7 DEF Counts
    <2>9. Len(b) = 1 => c = <<>> /\ C \subseteq Posted
      <3>1. Len(b) = 1 => c = <<>>
        BY <2>3
      <3>2. Members(<<>>) = {}
        BY DEF Members
      <3> QED BY <2>6, <3>1, <3>2
    <2>10. CountOf(a)'
      <3>1. Len(b) = 1 => attempt'[a].inline <= Cardinality(Posted)
        BY <1>2, <2>5, <2>9, PostedBounds DEF Counts
      <3> QED BY <1>3, <2>7, <2>8, <3>1 DEF CountOf, WritesInline, PastInline, MidWrite, Kinds
    <2>11. BatchesOf(a)'
      <3>1. Len(b) # 1 => c # <<>>
        BY <2>3
      <3> QED BY <2>3, <2>7, <3>1 DEF BatchesOf, WritesInline, MidWrite
    <2>12. LeaseOf(a)' /\ OutcomeOf(a)' /\ ReadOf(a)' /\ AbsentOf(a)'
      BY <2>7 DEF LeaseOf, OutcomeOf, ReadOf, AbsentOf, Kinds
    <2>13. UnsentOf(a) => UnsentOf(a)'
      <3> SUFFICES ASSUME UnsentOf(a), NEW i \in 1..Len(c)
                   PROVE  Elements(c[i]) \cap Posted = {}
        BY <1>3, <2>7 DEF UnsentOf
      <3>1. i + 1 \in 1..Len(b) /\ i + 1 # 1 /\ c[i] = b[i + 1]
        BY <2>3
      <3> QED BY <1>4, <2>1, <3>1 DEF UnsentOf, WritesInline
    <2> QED BY <1>2, <2>7, <2>10, <2>11, <2>12, <2>13 DEF CallInv
  <1>5. CASE attempt[a].write = "check"
    <2>1. attempt'[a].pc = "summary"
      BY <1>2, <1>5
    <2>2. github.check # <<>>
      BY <1>5 DEF Done, Key, CheckKey
    <2>3. PastInline(a) /\ ~MidWrite(a)' /\ ~WritesInline(a)'
      BY <1>5, <2>1 DEF PastInline, MidWrite, WritesInline, Kinds
    <2>4. CountOf(a)'
      BY <1>2, <1>3, <2>3 DEF CountOf, CallInv
    <2>5. BatchesOf(a)' /\ LeaseOf(a)' /\ OutcomeOf(a)' /\ ReadOf(a)' /\ AbsentOf(a)'
      BY <2>1, <2>2, <2>3 DEF BatchesOf, LeaseOf, OutcomeOf, ReadOf, AbsentOf
    <2>6. UnsentOf(a)'
      BY <2>3 DEF UnsentOf
    <2> QED BY <1>2, <2>1, <2>4, <2>5, <2>6 DEF CallInv
  <1>6. CASE attempt[a].write = "summary"
    <2>1. attempt'[a].pc = "finish"
      BY <1>2, <1>6
    <2>2. github.summary # <<>> /\ github.check # <<>>
      BY <1>6 DEF Done, Key, SummaryKey, CallInv, ReadOf
    <2>3. PastInline(a) /\ ~MidWrite(a)' /\ ~WritesInline(a)'
      BY <1>6, <2>1 DEF PastInline, MidWrite, WritesInline, Kinds
    <2>4. CountOf(a)'
      BY <1>2, <1>3, <2>3 DEF CountOf, CallInv
    <2>5. BatchesOf(a)' /\ LeaseOf(a)' /\ OutcomeOf(a)' /\ ReadOf(a)' /\ AbsentOf(a)'
      BY <2>1, <2>2, <2>3 DEF BatchesOf, LeaseOf, OutcomeOf, ReadOf, AbsentOf
    <2>6. UnsentOf(a)'
      BY <2>3 DEF UnsentOf
    <2> QED BY <1>2, <2>1, <2>4, <2>5, <2>6 DEF CallInv
  <1> QED BY <1>0, <1>4, <1>5, <1>6

\* One row of the ledger changes.
LEMMA RowSet ==
    ASSUME NEW k, NEW row, SetRow(k, row)
    PROVE  /\ DOMAIN ledger' = DOMAIN ledger \union {k} /\ ledger'[k] = row
           /\ \A x \in DOMAIN ledger : x # k => ledger'[x] = ledger[x]
  BY DEF SetRow

LEMMA KeyOfCall ==
    ASSUME TypeOK, NEW a \in Attempts, NEW w \in Kinds, attempt[a].write = w
    PROVE  Key(a) = KeyOf(w)
  BY DEF Key, KeyOf, Kinds

\* The call takes the row of its write.
Leases(a) ==
    /\ attempt[a].pc = "acquire" /\ ~Succeeded(Key(a)) /\ ~Busy(Key(a), a)
    /\ SetRow(Key(a), [state |-> "running", owner |-> a, expires |-> clock + 1])
    /\ Goto(a, "send")
    /\ github' = github /\ clock' = clock /\ overlap' = overlap

LEMMA LeaseCore ==
    ASSUME TypeOK, Core, NEW a \in Attempts, Leases(a)
    PROVE  Core'
  <1>0. /\ attempt \in [Attempts -> CallState] /\ clock \in Nat
        /\ attempt[a].pc = "acquire" /\ github' = github /\ clock' = clock /\ overlap' = overlap
    BY PublishingAssumption DEF TypeOK, Leases
  <1>1. PICK k : k = Key(a)
    OBVIOUS
  <1>2. /\ Only(a) /\ attempt'[a].pc = "send"
        /\ attempt'[a].write = attempt[a].write /\ attempt'[a].todo = attempt[a].todo
        /\ attempt'[a].index = attempt[a].index /\ attempt'[a].inline = attempt[a].inline
        /\ attempt'[a].missing = attempt[a].missing /\ attempt'[a].exists = attempt[a].exists
    BY <1>0, Goes DEF Leases, Working
  <1>3. /\ DOMAIN ledger' = DOMAIN ledger \union {k}
        /\ ledger'[k] = [state |-> "running", owner |-> a, expires |-> clock + 1]
        /\ \A x \in DOMAIN ledger : x # k => ledger'[x] = ledger[x]
    BY <1>1, RowSet DEF Leases
  <1>4. ledger'[k].state = "running" /\ ledger'[k].owner = a /\ ledger'[k].expires > clock
    BY <1>0, <1>3
  <1>5. ~Succeeded(k) /\ ~Busy(k, a)
    BY <1>1 DEF Leases
  <1>6. Key(a)' = k
    BY <1>1, <1>2 DEF Key
  <1>7. Posted' = Posted /\ Grows
    BY <1>0, PostedFinite DEF Posted, Grows
  <1>8. \A b \in Attempts : b # a => attempt'[b] = attempt[b]
    BY <1>2 DEF Only
  <1>9. MidWrite(a) /\ MidWrite(a)' /\ WritesInline(a)' = WritesInline(a)
    BY <1>0, <1>2 DEF MidWrite, WritesInline
  <1>10. CallInv(a)'
    <2>1. CallInv(a)
      BY DEF Core, CallsInv
    <2>2. BatchesOf(a)' /\ CountOf(a)'
      <3>1. \A C, M : Counts(a, C, M) => Counts(a, C, M)'
        BY <1>2, <1>7 DEF Counts
      <3>2. PastInline(a)' = PastInline(a)
        BY <1>0, <1>2, <1>9 DEF PastInline
      <3> QED BY <1>2, <1>7, <1>9, <2>1, <3>1, <3>2 DEF CallInv, BatchesOf, CountOf
    <2>3. LeaseOf(a)'
      BY <1>0, <1>3, <1>4, <1>6 DEF LeaseOf, Leased
    <2>4. OutcomeOf(a)'
      BY <1>2 DEF OutcomeOf
    <2>5. ReadOf(a)'
      BY <1>0, <1>2, <1>9, <2>1 DEF ReadOf, CallInv, Objects
    <2> QED BY <2>2, <2>3, <2>4, <2>5 DEF CallInv
  <1>11. CallsInv'
    <2>1. ASSUME NEW b \in Attempts, b # a PROVE CallInv(b)'
      <3>1. CallInv(b) /\ attempt'[b] = attempt[b]
        BY <1>8, <2>1 DEF Core, CallsInv
      <3>2. Key(b)' = Key(b)
        BY <3>1 DEF Key
      <3>3. ASSUME attempt[b].pc \in {"send", "record"}
            PROVE  Leased(b, Key(b))'
        <4>1. Leased(b, Key(b))
          BY <3>1, <3>3 DEF CallInv, LeaseOf
        <4>2. Key(b) # k
          BY <1>5, <2>1, <4>1 DEF Leased, Busy
        <4> QED BY <1>0, <1>3, <3>2, <4>1, <4>2 DEF Leased
      <3> QED BY <1>0, <1>7, <3>1, <3>3, OtherCall
    <2> QED BY <1>10, <2>1 DEF CallsInv
  <1>12. DoneInv'
    <2>1. ASSUME NEW x \in DOMAIN ledger', ledger'[x].state = "succeeded"
          PROVE  Done(x)'
      <3>1. x \in DOMAIN ledger /\ ledger[x].state = "succeeded"
        BY <1>3, <1>4, <2>1
      <3> QED BY <1>7, <3>1, DoneGrows DEF Core, DoneInv
    <2> QED BY <2>1 DEF DoneInv
  <1>13. CountTruthful'
    BY <1>0 DEF Core, CountTruthful
  <1>14. AbsentInv'
    <2> SUFFICES ASSUME overlap # "lost"
                 PROVE  Single' /\ \A b \in Attempts : AbsentOf(b)'
      BY <1>0 DEF AbsentInv
    <2>1. Single /\ \A b \in Attempts : AbsentOf(b)
      BY DEF Core, AbsentInv
    <2>2. Single'
      BY <1>0, <2>1 DEF Single, Objects
    <2>3. \A w : Objects(w)' = Objects(w) /\ KeyOf(w)' = KeyOf(w)
      BY <1>0 DEF Objects, KeyOf, CheckKey, SummaryKey
    <2>4. AbsentOf(a)'
      <3>1. ASSUME NEW w \in Kinds, attempt[a].write = w, ~attempt[a].exists
            PROVE  Objects(w) = <<>>
        <4>1. k = KeyOf(w)
          BY <1>1, <3>1, KeyOfCall
        <4>2. ~Taken(k, a)
          BY <1>5 DEF Taken
        <4> QED BY <1>0, <1>5, <2>1, <3>1, <4>1, <4>2 DEF AbsentOf
      <3> QED BY <1>2, <2>3, <3>1 DEF AbsentOf
    <2>5. ASSUME NEW b \in Attempts, b # a
          PROVE  AbsentOf(b)'
      <3>1. attempt'[b] = attempt[b]
        BY <1>8, <2>5
      <3>2. ASSUME NEW x, Succeeded(x) PROVE Succeeded(x)'
        BY <1>3, <1>5, <3>2 DEF Succeeded
      <3>3. ASSUME NEW x, Taken(x, b) PROVE Taken(x, b)'
        <4>1. PICK c \in Attempts : c = ledger[x].owner
          BY <3>3 DEF Taken
        <4>2. \/ attempt[c].pc = "done"
              \/ attempt[c].pc = "record" /\ attempt[c].outcome = "ok" /\ Key(c) = x
          BY <3>3, <4>1 DEF Taken
        <4>3. c # a
          BY <1>0, <4>2
        <4>4. x # k
          BY <1>5, <3>3, <4>1, <4>3 DEF Taken, Busy
        <4>5. x \in DOMAIN ledger /\ ledger'[x] = ledger[x]
          BY <1>3, <3>3, <4>4 DEF Taken, Busy
        <4>6. Busy(x, b)'
          BY <1>0, <1>3, <3>3, <4>5 DEF Taken, Busy
        <4>7. attempt'[c] = attempt[c]
          BY <1>8, <4>3
        <4>8. Key(c)' = Key(c)
          BY <4>7 DEF Key
        <4> QED BY <4>1, <4>2, <4>5, <4>6, <4>7, <4>8 DEF Taken
      <3>4. ASSUME NEW w
            PROVE  /\ Succeeded(KeyOf(w)) => Succeeded(KeyOf(w))'
                   /\ Taken(KeyOf(w), b) => Taken(KeyOf(w), b)'
        <4>1. PICK x : x = KeyOf(w)
          OBVIOUS
        <4>2. KeyOf(w)' = x
          BY <2>3, <4>1
        <4> QED BY <3>2, <3>3, <4>1, <4>2
      <3> QED BY <2>1, <2>3, <3>1, <3>4 DEF AbsentOf
    <2> QED BY <2>2, <2>4, <2>5
  <1>15. AloneInv'
    <2> SUFFICES ASSUME overlap = "none"
                 PROVE  OneActive' /\ CommentedOnce' /\ \A b \in Attempts : UnsentOf(b)'
      BY <1>0 DEF AloneInv
    <2>1. OneActive /\ CommentedOnce /\ \A b \in Attempts : UnsentOf(b)
      BY DEF Core, AloneInv
    <2>2. CommentedOnce'
      BY <1>0, <2>1 DEF CommentedOnce
    <2>3. \A b \in Attempts : Active(b)' = Active(b)
      BY <1>0, <1>2, <1>8 DEF Active, Working
    <2>4. OneActive'
      BY <2>1, <2>3 DEF OneActive
    <2>5. UnsentOf(a)'
      BY <1>0, <1>2, <1>7, <1>9, <2>1 DEF UnsentOf
    <2>6. \A b \in Attempts : b # a => UnsentOf(b)'
      BY <1>7, <1>8, <2>1 DEF UnsentOf, WritesInline, MidWrite
    <2> QED BY <2>2, <2>4, <2>5, <2>6
  <1> QED BY <1>11, <1>12, <1>13, <1>14, <1>15 DEF Core

LEMMA AcquireCore ==
    ASSUME TypeOK, Core, NEW a \in Attempts, Acquire(a)
    PROVE  Core'
  <1>0. attempt \in [Attempts -> CallState] /\ attempt[a].pc = "acquire"
    BY DEF TypeOK, Acquire
  <1>1. github' = github /\ clock' = clock /\ overlap' = overlap
    BY DEF Acquire
  <1>2. attempt[a].pc \notin {"done", "record"} /\ Active(a) /\ MidWrite(a)
    BY <1>0 DEF Active, Working, MidWrite
  <1>3. CASE /\ Succeeded(Key(a)) /\ ledger' = ledger
             /\ attempt' = [attempt EXCEPT ![a] = AfterWrite(a)]
    <2>1. Done(Key(a))
      BY <1>3 DEF Core, DoneInv, Succeeded
    <2>2. CallInv(a)
      BY DEF Core, CallsInv
    <2>3. Only(a) /\ CallInv(a)' /\ AbsentOf(a)' /\ (UnsentOf(a) => UnsentOf(a)')
      BY <1>1, <1>2, <1>3, <2>1, <2>2, AfterWriteCall
    <2>4. overlap = "none" => UnsentOf(a)'
      BY <2>3 DEF Core, AloneInv
    <2> QED BY <1>1, <1>2, <1>3, <2>3, <2>4, Quiet
  <1>4. CASE Raise(a) /\ ledger' = ledger
    <2>1. Only(a) /\ attempt'[a].pc = "fail"
      BY <1>0, <1>4, Leaves
    <2> QED BY <1>1, <1>2, <1>4, <2>1, Calm
  <1>5. CASE Leases(a)
    BY <1>5, LeaseCore
  <1> QED BY <1>0, <1>1, <1>3, <1>4, <1>5 DEF Acquire, Leases

\* One object is written, the first if there is one already.
Upserted(new, objects, exists, content) ==
    /\ new \in Seq(Content) /\ new # <<>>
    /\ Len(new) = IF exists THEN Len(objects) ELSE Len(objects) + 1
    /\ \A i \in 1..Len(new) :
          new[i] = content \/ (i \in 1..Len(objects) /\ new[i] = objects[i])

LEMMA Upserts ==
    ASSUME NEW objects \in Seq(Content), NEW exists, NEW content \in Content,
           exists \in BOOLEAN, exists => objects # <<>>
    PROVE  Upserted(Upsert(objects, exists, content), objects, exists, content)
  <1>1. CASE exists
    BY <1>1 DEF Upsert, Upserted
  <1>2. CASE ~exists
    BY <1>2 DEF Upsert, Upserted
  <1> QED BY <1>1, <1>2

\* What a write leaves on GitHub: comments on the findings of its batch, or
\* its check run or summary.
LandsInline(a) ==
    /\ attempt[a].write = "inline"
    /\ github'.check = github.check /\ github'.summary = github.summary
    /\ \A f \in Findings :
          /\ f \in Elements(Head(attempt[a].todo)) => github'.inline[f] = github.inline[f] + 1
          /\ f \notin Elements(Head(attempt[a].todo)) => github'.inline[f] = github.inline[f]

LandsObject(a, w) ==
    /\ attempt[a].write = w /\ github'.inline = github.inline
    /\ \A v \in Kinds : v # w => Objects(v)' = Objects(v)
    /\ Objects(w)' # <<>>
    /\ Len(Objects(w)') = IF attempt[a].exists THEN Len(Objects(w)) ELSE Len(Objects(w)) + 1
    /\ \A i \in 1..Len(Objects(w)') :
          \/ Objects(w)'[i].inline = attempt[a].inline
          \/ i \in 1..Len(Objects(w)) /\ Objects(w)'[i] = Objects(w)[i]

LEMMA Lands ==
    ASSUME TypeOK, NEW a \in Attempts, MidWrite(a), CallInv(a), github' = Landed(a)
    PROVE  github' \in GitHubState
           /\ (LandsInline(a) \/ \E w \in Kinds : LandsObject(a, w))
  <1>1. PICK g \in GitHubState : g = github
    BY DEF TypeOK
  <1>2. PICK s \in CallState : s = attempt[a]
    BY DEF TypeOK
  <1>3. s.write \in {"inline", "check", "summary"} /\ s.exists \in BOOLEAN
    BY DEF CallState
  <1>4. PICK content : content = [shown |-> s.shown, inline |-> s.inline]
    OBVIOUS
  <1>5. content \in Content /\ content.inline = s.inline
    BY <1>4 DEF Content, CallState
  <1>6. g.check \in Seq(Content) /\ g.summary \in Seq(Content) /\ g.inline \in [Findings -> Nat]
    BY DEF GitHubState
  <1>7. CASE s.write = "inline"
    <2>1. PICK batch : batch = Head(s.todo)
      OBVIOUS
    <2> DEFINE inl == [f \in Findings |->
                         g.inline[f] + (IF \E i \in DOMAIN batch : batch[i] = f THEN 1 ELSE 0)]
    <2>2. github' = [g EXCEPT !.inline = inl]
      BY <1>1, <1>2, <1>7, <2>1 DEF Landed
    <2>3. inl \in [Findings -> Nat]
      BY <1>6
    <2>4. batch \in Seq(Findings)
      BY <1>2, <1>7, <2>1, TailMembers DEF CallState, CallInv, BatchesOf, WritesInline
    <2>5. \A f \in Findings : f \in Elements(batch) <=> \E i \in DOMAIN batch : batch[i] = f
      <3>1. DOMAIN batch = 1..Len(batch)
        BY <2>4
      <3> QED BY <3>1 DEF Elements
    <2>6. \A f \in Findings :
             /\ f \in Elements(batch) => inl[f] = g.inline[f] + 1
             /\ f \notin Elements(batch) => inl[f] = g.inline[f]
      BY <1>6, <2>5
    <2> HIDE DEF inl
    <2>7. /\ github' \in GitHubState /\ github'.check = g.check /\ github'.summary = g.summary
          /\ github'.inline = inl
      BY <2>2, <2>3 DEF GitHubState
    <2>8. LandsInline(a)
      BY <1>1, <1>2, <1>7, <2>1, <2>6, <2>7 DEF LandsInline
    <2> QED BY <2>7, <2>8
  <1>8. CASE s.write = "check"
    <2>1. PICK new : new = Upsert(g.check, s.exists, content)
      OBVIOUS
    <2>2. s.exists => g.check # <<>>
      BY <1>1, <1>2, <1>8 DEF CallInv, ReadOf, Kinds, Objects
    <2>3. /\ new \in Seq(Content) /\ new # <<>>
          /\ Len(new) = IF s.exists THEN Len(g.check) ELSE Len(g.check) + 1
          /\ \A i \in 1..Len(new) :
                new[i] = content \/ (i \in 1..Len(g.check) /\ new[i] = g.check[i])
      <3>1. Upserted(new, g.check, s.exists, content)
        BY <1>3, <1>5, <1>6, <2>1, <2>2, Upserts, Zenon
      <3> QED BY <3>1 DEF Upserted
    <2>4. github' = [g EXCEPT !.check = new]
      BY <1>1, <1>2, <1>4, <1>8, <2>1 DEF Landed
    <2>5. /\ github' \in GitHubState /\ github'.check = new /\ github'.summary = g.summary
          /\ github'.inline = g.inline
      BY <2>3, <2>4 DEF GitHubState
    <2>6. LandsObject(a, "check")
      BY <1>1, <1>2, <1>5, <1>8, <2>3, <2>5 DEF LandsObject, Objects, Kinds
    <2> QED BY <2>5, <2>6 DEF Kinds
  <1>9. CASE s.write = "summary"
    <2>1. PICK new : new = Upsert(g.summary, s.exists, content)
      OBVIOUS
    <2>2. s.exists => g.summary # <<>>
      BY <1>1, <1>2, <1>9 DEF CallInv, ReadOf, Kinds, Objects
    <2>3. /\ new \in Seq(Content) /\ new # <<>>
          /\ Len(new) = IF s.exists THEN Len(g.summary) ELSE Len(g.summary) + 1
          /\ \A i \in 1..Len(new) :
                new[i] = content \/ (i \in 1..Len(g.summary) /\ new[i] = g.summary[i])
      <3>1. Upserted(new, g.summary, s.exists, content)
        BY <1>3, <1>5, <1>6, <2>1, <2>2, Upserts, Zenon
      <3> QED BY <3>1 DEF Upserted
    <2>4. github' = [g EXCEPT !.summary = new]
      BY <1>1, <1>2, <1>4, <1>9, <2>1 DEF Landed
    <2>5. /\ github' \in GitHubState /\ github'.summary = new /\ github'.check = g.check
          /\ github'.inline = g.inline
      BY <2>3, <2>4 DEF GitHubState
    <2>6. LandsObject(a, "summary")
      BY <1>1, <1>2, <1>5, <1>9, <2>3, <2>5 DEF LandsObject, Objects, Kinds
    <2> QED BY <2>5, <2>6 DEF Kinds
  <1> QED BY <1>3, <1>7, <1>8, <1>9

\* A write that lands loses nothing, and leaves what its key stands for.
LEMMA LandsGrows ==
    ASSUME TypeOK, NEW a \in Attempts, MidWrite(a), CallInv(a), github' = Landed(a)
    PROVE  /\ Grows /\ github' \in GitHubState
           /\ \A k : k = Key(a) => Done(k)'
           /\ attempt[a].write = "inline" =>
                 /\ github'.check = github.check /\ github'.summary = github.summary
                 /\ Posted' = Posted \union Elements(Head(attempt[a].todo))
           /\ attempt[a].write # "inline" => Posted' = Posted
  <1>1. github' \in GitHubState /\ (LandsInline(a) \/ \E w \in Kinds : LandsObject(a, w))
    BY Lands
  <1>2. \A f \in Findings : github.inline[f] \in Nat /\ github'.inline[f] \in Nat
    BY <1>1 DEF TypeOK, GitHubState
  <1>3. IsFiniteSet(Posted')
    <2>1. Posted' \subseteq Findings
      BY DEF Posted
    <2> QED BY <2>1, PublishingAssumption, FS_Subset
  <1>4. CASE LandsInline(a)
    <2>1. PICK batch : batch = Head(attempt[a].todo)
      OBVIOUS
    <2>2. batch \in Seq(Findings)
      BY <1>4, <2>1, TailMembers
         DEF TypeOK, LandsInline, CallState, CallInv, BatchesOf, WritesInline
    <2>3. Elements(batch) \subseteq Findings
      BY <2>2 DEF Elements
    <2>4. Posted' = Posted \union Elements(batch)
      <3>1. \A f \in Findings :
               /\ f \in Elements(batch) => github'.inline[f] = github.inline[f] + 1
               /\ f \notin Elements(batch) => github'.inline[f] = github.inline[f]
        BY <1>4, <2>1 DEF LandsInline
      <3>2. \A f \in Findings :
               github'.inline[f] > 0 <=> github.inline[f] > 0 \/ f \in Elements(batch)
        BY <1>2, <3>1
      <3> QED BY <2>3, <3>2 DEF Posted
    <2>5. Grows
      BY <1>3, <1>4, <2>4 DEF Grows, LandsInline
    <2>6. \A k : k = Key(a) => Done(k)'
      <3>1. Key(a).type = "inline_review" /\ Key(a).batch = batch
        BY <1>4, <2>1 DEF Key, InlineKey, LandsInline
      <3> QED BY <2>4, <3>1 DEF Done
    <2> QED BY <1>1, <1>4, <2>1, <2>4, <2>5, <2>6 DEF LandsInline
  <1>5. ASSUME NEW w \in Kinds, LandsObject(a, w)
        PROVE  /\ Grows /\ Posted' = Posted /\ attempt[a].write # "inline"
               /\ \A k : k = Key(a) => Done(k)'
    <2>1. attempt[a].write = w /\ w # "inline" /\ github'.inline = github.inline
      BY <1>5 DEF LandsObject, Kinds
    <2>2. Posted' = Posted
      BY <2>1 DEF Posted
    <2>3. \A v \in Kinds : Objects(v) # <<>> => Objects(v)' # <<>>
      BY <1>5 DEF LandsObject
    <2>4. Grows
      BY <1>3, <2>2, <2>3 DEF Grows, Objects, Kinds
    <2>5. Key(a) = KeyOf(w)
      BY <2>1, KeyOfCall
    <2>6. Objects(w)' # <<>>
      BY <1>5 DEF LandsObject
    <2>7. \A k : k = Key(a) => Done(k)'
      BY <2>5, <2>6 DEF Done, KeyOf, CheckKey, SummaryKey, Objects, Kinds
    <2> QED BY <2>1, <2>2, <2>4, <2>7
  <1> QED BY <1>1, <1>4, <1>5

\* What a call has counted stays true while GitHub only grows.
LEMMA CountGrows ==
    ASSUME attempt \in [Attempts -> CallState], NEW b \in Attempts, Grows, CountOf(b),
           attempt'[b].inline = attempt[b].inline,
           attempt'[b].missing = attempt[b].missing,
           attempt'[b].todo = attempt[b].todo,
           WritesInline(b)' => WritesInline(b), PastInline(b)' => PastInline(b)
    PROVE  CountOf(b)'
  <1>1. ASSUME NEW C \in SUBSET Findings, NEW M \in SUBSET Findings, Counts(b, C, M)
        PROVE  Counts(b, C, M)'
    BY <1>1 DEF Counts, Grows
  <1>2. Cardinality(Posted) <= Cardinality(Posted')
        /\ Cardinality(Posted) \in Nat /\ Cardinality(Posted') \in Nat
    <2>1. IsFiniteSet(Posted') /\ Posted \subseteq Posted'
      BY DEF Grows
    <2> QED BY <2>1, PostedFinite, FS_Subset, FS_CardinalityType
  <1>3. attempt[b].inline <= Cardinality(Posted) => attempt'[b].inline <= Cardinality(Posted')
    <2>1. attempt[b].inline \in Nat
      BY DEF CallState
    <2> QED BY <1>2, <2>1
  <1> QED BY <1>1, <1>3 DEF CountOf

\* The counts GitHub shows, object by object.
Counted == \A w \in Kinds : \A i \in 1..Len(Objects(w)) :
               Objects(w)[i].inline <= Cardinality(Posted)

LEMMA CountedTruthfully == github \in GitHubState => (CountTruthful <=> Counted)
  <1> SUFFICES ASSUME github \in GitHubState PROVE CountTruthful <=> Counted
    OBVIOUS
  <1>1. /\ DOMAIN github.check = 1..Len(github.check)
        /\ DOMAIN github.summary = 1..Len(github.summary)
    BY DEF GitHubState
  <1>2. PICK n : n = Cardinality(Posted)
    OBVIOUS
  <1>3. CountTruthful <=>
            /\ \A i \in DOMAIN github.check : github.check[i].inline <= n
            /\ \A i \in DOMAIN github.summary : github.summary[i].inline <= n
    BY <1>2 DEF CountTruthful, Posted
  <1>4. Counted <=>
            /\ \A i \in 1..Len(github.check) : github.check[i].inline <= n
            /\ \A i \in 1..Len(github.summary) : github.summary[i].inline <= n
    BY <1>2 DEF Counted, Objects, Kinds
  <1> QED BY <1>1, <1>3, <1>4

\* The request is answered with the outcome o, or its answer is lost.
Sent(a, o) ==
    /\ attempt[a].pc = "send" /\ attempt'[a].pc = "record" /\ attempt'[a].outcome = o
    /\ o \in {"ok", "rejected", "invalid", "lost"}
    /\ o = "invalid" => attempt[a].write = "inline"
    /\ github' = IF o \in {"ok", "lost"} THEN Landed(a) ELSE github
    /\ overlap' = IF o = "lost" /\ Overlapping(a) THEN "lost" ELSE overlap
    /\ ledger' = ledger /\ clock' = clock
    /\ attempt'[a].write = attempt[a].write /\ attempt'[a].todo = attempt[a].todo
    /\ attempt'[a].index = attempt[a].index /\ attempt'[a].inline = attempt[a].inline
    /\ attempt'[a].missing = attempt[a].missing /\ attempt'[a].exists = attempt[a].exists
    /\ attempt'[a].round = attempt[a].round /\ attempt'[a].request = attempt[a].request

LEMMA SendMoves ==
    ASSUME TypeOK, NEW a \in Attempts, Send(a)
    PROVE  Only(a) /\ \E o : Sent(a, o)
  <1>1. PICK o \in {"ok", "rejected", "invalid", "lost"} :
           /\ o = "invalid" => attempt[a].write = "inline"
           /\ github' = IF o \in {"ok", "lost"} THEN Landed(a) ELSE github
           /\ overlap' = IF o = "lost" /\ Overlapping(a) THEN "lost" ELSE overlap
           /\ attempt' = [attempt EXCEPT ![a].pc = "record", ![a].outcome = o]
    BY DEF Send
  <1>2. attempt[a].pc = "send" /\ ledger' = ledger /\ clock' = clock
    BY DEF Send
  <1>3. PICK s \in CallState : s = attempt[a]
    BY DEF TypeOK
  <1> DEFINE r == [s EXCEPT !.pc = "record", !.outcome = o]
  <1>4. /\ r \in CallState /\ r.pc = "record" /\ r.outcome = o /\ r.write = s.write
        /\ r.todo = s.todo /\ r.index = s.index /\ r.inline = s.inline
        /\ r.missing = s.missing /\ r.exists = s.exists /\ r.round = s.round /\ r.request = s.request
    BY DEF CallState, Working
  <1>5. attempt' = [attempt EXCEPT ![a] = r]
    BY <1>1, <1>3 DEF TypeOK
  <1> HIDE DEF r
  <1>6. Only(a) /\ attempt'[a] = r
    BY <1>4, <1>5, Moved DEF TypeOK
  <1>7. Sent(a, o)
    BY <1>1, <1>2, <1>3, <1>4, <1>6 DEF Sent
  <1> QED BY <1>6, <1>7

LEMMA SendCore ==
    ASSUME TypeOK, Core, NEW a \in Attempts, Send(a)
    PROVE  Core' /\ github' \in GitHubState
  <1>1. Only(a) /\ \A b \in Attempts : b # a => attempt'[b] = attempt[b]
    BY SendMoves DEF Only
  <1>2. PICK o : Sent(a, o)
    BY SendMoves
  <1>3. /\ attempt[a].pc = "send" /\ attempt'[a].pc = "record" /\ attempt'[a].outcome = o
        /\ attempt'[a].write = attempt[a].write /\ attempt'[a].todo = attempt[a].todo
        /\ attempt'[a].index = attempt[a].index /\ attempt'[a].inline = attempt[a].inline
        /\ attempt'[a].missing = attempt[a].missing
        /\ attempt'[a].exists = attempt[a].exists
        /\ ledger' = ledger /\ clock' = clock
    BY <1>2 DEF Sent
  <1>4. /\ MidWrite(a) /\ MidWrite(a)' /\ WritesInline(a)' = WritesInline(a)
        /\ PastInline(a)' = PastInline(a) /\ Active(a) /\ Active(a)'
    BY <1>3 DEF MidWrite, WritesInline, PastInline, Active, Working
  <1>5. PICK k : k = Key(a)
    OBVIOUS
  <1>6. Key(a)' = k
    BY <1>3, <1>5 DEF Key
  <1>7. CallInv(a) /\ Leased(a, k)
    BY <1>3, <1>5 DEF Core, CallsInv, CallInv, LeaseOf
  <1>8. \/ github' = github /\ o \notin {"ok", "lost"}
        \/ github' = Landed(a) /\ o \in {"ok", "lost"}
    BY <1>2 DEF Sent
  <1>9. /\ Grows /\ github' \in GitHubState
        /\ o \in {"ok", "lost"} => Done(k)'
        /\ attempt[a].write = "inline" =>
              /\ github'.check = github.check /\ github'.summary = github.summary
              /\ Posted' \subseteq Posted \union Elements(Head(attempt[a].todo))
        /\ attempt[a].write # "inline" => Posted' = Posted
    <2>1. CASE github' = github /\ o \notin {"ok", "lost"}
      BY <2>1, PostedFinite DEF Grows, Posted, TypeOK
    <2>2. CASE github' = Landed(a)
      <3>1. /\ Grows /\ github' \in GitHubState
            /\ \A x : x = Key(a) => Done(x)'
            /\ attempt[a].write = "inline" =>
                  /\ github'.check = github.check /\ github'.summary = github.summary
                  /\ Posted' = Posted \union Elements(Head(attempt[a].todo))
            /\ attempt[a].write # "inline" => Posted' = Posted
        BY <1>4, <1>7, <2>2, LandsGrows
      <3>2. Done(k)'
        BY <1>5, <3>1
      <3> QED BY <3>1, <3>2
    <2> QED BY <1>8, <2>1, <2>2
  <1>10. \/ github'.check = github.check /\ github'.summary = github.summary
         \/ \E w \in Kinds : LandsObject(a, w) /\ o \in {"ok", "lost"}
    BY <1>4, <1>7, <1>8, Lands DEF LandsInline
  <1>11. CallInv(a)'
    <2>1. BatchesOf(a)'
      BY <1>3, <1>4, <1>7 DEF CallInv, BatchesOf
    <2>2. CountOf(a)'
      BY <1>3, <1>4, <1>7, <1>9, CountGrows DEF CallInv, TypeOK
    <2>3. LeaseOf(a)'
      BY <1>3, <1>6, <1>7 DEF LeaseOf, Leased
    <2>4. OutcomeOf(a)'
      BY <1>2, <1>3, <1>6, <1>9 DEF OutcomeOf, Sent
    <2>5. ReadOf(a)'
      BY <1>3, <1>4, <1>7, <1>9 DEF CallInv, ReadOf, Grows, Objects, Kinds
    <2> QED BY <2>1, <2>2, <2>3, <2>4, <2>5 DEF CallInv
  <1>12. CallsInv'
    <2>1. ASSUME NEW b \in Attempts, b # a PROVE CallInv(b)'
      <3>1. CallInv(b) /\ attempt'[b] = attempt[b]
        BY <1>1, <2>1 DEF Core, CallsInv
      <3>2. Key(b)' = Key(b)
        BY <3>1 DEF Key
      <3>3. attempt[b].pc \in {"send", "record"} => Leased(b, Key(b))'
        BY <1>3, <3>1, <3>2 DEF CallInv, LeaseOf, Leased
      <3> QED BY <1>9, <3>1, <3>3, OtherCall DEF TypeOK
    <2> QED BY <1>11, <2>1 DEF CallsInv
  <1>13. DoneInv'
    <2>1. ASSUME NEW x, Done(x) PROVE Done(x)'
      BY <1>9, <2>1, DoneGrows
    <2> QED BY <1>3, <2>1 DEF Core, DoneInv
  <1>14. CountTruthful'
    <2>1. Counted
      BY CountedTruthfully DEF Core, TypeOK
    <2>2. /\ Cardinality(Posted) <= Cardinality(Posted')
          /\ Cardinality(Posted) \in Nat /\ Cardinality(Posted') \in Nat
      <3>1. IsFiniteSet(Posted') /\ Posted \subseteq Posted'
        BY <1>9 DEF Grows
      <3> QED BY <3>1, PostedFinite, FS_Subset, FS_CardinalityType
    <2>3. \A w \in Kinds : \A i \in 1..Len(Objects(w)) : Objects(w)[i].inline \in Nat
      <3>1. \A w \in Kinds : Objects(w) \in Seq(Content)
        BY DEF TypeOK, GitHubState, Objects
      <3>2. \A c \in Content : c.inline \in Nat
        BY DEF Content
      <3> HIDE DEF Objects
      <3> QED BY <3>1, <3>2
    <2>4. \A w \in Kinds : \A i \in 1..Len(Objects(w)) :
             Objects(w)[i].inline <= Cardinality(Posted')
      <3> HIDE DEF Objects
      <3> QED BY <2>1, <2>2, <2>3 DEF Counted
    <2>5. ASSUME NEW w \in Kinds, NEW i \in 1..Len(Objects(w)')
          PROVE  Objects(w)'[i].inline <= Cardinality(Posted')
      <3>1. CASE Objects(w)' = Objects(w)
        BY <2>4, <3>1
      <3>2. CASE LandsObject(a, w)
        <4>1. PastInline(a)
          BY <1>4, <3>2 DEF LandsObject, PastInline
        <4>2. attempt[a].inline <= Cardinality(Posted) /\ attempt[a].inline \in Nat
          BY <1>7, <4>1 DEF CallInv, CountOf, TypeOK, CallState
        <4>3. attempt[a].inline <= Cardinality(Posted')
          BY <2>2, <4>2
        <4>4. \/ Objects(w)'[i].inline = attempt[a].inline
              \/ i \in 1..Len(Objects(w)) /\ Objects(w)'[i] = Objects(w)[i]
          BY <3>2 DEF LandsObject
        <4> QED BY <2>4, <4>3, <4>4
      <3>3. Objects(w)' = Objects(w) \/ LandsObject(a, w)
        BY <1>10 DEF LandsObject, Objects
      <3> QED BY <3>1, <3>2, <3>3
    <2>6. Counted'
      BY <2>5 DEF Counted
    <2>7. (github \in GitHubState => (CountTruthful <=> Counted))'
      BY CountedTruthfully, PTL
    <2>8. github' \in GitHubState => (CountTruthful' <=> Counted')
      BY <2>7 DEF GitHubState, Content
    <2> QED BY <1>9, <2>6, <2>8
  <1>15. AbsentInv'
    <2> SUFFICES ASSUME overlap' # "lost"
                 PROVE  Single' /\ \A b \in Attempts : AbsentOf(b)'
      BY DEF AbsentInv
    <2>1. overlap # "lost" /\ (o = "lost" => ~Overlapping(a))
      BY <1>2 DEF Sent
    <2>2. Single /\ \A b \in Attempts : AbsentOf(b)
      BY <2>1 DEF Core, AbsentInv
    <2>3. \A w \in Kinds : Objects(w)' = Objects(w) \/ (LandsObject(a, w) /\ o \in {"ok", "lost"})
      BY <1>10 DEF LandsObject, Objects
    <2>4. Single'
      <3>1. ASSUME NEW w \in Kinds, LandsObject(a, w)
            PROVE  Len(Objects(w)') <= 1
        <4>1. attempt[a].write = w
          BY <3>1 DEF LandsObject
        <4>2. CASE attempt[a].exists
          <5>1. Len(Objects(w)') = Len(Objects(w)) /\ Len(Objects(w)) <= 1
            BY <2>2, <3>1, <4>2 DEF LandsObject, Single
          <5> QED BY <5>1
        <4>3. CASE ~attempt[a].exists
          <5>1. Objects(w) = <<>>
            BY <1>3, <2>2, <4>1, <4>3 DEF AbsentOf
          <5>2. Len(Objects(w)') = Len(Objects(w)) + 1
            BY <3>1, <4>3 DEF LandsObject
          <5> QED BY <5>1, <5>2
        <4> QED BY <4>2, <4>3
      <3>2. ASSUME NEW w \in Kinds PROVE Len(Objects(w)') <= 1
        <4>1. CASE Objects(w)' = Objects(w)
          BY <2>2, <4>1 DEF Single
        <4> QED BY <2>3, <3>1, <4>1
      <3> QED BY <3>2 DEF Single
    <2>5. AbsentOf(a)'
      BY <1>3 DEF AbsentOf
    <2>6. ASSUME NEW b \in Attempts, b # a, NEW w \in Kinds,
                 attempt[b].write = w, ~attempt[b].exists
          PROVE  /\ attempt[b].pc = "send" => Objects(w)' = <<>>
                 /\ attempt[b].pc = "acquire" =>
                       \/ Objects(w)' = <<>>
                       \/ Succeeded(KeyOf(w))'
                       \/ Taken(KeyOf(w), b)'
      <3>1. PICK x : x = KeyOf(w)
        OBVIOUS
      <3>2. KeyOf(w)' = x
        BY <3>1 DEF KeyOf, CheckKey, SummaryKey
      <3>3. CASE Objects(w)' = Objects(w)
        <4>1. Succeeded(x) => Succeeded(x)'
          BY <1>3 DEF Succeeded
        <4>2. Taken(x, b) => Taken(x, b)'
          BY <1>1, <1>3, <2>6, OtherTaken
        <4> QED BY <2>2, <2>6, <3>1, <3>2, <3>3, <4>1, <4>2 DEF AbsentOf
      <3>4. CASE LandsObject(a, w) /\ o \in {"ok", "lost"}
        <4>1. k = x
          BY <1>5, <3>1, <3>4, KeyOfCall DEF LandsObject
        <4>2. attempt[b].pc # "send"
          <5>1. ASSUME attempt[b].pc = "send" PROVE FALSE
            <6>1. Key(b) = x
              BY <2>6, <3>1, KeyOfCall
            <6>2. Leased(b, x)
              BY <5>1, <6>1 DEF Core, CallsInv, CallInv, LeaseOf
            <6> QED BY <1>7, <2>6, <4>1, <6>2 DEF Leased
          <5> QED BY <5>1
        <4>3. ASSUME attempt[b].pc = "acquire" PROVE Taken(x, b)'
          <5>1. o = "ok"
            BY <2>1, <2>6, <3>4, <4>3 DEF Overlapping, Active, Working
          <5>2. Busy(x, b)' /\ ledger'[x].owner = a
            BY <1>3, <1>7, <2>6, <4>1 DEF Busy, Leased
          <5> QED BY <1>3, <1>6, <4>1, <5>1, <5>2 DEF Taken
        <4> QED BY <3>2, <4>2, <4>3
      <3> QED BY <2>3, <3>3, <3>4
    <2>7. ASSUME NEW b \in Attempts, b # a PROVE AbsentOf(b)'
      <3>1. attempt'[b] = attempt[b]
        BY <1>1, <2>7
      <3> QED BY <2>6, <2>7, <3>1 DEF AbsentOf
    <2> QED BY <2>4, <2>5, <2>7
  <1>16. AloneInv'
    <2> SUFFICES ASSUME overlap' = "none"
                 PROVE  OneActive' /\ CommentedOnce' /\ \A b \in Attempts : UnsentOf(b)'
      BY DEF AloneInv
    <2>1. overlap = "none"
      BY <1>2 DEF Sent
    <2>2. OneActive /\ CommentedOnce /\ UnsentOf(a)
      BY <2>1 DEF Core, AloneInv
    <2>3. \A b \in Attempts : Active(b)' = Active(b)
      BY <1>1, <1>4 DEF Active
    <2>4. OneActive'
      BY <2>2, <2>3 DEF OneActive
    <2>5. ASSUME NEW b \in Attempts, b # a PROVE UnsentOf(b)'
      <3>1. ~Active(b)'
        BY <1>4, <2>2, <2>3, <2>5 DEF OneActive
      <3> QED BY <3>1 DEF UnsentOf, WritesInline, MidWrite, Active, Working
    <2>6. ASSUME attempt[a].write = "inline"
          PROVE  /\ Elements(Head(attempt[a].todo)) \cap Posted = {}
                 /\ Head(attempt[a].todo) = attempt[a].todo[1]
                 /\ 1 \in 1..Len(attempt[a].todo) /\ Disjoint(attempt[a].todo)
      <3>1. WritesInline(a) /\ attempt[a].todo # <<>> /\ Disjoint(attempt[a].todo)
        BY <1>4, <1>7, <2>6 DEF WritesInline, CallInv, BatchesOf
      <3>2. attempt[a].todo \in Seq(Seq(Findings))
        BY DEF TypeOK, CallState
      <3>3. Head(attempt[a].todo) = attempt[a].todo[1] /\ 1 \in 1..Len(attempt[a].todo)
        BY <3>1, <3>2, TailMembers
      <3> QED BY <1>3, <2>2, <3>1, <3>3 DEF UnsentOf
    <2>7. UnsentOf(a)'
      <3> SUFFICES ASSUME WritesInline(a), NEW i \in 1..Len(attempt[a].todo), i # 1
                   PROVE  Elements(attempt[a].todo[i]) \cap Posted' = {}
        BY <1>3, <1>4 DEF UnsentOf
      <3>1. attempt[a].write = "inline"
        BY DEF WritesInline
      <3>2. Elements(attempt[a].todo[i]) \cap Posted = {}
        BY <2>2 DEF UnsentOf
      <3>3. Elements(attempt[a].todo[i]) \cap Elements(attempt[a].todo[1]) = {}
        BY <2>6, <3>1 DEF Disjoint
      <3> QED BY <1>9, <2>6, <3>1, <3>2, <3>3
    <2>8. CommentedOnce'
      <3>1. CASE LandsInline(a)
        <4>1. attempt[a].write = "inline"
          BY <3>1 DEF LandsInline
        <4>2. \A f \in Elements(Head(attempt[a].todo)) : f \notin Posted
          BY <2>6, <4>1
        <4>3. \A f \in Findings : github.inline[f] \in Nat
          BY DEF TypeOK, GitHubState
        <4>4. \A f \in Findings : f \in Elements(Head(attempt[a].todo)) => github.inline[f] = 0
          BY <4>2, <4>3 DEF Posted
        <4> QED BY <2>2, <3>1, <4>4 DEF CommentedOnce, LandsInline
      <3>2. CASE github'.inline = github.inline
        BY <2>2, <3>2 DEF CommentedOnce
      <3>3. LandsInline(a) \/ github'.inline = github.inline
        BY <1>4, <1>7, <1>8, Lands DEF LandsObject
      <3> QED BY <3>1, <3>2, <3>3
    <2> QED BY <2>4, <2>5, <2>7, <2>8
  <1> QED BY <1>9, <1>12, <1>13, <1>14, <1>15, <1>16 DEF Core

\* The outcome of a write is recorded, by its owner.
LEMMA Recorded ==
    ASSUME TypeOK, Core, NEW a \in Attempts, Record(a)
    PROVE  \E k, row :
              /\ k = Key(a) /\ Leased(a, k)
              /\ row.owner = NoAttempt
              /\ row.state = IF attempt[a].outcome = "ok" THEN "succeeded" ELSE "failed"
              /\ row \in LedgerRow
              /\ DOMAIN ledger' = DOMAIN ledger \union {k} /\ ledger'[k] = row
              /\ \A x \in DOMAIN ledger : x # k => ledger'[x] = ledger[x]
  <1>1. PICK k : k = Key(a)
    OBVIOUS
  <1>2. Leased(a, k)
    BY <1>1 DEF Record, Core, CallsInv, CallInv, LeaseOf
  <1>3. Owns(a, k)
    BY <1>2 DEF Leased, Owns
  <1>4. clock \in Nat
    BY PublishingAssumption DEF TypeOK
  <1> DEFINE row == [state |-> IF attempt[a].outcome = "ok" THEN "succeeded" ELSE "failed",
                     owner |-> NoAttempt, expires |-> clock]
  <1>5. SetRow(k, row)
    BY <1>1, <1>3 DEF Record
  <1>6. /\ row \in LedgerRow /\ row.owner = NoAttempt
        /\ row.state = IF attempt[a].outcome = "ok" THEN "succeeded" ELSE "failed"
    BY <1>4 DEF LedgerRow
  <1> HIDE DEF row
  <1>7. /\ DOMAIN ledger' = DOMAIN ledger \union {k} /\ ledger'[k] = row
        /\ \A x \in DOMAIN ledger : x # k => ledger'[x] = ledger[x]
    BY <1>5, RowSet
  <1> QED BY <1>1, <1>2, <1>6, <1>7

\* What the call does next: it goes on after a success, without inline comments
\* after a position that GitHub refuses, and gives up after any other answer.
Degrades(a) ==
    /\ attempt[a].outcome = "invalid"
    /\ attempt'[a].pc = "check"
    /\ attempt'[a].inline = attempt[a].inline - attempt[a].missing
    /\ attempt'[a].round = attempt[a].round /\ attempt'[a].request = attempt[a].request

LEMMA CountsLess ==
    ASSUME NEW a, NEW C \in SUBSET Findings, NEW M \in SUBSET Findings, Counts(a, C, M)
    PROVE  /\ attempt[a].inline - attempt[a].missing \in Nat
           /\ attempt[a].inline - attempt[a].missing <= Cardinality(Posted)
  <1>1. IsFiniteSet(C) /\ C \cap M = M /\ C \ M \subseteq Posted
    BY PublishingAssumption, FS_Subset DEF Counts
  <1>2. /\ IsFiniteSet(C \ M)
        /\ Cardinality(C \ M) = Cardinality(C) - Cardinality(M)
    BY <1>1, FS_Difference
  <1>3. Cardinality(C \ M) \in Nat /\ Cardinality(C \ M) <= Cardinality(Posted)
    BY <1>1, <1>2, FS_CardinalityType, PostedBounds
  <1> QED BY <1>2, <1>3 DEF Counts

LEMMA RecordMoves ==
    ASSUME TypeOK, Core, NEW a \in Attempts, Record(a)
    PROVE  \/ /\ attempt[a].outcome = "ok"
              /\ attempt' = [attempt EXCEPT ![a] = AfterWrite(a)]
           \/ Only(a) /\ Degrades(a)
           \/ Only(a) /\ attempt[a].outcome # "ok" /\ attempt'[a].pc = "fail"
  <1>0. attempt \in [Attempts -> CallState]
    BY DEF TypeOK
  <1>1. Owns(a, Key(a)) /\ CallInv(a) /\ attempt[a].pc = "record"
    BY DEF Record, Core, CallsInv, CallInv, LeaseOf, Leased, Owns
  <1>2. CASE attempt[a].outcome = "ok"
    BY <1>1, <1>2 DEF Record
  <1>3. CASE attempt[a].outcome = "invalid"
    <2>1. PICK s \in CallState : s = attempt[a]
      BY <1>0
    <2>2. WritesInline(a)
      BY <1>1, <1>3 DEF CallInv, OutcomeOf, WritesInline, MidWrite
    <2>3. PICK n \in Nat : n = s.inline - s.missing
      BY <1>1, <2>1, <2>2, CountsLess DEF CallInv, CountOf
    <2>4. WithoutComments(a) \in CallState /\ WithoutComments(a).pc = "check"
          /\ WithoutComments(a).inline = n /\ WithoutComments(a).round = s.round
          /\ WithoutComments(a).request = s.request
      <3> DEFINE u == [s EXCEPT !.pc = "check", !.todo = <<>>]
                 r == [u EXCEPT !.outcome = "none", !.inline = n]
      <3>1. u \in CallState /\ u.pc = "check" /\ u.round = s.round /\ u.request = s.request
        <4>1. <<>> \in Seq(Seq(Findings))
          OBVIOUS
        <4> QED BY <4>1 DEF CallState, Working
      <3>2. WithoutComments(a) = r
        BY <2>1, <2>3 DEF WithoutComments
      <3> HIDE DEF u
      <3>3. r \in CallState /\ r.pc = "check" /\ r.inline = n /\ r.round = s.round /\ r.request = s.request
        BY <3>1 DEF CallState
      <3> QED BY <3>2, <3>3
    <2>5. attempt' = [attempt EXCEPT ![a] = WithoutComments(a)]
      BY <1>3 DEF Record
    <2>6. Only(a) /\ attempt'[a] = WithoutComments(a)
      BY <1>0, <2>4, <2>5, Moved
    <2> QED BY <1>3, <2>1, <2>3, <2>4, <2>6 DEF Degrades
  <1>4. CASE attempt[a].outcome \notin {"ok", "invalid"}
    <2>1. Raise(a)
      BY <1>4 DEF Record
    <2> QED BY <1>0, <1>4, <2>1, Leaves
  <1> QED BY <1>2, <1>3, <1>4

LEMMA RecordCore ==
    ASSUME TypeOK, Core, NEW a \in Attempts, Record(a)
    PROVE  Core'
  <1>1. PICK k, row :
           /\ k = Key(a) /\ Leased(a, k)
           /\ row.owner = NoAttempt
           /\ row.state = IF attempt[a].outcome = "ok" THEN "succeeded" ELSE "failed"
           /\ DOMAIN ledger' = DOMAIN ledger \union {k} /\ ledger'[k] = row
           /\ \A x \in DOMAIN ledger : x # k => ledger'[x] = ledger[x]
    BY Recorded
  <1>2. /\ attempt[a].pc = "record" /\ github' = github /\ clock' = clock
        /\ overlap' = overlap
    BY DEF Record
  <1>3. CallInv(a) /\ MidWrite(a) /\ Active(a)
    BY <1>2 DEF Core, CallsInv, MidWrite, Active, Working
  <1>4. Posted' = Posted /\ Grows
    BY <1>2, PostedFinite DEF Posted, Grows
  <1>5. /\ Only(a) /\ CallInv(a)' /\ AbsentOf(a)'
        /\ attempt'[a].pc \in {"acquire", "check", "summary", "finish", "fail"}
        /\ UnsentOf(a) => UnsentOf(a)'
    <2>1. CASE /\ attempt[a].outcome = "ok"
               /\ attempt' = [attempt EXCEPT ![a] = AfterWrite(a)]
      <3>1. Done(Key(a))
        BY <1>2, <1>3, <2>1 DEF CallInv, OutcomeOf
      <3> QED BY <1>2, <1>3, <2>1, <3>1, AfterWriteCall
    <2>2. CASE Only(a) /\ Degrades(a)
      <3>1. attempt'[a].pc = "check"
        BY <2>2 DEF Degrades
      <3>2. ~MidWrite(a)' /\ ~WritesInline(a)'
        BY <3>1 DEF MidWrite, WritesInline
      <3>3. WritesInline(a)
        BY <1>2, <1>3, <2>2 DEF Degrades, CallInv, OutcomeOf, WritesInline
      <3>4. attempt'[a].inline <= Cardinality(Posted)
        BY <1>3, <2>2, <3>3, CountsLess DEF CallInv, CountOf, Degrades
      <3>5. CallInv(a)'
        BY <1>4, <3>1, <3>2, <3>4
           DEF CallInv, BatchesOf, CountOf, LeaseOf, OutcomeOf, ReadOf
      <3> QED BY <2>2, <3>1, <3>2, <3>5 DEF AbsentOf, UnsentOf
    <2>3. CASE Only(a) /\ attempt'[a].pc = "fail"
      <3>1. ~MidWrite(a)' /\ ~WritesInline(a)' /\ ~PastInline(a)'
        BY <2>3 DEF MidWrite, WritesInline, PastInline
      <3>2. CallInv(a)'
        BY <2>3, <3>1 DEF CallInv, BatchesOf, CountOf, LeaseOf, OutcomeOf, ReadOf
      <3> QED BY <2>3, <3>1, <3>2 DEF AbsentOf, UnsentOf
    <2> QED BY <2>1, <2>2, <2>3, RecordMoves
  <1>6. \A b \in Attempts : b # a => attempt'[b] = attempt[b]
    BY <1>5 DEF Only
  <1>7. CallsInv'
    <2>1. ASSUME NEW b \in Attempts, b # a PROVE CallInv(b)'
      <3>1. CallInv(b) /\ attempt'[b] = attempt[b]
        BY <1>6, <2>1 DEF Core, CallsInv
      <3>2. Key(b)' = Key(b)
        BY <3>1 DEF Key
      <3>3. ASSUME attempt[b].pc \in {"send", "record"}
            PROVE  Leased(b, Key(b))'
        <4>1. Leased(b, Key(b))
          BY <3>1, <3>3 DEF CallInv, LeaseOf
        <4>2. Key(b) # k
          BY <1>1, <2>1, <4>1 DEF Leased
        <4> QED BY <1>1, <1>2, <3>2, <4>1, <4>2 DEF Leased
      <3> QED BY <1>4, <3>1, <3>3, OtherCall DEF TypeOK
    <2> QED BY <1>5, <2>1 DEF CallsInv
  <1>8. attempt[a].outcome = "ok" => Done(k)
    BY <1>1, <1>2, <1>3 DEF CallInv, OutcomeOf
  <1>9. DoneInv'
    <2>1. ASSUME NEW x \in DOMAIN ledger', ledger'[x].state = "succeeded"
          PROVE  Done(x)
      <3>1. CASE x = k
        BY <1>1, <1>8, <2>1, <3>1
      <3>2. CASE x # k
        BY <1>1, <2>1, <3>2 DEF Core, DoneInv
      <3> QED BY <3>1, <3>2
    <2>2. ASSUME NEW x, Done(x) PROVE Done(x)'
      BY <1>4, <2>2, DoneGrows
    <2> QED BY <2>1, <2>2 DEF DoneInv
  <1>10. CountTruthful'
    BY <1>2 DEF Core, CountTruthful
  <1>11. AbsentInv'
    <2> SUFFICES ASSUME overlap # "lost"
                 PROVE  Single' /\ \A b \in Attempts : AbsentOf(b)'
      BY <1>2 DEF AbsentInv
    <2>1. Single /\ \A b \in Attempts : AbsentOf(b)
      BY DEF Core, AbsentInv
    <2>2. Single'
      BY <1>2, <2>1 DEF Single, Objects
    <2>3. \A w : Objects(w)' = Objects(w) /\ KeyOf(w)' = KeyOf(w)
      BY <1>2 DEF Objects, KeyOf, CheckKey, SummaryKey
    <2>4. ASSUME NEW b \in Attempts, b # a
          PROVE  AbsentOf(b)'
      <3>1. attempt'[b] = attempt[b]
        BY <1>6, <2>4
      <3>2. ASSUME NEW x, Succeeded(x) PROVE Succeeded(x)'
        BY <1>1, <3>2 DEF Succeeded, Leased
      <3>3. ASSUME NEW x, Taken(x, b) PROVE Taken(x, b)' \/ Succeeded(x)'
        <4>1. PICK c \in Attempts : c = ledger[x].owner
          BY <3>3 DEF Taken
        <4>2. \/ attempt[c].pc = "done"
              \/ attempt[c].pc = "record" /\ attempt[c].outcome = "ok" /\ Key(c) = x
          BY <3>3, <4>1 DEF Taken
        <4>3. CASE c = a
          <5>1. x = k /\ attempt[a].outcome = "ok"
            BY <1>1, <1>2, <4>2, <4>3
          <5> QED BY <1>1, <5>1 DEF Succeeded
        <4>4. CASE c # a
          <5>1. x # k /\ x \in DOMAIN ledger
            BY <1>1, <3>3, <4>1, <4>4 DEF Leased, Taken, Busy
          <5>2. x \in DOMAIN ledger' /\ ledger'[x] = ledger[x]
            BY <1>1, <5>1
          <5>3. Busy(x, b)'
            BY <1>2, <3>3, <5>2 DEF Taken, Busy
          <5>4. attempt'[c] = attempt[c]
            BY <1>6, <4>4
          <5>5. Key(c)' = Key(c)
            BY <5>4 DEF Key
          <5> QED BY <4>1, <4>2, <5>2, <5>3, <5>4, <5>5 DEF Taken
        <4> QED BY <4>3, <4>4
      <3>4. ASSUME NEW w
            PROVE  /\ Succeeded(KeyOf(w)) => Succeeded(KeyOf(w))'
                   /\ Taken(KeyOf(w), b) => Taken(KeyOf(w), b)' \/ Succeeded(KeyOf(w))'
        <4>1. PICK x : x = KeyOf(w)
          OBVIOUS
        <4>2. KeyOf(w)' = x
          BY <2>3, <4>1
        <4> QED BY <3>2, <3>3, <4>1, <4>2
      <3> QED BY <2>1, <2>3, <3>1, <3>4 DEF AbsentOf
    <2> QED BY <1>5, <2>2, <2>4
  <1>12. AloneInv'
    <2> SUFFICES ASSUME overlap = "none"
                 PROVE  OneActive' /\ CommentedOnce' /\ \A b \in Attempts : UnsentOf(b)'
      BY <1>2 DEF AloneInv
    <2>1. OneActive /\ CommentedOnce /\ \A b \in Attempts : UnsentOf(b)
      BY DEF Core, AloneInv
    <2>2. CommentedOnce'
      BY <1>2, <2>1 DEF CommentedOnce
    <2>3. \A b \in Attempts : Active(b)' => Active(b)
      BY <1>3, <1>6 DEF Active
    <2>4. OneActive'
      BY <2>1, <2>3 DEF OneActive
    <2>5. \A b \in Attempts : b # a => UnsentOf(b)'
      BY <1>4, <1>6, <2>1 DEF UnsentOf, WritesInline, MidWrite
    <2> QED BY <1>5, <2>1, <2>2, <2>4, <2>5
  <1> QED BY <1>7, <1>9, <1>10, <1>11, <1>12 DEF Core

-----------------------------------------------------------------------------
(* Types, completion and approval, step by step.                           *)

\* What a step of a call does to its program state, in short.
LEMMA CallSteps ==
    ASSUME TypeOK, Core, NEW a \in Attempts, Step(a) \/ Crash(a)
    PROVE  /\ Only(a)
           /\ \/ attempt'[a].pc \in {"done", "fail"}
              \/ /\ attempt'[a].round = attempt[a].round
                 /\ attempt'[a].request = attempt[a].request
                 /\ Active(a) /\ attempt[a].pc # "fail"
              \/ \E q \in Requests : Begin(a, q)
  <1>0. attempt \in [Attempts -> CallState] /\ CallInv(a)
    BY DEF TypeOK, Core, CallsInv
  <1>1. CASE \E q \in Requests : Begin(a, q)
    BY <1>1, BeginMoves
  <1>2. CASE Load(a)
    BY <1>2, LoadMoves DEF Load, Active, Working
  <1>3. CASE ValidateTarget(a)
    <2>1. attempt[a].pc = "validate" /\ (Goto(a, "inline") \/ Raise(a))
      BY <1>3 DEF ValidateTarget
    <2> QED BY <1>0, <2>1, Goes, Leaves DEF Active, Working
  <1>4. CASE LoadInlineMarkers(a)
    <2>1. attempt[a].pc = "inline"
      BY <1>4 DEF LoadInlineMarkers
    <2>2. Only(a) /\ attempt'[a].round = attempt[a].round /\ attempt'[a].request = attempt[a].request
      BY <1>4, LoadInlineMoves DEF Planned
    <2> QED BY <2>1, <2>2 DEF Active, Working
  <1>5. CASE FindCheckRun(a) \/ FindSummaryComment(a)
    <2>1. PICK w \in Kinds :
             /\ attempt[a].pc = w
             /\ attempt' = [attempt EXCEPT ![a].pc = "acquire", ![a].write = w,
                                           ![a].exists = (Objects(w) # <<>>)]
      BY <1>5 DEF FindCheckRun, FindSummaryComment, Kinds, Objects
    <2>2. PICK e \in BOOLEAN : e = (Objects(w) # <<>>)
      OBVIOUS
    <2>3. Only(a) /\ attempt'[a].round = attempt[a].round /\ attempt'[a].request = attempt[a].request
      BY <1>0, <2>1, <2>2, FindMoves
    <2> QED BY <2>1, <2>3 DEF Active, Working, Kinds
  <1>6. CASE Acquire(a)
    <2>1. attempt[a].pc = "acquire" /\ Active(a) /\ MidWrite(a)
      BY <1>6 DEF Acquire, Active, Working, MidWrite
    <2>2. \/ Raise(a) \/ Goto(a, "send")
          \/ attempt' = [attempt EXCEPT ![a] = AfterWrite(a)]
      BY <1>6 DEF Acquire
    <2>3. attempt[a].write = "inline" => attempt[a].todo # <<>>
      BY <1>0, <2>1 DEF CallInv, BatchesOf, WritesInline
    <2>4. CASE Raise(a)
      BY <1>0, <2>4, Leaves
    <2>5. CASE Goto(a, "send")
      BY <1>0, <2>1, <2>5, Goes DEF Working
    <2>6. CASE attempt' = [attempt EXCEPT ![a] = AfterWrite(a)]
      BY <1>0, <2>1, <2>3, <2>6, AfterWriteMoves
    <2> QED BY <2>2, <2>4, <2>5, <2>6
  <1>7. CASE Send(a)
    BY <1>7, SendMoves DEF Sent, Active, Working
  <1>8. CASE Record(a)
    <2>1. attempt[a].pc = "record" /\ Active(a) /\ MidWrite(a)
      BY <1>8 DEF Record, Active, Working, MidWrite
    <2>2. attempt[a].write = "inline" => attempt[a].todo # <<>>
      BY <1>0, <2>1 DEF CallInv, BatchesOf, WritesInline
    <2>3. CASE attempt' = [attempt EXCEPT ![a] = AfterWrite(a)]
      BY <1>0, <2>1, <2>2, <2>3, AfterWriteMoves
    <2>4. CASE Only(a) /\ Degrades(a)
      BY <2>1, <2>4 DEF Degrades
    <2> QED BY <1>8, <2>3, <2>4, RecordMoves
  <1>9. CASE Finish(a) \/ MarkPublishFailed(a) \/ Crash(a)
    <2>1. Return(a)
      BY <1>9 DEF Finish, MarkPublishFailed, Crash
    <2> QED BY <1>0, <2>1, Leaves
  <1> QED BY <1>1, <1>2, <1>3, <1>4, <1>5, <1>6, <1>7, <1>8, <1>9 DEF Step

\* The steps of a call that neither begin nor end the publication.
Middle(a) ==
    \/ Load(a) \/ ValidateTarget(a) \/ LoadInlineMarkers(a)
    \/ FindCheckRun(a) \/ FindSummaryComment(a)
    \/ Acquire(a) \/ Send(a) \/ Record(a) \/ Crash(a)

LEMMA MiddleKeeps ==
    ASSUME NEW a \in Attempts, Middle(a)
    PROVE  UNCHANGED <<run, valid, completed, head, stale, clock, edits, round>>
  BY DEF Middle, Load, ValidateTarget, LoadInlineMarkers, FindCheckRun,
         FindSummaryComment, Acquire, Send, Record, Crash

LEMMA CallCore ==
    ASSUME TypeOK, Core, NEW a \in Attempts, Step(a) \/ Crash(a)
    PROVE  Core'
  <1>1. CASE \E q \in Requests : Begin(a, q)
    BY <1>1, BeginCore
  <1>2. CASE Load(a) \/ ValidateTarget(a) \/ Finish(a) \/ MarkPublishFailed(a) \/ Crash(a)
    BY <1>2, CalmSteps
  <1>3. CASE LoadInlineMarkers(a)
    BY <1>3, LoadInlineCore
  <1>4. CASE FindCheckRun(a) \/ FindSummaryComment(a)
    BY <1>4, FindCore
  <1>5. CASE Acquire(a)
    BY <1>5, AcquireCore
  <1>6. CASE Send(a)
    BY <1>6, SendCore
  <1>7. CASE Record(a)
    BY <1>7, RecordCore
  <1> QED BY <1>1, <1>2, <1>3, <1>4, <1>5, <1>6, <1>7 DEF Step

\* GitHub loses neither its check run nor its summary.
LEMMA GitHubKept ==
    ASSUME TypeOK, Core, NEW a \in Attempts, Step(a) \/ Crash(a)
    PROVE  /\ github' \in GitHubState
           /\ github.check # <<>> => github'.check # <<>>
           /\ github.summary # <<>> => github'.summary # <<>>
  <1>1. CASE Send(a)
    <2>1. github' = github \/ github' = Landed(a)
      BY <1>1 DEF Send
    <2>2. MidWrite(a) /\ CallInv(a)
      BY <1>1 DEF Send, MidWrite, Core, CallsInv
    <2>3. CASE github' = Landed(a)
      BY <2>2, <2>3, LandsGrows DEF Grows
    <2> QED BY <2>1, <2>3 DEF TypeOK
  <1>2. CASE ~Send(a)
    <2>1. github' = github
      BY <1>2 DEF Step, Begin, Load, ValidateTarget, LoadInlineMarkers, FindCheckRun,
                  FindSummaryComment, Acquire, Record, Finish, MarkPublishFailed, Crash
    <2> QED BY <2>1 DEF TypeOK
  <1> QED BY <1>1, <1>2

LedgerTyped == \A k \in DOMAIN ledger : k \in Keys /\ ledger[k] \in LedgerRow

LEMMA KeyTyped ==
    ASSUME TypeOK, NEW a \in Attempts, MidWrite(a), CallInv(a)
    PROVE  Key(a) \in Keys
  <1>1. attempt[a] \in CallState
    BY DEF TypeOK
  <1>2. CASE attempt[a].write = "inline"
    <2>1. attempt[a].todo \in Seq(Seq(Findings)) /\ attempt[a].todo # <<>>
          /\ attempt[a].index \in Nat
      BY <1>1, <1>2 DEF CallState, CallInv, BatchesOf, WritesInline
    <2>2. Head(attempt[a].todo) \in Seq(Findings)
      BY <2>1, TailMembers
    <2> QED BY <1>2, <2>1, <2>2 DEF Key, InlineKey, Keys
  <1>3. CASE attempt[a].write # "inline"
    <2>1. <<>> \in Seq(Findings)
      OBVIOUS
    <2> QED BY <1>3, <2>1 DEF Key, CheckKey, SummaryKey, Keys
  <1> QED BY <1>2, <1>3

LEMMA LedgerKept ==
    ASSUME TypeOK, Core, NEW a \in Attempts, Step(a) \/ Crash(a)
    PROVE  LedgerTyped'
  <1>0. LedgerTyped /\ clock \in Nat /\ CallInv(a)
    BY PublishingAssumption DEF TypeOK, LedgerTyped, Core, CallsInv
  <1>1. ASSUME NEW k \in Keys, NEW row \in LedgerRow,
               DOMAIN ledger' = DOMAIN ledger \union {k}, ledger'[k] = row,
               \A x \in DOMAIN ledger : x # k => ledger'[x] = ledger[x]
        PROVE  LedgerTyped'
    <2>1. ASSUME NEW x \in DOMAIN ledger'
          PROVE  x \in Keys /\ ledger'[x] \in LedgerRow
      BY <1>0, <1>1, <2>1 DEF LedgerTyped
    <2> QED BY <2>1 DEF LedgerTyped, Keys, LedgerRow
  <1>2. CASE ledger' = ledger
    BY <1>0, <1>2 DEF LedgerTyped, Keys, LedgerRow
  <1>3. CASE Leases(a)
    <2>1. Key(a) \in Keys
      BY <1>0, <1>3, KeyTyped DEF Leases, MidWrite
    <2>2. PICK row : row = [state |-> "running", owner |-> a, expires |-> clock + 1]
      OBVIOUS
    <2>3. row \in LedgerRow
      BY <1>0, <2>2 DEF LedgerRow
    <2>4. SetRow(Key(a), row)
      BY <1>3, <2>2 DEF Leases
    <2> QED BY <1>1, <2>1, <2>3, <2>4, RowSet
  <1>4. CASE Record(a)
    <2>1. Key(a) \in Keys
      BY <1>0, <1>4, KeyTyped DEF Record, MidWrite
    <2> QED BY <1>1, <1>4, <2>1, Recorded
  <1>5. ledger' = ledger \/ Leases(a) \/ Record(a)
    BY DEF Step, Begin, Load, ValidateTarget, LoadInlineMarkers, FindCheckRun,
           FindSummaryComment, Acquire, Leases, Send, Finish, MarkPublishFailed, Crash
  <1> QED BY <1>2, <1>3, <1>4, <1>5

RunTyped == run \in [status : {"awaiting_publish", "publishing", "completed", "reviewing"},
                     token : Attempts \cup {NoAttempt}, updated : 0..MaxTime]

LEMMA CallTypes ==
    ASSUME TypeOK, Core, RequestInv, NEW a \in Attempts, Step(a) \/ Crash(a)
    PROVE  TypeOK'
  <1>1. /\ attempt' \in [Attempts -> CallState] /\ github' \in GitHubState /\ LedgerTyped'
    BY CallSteps, GitHubKept, LedgerKept DEF Only
  <1>2. /\ valid' = valid /\ head' = head /\ stale' = stale /\ clock' = clock
        /\ edits' = edits /\ round' = round
    BY DEF Step, Begin, Load, ValidateTarget, LoadInlineMarkers, FindCheckRun,
           FindSummaryComment, Acquire, Send, Record, Finish, MarkPublishFailed, Crash
  <1>3. faults' \in 0..MaxFaults
    <2>1. faults' = faults \/ (faults' = faults + 1 /\ faults < MaxFaults)
      BY DEF Step, Begin, Load, ValidateTarget, LoadInlineMarkers, FindCheckRun,
             FindSummaryComment, Acquire, Send, Record, Finish, MarkPublishFailed, Crash
    <2> QED BY <2>1, PublishingAssumption DEF TypeOK
  <1>4. overlap' \in {"none", "some", "lost"}
    <2>1. overlap' \in {overlap, "some", "lost"}
      BY DEF Step, Begin, Load, ValidateTarget, LoadInlineMarkers, FindCheckRun,
             FindSummaryComment, Acquire, Send, Record, Finish, MarkPublishFailed, Crash
    <2> QED BY <2>1 DEF TypeOK
  <1>5. RunTyped' /\ completed' \subseteq Requests
    <2>0. RunTyped /\ completed \subseteq Requests /\ clock \in 0..MaxTime
      BY DEF TypeOK, RunTyped
    <2>1. CASE Middle(a)
      BY <2>0, <2>1, MiddleKeeps DEF RunTyped
    <2>2. CASE \E q \in Requests : Begin(a, q)
      BY <2>0, <2>2 DEF Begin, RunTyped
    <2>3. CASE Finish(a)
      <3>1. \/ run' = run
            \/ run' = [status |-> "completed", token |-> NoAttempt, updated |-> clock]
            \/ run' = [run EXCEPT !.token = IF @ = a THEN NoAttempt ELSE @]
        BY <2>3 DEF Finish
      <3>2. RunTyped'
        BY <2>0, <3>1 DEF RunTyped
      <3>3. completed' = completed \/ completed' = completed \union {attempt[a].request}
        BY <2>3 DEF Finish
      <3>4. attempt[a].request \in Requests
        BY <2>3 DEF Finish, RequestInv, Active, Working
      <3> QED BY <2>0, <3>2, <3>3, <3>4
    <2>4. CASE MarkPublishFailed(a)
      BY <2>0, <2>4 DEF MarkPublishFailed, RunTyped
    <2> QED BY <2>1, <2>2, <2>3, <2>4 DEF Step, Middle
  <1> QED BY <1>1, <1>2, <1>3, <1>4, <1>5 DEF TypeOK, LedgerTyped, RunTyped

LEMMA CallRequests ==
    ASSUME TypeOK, Core, RequestInv, NEW a \in Attempts, Step(a) \/ Crash(a)
    PROVE  RequestInv'
  <1>1. ASSUME NEW b \in Attempts, Active(b)', attempt'[b].pc # "fail"
        PROVE  attempt'[b].request \in Requests
    <2>1. CASE b # a
      <3>1. attempt'[b] = attempt[b]
        BY <2>1, CallSteps DEF Only
      <3> QED BY <1>1, <3>1 DEF RequestInv, Active
    <2>2. CASE b = a
      <3>1. \/ attempt'[a].request = attempt[a].request /\ Active(a) /\ attempt[a].pc # "fail"
            \/ \E q \in Requests : Begin(a, q)
        BY <1>1, <2>2, CallSteps DEF Active, Working
      <3>2. CASE \E q \in Requests : Begin(a, q)
        BY <2>2, <3>2, BeginMoves
      <3> QED BY <2>2, <3>1, <3>2 DEF RequestInv
    <2> QED BY <2>1, <2>2
  <1> QED BY <1>1 DEF RequestInv

LEMMA CallCompletes ==
    ASSUME TypeOK, Core, CompletedIsPublished, NEW a \in Attempts, Step(a) \/ Crash(a)
    PROVE  CompletedIsPublished'
  <1>1. CASE run.status = "completed"
    BY <1>1, GitHubKept DEF CompletedIsPublished
  <1>2. CASE run.status # "completed" /\ run'.status = "completed"
    <2>1. RunTyped
      BY DEF TypeOK, RunTyped
    <2>2. Finish(a)
      <3>1. ASSUME NEW q \in Requests, Begin(a, q) PROVE FALSE
        BY <1>2, <3>1 DEF Begin
      <3>2. ASSUME Middle(a) PROVE FALSE
        BY <1>2, <3>2, MiddleKeeps
      <3>3. ASSUME MarkPublishFailed(a) PROVE FALSE
        BY <1>2, <3>3 DEF MarkPublishFailed
      <3> QED BY <3>1, <3>2, <3>3 DEF Step, Middle
    <2>3. attempt[a].pc = "finish" /\ ReadOf(a)
      BY <2>2 DEF Finish, Core, CallsInv, CallInv
    <2>4. github.check # <<>> /\ github.summary # <<>>
      BY <2>3 DEF ReadOf
    <2> QED BY <2>4, GitHubKept DEF CompletedIsPublished
  <1> QED BY <1>1, <1>2 DEF CompletedIsPublished

LEMMA CallRounds ==
    ASSUME TypeOK, Core, RoundInv, NEW a \in Attempts, Step(a) \/ Crash(a)
    PROVE  RoundInv'
  <1>0. RunTyped /\ NoAttempt \notin Attempts
    BY PublishingAssumption DEF TypeOK, RunTyped
  <1> SUFFICES ASSUME NEW b \in Attempts, run'.status = "publishing", run'.token = b,
                      Active(b)', attempt'[b].pc # "fail"
               PROVE  attempt'[b].round = round'
    BY DEF RoundInv
  <1>1. round' = round
    BY DEF Step, Begin, Load, ValidateTarget, LoadInlineMarkers, FindCheckRun,
           FindSummaryComment, Acquire, Send, Record, Finish, MarkPublishFailed, Crash
  <1>2. CASE \E q \in Requests : Begin(a, q)
    <2>1. run'.token = a
      BY <1>2 DEF Begin
    <2> QED BY <1>1, <1>2, <2>1, BeginMoves
  <1>3. CASE Middle(a) \/ Finish(a) \/ MarkPublishFailed(a)
    <2>1. run.status = "publishing" /\ run.token = b
      <3>1. CASE Middle(a)
        BY <3>1, MiddleKeeps
      <3>2. CASE Finish(a)
        BY <1>0, <3>2 DEF Finish, RunTyped
      <3>3. CASE MarkPublishFailed(a)
        BY <1>0, <3>3 DEF MarkPublishFailed, RunTyped
      <3> QED BY <1>3, <3>1, <3>2, <3>3
    <2>2. CASE b # a
      <3>1. attempt'[b] = attempt[b]
        BY <2>2, CallSteps DEF Only
      <3> QED BY <1>1, <2>1, <3>1 DEF RoundInv, Active
    <2>3. CASE b = a
      <3>1. \/ /\ attempt'[a].round = attempt[a].round
               /\ Active(a) /\ attempt[a].pc # "fail"
            \/ \E q \in Requests : Begin(a, q)
        BY <2>3, CallSteps DEF Active, Working
      <3> QED BY <1>1, <1>2, <2>1, <2>3, <3>1 DEF RoundInv
    <2> QED BY <2>2, <2>3
  <1> QED BY <1>2, <1>3 DEF Step, Middle

-----------------------------------------------------------------------------
(* The other steps, and the theorems.                                      *)

\* The operators, the author, time, or nobody.
Elsewhere ==
    \/ \E f \in Findings : ReviewFinding(f)
    \/ Reject \/ RetryFailedNode \/ Approve \/ Push \/ Supersede \/ Tick
    \/ UNCHANGED vars

LEMMA ElsewhereKeeps ==
    ASSUME Elsewhere
    PROVE  /\ attempt' = attempt /\ ledger' = ledger /\ github' = github
           /\ overlap' = overlap /\ completed' = completed /\ faults' = faults
           /\ clock' = clock \/ (Tick /\ run' = run)
  BY DEF Elsewhere, ReviewFinding, Reject, RetryFailedNode, Approve, Push, Supersede,
         Tick, vars

LEMMA ElsewhereTypes ==
    ASSUME TypeOK, Elsewhere
    PROVE  TypeOK'
  <1>1. clock \in 0..MaxTime /\ RunTyped /\ valid \subseteq Findings
        /\ MaxTime \in Nat /\ MaxEdits \in Nat
    BY PublishingAssumption DEF TypeOK, RunTyped
  <1>2. /\ valid' \subseteq Findings /\ head' \in {"current", "moved"}
        /\ round' \in Nat /\ stale' \in BOOLEAN
    <2>1. valid' \subseteq Findings
      BY <1>1 DEF Elsewhere, ReviewFinding, Reject, RetryFailedNode, Approve, Push,
                  Supersede, Tick, vars
    <2>2. head' \in {head, "moved"} /\ head \in {"current", "moved"}
      BY DEF TypeOK, Elsewhere, ReviewFinding, Reject, RetryFailedNode, Approve, Push,
             Supersede, Tick, vars
    <2>3. round' \in {round, round + 1} /\ round \in Nat
      BY DEF TypeOK, Elsewhere, ReviewFinding, Reject, RetryFailedNode, Approve, Push,
             Supersede, Tick, vars
    <2>4. stale' = stale \/ Supersede
      BY DEF Elsewhere, ReviewFinding, Reject, RetryFailedNode, Approve, Push, Tick, vars
    <2>5. stale' \in BOOLEAN
      <3>1. CASE stale' = stale
        BY <3>1 DEF TypeOK
      <3>2. CASE Supersede
        BY <3>2 DEF Supersede
      <3> QED BY <2>4, <3>1, <3>2
    <2> QED BY <2>1, <2>2, <2>3, <2>5
  <1>3. edits' \in 0..MaxEdits
    <2>1. edits' = edits \/ (edits' = edits + 1 /\ edits < MaxEdits)
      BY DEF Elsewhere, Edit, ReviewFinding, Reject, RetryFailedNode, Approve, Push,
             Supersede, Tick, vars
    <2> QED BY <1>1, <2>1 DEF TypeOK
  <1>4. clock' \in 0..MaxTime
    <2>1. clock' = clock \/ (clock' = clock + 1 /\ clock < MaxTime)
      BY DEF Elsewhere, ReviewFinding, Reject, RetryFailedNode, Approve, Push,
             Supersede, Tick, vars
    <2> QED BY <1>1, <2>1
  <1>5. RunTyped'
    <2>1. \/ run' = run
          \/ run' = [run EXCEPT !.status = "reviewing", !.updated = clock]
          \/ run' = [run EXCEPT !.status = "awaiting_publish", !.updated = clock]
      BY DEF Elsewhere, ReviewFinding, Reject, RetryFailedNode, Approve, Push,
             Supersede, Tick, vars
    <2> QED BY <1>1, <2>1 DEF RunTyped
  <1>6. LedgerTyped'
    BY ElsewhereKeeps DEF TypeOK, LedgerTyped, Keys, LedgerRow
  <1> QED BY <1>2, <1>3, <1>4, <1>5, <1>6, ElsewhereKeeps DEF TypeOK, LedgerTyped, RunTyped

LEMMA ElsewhereCore ==
    ASSUME TypeOK, Core, Elsewhere
    PROVE  Core'
  <1>1. /\ attempt' = attempt /\ ledger' = ledger /\ github' = github /\ overlap' = overlap
        /\ clock' = clock \/ Tick
    BY ElsewhereKeeps
  <1>2. Posted' = Posted /\ Grows
    BY <1>1, PostedFinite DEF Posted, Grows
  <1>3. clock' = clock \/ \A a \in Attempts : ~MidWrite(a)
    BY <1>1 DEF Tick
  <1>4. CallsInv'
    <2>1. ASSUME NEW b \in Attempts PROVE CallInv(b)'
      <3>1. CallInv(b) /\ attempt'[b] = attempt[b]
        BY <1>1 DEF Core, CallsInv
      <3>2. Key(b)' = Key(b)
        BY <3>1 DEF Key
      <3>3. attempt[b].pc \in {"send", "record"} => Leased(b, Key(b))'
        BY <1>1, <1>3, <3>1, <3>2 DEF CallInv, LeaseOf, Leased, MidWrite
      <3> QED BY <1>2, <3>1, <3>3, OtherCall DEF TypeOK
    <2> QED BY <2>1 DEF CallsInv
  <1>5. DoneInv'
    <2>1. ASSUME NEW k, Done(k) PROVE Done(k)'
      BY <1>2, <2>1, DoneGrows
    <2> QED BY <1>1, <2>1 DEF Core, DoneInv
  <1>6. CountTruthful'
    BY <1>1 DEF Core, CountTruthful
  <1>7. AbsentInv'
    <2> SUFFICES ASSUME overlap # "lost"
                 PROVE  Single' /\ \A b \in Attempts : AbsentOf(b)'
      BY <1>1 DEF AbsentInv
    <2>1. Single /\ \A b \in Attempts : AbsentOf(b)
      BY DEF Core, AbsentInv
    <2>2. Single'
      BY <1>1, <2>1 DEF Single, Objects
    <2>3. CASE clock' = clock
      <3>1. \A x, b : Taken(x, b) => Taken(x, b)'
        BY <1>1, <2>3 DEF Taken, Busy, Key
      <3>2. \A x : Succeeded(x) => Succeeded(x)'
        BY <1>1 DEF Succeeded
      <3>3. ASSUME NEW w
            PROVE  /\ Objects(w)' = Objects(w)
                   /\ Succeeded(KeyOf(w)) => Succeeded(KeyOf(w))'
                   /\ \A b : Taken(KeyOf(w), b) => Taken(KeyOf(w), b)'
        <4>1. PICK x : x = KeyOf(w)
          OBVIOUS
        <4>2. KeyOf(w)' = x
          BY <4>1 DEF KeyOf, CheckKey, SummaryKey
        <4> QED BY <1>1, <3>1, <3>2, <4>1, <4>2 DEF Objects
      <3> QED BY <1>1, <2>1, <2>2, <3>3 DEF AbsentOf
    <2>4. CASE \A a \in Attempts : ~MidWrite(a)
      <3>1. \A b \in Attempts : attempt'[b].pc \notin {"send", "acquire"}
        BY <1>1, <2>4 DEF MidWrite
      <3> QED BY <2>2, <3>1 DEF AbsentOf
    <2> QED BY <1>3, <2>3, <2>4
  <1>8. AloneInv'
    <2>1. \A b \in Attempts : (UnsentOf(b) => UnsentOf(b)') /\ Active(b)' = Active(b)
      BY <1>1, <1>2 DEF UnsentOf, WritesInline, MidWrite, Active
    <2> QED BY <1>1, <2>1 DEF Core, AloneInv, OneActive, CommentedOnce
  <1> QED BY <1>4, <1>5, <1>6, <1>7, <1>8 DEF Core

LEMMA ElsewhereRest ==
    ASSUME TypeOK, RequestInv, CompletedIsPublished, RoundInv, Elsewhere
    PROVE  RequestInv' /\ CompletedIsPublished' /\ RoundInv'
  <1>1. attempt' = attempt /\ github' = github
    BY ElsewhereKeeps
  <1>2. RequestInv'
    BY <1>1 DEF RequestInv, Active
  <1>3. RunTyped
    BY DEF TypeOK, RunTyped
  <1>4. \/ run'.status = run.status /\ run'.token = run.token /\ round' = round
        \/ run'.status \in {"reviewing", "awaiting_publish"}
    BY <1>3 DEF Elsewhere, ReviewFinding, Reject, RetryFailedNode, Approve, Push,
                Supersede, Tick, vars, RunTyped
  <1>5. CompletedIsPublished'
    BY <1>1, <1>4 DEF CompletedIsPublished
  <1>6. RoundInv'
    BY <1>1, <1>4 DEF RoundInv, Active
  <1> QED BY <1>2, <1>5, <1>6

LEMMA PublishInit ==
    ASSUME Init
    PROVE  PublishInv
  <1>1. \A a \in Attempts : attempt[a] = IdleAttempt
    BY DEF Init
  <1>2. IdleAttempt.pc = "idle"
    BY DEF IdleAttempt
  <1>3. \A a \in Attempts : /\ ~Active(a) /\ ~MidWrite(a) /\ ~WritesInline(a)
                            /\ ~PastInline(a)
                            /\ attempt[a].pc \notin {"acquire", "send", "record", "finish",
                                                     "summary"}
    BY <1>1, <1>2 DEF Active, Working, MidWrite, WritesInline, PastInline
  <1>4. TypeOK
    <2>1. attempt \in [Attempts -> CallState]
      BY IdleIsState DEF Init
    <2>2. github \in GitHubState /\ LedgerTyped
      <3>1. <<>> \in Seq(Content) /\ [f \in Findings |-> 0] \in [Findings -> Nat]
        OBVIOUS
      <3>2. DOMAIN <<>> = {}
        OBVIOUS
      <3> QED BY <3>1, <3>2 DEF Init, GitHubState, LedgerTyped
    <2>3. RunTyped
      BY PublishingAssumption DEF Init, RunTyped
    <2>5. stale \in BOOLEAN
      BY DEF Init
    <2>4. /\ valid \subseteq Findings /\ completed = {} /\ head = "current"
          /\ clock = 0 /\ faults = 0 /\ edits = 0 /\ round = 0 /\ overlap = "none"
          /\ MaxTime \in Nat /\ MaxFaults \in Nat /\ MaxEdits \in Nat
      BY PublishingAssumption DEF Init
    <2> QED BY <2>1, <2>2, <2>3, <2>4, <2>5 DEF TypeOK, LedgerTyped, RunTyped
  <1>5. CallsInv
    BY <1>3 DEF CallsInv, CallInv, BatchesOf, CountOf, LeaseOf, OutcomeOf, ReadOf
  <1>6. /\ github.check = <<>> /\ github.summary = <<>>
        /\ \A f \in Findings : github.inline[f] = 0
    BY DEF Init
  <1>7. DoneInv
    <2>1. DOMAIN ledger = {}
      BY DEF Init
    <2> QED BY <2>1 DEF DoneInv
  <1>8. CountTruthful
    <2>1. Counted
      BY <1>6 DEF Counted, Objects, Kinds
    <2> QED BY <1>4, <2>1, CountedTruthfully DEF TypeOK
  <1>9. AbsentInv
    BY <1>3, <1>6 DEF AbsentInv, Single, Objects, AbsentOf
  <1>10. AloneInv
    BY <1>3, <1>6 DEF AloneInv, OneActive, CommentedOnce, UnsentOf
  <1>11. RequestInv /\ RoundInv /\ CompletedIsPublished
    BY <1>3 DEF RequestInv, RoundInv, CompletedIsPublished, Init
  <1> QED BY <1>4, <1>5, <1>7, <1>8, <1>9, <1>10, <1>11 DEF PublishInv, Core

LEMMA PublishStep ==
    ASSUME PublishInv, [Next]_vars
    PROVE  PublishInv'
  <1>1. CASE \E a \in Attempts : Step(a) \/ Crash(a)
    BY <1>1, CallTypes, CallCore, CallRequests, CallCompletes, CallRounds DEF PublishInv
  <1>2. CASE Elsewhere
    BY <1>2, ElsewhereTypes, ElsewhereCore, ElsewhereRest DEF PublishInv
  <1> QED BY <1>1, <1>2 DEF Next, Elsewhere

\* The inductive invariant: what each call has read, counted and leased agrees
\* with the ledger of external actions and with what GitHub holds.
THEOREM PublishInvariant == Spec => []PublishInv
  <1>1. Init => PublishInv
    BY PublishInit
  <1>2. PublishInv /\ [Next]_vars => PublishInv'
    BY PublishStep
  <1> QED BY <1>1, <1>2, PTL DEF Spec

\* Whatever calls of the publish endpoint crash, lose answers or take over from
\* each other: a finding is commented once and the check run and the summary
\* exist once unless calls overlap, a completed review has both, and neither
\* announces more comments than the pull request has.
THEOREM ShownOnceAndTrue == Spec => []GitHubTruthful
  <1>1. PublishInv => GitHubTruthful
    <2> SUFFICES ASSUME PublishInv PROVE GitHubTruthful
      OBVIOUS
    <2>1. CompletedIsPublished /\ CountTruthful
      BY DEF PublishInv, Core
    <2>2. overlap # "lost" => Len(github.check) <= 1 /\ Len(github.summary) <= 1
      BY DEF PublishInv, Core, AbsentInv, Single, Objects, Kinds
    <2>3. overlap = "none" => \A f \in Findings : github.inline[f] <= 1
      BY DEF PublishInv, Core, AloneInv, CommentedOnce
    <2> QED BY <2>1, <2>2, <2>3 DEF GitHubTruthful, NoDuplicates
  <1> QED BY <1>1, PublishInvariant, PTL

\* A call completes the review only under the approval it was started under.
THEOREM CompletesOwnApproval == Spec => OwnApprovalOnly
  <1>1. ASSUME PublishInv, NEW a \in Attempts, run.status # "completed",
               run'.status = "completed", Finish(a)
        PROVE  attempt[a].round = round
    <2>1. attempt[a].pc = "finish"
      BY <1>1 DEF Finish
    <2>2. RunTyped
      BY <1>1 DEF PublishInv, TypeOK, RunTyped
    <2>3. CASE attempt[a].request \in completed
      <3>1. UNCHANGED <<run, completed>>
        BY <1>1, <2>3 DEF Finish
      <3>2. run' = run
        BY <3>1
      <3> QED BY <3>2, <1>1
    <2>4. CASE attempt[a].request \notin completed
               /\ ~(run.status = "publishing" /\ run.token = a)
      <3>1. run' = [run EXCEPT !.token = IF @ = a THEN NoAttempt ELSE @]
        BY <1>1, <2>4 DEF Finish
      <3>2. run'.status = run.status
        BY <3>1, <2>2 DEF RunTyped
      <3> QED BY <3>2, <1>1
    <2>5. CASE run.status = "publishing" /\ run.token = a
      BY <1>1, <2>1, <2>5 DEF PublishInv, RoundInv, Active, Working
    <2> QED BY <2>3, <2>4, <2>5
  <1>2. PublishInv /\ [Next]_vars =>
            [ \A a \in Attempts :
                run.status # "completed" /\ run'.status = "completed" /\ Finish(a)
                   => attempt[a].round = round ]_vars
    BY <1>1
  <1> QED BY PublishInvariant, <1>2, PTL DEF Spec, OwnApprovalOnly
=============================================================================
