-------------------------- MODULE ModelUsageProofs --------------------------
(***************************************************************************)
(* Proofs about ModelUsage for every number of calls, requests, budgets    *)
(* and limits: the ledger balances, budgets hold, the channel's limit      *)
(* holds and nothing stays reserved without a reason.                      *)
(***************************************************************************)
EXTENDS ModelUsage, FiniteSetTheorems, TLAPS

-----------------------------------------------------------------------------
(* Totals of sequences of integers.                                        *)

\* Induction over an interval, for a set: the smallest prefix of the interval
\* that is not within the set would end at a successor of a member.
LEMMA IntervalInduction ==
    ASSUME NEW N \in Nat, NEW P, 0 \in P,
           \A i \in 1..N : i - 1 \in P => i \in P
    PROVE  \A i \in 0..N : i \in P
  <1> DEFINE D == {i \in 0..N : i \notin P}
             T == {0..i : i \in D}
             U == 0..N
  <1> SUFFICES ASSUME D # {} PROVE FALSE
    OBVIOUS
  <1>1. IsFiniteSet(U)
    BY FS_Interval
  <1>2. T \subseteq FiniteSubsetsOf(U)
    <2> SUFFICES ASSUME NEW i \in D PROVE 0..i \in FiniteSubsetsOf(U)
      OBVIOUS
    <2>1. 0..i \subseteq U /\ IsFiniteSet(0..i)
      BY FS_Interval
    <2> QED BY <2>1 DEF FiniteSubsetsOf
  <1>3. PICK E \in T : \A F \in T : ~(<<F, E>> \in StrictSubsetOrdering(U))
    <2>1. T # {}
      OBVIOUS
    <2> HIDE DEF T, U
    <2> QED BY <1>1, <1>2, <2>1, FS_StrictSubsetOrderingWellFounded, WFMin
  <1>4. PICK i \in D : E = 0..i
    BY <1>3
  <1>5. i # 0 /\ i - 1 \in D
    BY <1>4
  <1>6. /\ 0..(i - 1) \in T /\ 0..(i - 1) \subseteq 0..i
        /\ i \in 0..i /\ i \notin 0..(i - 1)
        /\ 0..i \subseteq U /\ 0..(i - 1) \subseteq U
    BY <1>4, <1>5
  <1> HIDE DEF T, U, D
  <1> QED BY <1>3, <1>4, <1>6 DEF StrictSubsetOrdering

\* f[i] is the sum of the first i numbers of s.
Sums(s, f, n) ==
    /\ f \in [0..n -> Int]
    /\ f[0] = 0
    /\ \A i \in 1..n : f[i] = f[i - 1] + s[i]

LEMMA SumsExist ==
    ASSUME NEW s \in Seq(Int)
    PROVE  \E f : Sums(s, f, Len(s))
  <1>0. PICK N \in Nat : N = Len(s)
    OBVIOUS
  <1> DEFINE P == {n \in 0..N : \E f : Sums(s, f, n)}
  <1>1. N \in Nat
    BY <1>0
  <1>2. 0 \in P
    <2>1. Sums(s, [i \in 0..0 |-> 0], 0)
      BY DEF Sums
    <2> QED BY <1>1, <2>1
  <1>3. ASSUME NEW n \in 1..N, n - 1 \in P
        PROVE  n \in P
    <2>1. PICK f : Sums(s, f, n - 1)
      BY <1>3
    <2> DEFINE g == [i \in 0..n |-> IF i = n THEN f[n - 1] + s[n] ELSE f[i]]
    <2>2. s[n] \in Int /\ n \in Nat /\ n - 1 \in 0..(n - 1) /\ n # 0
          /\ f[n - 1] \in Int
      BY <1>0, <1>3, <2>1 DEF Sums
    <2>3. \A i \in 0..n : i # n => i \in 0..(n - 1) /\ f[i] \in Int
      BY <2>1, <2>2 DEF Sums
    <2>4. g \in [0..n -> Int] /\ g[0] = 0
      BY <2>1, <2>2, <2>3 DEF Sums
    <2>5. ASSUME NEW i \in 1..n
          PROVE  g[i] = g[i - 1] + s[i]
      <3>1. CASE i = n
        BY <2>2, <3>1
      <3>2. CASE i # n
        <4>1. i \in 1..(n - 1) /\ i - 1 \in 0..n /\ i - 1 # n /\ i \in 0..n
          BY <2>2, <3>2
        <4>2. f[i] = f[i - 1] + s[i]
          BY <2>1, <4>1 DEF Sums
        <4> QED BY <3>2, <4>1, <4>2
      <3> QED BY <3>1, <3>2
    <2> HIDE DEF g
    <2>6. Sums(s, g, n)
      BY <2>4, <2>5 DEF Sums
    <2> QED BY <2>6
  <1> HIDE DEF P
  <1>4. N \in P
    <2>1. \A i \in 0..N : i \in P
      BY <1>2, <1>3, IntervalInduction
    <2> QED BY <2>1
  <1> QED BY <1>0, <1>4 DEF P

LEMMA TotalSums ==
    ASSUME NEW s \in Seq(Int)
    PROVE  \E f : Sums(s, f, Len(s)) /\ Total(s) = f[Len(s)]
  <1>0. PICK N \in Nat : N = Len(s)
    OBVIOUS
  <1> DEFINE Step(f) == f = [i \in 0..N |-> IF i = 0 THEN 0 ELSE f[i - 1] + s[i]]
             g == CHOOSE f : Step(f)
  <1>1. N \in Nat
    BY <1>0
  <1>2. PICK f : Sums(s, f, N)
    BY <1>0, SumsExist
  <1>3. Step(f)
    BY <1>1, <1>2 DEF Sums
  <1>4. Step(g)
    BY <1>3
  <1>5. Total(s) = g[N]
    BY <1>0 DEF Total
  <1> HIDE DEF g
  <1> DEFINE P == {n \in 0..N : g[n] = f[n]}
  <1>6. 0 \in P
    BY <1>2, <1>4 DEF Sums
  <1>7. ASSUME NEW n \in 1..N, n - 1 \in P PROVE n \in P
    <2>1. g[n] = g[n - 1] + s[n] /\ f[n] = f[n - 1] + s[n]
      BY <1>2, <1>4 DEF Sums
    <2> QED BY <1>7, <2>1
  <1> HIDE DEF P, Step
  <1>8. N \in P
    <2>1. \A i \in 0..N : i \in P
      BY <1>6, <1>7, IntervalInduction
    <2> QED BY <2>1
  <1> QED BY <1>0, <1>2, <1>5, <1>8 DEF P

LEMMA TotalEmpty == Total(<<>>) = 0
  <1>1. <<>> \in Seq(Int) /\ Len(<<>>) = 0
    OBVIOUS
  <1>2. PICK f : Sums(<<>>, f, 0) /\ Total(<<>>) = f[0]
    BY <1>1, TotalSums
  <1> QED BY <1>2 DEF Sums

LEMMA TotalAppend ==
    ASSUME NEW s \in Seq(Int), NEW t \in Seq(Int), Len(t) = Len(s) + 1,
           \A i \in 1..Len(s) : t[i] = s[i]
    PROVE  Total(t) = Total(s) + t[Len(t)] /\ Total(s) \in Int
  <1>0. PICK N \in Nat : N = Len(s)
    OBVIOUS
  <1>1. /\ N \in Nat /\ t \in Seq(Int) /\ Len(t) = N + 1
        /\ \A i \in 1..N : t[i] = s[i]
    BY <1>0
  <1>2. PICK f : Sums(s, f, N) /\ Total(s) = f[N]
    BY <1>0, TotalSums
  <1>3. PICK g : Sums(t, g, N + 1) /\ Total(t) = g[N + 1]
    BY <1>0, <1>1, TotalSums
  <1> DEFINE P == {n \in 0..N : g[n] = f[n]}
  <1>4. 0 \in P
    BY <1>1, <1>2, <1>3 DEF Sums
  <1>5. ASSUME NEW n \in 1..N, n - 1 \in P PROVE n \in P
    <2>1. g[n] = g[n - 1] + t[n] /\ f[n] = f[n - 1] + s[n]
      BY <1>0, <1>1, <1>2, <1>3 DEF Sums
    <2> QED BY <1>1, <1>5, <2>1
  <1> HIDE DEF P
  <1>6. N \in P
    <2>1. \A i \in 0..N : i \in P
      BY <1>4, <1>5, IntervalInduction
    <2> QED BY <2>1
  <1>7. g[N + 1] = g[N] + t[N + 1]
    BY <1>1, <1>3 DEF Sums
  <1>8. f[N] \in Int
    BY <1>1, <1>2 DEF Sums
  <1> QED BY <1>0, <1>2, <1>3, <1>6, <1>7, <1>8 DEF P

LEMMA TotalChange ==
    ASSUME NEW s \in Seq(Int), NEW t \in Seq(Int), Len(t) = Len(s),
           NEW j \in 1..Len(s), \A i \in 1..Len(s) : i # j => t[i] = s[i]
    PROVE  Total(t) = Total(s) - s[j] + t[j]
  <1>0. PICK N \in Nat : N = Len(s)
    OBVIOUS
  <1> DEFINE d == t[j] - s[j]
  <1>1. /\ N \in Nat /\ Len(t) = N
        /\ \A i \in 1..N : i # j => t[i] = s[i]
        /\ s[j] \in Int /\ d \in Int /\ t[j] = s[j] + d
    BY <1>0
  <1> HIDE DEF d
  <1>2. PICK f : Sums(s, f, N) /\ Total(s) = f[N]
    BY <1>0, TotalSums
  <1>3. PICK g : Sums(t, g, N) /\ Total(t) = g[N]
    BY <1>0, <1>1, TotalSums
  <1> DEFINE P == {n \in 0..N : g[n] = f[n] + (IF n >= j THEN d ELSE 0)}
  <1>4. 0 \in P
    BY <1>1, <1>2, <1>3 DEF Sums
  <1>5. ASSUME NEW n \in 1..N, n - 1 \in P PROVE n \in P
    <2>0. s[n] \in Int /\ n - 1 \in 0..N /\ n \in 0..N
      BY <1>0
    <2>1. /\ g[n] = g[n - 1] + t[n] /\ f[n] = f[n - 1] + s[n]
          /\ f[n - 1] \in Int /\ s[n] \in Int
      BY <2>0, <1>0, <1>2, <1>3 DEF Sums
    <2>2. g[n - 1] = f[n - 1] + (IF n - 1 >= j THEN d ELSE 0)
      BY <1>5
    <2>3. CASE n = j
      BY <1>1, <2>1, <2>2, <2>3
    <2>4. CASE n # j
      BY <1>1, <2>1, <2>2, <2>4
    <2> QED BY <2>3, <2>4
  <1> HIDE DEF P
  <1>6. N \in P
    <2>1. \A i \in 0..N : i \in P
      BY <1>4, <1>5, IntervalInduction
    <2> QED BY <2>1
  <1>7. g[N] = f[N] + d /\ f[N] \in Int
    BY <1>0, <1>1, <1>2, <1>6 DEF P, Sums
  <1> QED BY <1>0, <1>1, <1>2, <1>3, <1>7 DEF d

LEMMA TotalNat ==
    ASSUME NEW s \in Seq(Nat)
    PROVE  Total(s) \in Nat
  <1>0. PICK N \in Nat : N = Len(s)
    OBVIOUS
  <1>1. N \in Nat /\ s \in Seq(Int)
    BY <1>0
  <1>2. PICK f : Sums(s, f, N) /\ Total(s) = f[N]
    BY <1>0, <1>1, TotalSums
  <1> DEFINE P == {n \in 0..N : f[n] \in Nat}
  <1>3. 0 \in P
    BY <1>1, <1>2 DEF Sums
  <1>4. ASSUME NEW n \in 1..N, n - 1 \in P PROVE n \in P
    <2>1. f[n] = f[n - 1] + s[n] /\ s[n] \in Nat
      BY <1>0, <1>2 DEF Sums
    <2> QED BY <1>4, <2>1
  <1> HIDE DEF P
  <1>5. N \in P
    <2>1. \A i \in 0..N : i \in P
      BY <1>3, <1>4, IntervalInduction
    <2> QED BY <2>1
  <1> QED BY <1>0, <1>2, <1>5 DEF P

-----------------------------------------------------------------------------
(* The invariant.                                                          *)

Amounts == Nat \union {None}
Months == 0..Month(MaxTime)

RowType == [month : Months, cost : Nat,
            status : {"reserved", "settled", "uncertain"},
            estimate : Amounts, permit : Nat,
            output : {"pending", "captured", "run_limit", "transport_failed",
                      "parse_failed"},
            budget : Amounts]

MonthType == [count : Int, estimated : Int, reserved : Int, unknown : Int,
              uncertain : Int]

VerdictType == [usage : Amounts, uncertain : BOOLEAN,
                status : {None, 200, 400, 408, 500}, again : BOOLEAN,
                text : BOOLEAN, next : {"return", "retry", "first"},
                body : SUBSET Options]

CallType == [pc : {"idle", "reserve", "count", "sent", "settle"},
             claim : Nat, kind : {"first", "retry"}, body : SUBSET Options,
             row : Nat, verdict : VerdictType \union {<<>>}]

TypeInv ==
    /\ ledger \in Seq(RowType)
    /\ months \in [Months -> MonthType]
    /\ circuit \in [failures : Nat, open_until : Nat]
    /\ priced \in BOOLEAN
    /\ budget \in Amounts
    /\ claim \in Nat /\ used \in Nat /\ stored \in Nat /\ events \in Nat
    /\ clock \in 0..MaxTime
    /\ call \in [Calls -> CallType]
    /\ excused \in [crash : SUBSET Nat, fault : SUBSET Nat, limit : SUBSET Nat]

\* What a call's position says of its row; the rows of calls are their own.
CallInv ==
    \A c \in Calls :
        /\ call[c].pc \in {"idle", "reserve"} => call[c].row = 0
        /\ call[c].pc \in {"count", "sent", "settle"} =>
               call[c].row \in 1..Len(ledger)
        /\ call[c].pc \in {"count", "sent"} =>
               /\ ledger[call[c].row].status = "reserved"
               /\ clock < ledger[call[c].row].permit
        /\ call[c].pc = "settle" => call[c].verdict \in VerdictType
        /\ \A d \in Calls : call[c].row = call[d].row /\ call[c].row # 0
                                => c = d

\* A reserved row has no estimate yet.
OpenInv == \A i \in 1..Len(ledger) :
               ledger[i].status = "reserved" => ledger[i].estimate = None

ActiveInv == Cardinality(Active) <= ProviderConcurrency

LEMMA Constants ==
    /\ Costs \subseteq Nat /\ Actual \subseteq Nat /\ Budgets \subseteq Nat
    /\ None \notin Nat
    /\ ProviderConcurrency \in Nat \ {0} /\ FailureThreshold \in Nat \ {0}
    /\ OpenTime \in Nat /\ PermitTime \in Nat \ {0}
    /\ MonthLength \in Nat \ {0} /\ MaxTime \in Nat
  BY UsageAssumption

LEMMA MonthNow == TypeInv => clock \in Nat /\ Month(clock) \in Months
  <1> SUFFICES ASSUME TypeInv PROVE clock \in Nat /\ Month(clock) \in Months
    OBVIOUS
  <1>1. clock \in Nat /\ clock <= MaxTime
    BY Constants DEF TypeInv
  <1> DEFINE q == clock \div MonthLength
             r == MaxTime \div MonthLength
  <1>2. /\ q \in Nat /\ r \in Nat
        /\ q * MonthLength <= clock /\ MaxTime < (r + 1) * MonthLength
    BY <1>1, Constants
  <1> HIDE DEF q, r
  <1>3. q <= r
    BY <1>1, <1>2, Constants
  <1> QED BY <1>1, <1>2, <1>3 DEF Month, Months, q, r

-----------------------------------------------------------------------------
(* What the request rows of a month add up to.                             *)

Measures == {"count", "estimated", "reserved", "overrun"}

Value(k, row) ==
    CASE k = "count" -> 1
      [] k = "estimated" -> Known(row.estimate)
      [] k = "reserved" -> Held(row)
      [] k = "overrun" -> Overrun(row)

Share(k, m, row) == IF row.month = m THEN Value(k, row) ELSE 0
Shares(k, m) == [i \in 1..Len(ledger) |-> Share(k, m, ledger[i])]
Booked(k, m) == Total(Shares(k, m))

\* The monthly totals, measure by measure.
Balanced ==
    \A m \in Months : /\ months[m].count = Booked("count", m)
                      /\ months[m].estimated = Booked("estimated", m)
                      /\ months[m].reserved = Booked("reserved", m)

\* The rows of a month, and what its budget has to cover.
Rows(m) == {i \in 1..Len(ledger) : ledger[i].month = m}
Spent(m) == months[m].estimated + months[m].reserved

Covered ==
    \A m \in Months :
        Rows(m) # {} /\ (\A i \in Rows(m) : ledger[i].budget # None)
            => \E i \in Rows(m) :
                  Spent(m) <= ledger[i].budget + Booked("overrun", m)

\* The inductive invariant.
UsageInv ==
    /\ TypeInv /\ CallInv /\ OpenInv /\ ActiveInv
    /\ Balanced /\ Covered /\ NothingLeft

\* A settlement gives back no more than was reserved.
LEMMA ReleasedBound ==
    ASSUME NEW row, row.cost \in Nat, NEW v, v.usage \in Amounts
    PROVE  Released(row, v) \in Nat /\ Released(row, v) <= row.cost
  BY Constants DEF Released, Estimate, Amounts

LEMMA ValueNat ==
    ASSUME NEW k \in Measures, NEW row \in RowType
    PROVE  Value(k, row) \in Nat
  <1>1. row.cost \in Nat /\ row.estimate \in Amounts
    BY DEF RowType
  <1>2. Held(row) \in Nat
    <2> DEFINE v == [usage |-> row.estimate,
                     uncertain |-> row.status = "uncertain"]
    <2>1. v.usage \in Amounts
      BY <1>1
    <2>2. Released(row, v) \in Nat /\ Released(row, v) <= row.cost
      BY <1>1, <2>1, ReleasedBound
    <2> HIDE DEF v
    <2>3. row.cost - Released(row, v) \in Nat
      BY <1>1, <2>2
    <2> QED BY <1>1, <2>3 DEF Held, v
  <1>3. Known(row.estimate) \in Nat /\ Overrun(row) \in Nat
    BY <1>1 DEF Known, Overrun, Amounts
  <1> QED BY <1>2, <1>3 DEF Value, Measures

LEMMA SharesNat ==
    TypeInv => \A k \in Measures : \A m \in Months :
                  /\ Shares(k, m) \in Seq(Nat)
                  /\ Len(Shares(k, m)) = Len(ledger)
                  /\ Booked(k, m) \in Nat
  <1> SUFFICES ASSUME TypeInv, NEW k \in Measures, NEW m \in Months
               PROVE  /\ Shares(k, m) \in Seq(Nat)
                      /\ Len(Shares(k, m)) = Len(ledger)
                      /\ Booked(k, m) \in Nat
    OBVIOUS
  <1>1. ledger \in Seq(RowType)
    BY DEF TypeInv
  <1>2. \A i \in 1..Len(ledger) : Share(k, m, ledger[i]) \in Nat
    <2> SUFFICES ASSUME NEW i \in 1..Len(ledger)
                 PROVE  Share(k, m, ledger[i]) \in Nat
      OBVIOUS
    <2>1. ledger[i] \in RowType
      BY <1>1
    <2> QED BY <2>1, ValueNat DEF Share
  <1>3. Shares(k, m) \in Seq(Nat) /\ Len(Shares(k, m)) = Len(ledger)
    BY <1>1, <1>2 DEF Shares
  <1> QED BY <1>3, TotalNat DEF Booked

\* The ledger's sums are the totals of these shares.
LEMMA SumShares ==
    /\ \A m : Sum(m, LAMBDA row : 1) = Booked("count", m)
    /\ \A m : Sum(m, LAMBDA row : Known(row.estimate)) = Booked("estimated", m)
    /\ \A m : Sum(m, Held) = Booked("reserved", m)
    /\ \A m : Sum(m, Overrun) = Booked("overrun", m)
  BY DEF Sum, Booked, Shares, Share, Value

LEMMA Books == TypeInv => /\ LedgerBalanced <=> Balanced
                          /\ BudgetHeld <=> Covered
  <1> SUFFICES ASSUME TypeInv
               PROVE  /\ LedgerBalanced <=> Balanced
                      /\ BudgetHeld <=> Covered
    OBVIOUS
  <1>1. DOMAIN months = Months /\ DOMAIN ledger = 1..Len(ledger)
    BY DEF TypeInv
  <1>2. \A m \in Months : Booked("reserved", m) >= 0
    BY SharesNat DEF Measures
  <1>3. LedgerBalanced <=> Balanced
    BY <1>1, <1>2, SumShares DEF LedgerBalanced, Balanced
  <1>4. BudgetHeld <=> Covered
    BY <1>1, SumShares DEF BudgetHeld, Covered, Rows, Spent
  <1> QED BY <1>3, <1>4

\* The worth of a row does not change with the state.
LEMMA SharePrimed ==
    ASSUME priced' = priced, NEW k, NEW m, NEW row
    PROVE  /\ Share(k, m, row)' = Share(k, m, row)
  BY DEF Share, Value, Held, Overrun, Released, Estimate, Known

LEMMA Reserved ==
    ASSUME TypeInv, priced' = priced, NEW row \in RowType,
           ledger' = Append(ledger, row),
           NEW k \in Measures, NEW m \in Months
    PROVE  Booked(k, m)' = Booked(k, m) + Share(k, m, row)
  <1> DEFINE s == Shares(k, m)
             x == Share(k, m, row)
  <1>1. /\ s \in Seq(Int) /\ Len(s) = Len(ledger) /\ x \in Nat
    BY SharesNat, ValueNat DEF Share
  <1>2. /\ ledger \in Seq(RowType) /\ Len(ledger') = Len(ledger) + 1
        /\ \A i \in 1..Len(ledger) : ledger'[i] = ledger[i]
        /\ ledger'[Len(ledger) + 1] = row
    BY DEF TypeInv
  <1>3. Shares(k, m)' = [i \in 1..(Len(ledger) + 1) |-> Share(k, m, ledger'[i])]
    <2>1. Shares(k, m)' = [i \in 1..Len(ledger') |-> Share(k, m, ledger[i])']
      BY DEF Shares
    <2>2. \A i : Share(k, m, ledger[i])' = Share(k, m, ledger'[i])
      BY DEF Share, Value, Held, Overrun, Released, Estimate, Known
    <2> QED BY <1>2, <2>1, <2>2
  <1>4. /\ Shares(k, m)' \in Seq(Int) /\ Len(Shares(k, m)') = Len(s) + 1
        /\ \A i \in 1..Len(s) : Shares(k, m)'[i] = s[i]
        /\ Shares(k, m)'[Len(s) + 1] = x
    <2>1. \A i \in 1..Len(ledger) : s[i] = Share(k, m, ledger[i])
      BY DEF Shares
    <2>2. \A i \in 1..(Len(ledger) + 1) :
              i # Len(ledger) + 1 => i \in 1..Len(ledger)
      BY <1>2
    <2> HIDE DEF s, x
    <2>3. \A i \in 1..Len(ledger) : s[i] \in Int
      BY <1>1
    <2>4. \A i \in 1..(Len(ledger) + 1) : Share(k, m, ledger'[i]) \in Int
      BY <1>1, <1>2, <2>1, <2>2, <2>3 DEF x
    <2>5. Len(ledger) + 1 \in 1..(Len(ledger) + 1) /\ Len(ledger) \in Nat
      BY <1>2
    <2>6. Shares(k, m)' \in Seq(Int) /\ Len(Shares(k, m)') = Len(ledger) + 1
      BY <1>3, <2>4, <2>5
    <2> QED BY <1>1, <1>2, <1>3, <2>1, <2>5, <2>6 DEF x
  <1> HIDE DEF s, x
  <1>5. Total(Shares(k, m)') = Total(s) + x
    BY <1>1, <1>4, TotalAppend
  <1> QED BY <1>5 DEF Booked, s, x

LEMMA Rewritten ==
    ASSUME TypeInv, priced' = priced, NEW j \in 1..Len(ledger),
           NEW row \in RowType, ledger' = [ledger EXCEPT ![j] = row],
           NEW k \in Measures, NEW m \in Months
    PROVE  Booked(k, m)' = Booked(k, m) - Share(k, m, ledger[j])
                                        + Share(k, m, row)
  <1> DEFINE s == Shares(k, m)
             x == Share(k, m, row)
  <1>1. /\ s \in Seq(Int) /\ Len(s) = Len(ledger) /\ x \in Int
        /\ s[j] = Share(k, m, ledger[j])
    BY SharesNat, ValueNat DEF Share, Shares
  <1>2. /\ ledger \in Seq(RowType) /\ Len(ledger') = Len(ledger)
        /\ \A i \in 1..Len(ledger) :
              ledger'[i] = IF i = j THEN row ELSE ledger[i]
    BY DEF TypeInv
  <1>3. Shares(k, m)' = [i \in 1..Len(ledger) |-> Share(k, m, ledger'[i])]
    <2>1. Shares(k, m)' = [i \in 1..Len(ledger') |-> Share(k, m, ledger[i])']
      BY DEF Shares
    <2>2. \A i : Share(k, m, ledger[i])' = Share(k, m, ledger'[i])
      BY DEF Share, Value, Held, Overrun, Released, Estimate, Known
    <2> QED BY <1>2, <2>1, <2>2
  <1>4. /\ Shares(k, m)' \in Seq(Int) /\ Len(Shares(k, m)') = Len(s)
        /\ \A i \in 1..Len(s) : i # j => Shares(k, m)'[i] = s[i]
        /\ Shares(k, m)'[j] = x
    <2>1. \A i \in 1..Len(ledger) : s[i] = Share(k, m, ledger[i])
      BY DEF Shares
    <2> HIDE DEF s, x
    <2>2. \A i \in 1..Len(ledger) : s[i] \in Int
      BY <1>1
    <2>3. \A i \in 1..Len(ledger) : Share(k, m, ledger'[i]) \in Int
      BY <1>1, <1>2, <2>1, <2>2 DEF x
    <2>4. Shares(k, m)' \in Seq(Int) /\ Len(Shares(k, m)') = Len(ledger)
      BY <1>2, <1>3, <2>3
    <2> QED BY <1>1, <1>2, <1>3, <2>1, <2>4 DEF x
  <1> HIDE DEF s, x
  <1>5. Total(Shares(k, m)') = Total(s) - s[j] + x
    BY <1>1, <1>4, TotalChange
  <1> QED BY <1>1, <1>5 DEF Booked, s, x

\* Books that nobody writes to.
LEMMA BooksSame ==
    ASSUME Balanced, Covered, OpenInv, UNCHANGED <<ledger, months, priced>>
    PROVE  Balanced' /\ Covered' /\ OpenInv'
  <1>1. OpenInv'
    BY DEF OpenInv
  <1>2. \A k, m : Booked(k, m)' = Booked(k, m)
    BY DEF Booked, Shares, Share, Value, Held, Overrun, Released, Estimate,
           Known, Total
  <1>3. Balanced'
    BY <1>2 DEF Balanced
  <1>4. \A m : Rows(m)' = Rows(m) /\ Spent(m)' = Spent(m)
    BY DEF Rows, Spent
  <1>5. Covered'
    BY <1>2, <1>4 DEF Covered
  <1> QED BY <1>1, <1>3, <1>5

LEMMA ActiveFinite ==
    TypeInv => /\ Active \subseteq 1..Len(ledger) /\ IsFiniteSet(Active)
               /\ Cardinality(Active) \in Nat
  <1> SUFFICES ASSUME TypeInv
               PROVE  /\ Active \subseteq 1..Len(ledger)
                      /\ IsFiniteSet(Active)
                      /\ Cardinality(Active) \in Nat
    OBVIOUS
  <1>1. Active \subseteq 1..Len(ledger) /\ Len(ledger) \in Nat
    BY DEF TypeInv, Active
  <1>2. IsFiniteSet(1..Len(ledger))
    BY <1>1, FS_Interval
  <1> QED BY <1>1, <1>2, FS_Subset, FS_CardinalityType

\* Requests that end or time out leave room in the channel.
LEMMA ActiveShrinks ==
    ASSUME TypeInv, ActiveInv, Active' \subseteq Active
    PROVE  ActiveInv'
  <1>1. IsFiniteSet(Active) /\ Cardinality(Active) \in Nat
    BY ActiveFinite
  <1>2. Cardinality(Active') <= Cardinality(Active)
        /\ IsFiniteSet(Active')
    BY <1>1, FS_Subset
  <1>3. Cardinality(Active') \in Nat
    BY <1>2, FS_CardinalityType
  <1> QED BY <1>1, <1>2, <1>3, Constants DEF ActiveInv

-----------------------------------------------------------------------------
(* The transactions on the books.                                          *)

WithReservation(M, k) == [M EXCEPT !.count = @ + 1, !.reserved = @ + k]

LEMMA MonthReserved ==
    ASSUME NEW M \in MonthType, NEW k \in Int
    PROVE  /\ WithReservation(M, k) \in MonthType
           /\ WithReservation(M, k).count = M.count + 1
           /\ WithReservation(M, k).estimated = M.estimated
           /\ WithReservation(M, k).reserved = M.reserved + k
  <1>1. M.count + 1 \in Int /\ M.reserved + k \in Int
    BY DEF MonthType
  <1> QED BY <1>1 DEF MonthType, WithReservation

LEMMA Carried ==
    ASSUME NEW s \in Int, NEW t \in Int, NEW b \in Int, NEW x \in Int,
           NEW y \in Int, s <= b + x, t - s <= y - x
    PROVE  t <= b + y
  OBVIOUS

\* A reservation the budget pays for.
LEMMA ReservedBooks ==
    ASSUME TypeInv, OpenInv, Balanced, Covered, priced' = priced,
           NEW cost \in Amounts, Affordable(cost), NEW row \in RowType,
           row.month = Month(clock), row.cost = Known(cost),
           row.status = "reserved", row.estimate = None, row.budget = budget,
           ledger' = Append(ledger, row),
           months' = [months EXCEPT ![Month(clock)].count = @ + 1,
                                    ![Month(clock)].reserved = @ + Known(cost)]
    PROVE  months' \in [Months -> MonthType] /\ Balanced' /\ Covered' /\ OpenInv'
  <1> DEFINE now == Month(clock)
             n == Len(ledger)
  <1>1. /\ now \in Months /\ Known(cost) \in Nat
        /\ ledger \in Seq(RowType) /\ n \in Nat /\ Len(ledger') = n + 1
        /\ ledger'[n + 1] = row
        /\ \A i \in 1..n : ledger'[i] = ledger[i]
    BY MonthNow DEF TypeInv, Known, Amounts
  <1> HIDE DEF now, n
  <1>2. months \in [Months -> MonthType]
    BY DEF TypeInv
  <1>3. /\ months' \in [Months -> MonthType]
        /\ months'[now].count = months[now].count + 1
        /\ months'[now].estimated = months[now].estimated
        /\ months'[now].reserved = months[now].reserved + Known(cost)
        /\ \A m \in Months : m # now => months'[m] = months[m]
    <2> DEFINE k == Known(cost)
               M == months[now]
    <2>1. M \in MonthType /\ k \in Nat
      BY <1>1, <1>2
    <2> DEFINE B == WithReservation(M, k)
    <2>2. /\ B \in MonthType /\ B.count = M.count + 1
          /\ B.estimated = M.estimated /\ B.reserved = M.reserved + k
      <3> HIDE DEF k, M
      <3> QED BY <2>1, MonthReserved
    <2>3. months' = [months EXCEPT ![now] = B]
      BY <1>1, <1>2 DEF now, WithReservation
    <2> HIDE DEF B, k, M
    <2>4. months' \in [Months -> MonthType] /\ months'[now] = B
          /\ \A m \in Months : m # now => months'[m] = months[m]
      BY <1>1, <1>2, <2>2, <2>3
    <2> QED BY <2>2, <2>4 DEF k, M
  <1>4. /\ Share("count", now, row) = 1
        /\ Share("estimated", now, row) = 0
        /\ Share("reserved", now, row) = Known(cost)
        /\ \A k \in Measures : \A m \in Months :
              m # now => Share(k, m, row) = 0
    BY DEF Share, Value, Known, Held, now
  <1>5. \A k \in Measures : \A m \in Months :
            Booked(k, m)' = Booked(k, m) + Share(k, m, row)
    BY Reserved
  <1>6. \A k \in Measures : \A m \in Months : Booked(k, m) \in Nat
    BY SharesNat
  <1>7. Balanced'
    <2> SUFFICES ASSUME NEW m \in Months
                 PROVE  /\ months'[m].count = Booked("count", m)'
                        /\ months'[m].estimated = Booked("estimated", m)'
                        /\ months'[m].reserved = Booked("reserved", m)'
      BY DEF Balanced
    <2>1. /\ months[m].count = Booked("count", m)
          /\ months[m].estimated = Booked("estimated", m)
          /\ months[m].reserved = Booked("reserved", m)
      BY DEF Balanced
    <2>2. \A k \in {"count", "estimated", "reserved"} :
              /\ k \in Measures
              /\ Booked(k, m)' = Booked(k, m) + Share(k, m, row)
              /\ Booked(k, m) \in Nat
      BY <1>5, <1>6 DEF Measures
    <2>3. CASE m = now
      <3>1. /\ Booked("count", m)' = Booked("count", m) + 1
            /\ Booked("estimated", m)' = Booked("estimated", m) + 0
            /\ Booked("reserved", m)' = Booked("reserved", m) + Known(cost)
        BY <1>4, <2>2, <2>3
      <3> QED BY <1>3, <2>1, <2>2, <2>3, <3>1
    <2>4. CASE m # now
      <3>1. \A k \in {"count", "estimated", "reserved"} :
                Booked(k, m)' = Booked(k, m)
        <4> SUFFICES ASSUME NEW k \in {"count", "estimated", "reserved"}
                     PROVE  Booked(k, m)' = Booked(k, m)
          OBVIOUS
        <4>1. Share(k, m, row) = 0
          BY <1>4, <2>2, <2>4
        <4>2. Booked(k, m)' = Booked(k, m) + 0 /\ Booked(k, m) \in Nat
          BY <2>2, <4>1
        <4> QED BY <4>2
      <3>2. /\ Booked("count", m)' = Booked("count", m)
            /\ Booked("estimated", m)' = Booked("estimated", m)
            /\ Booked("reserved", m)' = Booked("reserved", m)
        BY <3>1
      <3>3. months'[m] = months[m]
        BY <1>3, <2>4
      <3> QED BY <2>1, <3>2, <3>3
    <2> QED BY <2>3, <2>4
  <1>8. OpenInv'
    <2> SUFFICES ASSUME NEW i \in 1..Len(ledger'),
                        ledger'[i].status = "reserved"
                 PROVE  ledger'[i].estimate = None
      BY DEF OpenInv
    <2>1. i \in 1..n \/ i = n + 1
      BY <1>1
    <2> QED BY <1>1, <2>1 DEF OpenInv, n
  <1>9. Covered'
    <2> SUFFICES ASSUME NEW m \in Months, Rows(m)' # {},
                        \A i \in Rows(m)' : ledger'[i].budget # None
                 PROVE  \E i \in Rows(m)' :
                           Spent(m)' <= ledger'[i].budget
                                            + Booked("overrun", m)'
      BY DEF Covered
    <2>1. "overrun" \in Measures
      BY DEF Measures
    <2>2. CASE m = now
      <3>1. n + 1 \in Rows(m)' /\ row.budget # None
        BY <1>1, <2>2 DEF Rows, now
      <3>2. /\ months[m].estimated + months[m].reserved + Known(cost)
                  <= row.budget
        BY <2>2, <3>1 DEF Affordable, Known, now
      <3>3. Spent(m)' = months[m].estimated + months[m].reserved + Known(cost)
        <4>1. /\ months[m].estimated \in Int /\ months[m].reserved \in Int
              /\ Known(cost) \in Int
          BY <1>1, <1>2 DEF MonthType
        <4>2. Spent(m)' = months[m].estimated
                             + (months[m].reserved + Known(cost))
          BY <1>3, <2>2 DEF Spent
        <4> QED BY <4>1, <4>2
      <3>4. Booked("overrun", m)' \in Nat
        <4>1. Share("overrun", m, row) \in Nat
          BY <2>1, ValueNat DEF Share
        <4> QED BY <1>5, <1>6, <2>1, <4>1
      <3>5. row.budget \in Nat
        BY <3>1 DEF RowType, Amounts
      <3>6. Spent(m)' \in Int
        BY <1>1, <1>2, <3>3 DEF MonthType
      <3>7. Spent(m)' <= ledger'[n + 1].budget + Booked("overrun", m)'
        BY <1>1, <3>2, <3>3, <3>4, <3>5, <3>6
      <3> QED BY <3>1, <3>7
    <2>3. CASE m # now
      <3>1. Rows(m)' = Rows(m)
        <4>1. \A i \in 1..(n + 1) : i \in 1..n \/ i = n + 1
          BY <1>1
        <4>2. 1..n \subseteq 1..(n + 1)
          BY <1>1
        <4> QED BY <1>1, <2>3, <4>1, <4>2 DEF Rows, n, now
      <3>2. \A i \in Rows(m) : ledger'[i] = ledger[i]
        BY <1>1 DEF Rows, n
      <3>3. PICK i \in Rows(m) :
                Spent(m) <= ledger[i].budget + Booked("overrun", m)
        BY <3>1, <3>2 DEF Covered
      <3>4. Spent(m)' = Spent(m) /\ Booked("overrun", m)' = Booked("overrun", m)
        <4>1. Spent(m)' = Spent(m)
          BY <1>3, <2>3 DEF Spent
        <4>2. Booked("overrun", m)' = Booked("overrun", m) + 0
          BY <1>4, <1>5, <2>1, <2>3
        <4> QED BY <1>6, <2>1, <4>1, <4>2
      <3> QED BY <3>1, <3>2, <3>3, <3>4
    <2> QED BY <2>2, <2>3
  <1> QED BY <1>3, <1>7, <1>8, <1>9

\* A write to one row that leaves its month and its budget alone.
LEMMA RewrittenBooks ==
    ASSUME TypeInv, OpenInv, Balanced, Covered, priced' = priced,
           NEW j \in 1..Len(ledger), NEW row \in RowType,
           ledger' = [ledger EXCEPT ![j] = row],
           row.month = ledger[j].month, row.budget = ledger[j].budget,
           row.status = "reserved" => row.estimate = None,
           months' \in [Months -> MonthType],
           \A m \in Months :
              /\ months'[m].count = months[m].count
              /\ months'[m].estimated = months[m].estimated
                     - Share("estimated", m, ledger[j])
                     + Share("estimated", m, row)
              /\ months'[m].reserved = months[m].reserved
                     - Share("reserved", m, ledger[j])
                     + Share("reserved", m, row)
              /\ Spent(m)' - Spent(m)
                    <= Share("overrun", m, row)
                           - Share("overrun", m, ledger[j])
    PROVE  Balanced' /\ Covered' /\ OpenInv'
  <1>1. /\ ledger \in Seq(RowType) /\ Len(ledger') = Len(ledger)
        /\ ledger'[j] = row /\ Len(ledger) \in Nat
        /\ \A i \in 1..Len(ledger) : i # j => ledger'[i] = ledger[i]
    BY DEF TypeInv
  <1>2. \A k \in Measures : \A m \in Months :
            Booked(k, m)' = Booked(k, m) - Share(k, m, ledger[j])
                                         + Share(k, m, row)
    BY Rewritten
  <1>3. \A k \in Measures : \A m \in Months :
            /\ Booked(k, m) \in Nat /\ Share(k, m, ledger[j]) \in Nat
            /\ Share(k, m, row) \in Nat
    BY <1>1, SharesNat, ValueNat DEF Share
  <1>4. Measures = {"count", "estimated", "reserved", "overrun"}
    BY DEF Measures
  <1>5. OpenInv'
    BY <1>1 DEF OpenInv
  <1>6. Balanced'
    <2> SUFFICES ASSUME NEW m \in Months
                 PROVE  /\ months'[m].count = Booked("count", m)'
                        /\ months'[m].estimated = Booked("estimated", m)'
                        /\ months'[m].reserved = Booked("reserved", m)'
      BY DEF Balanced
    <2>1. /\ months[m].count = Booked("count", m)
          /\ months[m].estimated = Booked("estimated", m)
          /\ months[m].reserved = Booked("reserved", m)
      BY DEF Balanced
    <2>2. Share("count", m, row) = Share("count", m, ledger[j])
      BY DEF Share, Value
    <2>3. Booked("count", m)' = Booked("count", m)
      BY <1>2, <1>3, <1>4, <2>2
    <2> QED BY <1>2, <1>4, <2>1, <2>3
  <1>7. Covered'
    <2> SUFFICES ASSUME NEW m \in Months, Rows(m)' # {},
                        \A i \in Rows(m)' : ledger'[i].budget # None
                 PROVE  \E i \in Rows(m)' :
                           Spent(m)' <= ledger'[i].budget
                                            + Booked("overrun", m)'
      BY DEF Covered
    <2>1. \A i \in 1..Len(ledger) : /\ ledger'[i].month = ledger[i].month
                                   /\ ledger'[i].budget = ledger[i].budget
      BY <1>1
    <2>2. Rows(m)' = Rows(m)
      BY <1>1, <2>1 DEF Rows
    <2>3. \A i \in Rows(m) : ledger'[i].budget = ledger[i].budget
      BY <2>1 DEF Rows
    <2>4. PICK i \in Rows(m) :
              Spent(m) <= ledger[i].budget + Booked("overrun", m)
      BY <2>2, <2>3 DEF Covered
    <2>5. ledger[i].budget \in Nat
      <3>1. ledger[i].budget \in Amounts /\ ledger[i].budget # None
        <4>1. i \in 1..Len(ledger) /\ ledger[i] \in RowType
          BY <1>1 DEF Rows
        <4>2. ledger[i].budget # None
          BY <2>2, <2>3
        <4> QED BY <4>1, <4>2 DEF RowType
      <3> QED BY <3>1 DEF Amounts
    <2>6. /\ months[m].estimated \in Int /\ months[m].reserved \in Int
          /\ months'[m].estimated \in Int /\ months'[m].reserved \in Int
      BY DEF TypeInv, MonthType
    <2>7. Spent(m)' - Spent(m) <= Share("overrun", m, row)
                                      - Share("overrun", m, ledger[j])
      OBVIOUS
    <2>8. Spent(m) \in Int /\ Spent(m)' \in Int
      BY <2>6 DEF Spent
    <2>9. Spent(m)' <= ledger[i].budget + Booked("overrun", m)'
      <3>1. /\ Booked("overrun", m)' = Booked("overrun", m)
                   - Share("overrun", m, ledger[j]) + Share("overrun", m, row)
            /\ Booked("overrun", m) \in Nat
            /\ Share("overrun", m, ledger[j]) \in Nat
            /\ Share("overrun", m, row) \in Nat
        BY <1>2, <1>3, <1>4
      <3>2. Booked("overrun", m)' \in Int
        BY <3>1
      <3>3. Booked("overrun", m)' - Booked("overrun", m)
              = Share("overrun", m, row) - Share("overrun", m, ledger[j])
        BY <3>1
      <3>4. Spent(m)' - Spent(m)
              <= Booked("overrun", m)' - Booked("overrun", m)
        BY <2>7, <3>3
      <3>5. ledger[i].budget \in Int /\ Booked("overrun", m) \in Int
        BY <2>5, <3>1
      <3> QED BY <2>4, <2>8, <3>2, <3>4, <3>5, Carried
    <2> QED BY <2>2, <2>3, <2>9
  <1> QED BY <1>5, <1>6, <1>7

\* A settlement, seen as the new values of one row and of its month.
SettledRow(row, v) ==
    [row EXCEPT !.status = IF v.uncertain THEN "uncertain" ELSE "settled",
                !.estimate = Estimate(v),
                !.output = IF v.uncertain /\ @ = "captured" THEN "parse_failed" ELSE @]

SettledMonth(M, row, v) ==
    [M EXCEPT !.estimated = @ + Known(Estimate(v)),
              !.reserved = @ - Released(row, v),
              !.unknown = IF Estimate(v) = None THEN @ + 1 ELSE @,
              !.uncertain = IF v.uncertain THEN @ + 1 ELSE @]

LEMMA Exchanged ==
    ASSUME NEW a \in Int, NEW x \in Int, NEW y \in Int, NEW k \in Int
    PROVE  /\ y = x + k => a - x + y = a + k
           /\ y = x - k => a - x + y = a - k
  OBVIOUS

LEMMA EstimateType ==
    ASSUME NEW v, v.usage \in Amounts
    PROVE  Estimate(v) \in Amounts /\ Known(Estimate(v)) \in Nat
  BY DEF Estimate, Known, Amounts

LEMMA RowSettled ==
    ASSUME NEW row \in RowType, NEW v \in VerdictType,
           row.status = "reserved", row.estimate = None
    PROVE  /\ SettledRow(row, v) \in RowType
           /\ SettledRow(row, v).month = row.month
           /\ SettledRow(row, v).budget = row.budget
           /\ SettledRow(row, v).cost = row.cost
           /\ SettledRow(row, v).permit = row.permit
           /\ SettledRow(row, v).status # "reserved"
           /\ SettledRow(row, v).estimate = Estimate(v)
           /\ Held(SettledRow(row, v)) = Held(row) - Released(row, v)
           /\ Known(SettledRow(row, v).estimate)
                 = Known(row.estimate) + Known(Estimate(v))
           /\ Known(Estimate(v)) - Released(row, v)
                 <= Overrun(SettledRow(row, v)) - Overrun(row)
  <1> DEFINE after == SettledRow(row, v)
             e == Estimate(v)
             o == IF v.uncertain /\ row.output = "captured"
                  THEN "parse_failed" ELSE row.output
             s == IF v.uncertain THEN "uncertain" ELSE "settled"
  <1>1. v.usage \in Amounts /\ v.uncertain \in BOOLEAN
    BY DEF VerdictType
  <1>2. e \in Amounts /\ Known(e) \in Nat
    BY <1>1, EstimateType
  <1>3. row.cost \in Nat
    BY DEF RowType
  <1>4. o \in {"pending", "captured", "run_limit", "transport_failed",
               "parse_failed"}
    BY DEF RowType
  <1>5. /\ after = [row EXCEPT !.status = s, !.estimate = e, !.output = o]
        /\ s \in {"settled", "uncertain"} /\ (s = "uncertain" <=> v.uncertain)
    BY <1>1 DEF SettledRow
  <1> HIDE DEF after, o, s
  <1>6. /\ after \in RowType /\ after.month = row.month
        /\ after.budget = row.budget /\ after.cost = row.cost
        /\ after.permit = row.permit /\ after.status = s /\ after.estimate = e
    <2> HIDE DEF e
    <2> QED BY <1>2, <1>4, <1>5 DEF RowType
  <1>7. Known(row.estimate) = 0
    BY DEF Known
  <1>8. /\ Released(row, v) \in Nat /\ Released(row, v) <= row.cost
    BY <1>1, <1>3, ReleasedBound
  <1>9. Held(after) = row.cost - Released(row, v)
    <2> DEFINE w == [usage |-> after.estimate,
                     uncertain |-> after.status = "uncertain"]
    <2>1. w.usage = e /\ (w.uncertain <=> v.uncertain)
      BY <1>5, <1>6
    <2>2. Estimate(w) = e
      <3> HIDE DEF w
      <3> QED BY <2>1 DEF Estimate
    <2>3. Released(after, w) = Released(row, v)
      <3> HIDE DEF w, e
      <3> QED BY <1>6, <2>1, <2>2 DEF Released, e
    <2>4. Held(after) = after.cost - Released(after, w)
      BY <1>5, <1>6 DEF Held
    <2> QED BY <1>6, <2>3, <2>4
  <1>10. Known(e) - Released(row, v) <= Overrun(after) - Overrun(row)
    <2>1. Overrun(row) = 0
      BY <1>3, <1>7 DEF Overrun
    <2>2. Overrun(after) = IF Known(e) > row.cost THEN Known(e) - row.cost ELSE 0
      BY <1>6 DEF Overrun
    <2>3. CASE e = None
      <3>1. Known(e) = 0 /\ Released(row, v) = 0
        BY <2>3 DEF Known, Released
      <3> QED BY <1>3, <2>1, <2>2, <3>1
    <2>4. CASE e # None
      <3>1. Known(e) = e /\ e \in Nat
        BY <1>2, <2>4 DEF Known, Amounts
      <3>2. Released(row, v) = IF v.uncertain /\ e < row.cost THEN e ELSE row.cost
        BY <2>4 DEF Released
      <3> HIDE DEF e
      <3> QED BY <1>3, <2>1, <2>2, <3>1, <3>2
    <2> QED BY <2>3, <2>4
  <1>11. Held(row) = row.cost
    BY DEF Held
  <1> HIDE DEF e
  <1> QED BY <1>2, <1>5, <1>6, <1>7, <1>9, <1>10, <1>11 DEF after, e

LEMMA MonthSettled ==
    ASSUME NEW M \in MonthType, NEW row \in RowType, NEW v \in VerdictType
    PROVE  /\ SettledMonth(M, row, v) \in MonthType
           /\ SettledMonth(M, row, v).count = M.count
           /\ SettledMonth(M, row, v).estimated
                 = M.estimated + Known(Estimate(v))
           /\ SettledMonth(M, row, v).reserved = M.reserved - Released(row, v)
  <1>1. row.cost \in Nat /\ v.usage \in Amounts
    BY DEF RowType, VerdictType
  <1>2. Known(Estimate(v)) \in Nat /\ Released(row, v) \in Nat
    BY <1>1, EstimateType, ReleasedBound
  <1> DEFINE a == M.estimated + Known(Estimate(v))
             b == M.reserved - Released(row, v)
             d == IF Estimate(v) = None THEN M.unknown + 1 ELSE M.unknown
             f == IF v.uncertain THEN M.uncertain + 1 ELSE M.uncertain
  <1>3. a \in Int /\ b \in Int /\ d \in Int /\ f \in Int
    BY <1>2 DEF MonthType
  <1>4. SettledMonth(M, row, v) = [M EXCEPT !.estimated = a, !.reserved = b,
                                            !.unknown = d, !.uncertain = f]
    BY DEF SettledMonth
  <1> HIDE DEF a, b, d, f
  <1>5. /\ SettledMonth(M, row, v) \in MonthType
        /\ SettledMonth(M, row, v).count = M.count
        /\ SettledMonth(M, row, v).estimated = a
        /\ SettledMonth(M, row, v).reserved = b
    BY <1>3, <1>4 DEF MonthType
  <1> QED BY <1>5 DEF a, b

\* A settlement keeps the books, and ends the row's place in the channel.
LEMMA SettledBooks ==
    ASSUME TypeInv, OpenInv, ActiveInv, Balanced, Covered, priced' = priced,
           clock' = clock,
           NEW j \in 1..Len(ledger), NEW v \in VerdictType, SettleRow(j, v)
    PROVE  /\ ledger' \in Seq(RowType) /\ Len(ledger') = Len(ledger)
           /\ ledger'[j].status # "reserved"
           /\ \A i \in 1..Len(ledger) : i # j => ledger'[i] = ledger[i]
           /\ months' \in [Months -> MonthType]
           /\ circuit' \in [failures : Nat, open_until : Nat]
           /\ Balanced' /\ Covered' /\ OpenInv' /\ ActiveInv'
  <1>1. ledger \in Seq(RowType) /\ ledger[j] \in RowType
        /\ months \in [Months -> MonthType]
        /\ circuit \in [failures : Nat, open_until : Nat]
    BY DEF TypeInv
  <1>2. CASE ledger[j].status # "reserved"
    <2>1. UNCHANGED <<ledger, months, circuit>>
      BY <1>2 DEF SettleRow
    <2>2. Active' = Active
      BY <2>1 DEF Active
    <2>3. ActiveInv'
      BY <2>2, ActiveShrinks
    <2> QED BY <1>1, <1>2, <2>1, <2>3, BooksSame
  <1>3. CASE ledger[j].status = "reserved"
    <2> DEFINE row == SettledRow(ledger[j], v)
               now == ledger[j].month
               M == SettledMonth(months[now], ledger[j], v)
    <2>1. ledger[j].estimate = None /\ now \in Months
      BY <1>1, <1>3 DEF OpenInv, RowType
    <2>2. /\ row \in RowType /\ row.month = now
          /\ row.budget = ledger[j].budget /\ row.status # "reserved"
          /\ Held(row) = Held(ledger[j]) - Released(ledger[j], v)
          /\ Known(row.estimate)
                = Known(ledger[j].estimate) + Known(Estimate(v))
          /\ Known(Estimate(v)) - Released(ledger[j], v)
                <= Overrun(row) - Overrun(ledger[j])
      BY <1>1, <1>3, <2>1, RowSettled
    <2>3. /\ M \in MonthType /\ M.count = months[now].count
          /\ M.estimated = months[now].estimated + Known(Estimate(v))
          /\ M.reserved = months[now].reserved - Released(ledger[j], v)
      BY <1>1, <2>1, MonthSettled
    <2>4. ledger' = [ledger EXCEPT ![j] = row]
      BY <1>1, <1>3 DEF SettleRow, SettledRow
    <2>5. months' = [months EXCEPT ![now] = M]
      BY <1>1, <1>3, <2>1 DEF SettleRow, SettledMonth
    <2>6. circuit' \in [failures : Nat, open_until : Nat]
      <3>1. clock + OpenTime \in Nat
        BY MonthNow, Constants
      <3>2. circuit' = Observed(v.status)
        BY <1>3 DEF SettleRow
      <3> QED BY <1>1, <3>1, <3>2 DEF Observed
    <2> HIDE DEF row, M
    <2>7. /\ ledger' \in Seq(RowType) /\ Len(ledger') = Len(ledger)
          /\ ledger'[j] = row
          /\ \A i \in 1..Len(ledger) : i # j => ledger'[i] = ledger[i]
      BY <1>1, <2>2, <2>4
    <2>8. /\ months' \in [Months -> MonthType] /\ months'[now] = M
          /\ \A m \in Months : m # now => months'[m] = months[m]
      BY <1>1, <2>1, <2>3, <2>5
    <2>9. ActiveInv'
      <3>1. Active' \subseteq Active
        BY <1>1, <2>2, <2>7 DEF Active
      <3> QED BY <3>1, ActiveShrinks
    <2>10. Balanced' /\ Covered' /\ OpenInv'
      <3>1. ASSUME NEW m \in Months
            PROVE  /\ months'[m].count = months[m].count
                   /\ months'[m].estimated = months[m].estimated
                          - Share("estimated", m, ledger[j])
                          + Share("estimated", m, row)
                   /\ months'[m].reserved = months[m].reserved
                          - Share("reserved", m, ledger[j])
                          + Share("reserved", m, row)
                   /\ Spent(m)' - Spent(m)
                         <= Share("overrun", m, row)
                                - Share("overrun", m, ledger[j])
        <4>1. /\ Spent(m) = months[m].estimated + months[m].reserved
              /\ Spent(m)' = months'[m].estimated + months'[m].reserved
          BY DEF Spent
        <4>2. /\ months[m].estimated \in Int /\ months[m].reserved \in Int
          BY <1>1 DEF MonthType
        <4>3. CASE m = now
          <5> DEFINE old == ledger[j]
          <5> HIDE DEF now
          <5>1. \A k \in Measures : /\ Share(k, m, old) = Value(k, old)
                                    /\ Share(k, m, row) = Value(k, row)
            BY <2>2, <4>3 DEF Share, now
          <5>2. \A k \in Measures : Value(k, old) \in Nat /\ Value(k, row) \in Nat
            BY <1>1, <2>2, ValueNat
          <5> HIDE DEF old
          <5>3. /\ Share("estimated", m, old) = Known(old.estimate)
                /\ Share("estimated", m, row) = Known(row.estimate)
                /\ Share("reserved", m, old) = Held(old)
                /\ Share("reserved", m, row) = Held(row)
                /\ Share("overrun", m, old) = Overrun(old)
                /\ Share("overrun", m, row) = Overrun(row)
            BY <5>1 DEF Value, Measures
          <5>4. /\ Known(old.estimate) \in Nat /\ Known(row.estimate) \in Nat
                /\ Held(old) \in Nat /\ Held(row) \in Nat
                /\ Overrun(old) \in Nat /\ Overrun(row) \in Nat
            BY <5>2 DEF Value, Measures
          <5>5. /\ Known(Estimate(v)) \in Nat /\ Released(old, v) \in Nat
            <6>1. old.cost \in Nat /\ v.usage \in Amounts
              BY <1>1 DEF old, RowType, VerdictType
            <6> QED BY <6>1, EstimateType, ReleasedBound
          <5>6. /\ Held(row) = Held(old) - Released(old, v)
                /\ Known(row.estimate) = Known(old.estimate) + Known(Estimate(v))
                /\ Known(Estimate(v)) - Released(old, v)
                      <= Overrun(row) - Overrun(old)
                /\ months'[m].count = months[m].count
                /\ months'[m].estimated = months[m].estimated + Known(Estimate(v))
                /\ months'[m].reserved = months[m].reserved - Released(old, v)
            BY <2>2, <2>3, <2>8, <4>3 DEF old
          <5>7. /\ months'[m].estimated = months[m].estimated
                      - Share("estimated", m, old) + Share("estimated", m, row)
                /\ months'[m].reserved = months[m].reserved
                      - Share("reserved", m, old) + Share("reserved", m, row)
            <6>1. /\ months[m].estimated - Known(old.estimate)
                        + Known(row.estimate)
                     = months[m].estimated + Known(Estimate(v))
                  /\ months[m].reserved - Held(old) + Held(row)
                     = months[m].reserved - Released(old, v)
              <7>1. /\ Known(row.estimate) = Known(old.estimate) + Known(Estimate(v))
                    /\ Held(row) = Held(old) - Released(old, v)
                BY <5>6
              <7>2. /\ Known(old.estimate) \in Int /\ Known(row.estimate) \in Int
                    /\ Held(old) \in Int /\ Held(row) \in Int
                    /\ Known(Estimate(v)) \in Int /\ Released(old, v) \in Int
                BY <5>4, <5>5
              <7> QED BY <4>2, <7>1, <7>2, Exchanged
            <6> QED BY <5>3, <5>6, <6>1
          <5>8. Spent(m)' - Spent(m)
                   <= Share("overrun", m, row) - Share("overrun", m, old)
            <6>1. Spent(m)' = Spent(m) + Known(Estimate(v)) - Released(old, v)
              BY <4>1, <4>2, <5>5, <5>6
            <6>2. Spent(m) \in Int
              BY <4>1, <4>2
            <6>3. Spent(m)' - Spent(m) = Known(Estimate(v)) - Released(old, v)
              BY <5>5, <6>1, <6>2
            <6>4. Known(Estimate(v)) - Released(old, v)
                      <= Share("overrun", m, row) - Share("overrun", m, old)
              BY <5>3, <5>6
            <6> QED BY <6>3, <6>4
          <5> QED BY <5>6, <5>7, <5>8 DEF old
        <4>4. CASE m # now
          <5>1. \A k \in Measures : /\ Share(k, m, ledger[j]) = 0
                                    /\ Share(k, m, row) = 0
            BY <2>2, <4>4 DEF Share
          <5>2. months'[m] = months[m]
            BY <2>8, <4>4
          <5>3. Spent(m)' - Spent(m) = 0
            BY <4>1, <4>2, <5>2
          <5> QED BY <4>2, <5>1, <5>2, <5>3 DEF Measures
        <4> QED BY <4>3, <4>4
      <3> QED BY <2>2, <2>4, <2>8, <3>1, RewrittenBooks
    <2> QED BY <2>2, <2>6, <2>7, <2>8, <2>9, <2>10
  <1> QED BY <1>2, <1>3

-----------------------------------------------------------------------------
(* One call steps; the rows of the others are left alone.                  *)

\* The new state r of call c agrees with the ledger.
Fits(c, r) ==
    /\ r \in CallType
    /\ r.row = 0 \/ r.row = call[c].row \/ r.row = Len(ledger) + 1
    /\ r.pc \in {"idle", "reserve"} => r.row = 0
    /\ r.pc \in {"count", "sent", "settle"} => r.row \in 1..Len(ledger')
    /\ r.pc \in {"count", "sent"} => /\ ledger'[r.row].status = "reserved"
                                     /\ clock' < ledger'[r.row].permit
    /\ r.pc = "settle" => r.verdict \in VerdictType

LEMMA OneCall ==
    ASSUME TypeInv, CallInv, NEW c \in Calls, NEW r, Fits(c, r),
           call' = [call EXCEPT ![c] = r], clock' = clock,
           Len(ledger') \in Nat, Len(ledger') >= Len(ledger),
           \A i \in 1..Len(ledger) : i # call[c].row => ledger'[i] = ledger[i]
    PROVE  call' \in [Calls -> CallType] /\ CallInv'
  <1>1. /\ call \in [Calls -> CallType] /\ r \in CallType
        /\ Len(ledger) \in Nat
    BY DEF TypeInv, Fits
  <1>2. /\ call' \in [Calls -> CallType] /\ call'[c] = r
        /\ \A d \in Calls : d # c => call'[d] = call[d]
    BY <1>1
  <1>3. \A d \in Calls : call[d].row # 0 => call[d].row \in 1..Len(ledger)
    BY <1>1 DEF CallInv, CallType
  <1>4. ASSUME NEW d \in Calls, d # c
        PROVE  /\ call[d].pc \in {"idle", "reserve"} => call[d].row = 0
               /\ call[d].pc \in {"count", "sent", "settle"} =>
                      call[d].row \in 1..Len(ledger')
               /\ call[d].pc \in {"count", "sent"} =>
                      /\ ledger'[call[d].row].status = "reserved"
                      /\ clock' < ledger'[call[d].row].permit
               /\ call[d].pc = "settle" => call[d].verdict \in VerdictType
               /\ call[d].row # 0 => call[d].row # r.row
    <2>1. /\ call[d].pc \in {"idle", "reserve"} => call[d].row = 0
          /\ call[d].pc \in {"count", "sent", "settle"} =>
                 call[d].row \in 1..Len(ledger)
          /\ call[d].pc \in {"count", "sent"} =>
                 /\ ledger[call[d].row].status = "reserved"
                 /\ clock < ledger[call[d].row].permit
          /\ call[d].pc = "settle" => call[d].verdict \in VerdictType
          /\ call[d].row # 0 => call[d].row # call[c].row
      BY <1>4 DEF CallInv
    <2>2. call[d].row # 0 => /\ call[d].row \in 1..Len(ledger)
                             /\ call[d].row \in 1..Len(ledger')
                             /\ call[d].row # Len(ledger) + 1
      BY <1>1, <1>3
    <2>3. call[d].row # 0 => ledger'[call[d].row] = ledger[call[d].row]
      BY <2>1, <2>2
    <2>4. call[d].row # 0 => call[d].row # r.row
      BY <2>1, <2>2 DEF Fits
    <2>5. call[d].pc \in {"count", "sent", "settle"} => call[d].row # 0
      BY <1>1, <2>1
    <2> QED BY <2>1, <2>2, <2>3, <2>4, <2>5
  <1>5. CallInv'
    <2> SUFFICES ASSUME NEW d \in Calls
                 PROVE  /\ call'[d].pc \in {"idle", "reserve"} => call'[d].row = 0
                        /\ call'[d].pc \in {"count", "sent", "settle"} =>
                               call'[d].row \in 1..Len(ledger')
                        /\ call'[d].pc \in {"count", "sent"} =>
                               /\ ledger'[call'[d].row].status = "reserved"
                               /\ clock' < ledger'[call'[d].row].permit
                        /\ call'[d].pc = "settle" =>
                               call'[d].verdict \in VerdictType
                        /\ \A e \in Calls :
                              call'[d].row = call'[e].row /\ call'[d].row # 0
                                  => d = e
      BY DEF CallInv
    <2>1. CASE d = c
      <3>1. \A e \in Calls : call'[d].row = call'[e].row /\ call'[d].row # 0
                                 => d = e
        BY <1>2, <1>4, <2>1
      <3> QED BY <1>2, <2>1, <3>1 DEF Fits
    <2>2. CASE d # c
      <3>1. \A e \in Calls : call'[d].row = call'[e].row /\ call'[d].row # 0
                                 => d = e
        BY <1>2, <1>4, <2>2 DEF CallInv
      <3> QED BY <1>2, <1>4, <2>2, <3>1
    <2> QED BY <2>1, <2>2
  <1> QED BY <1>2, <1>5

\* A reserved row is a call's, or its loss has a reason.
Excused == excused.crash \union excused.fault \union excused.limit

Accounts(c, r) ==
    /\ Excused \subseteq Excused'
    /\ \A i \in DOMAIN ledger' : ledger'[i].status = "reserved" =>
          \/ i = r.row
          \/ /\ i \in DOMAIN ledger /\ ledger[i].status = "reserved"
             /\ i = call[c].row => i \in Excused'

LEMMA Accounted ==
    ASSUME TypeInv, NothingLeft, NEW c \in Calls, NEW r,
           call' = [call EXCEPT ![c] = r], Accounts(c, r)
    PROVE  NothingLeft'
  <1> USE DEF Accounts
  <1> SUFFICES ASSUME NEW i \in DOMAIN ledger', ledger'[i].status = "reserved"
               PROVE  i \in Excused' \/ \E d \in Calls : i = call'[d].row
    BY DEF NothingLeft, Excused
  <1>1. /\ call'[c] = r /\ \A d \in Calls : d # c => call'[d] = call[d]
    BY DEF TypeInv
  <1>2. CASE i = r.row
    BY <1>1, <1>2
  <1>3. CASE /\ i \in DOMAIN ledger /\ ledger[i].status = "reserved"
             /\ i = call[c].row => i \in Excused'
    <2>1. i \in Excused \/ \E d \in Calls : i = call[d].row
      BY <1>3 DEF NothingLeft, Excused
    <2> QED BY <1>1, <1>3, <2>1
  <1> QED BY <1>2, <1>3

LEMMA IdleType ==
    /\ IdleCall \in CallType /\ IdleCall.pc = "idle" /\ IdleCall.row = 0
  BY DEF IdleCall, CallType

\* A call that is refused, or has not started, has no row.
LEMMA NoRow ==
    ASSUME TypeInv, CallInv, NEW c \in Calls, call[c].pc \in {"idle", "reserve"}
    PROVE  call[c].row = 0
  BY DEF CallInv

\* A call that returns without a row.
LEMMA Returned ==
    ASSUME UsageInv, NEW c \in Calls, call[c].row = 0, Return(c),
           UNCHANGED <<ledger, months, circuit, priced, budget, claim, used,
                       stored, clock, events, excused>>
    PROVE  UsageInv'
  <1> USE DEF UsageInv
  <1>1. /\ Len(ledger) \in Nat /\ call' = [call EXCEPT ![c] = IdleCall]
        /\ DOMAIN ledger = 1..Len(ledger)
        /\ Len(ledger') \in Nat /\ Len(ledger') >= Len(ledger)
        /\ clock' = clock /\ ledger' = ledger
    BY DEF TypeInv, Return
  <1>2. Fits(c, IdleCall)
    BY IdleType DEF Fits
  <1>3. call' \in [Calls -> CallType] /\ CallInv'
    BY <1>1, <1>2, OneCall
  <1>4. TypeInv'
    BY <1>3 DEF TypeInv
  <1>5. Balanced' /\ Covered' /\ OpenInv'
    BY BooksSame
  <1>6. ActiveInv'
    BY DEF ActiveInv, Active
  <1>7. NothingLeft'
    <2>1. Excused' = Excused
      BY DEF Excused
    <2>2. \A i \in DOMAIN ledger : i # call[c].row
      BY <1>1
    <2>3. Accounts(c, IdleCall)
      BY <1>1, <2>1, <2>2 DEF Accounts
    <2> QED BY <1>1, <2>3, Accounted
  <1> QED BY <1>3, <1>4, <1>5, <1>6, <1>7

\* The state of a call that has reserved a row.
Counting(holder, kind, body) ==
    [IdleCall EXCEPT !.pc = "count", !.row = Len(ledger) + 1,
                     !.claim = holder, !.kind = kind, !.body = body]

LEMMA CountingType ==
    ASSUME TypeInv, NEW holder \in Nat, NEW kind \in {"first", "retry"},
           NEW body \in SUBSET Options
    PROVE  /\ Counting(holder, kind, body) \in CallType
           /\ Counting(holder, kind, body).pc = "count"
           /\ Counting(holder, kind, body).row = Len(ledger) + 1
  <1>1. Len(ledger) + 1 \in Nat
    BY DEF TypeInv
  <1> DEFINE n == Len(ledger) + 1
  <1>2. Counting(holder, kind, body)
          = [IdleCall EXCEPT !.pc = "count", !.row = n, !.claim = holder,
                             !.kind = kind, !.body = body]
    BY DEF Counting
  <1>3. n \in Nat /\ IdleCall \in CallType
    BY <1>1, IdleType
  <1> HIDE DEF n
  <1>4. /\ Counting(holder, kind, body) \in CallType
        /\ Counting(holder, kind, body).pc = "count"
        /\ Counting(holder, kind, body).row = n
    BY <1>2, <1>3 DEF CallType
  <1> QED BY <1>4 DEF n

\* The row a reservation appends.
NewRow(cost) ==
    [month |-> Month(clock), cost |-> Known(cost), status |-> "reserved",
     estimate |-> None, permit |-> clock + PermitTime, output |-> "pending",
     budget |-> budget]

LEMMA NewRowType ==
    ASSUME TypeInv, NEW cost \in Amounts
    PROVE  /\ NewRow(cost) \in RowType
           /\ NewRow(cost).month = Month(clock)
           /\ NewRow(cost).cost = Known(cost)
           /\ NewRow(cost).status = "reserved" /\ NewRow(cost).estimate = None
           /\ NewRow(cost).budget = budget /\ clock < NewRow(cost).permit
  <1>1. /\ clock \in Nat /\ Month(clock) \in Months /\ Known(cost) \in Nat
        /\ budget \in Amounts /\ None \in Amounts
    BY MonthNow DEF Known, Amounts, TypeInv
  <1>2. clock + PermitTime \in Nat /\ clock < clock + PermitTime
    BY <1>1, Constants
  <1> QED BY <1>1, <1>2 DEF NewRow, RowType

\* A reservation takes a free place of the channel.
LEMMA ReservedActive ==
    ASSUME TypeInv, ActiveInv, Acquirable, NEW row \in RowType,
           ledger' = Append(ledger, row), clock' = clock
    PROVE  ActiveInv'
  <1> DEFINE n == Len(ledger) + 1
  <1>1. /\ Len(ledger) \in Nat /\ Len(ledger') = n /\ n \in Nat
        /\ \A i \in 1..Len(ledger) : ledger'[i] = ledger[i]
        /\ DOMAIN ledger = 1..Len(ledger)
        /\ DOMAIN ledger' = 1..(Len(ledger) + 1)
    BY DEF TypeInv
  <1>2. Active' \subseteq Active \union {n}
    <2> SUFFICES ASSUME NEW i \in Active', i # n PROVE i \in Active
      OBVIOUS
    <2>1. i \in 1..Len(ledger)
      BY <1>1 DEF Active
    <2> QED BY <1>1, <2>1 DEF Active
  <1>3. IsFiniteSet(Active) /\ Cardinality(Active) \in Nat /\ n \notin Active
    BY <1>1, ActiveFinite
  <1>4. /\ IsFiniteSet(Active \union {n})
        /\ Cardinality(Active \union {n}) = Cardinality(Active) + 1
    BY <1>3, FS_AddElement
  <1>5. /\ IsFiniteSet(Active')
        /\ Cardinality(Active') <= Cardinality(Active \union {n})
    BY <1>2, <1>4, FS_Subset
  <1>6. Cardinality(Active') \in Nat
    BY <1>5, FS_CardinalityType
  <1>7. Cardinality(Active) < ProviderConcurrency
    BY <1>3, Constants DEF Acquirable, ChannelLimit
  <1> QED BY <1>3, <1>4, <1>5, <1>6, <1>7, Constants DEF ActiveInv

LEMMA ReserveKept ==
    ASSUME UsageInv, NEW c \in Calls, call[c].pc \in {"idle", "reserve"},
           NEW holder \in Nat, NEW kind \in {"first", "retry"},
           NEW body \in SUBSET Options, Reserve(c, holder, kind, body)
    PROVE  UsageInv'
  <1> USE DEF UsageInv
  <1>1. call[c].row = 0
    BY NoRow
  <1>2. PICK cost \in Amounts :
          IF holder = claim /\ Acquirable /\ Affordable(cost)
          THEN /\ ledger' = Append(ledger, NewRow(cost))
               /\ months' = [months EXCEPT ![Month(clock)].count = @ + 1,
                                           ![Month(clock)].reserved = @ + Known(cost)]
               /\ call' = [call EXCEPT ![c] = Counting(holder, kind, body)]
          ELSE Return(c) /\ UNCHANGED <<ledger, months>>
    BY Constants DEF Reserve, Amounts, NewRow, Counting
  <1>3. UNCHANGED <<circuit, priced, budget, claim, used, stored, clock,
                    events, excused>>
    BY DEF Reserve
  <1>4. CASE ~(holder = claim /\ Acquirable /\ Affordable(cost))
    BY <1>1, <1>2, <1>3, <1>4, Returned
  <1>5. CASE holder = claim /\ Acquirable /\ Affordable(cost)
    <2> DEFINE row == NewRow(cost)
               r == Counting(holder, kind, body)
    <2>1. /\ row \in RowType /\ row.month = Month(clock)
          /\ row.cost = Known(cost) /\ row.status = "reserved"
          /\ row.estimate = None /\ row.budget = budget /\ clock < row.permit
      BY NewRowType
    <2>2. r \in CallType /\ r.pc = "count" /\ r.row = Len(ledger) + 1
      BY CountingType
    <2>3. /\ ledger' = Append(ledger, row)
          /\ months' = [months EXCEPT ![Month(clock)].count = @ + 1,
                                      ![Month(clock)].reserved = @ + Known(cost)]
          /\ call' = [call EXCEPT ![c] = r]
      BY <1>2, <1>5
    <2> HIDE DEF row, r
    <2>4. /\ Len(ledger) \in Nat /\ ledger' \in Seq(RowType)
          /\ Len(ledger') = Len(ledger) + 1 /\ Len(ledger') \in Nat
          /\ Len(ledger') >= Len(ledger) /\ ledger'[Len(ledger) + 1] = row
          /\ Len(ledger) + 1 \in 1..Len(ledger')
          /\ \A i \in 1..Len(ledger) : ledger'[i] = ledger[i]
          /\ DOMAIN ledger = 1..Len(ledger)
          /\ DOMAIN ledger' = 1..(Len(ledger) + 1)
      BY <2>1, <2>3 DEF TypeInv
    <2>5. /\ months' \in [Months -> MonthType]
          /\ Balanced' /\ Covered' /\ OpenInv'
      BY <1>3, <1>5, <2>1, <2>3, ReservedBooks
    <2>6. ActiveInv'
      BY <1>3, <1>5, <2>1, <2>3, ReservedActive
    <2>7. Fits(c, r)
      BY <1>3, <2>1, <2>2, <2>4 DEF Fits
    <2>8. call' \in [Calls -> CallType] /\ CallInv'
      BY <1>3, <2>3, <2>4, <2>7, OneCall
    <2>9. TypeInv'
      BY <1>3, <2>4, <2>5, <2>8 DEF TypeInv
    <2>10. NothingLeft'
      <3>1. Excused' = Excused
        BY <1>3 DEF Excused
      <3>2. \A i \in DOMAIN ledger' :
                \/ i = r.row
                \/ /\ i \in DOMAIN ledger /\ ledger'[i] = ledger[i]
                   /\ i # call[c].row
        BY <1>1, <2>2, <2>4
      <3>3. Accounts(c, r)
        BY <3>1, <3>2 DEF Accounts
      <3> QED BY <2>3, <3>3, Accounted
    <2> QED BY <2>5, <2>6, <2>8, <2>9, <2>10
  <1> QED BY <1>4, <1>5

LEMMA StartKept ==
    ASSUME UsageInv, NEW c \in Calls, Start(c)
    PROVE  UsageInv'
  <1>1. claim \in Nat /\ Options \in SUBSET Options
    BY DEF UsageInv, TypeInv
  <1> QED BY <1>1, ReserveKept DEF Start

LEMMA AgainKept ==
    ASSUME UsageInv, NEW c \in Calls, Again(c)
    PROVE  UsageInv'
  <1>1. call[c] \in CallType
    BY DEF UsageInv, TypeInv
  <1>2. /\ call[c].claim \in Nat /\ call[c].kind \in {"first", "retry"}
        /\ call[c].body \in SUBSET Options
    BY <1>1 DEF CallType
  <1> QED BY <1>2, ReserveKept DEF Again

-----------------------------------------------------------------------------
(* Counting, sending and recording a request.                              *)

LEMMA CheckRequestLimitKept ==
    ASSUME UsageInv, NEW c \in Calls, CheckRequestLimit(c)
    PROVE  UsageInv'
  <1> USE DEF UsageInv
  <1> DEFINE row == call[c].row
             sent == [call[c] EXCEPT !.pc = "sent"]
  <1>1. /\ call[c] \in CallType /\ call[c].pc = "count"
        /\ UNCHANGED <<ledger, months, circuit, priced, budget, claim, stored,
                       clock, events>>
    BY DEF TypeInv, CheckRequestLimit
  <1>2. /\ row \in 1..Len(ledger) /\ ledger[row].status = "reserved"
        /\ clock < ledger[row].permit
    BY <1>1 DEF CallInv
  <1>3. /\ Len(ledger) \in Nat /\ Len(ledger') \in Nat
        /\ Len(ledger') >= Len(ledger) /\ ledger' = ledger /\ clock' = clock
        /\ row \in Nat
    BY <1>1, <1>2 DEF TypeInv
  <1>4. Balanced' /\ Covered' /\ OpenInv' /\ ActiveInv'
    BY <1>1, BooksSame DEF ActiveInv, Active
  <1>5. CASE call[c].claim = claim /\ used < RequestLimit
    <2>1. /\ used' = used + 1 /\ UNCHANGED excused
          /\ call' = [call EXCEPT ![c] = sent]
      BY <1>1, <1>5 DEF CheckRequestLimit, Goto, TypeInv
    <2>2. sent \in CallType /\ sent.pc = "sent" /\ sent.row = row
      BY <1>1 DEF CallType
    <2> HIDE DEF sent, row
    <2>3. Fits(c, sent)
      BY <1>2, <1>3, <2>2 DEF Fits, row
    <2>4. call' \in [Calls -> CallType] /\ CallInv'
      BY <1>3, <2>1, <2>3, OneCall
    <2>5. TypeInv'
      BY <1>1, <2>1, <2>4 DEF TypeInv
    <2>6. NothingLeft'
      <3>1. Excused' = Excused
        BY <2>1 DEF Excused
      <3>2. Accounts(c, sent)
        BY <1>3, <2>2, <3>1 DEF Accounts, row
      <3> QED BY <2>1, <3>2, Accounted
    <2> QED BY <1>4, <2>4, <2>5, <2>6
  <1>6. CASE ~(call[c].claim = claim /\ used < RequestLimit)
    <2>1. /\ call' = [call EXCEPT ![c] = IdleCall] /\ UNCHANGED used
          /\ excused' = [excused EXCEPT !.limit = @ \union {row}]
      BY <1>1, <1>6 DEF CheckRequestLimit, Return
    <2>2. Fits(c, IdleCall)
      BY IdleType DEF Fits
    <2>3. call' \in [Calls -> CallType] /\ CallInv'
      BY <1>3, <2>1, <2>2, OneCall
    <2>4. /\ excused' \in [crash : SUBSET Nat, fault : SUBSET Nat,
                           limit : SUBSET Nat]
          /\ Excused \subseteq Excused' /\ row \in Excused'
      <3> HIDE DEF row
      <3> QED BY <1>3, <2>1 DEF TypeInv, Excused
    <2>5. TypeInv'
      BY <1>1, <2>1, <2>3, <2>4 DEF TypeInv
    <2>6. NothingLeft'
      <3>1. Accounts(c, IdleCall)
        BY <1>3, <2>4 DEF Accounts
      <3> QED BY <2>1, <3>1, Accounted
    <2> QED BY <1>4, <2>3, <2>5, <2>6
  <1> QED BY <1>5, <1>6

\* The verdicts on an answer.
LEMMA VerdictsType ==
    ASSUME TypeInv, NEW c \in Calls, NEW v \in Answers(c)
    PROVE  v \in VerdictType
  <1>1. call[c].body \in SUBSET Options
    <2>1. call[c] \in CallType
      BY DEF TypeInv
    <2> QED BY <2>1 DEF CallType
  <1>2. Actual \subseteq Amounts /\ None \in Amounts /\ 0 \in Amounts
    BY Constants DEF Amounts
  <1>3. CASE v \in Parsed(c)
    <2>1. PICK u \in Actual :
              v = Verdict(u, FALSE, 200, First(c), TRUE, "return", {})
      BY <1>3 DEF Parsed
    <2>2. First(c) \in BOOLEAN /\ {} \in SUBSET Options
      BY DEF First
    <2> QED BY <1>2, <2>1, <2>2 DEF Verdict, VerdictType
  <1>4. CASE v \in Unusable(c)
    <2>1. PICK u \in Actual \union {None}, next \in {"retry", "return"} :
              v = Verdict(u, u = None, 200, First(c), TRUE, next, {})
      BY <1>4 DEF Unusable
    <2>2. First(c) \in BOOLEAN /\ (u = None) \in BOOLEAN
      BY DEF First
    <2>3. {} \in SUBSET Options /\ u \in Amounts
      BY <1>2
    <2> QED BY <2>1, <2>2, <2>3 DEF Verdict, VerdictType
  <1>5. CASE v \in Fallback(c)
    <2>1. PICK next \in {"first", "return"}, body \in SUBSET Options :
              v = Verdict(0, FALSE, 400, TRUE, FALSE, next, body)
      BY <1>1, <1>5, ZenonT(30) DEF Fallback
    <2> QED BY <1>2, <2>1 DEF Verdict, VerdictType
  <1>6. CASE v \in Rejected(c)
    <2>1. PICK status \in {408, 500} :
              v = Verdict(None, TRUE, status, TRUE, FALSE, "return", {})
      BY <1>6 DEF Rejected
    <2> QED BY <1>2, <2>1 DEF Verdict, VerdictType
  <1>7. CASE v \in Broken(c)
    <2>1. PICK status \in {None, 200}, text \in BOOLEAN :
              v = Verdict(None, TRUE, status, FALSE, text, "return", {})
      BY <1>7 DEF Broken
    <2> QED BY <1>2, <2>1 DEF Verdict, VerdictType
  <1> QED BY <1>3, <1>4, <1>5, <1>6, <1>7 DEF Answers

LEMMA RecordedRow ==
    ASSUME NEW row \in RowType, NEW text \in BOOLEAN
    PROVE  /\ Record(row, text) \in RowType
           /\ Record(row, text).month = row.month
           /\ Record(row, text).budget = row.budget
           /\ Record(row, text).status = row.status
           /\ Record(row, text).permit = row.permit
           /\ Record(row, text).estimate = row.estimate
           /\ Record(row, text).cost = row.cost
  BY DEF RowType, Record

LEMMA SameWorth ==
    ASSUME NEW row, NEW old, row.month = old.month, row.cost = old.cost,
           row.status = old.status, row.estimate = old.estimate,
           NEW k \in Measures, NEW m
    PROVE  Share(k, m, row) = Share(k, m, old)
  <1>1. Held(row) = Held(old)
    BY DEF Held, Released
  <1>2. Overrun(row) = Overrun(old)
    BY DEF Overrun
  <1> QED BY <1>1, <1>2 DEF Share, Value, Measures

\* The storage of an answer does not concern the books.
LEMMA RecordedBooks ==
    ASSUME TypeInv, OpenInv, ActiveInv, Balanced, Covered,
           UNCHANGED <<priced, months, clock>>,
           NEW j \in 1..Len(ledger), NEW text \in BOOLEAN,
           ledger' = [ledger EXCEPT ![j] = Record(@, text)]
    PROVE  /\ ledger' \in Seq(RowType) /\ Len(ledger') = Len(ledger)
           /\ ledger'[j].status = ledger[j].status
           /\ ledger'[j].permit = ledger[j].permit
           /\ \A i \in 1..Len(ledger) : i # j => ledger'[i] = ledger[i]
           /\ Balanced' /\ Covered' /\ OpenInv' /\ ActiveInv'
  <1> DEFINE row == Record(ledger[j], text)
  <1>1. ledger \in Seq(RowType) /\ ledger[j] \in RowType
        /\ months \in [Months -> MonthType]
    BY DEF TypeInv
  <1>2. /\ row \in RowType /\ row.month = ledger[j].month
        /\ row.budget = ledger[j].budget /\ row.status = ledger[j].status
        /\ row.permit = ledger[j].permit /\ row.cost = ledger[j].cost
        /\ row.estimate = ledger[j].estimate
    BY <1>1, RecordedRow
  <1>3. ledger' = [ledger EXCEPT ![j] = row]
    BY <1>1
  <1> HIDE DEF row
  <1>4. /\ ledger' \in Seq(RowType) /\ Len(ledger') = Len(ledger)
        /\ ledger'[j] = row
        /\ \A i \in 1..Len(ledger) : i # j => ledger'[i] = ledger[i]
    BY <1>1, <1>2, <1>3
  <1>5. ActiveInv'
    <2>1. Active' \subseteq Active
      BY <1>1, <1>2, <1>4 DEF Active
    <2> QED BY <2>1, ActiveShrinks
  <1>6. Balanced' /\ Covered' /\ OpenInv'
    <2>1. \A k \in Measures : \A m \in Months :
              Share(k, m, row) = Share(k, m, ledger[j])
      BY <1>2, SameWorth
    <2>2. ASSUME NEW m \in Months
          PROVE  /\ months'[m].count = months[m].count
                 /\ months'[m].estimated = months[m].estimated
                        - Share("estimated", m, ledger[j])
                        + Share("estimated", m, row)
                 /\ months'[m].reserved = months[m].reserved
                        - Share("reserved", m, ledger[j])
                        + Share("reserved", m, row)
                 /\ Spent(m)' - Spent(m)
                       <= Share("overrun", m, row)
                              - Share("overrun", m, ledger[j])
      <3>1. \A k \in Measures : Share(k, m, ledger[j]) \in Nat
        BY <1>1, ValueNat DEF Share
      <3>2. /\ months[m].estimated \in Int /\ months[m].reserved \in Int
            /\ Spent(m) \in Int /\ Spent(m)' = Spent(m)
        BY <1>1 DEF MonthType, Spent
      <3>3. /\ Share("estimated", m, row) = Share("estimated", m, ledger[j])
            /\ Share("reserved", m, row) = Share("reserved", m, ledger[j])
            /\ Share("overrun", m, row) = Share("overrun", m, ledger[j])
            /\ Share("estimated", m, ledger[j]) \in Nat
            /\ Share("reserved", m, ledger[j]) \in Nat
            /\ Share("overrun", m, ledger[j]) \in Nat
        BY <2>1, <3>1 DEF Measures
      <3>4. /\ months[m].estimated = months[m].estimated
                  - Share("estimated", m, ledger[j])
                  + Share("estimated", m, row)
            /\ months[m].reserved = months[m].reserved
                  - Share("reserved", m, ledger[j])
                  + Share("reserved", m, row)
        BY <3>2, <3>3
      <3>5. Spent(m)' - Spent(m) = 0
        BY <3>2
      <3>6. Share("overrun", m, row) - Share("overrun", m, ledger[j]) = 0
        BY <3>3
      <3> QED BY <3>4, <3>5, <3>6
    <2>3. row.status = "reserved" => row.estimate = None
      BY <1>1, <1>2 DEF OpenInv
    <2>4. months' \in [Months -> MonthType]
      BY <1>1
    <2> QED BY <1>2, <1>3, <2>2, <2>3, <2>4, RewrittenBooks
  <1> QED BY <1>2, <1>4, <1>5, <1>6

LEMMA AnswerKept ==
    ASSUME UsageInv, NEW c \in Calls, Answer(c)
    PROVE  UsageInv'
  <1> USE DEF UsageInv
  <1> DEFINE j == call[c].row
  <1>1. PICK v \in Answers(c) :
          /\ call' = [call EXCEPT ![c].pc = "settle", ![c].verdict = v]
          /\ ledger' = [ledger EXCEPT ![j] = Record(@, v.text)]
          /\ stored' = IF v.text /\ stored < MaxOutputs THEN stored + 1 ELSE stored
    BY DEF Answer
  <1>2. /\ call[c] \in CallType /\ call[c].pc = "sent" /\ j \in 1..Len(ledger)
        /\ call \in [Calls -> CallType]
        /\ UNCHANGED <<months, circuit, priced, budget, claim, used, clock,
                       events, excused>>
    BY DEF TypeInv, Answer, CallInv
  <1>3. v \in VerdictType /\ v.text \in BOOLEAN
    <2>1. v \in VerdictType
      BY VerdictsType
    <2> QED BY <2>1 DEF VerdictType
  <1> DEFINE r == [call[c] EXCEPT !.pc = "settle", !.verdict = v]
  <1>4. /\ r \in CallType /\ r.pc = "settle" /\ r.row = j /\ r.verdict = v
    BY <1>2, <1>3 DEF CallType
  <1>5. call' = [call EXCEPT ![c] = r]
    BY <1>1, <1>2
  <1> HIDE DEF r, j
  <1>6. /\ ledger' \in Seq(RowType) /\ Len(ledger') = Len(ledger)
        /\ ledger'[j].status = ledger[j].status
        /\ \A i \in 1..Len(ledger) : i # j => ledger'[i] = ledger[i]
        /\ Balanced' /\ Covered' /\ OpenInv' /\ ActiveInv'
    BY <1>1, <1>2, <1>3, RecordedBooks
  <1>7. /\ Len(ledger) \in Nat /\ Len(ledger') \in Nat
        /\ Len(ledger') >= Len(ledger) /\ clock' = clock
        /\ DOMAIN ledger' = DOMAIN ledger /\ j \in 1..Len(ledger')
    BY <1>2, <1>6 DEF TypeInv
  <1>8. Fits(c, r)
    BY <1>3, <1>4, <1>7 DEF Fits, j
  <1>9. call' \in [Calls -> CallType] /\ CallInv'
    BY <1>5, <1>6, <1>7, <1>8, OneCall DEF j
  <1>10. stored' \in Nat
    BY <1>1, <1>3 DEF TypeInv
  <1>11. TypeInv'
    BY <1>2, <1>6, <1>9, <1>10 DEF TypeInv
  <1>12. NothingLeft'
    <2>1. Excused' = Excused
      BY <1>2 DEF Excused
    <2>2. \A i \in DOMAIN ledger : i = j \/ ledger'[i] = ledger[i]
      BY <1>6 DEF TypeInv
    <2>3. Accounts(c, r)
      BY <1>4, <1>7, <2>1, <2>2 DEF Accounts, j
    <2> QED BY <1>5, <2>3, Accounted
  <1> QED BY <1>6, <1>9, <1>11, <1>12

-----------------------------------------------------------------------------
(* Settling a request.                                                     *)

\* What a settlement, or a settlement that was rolled back, leaves.
BooksKept(j) ==
    /\ ledger' \in Seq(RowType) /\ Len(ledger') = Len(ledger)
    /\ \A i \in 1..Len(ledger) : i # j => ledger'[i] = ledger[i]
    /\ ledger'[j].status = "reserved" => ledger[j].status = "reserved"
    /\ months' \in [Months -> MonthType]
    /\ circuit' \in [failures : Nat, open_until : Nat]
    /\ Balanced' /\ Covered' /\ OpenInv' /\ ActiveInv'

LEMMA SettledKeep ==
    ASSUME UsageInv, UNCHANGED <<priced, clock>>,
           NEW j \in 1..Len(ledger), NEW v \in VerdictType,
           SettleRow(j, v)
    PROVE  BooksKept(j) /\ ledger'[j].status # "reserved"
  BY SettledBooks DEF UsageInv, BooksKept

LEMMA RolledBack ==
    ASSUME UsageInv, UNCHANGED <<priced, clock>>,
           NEW j \in 1..Len(ledger), UNCHANGED <<ledger, months, circuit>>
    PROVE  BooksKept(j)
  <1>1. Balanced' /\ Covered' /\ OpenInv'
    BY BooksSame DEF UsageInv
  <1>2. ActiveInv'
    BY DEF UsageInv, ActiveInv, Active
  <1> QED BY <1>1, <1>2 DEF UsageInv, TypeInv, BooksKept

\* The state of a call that goes on with another request.
NextRequest(c, v) ==
    [IdleCall EXCEPT !.pc = "reserve", !.claim = call[c].claim,
                     !.kind = v.next, !.body = v.body]

LEMMA Continues ==
    ASSUME UsageInv, NEW c \in Calls, NEW v \in VerdictType, Continue(c, v)
    PROVE  \E r : call' = [call EXCEPT ![c] = r] /\ Fits(c, r) /\ r.row = 0
  <1>1. CASE v.next = "return"
    <2>1. call' = [call EXCEPT ![c] = IdleCall]
      BY <1>1 DEF Continue, Return
    <2>2. Fits(c, IdleCall) /\ IdleCall.row = 0
      BY IdleType DEF Fits
    <2> QED BY <2>1, <2>2
  <1>2. CASE v.next # "return"
    <2> DEFINE r == NextRequest(c, v)
    <2>1. call' = [call EXCEPT ![c] = r]
      BY <1>2 DEF Continue, NextRequest
    <2>2. /\ v.next \in {"retry", "first"} /\ v.body \in SUBSET Options
          /\ call[c].claim \in Nat
      BY <1>2 DEF VerdictType, UsageInv, TypeInv, CallType
    <2>3. r \in CallType /\ r.pc = "reserve" /\ r.row = 0
      BY <2>2, IdleType DEF NextRequest, CallType
    <2> HIDE DEF r
    <2>4. Fits(c, r)
      BY <2>3 DEF Fits
    <2> QED BY <2>1, <2>3, <2>4
  <1> QED BY <1>1, <1>2

LEMMA SettleKept ==
    ASSUME UsageInv, NEW c \in Calls, Settle(c)
    PROVE  UsageInv'
  <1> USE DEF UsageInv
  <1> DEFINE j == call[c].row
             v == call[c].verdict
  <1>1. /\ j \in 1..Len(ledger) /\ v \in VerdictType
        /\ SettleRow(j, v) /\ Continue(c, v)
        /\ UNCHANGED <<priced, budget, claim, used, stored, clock, events,
                       excused>>
    BY DEF Settle, CallInv
  <1> HIDE DEF j, v
  <1>2. BooksKept(j) /\ ledger'[j].status # "reserved"
    BY <1>1, SettledKeep
  <1>3. PICK r : call' = [call EXCEPT ![c] = r] /\ Fits(c, r) /\ r.row = 0
    BY <1>1, Continues
  <1>4. /\ Len(ledger) \in Nat /\ Len(ledger') \in Nat
        /\ Len(ledger') >= Len(ledger) /\ clock' = clock
        /\ DOMAIN ledger' = DOMAIN ledger /\ DOMAIN ledger = 1..Len(ledger)
    BY <1>1, <1>2 DEF TypeInv, BooksKept
  <1>5. call' \in [Calls -> CallType] /\ CallInv'
    BY <1>2, <1>3, <1>4, OneCall DEF BooksKept, j
  <1>6. TypeInv'
    BY <1>1, <1>2, <1>5 DEF TypeInv, BooksKept
  <1>7. NothingLeft'
    <2>1. Excused' = Excused
      BY <1>1 DEF Excused
    <2>2. Accounts(c, r)
      BY <1>2, <1>4, <2>1 DEF Accounts, BooksKept, j
    <2> QED BY <1>3, <2>2, Accounted
  <1> QED BY <1>2, <1>5, <1>6, <1>7 DEF BooksKept

\* The verdict of a settlement that is tried once more.
SecondVerdict(v) ==
    [v EXCEPT !.usage = None, !.uncertain = TRUE, !.again = FALSE,
              !.next = IF v.status = 200 THEN "return" ELSE @]

LEMMA SecondVerdictType ==
    ASSUME NEW v \in VerdictType
    PROVE  SecondVerdict(v) \in VerdictType
  <1> DEFINE n == IF v.status = 200 THEN "return" ELSE v.next
  <1>1. n \in {"return", "retry", "first"} /\ None \in Amounts
    BY DEF VerdictType, Amounts
  <1>2. SecondVerdict(v) = [v EXCEPT !.usage = None, !.uncertain = TRUE,
                                     !.again = FALSE, !.next = n]
    BY DEF SecondVerdict
  <1> HIDE DEF n
  <1>3. /\ SecondVerdict(v).usage = None /\ SecondVerdict(v).uncertain = TRUE
        /\ SecondVerdict(v).status = v.status /\ SecondVerdict(v).again = FALSE
        /\ SecondVerdict(v).text = v.text /\ SecondVerdict(v).next = n
        /\ SecondVerdict(v).body = v.body
    BY <1>2 DEF VerdictType
  <1>4. SecondVerdict(v)
          = [usage |-> None, uncertain |-> TRUE, status |-> v.status,
             again |-> FALSE, text |-> v.text, next |-> n, body |-> v.body]
    BY <1>2, <1>3 DEF VerdictType
  <1>5. /\ v.status \in {None, 200, 400, 408, 500} /\ v.text \in BOOLEAN
        /\ v.body \in SUBSET Options
    BY DEF VerdictType
  <1> QED BY <1>1, <1>4, <1>5 DEF VerdictType

LEMMA SettleFailsKept ==
    ASSUME UsageInv, NEW c \in Calls, SettleFails(c)
    PROVE  UsageInv'
  <1> USE DEF UsageInv
  <1> DEFINE j == call[c].row
             v == call[c].verdict
             again == [call[c] EXCEPT !.verdict = SecondVerdict(v)]
  <1>1. /\ j \in 1..Len(ledger) /\ v \in VerdictType /\ call[c].pc = "settle"
        /\ SettleRow(j, v) \/ UNCHANGED <<ledger, months, circuit>>
        /\ UNCHANGED <<priced, budget, claim, used, stored, clock>>
        /\ events' = events + 1
        /\ call[c] \in CallType /\ call \in [Calls -> CallType]
    BY DEF SettleFails, CallInv, TypeInv
  <1>2. \/ /\ call' = [call EXCEPT ![c] = again]
           /\ UNCHANGED excused
        \/ /\ call' = [call EXCEPT ![c] = IdleCall]
           /\ excused' = [excused EXCEPT !.fault = @ \union {j}]
    BY <1>1 DEF SettleFails, Return, SecondVerdict
  <1>3. /\ again \in CallType /\ again.pc = "settle" /\ again.row = j
        /\ again.verdict \in VerdictType
    BY <1>1, SecondVerdictType DEF CallType
  <1> HIDE DEF v, again
  <1>4. BooksKept(j)
    <2> HIDE DEF j
    <2> QED BY <1>1, SettledKeep, RolledBack
  <1>5. /\ Len(ledger) \in Nat /\ Len(ledger') \in Nat
        /\ Len(ledger') >= Len(ledger) /\ clock' = clock
        /\ Len(ledger') = Len(ledger) /\ j \in Nat
        /\ DOMAIN ledger' = DOMAIN ledger /\ DOMAIN ledger = 1..Len(ledger)
    BY <1>1, <1>4 DEF TypeInv, BooksKept
  <1> HIDE DEF j
  <1>6. CASE call' = [call EXCEPT ![c] = again] /\ UNCHANGED excused
    <2>1. Fits(c, again)
      BY <1>1, <1>3, <1>5 DEF Fits, j
    <2>2. call' \in [Calls -> CallType] /\ CallInv'
      BY <1>4, <1>5, <1>6, <2>1, OneCall DEF BooksKept, j
    <2>3. TypeInv'
      BY <1>1, <1>4, <1>6, <2>2 DEF TypeInv, BooksKept
    <2>4. NothingLeft'
      <3>1. Excused' = Excused
        BY <1>6 DEF Excused
      <3>2. Accounts(c, again)
        BY <1>3, <1>4, <1>5, <3>1 DEF Accounts, BooksKept, j
      <3> QED BY <1>6, <3>2, Accounted
    <2> QED BY <1>4, <2>2, <2>3, <2>4 DEF BooksKept
  <1>7. CASE /\ call' = [call EXCEPT ![c] = IdleCall]
             /\ excused' = [excused EXCEPT !.fault = @ \union {j}]
    <2>1. Fits(c, IdleCall)
      BY IdleType DEF Fits
    <2>2. call' \in [Calls -> CallType] /\ CallInv'
      BY <1>4, <1>5, <1>7, <2>1, OneCall DEF BooksKept, j
    <2>3. /\ excused' \in [crash : SUBSET Nat, fault : SUBSET Nat,
                           limit : SUBSET Nat]
          /\ Excused \subseteq Excused' /\ j \in Excused'
      BY <1>5, <1>7 DEF TypeInv, Excused
    <2>4. TypeInv'
      BY <1>1, <1>4, <2>2, <2>3 DEF TypeInv, BooksKept
    <2>5. NothingLeft'
      <3>1. Accounts(c, IdleCall)
        BY <1>4, <1>5, <2>3 DEF Accounts, BooksKept, j
      <3> QED BY <1>7, <3>1, Accounted
    <2> QED BY <1>4, <2>2, <2>4, <2>5 DEF BooksKept
  <1> QED BY <1>2, <1>6, <1>7

-----------------------------------------------------------------------------
(* Crashes, claims, budgets and the clock.                                 *)

LEMMA CrashKept ==
    ASSUME UsageInv, Crash
    PROVE  UsageInv'
  <1> USE DEF UsageInv
  <1> DEFINE rows == {call[c].row : c \in {d \in Calls : call[d].row # 0}}
  <1>1. /\ call' = [c \in Calls |-> IdleCall] /\ events' = events + 1
        /\ excused' = [excused EXCEPT !.crash = @ \union rows]
        /\ UNCHANGED <<ledger, months, circuit, priced, budget, claim, used,
                       stored, clock>>
    BY DEF Crash
  <1>2. \A c \in Calls : call[c].row \in Nat
    BY DEF TypeInv, CallType
  <1>3. rows \subseteq Nat
    BY <1>2
  <1>4. \A c \in Calls : call[c].row # 0 => call[c].row \in rows
    OBVIOUS
  <1> HIDE DEF rows
  <1>5. /\ excused' \in [crash : SUBSET Nat, fault : SUBSET Nat,
                         limit : SUBSET Nat]
        /\ Excused \subseteq Excused' /\ rows \subseteq Excused'
    BY <1>1, <1>3 DEF TypeInv, Excused
  <1>6. call' \in [Calls -> CallType] /\ CallInv'
    <2>1. call' \in [Calls -> CallType] /\ \A c \in Calls : call'[c] = IdleCall
      BY <1>1, IdleType
    <2>2. \A c \in Calls : call'[c].pc = "idle" /\ call'[c].row = 0
      BY <2>1, IdleType
    <2>3. CallInv'
      BY <2>2 DEF CallInv
    <2> QED BY <2>1, <2>3
  <1>7. TypeInv'
    <2>1. events' \in Nat
      BY <1>1 DEF TypeInv
    <2>2. UNCHANGED <<ledger, months, circuit, priced, budget, claim, used,
                      stored, clock>>
      BY <1>1
    <2> QED BY <1>5, <1>6, <2>1, <2>2 DEF TypeInv
  <1>8. Balanced' /\ Covered' /\ OpenInv'
    BY <1>1, BooksSame
  <1>9. ActiveInv'
    BY <1>1 DEF ActiveInv, Active
  <1>10. NothingLeft'
    <2> SUFFICES ASSUME NEW i \in DOMAIN ledger, ledger[i].status = "reserved"
                 PROVE  i \in Excused'
      BY <1>1 DEF NothingLeft, Excused
    <2>1. i # 0
      BY DEF TypeInv
    <2>2. i \in Excused \/ \E c \in Calls : i = call[c].row
      BY DEF NothingLeft, Excused
    <2> QED BY <1>4, <1>5, <2>1, <2>2
  <1> QED BY <1>6, <1>7, <1>8, <1>9, <1>10

\* Steps that write to none of the rows, months and calls.
LEMMA ElsewhereKept ==
    ASSUME UsageInv,
           UNCHANGED <<ledger, months, circuit, priced, used, stored, call,
                       clock, excused>>,
           claim' \in Nat, budget' \in Amounts, events' \in Nat
    PROVE  UsageInv'
  <1> USE DEF UsageInv
  <1>1. TypeInv'
    BY DEF TypeInv
  <1>2. CallInv'
    BY DEF CallInv
  <1>3. Balanced' /\ Covered' /\ OpenInv'
    BY BooksSame
  <1>4. ActiveInv'
    BY DEF ActiveInv, Active
  <1>5. NothingLeft'
    BY DEF NothingLeft
  <1> QED BY <1>1, <1>2, <1>3, <1>4, <1>5

LEMMA ReclaimKept ==
    ASSUME UsageInv, Reclaim
    PROVE  UsageInv'
  <1>1. claim' \in Nat /\ budget' \in Amounts /\ events' \in Nat
    BY DEF UsageInv, TypeInv, Reclaim
  <1> QED BY <1>1, ElsewhereKept DEF Reclaim

LEMMA SetBudgetKept ==
    ASSUME UsageInv, SetBudget
    PROVE  UsageInv'
  <1>1. claim' \in Nat /\ budget' \in Amounts /\ events' \in Nat
    BY Constants DEF UsageInv, TypeInv, SetBudget, Amounts
  <1> QED BY <1>1, ElsewhereKept DEF SetBudget

LEMMA TickKept ==
    ASSUME UsageInv, Tick
    PROVE  UsageInv'
  <1> USE DEF UsageInv
  <1>1. /\ clock < MaxTime /\ clock' = clock + 1
        /\ \A c \in InFlight : clock + 1 < ledger[call[c].row].permit
        /\ UNCHANGED <<ledger, months, circuit, priced, budget, claim, used,
                       stored, call, events, excused>>
    BY DEF Tick
  <1>2. clock \in Nat /\ clock' \in 0..MaxTime
    BY <1>1, Constants DEF TypeInv
  <1>3. TypeInv'
    BY <1>1, <1>2 DEF TypeInv
  <1>4. CallInv'
    <2>1. \A c \in Calls : call[c].pc \in {"count", "sent"} =>
                               clock' < ledger[call[c].row].permit
      BY <1>1 DEF InFlight
    <2> QED BY <1>1, <2>1 DEF CallInv
  <1>5. Balanced' /\ Covered' /\ OpenInv'
    BY <1>1, BooksSame
  <1>6. ActiveInv'
    <2>1. ASSUME NEW i \in Active' PROVE i \in Active
      <3>1. i \in DOMAIN ledger /\ ledger[i] \in RowType
            /\ ledger[i].status = "reserved" /\ ledger[i].permit > clock'
        BY <1>1, <2>1 DEF Active, TypeInv
      <3>2. ledger[i].permit \in Nat
        BY <3>1 DEF RowType
      <3> QED BY <1>1, <1>2, <3>1, <3>2 DEF Active
    <2> QED BY <2>1, ActiveShrinks
  <1>7. NothingLeft'
    BY <1>1 DEF NothingLeft
  <1> QED BY <1>3, <1>4, <1>5, <1>6, <1>7

LEMMA UnchangedKept ==
    ASSUME UsageInv, UNCHANGED vars
    PROVE  UsageInv'
  <1>1. claim' \in Nat /\ budget' \in Amounts /\ events' \in Nat
    BY DEF UsageInv, TypeInv, vars
  <1> QED BY <1>1, ElsewhereKept DEF vars

LEMMA NextKept ==
    ASSUME UsageInv, [Next]_vars
    PROVE  UsageInv'
  <1>1. ASSUME NEW c \in Calls, Start(c) PROVE UsageInv'
    BY <1>1, StartKept
  <1>2. ASSUME NEW c \in Calls, Again(c) PROVE UsageInv'
    BY <1>2, AgainKept
  <1>3. ASSUME NEW c \in Calls, CheckRequestLimit(c) PROVE UsageInv'
    BY <1>3, CheckRequestLimitKept
  <1>4. ASSUME NEW c \in Calls, Answer(c) PROVE UsageInv'
    BY <1>4, AnswerKept
  <1>5. ASSUME NEW c \in Calls, Settle(c) PROVE UsageInv'
    BY <1>5, SettleKept
  <1>6. ASSUME NEW c \in Calls, SettleFails(c) PROVE UsageInv'
    BY <1>6, SettleFailsKept
  <1>7. CASE Crash
    BY <1>7, CrashKept
  <1>8. CASE Reclaim
    BY <1>8, ReclaimKept
  <1>9. CASE SetBudget
    BY <1>9, SetBudgetKept
  <1>10. CASE Tick
    BY <1>10, TickKept
  <1>11. CASE UNCHANGED vars
    BY <1>11, UnchangedKept
  <1> QED BY <1>1, <1>2, <1>3, <1>4, <1>5, <1>6, <1>7, <1>8, <1>9, <1>10,
             <1>11 DEF Next

LEMMA UsageInit == Init => UsageInv
  <1> SUFFICES ASSUME Init PROVE UsageInv
    OBVIOUS
  <1>1. /\ ledger = <<>> /\ Len(ledger) = 0 /\ DOMAIN ledger = {}
        /\ call = [c \in Calls |-> IdleCall] /\ priced \in BOOLEAN
        /\ budget \in Budgets \union {None}
        /\ claim = 1 /\ used = 0 /\ stored = 0 /\ clock = 0 /\ events = 0
        /\ circuit = [failures |-> 0, open_until |-> 0]
        /\ excused = [crash |-> {}, fault |-> {}, limit |-> {}]
        /\ months = [m \in Months |-> [count |-> 0, estimated |-> 0,
                                       reserved |-> 0, unknown |-> 0,
                                       uncertain |-> 0]]
    BY DEF Init, Months
  <1>2. TypeInv
    <2>1. ledger \in Seq(RowType) /\ call \in [Calls -> CallType]
          /\ budget \in Amounts /\ clock \in 0..MaxTime
          /\ months \in [Months -> MonthType]
      BY <1>1, IdleType, Constants DEF Amounts, MonthType
    <2>2. /\ circuit \in [failures : Nat, open_until : Nat]
          /\ excused \in [crash : SUBSET Nat, fault : SUBSET Nat,
                          limit : SUBSET Nat]
          /\ claim \in Nat /\ used \in Nat /\ stored \in Nat /\ events \in Nat
      BY <1>1
    <2> QED BY <1>1, <2>1, <2>2 DEF TypeInv
  <1>3. CallInv
    <2>1. \A c \in Calls : call[c].pc = "idle" /\ call[c].row = 0
      BY <1>1, IdleType
    <2> QED BY <2>1 DEF CallInv
  <1>4. OpenInv /\ NothingLeft
    BY <1>1 DEF OpenInv, NothingLeft
  <1>5. ActiveInv
    <2>1. Active = {}
      BY <1>1 DEF Active
    <2> QED BY <2>1, FS_EmptySet, Constants DEF ActiveInv
  <1>6. \A k, m : Booked(k, m) = 0
    <2>1. \A k, m : Shares(k, m) = <<>>
      BY <1>1 DEF Shares
    <2> QED BY <2>1, TotalEmpty DEF Booked
  <1>7. Balanced
    BY <1>1, <1>6 DEF Balanced
  <1>8. Covered
    <2>1. \A m : Rows(m) = {}
      BY <1>1 DEF Rows
    <2> QED BY <2>1 DEF Covered
  <1> QED BY <1>2, <1>3, <1>4, <1>5, <1>7, <1>8 DEF UsageInv

-----------------------------------------------------------------------------
(* The properties.                                                         *)

\* Every reachable state satisfies the inductive invariant: the rows, months,
\* circuit and calls are of their types, rows in flight are reserved and
\* unexpired, the channel is within its limit and the books agree.
THEOREM UsageInvariant == Spec => []UsageInv
  <1>1. UsageInv /\ [Next]_vars => UsageInv'
    BY NextKept
  <1> QED BY UsageInit, <1>1, PTL DEF Spec

\* The monthly totals are what the month's rows add up to, and no month costs
\* more than the highest budget it was admitted under, but for single requests
\* that cost more than they had reserved: for every number of calls, costs,
\* budgets and limits, and whatever settlement fails, comes late or twice.
THEOREM LedgerIsSound == Spec => []LedgerSound
  <1>1. UsageInv => LedgerSound
    BY Books DEF UsageInv, LedgerSound
  <1> QED BY UsageInvariant, <1>1, PTL

\* A row stays reserved only for a call that still works on it, a crash, a
\* settlement that failed for good or a refusal by the review's limit.
THEOREM NoReservationLeaks == Spec => []NothingLeft
  <1>1. UsageInv => NothingLeft
    BY DEF UsageInv
  <1> QED BY UsageInvariant, <1>1, PTL

\* The requests in flight have rows of their own that are active.
LEMMA InFlightActive ==
    ASSUME UsageInv
    PROVE  /\ IsFiniteSet(InFlight)
           /\ Cardinality(InFlight) <= Cardinality(Active)
           /\ Cardinality(InFlight) \in Nat
           /\ Active = {} => InFlight = {}
  <1> DEFINE f == [c \in InFlight |-> call[c].row]
  <1>1. \A c \in InFlight : call[c].row \in Active /\ call[c].row # 0
    BY DEF UsageInv, TypeInv, CallInv, InFlight, Active
  <1>2. f \in [InFlight -> Active]
    BY <1>1
  <1>3. \A c, d \in InFlight : f[c] = f[d] => c = d
    BY <1>1 DEF UsageInv, CallInv, InFlight
  <1> HIDE DEF f
  <1>4. f \in Injection(InFlight, Active)
    BY <1>2, <1>3 DEF Injection, IsInjective
  <1>5. IsFiniteSet(Active) /\ Cardinality(Active) \in Nat
    BY ActiveFinite DEF UsageInv
  <1>6. /\ IsFiniteSet(InFlight)
        /\ Cardinality(InFlight) <= Cardinality(Active)
    BY <1>4, <1>5, FS_Injection DEF ExistsInjection
  <1>7. Cardinality(InFlight) \in Nat
    BY <1>6, FS_CardinalityType
  <1>8. Active = {} => InFlight = {}
    BY <1>1
  <1> QED BY <1>6, <1>7, <1>8

LEMMA ProbeStep ==
    ASSUME UsageInv, [Next]_vars, Len(ledger') > Len(ledger),
           circuit.failures >= FailureThreshold
    PROVE  InFlight = {} /\ circuit.open_until <= clock
  <1>1. Len(ledger) \in Nat
    BY DEF UsageInv, TypeInv
  <1>2. ledger' # ledger /\ Len(ledger') # Len(ledger)
    BY <1>1
  <1>3. ASSUME NEW c \in Calls, NEW holder, NEW kind, NEW body,
               Reserve(c, holder, kind, body)
        PROVE  Acquirable
    BY <1>2, <1>3 DEF Reserve
  <1>4. Acquirable
    <2>1. ASSUME NEW c \in Calls, Start(c) \/ Again(c) PROVE Acquirable
      BY <1>3, <2>1 DEF Start, Again
    <2>2. ASSUME NEW c \in Calls, CheckRequestLimit(c) PROVE FALSE
      BY <1>2, <2>2 DEF CheckRequestLimit
    <2>3. ASSUME NEW c \in Calls, Answer(c) PROVE FALSE
      BY <1>2, <2>3 DEF Answer, UsageInv, TypeInv
    <2>4. ASSUME NEW c \in Calls, Settle(c) \/ SettleFails(c) PROVE FALSE
      <3>1. \A i, v : SettleRow(i, v) => Len(ledger') = Len(ledger)
        BY DEF SettleRow, UsageInv, TypeInv
      <3> QED BY <1>2, <2>4, <3>1 DEF Settle, SettleFails
    <2>5. ~Crash /\ ~Reclaim /\ ~SetBudget /\ ~Tick /\ ~UNCHANGED vars
      BY <1>2 DEF Crash, Reclaim, SetBudget, Tick, vars
    <2> QED BY <2>1, <2>2, <2>3, <2>4, <2>5 DEF Next
  <1>5. Cardinality(Active) < 1 /\ circuit.open_until <= clock
    BY <1>4 DEF Acquirable, ChannelLimit
  <1>6. IsFiniteSet(Active) /\ Cardinality(Active) \in Nat
    BY ActiveFinite DEF UsageInv
  <1>7. Active = {}
    BY <1>5, <1>6, FS_EmptySet
  <1> QED BY <1>5, <1>7, InFlightActive

\* No more requests are in flight than the provider's limit allows, and while
\* the circuit counts too many failures a request starts only after the pause
\* and with no other request in flight.
THEOREM ChannelIsSound == Spec => ChannelSound
  <1>1. UsageInv => InFlightLimited
    <2> SUFFICES ASSUME UsageInv PROVE InFlightLimited
      OBVIOUS
    <2>1. /\ Cardinality(InFlight) <= Cardinality(Active)
          /\ Cardinality(InFlight) \in Nat
      BY InFlightActive
    <2>2. Cardinality(Active) \in Nat
          /\ Cardinality(Active) <= ProviderConcurrency
      BY ActiveFinite DEF UsageInv, ActiveInv
    <2> QED BY <2>1, <2>2, Constants DEF InFlightLimited
  <1>2. UsageInv /\ [Next]_vars =>
            [ (Len(ledger') > Len(ledger) /\ circuit.failures >= FailureThreshold)
                => (InFlight = {} /\ circuit.open_until <= clock) ]_vars
    BY ProbeStep
  <1> QED BY UsageInvariant, <1>1, <1>2, PTL DEF Spec, ChannelSound, ProbeAlone
=============================================================================
