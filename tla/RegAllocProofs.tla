--------------------------- MODULE RegAllocProofs ---------------------------
(***************************************************************************)
(* Proofs about RegAlloc for every list of instructions, every set of      *)
(* variables and every number of registers: registers are neither lost nor *)
(* shared, every variable gets one home, only pressure sends one to memory *)
(* and, in code without loops, no needed value is overwritten.             *)
(***************************************************************************)
EXTENDS RegAlloc, LivenessProofs, SequenceTheorems, FiniteSetTheorems, TLAPS

-----------------------------------------------------------------------------
(* The ordered insertion. *)

\* Inserting n behind the first k elements: what stands where afterwards.
LEMMA InsertAt ==
  ASSUME NEW s \in Seq(Vars), NEW n \in Vars, NEW k \in 0 .. Len(s)
  PROVE  /\ InsertAfter(s, n, k) \in Seq(Vars)
         /\ Len(InsertAfter(s, n, k)) = Len(s) + 1
         /\ \A i \in 1 .. Len(s) + 1 :
              InsertAfter(s, n, k)[i] = IF i <= k THEN s[i]
                                        ELSE IF i = k + 1 THEN n ELSE s[i - 1]
<1> DEFINE l == SubSeq(s, 1, k)
           r == SubSeq(s, k + 1, Len(s))
           ln == l \o <<n>>
<1>1. /\ l \in Seq(Vars)
      /\ Len(l) = k
      /\ \A i \in 1 .. k : l[i] = s[i]
  OBVIOUS
<1>2. /\ r \in Seq(Vars)
      /\ Len(r) = Len(s) - k
      /\ \A i \in 1 .. Len(s) - k : r[i] = s[k + i]
  OBVIOUS
<1>3. InsertAfter(s, n, k) = ln \o r
  BY DEF InsertAfter
<1> HIDE DEF l, r
<1>4. /\ ln \in Seq(Vars)
      /\ Len(ln) = k + 1
      /\ \A i \in 1 .. k : ln[i] = s[i]
      /\ ln[k + 1] = n
  BY <1>1
<1> HIDE DEF ln
<1>5. /\ ln \o r \in Seq(Vars)
      /\ Len(ln \o r) = Len(s) + 1
      /\ \A i \in 1 .. k + 1 : (ln \o r)[i] = ln[i]
      /\ \A i \in k + 2 .. Len(s) + 1 : (ln \o r)[i] = r[i - (k + 1)]
  BY <1>2, <1>4
<1>6. \A i \in k + 2 .. Len(s) + 1 : r[i - (k + 1)] = s[i - 1]
  <2>1. ASSUME NEW i \in k + 2 .. Len(s) + 1
        PROVE  i - (k + 1) \in 1 .. Len(s) - k /\ k + (i - (k + 1)) = i - 1
    OBVIOUS
  <2> QED
    BY <1>2, <2>1
<1> QED
  BY <1>3, <1>4, <1>5, <1>6

\* Where an element of the longer list comes from.
LEMMA InsertOrigin ==
  ASSUME NEW s \in Seq(Vars), NEW n \in Vars, NEW k \in 0 .. Len(s),
         NEW i \in 1 .. Len(InsertAfter(s, n, k))
  PROVE  \/ i = k + 1 /\ InsertAfter(s, n, k)[i] = n
         \/ /\ i <= k
            /\ i \in 1 .. Len(s)
            /\ InsertAfter(s, n, k)[i] = s[i]
         \/ /\ i > k + 1
            /\ i - 1 \in k + 1 .. Len(s)
            /\ i - 1 \in 1 .. Len(s)
            /\ InsertAfter(s, n, k)[i] = s[i - 1]
<1> DEFINE t == InsertAfter(s, n, k)
           L == Len(s)
<1>0. /\ Len(t) = L + 1
      /\ \A j \in 1 .. L + 1 :
           t[j] = IF j <= k THEN s[j] ELSE IF j = k + 1 THEN n ELSE s[j - 1]
  BY InsertAt
<1>2. L \in Nat /\ k \in 0 .. L /\ i \in 1 .. Len(t)
  OBVIOUS
<1> HIDE DEF t, L
<1>1. /\ i \in 1 .. L + 1
      /\ t[i] = IF i <= k THEN s[i] ELSE IF i = k + 1 THEN n ELSE s[i - 1]
  BY <1>0, <1>2
<1>3. CASE i = k + 1
  BY <1>1, <1>2, <1>3 DEF t
<1>4. CASE i <= k
  BY <1>1, <1>2, <1>4 DEF t, L
<1>5. CASE i > k + 1
  <2>1. i - 1 \in k + 1 .. L /\ i - 1 \in 1 .. L
    BY <1>1, <1>2, <1>5
  <2>2. t[i] = s[i - 1]
    BY <1>1, <1>2, <1>5
  <2> QED
    BY <1>5, <2>1, <2>2 DEF t, L
<1> QED
  BY <1>1, <1>2, <1>3, <1>4, <1>5

\* The list gains n and nothing else, and stays free of repetitions.
LEMMA InsertElements ==
  ASSUME NEW s \in Seq(Vars), NEW n \in Vars, NEW k \in 0 .. Len(s)
  PROVE  /\ Elements(InsertAfter(s, n, k)) = Elements(s) \cup {n}
         /\ Distinct(s) /\ n \notin Elements(s) => Distinct(InsertAfter(s, n, k))
<1> DEFINE t == InsertAfter(s, n, k)
<1>1. /\ Len(t) = Len(s) + 1
      /\ \A i \in 1 .. Len(s) + 1 :
           t[i] = IF i <= k THEN s[i] ELSE IF i = k + 1 THEN n ELSE s[i - 1]
  BY InsertAt
<1> HIDE DEF t
<1>2. ASSUME NEW x \in Elements(t)
      PROVE  x \in Elements(s) \cup {n}
  BY <1>1, <1>2 DEF Elements
<1>3. ASSUME NEW x \in Elements(s) \cup {n}
      PROVE  x \in Elements(t)
  <2>1. CASE x = n
    <3>1. k + 1 \in 1 .. Len(t) /\ t[k + 1] = n
      BY <1>1
    <3> QED
      BY <2>1, <3>1 DEF Elements
  <2>2. CASE x \in Elements(s)
    <3>1. PICK i \in 1 .. Len(s) : x = s[i]
      BY <2>2 DEF Elements
    <3>2. CASE i <= k
      <4>1. i \in 1 .. Len(t) /\ t[i] = s[i]
        BY <1>1, <3>2
      <4> QED
        BY <3>1, <4>1 DEF Elements
    <3>3. CASE ~(i <= k)
      <4>1. i + 1 \in 1 .. Len(t) /\ t[i + 1] = s[i]
        BY <1>1, <3>3
      <4> QED
        BY <3>1, <4>1 DEF Elements
    <3> QED
      BY <3>2, <3>3
  <2> QED
    BY <1>3, <2>1, <2>2
<1>4. ASSUME Distinct(s), n \notin Elements(s),
             NEW i \in 1 .. Len(t), NEW j \in 1 .. Len(t), t[i] = t[j]
      PROVE  i = j
  <2>1. \A m \in 1 .. Len(s) : s[m] # n
    BY <1>4 DEF Elements
  <2>2. /\ i = k + 1 => t[i] = n
        /\ i # k + 1 => IF i <= k THEN i \in 1 .. Len(s) /\ t[i] = s[i]
                        ELSE i - 1 \in 1 .. Len(s) /\ t[i] = s[i - 1]
    BY InsertOrigin DEF t
  <2>3. /\ j = k + 1 => t[j] = n
        /\ j # k + 1 => IF j <= k THEN j \in 1 .. Len(s) /\ t[j] = s[j]
                        ELSE j - 1 \in 1 .. Len(s) /\ t[j] = s[j - 1]
    BY InsertOrigin DEF t
  <2>4. \A a, b \in 1 .. Len(s) : s[a] = s[b] => a = b
    BY <1>4 DEF Distinct
  <2>5. CASE i = k + 1 \/ j = k + 1
    BY <1>4, <2>1, <2>2, <2>3, <2>5
  <2>6. CASE i # k + 1 /\ j # k + 1
    <3> DEFINE a == IF i <= k THEN i ELSE i - 1
               b == IF j <= k THEN j ELSE j - 1
    <3>1. a \in 1 .. Len(s) /\ b \in 1 .. Len(s) /\ s[a] = s[b]
      BY <1>4, <2>2, <2>3, <2>6
    <3>2. a = b
      BY <2>4, <3>1
    <3> QED
      BY <1>1, <2>6, <3>2
  <2> QED
    BY <2>5, <2>6
<1> QED
  BY <1>2, <1>3, <1>4 DEF Distinct, t

\* At its insertion point n keeps the list ordered.
LEMMA InsertSorted ==
  ASSUME NEW s \in Seq(Vars), NEW n \in Vars, NEW k \in 0 .. Len(s),
         NEW key \in [Vars -> Nat],
         Sorted(key, s), InsertionPoint(key, s, n, k)
  PROVE  Sorted(key, InsertAfter(s, n, k))
<1> DEFINE t == InsertAfter(s, n, k)
<1>1. /\ Len(t) = Len(s) + 1
      /\ \A i \in 1 .. Len(s) + 1 :
           t[i] = IF i <= k THEN s[i] ELSE IF i = k + 1 THEN n ELSE s[i - 1]
  BY InsertAt
<1> HIDE DEF t
<1>2. \A i \in 1 .. Len(s) : s[i] \in Vars
  OBVIOUS
<1>3. \A i \in k + 1 .. Len(s) : key[n] <= key[s[i]]
  <2>1. \A i \in k + 1 .. Len(s) : key[s[k + 1]] <= key[s[i]]
    BY DEF Sorted
  <2>2. k < Len(s) => s[k + 1] \in Vars
    BY <1>2
  <2> QED
    BY <1>2, <2>1, <2>2 DEF InsertionPoint
<1>4. ASSUME NEW i \in 1 .. Len(t), NEW j \in 1 .. Len(t), i <= j
      PROVE  key[t[i]] <= key[t[j]]
  <2>1. CASE j <= k
    <3>1. i \in 1 .. Len(s) /\ j \in 1 .. Len(s) /\ i <= k
      BY <1>1, <1>4, <2>1
    <3>2. t[i] = s[i] /\ t[j] = s[j]
      BY <1>1, <2>1, <3>1
    <3> QED
      BY <1>4, <3>1, <3>2 DEF Sorted
  <2>2. CASE j = k + 1
    <3>1. CASE i = j
      BY <1>1, <2>2, <3>1
    <3>2. CASE i # j
      <4>1. i \in 1 .. k /\ i \in 1 .. Len(s)
        BY <1>4, <2>2, <3>2
      <4>2. t[i] = s[i] /\ t[j] = n
        BY <1>1, <2>2, <4>1
      <4> QED
        BY <4>1, <4>2 DEF InsertionPoint
    <3> QED
      BY <3>1, <3>2
  <2>3. CASE j > k + 1
    <3>1. j - 1 \in k + 1 .. Len(s) /\ j - 1 \in 1 .. Len(s) /\ t[j] = s[j - 1]
      BY <2>3, InsertOrigin DEF t
    <3>2. CASE i = k + 1
      <4>1. t[i] = n
        BY <1>1, <3>2
      <4>2. key[n] <= key[s[j - 1]]
        BY <1>3, <3>1
      <4> QED
        BY <3>1, <4>1, <4>2
    <3>3. CASE i # k + 1
      <4> DEFINE m == IF i <= k THEN i ELSE i - 1
      <4>1. m \in 1 .. Len(s) /\ t[i] = s[m]
        BY <3>3, InsertOrigin DEF t
      <4>2. m <= j - 1
        BY <1>4, <2>3
      <4> HIDE DEF m
      <4>3. key[s[m]] <= key[s[j - 1]]
        BY <3>1, <4>1, <4>2 DEF Sorted
      <4> QED
        BY <3>1, <4>1, <4>3
    <3> QED
      BY <3>2, <3>3
  <2> QED
    BY <1>1, <2>1, <2>2, <2>3
<1> QED
  BY <1>4 DEF Sorted, t

-----------------------------------------------------------------------------
(* Parts and concatenations of lists. *)

\* The elements of a part of a list, which is as free of repetitions as the list.
LEMMA Window ==
  ASSUME NEW S, NEW s \in Seq(S), NEW a \in 1 .. Len(s) + 1, NEW b \in 0 .. Len(s),
         a <= b + 1
  PROVE  /\ SubSeq(s, a, b) \in Seq(S)
         /\ Len(SubSeq(s, a, b)) = b - a + 1
         /\ \A i \in 1 .. b - a + 1 : SubSeq(s, a, b)[i] = s[a + i - 1]
         /\ Elements(SubSeq(s, a, b)) = {s[i] : i \in a .. b}
         /\ Distinct(s) => Distinct(SubSeq(s, a, b))
<1> DEFINE t == SubSeq(s, a, b)
<1>1. /\ t \in Seq(S)
      /\ Len(t) = b - a + 1
      /\ \A i \in 1 .. b - a + 1 : t[i] = s[a + i - 1]
  OBVIOUS
<1>2. Len(s) \in Nat
  OBVIOUS
<1> HIDE DEF t
<1>3. ASSUME NEW x \in Elements(t)
      PROVE  x \in {s[i] : i \in a .. b}
  <2>1. PICK i \in 1 .. b - a + 1 : x = s[a + i - 1]
    BY <1>1, <1>3 DEF Elements
  <2>2. a + i - 1 \in a .. b
    BY <1>2
  <2> QED
    BY <2>1, <2>2
<1>4. ASSUME NEW x \in {s[i] : i \in a .. b}
      PROVE  x \in Elements(t)
  <2>1. PICK i \in a .. b : x = s[i]
    BY <1>4
  <2>2. i - a + 1 \in 1 .. b - a + 1 /\ a + (i - a + 1) - 1 = i
    BY <1>2
  <2>3. t[i - a + 1] = s[i]
    BY <1>1, <2>2
  <2> QED
    BY <1>1, <2>1, <2>2, <2>3 DEF Elements
<1>5. ASSUME Distinct(s), NEW i \in 1 .. Len(t), NEW j \in 1 .. Len(t), t[i] = t[j]
      PROVE  i = j
  <2>1. a + i - 1 \in 1 .. Len(s) /\ a + j - 1 \in 1 .. Len(s)
    BY <1>1, <1>2
  <2>2. s[a + i - 1] = s[a + j - 1]
    BY <1>1, <1>5
  <2>3. a + i - 1 = a + j - 1
    BY <1>5, <2>1, <2>2 DEF Distinct
  <2> QED
    BY <1>1, <1>2, <2>3
<1> QED
  BY <1>1, <1>3, <1>4, <1>5 DEF Distinct, t

\* All but the first k elements: what lin_expire_old leaves.
LEMMA Suffix ==
  ASSUME NEW S, NEW s \in Seq(S), NEW k \in 0 .. Len(s)
  PROVE  /\ SubSeq(s, k + 1, Len(s)) \in Seq(S)
         /\ Elements(SubSeq(s, k + 1, Len(s))) = {s[i] : i \in k + 1 .. Len(s)}
         /\ Distinct(s) => Distinct(SubSeq(s, k + 1, Len(s)))
<1> DEFINE m == k + 1
<1>1. m \in 1 .. Len(s) + 1 /\ Len(s) \in 0 .. Len(s) /\ m <= Len(s) + 1
  OBVIOUS
<1> HIDE DEF m
<1>2. \A a \in 1 .. Len(s) + 1, b \in 0 .. Len(s) :
        a <= b + 1 =>
          /\ SubSeq(s, a, b) \in Seq(S)
          /\ Elements(SubSeq(s, a, b)) = {s[i] : i \in a .. b}
          /\ Distinct(s) => Distinct(SubSeq(s, a, b))
  BY Window
<1> QED
  BY <1>1, <1>2 DEF m

\* All but the last element.
LEMMA Front ==
  ASSUME NEW S, NEW s \in Seq(S), Len(s) > 0
  PROVE  /\ SubSeq(s, 1, Len(s) - 1) \in Seq(S)
         /\ s[Len(s)] \in Elements(s)
         /\ Elements(s) = Elements(SubSeq(s, 1, Len(s) - 1)) \cup {s[Len(s)]}
         /\ Distinct(s) => /\ Distinct(SubSeq(s, 1, Len(s) - 1))
                           /\ s[Len(s)] \notin Elements(SubSeq(s, 1, Len(s) - 1))
<1> DEFINE m == Len(s) - 1
           t == SubSeq(s, 1, m)
<1>1. /\ 1 \in 1 .. Len(s) + 1 /\ m \in 0 .. Len(s) /\ 1 <= m + 1
      /\ 1 .. Len(s) = (1 .. m) \cup {Len(s)}
      /\ Len(s) \notin 1 .. m
      /\ Len(s) \in 1 .. Len(s)
  OBVIOUS
<1> HIDE DEF m
<1>2. \A a \in 1 .. Len(s) + 1, b \in 0 .. Len(s) :
        a <= b + 1 =>
          /\ SubSeq(s, a, b) \in Seq(S)
          /\ Elements(SubSeq(s, a, b)) = {s[i] : i \in a .. b}
          /\ Distinct(s) => Distinct(SubSeq(s, a, b))
  BY Window
<1>3. /\ t \in Seq(S)
      /\ Elements(t) = {s[i] : i \in 1 .. m}
      /\ Distinct(s) => Distinct(t)
  BY <1>1, <1>2
<1> HIDE DEF t
<1>4. Elements(s) = Elements(t) \cup {s[Len(s)]} /\ s[Len(s)] \in Elements(s)
  BY <1>1, <1>3 DEF Elements
<1>5. Distinct(s) => s[Len(s)] \notin Elements(t)
  BY <1>1, <1>3 DEF Distinct
<1> QED
  BY <1>3, <1>4, <1>5 DEF m, t

\* A part of an ordered list is ordered.
LEMMA WindowSorted ==
  ASSUME NEW s \in Seq(Vars), NEW a \in 1 .. Len(s) + 1, NEW b \in 0 .. Len(s),
         a <= b + 1, NEW key, Sorted(key, s)
  PROVE  Sorted(key, SubSeq(s, a, b))
<1> DEFINE t == SubSeq(s, a, b)
<1>1. /\ Len(t) = b - a + 1
      /\ \A i \in 1 .. b - a + 1 : t[i] = s[a + i - 1]
  BY Window
<1>2. Len(s) \in Nat
  OBVIOUS
<1> HIDE DEF t
<1>3. ASSUME NEW i \in 1 .. Len(t), NEW j \in 1 .. Len(t), i <= j
      PROVE  key[t[i]] <= key[t[j]]
  <2>1. /\ a + i - 1 \in 1 .. Len(s)
        /\ a + j - 1 \in 1 .. Len(s)
        /\ a + i - 1 <= a + j - 1
    BY <1>1, <1>2, <1>3
  <2>2. key[s[a + i - 1]] <= key[s[a + j - 1]]
    BY <2>1 DEF Sorted
  <2> QED
    BY <1>1, <2>2
<1> QED
  BY <1>3 DEF Sorted, t

\* Two lists without a common element, one behind the other.
LEMMA Joined ==
  ASSUME NEW S, NEW s \in Seq(S), NEW t \in Seq(S)
  PROVE  /\ s \o t \in Seq(S)
         /\ Len(s \o t) = Len(s) + Len(t)
         /\ Elements(s \o t) = Elements(s) \cup Elements(t)
         /\ Distinct(s) /\ Distinct(t) /\ Elements(s) \cap Elements(t) = {}
              => Distinct(s \o t)
<1> DEFINE u == s \o t
<1>1. /\ u \in Seq(S)
      /\ Len(u) = Len(s) + Len(t)
      /\ \A i \in 1 .. Len(s) + Len(t) :
           u[i] = IF i <= Len(s) THEN s[i] ELSE t[i - Len(s)]
  BY ConcatProperties
<1>2. Len(s) \in Nat /\ Len(t) \in Nat
  OBVIOUS
<1> HIDE DEF u
<1>3. ASSUME NEW i \in 1 .. Len(u)
      PROVE  \/ i \in 1 .. Len(s) /\ u[i] = s[i]
             \/ i > Len(s) /\ i - Len(s) \in 1 .. Len(t) /\ u[i] = t[i - Len(s)]
  BY <1>1, <1>2
<1>4. \A x \in Elements(u) : x \in Elements(s) \cup Elements(t)
  BY <1>3 DEF Elements
<1>5. \A x \in Elements(s) : x \in Elements(u)
  <2>1. \A i \in 1 .. Len(s) : i \in 1 .. Len(u) /\ u[i] = s[i]
    BY <1>1, <1>2
  <2> QED
    BY <2>1 DEF Elements
<1>6. \A x \in Elements(t) : x \in Elements(u)
  <2>1. \A i \in 1 .. Len(t) : i + Len(s) \in 1 .. Len(u) /\ u[i + Len(s)] = t[i]
    <3>1. \A i \in 1 .. Len(t) : i + Len(s) \in 1 .. Len(s) + Len(t)
                                 /\ ~(i + Len(s) <= Len(s)) /\ (i + Len(s)) - Len(s) = i
      BY <1>2
    <3> QED
      BY <1>1, <3>1
  <2> QED
    BY <2>1 DEF Elements
<1>7. ASSUME Distinct(s), Distinct(t), Elements(s) \cap Elements(t) = {},
             NEW i \in 1 .. Len(u), NEW j \in 1 .. Len(u), u[i] = u[j]
      PROVE  i = j
  <2>1. \A a \in 1 .. Len(s) : \A b \in 1 .. Len(t) : s[a] # t[b]
    BY <1>7 DEF Elements
  <2>2. CASE i \in 1 .. Len(s) /\ j \in 1 .. Len(s) /\ s[i] = s[j]
    BY <1>7, <2>2 DEF Distinct
  <2>3. CASE /\ i > Len(s) /\ i - Len(s) \in 1 .. Len(t)
             /\ j > Len(s) /\ j - Len(s) \in 1 .. Len(t)
             /\ t[i - Len(s)] = t[j - Len(s)]
    <3>1. i - Len(s) = j - Len(s)
      BY <1>7, <2>3 DEF Distinct
    <3> QED
      BY <1>1, <1>2, <3>1
  <2> QED
    BY <1>3, <1>7, <2>1, <2>2, <2>3
<1> QED
  BY <1>1, <1>4, <1>5, <1>6, <1>7 DEF Distinct, u

-----------------------------------------------------------------------------
(* lin_expire_old. *)

\* After the expiry for the next interval the registers are still conserved, and
\* every scanned variable that holds a register but is not active ended before
\* that interval starts.
LEMMA Expiry ==
  ASSUME IInv, phase = "scan", idx <= Len(intps),
         NEW k \in 0 .. Len(active), ExpirePoint(intps[idx], k)
  PROVE  LET n == intps[idx]
             list == ActiveAfter(k)
             free == FreeAfter(k)
         IN  /\ n \in Vars
             /\ n \notin Scanned
             /\ Scanned \subseteq Vars
             /\ list \in Seq(Vars)
             /\ free \in Seq(Regs)
             /\ Distinct(list)
             /\ Sorted(end, list)
             /\ Elements(list) \subseteq Scanned
             /\ \A v \in Elements(list) : reg[v] \in Regs
             /\ \A u, v \in Elements(list) : reg[u] = reg[v] => u = v
             /\ Distinct(free)
             /\ Elements(free) \cap {reg[v] : v \in Elements(list)} = {}
             /\ Elements(free) \cup {reg[v] : v \in Elements(list)} = Regs
             /\ \A u \in Scanned \ Elements(list) :
                  \/ reg[u] = NoRegister
                  \/ \A i \in idx .. Len(intps) : end[u] < start[intps[i]]
<1> DEFINE n == intps[idx]
           list == ActiveAfter(k)
           gone == [i \in 1 .. k |-> reg[active[i]]]
           free == FreeAfter(k)
           old == {active[i] : i \in 1 .. k}
<1>a. TypeOK /\ IntpsInv /\ ActiveInv /\ RegistersConserved
  BY DEF IInv
<1>1. /\ intps \in Seq(Vars)
      /\ active \in Seq(Vars)
      /\ regs \in Seq(Regs)
      /\ start \in [Vars -> Nat]
      /\ end \in [Vars -> Nat]
  BY <1>a DEF TypeOK
<1>b. idx \in 1 .. Len(intps) /\ Len(intps) \in Nat
  BY <1>a, <1>1 DEF TypeOK
<1>c. Len(active) \in Nat /\ k \in Nat /\ k <= Len(active)
  BY <1>1
<1>2. n \in Vars /\ Scanned \subseteq Vars
  <2>1. n \in Vars
    BY <1>1, <1>b
  <2>2. \A i \in 1 .. idx - 1 : i \in 1 .. Len(intps)
    BY <1>b
  <2> QED
    BY <1>1, <2>1, <2>2, SMTT(30) DEF Scanned, ScannedTo
<1>3. n \notin Scanned
  <2>1. \A i \in 1 .. idx - 1 : i \in 1 .. Len(intps) /\ i # idx
    BY <1>b
  <2>2. \A i \in 1 .. idx - 1 : intps[i] # n
    BY <1>a, <1>b, <2>1 DEF IntpsInv, Distinct
  <2> QED
    BY <2>2 DEF Scanned, ScannedTo
<1>4. /\ Distinct(active)
      /\ Sorted(end, active)
      /\ Elements(active) \subseteq Scanned
      /\ \A v \in Elements(active) : reg[v] \in Regs
      /\ \A u, v \in Elements(active) : reg[u] = reg[v] => u = v
      /\ Distinct(regs)
      /\ Elements(regs) \cap {reg[v] : v \in Elements(active)} = {}
      /\ Elements(regs) \cup {reg[v] : v \in Elements(active)} = Regs
  BY <1>a DEF ActiveInv, RegistersConserved
<1>5. /\ list \in Seq(Vars)
      /\ Elements(list) = {active[i] : i \in k + 1 .. Len(active)}
      /\ Distinct(list)
      /\ Sorted(end, list)
  <2>1. /\ k + 1 \in 1 .. Len(active) + 1
        /\ Len(active) \in 0 .. Len(active)
        /\ k + 1 <= Len(active) + 1
    BY <1>c
  <2>2. /\ SubSeq(active, k + 1, Len(active)) \in Seq(Vars)
        /\ Elements(SubSeq(active, k + 1, Len(active)))
             = {active[i] : i \in k + 1 .. Len(active)}
        /\ Distinct(SubSeq(active, k + 1, Len(active)))
    <3>1. active \in Seq(Vars) /\ Distinct(active)
      BY <1>1, <1>4
    <3> QED
      BY <3>1, Suffix
  <2>3. Sorted(end, SubSeq(active, k + 1, Len(active)))
    BY <1>1, <1>4, <2>1, WindowSorted
  <2> QED
    BY <2>2, <2>3 DEF ActiveAfter
<1>6. /\ Elements(active) = old \cup Elements(list)
      /\ old \cap Elements(list) = {}
  <2>1. \A i \in 1 .. k : \A j \in k + 1 .. Len(active) : active[i] # active[j]
    <3> SUFFICES ASSUME NEW i \in 1 .. k, NEW j \in k + 1 .. Len(active)
                 PROVE  active[i] # active[j]
      OBVIOUS
    <3>1. /\ i \in 1 .. Len(active)
          /\ j \in 1 .. Len(active)
          /\ i # j
      BY <1>c
    <3> QED
      BY <1>4, <3>1 DEF Distinct
  <2>2. 1 .. Len(active) = (1 .. k) \cup (k + 1 .. Len(active))
    BY <1>c
  <2> QED
    BY <1>5, <2>1, <2>2 DEF Elements
<1>7. /\ gone \in Seq(Regs)
      /\ Elements(gone) = {reg[v] : v \in old}
      /\ Distinct(gone)
  <2>1. \A i \in 1 .. k : i \in 1 .. Len(active) /\ active[i] \in Elements(active)
    BY <1>c DEF Elements
  <2>2. gone \in [1 .. k -> Regs]
    BY <1>4, <2>1
  <2>3. gone \in Seq(Regs) /\ Len(gone) = k
    BY <2>2
  <2>4. \A i, j \in 1 .. k : reg[active[i]] = reg[active[j]] => i = j
    BY <1>4, <2>1 DEF Distinct
  <2> QED
    BY <2>3, <2>4 DEF Elements, Distinct
<1>8. /\ free \in Seq(Regs)
      /\ Elements(free) = Elements(regs) \cup {reg[v] : v \in old}
      /\ Distinct(free)
  <2>1. Elements(regs) \cap Elements(gone) = {}
    BY <1>4, <1>6, <1>7
  <2>2. free = regs \o gone
    BY DEF FreeAfter
  <2> HIDE DEF free, gone
  <2> QED
    BY <1>1, <1>4, <1>7, <2>1, <2>2, Joined
<1>9. ASSUME NEW u \in Scanned \ Elements(list)
      PROVE  \/ reg[u] = NoRegister
             \/ \A i \in idx .. Len(intps) : end[u] < start[intps[i]]
  <2>1. CASE u \notin Elements(active)
    BY <1>a, <1>9, <2>1 DEF ActiveInv
  <2>2. CASE u \in Elements(active)
    <3>1. u \in old
      BY <1>6, <1>9, <2>2
    <3>2. end[u] < start[n]
      BY <3>1 DEF ExpirePoint
    <3>3. \A i \in idx .. Len(intps) : /\ start[n] <= start[intps[i]]
                                      /\ intps[i] \in Vars
      BY <1>a, <1>1, <1>b DEF IntpsInv, Sorted
    <3>4. end[u] \in Nat /\ start[n] \in Nat
      BY <1>1, <1>2, <1>9
    <3>5. ASSUME NEW i \in idx .. Len(intps)
          PROVE  end[u] < start[intps[i]]
      <4>1. start[intps[i]] \in Nat
        BY <1>1, <3>3
      <4>2. start[n] <= start[intps[i]]
        BY <3>3
      <4> HIDE DEF n
      <4> QED
        BY <3>2, <3>4, <4>1, <4>2
    <3> QED
      BY <3>5
  <2> QED
    BY <2>1, <2>2
<1> HIDE DEF list, free, gone, old, n
<1>10. /\ Elements(free) \cap {reg[v] : v \in Elements(list)} = {}
       /\ Elements(free) \cup {reg[v] : v \in Elements(list)} = Regs
  <2>1. \A u \in old : \A v \in Elements(list) : reg[u] # reg[v]
    BY <1>4, <1>6
  <2>2. {reg[v] : v \in Elements(active)}
          = {reg[v] : v \in old} \cup {reg[v] : v \in Elements(list)}
    BY <1>6
  <2>3. {reg[v] : v \in old} \cap {reg[v] : v \in Elements(list)} = {}
    BY <2>1
  <2> QED
    BY <1>4, <1>8, <2>2, <2>3
<1>11. /\ Elements(list) \subseteq Scanned
       /\ \A v \in Elements(list) : reg[v] \in Regs
       /\ \A u, v \in Elements(list) : reg[u] = reg[v] => u = v
  BY <1>4, <1>6
<1> QED
  BY <1>2, <1>3, <1>5, <1>8, <1>9, <1>10, <1>11 DEF list, free, n

-----------------------------------------------------------------------------
(* One turn of lin_scan. *)

\* NO_REGISTER is not one of the registers.
LEMMA NoRegisterIsNone == NoRegister \notin Regs /\ NoRegister \in Int
BY RegisterCountAssumption DEF NoRegister, Regs

\* The interval just scanned joins Scanned.
LEMMA ScannedGrows ==
  ASSUME TypeOK, LinScan
  PROVE  Scanned' = Scanned \cup {intps[idx]}
<1>1. Scanned = {intps[i] : i \in 1 .. idx - 1}
  BY DEF LinScan, Scanned, ScannedTo
<1>2. Scanned' = {intps[i] : i \in 1 .. idx}
  <2>1. ScannedTo' = (idx + 1) - 1
    BY DEF LinScan, ScannedTo
  <2>2. (idx + 1) - 1 = idx
    BY DEF TypeOK
  <2> QED
    BY <2>1, <2>2 DEF Scanned, LinScan
<1>3. 1 .. idx = (1 .. idx - 1) \cup {idx}
  BY DEF TypeOK
<1> QED
  BY <1>1, <1>2, <1>3

\* What the scan of interval n has to establish, given the elements A of the new
\* list of active intervals and the elements F of the new stack.  All three
\* outcomes are proved through it.
LEMMA ScanOutcome ==
  ASSUME IInv, LinScan,
         NEW A, A = Elements(active'), NEW F, F = Elements(regs'),
         A \subseteq Scanned \cup {intps[idx]},
         reg' \in [Vars -> Regs \cup {NoRegister}],
         Distinct(active'), Sorted(end, active'), Distinct(regs'),
         \A v \in A : reg'[v] \in Regs,
         \A u, v \in A : reg'[u] = reg'[v] => u = v,
         F \cap {reg'[v] : v \in A} = {},
         F \cup {reg'[v] : v \in A} = Regs,
         \A u \in Scanned : reg'[u] = reg[u] \/ reg'[u] = NoRegister,
         \A u \in (Scanned \cup {intps[idx]}) \ A :
            \/ reg'[u] = NoRegister
            \/ u \in Scanned /\ \A i \in idx .. Len(intps) : end[u] < start[intps[i]],
         intps[idx] \notin A => reg'[intps[idx]] = NoRegister
  PROVE  ActiveInv' /\ RegistersConserved' /\ NoSharing'
<1> DEFINE n == intps[idx]
<1>1. /\ start' = start
      /\ end' = end
      /\ intps' = intps
      /\ idx' = idx + 1
      /\ phase' = "scan"
      /\ idx <= Len(intps)
  BY DEF LinScan
<1>2. /\ idx \in 1 .. Len(intps)
      /\ Len(intps) \in Nat
      /\ intps \in Seq(Vars)
      /\ start \in [Vars -> Nat]
      /\ end \in [Vars -> Nat]
      /\ TypeOK
  <2>1. TypeOK
    BY DEF IInv
  <2>2. idx \in 1 .. Len(intps) + 1 /\ intps \in Seq(Vars)
    BY <2>1 DEF TypeOK
  <2>3. start \in [Vars -> Nat] /\ end \in [Vars -> Nat]
    BY <2>1 DEF TypeOK
  <2> QED
    BY <1>1, <2>1, <2>2, <2>3
<1>3. Scanned' = Scanned \cup {n} /\ Scanned \subseteq Vars /\ n \in Vars
  <2>1. Scanned \subseteq Vars
    <3>1. Scanned = {intps[i] : i \in 1 .. idx - 1}
      BY DEF LinScan, Scanned, ScannedTo
    <3>2. \A i \in 1 .. idx - 1 : i \in 1 .. Len(intps)
      BY <1>2
    <3> QED
      BY <1>2, <3>1, <3>2, SMTT(30)
  <2>2. n \in Vars
    BY <1>2
  <2> QED
    BY <1>2, <2>1, <2>2, ScannedGrows
<1>4. RegistersConserved'
  BY <1>1 DEF RegistersConserved
<1>5. ActiveInv'
  <2>1. ASSUME NEW u \in Scanned' \ A
        PROVE  \/ reg'[u] = NoRegister
               \/ \A i \in idx + 1 .. Len(intps) : end[u] < start[intps[i]]
    <3>1. \A i \in idx + 1 .. Len(intps) : i \in idx .. Len(intps)
      BY <1>2
    <3> QED
      BY <1>3, <2>1, <3>1
  <2> QED
    BY <1>1, <1>3, <2>1 DEF ActiveInv
<1>6. NoSharing'
  <2>1. ASSUME NEW u \in Scanned, reg'[u] # NoRegister, reg'[u] = reg'[n], u # n
        PROVE  ~Overlap(u, n)
    <3>1. n \in A
      BY <2>1
    <3>2. u \notin A
      BY <2>1, <3>1
    <3>3. \A i \in idx .. Len(intps) : end[u] < start[intps[i]]
      BY <2>1, <3>2
    <3>4. end[u] < start[n]
      BY <1>2, <3>3
    <3> QED
      BY <1>2, <1>3, <3>4 DEF Overlap
  <2>2. ASSUME NEW u \in Scanned, NEW v \in Scanned, u # v, Overlap(u, v),
               reg'[u] = reg'[v]
        PROVE  reg'[u] = NoRegister
    <3>1. reg[u] # reg[v] \/ reg[u] = NoRegister
      BY <2>2 DEF IInv, NoSharing
    <3> QED
      BY <2>2, <3>1
  <2>3. ASSUME NEW u \in Scanned', NEW v \in Scanned', u # v, Overlap(u, v)
        PROVE  reg'[u] # reg'[v] \/ reg'[u] = NoRegister
    <3>1. Overlap(v, u)
      BY <2>3 DEF Overlap
    <3> QED
      BY <1>3, <2>1, <2>2, <2>3, <3>1
  <2> QED
    BY <1>1, <2>3 DEF NoSharing, Overlap
<1> QED
  BY <1>4, <1>5, <1>6

\* The three outcomes.
LEMMA ScanStep ==
  ASSUME IInv, LinScan
  PROVE  /\ reg' \in [Vars -> Regs \cup {NoRegister}]
         /\ active' \in Seq(Vars)
         /\ regs' \in Seq(Regs)
         /\ ActiveInv' /\ RegistersConserved' /\ NoSharing'
<1> DEFINE n == intps[idx]
<1>1. PICK k \in 0 .. Len(active) :
        /\ ExpirePoint(n, k)
        /\ \/ LinAssign(n, FreeAfter(k), ActiveAfter(k))
           \/ LinSpillLast(n, FreeAfter(k), ActiveAfter(k))
           \/ LinSpillSelf(n, FreeAfter(k), ActiveAfter(k))
  BY DEF LinScan
<1> DEFINE list == ActiveAfter(k)
           free == FreeAfter(k)
<1>2. phase = "scan" /\ idx <= Len(intps)
  BY DEF LinScan
<1>3. /\ n \in Vars
      /\ n \notin Scanned
      /\ Scanned \subseteq Vars
      /\ list \in Seq(Vars)
      /\ free \in Seq(Regs)
      /\ Distinct(list)
      /\ Sorted(end, list)
      /\ Elements(list) \subseteq Scanned
      /\ \A v \in Elements(list) : reg[v] \in Regs
      /\ \A u, v \in Elements(list) : reg[u] = reg[v] => u = v
      /\ Distinct(free)
      /\ Elements(free) \cap {reg[v] : v \in Elements(list)} = {}
      /\ Elements(free) \cup {reg[v] : v \in Elements(list)} = Regs
      /\ \A u \in Scanned \ Elements(list) :
           \/ reg[u] = NoRegister
           \/ \A i \in idx .. Len(intps) : end[u] < start[intps[i]]
  BY <1>1, <1>2, Expiry
<1>4. end \in [Vars -> Nat] /\ reg \in [Vars -> Regs \cup {NoRegister}]
  BY DEF IInv, TypeOK
<1> HIDE DEF n, list, free
<1>5. CASE LinAssign(n, free, list)
  <2> DEFINE r == free[Len(free)]
             rest == SubSeq(free, 1, Len(free) - 1)
  <2>1. /\ Len(free) > 0
        /\ reg' = [reg EXCEPT ![n] = r]
        /\ regs' = rest
        /\ AddActive(n, list)
    BY <1>5 DEF LinAssign
  <2>2. PICK j \in 0 .. Len(list) : InsertionPoint(end, list, n, j)
                                  /\ active' = InsertAfter(list, n, j)
    BY <2>1 DEF AddActive
  <2>3. /\ active' \in Seq(Vars)
        /\ Elements(active') = Elements(list) \cup {n}
        /\ Distinct(active')
        /\ Sorted(end, active')
    <3>1. n \notin Elements(list)
      BY <1>3
    <3>2. active' \in Seq(Vars)
      BY <1>3, <2>2, InsertAt
    <3>3. Elements(active') = Elements(list) \cup {n} /\ Distinct(active')
      BY <1>3, <2>2, <3>1, InsertElements
    <3>4. Sorted(end, active')
      BY <1>3, <1>4, <2>2, InsertSorted
    <3> QED
      BY <3>2, <3>3, <3>4
  <2>4. /\ rest \in Seq(Regs)
        /\ Distinct(rest)
        /\ r \in Elements(free)
        /\ Elements(free) = Elements(rest) \cup {r}
        /\ r \notin Elements(rest)
    <3>1. free \in Seq(Regs) /\ Len(free) > 0 /\ Distinct(free)
      BY <1>3, <2>1
    <3> QED
      BY <3>1, Front
  <2> HIDE DEF r, rest
  <2> DEFINE A == Elements(list) \cup {n}
             F == Elements(rest)
  <2>5. r \in Regs /\ \A v \in Elements(list) : reg[v] # r
    BY <1>3, <2>4
  <2>6. reg' \in [Vars -> Regs \cup {NoRegister}] /\ reg'[n] = r
    BY <1>3, <1>4, <2>1, <2>5
  <2>7. \A v \in Scanned : reg'[v] = reg[v]
    BY <1>3, <1>4, <2>1
  <2>8. \A v \in A : reg'[v] \in Regs
    BY <1>3, <2>5, <2>6, <2>7
  <2>9. \A u, v \in A : reg'[u] = reg'[v] => u = v
    BY <1>3, <2>5, <2>6, <2>7
  <2>10. {reg'[v] : v \in A} = {reg[v] : v \in Elements(list)} \cup {r}
    BY <1>3, <2>6, <2>7
  <2>11. F \cap {reg'[v] : v \in A} = {} /\ F \cup {reg'[v] : v \in A} = Regs
    BY <1>3, <2>4, <2>10
  <2>12. \A u \in (Scanned \cup {n}) \ A :
            \/ reg'[u] = NoRegister
            \/ u \in Scanned /\ \A i \in idx .. Len(intps) : end[u] < start[intps[i]]
    BY <1>3, <2>7
  <2>13. ActiveInv' /\ RegistersConserved' /\ NoSharing'
    <3>1. /\ A = Elements(active')
          /\ F = Elements(regs')
          /\ A \subseteq Scanned \cup {n}
          /\ Distinct(regs')
          /\ n \notin A => reg'[n] = NoRegister
          /\ \A u \in Scanned : reg'[u] = reg[u] \/ reg'[u] = NoRegister
      BY <1>3, <2>1, <2>3, <2>4, <2>7
    <3> HIDE DEF A, F
    <3> QED
      BY <2>3, <2>6, <2>8, <2>9, <2>11, <2>12, <3>1, ScanOutcome DEF n
  <2> QED
    BY <2>1, <2>3, <2>4, <2>6, <2>13
<1>6. CASE LinSpillSelf(n, free, list)
  <2>1. /\ reg' = [reg EXCEPT ![n] = NoRegister]
        /\ active' = list
        /\ regs' = free
    BY <1>6 DEF LinSpillSelf
  <2> DEFINE A == Elements(list)
             F == Elements(free)
  <2>2. /\ reg' \in [Vars -> Regs \cup {NoRegister}]
        /\ reg'[n] = NoRegister
        /\ \A v \in Scanned : reg'[v] = reg[v]
    BY <1>3, <1>4, <2>1
  <2>3. {reg'[v] : v \in A} = {reg[v] : v \in A}
    BY <1>3, <2>2
  <2>4. /\ \A v \in A : reg'[v] \in Regs
        /\ \A u, v \in A : reg'[u] = reg'[v] => u = v
    BY <1>3, <2>2
  <2>5. \A u \in (Scanned \cup {n}) \ A :
            \/ reg'[u] = NoRegister
            \/ u \in Scanned /\ \A i \in idx .. Len(intps) : end[u] < start[intps[i]]
    BY <1>3, <2>2
  <2>6. ActiveInv' /\ RegistersConserved' /\ NoSharing'
    BY <1>3, <2>1, <2>2, <2>3, <2>4, <2>5, ScanOutcome DEF n
  <2> QED
    BY <1>3, <2>1, <2>2, <2>6
<1>7. CASE LinSpillLast(n, free, list)
  <2> DEFINE last == list[Len(list)]
             front == SubSeq(list, 1, Len(list) - 1)
  <2>1. /\ Len(list) > 0
        /\ reg' = [reg EXCEPT ![n] = reg[last], ![last] = NoRegister]
        /\ regs' = free
        /\ AddActive(n, front)
    BY <1>7 DEF LinSpillLast
  <2>2. /\ front \in Seq(Vars)
        /\ last \in Elements(list)
        /\ Elements(list) = Elements(front) \cup {last}
        /\ Distinct(front)
        /\ last \notin Elements(front)
    <3>1. list \in Seq(Vars) /\ Len(list) > 0 /\ Distinct(list)
      BY <1>3, <2>1
    <3> QED
      BY <3>1, Front
  <2>3. Sorted(end, front)
    <3>1. /\ 1 \in 1 .. Len(list) + 1
          /\ Len(list) - 1 \in 0 .. Len(list)
          /\ 1 <= (Len(list) - 1) + 1
      BY <1>3, <2>1
    <3>2. list \in Seq(Vars) /\ Sorted(end, list)
      BY <1>3
    <3> QED
      BY <3>1, <3>2, WindowSorted
  <2> HIDE DEF last, front
  <2>4. PICK j \in 0 .. Len(front) : InsertionPoint(end, front, n, j)
                                   /\ active' = InsertAfter(front, n, j)
    BY <2>1 DEF AddActive
  <2>5. /\ active' \in Seq(Vars)
        /\ Elements(active') = Elements(front) \cup {n}
        /\ Distinct(active')
        /\ Sorted(end, active')
    <3>1. n \notin Elements(front)
      BY <1>3, <2>2
    <3>2. active' \in Seq(Vars)
      BY <1>3, <2>2, <2>4, InsertAt
    <3>3. Elements(active') = Elements(front) \cup {n} /\ Distinct(active')
      BY <1>3, <2>2, <2>4, <3>1, InsertElements
    <3>4. Sorted(end, active')
      BY <1>3, <1>4, <2>2, <2>3, <2>4, InsertSorted
    <3> QED
      BY <3>2, <3>3, <3>4
  <2> DEFINE A == Elements(front) \cup {n}
             F == Elements(free)
  <2>6. /\ last \in Scanned
        /\ last # n
        /\ reg[last] \in Regs
        /\ \A v \in Elements(front) : v # last /\ v # n /\ reg[v] # reg[last]
    BY <1>3, <2>2
  <2>7. /\ reg' \in [Vars -> Regs \cup {NoRegister}]
        /\ reg'[n] = reg[last]
        /\ reg'[last] = NoRegister
        /\ \A v \in Scanned : v # last => reg'[v] = reg[v]
    BY <1>3, <1>4, <2>1, <2>6
  <2>8. \A v \in Elements(front) : v \in Scanned /\ reg'[v] = reg[v] /\ reg[v] \in Regs
    BY <1>3, <2>2, <2>6, <2>7
  <2>9. {reg'[v] : v \in A} = {reg[v] : v \in Elements(list)}
    BY <2>2, <2>7, <2>8
  <2>10. /\ \A v \in A : reg'[v] \in Regs
         /\ \A u, v \in A : reg'[u] = reg'[v] => u = v
    <3>1. \A u, v \in Elements(front) : reg[u] = reg[v] => u = v
      BY <1>3, <2>2
    <3> QED
      BY <2>6, <2>7, <2>8, <3>1
  <2>11. \A u \in (Scanned \cup {n}) \ A :
            \/ reg'[u] = NoRegister
            \/ u \in Scanned /\ \A i \in idx .. Len(intps) : end[u] < start[intps[i]]
    BY <1>3, <2>2, <2>7
  <2>12. ActiveInv' /\ RegistersConserved' /\ NoSharing'
    <3>1. /\ A = Elements(active')
          /\ F = Elements(regs')
          /\ A \subseteq Scanned \cup {n}
          /\ Distinct(regs')
          /\ F \cap {reg'[v] : v \in A} = {}
          /\ F \cup {reg'[v] : v \in A} = Regs
          /\ n \notin A => reg'[n] = NoRegister
          /\ \A u \in Scanned : reg'[u] = reg[u] \/ reg'[u] = NoRegister
      BY <1>3, <2>1, <2>5, <2>7, <2>8, <2>9
    <3> HIDE DEF A, F
    <3> QED
      BY <2>5, <2>7, <2>10, <2>11, <3>1, ScanOutcome DEF n
  <2> QED
    BY <1>3, <2>1, <2>5, <2>7, <2>12
<1> QED
  BY <1>1, <1>5, <1>6, <1>7 DEF n, list, free

-----------------------------------------------------------------------------
(* The invariant. *)

\* Before lin_scan runs, no interval is scanned.
LEMMA NothingScanned ==
  ASSUME phase \in {"intervals", "fill"}
  PROVE  Scanned = {}
BY DEF Scanned, ScannedTo

\* calloc'd intervals and empty lists satisfy the invariant.
LEMMA InitInv == Init => IInv
<1> SUFFICES ASSUME Init PROVE IInv
  OBVIOUS
<1> USE DEF Init
<1>1. TypeOK
  <2>1. code \in Seq(Instrs) /\ Len(code) \in Nat
    BY ProgramsAssumption
  <2> QED
    BY <2>1, NoRegisterIsNone, RegisterCountAssumption DEF TypeOK, Regs
<1>2. IntervalsInv
  BY DEF IntervalsInv
<1>3. IntpsInv
  BY DEF IntpsInv, Distinct, Sorted, Elements
<1>4. NoSharing
  BY NothingScanned DEF NoSharing
<1> QED
  BY <1>1, <1>2, <1>3, <1>4 DEF IInv, ActiveInv, RegistersConserved

\* intervals: start and end stay ordered and behind the instruction counter.
LEMMA IntervalsStep == IInv /\ Intervals => IInv'
<1> SUFFICES ASSUME IInv, Intervals PROVE IInv'
  OBVIOUS
<1>1. TypeOK /\ IntervalsInv /\ IntpsInv
  BY DEF IInv
<1>2. c \in Nat /\ c' = c + 1 /\ Len(code) \in Nat /\ c < Len(code) /\ phase = "intervals"
  BY <1>1 DEF TypeOK, Intervals
<1>3. phase' = "intervals" /\ intps' = << >> /\ todo' = {}
  BY <1>1, <1>2 DEF IntervalsInv, Intervals
<1>4. start' \in [Vars -> Nat] /\ end' \in [Vars -> Nat]
  BY <1>1, <1>2 DEF TypeOK, Intervals
<1>5. TypeOK'
  BY <1>1, <1>2, <1>3, <1>4 DEF TypeOK, Intervals
<1>6. IntervalsInv'
  <2>1. ASSUME NEW v \in Vars
        PROVE  start'[v] <= end'[v] /\ end'[v] <= c'
    <3>1. /\ start[v] \in Nat
          /\ end[v] \in Nat
          /\ start[v] <= end[v]
          /\ end[v] <= c
      BY <1>1 DEF TypeOK, IntervalsInv
    <3>2. /\ start'[v] \in {start[v], c + 1}
          /\ \/ end'[v] = c + 1
             \/ end'[v] = end[v] /\ start'[v] = start[v]
      BY DEF Intervals
    <3> QED
      BY <1>2, <3>1, <3>2
  <2> QED
    BY <1>3, <2>1 DEF IntervalsInv
<1>7. IntpsInv'
  BY <1>1, <1>2, <1>3 DEF IntpsInv, Intervals, Distinct, Sorted, Elements
<1>8. NoSharing'
  BY <1>3 DEF NoSharing, Scanned, ScannedTo
<1> QED
  BY <1>3, <1>5, <1>6, <1>7, <1>8 DEF IInv, ActiveInv, RegistersConserved

\* unused_vars: what is left to list is what is referenced.
LEMMA UnusedVarsStep == IInv /\ UnusedVars => IInv'
<1> SUFFICES ASSUME IInv, UnusedVars PROVE IInv'
  OBVIOUS
<1>1. TypeOK /\ IntervalsInv /\ IntpsInv
  BY DEF IInv
<1>2. phase = "intervals" /\ phase' = "fill" /\ intps = << >> /\ intps' = << >>
  BY <1>1 DEF IntervalsInv, UnusedVars
<1>3. TypeOK'
  BY <1>1 DEF TypeOK, UnusedVars
<1>4. IntervalsInv'
  BY <1>1, <1>2 DEF IntervalsInv, UnusedVars
<1>5. IntpsInv'
  <2>1. todo' = Referenced'
    BY DEF UnusedVars, Referenced
  <2>2. Elements(intps') = {}
    BY <1>2 DEF Elements
  <2> QED
    BY <1>1, <1>2, <2>1, <2>2 DEF IntpsInv, UnusedVars, Distinct, Sorted
<1>6. NoSharing'
  BY <1>2 DEF NoSharing, Scanned, ScannedTo
<1> QED
  BY <1>2, <1>3, <1>4, <1>5, <1>6 DEF IInv, ActiveInv, RegistersConserved

\* fill_interval_list: the list stays ordered by start and repeats no variable.
LEMMA FillIntervalListStep == IInv /\ FillIntervalList => IInv'
<1> SUFFICES ASSUME IInv, FillIntervalList PROVE IInv'
  OBVIOUS
<1>1. TypeOK /\ IntervalsInv /\ IntpsInv
  BY DEF IInv
<1>2. PICK v \in todo, k \in 0 .. Len(intps) :
        /\ InsertionPoint(start, intps, v, k)
        /\ intps' = InsertAfter(intps, v, k)
        /\ todo' = todo \ {v}
  BY DEF FillIntervalList
<1>3. v \in Vars /\ intps \in Seq(Vars) /\ start \in [Vars -> Nat]
  BY <1>1 DEF TypeOK
<1>4. phase = "fill" /\ phase' = "fill" /\ start' = start /\ end' = end /\ idx = 1
  BY <1>1 DEF FillIntervalList, IntpsInv
<1>5. intps' \in Seq(Vars)
  BY <1>2, <1>3, InsertAt
<1>6. TypeOK'
  <2>1. idx' \in 1 .. Len(intps') + 1
    BY <1>4, <1>5 DEF FillIntervalList
  <2> QED
    BY <1>1, <1>2, <1>5, <2>1 DEF TypeOK, FillIntervalList
<1>7. IntervalsInv'
  BY <1>1, <1>4 DEF IntervalsInv, FillIntervalList
<1>8. IntpsInv'
  <2>1. v \notin Elements(intps) /\ Distinct(intps)
    BY <1>1, <1>2 DEF IntpsInv
  <2>2. Elements(intps') = Elements(intps) \cup {v} /\ Distinct(intps')
    BY <1>2, <1>3, <2>1, InsertElements
  <2>3. Sorted(start, intps')
    BY <1>1, <1>2, <1>3, InsertSorted DEF IntpsInv
  <2>4. Elements(intps) \cup todo = Referenced /\ Elements(intps) \cap todo = {}
    BY <1>1, <1>4 DEF IntpsInv
  <2>5. Referenced' = Referenced
    BY <1>4 DEF Referenced
  <2> QED
    BY <1>1, <1>2, <1>4, <2>2, <2>3, <2>4, <2>5 DEF IntpsInv, FillIntervalList
<1>9. NoSharing'
  BY <1>4 DEF NoSharing, Scanned, ScannedTo
<1> QED
  BY <1>4, <1>6, <1>7, <1>8, <1>9 DEF IInv, ActiveInv, RegistersConserved

\* init_regs: all registers free, no interval active or scanned yet.
LEMMA InitRegsStep == IInv /\ InitRegs => IInv'
<1> SUFFICES ASSUME IInv, InitRegs PROVE IInv'
  OBVIOUS
<1>1. TypeOK /\ IntervalsInv /\ IntpsInv
  BY DEF IInv
<1>2. /\ phase = "fill" /\ phase' = "scan" /\ todo = {} /\ todo' = {}
      /\ idx = 1 /\ idx' = 1 /\ active = << >> /\ active' = << >>
      /\ intps' = intps /\ start' = start /\ end' = end /\ c' = c
      /\ regs' = [i \in 1 .. RegisterCount |-> RegisterCount - i]
  BY <1>1 DEF InitRegs, IntpsInv
<1>3. /\ regs' \in Seq(Regs)
      /\ Len(regs') = RegisterCount
  <2>1. \A i \in 1 .. RegisterCount : RegisterCount - i \in Regs
    BY RegisterCountAssumption DEF Regs
  <2> QED
    BY <1>2, <2>1, RegisterCountAssumption
<1>4. TypeOK'
  BY <1>1, <1>2, <1>3 DEF TypeOK, InitRegs
<1>5. IntervalsInv'
  BY <1>1, <1>2 DEF IntervalsInv
<1>6. IntpsInv'
  BY <1>1, <1>2 DEF IntpsInv, Referenced
<1>7. Scanned' = {} /\ Elements(active') = {}
  <2>1. ScannedTo' = 0
    BY <1>2 DEF ScannedTo
  <2> QED
    BY <1>2, <2>1 DEF Scanned, Elements
<1>8. ActiveInv' /\ NoSharing'
  BY <1>2, <1>7 DEF ActiveInv, NoSharing, Sorted
<1>9. RegistersConserved'
  <2>1. Distinct(regs')
    BY <1>2, <1>3, RegisterCountAssumption DEF Distinct
  <2>2. ASSUME NEW r \in Regs
        PROVE  r \in Elements(regs')
    <3>1. RegisterCount - r \in 1 .. RegisterCount /\ RegisterCount - (RegisterCount - r) = r
      BY RegisterCountAssumption DEF Regs
    <3>2. regs'[RegisterCount - r] = r
      BY <1>2, <3>1
    <3> QED
      BY <1>3, <3>1, <3>2 DEF Elements
  <2>3. Elements(regs') \subseteq Regs
    BY <1>3 DEF Elements
  <2>4. Distinct(active')
    BY <1>2 DEF Distinct
  <2> QED
    BY <1>7, <2>1, <2>2, <2>3, <2>4 DEF RegistersConserved
<1> QED
  BY <1>4, <1>5, <1>6, <1>8, <1>9 DEF IInv

\* lin_scan's first loop: one interval, after lin_expire_old.
LEMMA LinScanStep == IInv /\ LinScan => IInv'
<1> SUFFICES ASSUME IInv, LinScan PROVE IInv'
  OBVIOUS
<1>1. TypeOK /\ IntervalsInv /\ IntpsInv
  BY DEF IInv
<1>2. /\ reg' \in [Vars -> Regs \cup {NoRegister}]
      /\ active' \in Seq(Vars)
      /\ regs' \in Seq(Regs)
      /\ ActiveInv' /\ RegistersConserved' /\ NoSharing'
  BY ScanStep
<1>3. TypeOK'
  <2>1. idx' \in 1 .. Len(intps') + 1
    BY <1>1 DEF TypeOK, LinScan
  <2> QED
    BY <1>1, <1>2, <2>1 DEF TypeOK, LinScan
<1>4. IntervalsInv'
  BY <1>1 DEF IntervalsInv, LinScan
<1>5. IntpsInv'
  BY <1>1 DEF IntpsInv, LinScan, Referenced
<1> QED
  BY <1>2, <1>3, <1>4, <1>5 DEF IInv

\* From the end of the scan on, every listed interval is a scanned one.
LEMMA AllScanned ==
  ASSUME TypeOK,
         \/ phase = "scan" /\ idx > Len(intps)
         \/ phase \in {"place", "done"}
  PROVE  Scanned = Elements(intps)
<1>1. CASE phase = "scan" /\ idx > Len(intps)
  <2>1. ScannedTo = Len(intps)
    BY <1>1 DEF TypeOK, ScannedTo
  <2> QED
    BY <2>1 DEF Scanned, Elements
<1>2. CASE phase \in {"place", "done"}
  BY <1>2 DEF Scanned, ScannedTo, Elements
<1> QED
  BY <1>1, <1>2

\* The steps behind the scan move no interval and change no register.
LEMMA PlacedInv ==
  ASSUME IInv, TypeOK',
         \/ phase = "scan" /\ idx > Len(intps)
         \/ phase = "place",
         phase' \in {"place", "done"},
         UNCHANGED <<c, start, end, todo, intps, reg>>
  PROVE  IInv'
<1>1. TypeOK /\ IntervalsInv /\ IntpsInv /\ NoSharing
  BY DEF IInv
<1>2. Scanned' = Scanned
  BY <1>1, AllScanned DEF Scanned, ScannedTo, Elements
<1>3. NoSharing'
  BY <1>1, <1>2 DEF NoSharing, Overlap
<1>4. IntervalsInv' /\ IntpsInv'
  BY <1>1 DEF IntervalsInv, IntpsInv, Referenced
<1> QED
  BY <1>3, <1>4 DEF IInv, ActiveInv, RegistersConserved

\* lin_scan's second loop and its return.
LEMMA PlaceSteps ==
  IInv /\ (ScanEnd \/ PlaceInMemory \/ PlaceInRegister \/ PlaceEnd) => IInv'
<1> SUFFICES ASSUME IInv PROVE (ScanEnd \/ PlaceInMemory \/ PlaceInRegister \/ PlaceEnd) => IInv'
  OBVIOUS
<1>1. TypeOK
  BY DEF IInv
<1>2. CASE ScanEnd
  <2>1. TypeOK'
    BY <1>1, <1>2 DEF TypeOK, ScanEnd
  <2> QED
    BY <1>2, <2>1, PlacedInv DEF ScanEnd
<1>3. CASE PlaceInMemory
  <2>1. intps[idx] \in Vars /\ idx + 1 \in 1 .. Len(intps) + 1
    BY <1>1, <1>3 DEF TypeOK, PlaceInMemory
  <2>2. /\ val' \in [Vars -> Nat \cup {NoRegister}]
        /\ sreg' \in [Vars -> Regs \cup {NoRegister}]
        /\ memloc' \in Nat
    BY <1>1, <1>3, <2>1 DEF TypeOK, PlaceInMemory
  <2>3. TypeOK'
    BY <1>1, <1>3, <2>1, <2>2 DEF TypeOK, PlaceInMemory
  <2> QED
    BY <1>3, <2>3, PlacedInv DEF PlaceInMemory
<1>4. CASE PlaceInRegister
  <2>1. intps[idx] \in Vars /\ idx + 1 \in 1 .. Len(intps) + 1
    BY <1>1, <1>4 DEF TypeOK, PlaceInRegister
  <2>2. TypeOK'
    BY <1>1, <1>4, <2>1 DEF TypeOK, PlaceInRegister
  <2> QED
    BY <1>4, <2>2, PlacedInv DEF PlaceInRegister
<1>5. CASE PlaceEnd
  <2>1. TypeOK'
    BY <1>1, <1>5 DEF TypeOK, PlaceEnd
  <2> QED
    BY <1>5, <2>1, PlacedInv DEF PlaceEnd
<1> QED
  BY <1>2, <1>3, <1>4, <1>5

\* Every step of reg_alloc preserves the invariant.
LEMMA NextInv == IInv /\ [Next]_vars => IInv'
<1>1. ASSUME IInv, UNCHANGED vars
      PROVE  IInv'
  <2> USE DEF vars
  <2>1. Scanned' = Scanned
    BY <1>1 DEF Scanned, ScannedTo
  <2>2. TypeOK'
    BY <1>1 DEF IInv, TypeOK
  <2>3. IntervalsInv' /\ IntpsInv'
    BY <1>1 DEF IInv, IntervalsInv, IntpsInv, Referenced
  <2>4. ActiveInv' /\ RegistersConserved' /\ NoSharing'
    BY <1>1, <2>1 DEF IInv, ActiveInv, RegistersConserved, NoSharing, Overlap
  <2> QED
    BY <2>2, <2>3, <2>4 DEF IInv
<1> QED
  BY <1>1, IntervalsStep, UnusedVarsStep, FillIntervalListStep, InitRegsStep,
     LinScanStep, PlaceSteps DEF Next

\* The invariant holds in every reachable state.
THEOREM Invariance == Spec => []IInv
<1>1. Init => IInv
  BY InitInv
<1>2. IInv /\ [Next]_vars => IInv'
  BY NextInv
<1> QED
  BY <1>1, <1>2, PTL DEF Spec

\* The variables keep their types.
THEOREM TypeCorrect == Spec => []TypeOK
<1>1. IInv => TypeOK
  BY DEF IInv
<1> QED
  BY <1>1, Invariance, PTL

\* No register is lost or handed out twice by lin_scan, whatever the intervals.
THEOREM RegistersConservedAlways == Spec => []RegistersConserved
<1>1. IInv => RegistersConserved
  BY DEF IInv
<1> QED
  BY <1>1, Invariance, PTL

\* Two variables whose intervals meet never have the same register.
THEOREM NoSharingAlways == Spec => []NoSharing
<1>1. IInv => NoSharing
  BY DEF IInv
<1> QED
  BY <1>1, Invariance, PTL

-----------------------------------------------------------------------------
(* reg_alloc implements Homes. *)

\* Membership in Meets, for the quantified facts below.
LEMMA MeetsPair ==
  ASSUME NEW u \in Vars, NEW v \in Vars
  PROVE  <<u, v>> \in Meets <=> u # v /\ end[u] # 0 /\ end[v] # 0 /\ Overlap(u, v)
BY DEF Meets

\* Initially no variable has a home.
LEMMA HomesInit == Init => H!Init
<1> SUFFICES ASSUME Init PROVE H!Init
  OBVIOUS
<1>1. Scanned = {}
  BY NothingScanned DEF Init
<1>2. Home = [v \in Vars |-> -2]
  BY <1>1 DEF Home
<1>3. Meets = {}
  <2>1. \A v \in Vars : end[v] = 0
    BY DEF Init
  <2> QED
    BY <2>1 DEF Meets
<1> QED
  BY <1>2, <1>3 DEF H!Init, H!Nowhere

\* Before the scan nothing has a home: the pairs may still change.
LEMMA MeasureStep ==
  ASSUME phase \in {"intervals", "fill"}, Scanned' = {}
  PROVE  H!Measure
<1>1. Home = [v \in Vars |-> -2] /\ Home' = [v \in Vars |-> -2]
  BY NothingScanned DEF Home
<1>2. Meets' \in SUBSET (Vars \X Vars)
  BY DEF Meets
<1> QED
  BY <1>1, <1>2 DEF H!Measure, H!Nowhere

\* A step that moves no interval and scans none changes nothing in Homes.
LEMMA HomesStutter ==
  ASSUME UNCHANGED <<start, end, reg>>, Scanned' = Scanned
  PROVE  UNCHANGED H!vars
BY DEF H!vars, Meets, Home, Overlap

\* The scan of an interval gives its variable a home, maybe taking one over.
LEMMA HomesScan ==
  ASSUME IInv, IInv', LinScan
  PROVE  H!Next
<1> DEFINE n == intps[idx]
<1>1. TypeOK /\ TypeOK' /\ NoSharing'
  BY DEF IInv
<1>2. PICK k \in 0 .. Len(active) :
        /\ ExpirePoint(n, k)
        /\ \/ LinAssign(n, FreeAfter(k), ActiveAfter(k))
           \/ LinSpillLast(n, FreeAfter(k), ActiveAfter(k))
           \/ LinSpillSelf(n, FreeAfter(k), ActiveAfter(k))
  BY DEF LinScan
<1> DEFINE list == ActiveAfter(k)
           free == FreeAfter(k)
<1>3. /\ n \in Vars
      /\ n \notin Scanned
      /\ Scanned \subseteq Vars
      /\ list \in Seq(Vars)
      /\ free \in Seq(Regs)
      /\ Elements(list) \subseteq Scanned
      /\ \A v \in Elements(list) : reg[v] \in Regs
  <2>1. phase = "scan" /\ idx <= Len(intps)
    BY DEF LinScan
  <2> QED
    BY <1>2, <2>1, Expiry
<1>4. Scanned' = Scanned \cup {n}
  BY <1>1, ScannedGrows
<1>5. Meets' = Meets
  BY DEF LinScan, Meets, Overlap
<1>6. /\ reg \in [Vars -> Regs \cup {NoRegister}]
      /\ reg' \in [Vars -> Regs \cup {NoRegister}]
  BY <1>1 DEF TypeOK
<1>7. /\ Home \in [Vars -> Int]
      /\ Home[n] = -2
      /\ \A v \in Scanned : Home[v] = reg[v]
      /\ \A v \in Vars \ Scanned : Home[v] = -2
      /\ Home' = [v \in Vars |-> IF v \in Scanned \cup {n} THEN reg'[v] ELSE -2]
  <2>1. \A v \in Vars : reg[v] \in Int
    BY <1>6, NoRegisterIsNone, RegisterCountAssumption DEF Regs
  <2> QED
    BY <1>3, <1>4, <2>1 DEF Home
<1>8. \A u \in Scanned : <<u, n>> \in Meets =>
        reg'[u] # reg'[n] \/ reg'[u] = NoRegister
  <2>1. start' = start /\ end' = end
    BY DEF LinScan
  <2> QED
    BY <1>1, <1>3, <1>4, <2>1, MeetsPair DEF NoSharing, Overlap
<1>9. \A r \in Regs : r # -2 /\ r # NoRegister
  BY RegisterCountAssumption DEF Regs, NoRegister
<1> HIDE DEF n, list, free
<1>10. CASE LinAssign(n, free, list)
  <2> DEFINE r == free[Len(free)]
  <2>1. reg' = [reg EXCEPT ![n] = r] /\ r \in Regs
    BY <1>3, <1>10 DEF LinAssign
  <2>2. H!FreeFor(n, r, {n})
    <3> SUFFICES ASSUME NEW u \in Vars \ {n}, <<u, n>> \in Meets
                 PROVE  Home[u] # r
      BY DEF H!FreeFor
    <3>1. CASE u \in Scanned
      BY <1>6, <1>3, <1>7, <1>8, <1>9, <2>1, <3>1
    <3>2. CASE u \notin Scanned
      BY <1>7, <1>9, <2>1, <3>2
    <3> QED
      BY <3>1, <3>2
  <2>3. Home' = [Home EXCEPT ![n] = r]
    BY <1>3, <1>6, <1>7, <2>1
  <2>4. H!GiveRegister(n, r)
    BY <1>5, <1>7, <2>2, <2>3 DEF H!GiveRegister, H!Nowhere
  <2> QED
    BY <1>3, <2>1, <2>4 DEF H!Next
<1>11. CASE LinSpillSelf(n, free, list)
  <2>1. reg' = [reg EXCEPT ![n] = NoRegister]
    BY <1>11 DEF LinSpillSelf
  <2>2. Home' = [Home EXCEPT ![n] = -1]
    BY <1>3, <1>6, <1>7, <2>1 DEF NoRegister
  <2>3. H!GiveMemory(n)
    BY <1>5, <1>7, <2>2 DEF H!GiveMemory, H!Nowhere, H!Memory
  <2> QED
    BY <1>3, <2>3 DEF H!Next
<1>12. CASE LinSpillLast(n, free, list)
  <2> DEFINE last == list[Len(list)]
  <2>1. /\ Len(list) > 0
        /\ reg' = [reg EXCEPT ![n] = reg[last], ![last] = NoRegister]
    BY <1>12 DEF LinSpillLast
  <2>2. last \in Elements(list)
    BY <1>3, <2>1 DEF Elements
  <2> HIDE DEF last
  <2>3. last \in Scanned /\ last \in Vars /\ last # n /\ reg[last] \in Regs
    BY <1>3, <2>2
  <2>4. Home[last] = reg[last]
    BY <1>7, <2>3
  <2>5. H!FreeFor(n, Home[last], {last, n})
    <3> SUFFICES ASSUME NEW u \in Vars \ {last, n}, <<u, n>> \in Meets
                 PROVE  Home[u] # reg[last]
      BY <2>4 DEF H!FreeFor
    <3>1. CASE u \in Scanned
      BY <1>3, <1>6, <1>7, <1>8, <1>9, <2>1, <2>3, <3>1
    <3>2. CASE u \notin Scanned
      BY <1>7, <1>9, <2>3, <3>2
    <3> QED
      BY <3>1, <3>2
  <2>6. Home' = [Home EXCEPT ![n] = Home[last], ![last] = -1]
    BY <1>3, <1>6, <1>7, <2>1, <2>3, <2>4 DEF NoRegister
  <2>7. H!TakeOver(n, last)
    BY <1>5, <1>7, <2>3, <2>4, <2>5, <2>6 DEF H!TakeOver, H!Nowhere, H!Memory
  <2> QED
    BY <1>3, <2>3, <2>7 DEF H!Next
<1> QED
  BY <1>2, <1>10, <1>11, <1>12 DEF n, list, free

\* Every step of reg_alloc is a step of Homes or changes nothing there.
LEMMA HomesNext == IInv /\ IInv' /\ [Next]_vars => [H!Next]_H!vars
<1> SUFFICES ASSUME IInv, IInv', [Next]_vars
             PROVE  [H!Next]_H!vars
  OBVIOUS
<1>1. TypeOK /\ TypeOK' /\ IntpsInv
  BY DEF IInv
<1>2. CASE Intervals \/ UnusedVars \/ FillIntervalList
  <2>1. phase \in {"intervals", "fill"} /\ phase' \in {"intervals", "fill"}
    BY <1>2 DEF Intervals, UnusedVars, FillIntervalList
  <2>2. Scanned' = {}
    BY <2>1 DEF Scanned, ScannedTo
  <2> QED
    BY <2>1, <2>2, MeasureStep DEF H!Next
<1>3. CASE InitRegs
  <2>1. phase \in {"intervals", "fill"} /\ phase' = "scan" /\ idx' = 1
    BY <1>1, <1>3 DEF InitRegs, IntpsInv
  <2>2. ScannedTo' = 0
    BY <2>1 DEF ScannedTo
  <2>3. Scanned' = {}
    BY <2>2 DEF Scanned
  <2> QED
    BY <2>1, <2>3, MeasureStep DEF H!Next
<1>4. CASE LinScan
  BY <1>4, HomesScan
<1>5. CASE ScanEnd \/ PlaceInMemory \/ PlaceInRegister \/ PlaceEnd
  <2>1. /\ UNCHANGED <<start, end, reg, intps>>
        /\ phase' \in {"place", "done"}
        /\ \/ phase = "scan" /\ idx > Len(intps)
           \/ phase \in {"place", "done"}
    BY <1>5 DEF ScanEnd, PlaceInMemory, PlaceInRegister, PlaceEnd
  <2>2. Scanned' = Elements(intps)
    BY <2>1 DEF Scanned, ScannedTo, Elements
  <2>3. Scanned = Elements(intps)
    BY <1>1, <2>1, AllScanned
  <2> QED
    BY <2>1, <2>2, <2>3, HomesStutter
<1>6. CASE UNCHANGED vars
  <2>1. Scanned' = Scanned
    BY <1>6 DEF vars, Scanned, ScannedTo
  <2> QED
    BY <1>6, <2>1, HomesStutter DEF vars
<1> QED
  BY <1>2, <1>3, <1>4, <1>5, <1>6 DEF Next

\* Every behaviour of the allocator is a behaviour of Homes.
THEOREM AllocatorImplementsHomes == Spec => ImplementsHomes
<1>1. Init => H!Init
  BY HomesInit
<1>2. IInv /\ IInv' /\ [Next]_vars => [H!Next]_H!vars
  BY HomesNext
<1> QED
  BY <1>1, <1>2, Invariance, PTL DEF Spec, ImplementsHomes, H!Spec

-----------------------------------------------------------------------------
(* The homes. *)

\* lin_scan's second loop gives the next interval n its home.
LEMMA PlaceOne ==
  ASSUME IInv, PlaceInv, PlaceInMemory \/ PlaceInRegister
  PROVE  PlaceInv'
<1> DEFINE n == intps[idx]
<1>1. TypeOK /\ Distinct(intps) BY DEF IInv, IntpsInv
<1>2. /\ phase = "place" /\ phase' = phase /\ idx' = idx + 1 /\ intps' = intps
      /\ idx \in 1 .. Len(intps) /\ Len(intps) \in Nat /\ n \in Vars /\ intps \in Seq(Vars)
  BY <1>1 DEF PlaceInMemory, PlaceInRegister, TypeOK
<1>3. Placed' = Placed \cup {n}
  <2>1. Placed = {intps[i] : i \in 1 .. idx - 1} BY <1>2 DEF Placed
  <2>2. Placed' = {intps[i] : i \in 1 .. (idx + 1) - 1} BY <1>2 DEF Placed
  <2>3. 1 .. (idx + 1) - 1 = (1 .. idx - 1) \cup {idx} BY <1>2
  <2> QED BY <2>1, <2>2, <2>3
<1>4. n \notin Placed
  <2>1. Placed = {intps[i] : i \in 1 .. idx - 1} BY <1>2 DEF Placed
  <2>2. \A i \in 1 .. idx - 1 : i \in 1 .. Len(intps) /\ i # idx BY <1>2
  <2> QED BY <1>1, <1>2, <2>1, <2>2 DEF Distinct
<1>5. Placed \subseteq Vars
  <2>1. Placed = {intps[i] : i \in 1 .. idx - 1} BY <1>2 DEF Placed
  <2>2. \A i \in 1 .. idx - 1 : i \in 1 .. Len(intps) BY <1>2
  <2>3. \A i \in 1 .. Len(intps) : intps[i] \in Vars BY <1>2
  <2> QED BY <2>1, <2>2, <2>3
<1>6. memloc \in Nat /\ state[n] = "VS_EMPTY" BY <1>1, <1>2, <1>4 DEF TypeOK, PlaceInv
<1>7. /\ state \in [Vars -> {"VS_EMPTY", "VS_ASSIGNED"}]
      /\ sreg \in [Vars -> Regs \cup {NoRegister}]
      /\ val \in [Vars -> Nat \cup {NoRegister}]
      /\ reg \in [Vars -> Regs \cup {NoRegister}]
  BY <1>1 DEF TypeOK
<1> HIDE DEF n
<1>8. \A v \in Vars \ {n} : state'[v] = state[v] /\ sreg'[v] = sreg[v] /\ val'[v] = val[v]
  BY <1>2, <1>7 DEF PlaceInMemory, PlaceInRegister, n
<1>r. \A v \in Placed' : sreg'[v] = reg'[v]
  <2>1. reg' = reg /\ sreg'[n] = reg[n]
    BY <1>2, <1>7 DEF PlaceInMemory, PlaceInRegister, n
  <2>2. \A v \in Placed : v \in Vars \ {n} /\ sreg[v] = reg[v] BY <1>4, <1>5 DEF PlaceInv
  <2> QED BY <2>1, <2>2, <1>3, <1>8
<1>9. CASE PlaceInMemory
  <2>1. memloc' = memloc + 1 /\ state'[n] = "VS_EMPTY" /\ sreg'[n] = NoRegister /\ val'[n] = memloc
    BY <1>2, <1>6, <1>7, <1>9 DEF PlaceInMemory, n
  <2>2. ASSUME NEW v \in Placed
        PROVE  \/ state'[v] = "VS_ASSIGNED" /\ sreg'[v] \in Regs /\ val'[v] = NoRegister
               \/ state'[v] = "VS_EMPTY" /\ sreg'[v] = NoRegister /\ val'[v] \in 0 .. memloc' - 1 /\ val'[v] # memloc
    <3>1. v \in Vars \ {n} BY <1>4, <1>5
    <3>2. \/ state[v] = "VS_ASSIGNED" /\ sreg[v] \in Regs /\ val[v] = NoRegister
          \/ state[v] = "VS_EMPTY" /\ sreg[v] = NoRegister /\ val[v] \in 0 .. memloc - 1
      BY DEF PlaceInv
    <3>3. CASE state[v] = "VS_ASSIGNED" BY <3>1, <3>2, <3>3, <1>8
    <3>4. CASE state[v] = "VS_EMPTY"
      <4>1. val[v] \in 0 .. memloc - 1 /\ sreg[v] = NoRegister BY <3>2, <3>4
      <4>2. val[v] \in 0 .. memloc' - 1 /\ val[v] # memloc BY <4>1, <2>1, <1>6
      <4> QED BY <3>1, <3>4, <4>1, <4>2, <1>8
    <3> QED BY <3>2, <3>3, <3>4
  <2>3. memloc \in 0 .. memloc' - 1 BY <2>1, <1>6
  <2>4. ASSUME NEW u \in Placed', NEW v \in Placed', u # v, sreg'[u] = NoRegister, sreg'[v] = NoRegister
        PROVE  val'[u] # val'[v]
    <3>1. CASE u = n BY <3>1, <2>4, <1>3, <2>1, <2>2, NoRegisterIsNone
    <3>2. CASE v = n BY <3>2, <2>4, <1>3, <2>1, <2>2, NoRegisterIsNone
    <3>3. CASE u # n /\ v # n
      <4>1. u \in Placed /\ v \in Placed /\ u \in Vars \ {n} /\ v \in Vars \ {n} BY <3>3, <1>3, <1>5
      <4> QED BY <4>1, <2>4, <1>8 DEF PlaceInv
    <3> QED BY <3>1, <3>2, <3>3
  <2>5. \A v \in Vars \ Placed' : state'[v] = "VS_EMPTY" BY <1>3, <1>8 DEF PlaceInv
  <2>6. \A v \in Placed' :
          \/ state'[v] = "VS_ASSIGNED" /\ sreg'[v] \in Regs /\ val'[v] = NoRegister
          \/ state'[v] = "VS_EMPTY" /\ sreg'[v] = NoRegister /\ val'[v] \in 0 .. memloc' - 1
    BY <1>3, <2>1, <2>2, <2>3
  <2> QED BY <2>4, <2>5, <2>6, <1>2, <1>r DEF PlaceInv
<1>10. CASE PlaceInRegister
  <2>1. /\ memloc' = memloc /\ state'[n] = "VS_ASSIGNED" /\ sreg'[n] = reg[n] /\ val'[n] = NoRegister
        /\ reg[n] \in Regs
    BY <1>2, <1>6, <1>7, <1>10 DEF PlaceInRegister, n
  <2>2. \A v \in Placed :
          \/ state'[v] = "VS_ASSIGNED" /\ sreg'[v] \in Regs /\ val'[v] = NoRegister
          \/ state'[v] = "VS_EMPTY" /\ sreg'[v] = NoRegister /\ val'[v] \in 0 .. memloc - 1
    BY <1>4, <1>5, <1>8 DEF PlaceInv
  <2>3. ASSUME NEW u \in Placed', NEW v \in Placed', u # v, sreg'[u] = NoRegister, sreg'[v] = NoRegister
        PROVE  val'[u] # val'[v]
    <3>1. u \in Placed /\ v \in Placed BY <2>1, <2>3, <1>3, NoRegisterIsNone
    <3>2. u \in Vars \ {n} /\ v \in Vars \ {n} BY <3>1, <1>4, <1>5
    <3> QED BY <3>1, <3>2, <2>3, <1>8 DEF PlaceInv
  <2>4. \A v \in Vars \ Placed' : state'[v] = "VS_EMPTY" BY <1>3, <1>8 DEF PlaceInv
  <2>5. \A v \in Placed' :
          \/ state'[v] = "VS_ASSIGNED" /\ sreg'[v] \in Regs /\ val'[v] = NoRegister
          \/ state'[v] = "VS_EMPTY" /\ sreg'[v] = NoRegister /\ val'[v] \in 0 .. memloc' - 1
    BY <1>3, <2>1, <2>2
  <2> QED BY <2>3, <2>4, <2>5, <1>2, <1>r DEF PlaceInv
<1> QED BY <1>9, <1>10

LEMMA PlaceNext == IInv /\ PlaceInv /\ [Next]_vars => PlaceInv'
<1> SUFFICES ASSUME IInv, PlaceInv, [Next]_vars PROVE PlaceInv'
  OBVIOUS
<1>1. TypeOK BY DEF IInv
<1>2. CASE Intervals \/ UnusedVars \/ FillIntervalList \/ InitRegs \/ LinScan
  <2>1. Placed = {} /\ Placed' = {} /\ state' = state /\ phase' # "done"
    BY <1>2 DEF Intervals, UnusedVars, FillIntervalList, InitRegs, LinScan, Placed
  <2> QED BY <2>1 DEF PlaceInv
<1>3. CASE ScanEnd
  <2>1. Placed = {} /\ state' = state /\ phase' # "done" BY <1>3 DEF ScanEnd, Placed
  <2>2. Placed' = {}
    <3>1. phase' = "place" /\ idx' = 1 BY <1>3 DEF ScanEnd
    <3>2. 1 .. 1 - 1 = {} OBVIOUS
    <3> QED BY <3>1, <3>2 DEF Placed
  <2> QED BY <2>1, <2>2 DEF PlaceInv
<1>4. CASE PlaceEnd
  <2>1. Placed' = Placed BY <1>4 DEF PlaceEnd, Placed
  <2>2. idx' = Len(intps') + 1
    <3>1. idx \in 1 .. Len(intps) + 1 /\ Len(intps) \in Nat BY <1>1 DEF TypeOK
    <3>2. idx > Len(intps) /\ idx' = idx /\ intps' = intps BY <1>4 DEF PlaceEnd
    <3> QED BY <3>1, <3>2
  <2>3. state' = state /\ sreg' = sreg /\ val' = val /\ memloc' = memloc /\ reg' = reg
    BY <1>4 DEF PlaceEnd
  <2> QED BY <2>1, <2>2, <2>3 DEF PlaceInv
<1>5. CASE UNCHANGED vars
  <2>1. Placed' = Placed BY <1>5 DEF vars, Placed
  <2> QED BY <1>5, <2>1 DEF vars, PlaceInv
<1> QED BY <1>2, <1>3, <1>4, <1>5, PlaceOne DEF Next

-----------------------------------------------------------------------------
(* Spilling. *)

\* The intervals scanned so far that contain an instruction.
At(p) == {u \in Scanned : start[u] <= p /\ p <= end[u]}

LEMMA ScannedFinite ==
  ASSUME TypeOK
  PROVE  IsFiniteSet(Scanned) /\ Scanned \subseteq Vars
<1>1. ScannedTo \in Nat /\ ScannedTo <= Len(intps) /\ Len(intps) \in Nat
  BY DEF TypeOK, ScannedTo
<1> DEFINE f == [i \in 1 .. ScannedTo |-> intps[i]]
<1>2. f \in Surjection(1 .. ScannedTo, Scanned) BY DEF Surjection, Scanned
<1>3. IsFiniteSet(1 .. ScannedTo) BY <1>1, FS_Interval
<1>4. IsFiniteSet(Scanned)
  <2> HIDE DEF f
  <2> QED BY <1>2, <1>3, FS_Surjection
<1>5. \A i \in 1 .. ScannedTo : i \in 1 .. Len(intps) BY <1>1
<1>6. \A i \in 1 .. Len(intps) : intps[i] \in Vars BY DEF TypeOK
<1> QED BY <1>4, <1>5, <1>6 DEF Scanned

\* A list of variables that hold all registers, each its own, is as long as there
\* are registers.
LEMMA AllHeld ==
  ASSUME NEW A, \A u, v \in A : reg[u] = reg[v] => u = v, {reg[v] : v \in A} = Regs
  PROVE  IsFiniteSet(A) /\ Cardinality(A) = RegisterCount
<1> DEFINE f == [v \in A |-> reg[v]]
<1>1. f \in Injection(A, Regs) /\ f \in Surjection(A, Regs)
  BY DEF Injection, Surjection, IsInjective
<1>2. IsFiniteSet(Regs) /\ Cardinality(Regs) = RegisterCount
  <2>1. RegisterCount - 1 \in Int /\ 0 \in Int /\ ~ (0 > RegisterCount - 1)
    BY RegisterCountAssumption
  <2>2. IsFiniteSet(Regs) /\ Cardinality(Regs) = RegisterCount - 1 - 0 + 1
    BY <2>1, FS_Interval DEF Regs
  <2> QED BY <2>2, RegisterCountAssumption
<1> HIDE DEF f
<1> QED BY <1>1, <1>2, FS_Injection

\* What is still active when the next interval n starts, contains that start.
LEMMA ActiveReach ==
  ASSUME IInv, phase = "scan", idx <= Len(intps),
         NEW k \in 0 .. Len(active), ExpirePoint(intps[idx], k),
         NEW u \in Elements(ActiveAfter(k))
  PROVE  start[u] <= start[intps[idx]] /\ start[intps[idx]] <= end[u]
<1> DEFINE n == intps[idx]
<1>1. TypeOK /\ IntpsInv /\ ActiveInv BY DEF IInv
<1>2. /\ idx \in 1 .. Len(intps) /\ Len(intps) \in Nat /\ active \in Seq(Vars) /\ Len(active) \in Nat
      /\ \A v \in Vars : start[v] \in Nat /\ end[v] \in Nat
      /\ \A i \in 1 .. Len(active) : active[i] \in Vars
      /\ n \in Vars
  BY <1>1 DEF TypeOK
<1>3. PICK i \in k + 1 .. Len(active) : u = active[i]
  BY <1>2, Suffix DEF ActiveAfter
<1>4. i \in 1 .. Len(active) /\ k + 1 \in 1 .. Len(active) /\ k + 1 <= i /\ k < Len(active)
  BY <1>2, <1>3
<1>5. end[active[k + 1]] <= end[active[i]]
  BY <1>1, <1>4 DEF ActiveInv, Sorted
<1>6. start[n] <= end[active[k + 1]]
  <2>1. end[active[k + 1]] >= start[n] BY <1>4 DEF ExpirePoint
  <2> QED BY <2>1, <1>2, <1>4
<1>7. start[n] <= end[u] BY <1>2, <1>3, <1>4, <1>5, <1>6
<1>8. u \in Scanned BY <1>1, <1>3, <1>4 DEF ActiveInv, Elements
<1>9. PICK j \in 1 .. idx - 1 : u = intps[j] BY <1>8 DEF Scanned, ScannedTo
<1>10. j \in 1 .. Len(intps) /\ j <= idx BY <1>2, <1>9
<1>11. start[intps[j]] <= start[n] BY <1>1, <1>2, <1>10 DEF IntpsInv, Sorted
<1> QED BY <1>7, <1>9, <1>11

\* One turn of lin_scan's first loop spills only where too many intervals meet.
LEMMA SpillStep ==
  ASSUME IInv, IInv', SpillOnlyUnderPressure, LinScan
  PROVE  SpillOnlyUnderPressure'
<1> DEFINE n == intps[idx]
<1>1. TypeOK /\ TypeOK' /\ IntervalsInv BY DEF IInv
<1>2. PICK k \in 0 .. Len(active) :
        /\ ExpirePoint(n, k)
        /\ \/ LinAssign(n, FreeAfter(k), ActiveAfter(k))
           \/ LinSpillLast(n, FreeAfter(k), ActiveAfter(k))
           \/ LinSpillSelf(n, FreeAfter(k), ActiveAfter(k))
  BY DEF LinScan
<1> DEFINE list == ActiveAfter(k)
           free == FreeAfter(k)
<1>3. phase = "scan" /\ idx <= Len(intps) /\ start' = start /\ end' = end BY DEF LinScan
<1>4. /\ n \in Vars /\ n \notin Scanned
      /\ list \in Seq(Vars) /\ free \in Seq(Regs)
      /\ Elements(list) \subseteq Scanned
      /\ \A v \in Elements(list) : reg[v] \in Regs
      /\ \A u, v \in Elements(list) : reg[u] = reg[v] => u = v
      /\ Elements(free) \cup {reg[v] : v \in Elements(list)} = Regs
  BY <1>2, <1>3, Expiry
<1>5. Scanned' = Scanned \cup {n} BY <1>1, ScannedGrows
<1>6. /\ IsFiniteSet(Scanned') /\ Scanned \subseteq Vars
      /\ \A v \in Vars : start[v] \in Nat /\ end[v] \in Nat /\ start[v] <= end[v]
  <2>1. IsFiniteSet(Scanned') BY <1>1, <1>5, ScannedFinite, FS_AddElement
  <2> QED BY <1>1, <2>1, ScannedFinite DEF TypeOK, IntervalsInv
<1>7. \A u \in Elements(list) : start[u] <= start[n] /\ start[n] <= end[u]
  BY <1>2, <1>3, ActiveReach
<1> DEFINE More(p) == {u \in Scanned' : start[u] <= p /\ p <= end[u]}
<1>8. ASSUME NEW p \in Int, Cardinality(At(p)) > RegisterCount
      PROVE  Cardinality(More(p)) > RegisterCount
  <2>1. At(p) \subseteq More(p) /\ More(p) \subseteq Scanned' BY <1>5 DEF At
  <2>2. IsFiniteSet(More(p)) BY <1>6, <2>1, FS_Subset
  <2> HIDE DEF More
  <2>3. IsFiniteSet(At(p)) /\ Cardinality(At(p)) <= Cardinality(More(p)) BY <2>1, <2>2, FS_Subset
  <2>4. Cardinality(At(p)) \in Nat /\ Cardinality(More(p)) \in Nat BY <2>2, <2>3, FS_CardinalityType
  <2> QED BY <2>3, <2>4, <1>8, RegisterCountAssumption
<1>9. ASSUME Len(free) = 0 PROVE Cardinality(More(start[n])) > RegisterCount
  <2>1. Elements(free) = {}
    <3>1. 1 .. 0 = {} OBVIOUS
    <3> QED BY <3>1, <1>9 DEF Elements
  <2>2. {reg[v] : v \in Elements(list)} = Regs
    <3> HIDE DEF list, free
    <3> QED BY <2>1, <1>4
  <2>3. IsFiniteSet(Elements(list)) /\ Cardinality(Elements(list)) = RegisterCount
    <3> HIDE DEF list, free
    <3> QED BY <2>2, <1>4, AllHeld
  <2>4. Elements(list) \cup {n} \subseteq More(start[n])
    <3> HIDE DEF list, free, n
    <3> QED BY <1>4, <1>5, <1>6, <1>7
  <2>5. n \notin Elements(list) BY <1>4
  <2>6. /\ IsFiniteSet(Elements(list) \cup {n})
        /\ Cardinality(Elements(list) \cup {n}) = RegisterCount + 1
    BY <2>3, <2>5, FS_AddElement
  <2>7. IsFiniteSet(More(start[n]))
    <3>1. More(start[n]) \subseteq Scanned' OBVIOUS
    <3> HIDE DEF More
    <3> QED BY <3>1, <1>6, FS_Subset
  <2> HIDE DEF More, list, n
  <2>8. RegisterCount + 1 <= Cardinality(More(start[n])) /\ Cardinality(More(start[n])) \in Nat
    BY <2>4, <2>6, <2>7, FS_Subset, FS_CardinalityType
  <2> QED BY <2>8, RegisterCountAssumption
<1>10. ASSUME NEW v \in Scanned', reg'[v] = NoRegister
       PROVE  \E p \in start[v] .. end[v] : Cardinality(More(p)) > RegisterCount
  <2>1. CASE v \in Scanned /\ reg[v] = NoRegister
    <3>1. PICK p \in start[v] .. end[v] : Cardinality(At(p)) > RegisterCount
      BY <2>1 DEF SpillOnlyUnderPressure, At
    <3>2. p \in Int BY <3>1, <2>1, <1>6
    <3> QED BY <3>1, <3>2, <1>8
  <2>2. CASE Len(free) = 0 /\ (v = n \/ v \in Elements(list))
    <3>1. start[n] \in start[v] .. end[v]
      <4> HIDE DEF list, n
      <4>1. v \in Vars BY <2>2, <1>4, <1>6
      <4> QED BY <2>2, <4>1, <1>4, <1>6, <1>7
    <3> QED BY <3>1, <2>2, <1>9
  <2>3. (v \in Scanned /\ reg[v] = NoRegister) \/ (Len(free) = 0 /\ (v = n \/ v \in Elements(list)))
    <3>1. reg \in [Vars -> Regs \cup {NoRegister}] BY <1>1 DEF TypeOK
    <3> HIDE DEF list, free, n
    <3>2. CASE LinAssign(n, free, list)
      <4>1. /\ Len(free) > 0
            /\ reg' = [reg EXCEPT ![n] = free[Len(free)]]
        BY <3>2 DEF LinAssign
      <4>2. free[Len(free)] \in Regs BY <4>1, <1>4
      <4>3. v # n BY <1>10, <4>1, <4>2, <3>1, <1>4, NoRegisterIsNone
      <4> QED BY <4>1, <4>3, <1>5, <1>6, <1>10, <3>1
    <3>3. CASE LinSpillLast(n, free, list)
      <4> DEFINE last == list[Len(list)]
      <4>1. /\ Len(free) = 0 /\ Len(list) > 0
            /\ reg' = [reg EXCEPT ![n] = reg[last], ![last] = NoRegister]
        BY <3>3 DEF LinSpillLast
      <4>2. last \in Elements(list)
        <5>1. Len(list) \in 1 .. Len(list) BY <4>1, <1>4
        <5> QED BY <5>1 DEF Elements
      <4> HIDE DEF last
      <4> QED BY <4>1, <4>2, <1>5, <1>6, <1>10, <3>1
    <3>4. CASE LinSpillSelf(n, free, list)
      <4>1. Len(free) = 0 /\ reg' = [reg EXCEPT ![n] = NoRegister]
        BY <3>4 DEF LinSpillSelf
      <4> QED BY <4>1, <1>5, <1>6, <1>10, <3>1
    <3> QED BY <1>2, <3>2, <3>3, <3>4 DEF list, free, n
  <2> QED BY <2>1, <2>2, <2>3
<1> QED BY <1>3, <1>10 DEF SpillOnlyUnderPressure

LEMMA SpillNext ==
  IInv /\ IInv' /\ SpillOnlyUnderPressure /\ [Next]_vars => SpillOnlyUnderPressure'
<1> SUFFICES ASSUME IInv, IInv', SpillOnlyUnderPressure, [Next]_vars
             PROVE  SpillOnlyUnderPressure'
  OBVIOUS
<1>1. TypeOK BY DEF IInv
<1>2. ASSUME Scanned' = {} PROVE SpillOnlyUnderPressure'
  BY <1>2 DEF SpillOnlyUnderPressure
<1>3. ASSUME Scanned' = Scanned, start' = start, end' = end, reg' = reg
      PROVE  SpillOnlyUnderPressure'
  BY <1>3 DEF SpillOnlyUnderPressure
<1>4. CASE Intervals \/ UnusedVars \/ FillIntervalList
  <2>1. phase' \in {"intervals", "fill"} BY <1>4 DEF Intervals, UnusedVars, FillIntervalList
  <2>2. Scanned' = {} BY <2>1 DEF Scanned, ScannedTo
  <2> QED BY <1>2, <2>2
<1>5. CASE InitRegs
  <2>1. phase' = "scan" /\ idx' = 1
    BY <1>5 DEF InitRegs, IInv, IntpsInv
  <2>2. ScannedTo' = 0 BY <2>1 DEF ScannedTo
  <2>3. 1 .. 0 = {} OBVIOUS
  <2>4. Scanned' = {} BY <2>2, <2>3 DEF Scanned
  <2> QED BY <1>2, <2>4
<1>6. CASE LinScan BY <1>6, SpillStep
<1>7. CASE ScanEnd \/ PlaceInMemory \/ PlaceInRegister \/ PlaceEnd
  <2>1. /\ (phase = "scan" /\ idx > Len(intps)) \/ phase = "place"
        /\ phase' \in {"place", "done"} /\ intps' = intps
        /\ start' = start /\ end' = end /\ reg' = reg
    BY <1>7 DEF ScanEnd, PlaceInMemory, PlaceInRegister, PlaceEnd
  <2>2. Scanned = Elements(intps) BY <1>1, <2>1, AllScanned
  <2>3. Scanned' = Elements(intps) BY <2>1 DEF Scanned, ScannedTo, Elements
  <2> QED BY <2>1, <2>2, <2>3, <1>3
<1>8. CASE UNCHANGED vars
  <2>1. Scanned' = Scanned BY <1>8 DEF vars, Scanned, ScannedTo
  <2> QED BY <1>3, <1>8, <2>1 DEF vars
<1> QED BY <1>4, <1>5, <1>6, <1>7, <1>8 DEF Next

\* lin_scan puts a variable in memory only where more intervals meet than there
\* are registers, for every number of registers.
THEOREM SpillOnlyUnderPressureAlways == Spec => []SpillOnlyUnderPressure
<1>1. Init => SpillOnlyUnderPressure
  <2>1. Init => Scanned = {} BY NothingScanned DEF Init
  <2> QED BY <2>1 DEF SpillOnlyUnderPressure
<1>2. IInv /\ SpillOnlyUnderPressure /\ [Next]_vars => (IInv /\ SpillOnlyUnderPressure)'
  BY NextInv, SpillNext
<1> QED BY <1>1, <1>2, InitInv, PTL DEF Spec

-----------------------------------------------------------------------------
(* Intervals and liveness. *)

LEMMA CoverNext == IInv /\ IntervalsCover /\ [Next]_vars => IntervalsCover'
<1> SUFFICES ASSUME IInv, IntervalsCover, [Next]_vars PROVE IntervalsCover'
  OBVIOUS
<1>1. TypeOK /\ IntervalsInv BY DEF IInv
<1>2. CASE Intervals
  <2> DEFINE i == code[c + 1]
  <2>1. /\ phase = "intervals" /\ phase' = phase /\ c' = c + 1 /\ code' = code
        /\ c \in Nat /\ c + 1 \in 1 .. Len(code) /\ Len(code) \in Nat
    BY <1>1, <1>2 DEF Intervals, TypeOK
  <2>2. /\ start' = [v \in Vars |-> IF v \in Defs(i) /\ start[v] = 0 THEN c + 1 ELSE start[v]]
        /\ end' = [v \in Vars |-> IF v \in Uses(i) \cup Defs(i) THEN c + 1 ELSE end[v]]
    BY <1>2 DEF Intervals
  <2>3. \A v \in Vars : start[v] \in Nat /\ end[v] \in Nat /\ start[v] <= end[v] /\ end[v] <= c
    BY <1>1 DEF TypeOK, IntervalsInv
  <2>4. \A j : Uses(j) \subseteq Vars /\ Defs(j) \subseteq Vars BY DEF Uses, Defs
  <2>5. ASSUME NEW j \in 1 .. c + 1
        PROVE  /\ \A v \in Uses(code[j]) \cup Defs(code[j]) : j <= end'[v]
               /\ \A v \in Defs(code[j]) : start'[v] # 0 /\ start'[v] <= j
    <3>1. CASE j = c + 1
      <4>1. code[j] = i BY <3>1
      <4> HIDE DEF i
      <4> QED BY <3>1, <4>1, <2>1, <2>2, <2>3, <2>4
    <3>2. CASE j # c + 1
      <4>1. j \in 1 .. c BY <3>2, <2>1
      <4>2. /\ \A v \in Uses(code[j]) \cup Defs(code[j]) : j <= end[v]
            /\ \A v \in Defs(code[j]) : start[v] # 0 /\ start[v] <= j
        BY <4>1 DEF IntervalsCover
      <4> HIDE DEF i
      <4>3. \A v \in Uses(code[j]) \cup Defs(code[j]) : v \in Vars BY <2>4
      <4> QED BY <4>1, <4>2, <4>3, <2>1, <2>2, <2>3
    <3> QED BY <3>1, <3>2
  <2> QED BY <2>1, <2>5 DEF IntervalsCover
<1>3. CASE UnusedVars
  <2>1. /\ c = Len(code) /\ c' = c /\ code' = code /\ start' = start /\ end' = end
    BY <1>3 DEF UnusedVars
  <2> QED BY <2>1 DEF IntervalsCover
<1>4. CASE ~ (Intervals \/ UnusedVars)
  <2>1. /\ c' = c /\ code' = code /\ start' = start /\ end' = end
        /\ phase = "intervals" => phase' = "intervals"
    BY <1>4 DEF Next, FillIntervalList, InitRegs, LinScan, ScanEnd, PlaceInMemory,
                PlaceInRegister, PlaceEnd, vars
  <2> QED BY <2>1 DEF IntervalsCover
<1> QED BY <1>2, <1>3, <1>4

\* In code without loops the intervals meet where one variable is written while
\* another is live.
LEMMA LiveMeets ==
  ASSUME TypeOK, IntervalsCover, phase = "done", WithoutLoops(code),
         NEW p \in DOMAIN code, NEW d \in Defs(code[p]),
         NEW u \in LiveAfter(code)[p], u # d
  PROVE  u \in Referenced /\ d \in Referenced /\ Overlap(d, u)
<1> DEFINE live == LiveBefore(code)
<1>1. /\ code \in Seq(Instrs) /\ Len(code) \in Nat /\ DOMAIN code = 1 .. Len(code)
      /\ p \in 1 .. Len(code) /\ c = Len(code)
  BY DEF TypeOK, IntervalsCover
<1>2. /\ ForwardOnly(code) /\ DefinedBeforeUse(code)
      /\ \A q \in DOMAIN code \ {1} : \E o \in DOMAIN code : q \in Succs(code, o)
  BY DEF WithoutLoops
<1>3. PICK s \in Succs(code, p) : u \in live[s]
  BY DEF LiveAfter
<1>4. s \in DOMAIN code /\ s > p
  BY <1>1, <1>2, SuccsInside DEF ForwardOnly
<1>5. u \in Vars /\ d \in Vars
  BY <1>3, <1>4, LiveAreVars DEF Defs
<1>6. u \notin Defs(code[p])
  BY DEF Defs
<1>7. u \in live[p]
  <2> HIDE DEF live
  <2>1. \E t \in Succs(code, p) : u \in live[t] BY <1>3
  <2> QED BY <1>1, <1>5, <1>6, <2>1, LiveBeforeOne DEF live
<1>8. PICK w \in 1 .. p - 1 : u \in Defs(code[w])
  BY <1>1, <1>2, <1>5, <1>7, WrittenBefore
<1>9. PICK r \in s .. Len(code) : u \in Uses(code[r])
  BY <1>1, <1>2, <1>3, <1>4, <1>5, ReadBehind
<1>10. w \in 1 .. c /\ r \in 1 .. c /\ w < p /\ p < r
  BY <1>1, <1>4, <1>8, <1>9
<1>11. start[u] # 0 /\ start[u] <= w /\ r <= end[u]
  BY <1>8, <1>9, <1>10 DEF IntervalsCover
<1>12. start[d] # 0 /\ start[d] <= p /\ p <= end[d]
  BY <1>1 DEF IntervalsCover
<1>13. start[u] \in Nat /\ end[u] \in Nat /\ start[d] \in Nat /\ end[d] \in Nat
  BY <1>5 DEF TypeOK
<1>14. Overlap(d, u)
  BY <1>1, <1>10, <1>11, <1>12, <1>13 DEF Overlap
<1> QED BY <1>1, <1>5, <1>10, <1>11, <1>12, <1>13, <1>14 DEF Referenced

LEMMA AllKnown == Spec => [](IInv /\ PlaceInv /\ IntervalsCover)
<1>1. Init => IInv /\ PlaceInv /\ IntervalsCover
  <2>1. Init => PlaceInv BY DEF Init, PlaceInv, Placed
  <2>2. Init => IntervalsCover
    <3>1. 1 .. 0 = {} OBVIOUS
    <3> QED BY <3>1 DEF Init, IntervalsCover
  <2> QED BY <2>1, <2>2, InitInv
<1>2. IInv /\ PlaceInv /\ IntervalsCover /\ [Next]_vars => (IInv /\ PlaceInv /\ IntervalsCover)'
  BY NextInv, PlaceNext, CoverNext
<1> QED BY <1>1, <1>2, PTL DEF Spec

\* reg_alloc is right for code without loops: no instruction writes to a register
\* another variable still needs.
THEOREM LiveValuesKeptAlways == Spec => []LiveValuesKept
<1>1. ASSUME IInv, PlaceInv, IntervalsCover PROVE LiveValuesKept
  <2> SUFFICES ASSUME phase = "done", WithoutLoops(code),
                      NEW p \in DOMAIN code, NEW d \in Defs(code[p]),
                      NEW u \in LiveAfter(code)[p] \ {d}
               PROVE  sreg[d] # sreg[u] \/ sreg[d] = NoRegister
    BY DEF LiveValuesKept
  <2>1. TypeOK /\ NoSharing BY <1>1 DEF IInv
  <2>2. u \in Referenced /\ d \in Referenced /\ Overlap(d, u) BY <1>1, <2>1, LiveMeets
  <2>3. Elements(intps) = Referenced BY <1>1 DEF IInv, IntpsInv
  <2>4. Scanned = Elements(intps) BY <2>1, AllScanned
  <2>5. Placed = Elements(intps)
    <3>1. Placed = {intps[i] : i \in 1 .. idx - 1} /\ idx = Len(intps) + 1 BY <1>1 DEF Placed, PlaceInv
    <3>2. Len(intps) + 1 - 1 = Len(intps) BY <2>1 DEF TypeOK
    <3> QED BY <3>1, <3>2 DEF Elements
  <2>6. reg[d] # reg[u] \/ reg[d] = NoRegister BY <2>1, <2>2, <2>3, <2>4 DEF NoSharing
  <2>7. sreg[d] = reg[d] /\ sreg[u] = reg[u] BY <1>1, <2>2, <2>3, <2>5 DEF PlaceInv
  <2> QED BY <2>6, <2>7
<1> QED BY <1>1, AllKnown, PTL

\* When reg_alloc returns every referenced variable has been placed, once.
THEOREM OneHomeAlways == Spec => []OneHome
<1>1. ASSUME IInv, PlaceInv PROVE OneHome
  <2> SUFFICES ASSUME phase = "done" PROVE OneHome BY DEF OneHome
  <2>1. Elements(intps) = Referenced BY <1>1 DEF IInv, IntpsInv
  <2>2. Placed = Referenced
    <3>1. Placed = {intps[i] : i \in 1 .. idx - 1} /\ idx = Len(intps) + 1 BY <1>1 DEF Placed, PlaceInv
    <3>2. Len(intps) + 1 - 1 = Len(intps) BY <1>1 DEF IInv, TypeOK
    <3> QED BY <2>1, <3>1, <3>2 DEF Elements
  <2>3. \A v \in Referenced :
          \/ state[v] = "VS_ASSIGNED" /\ sreg[v] \in Regs /\ val[v] = NoRegister
          \/ state[v] = "VS_EMPTY" /\ sreg[v] = NoRegister /\ val[v] \in Nat
    <3>1. memloc \in Nat BY <1>1 DEF IInv, TypeOK
    <3>2. \A m \in 0 .. memloc - 1 : m \in Nat BY <3>1
    <3> QED BY <1>1, <2>2, <3>2 DEF PlaceInv
  <2> QED BY <1>1, <2>1, <2>2, <2>3 DEF PlaceInv, OneHome
<1> QED BY <1>1, AllKnown, PTL

=============================================================================
