--------------------------- MODULE LivenessProofs ---------------------------
(***************************************************************************)
(* What LiveIn, defined over paths, has to do with the equations of         *)
(* liveness: it solves them, as paths of as many nodes as the graph has     *)
(* find all there is to find, and it is below every solution.  The number   *)
(* of steps is reached by least counterexamples: the naturals are           *)
(* well-founded as the initial segments of them are, by strict inclusion.   *)
(***************************************************************************)
EXTENDS Liveness, TLAPS, WellFoundedInduction, FiniteSetTheorems

-----------------------------------------------------------------------------
(* Numbers: least elements, induction, and counting what is below one. *)

LEMMA Least ==
  ASSUME NEW T, T \subseteq Nat, T # {}
  PROVE  \E x \in T : \A y \in T : x <= y
<1> DEFINE Upto(n) == 1 .. n
           U == {Upto(n) : n \in T}
<1>1. U \subseteq FiniteSubsetsOf(Nat)
  <2>1. ASSUME NEW n \in T PROVE Upto(n) \in SUBSET Nat /\ IsFiniteSet(Upto(n))
    <3>1. n \in Nat /\ 1 \in Int /\ n \in Int OBVIOUS
    <3> QED BY <3>1, FS_Interval
  <2> HIDE DEF Upto
  <2> QED BY <2>1 DEF FiniteSubsetsOf
<1>2. PICK S \in U : \A V \in U : ~(<<V, S>> \in StrictSubsetOrdering(Nat))
  <2>1. IsWellFoundedOn(StrictSubsetOrdering(Nat), FiniteSubsetsOf(Nat))
    BY FS_StrictSubsetOrderingWellFounded, Zenon
  <2>2. U # {} OBVIOUS
  <2> HIDE DEF U
  <2> QED BY <1>1, <2>1, <2>2, WFMin, Zenon
<1>3. PICK x \in T : S = Upto(x) BY <1>2
<1>4. ASSUME NEW y \in T, y < x PROVE FALSE
  <2>1. Upto(y) \in U OBVIOUS
  <2>2. Upto(y) \in SUBSET Nat /\ Upto(x) \in SUBSET Nat OBVIOUS
  <2>3. Upto(y) \subseteq Upto(x) /\ x \in Upto(x) /\ x \notin Upto(y) BY <1>4
  <2> QED BY <2>1, <2>2, <2>3, <1>2, <1>3 DEF StrictSubsetOrdering
<1> QED BY <1>4

\* What holds of 0, and of n + 1 if it holds of n, holds of every number.
LEMMA NatSetInduction ==
  ASSUME NEW S, 0 \in S, \A n \in Nat : n \in S => n + 1 \in S
  PROVE  Nat \subseteq S
<1> DEFINE T == Nat \ S
<1> SUFFICES ASSUME T # {} PROVE FALSE
  OBVIOUS
<1>1. PICK x \in T : \A y \in T : x <= y
  <2>1. T \subseteq Nat
    OBVIOUS
  <2> HIDE DEF T
  <2> QED BY <2>1, Least
<1>2. x \in Nat /\ x # 0
  OBVIOUS
<1>3. x - 1 \in Nat /\ x - 1 \notin T /\ (x - 1) + 1 = x
  BY <1>1, <1>2
<1> QED BY <1>3

\* A greater number has more of them below it.
LEMMA MoreBelow ==
  ASSUME NEW S \in SUBSET Nat, IsFiniteSet(S), NEW a \in S, NEW b \in S, a < b
  PROVE  /\ Cardinality({s \in S : s < a}) \in Nat /\ Cardinality({s \in S : s < b}) \in Nat
         /\ Cardinality({s \in S : s < a}) < Cardinality({s \in S : s < b})
<1> DEFINE Below(x) == {s \in S : s < x}
<1>1. \A s \in S : s \in Int
  OBVIOUS
<1>2. a \notin Below(a) /\ Below(a) \cup {a} \in SUBSET Below(b)
  <2>1. \A s \in S : s < a => s < b
    BY <1>1
  <2>2. a \notin Below(a)
    BY <1>1
  <2>3. a \in Below(b) /\ Below(a) \subseteq Below(b)
    BY <2>1
  <2> HIDE DEF Below
  <2> QED BY <2>2, <2>3
<1>3. Below(a) \in SUBSET S /\ Below(b) \in SUBSET S
  OBVIOUS
<1>4. /\ IsFiniteSet(Below(a)) /\ IsFiniteSet(Below(b))
      /\ Cardinality(Below(a)) \in Nat /\ Cardinality(Below(b)) \in Nat
  <2> HIDE DEF Below
  <2> QED BY <1>3, FS_Subset, FS_CardinalityType
<1>5. Cardinality(Below(a)) < Cardinality(Below(b))
  <2> HIDE DEF Below
  <2>1. Cardinality(Below(a) \cup {a}) = Cardinality(Below(a)) + 1
    BY <1>2, <1>4, FS_AddElement
  <2>2. Cardinality(Below(a) \cup {a}) <= Cardinality(Below(b))
    BY <1>2, <1>4, FS_Subset
  <2> QED BY <1>4, <2>1, <2>2
<1> QED BY <1>4, <1>5

\* In a finite set of naturals there is one with j - 1 below it.
LEMMA NthExists ==
  ASSUME NEW S \in SUBSET Nat, IsFiniteSet(S), NEW j \in 1 .. Cardinality(S)
  PROVE  \E b \in S : Cardinality({a \in S : a < b}) = j - 1
<1> DEFINE Below(b) == {a \in S : a < b}
           n == Cardinality(S)
           f == [b \in S |-> Cardinality(Below(b)) + 1]
<1>1. n \in Nat
  BY FS_CardinalityType
<1>2. ASSUME NEW b \in S
      PROVE  IsFiniteSet(Below(b)) /\ Cardinality(Below(b)) \in Nat
             /\ Cardinality(Below(b)) < n
  <2>1. Below(b) \in SUBSET S
    OBVIOUS
  <2>2. IsFiniteSet(Below(b)) /\ Cardinality(Below(b)) <= n /\ (n = Cardinality(Below(b)) => S = Below(b))
    BY <2>1, FS_Subset
  <2>3. b \notin Below(b)
    OBVIOUS
  <2>4. Cardinality(Below(b)) \in Nat
    BY <2>2, FS_CardinalityType
  <2> HIDE DEF Below, n
  <2> QED BY <1>1, <2>2, <2>3, <2>4
<1>3. ASSUME NEW a \in S, NEW b \in S, a < b
      PROVE  Cardinality(Below(a)) < Cardinality(Below(b))
  BY <1>3, MoreBelow
<1>4. f \in Injection(S, 1 .. n)
  <2>1. f \in [S -> 1 .. n]
    <3> HIDE DEF Below, n
    <3> QED BY <1>1, <1>2
  <2>2. ASSUME NEW a \in S, NEW b \in S, a # b PROVE f[a] # f[b]
    <3>1. Cardinality(Below(a)) \in Nat /\ Cardinality(Below(b)) \in Nat
      BY <1>2
    <3>2. Cardinality(Below(a)) # Cardinality(Below(b))
      <4> HIDE DEF Below
      <4>1. a < b \/ b < a BY <2>2
      <4> QED BY <1>3, <3>1, <4>1
    <3> HIDE DEF Below
    <3> QED BY <3>1, <3>2
  <2> HIDE DEF f, n
  <2> QED BY <2>1, <2>2 DEF Injection, IsInjective
<1>5. IsFiniteSet(1 .. n) /\ Cardinality(1 .. n) = n
  BY <1>1, FS_Interval
<1>6. f \in Surjection(S, 1 .. n)
  <2> HIDE DEF f
  <2> QED BY <1>4, <1>5, FS_Injection
<1>7. PICK b \in S : f[b] = j
  <2> HIDE DEF f, n
  <2>1. j \in 1 .. n
    BY DEF n
  <2> QED BY <1>6, <2>1 DEF Surjection
<1>8. Cardinality(Below(b)) + 1 = j /\ Cardinality(Below(b)) \in Nat
  <2>1. f[b] = Cardinality(Below(b)) + 1 BY DEF f
  <2> QED BY <1>2, <1>7, <2>1
<1>9. Cardinality({a \in S : a < b}) = j - 1
  <2> DEFINE m == Cardinality(Below(b))
  <2>1. m + 1 = j /\ m \in Nat
    BY <1>8
  <2> HIDE DEF m
  <2>2. m = j - 1
    BY <2>1
  <2> QED BY <2>2 DEF m
<1> QED BY <1>9

-----------------------------------------------------------------------------
(* Paths: LiveIn solves the equations of liveness, and is below every solution. *)

PathStep(Nodes, succ, U, K, S) == {n \in Nodes : n \in U \/ (n \in K /\ succ[n] \cap S # {})}

\* Paths of as many nodes as there are nodes find all there is to find.
LEMMA Saturates ==
  ASSUME NEW Nodes, IsFiniteSet(Nodes), NEW N \in Nat, N = Cardinality(Nodes),
         NEW succ, NEW U, NEW K, NEW A, A[0] = {},
         \A m \in 1 .. N : A[m] = PathStep(Nodes, succ, U, K, A[m - 1])
  PROVE  PathStep(Nodes, succ, U, K, A[N]) = A[N]
<1> DEFINE F(S) == PathStep(Nodes, succ, U, K, S)
<1>1. N \in Nat OBVIOUS
<1>2. ASSUME NEW S, NEW T, S \subseteq T PROVE F(S) \subseteq F(T) BY <1>2 DEF PathStep
<1>3. \A S : F(S) \subseteq Nodes BY DEF PathStep
<1>4. \A m \in 1 .. N : A[m] = F(A[m - 1]) OBVIOUS
<1> HIDE DEF F
<1>5. \A m \in 0 .. N : A[m] \subseteq F(A[m])
  <2> DEFINE T == {m \in 0 .. N : ~ (A[m] \subseteq F(A[m]))}
  <2> SUFFICES ASSUME T # {} PROVE FALSE OBVIOUS
  <2>1. PICK m \in T : \A y \in T : m <= y
    <3>1. T \subseteq Nat BY <1>1
    <3>2. T # {} OBVIOUS
    <3> HIDE DEF T
    <3> QED BY <3>1, <3>2, Least
  <2>2. m # 0 BY <2>1
  <2>3. m - 1 \in 0 .. N /\ m - 1 \notin T /\ m \in 1 .. N BY <2>1, <2>2, <1>1
  <2>4. A[m - 1] \subseteq A[m] BY <2>3, <1>4
  <2>5. F(A[m - 1]) \subseteq F(A[m]) BY <2>4, <1>2
  <2> QED BY <2>1, <2>3, <2>5, <1>4
<1> SUFFICES ASSUME F(A[N]) # A[N] PROVE FALSE BY DEF F
<1>6. \A m \in 0 .. N : F(A[m]) # A[m]
  <2> SUFFICES ASSUME NEW m \in 0 .. N, F(A[m]) = A[m] PROVE FALSE OBVIOUS
  <2> DEFINE T == {j \in m .. N : A[j] # A[m]}
  <2>1. N \in T BY <1>1
  <2>2. PICK j \in T : \A y \in T : j <= y
    <3>1. T \subseteq Nat BY <1>1
    <3>2. T # {} BY <2>1
    <3> HIDE DEF T
    <3> QED BY <3>1, <3>2, Least
  <2>3. j # m BY <2>2
  <2>4. j - 1 \in m .. N /\ j - 1 \notin T /\ j \in 1 .. N BY <2>2, <2>3, <1>1
  <2> QED BY <2>2, <2>4, <1>4
<1>7. \A m \in 0 .. N : A[m] \subseteq Nodes
  <2> SUFFICES ASSUME NEW m \in 0 .. N PROVE A[m] \subseteq Nodes OBVIOUS
  <2>1. CASE m = 0 BY <2>1
  <2>2. CASE m # 0
    <3>1. m \in 1 .. N BY <2>2, <1>1
    <3> QED BY <3>1, <1>3, <1>4
  <2> QED BY <2>1, <2>2
<1>8. \A m \in 0 .. N : IsFiniteSet(A[m]) /\ Cardinality(A[m]) \in Nat
  BY <1>7, FS_Subset, FS_CardinalityType
<1>9. \A m \in 0 .. N : m <= Cardinality(A[m])
  <2> DEFINE T == {m \in 0 .. N : ~ (m <= Cardinality(A[m]))}
  <2> SUFFICES ASSUME T # {} PROVE FALSE OBVIOUS
  <2>1. PICK m \in T : \A y \in T : m <= y
    <3>1. T \subseteq Nat BY <1>1
    <3>2. T # {} OBVIOUS
    <3> HIDE DEF T
    <3> QED BY <3>1, <3>2, Least
  <2>2. m # 0
    <3>1. 0 <= Cardinality(A[0]) BY <1>1, <1>8
    <3> QED BY <2>1, <3>1
  <2>3. m - 1 \in 0 .. N /\ m - 1 \notin T /\ m \in 1 .. N BY <2>1, <2>2, <1>1
  <2>4. A[m - 1] \subseteq A[m] /\ A[m - 1] # A[m] BY <2>3, <1>4, <1>5, <1>6
  <2>5. m - 1 <= Cardinality(A[m - 1]) BY <2>3
  <2>6. Cardinality(A[m - 1]) <= Cardinality(A[m]) /\ Cardinality(A[m - 1]) # Cardinality(A[m])
    BY <2>1, <2>4, <1>8, FS_Subset
  <2>7. Cardinality(A[m - 1]) \in Nat /\ Cardinality(A[m]) \in Nat BY <2>1, <2>3, <1>8
  <2>8. m <= Cardinality(A[m]) BY <2>5, <2>6, <2>7, <2>3, <1>1
  <2> QED BY <2>1, <2>8
<1>10. N \in 0 .. N BY <1>1
<1>11. A[N] \subseteq Nodes /\ N <= Cardinality(A[N]) /\ Cardinality(A[N]) \in Nat BY <1>7, <1>8, <1>9, <1>10
<1>12. Cardinality(A[N]) <= Cardinality(Nodes) /\ (Cardinality(Nodes) = Cardinality(A[N]) => Nodes = A[N])
  BY <1>11, FS_Subset
<1>13. A[N] = Nodes BY <1>1, <1>11, <1>12
<1> QED BY <1>3, <1>5, <1>10, <1>13

\* One step along paths.
LiveStep(Nodes, succ, use_, def_, S) ==
    {nv \in Nodes \X Vars :
       \/ nv[2] \in use_[nv[1]]
       \/ /\ nv[2] \notin def_[nv[1]]
          /\ \E s \in succ[nv[1]] : <<s, nv[2]>> \in S}

\* The sets L the definition of LiveInWithin goes through.
LivePaths(Nodes, succ, use_, def_, k, L) ==
    /\ LiveInWithin(Nodes, succ, use_, def_, k) = L[k]
    /\ L[0] = {}
    /\ \A m \in 1 .. k : L[m] = LiveStep(Nodes, succ, use_, def_, L[m - 1])

\* The recursive definition has a solution, one path length after the other.
LEMMA LiveChain ==
  ASSUME NEW Nodes, NEW succ, NEW use_, NEW def_, NEW k \in Nat
  PROVE  \E L : LivePaths(Nodes, succ, use_, def_, k, L)
<1> DEFINE F(S) == LiveStep(Nodes, succ, use_, def_, S)
           Solves(f, n) == f = [m \in 0 .. n |-> IF m = 0 THEN {} ELSE F(f[m - 1])]
           L == CHOOSE f : Solves(f, k)
<1>1. \E f : Solves(f, k)
  <2> DEFINE T == {n \in Nat : ~ \E f : Solves(f, n)}
  <2> HIDE DEF F
  <2> SUFFICES ASSUME k \in T PROVE FALSE OBVIOUS
  <2>1. PICK n \in T : \A y \in T : n <= y
    <3>1. T \subseteq Nat /\ T # {} OBVIOUS
    <3> HIDE DEF T
    <3> QED BY <3>1, Least
  <2>2. n # 0
    <3>1. Solves([m \in 0 .. 0 |-> {}], 0) OBVIOUS
    <3> QED BY <2>1, <3>1
  <2>3. n \in Nat /\ n - 1 \in Nat /\ n - 1 \notin T BY <2>1, <2>2
  <2>4. PICK f : Solves(f, n - 1) BY <2>3
  <2> DEFINE g == [m \in 0 .. n |-> IF m = n THEN F(f[n - 1]) ELSE f[m]]
  <2>5. \A m \in 0 .. n : g[m] = IF m = 0 THEN {} ELSE F(g[m - 1])
    <3> SUFFICES ASSUME NEW m \in 0 .. n PROVE g[m] = IF m = 0 THEN {} ELSE F(g[m - 1]) OBVIOUS
    <3>1. \A i \in 0 .. n - 1 : f[i] = IF i = 0 THEN {} ELSE F(f[i - 1]) BY <2>4, Zenon
    <3>2. CASE m = n
      <4>1. n - 1 \in 0 .. n /\ n - 1 # n /\ n \in 0 .. n BY <2>2, <2>3
      <4> QED BY <4>1, <3>2, <2>2
    <3>3. CASE m # n
      <4>1. m \in 0 .. n - 1 BY <3>3, <2>3
      <4>2. m # 0 => m - 1 \in 0 .. n /\ m - 1 # n BY <4>1, <2>3
      <4> QED BY <3>1, <3>3, <4>1, <4>2
    <3> QED BY <3>2, <3>3
  <2>6. g = [m \in 0 .. n |-> g[m]] OBVIOUS
  <2>7. Solves(g, n)
    <3> HIDE DEF g
    <3> QED BY <2>5, <2>6
  <2> QED BY <2>1, <2>7
<1>2. Solves(L, k)
  <2> HIDE DEF Solves
  <2> QED BY <1>1
<1>3. LiveInWithin(Nodes, succ, use_, def_, k) = L[k]
  BY DEF LiveInWithin, LiveStep
<1>4. \A m \in 0 .. k : L[m] = IF m = 0 THEN {} ELSE F(L[m - 1])
  <2> HIDE DEF L, F
  <2> QED BY <1>2
<1> HIDE DEF L, F
<1>5. L[0] = {} BY <1>4
<1>6. \A m \in 1 .. k : L[m] = F(L[m - 1]) BY <1>4
<1> QED BY <1>3, <1>5, <1>6 DEF F, LivePaths

\* A variable is live into a node that uses it, or one from which it is live on.
LEMMA LiveSolves ==
  ASSUME NEW Nodes, IsFiniteSet(Nodes), NEW succ, NEW use_, NEW def_,
         NEW n \in Nodes, NEW v \in Vars
  PROVE  v \in LiveIn(Nodes, succ, use_, def_)[n] <=>
           \/ v \in use_[n]
           \/ (v \notin def_[n] /\ \E s \in succ[n] \cap Nodes : v \in LiveIn(Nodes, succ, use_, def_)[s])
<1>1. PICK N \in Nat : N = Cardinality(Nodes) BY FS_CardinalityType
<1>p. PICK L : LivePaths(Nodes, succ, use_, def_, N, L) BY LiveChain
<1>2. /\ LiveInWithin(Nodes, succ, use_, def_, N) = L[N]
      /\ L[0] = {}
      /\ \A m \in 1 .. N : L[m] = LiveStep(Nodes, succ, use_, def_, L[m - 1])
  BY <1>p DEF LivePaths
<1> DEFINE A == [m \in 0 .. N |-> {w \in Nodes : <<w, v>> \in L[m]}]
           U == {w \in Nodes : v \in use_[w]}
           K == {w \in Nodes : v \notin def_[w]}
<1>3. \A w \in Nodes : v \in LiveIn(Nodes, succ, use_, def_)[w] <=> w \in A[N]
  <2>1. A[N] = {w \in Nodes : <<w, v>> \in L[N]} BY <1>1
  <2> HIDE DEF A
  <2> QED BY <1>1, <1>2, <2>1 DEF LiveIn
<1>4. A[0] = {} BY <1>1, <1>2
<1>5. ASSUME NEW m \in 1 .. N PROVE A[m] = PathStep(Nodes, succ, U, K, A[m - 1])
  <2>1. m \in 0 .. N /\ m - 1 \in 0 .. N BY <1>1
  <2>2. /\ A[m] = {w \in Nodes : <<w, v>> \in L[m]}
        /\ A[m - 1] = {w \in Nodes : <<w, v>> \in L[m - 1]}
    BY <2>1
  <2>3. L[m] = LiveStep(Nodes, succ, use_, def_, L[m - 1]) BY <1>2
  <2>4. \A s : <<s, v>> \in L[m - 1] => s \in Nodes
    <3>1. CASE m = 1 BY <3>1, <1>2
    <3>2. CASE m # 1
      <4>1. m - 1 \in 1 .. N BY <3>2, <1>1
      <4>2. L[m - 1] = LiveStep(Nodes, succ, use_, def_, L[m - 1 - 1]) BY <4>1, <1>2
      <4> QED BY <4>2 DEF LiveStep
    <3> QED BY <3>1, <3>2
  <2> HIDE DEF A
  <2>5. ASSUME NEW w \in Nodes
        PROVE  <<w, v>> \in L[m] <=> \/ v \in use_[w]
                                     \/ v \notin def_[w] /\ \E s \in succ[w] : <<s, v>> \in L[m - 1]
    BY <2>3 DEF LiveStep
  <2> QED BY <2>2, <2>4, <2>5 DEF PathStep
<1> HIDE DEF A
<1>6. PathStep(Nodes, succ, U, K, A[N]) = A[N]
  <2> HIDE DEF U, K
  <2>1. \A m \in 1 .. N : A[m] = PathStep(Nodes, succ, U, K, A[m - 1]) BY <1>5
  <2>2. IsFiniteSet(Nodes) OBVIOUS
  <2> QED BY <1>1, <1>4, <2>1, <2>2, Saturates
<1>7. n \in A[N] <=> n \in U \/ (n \in K /\ succ[n] \cap A[N] # {})
  BY <1>6 DEF PathStep
<1>8. A[N] \subseteq Nodes BY <1>6 DEF PathStep
<1> QED BY <1>3, <1>7, <1>8

\* Whatever sets solve the equations, or are larger, the live variables are in them.
LEMMA LiveBelow ==
  ASSUME NEW Nodes, IsFiniteSet(Nodes), NEW succ, NEW use_, NEW def_, NEW X,
         \A n \in Nodes : \A v \in Vars :
           \/ v \in use_[n]
           \/ v \notin def_[n] /\ \E s \in succ[n] \cap Nodes : v \in X[s]
           => v \in X[n],
         NEW n \in Nodes
  PROVE  LiveIn(Nodes, succ, use_, def_)[n] \subseteq X[n]
<1>1. PICK N \in Nat : N = Cardinality(Nodes) BY FS_CardinalityType
<1>p. PICK L : LivePaths(Nodes, succ, use_, def_, N, L) BY LiveChain
<1>2. /\ LiveInWithin(Nodes, succ, use_, def_, N) = L[N]
      /\ L[0] = {}
      /\ \A m \in 1 .. N : L[m] = LiveStep(Nodes, succ, use_, def_, L[m - 1])
  BY <1>p DEF LivePaths
<1> DEFINE Good(m) == \A nv \in L[m] : /\ nv \in Nodes \X Vars
                                       /\ nv[2] \in X[nv[1]]
           T == {m \in 0 .. N : ~ Good(m)}
<1>3. T = {}
  <2> SUFFICES ASSUME T # {} PROVE FALSE OBVIOUS
  <2>1. PICK m \in T : \A y \in T : m <= y
    <3>1. T \subseteq Nat BY <1>1
    <3>2. T # {} OBVIOUS
    <3> HIDE DEF T
    <3> QED BY <3>1, <3>2, Least
  <2>2. m # 0 BY <2>1, <1>2
  <2>3. m - 1 \in 0 .. N /\ m - 1 \notin T /\ m \in 1 .. N BY <2>1, <2>2, <1>1
  <2>4. Good(m - 1) BY <2>3
  <2>5. L[m] = LiveStep(Nodes, succ, use_, def_, L[m - 1]) BY <2>3, <1>2
  <2>6. ASSUME NEW nv \in L[m] PROVE nv \in Nodes \X Vars /\ nv[2] \in X[nv[1]]
    <3>1. /\ nv \in Nodes \X Vars
          /\ \/ nv[2] \in use_[nv[1]]
             \/ nv[2] \notin def_[nv[1]] /\ \E s \in succ[nv[1]] : <<s, nv[2]>> \in L[m - 1]
      BY <2>5 DEF LiveStep
    <3>2. nv[1] \in Nodes /\ nv[2] \in Vars BY <3>1
    <3>3. ASSUME NEW s \in succ[nv[1]], <<s, nv[2]>> \in L[m - 1]
          PROVE  s \in Nodes /\ nv[2] \in X[s]
      <4>1. <<s, nv[2]>> \in Nodes \X Vars /\ <<s, nv[2]>>[2] \in X[<<s, nv[2]>>[1]] BY <2>4, <3>3
      <4> QED BY <4>1
    <3> QED BY <3>1, <3>2, <3>3
  <2>7. Good(m) BY <2>6
  <2> QED BY <2>1, <2>7
<1>4. Good(N) BY <1>1, <1>3
<1>5. ASSUME NEW v \in LiveIn(Nodes, succ, use_, def_)[n] PROVE v \in X[n]
  <2>1. <<n, v>> \in L[N] BY <1>1, <1>2 DEF LiveIn
  <2>2. <<n, v>>[2] \in X[<<n, v>>[1]] BY <1>4, <2>1
  <2> QED BY <2>2
<1> QED BY <1>5

-----------------------------------------------------------------------------
(* Lists of instructions. *)

LEMMA SuccsInside ==
  ASSUME NEW prog \in Seq(Instrs), NEW p \in DOMAIN prog
  PROVE  Succs(prog, p) \subseteq DOMAIN prog
BY DEF Succs, LabelAt

\* What is live before an instruction, from what is live behind it.
LEMMA LiveBeforeOne ==
  ASSUME NEW prog \in Seq(Instrs), NEW p \in DOMAIN prog, NEW v \in Vars
  PROVE  v \in LiveBefore(prog)[p] <=>
           \/ v \in Uses(prog[p])
           \/ (v \notin Defs(prog[p]) /\ \E s \in Succs(prog, p) : v \in LiveBefore(prog)[s])
<1> DEFINE P == DOMAIN prog
           succ == [q \in P |-> Succs(prog, q)]
           uses == [q \in P |-> Uses(prog[q])]
           defs == [q \in P |-> Defs(prog[q])]
           live == LiveIn(P, succ, uses, defs)
<1>1. LiveBefore(prog) = live BY DEF LiveBefore
<1>2. IsFiniteSet(P)
  <2>1. P = 1 .. Len(prog) /\ Len(prog) \in Int /\ 1 \in Int OBVIOUS
  <2> QED BY <2>1, FS_Interval
<1>3. succ[p] \subseteq P BY SuccsInside
<1>4. uses[p] = Uses(prog[p]) /\ defs[p] = Defs(prog[p]) /\ succ[p] = Succs(prog, p) /\ p \in P
  OBVIOUS
<1>5. v \in live[p] <=> \/ v \in uses[p]
                       \/ (v \notin defs[p] /\ \E s \in succ[p] \cap P : v \in live[s])
  <2> HIDE DEF P, succ, uses, defs
  <2> QED BY <1>2, <1>4, LiveSolves
<1> HIDE DEF P, succ, uses, defs, live
<1> QED BY <1>1, <1>3, <1>4, <1>5

LEMMA LiveAreVars ==
  ASSUME NEW prog, NEW p \in DOMAIN prog
  PROVE  LiveBefore(prog)[p] \subseteq Vars
BY DEF LiveBefore, LiveIn

\* Where no jump goes back, what is live is read further down.
LEMMA ReadBehind ==
  ASSUME NEW prog \in Seq(Instrs), ForwardOnly(prog), NEW p \in DOMAIN prog,
         NEW v \in Vars, v \in LiveBefore(prog)[p]
  PROVE  \E q \in p .. Len(prog) : v \in Uses(prog[q])
<1> DEFINE live == LiveBefore(prog)
           T == {Len(prog) - q : q \in {m \in p .. Len(prog) : v \in live[m]}}
<1>1. Len(prog) \in Nat /\ DOMAIN prog = 1 .. Len(prog) /\ p \in 1 .. Len(prog) OBVIOUS
<1>2. PICK x \in T : \A y \in T : x <= y
  <2>1. T \subseteq Nat BY <1>1
  <2>2. Len(prog) - p \in T BY <1>1
  <2>3. T # {} BY <2>2
  <2> HIDE DEF T
  <2> QED BY <2>1, <2>3, Least
<1>3. PICK q \in p .. Len(prog) : v \in live[q] /\ x = Len(prog) - q BY <1>2
<1>4. q \in DOMAIN prog BY <1>1, <1>3
<1>5. ASSUME NEW s \in Succs(prog, q), v \in live[s] PROVE FALSE
  <2>1. s \in 1 .. Len(prog) /\ s > q BY <1>1, <1>4, SuccsInside DEF ForwardOnly
  <2>2. s \in p .. Len(prog) BY <1>1, <1>3, <2>1
  <2>3. Len(prog) - s \in T BY <1>5, <2>2
  <2>4. x <= Len(prog) - s BY <1>2, <2>3
  <2> QED BY <1>1, <1>3, <2>1, <2>4
<1>6. v \in Uses(prog[q])
  <2> HIDE DEF T
  <2> QED BY <1>3, <1>4, <1>5, LiveBeforeOne
<1> QED BY <1>3, <1>6

\* Where moreover each instruction is behind another, and nothing is live before
\* the first, what is live has been written further up.
LEMMA WrittenBefore ==
  ASSUME NEW prog \in Seq(Instrs), ForwardOnly(prog), DefinedBeforeUse(prog),
         \A q \in DOMAIN prog \ {1} : \E o \in DOMAIN prog : q \in Succs(prog, o),
         NEW p \in DOMAIN prog, NEW v \in Vars, v \in LiveBefore(prog)[p]
  PROVE  \E q \in 1 .. p - 1 : v \in Defs(prog[q])
<1> DEFINE live == LiveBefore(prog)
           T == {q \in 1 .. p : v \in live[q]}
<1>1. Len(prog) \in Nat /\ DOMAIN prog = 1 .. Len(prog) /\ p \in 1 .. Len(prog) OBVIOUS
<1>2. PICK q \in T : \A y \in T : q <= y
  <2>1. T \subseteq Nat BY <1>1
  <2>2. p \in T BY <1>1
  <2> HIDE DEF T
  <2> QED BY <2>1, <2>2, Least
<1>3. q \in 1 .. Len(prog) /\ q <= p /\ v \in live[q] BY <1>1, <1>2
<1>4. q # 1
  <2>1. prog # << >> BY <1>1
  <2>2. live[1] = {} BY <2>1 DEF DefinedBeforeUse
  <2> QED BY <1>3, <2>2
<1>5. PICK o \in DOMAIN prog : q \in Succs(prog, o) BY <1>1, <1>3, <1>4
<1>6. o < q
  <2>1. q > o BY <1>5 DEF ForwardOnly
  <2> QED BY <1>1, <1>3, <1>5, <2>1
<1>7. o \in 1 .. p - 1 /\ o \in 1 .. p BY <1>1, <1>3, <1>5, <1>6
<1>8. v \notin live[o] BY <1>1, <1>2, <1>3, <1>6, <1>7
<1>9. v \in Defs(prog[o])
  <2> HIDE DEF T
  <2> QED BY <1>3, <1>5, <1>8, LiveBeforeOne
<1> QED BY <1>7, <1>9

=============================================================================
