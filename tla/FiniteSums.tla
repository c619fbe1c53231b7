---------------------------- MODULE FiniteSums -----------------------------
(***************************************************************************)
(* Sums over finite sets, as MapThenSumSet computes them: what the sum of  *)
(* no elements is, and what one more element adds.  MapThenSumSet recurses *)
(* over the subsets of its set and takes them apart in an order of its     *)
(* own; the proofs below show that the order does not matter.              *)
(***************************************************************************)
EXTENDS Integers, FiniteSets, FiniteSetsExt, FiniteSetTheorems, TLAPS

(* The sum of the weights W[x] of the elements x of S.                     *)
SumOver(W, S) == MapThenSumSet(LAMBDA x : W[x], S)

Weighed(W, S) == \A x \in S : W[x] \in Nat

(* The order of the recursion.                                             *)
Pick(s) == CHOOSE x \in s : TRUE

(* it[s] is the sum of the weights of s, for each subset s of S.           *)
SumsUp(it, S, W) ==
  /\ it[{}] = 0
  /\ \A s \in SUBSET S : s # {} => it[s] = W[Pick(s)] + it[s \ {Pick(s)}]

LEMMA Picked == \A s : s # {} => Pick(s) \in s
  BY DEF Pick

(* A set of finite subsets that is not empty has a smallest member.        *)
LEMMA SmallestSubset ==
  ASSUME NEW S, IsFiniteSet(S), NEW T \in SUBSET SUBSET S, T # {}
  PROVE  \E s \in T : \A r \in SUBSET s : r # s => r \notin T
  <1>1. IsWellFoundedOn(StrictSubsetOrdering(S), FiniteSubsetsOf(S))
    BY FS_StrictSubsetOrderingWellFounded
  <1>2. T \subseteq FiniteSubsetsOf(S)
    BY FS_FiniteSubsetsOfFinite
  <1>3. PICK s \in T : \A r \in T : ~(<<r, s>> \in StrictSubsetOrdering(S))
    BY <1>1, <1>2, WFMin
  <1>4. ASSUME NEW r \in SUBSET s, r # s, r \in T  PROVE FALSE
    <2>1. r \in SUBSET S /\ s \in SUBSET S
      OBVIOUS
    <2> QED  BY <1>3, <1>4, <2>1 DEF StrictSubsetOrdering
  <1> QED  BY <1>3, <1>4

(* Two such functions agree wherever both are defined.                     *)
LEMMA SumsUpAgree ==
  ASSUME NEW S, NEW T, NEW W, IsFiniteSet(S), NEW f, NEW g,
         SumsUp(f, S, W), SumsUp(g, T, W)
  PROVE  \A s : s \subseteq S /\ s \subseteq T => f[s] = g[s]
  <1> DEFINE bad == {s \in SUBSET (S \cap T) : f[s] # g[s]}
  <1>1. SUFFICES ASSUME bad # {}  PROVE FALSE
    OBVIOUS
  <1>2. bad \in SUBSET SUBSET S
    OBVIOUS
  <1>3. PICK s \in bad : \A r \in SUBSET s : r # s => r \notin bad
    <2> HIDE DEF bad
    <2> QED  BY <1>1, <1>2, SmallestSubset
  <1>4. s # {}
    BY DEF SumsUp
  <1>5. /\ s \ {Pick(s)} \in SUBSET s /\ s \ {Pick(s)} # s
        /\ s \ {Pick(s)} \in SUBSET (S \cap T)
    BY <1>4, Picked
  <1>6. f[s \ {Pick(s)}] = g[s \ {Pick(s)}]
    BY <1>3, <1>5
  <1>7. f[s] = W[Pick(s)] + f[s \ {Pick(s)}] /\ g[s] = W[Pick(s)] + g[s \ {Pick(s)}]
    BY <1>4 DEF SumsUp
  <1> QED  BY <1>6, <1>7

(* There is one for every finite set.                                      *)
LEMMA SumsUpExists ==
  ASSUME NEW S, IsFiniteSet(S), NEW W, Weighed(W, S)
  PROVE  \E it \in [SUBSET S -> Nat] : SumsUp(it, S, W)
  <1> DEFINE bad == {T \in SUBSET S : ~ \E it \in [SUBSET T -> Nat] : SumsUp(it, T, W)}
  <1>1. SUFFICES ASSUME bad # {}  PROVE FALSE
    OBVIOUS
  <1>2. bad \in SUBSET SUBSET S
    OBVIOUS
  <1>3. PICK T \in bad : \A r \in SUBSET T : r # T => r \notin bad
    <2> HIDE DEF bad
    <2> QED  BY <1>1, <1>2, SmallestSubset
  <1> DEFINE F(V) == CHOOSE it : it \in [SUBSET V -> Nat] /\ SumsUp(it, V, W)
             Rest(U) == U \ {Pick(U)}
             g == [U \in SUBSET T |-> IF U = {} THEN 0 ELSE W[Pick(U)] + F(Rest(U))[Rest(U)]]
  <1>4. ASSUME NEW V \in SUBSET T, V # T
        PROVE  F(V) \in [SUBSET V -> Nat] /\ SumsUp(F(V), V, W)
    <2>1. V \in SUBSET S /\ V \notin bad
      BY <1>3, <1>4
    <2>2. \E it : it \in [SUBSET V -> Nat] /\ SumsUp(it, V, W)
      BY <2>1
    <2> QED  BY <2>2
  <1>5. ASSUME NEW U \in SUBSET T, U # {}
        PROVE  /\ Rest(U) \in SUBSET T /\ Rest(U) # T /\ Pick(U) \in S
    BY <1>3, <1>5, Picked
  <1>6. ASSUME NEW V \in SUBSET T, V # T  PROVE F(V)[V] \in Nat
    BY <1>4, <1>6
  <1>7. g \in [SUBSET T -> Nat]
    <2>1. ASSUME NEW U \in SUBSET T
          PROVE  (IF U = {} THEN 0 ELSE W[Pick(U)] + F(Rest(U))[Rest(U)]) \in Nat
      <3>1. CASE U = {}
        BY <3>1
      <3>2. CASE U # {}
        <4>1. Rest(U) \in SUBSET T /\ Rest(U) # T /\ Pick(U) \in S
          BY <1>5, <3>2
        <4>2. F(Rest(U))[Rest(U)] \in Nat
          BY <1>6, <4>1
        <4>3. W[Pick(U)] \in Nat
          BY <4>1 DEF Weighed
        <4> HIDE DEF F, Rest
        <4> QED  BY <3>2, <4>2, <4>3
      <3> QED  BY <3>1, <3>2
    <2> HIDE DEF F, Rest
    <2> QED  BY <2>1
  <1>8. g[{}] = 0
    OBVIOUS
  <1>9. ASSUME NEW V \in SUBSET T, V # T  PROVE g[V] = F(V)[V]
    <2>1. SumsUp(F(V), V, W)
      BY <1>4, <1>9
    <2>2. CASE V = {}
      BY <2>1, <2>2, <1>8 DEF SumsUp
    <2>3. CASE V # {}
      <3>1. Rest(V) \in SUBSET T /\ Rest(V) # T /\ Rest(V) \in SUBSET V
        BY <1>5, <2>3
      <3>2. SumsUp(F(Rest(V)), Rest(V), W)
        BY <1>4, <3>1
      <3>3. IsFiniteSet(V)
        BY <1>3, FS_Subset
      <3>4. F(V)[Rest(V)] = F(Rest(V))[Rest(V)]
        <4> HIDE DEF F, Rest
        <4> QED  BY <2>1, <3>1, <3>2, <3>3, SumsUpAgree
      <3>5. F(V)[V] = W[Pick(V)] + F(V)[Rest(V)]
        BY <2>1, <2>3 DEF SumsUp
      <3>6. g[V] = W[Pick(V)] + F(Rest(V))[Rest(V)]
        BY <2>3
      <3> QED  BY <3>4, <3>5, <3>6
    <2> QED  BY <2>2, <2>3
  <1>10. ASSUME NEW U \in SUBSET T, U # {}  PROVE g[U] = W[Pick(U)] + g[Rest(U)]
    <2>1. Rest(U) \in SUBSET T /\ Rest(U) # T
      BY <1>5, <1>10
    <2>2. g[U] = W[Pick(U)] + F(Rest(U))[Rest(U)]
      BY <1>10
    <2>3. g[Rest(U)] = F(Rest(U))[Rest(U)]
      BY <1>9, <2>1
    <2> QED  BY <2>2, <2>3
  <1>11. SumsUp(g, T, W)
    <2> HIDE DEF g
    <2> QED  BY <1>7, <1>8, <1>10 DEF SumsUp
  <1> QED  BY <1>3, <1>7, <1>11

(* What MapThenSumSet computes is such a sum.                              *)
LEMMA SumOverIs ==
  ASSUME NEW S, IsFiniteSet(S), NEW W, Weighed(W, S), NEW it, SumsUp(it, S, W)
  PROVE  SumOver(W, S) = it[S]
  <1> DEFINE step(f) == [s \in SUBSET S |->
                           IF s = {} THEN 0 ELSE W[Pick(s)] + f[s \ {Pick(s)}]]
             sum == CHOOSE f : f = step(f)
  <1>1. SumOver(W, S) = sum[S]
    BY DEF SumOver, MapThenSumSet, MapThenFoldSet, Pick
  <1>2. \E f : f = step(f)
    <2>1. PICK f \in [SUBSET S -> Nat] : SumsUp(f, S, W)
      BY SumsUpExists
    <2>2. ASSUME NEW s \in SUBSET S
          PROVE  f[s] = IF s = {} THEN 0 ELSE W[Pick(s)] + f[s \ {Pick(s)}]
      BY <2>1 DEF SumsUp
    <2>3. f = [s \in SUBSET S |-> f[s]]
      OBVIOUS
    <2>4. f = step(f)
      BY <2>2, <2>3
    <2> HIDE DEF step
    <2> QED  BY <2>4
  <1>3. sum = step(sum)
    <2> HIDE DEF step
    <2> QED  BY <1>2
  <1> HIDE DEF sum
  <1>4. SumsUp(sum, S, W)
    <2>1. sum[{}] = 0
      BY <1>3
    <2>2. ASSUME NEW s \in SUBSET S, s # {}  PROVE sum[s] = W[Pick(s)] + sum[s \ {Pick(s)}]
      BY <1>3, <2>2
    <2> QED  BY <2>1, <2>2 DEF SumsUp
  <1>5. ASSUME NEW f, SumsUp(f, S, W)  PROVE f[S] = it[S]
    BY <1>5, SumsUpAgree
  <1> QED  BY <1>1, <1>4, <1>5

(* The order does not matter: any element may be taken out first.          *)
LEMMA SumsUpRemove ==
  ASSUME NEW S, IsFiniteSet(S), NEW W, Weighed(W, S),
         NEW it \in [SUBSET S -> Nat], SumsUp(it, S, W)
  PROVE  \A s \in SUBSET S : \A x \in s : it[s] = W[x] + it[s \ {x}]
  <1> DEFINE bad == {s \in SUBSET S : \E x \in s : it[s] # W[x] + it[s \ {x}]}
  <1>1. SUFFICES ASSUME bad # {}  PROVE FALSE
    OBVIOUS
  <1>2. bad \in SUBSET SUBSET S
    OBVIOUS
  <1>3. PICK s \in bad : \A r \in SUBSET s : r # s => r \notin bad
    <2> HIDE DEF bad
    <2> QED  BY <1>1, <1>2, SmallestSubset
  <1>4. PICK x \in s : it[s] # W[x] + it[s \ {x}]
    BY <1>3
  <1> DEFINE y == Pick(s)
  <1>5. y \in s /\ it[s] = W[y] + it[s \ {y}]
    BY <1>4, Picked DEF SumsUp
  <1> HIDE DEF y
  <1>6. x # y
    BY <1>4, <1>5
  <1>7. it[s \ {y}] = W[x] + it[(s \ {y}) \ {x}]
    <2>1. s \ {y} \in SUBSET S /\ s \ {y} # s /\ s \ {y} \notin bad /\ x \in s \ {y}
      BY <1>3, <1>4, <1>5, <1>6
    <2> QED  BY <2>1
  <1>8. it[s \ {x}] = W[y] + it[(s \ {x}) \ {y}]
    <2>1. s \ {x} \in SUBSET S /\ s \ {x} # s /\ s \ {x} \notin bad /\ y \in s \ {x}
      BY <1>3, <1>4, <1>5, <1>6
    <2> QED  BY <2>1
  <1>9. (s \ {y}) \ {x} = (s \ {x}) \ {y}
    OBVIOUS
  <1>10. W[x] \in Nat /\ W[y] \in Nat /\ it[(s \ {x}) \ {y}] \in Nat
    <2>1. (s \ {x}) \ {y} \in SUBSET S
      OBVIOUS
    <2> QED  BY <1>4, <1>5, <2>1 DEF Weighed
  <1>11. it[s \ {y}] = W[x] + it[(s \ {x}) \ {y}]
    BY <1>7, <1>9
  <1> QED  BY <1>4, <1>5, <1>8, <1>10, <1>11

-----------------------------------------------------------------------------
(* The sum of nothing.                                                     *)
LEMMA SumEmpty == \A W : SumOver(W, {}) = 0
  <1> TAKE W
  <1>1. IsFiniteSet({}) /\ Weighed(W, {})
    BY FS_EmptySet DEF Weighed
  <1>2. PICK it \in [SUBSET {} -> Nat] : SumsUp(it, {}, W)
    BY <1>1, SumsUpExists
  <1>3. SumOver(W, {}) = it[{}]
    BY <1>1, <1>2, SumOverIs
  <1> QED  BY <1>2, <1>3 DEF SumsUp

LEMMA SumNat ==
  ASSUME NEW S, IsFiniteSet(S), NEW W, Weighed(W, S)
  PROVE  SumOver(W, S) \in Nat
  <1>1. PICK it \in [SUBSET S -> Nat] : SumsUp(it, S, W)
    BY SumsUpExists
  <1>2. SumOver(W, S) = it[S]
    BY <1>1, SumOverIs
  <1> QED  BY <1>2

(* One element taken out, or put in.                                       *)
LEMMA SumRemove ==
  ASSUME NEW S, IsFiniteSet(S), NEW W, Weighed(W, S), NEW x \in S
  PROVE  SumOver(W, S) = W[x] + SumOver(W, S \ {x})
  <1>1. PICK it \in [SUBSET S -> Nat] : SumsUp(it, S, W)
    BY SumsUpExists
  <1>2. SumOver(W, S) = it[S]
    BY <1>1, SumOverIs
  <1> DEFINE T == S \ {x}
  <1>3. /\ T \in SUBSET S /\ IsFiniteSet(T) /\ Weighed(W, T)
    BY FS_Subset DEF Weighed
  <1>4. SumsUp(it, T, W)
    BY <1>1 DEF SumsUp
  <1>5. SumOver(W, T) = it[T]
    BY <1>3, <1>4, SumOverIs
  <1>6. it[S] = W[x] + it[T]
    BY <1>1, SumsUpRemove
  <1> QED  BY <1>2, <1>5, <1>6

LEMMA SumAdd ==
  ASSUME NEW S, IsFiniteSet(S), NEW x, x \notin S, NEW W, Weighed(W, S \cup {x})
  PROVE  SumOver(W, S \cup {x}) = SumOver(W, S) + W[x]
  <1> DEFINE T == S \cup {x}
  <1>1. IsFiniteSet(T) /\ x \in T
    BY FS_AddElement
  <1>2. SumOver(W, T) = W[x] + SumOver(W, T \ {x})
    BY <1>1, SumRemove
  <1>3. T \ {x} = S
    OBVIOUS
  <1>4. SumOver(W, S) \in Nat /\ W[x] \in Nat
    BY SumNat DEF Weighed
  <1>5. SumOver(W, T) = W[x] + SumOver(W, S)
    <2> HIDE DEF T
    <2> QED  BY <1>2, <1>3
  <1> QED  BY <1>4, <1>5

(* More elements do not make the sum smaller.                              *)
LEMMA SumSubset ==
  ASSUME NEW S, IsFiniteSet(S), NEW W, Weighed(W, S), NEW R \in SUBSET S
  PROVE  SumOver(W, R) <= SumOver(W, S)
  <1> DEFINE bad == {T \in SUBSET S : R \subseteq T /\ ~(SumOver(W, R) <= SumOver(W, T))}
  <1>1. SUFFICES ASSUME bad # {}  PROVE FALSE
    OBVIOUS
  <1>2. bad \in SUBSET SUBSET S
    OBVIOUS
  <1>3. PICK T \in bad : \A r \in SUBSET T : r # T => r \notin bad
    <2> HIDE DEF bad
    <2> QED  BY <1>1, <1>2, SmallestSubset
  <1>4. /\ IsFiniteSet(T) /\ Weighed(W, T) /\ IsFiniteSet(R) /\ Weighed(W, R)
    BY <1>3, FS_Subset DEF Weighed
  <1>5. SumOver(W, R) \in Nat /\ SumOver(W, T) \in Nat
    BY <1>4, SumNat
  <1>6. PICK x \in T : x \notin R
    <2>1. T # R
      BY <1>3, <1>5
    <2> QED  BY <1>3, <2>1
  <1>7. /\ T \ {x} \in SUBSET T /\ T \ {x} # T /\ R \subseteq T \ {x}
        /\ T \ {x} \in SUBSET S
    BY <1>3, <1>6
  <1>8. SumOver(W, R) <= SumOver(W, T \ {x})
    BY <1>3, <1>7
  <1>9. SumOver(W, T) = W[x] + SumOver(W, T \ {x})
    BY <1>4, SumRemove
  <1>10. W[x] \in Nat /\ SumOver(W, T \ {x}) \in Nat
    <2>1. IsFiniteSet(T \ {x}) /\ Weighed(W, T \ {x})
      BY <1>4, <1>7, FS_Subset DEF Weighed
    <2> QED  BY <1>4, <2>1, SumNat DEF Weighed
  <1>11. ~(SumOver(W, R) <= SumOver(W, T))
    BY <1>3
  <1> HIDE DEF bad
  <1> QED  BY <1>5, <1>8, <1>9, <1>10, <1>11

(* Two parts that have no element in common.                               *)
LEMMA SumParts ==
  ASSUME NEW S, IsFiniteSet(S), NEW T, IsFiniteSet(T), S \cap T = {},
         NEW W, Weighed(W, S \cup T)
  PROVE  SumOver(W, S \cup T) = SumOver(W, S) + SumOver(W, T)
  <1> DEFINE bad == {R \in SUBSET T : SumOver(W, S \cup R) # SumOver(W, S) + SumOver(W, R)}
  <1>1. SUFFICES ASSUME bad # {}  PROVE FALSE
    OBVIOUS
  <1>2. bad \in SUBSET SUBSET T
    OBVIOUS
  <1>3. PICK R \in bad : \A r \in SUBSET R : r # R => r \notin bad
    <2> HIDE DEF bad
    <2> QED  BY <1>1, <1>2, SmallestSubset
  <1>4. R \in SUBSET T /\ SumOver(W, S \cup R) # SumOver(W, S) + SumOver(W, R)
    BY <1>3
  <1>5. SumOver(W, S) \in Nat
    BY SumNat DEF Weighed
  <1>6. R # {}
    <2>1. SUFFICES ASSUME R = {}  PROVE FALSE
      OBVIOUS
    <2>2. S \cup R = S /\ SumOver(W, R) = 0
      BY <2>1, SumEmpty
    <2> QED  BY <1>4, <1>5, <2>2
  <1>7. PICK x \in R : TRUE
    BY <1>6
  <1> DEFINE Q == R \ {x}
  <1>8. Q \in SUBSET R /\ Q # R /\ Q \in SUBSET T /\ (S \cup R) \ {x} = S \cup Q
    BY <1>4
  <1>9. SumOver(W, S \cup Q) = SumOver(W, S) + SumOver(W, Q)
    BY <1>3, <1>8
  <1>10. /\ IsFiniteSet(R) /\ IsFiniteSet(Q) /\ IsFiniteSet(S \cup R)
         /\ Weighed(W, R) /\ Weighed(W, Q) /\ Weighed(W, S \cup R)
    <2>1. IsFiniteSet(R)
      BY <1>4, FS_Subset
    <2>2. IsFiniteSet(Q)
      BY <1>8, <2>1, FS_Subset
    <2>3. IsFiniteSet(S \cup R)
      BY <2>1, FS_Union
    <2> QED  BY <1>4, <1>8, <2>1, <2>2, <2>3 DEF Weighed
  <1>11. SumOver(W, R) = W[x] + SumOver(W, Q)
    BY <1>10, SumRemove
  <1>12. SumOver(W, S \cup R) = W[x] + SumOver(W, (S \cup R) \ {x})
    BY <1>10, SumRemove
  <1>13. W[x] \in Nat /\ SumOver(W, Q) \in Nat
    BY <1>10, SumNat DEF Weighed
  <1> HIDE DEF Q, bad
  <1> QED  BY <1>4, <1>5, <1>8, <1>9, <1>11, <1>12, <1>13

(* Elements matched one to one with others that weigh at least as much.    *)
LEMMA SumMatched ==
  ASSUME NEW S, IsFiniteSet(S), NEW V, Weighed(V, S),
         NEW R, IsFiniteSet(R), NEW W, Weighed(W, R), NEW f \in [R -> S],
         \A x, y \in R : f[x] = f[y] => x = y,
         \A x \in R : W[x] <= V[f[x]]
  PROVE  SumOver(W, R) <= SumOver(V, S)
  <1> DEFINE image(T) == {f[x] : x \in T}
             bad == {T \in SUBSET R : ~(SumOver(W, T) <= SumOver(V, image(T)))}
  <1>0. ASSUME NEW T \in SUBSET R
        PROVE  /\ image(T) \in SUBSET S /\ IsFiniteSet(image(T)) /\ Weighed(V, image(T))
               /\ IsFiniteSet(T) /\ Weighed(W, T)
    <2>1. image(T) \in SUBSET S
      OBVIOUS
    <2>2. IsFiniteSet(image(T)) /\ IsFiniteSet(T)
      BY <2>1, FS_Subset
    <2> QED  BY <2>1, <2>2 DEF Weighed
  <1>1. bad = {}
    <2>1. SUFFICES ASSUME bad # {}  PROVE FALSE
      OBVIOUS
    <2>2. bad \in SUBSET SUBSET R
      OBVIOUS
    <2>3. PICK T \in bad : \A r \in SUBSET T : r # T => r \notin bad
      <3> HIDE DEF bad
      <3> QED  BY <2>1, <2>2, SmallestSubset
    <2>4. T \in SUBSET R /\ ~(SumOver(W, T) <= SumOver(V, image(T)))
      BY <2>3
    <2>5. T # {}
      <3>1. SUFFICES ASSUME T = {}  PROVE FALSE
        OBVIOUS
      <3>2. image(T) = {}
        BY <3>1
      <3>3. SumOver(W, T) = 0 /\ SumOver(V, image(T)) = 0
        <4> HIDE DEF image
        <4> QED  BY <3>1, <3>2, SumEmpty
      <3> QED  BY <2>4, <3>3
    <2>6. PICK x \in T : TRUE
      BY <2>5
    <2> DEFINE U == T \ {x}
    <2>7. U \in SUBSET T /\ U # T /\ U \in SUBSET R
      BY <2>4
    <2>8. SumOver(W, U) <= SumOver(V, image(U))
      BY <2>3, <2>7
    <2>9. image(T) \ {f[x]} = image(U)
      BY <2>4
    <2>10. SumOver(W, T) = W[x] + SumOver(W, U)
      BY <1>0, <2>4, SumRemove
    <2>11. SumOver(V, image(T)) = V[f[x]] + SumOver(V, image(U))
      <3>1. f[x] \in image(T)
        OBVIOUS
      <3>2. SumOver(V, image(T)) = V[f[x]] + SumOver(V, image(T) \ {f[x]})
        <4>1. IsFiniteSet(image(T)) /\ Weighed(V, image(T))
          BY <1>0, <2>4
        <4> HIDE DEF image
        <4> QED  BY <3>1, <4>1, SumRemove
      <3> HIDE DEF image
      <3> QED  BY <2>9, <3>2
    <2>12. /\ W[x] \in Nat /\ V[f[x]] \in Nat /\ W[x] <= V[f[x]]
      <3>1. x \in R /\ f[x] \in S
        BY <2>4
      <3> QED  BY <3>1 DEF Weighed
    <2>13. SumOver(W, U) \in Nat /\ SumOver(V, image(U)) \in Nat
      <3> HIDE DEF image, U
      <3> QED  BY <1>0, <2>7, SumNat
    <2> HIDE DEF U, image, bad
    <2> QED  BY <2>4, <2>8, <2>10, <2>11, <2>12, <2>13
  <1>2. SumOver(W, R) <= SumOver(V, image(R))
    BY <1>1
  <1>3. SumOver(V, image(R)) <= SumOver(V, S)
    <2> HIDE DEF image
    <2> QED  BY <1>0, SumSubset
  <1>4. /\ SumOver(W, R) \in Nat /\ SumOver(V, image(R)) \in Nat /\ SumOver(V, S) \in Nat
    <2> HIDE DEF image
    <2> QED  BY <1>0, SumNat
  <1> HIDE DEF image, bad
  <1> QED  BY <1>2, <1>3, <1>4

-----------------------------------------------------------------------------
(* The same for the amounts of a set of rows.                              *)
AmountsIn(S) == MapThenSumSet(LAMBDA x : x.amount, S)

Priced(S) == IsFiniteSet(S) /\ \A x \in S : x.amount \in Nat

LEMMA AmountsInIs ==
  ASSUME NEW T, Priced(T), NEW S \in SUBSET T
  PROVE  /\ AmountsIn(S) = SumOver([x \in T |-> x.amount], S)
         /\ IsFiniteSet(S) /\ Weighed([x \in T |-> x.amount], S)
  <1> DEFINE W == [x \in T |-> x.amount]
             step(f) == [s \in SUBSET S |->
                           IF s = {} THEN 0 ELSE Pick(s).amount + f[s \ {Pick(s)}]]
             sum == CHOOSE f : f = step(f)
  <1>1. AmountsIn(S) = sum[S]
    BY DEF AmountsIn, MapThenSumSet, MapThenFoldSet, Pick
  <1>2. IsFiniteSet(S) /\ Weighed(W, S)
    BY FS_Subset DEF Weighed, Priced
  <1>3. PICK it \in [SUBSET S -> Nat] : SumsUp(it, S, W)
    <2> HIDE DEF W
    <2> QED  BY <1>2, SumsUpExists
  <1>4. ASSUME NEW s \in SUBSET S, s # {}  PROVE W[Pick(s)] = Pick(s).amount
    BY <1>4, Picked
  <1>5. it = step(it)
    <2>1. ASSUME NEW s \in SUBSET S
          PROVE  it[s] = IF s = {} THEN 0 ELSE Pick(s).amount + it[s \ {Pick(s)}]
      <3>1. CASE s = {}
        BY <1>3, <3>1 DEF SumsUp
      <3>2. CASE s # {}
        <4> HIDE DEF W
        <4> QED  BY <1>3, <1>4, <3>2 DEF SumsUp
      <3> QED  BY <3>1, <3>2
    <2>2. it = [s \in SUBSET S |-> it[s]]
      BY <1>3
    <2> QED  BY <2>1, <2>2
  <1>6. sum = step(sum)
    <2> HIDE DEF step
    <2> QED  BY <1>5
  <1> HIDE DEF sum
  <1>7. SumsUp(sum, S, W)
    <2>1. sum[{}] = 0
      BY <1>6
    <2>2. ASSUME NEW s \in SUBSET S, s # {}  PROVE sum[s] = W[Pick(s)] + sum[s \ {Pick(s)}]
      <3>1. sum[s] = Pick(s).amount + sum[s \ {Pick(s)}]
        BY <1>6, <2>2
      <3> HIDE DEF W
      <3> QED  BY <1>4, <2>2, <3>1
    <2> HIDE DEF W
    <2> QED  BY <2>1, <2>2 DEF SumsUp
  <1>8. SumOver(W, S) = sum[S]
    <2> HIDE DEF W
    <2> QED  BY <1>2, <1>7, SumOverIs
  <1> QED  BY <1>1, <1>2, <1>8

LEMMA AmountsEmpty == AmountsIn({}) = 0
  <1>1. Priced({})
    BY FS_EmptySet DEF Priced
  <1> DEFINE W == [x \in {} |-> x.amount]
  <1>2. AmountsIn({}) = SumOver(W, {})
    BY <1>1, AmountsInIs
  <1>3. SumOver(W, {}) = 0
    <2> HIDE DEF W
    <2> QED  BY SumEmpty
  <1> QED  BY <1>2, <1>3

LEMMA AmountsNat ==
  ASSUME NEW S, Priced(S)
  PROVE  AmountsIn(S) \in Nat
  <1> DEFINE W == [x \in S |-> x.amount]
  <1>1. AmountsIn(S) = SumOver(W, S) /\ IsFiniteSet(S) /\ Weighed(W, S)
    BY AmountsInIs
  <1> HIDE DEF W
  <1> QED  BY <1>1, SumNat

LEMMA AmountsAdd ==
  ASSUME NEW S, Priced(S), NEW x, x \notin S, x.amount \in Nat
  PROVE  Priced(S \cup {x}) /\ AmountsIn(S \cup {x}) = AmountsIn(S) + x.amount
  <1> DEFINE T == S \cup {x}
             W == [y \in T |-> y.amount]
  <1>1. Priced(T)
    BY FS_AddElement DEF Priced
  <1>2. AmountsIn(S) = SumOver(W, S) /\ IsFiniteSet(S)
    BY <1>1, AmountsInIs
  <1>3. AmountsIn(T) = SumOver(W, T) /\ Weighed(W, T)
    <2>1. T \in SUBSET T
      OBVIOUS
    <2> HIDE DEF T
    <2> QED  BY <1>1, <2>1, AmountsInIs
  <1>4. W[x] = x.amount
    OBVIOUS
  <1>5. SumOver(W, T) = SumOver(W, S) + W[x]
    <2> HIDE DEF W
    <2> QED  BY <1>2, <1>3, SumAdd
  <1> HIDE DEF W
  <1> QED  BY <1>1, <1>2, <1>3, <1>4, <1>5

LEMMA AmountsSubset ==
  ASSUME NEW S, Priced(S), NEW R \in SUBSET S
  PROVE  Priced(R) /\ AmountsIn(R) <= AmountsIn(S)
  <1> DEFINE W == [x \in S |-> x.amount]
  <1>1. AmountsIn(R) = SumOver(W, R) /\ IsFiniteSet(R)
    BY AmountsInIs
  <1>2. AmountsIn(S) = SumOver(W, S) /\ IsFiniteSet(S) /\ Weighed(W, S)
    BY AmountsInIs
  <1>3. SumOver(W, R) <= SumOver(W, S)
    <2> HIDE DEF W
    <2> QED  BY <1>2, SumSubset
  <1> QED  BY <1>1, <1>2, <1>3 DEF Priced
=============================================================================
