---------------------------- MODULE FiniteLemmas ----------------------------
(***************************************************************************)
(* Facts about finite sets, lists, sums and recursion that the proofs of   *)
(* several modules rest on.  A rule of induction is stated for sets, the   *)
(* set of the values that have the property in question.                   *)
(***************************************************************************)
EXTENDS Naturals, Sequences, FiniteSets, Functions, FiniteSetsExt, SequencesExt, Sorting,
        FiniteSetTheorems, SequenceTheorems, TLAPS

(* Induction.                                                              *)

(* A family of finite sets has one that includes no other. *)
LEMMA SmallestSet ==
  ASSUME NEW U, IsFiniteSet(U)
  PROVE  \A F : F # {} /\ F \subseteq SUBSET U
                 => \E X \in F : \A Y \in F : Y \subseteq X => Y = X
<1> SUFFICES ASSUME NEW F, F # {}, F \subseteq SUBSET U
             PROVE  \E X \in F : \A Y \in F : Y \subseteq X => Y = X
  OBVIOUS
<1>1. IsWellFoundedOn(StrictSubsetOrdering(U), SUBSET U)
  BY FS_StrictSubsetOrderingWellFounded, FS_FiniteSubsetsOfFinite, Zenon
<1>2. PICK X \in F : \A Y \in F : <<Y, X>> \notin StrictSubsetOrdering(U)
  BY <1>1, WFMin, Zenon
<1>3. \A Y \in F : Y \subseteq X => Y = X
  BY <1>2 DEF StrictSubsetOrdering
<1>. QED
  BY <1>3

(* A set of numbers has a smallest one: the numbers up to it are a finite  *)
(* set with no proper subset of the kind.                                  *)
LEMMA SmallestNumber ==
  ASSUME NEW S, S \subseteq Nat, S # {}
  PROVE  \E m \in S : \A u \in S : m <= u
<1> PICK n \in S : TRUE
  OBVIOUS
<1> DEFINE Whole == 0 .. n
           Below == {0 .. m : m \in {u \in S : u <= n}}
<1>1. IsFiniteSet(Whole) /\ n \in Nat
  BY FS_Interval
<1>2. Below \subseteq SUBSET Whole /\ 0 .. n \in Below
  BY <1>1
<1> HIDE DEF Whole, Below
<1>3. PICK X \in Below : \A Y \in Below : Y \subseteq X => Y = X
  BY <1>1, <1>2, SmallestSet
<1>4. PICK m \in S : m <= n /\ X = 0 .. m
  BY <1>3 DEF Below
<1>5. ASSUME NEW u \in S, u < m
      PROVE  FALSE
  <2>1. 0 .. u \in Below /\ u \in Nat /\ m \in Nat
    BY <1>1, <1>4, <1>5 DEF Below
  <2>2. 0 .. u \subseteq X /\ m \in X /\ m \notin 0 .. u
    BY <1>4, <1>5, <2>1
  <2>. QED
    BY <1>3, <2>1, <2>2
<1>. QED
  BY <1>4, <1>5

(* A set with 0 that has n + 1 whenever it has n has every number. *)
LEMMA NumberInduction ==
  ASSUME NEW F, 0 \in F, \A n \in Nat : n \in F => n + 1 \in F
  PROVE  \A n \in Nat : n \in F
<1> DEFINE Missing == Nat \ F
<1>1. SUFFICES ASSUME Missing # {} PROVE FALSE
  OBVIOUS
<1>2. PICK m \in Missing : \A u \in Missing : m <= u
  BY <1>1, SmallestNumber
<1>3. m # 0 /\ m - 1 \in Nat /\ m - 1 \notin Missing
  BY <1>2
<1>. QED
  BY <1>2, <1>3
-----------------------------------------------------------------------------
(* Recursion over the subsets of a finite set: fold an operation over the  *)
(* elements, taken out in the order of a choice function.                  *)

FoldsTo(S, V, b, c, G, h) ==
  /\ h \in [SUBSET S -> V]
  /\ \A X \in SUBSET S : h[X] = IF X = {} THEN b ELSE G[X][h[X \ {c[X]}]]

(* Two folds agree where both are defined. *)
LEMMA FoldsAgree ==
  ASSUME NEW S, IsFiniteSet(S), NEW T \in SUBSET S, NEW V, NEW b, NEW c, NEW G,
         \A X \in SUBSET S : X # {} => c[X] \in X,
         NEW g, NEW h, FoldsTo(S, V, b, c, G, g), FoldsTo(T, V, b, c, G, h)
  PROVE  \A X \in SUBSET T : g[X] = h[X]
<1>1. PICK Bad : Bad = {X \in SUBSET T : g[X] # h[X]}
  OBVIOUS
<1>2. SUFFICES ASSUME Bad # {} PROVE FALSE
  BY <1>1
<1>3. IsFiniteSet(T) /\ Bad \subseteq SUBSET T
  BY <1>1, FS_Subset
<1>4. PICK X \in Bad : \A Y \in Bad : Y \subseteq X => Y = X
  BY <1>2, <1>3, SmallestSet
<1>5. X \in SUBSET T /\ X \in SUBSET S /\ g[X] # h[X]
  BY <1>1
<1>6. X # {}
  BY <1>5 DEF FoldsTo
<1>7. PICK Y : Y = X \ {c[X]}
  OBVIOUS
<1>8. Y \in SUBSET T /\ Y \subseteq X /\ Y # X
  BY <1>5, <1>6, <1>7
<1>9. g[Y] = h[Y]
  BY <1>1, <1>4, <1>8
<1>10. g[X] = G[X][g[Y]] /\ h[X] = G[X][h[Y]]
  BY <1>5, <1>6, <1>7, Zenon DEF FoldsTo
<1>. QED
  BY <1>5, <1>9, <1>10

LEMMA FoldExists ==
  ASSUME NEW S, IsFiniteSet(S), NEW V, NEW b \in V, NEW c,
         \A X \in SUBSET S : X # {} => c[X] \in X,
         NEW G, \A X \in SUBSET S, v \in V : X # {} => G[X][v] \in V
  PROVE  \E h : FoldsTo(S, V, b, c, G, h)
<1>1. PICK Bad : Bad = {T \in SUBSET S : ~ \E h : FoldsTo(T, V, b, c, G, h)}
  OBVIOUS
<1>2. SUFFICES ASSUME Bad # {} PROVE FALSE
  BY <1>1
<1>3. PICK T \in Bad : \A Y \in Bad : Y \subseteq T => Y = T
  <2>1. Bad \subseteq SUBSET S
    BY <1>1
  <2>. QED
    BY <1>2, <2>1, SmallestSet
<1>4. PICK f : f = [U \in SUBSET T |-> CHOOSE h : FoldsTo(U, V, b, c, G, h)]
  OBVIOUS
<1>5. ASSUME NEW U \in SUBSET T, U # T
      PROVE  FoldsTo(U, V, b, c, G, f[U])
  <2>1. U \in SUBSET S /\ U \notin Bad
    BY <1>1, <1>3, <1>5
  <2>2. \E h : FoldsTo(U, V, b, c, G, h)
    BY <1>1, <2>1
  <2>. QED
    BY <1>4, <2>2, Zenon
<1>6. PICK w : w = [X \in SUBSET T |-> f[X \ {c[X]}][X \ {c[X]}]]
  OBVIOUS
<1>7. PICK h : h = [X \in SUBSET T |-> IF X = {} THEN b ELSE G[X][w[X]]]
  OBVIOUS
<1>8. ASSUME NEW X \in SUBSET T, X # {}, NEW Y, Y = X \ {c[X]}
      PROVE  Y \in SUBSET T /\ w[X] \in V /\ w[X] = h[Y]
  <2>1. c[X] \in X /\ Y \in SUBSET T /\ Y # T /\ Y \in SUBSET Y /\ Y \in SUBSET S
    BY <1>1, <1>8
  <2>2. w[X] = f[Y][Y] /\ FoldsTo(Y, V, b, c, G, f[Y])
    BY <1>5, <1>6, <1>8, <2>1
  <2>3. w[X] \in V
    BY <2>1, <2>2 DEF FoldsTo
  <2>4. CASE Y = {}
    BY <1>7, <2>1, <2>2, <2>4 DEF FoldsTo
  <2>5. CASE Y # {}
    <3>1. PICK Z : Z = Y \ {c[Y]}
      OBVIOUS
    <3>2. c[Y] \in Y /\ Z \in SUBSET Y /\ Z \in SUBSET T /\ Z # T /\ Z \in SUBSET Z
      BY <2>1, <2>5, <3>1
    <3>3. FoldsTo(Z, V, b, c, G, f[Z])
      BY <1>5, <3>2
    <3>4. f[Y][Y] = G[Y][f[Y][Z]]
      BY <2>1, <2>2, <2>5, <3>1, Zenon DEF FoldsTo
    <3>5. IsFiniteSet(Y) /\ \A W \in SUBSET Y : W # {} => c[W] \in W
      BY <2>1, FS_Subset
    <3>6. f[Y][Z] = f[Z][Z]
      BY <2>2, <3>2, <3>3, <3>5, FoldsAgree
    <3>7. w[Y] = f[Z][Z] /\ h[Y] = G[Y][w[Y]]
      BY <1>6, <1>7, <2>1, <2>5, <3>1
    <3>. QED
      BY <2>1, <2>2, <2>3, <3>4, <3>6, <3>7
  <2>. QED
    BY <2>1, <2>3, <2>4, <2>5
<1>9. ASSUME NEW X \in SUBSET T
      PROVE  h[X] \in V /\ h[X] = IF X = {} THEN b ELSE G[X][h[X \ {c[X]}]]
  <2>1. CASE X = {}
    BY <1>7, <2>1
  <2>2. CASE X # {}
    <3>1. PICK Y : Y = X \ {c[X]}
      OBVIOUS
    <3>2. w[X] \in V /\ w[X] = h[Y]
      BY <1>8, <2>2, <3>1
    <3>3. h[X] = G[X][w[X]] /\ X \in SUBSET S
      BY <1>1, <1>7, <2>2
    <3>. QED
      BY <2>2, <3>1, <3>2, <3>3
  <2>. QED
    BY <2>1, <2>2
<1>10. h \in [SUBSET T -> V]
  BY <1>7, <1>9
<1>11. FoldsTo(T, V, b, c, G, h)
  BY <1>9, <1>10, Zenon DEF FoldsTo
<1>. QED
  BY <1>1, <1>3, <1>11
-----------------------------------------------------------------------------
(* Sums of natural numbers.                                                *)

Picks(D) == [X \in SUBSET D |-> CHOOSE x \in X : TRUE]
Adds(D, f) == [X \in SUBSET D |-> [v \in Nat |-> f[Picks(D)[X]] + v]]

LEMMA PicksOne ==
  ASSUME NEW D
  PROVE  \A X \in SUBSET D : X # {} => Picks(D)[X] \in X
<1> SUFFICES ASSUME NEW X \in SUBSET D, X # {}
             PROVE  (CHOOSE x \in X : TRUE) \in X
  BY DEF Picks
<1>. QED
  BY Zenon

LEMMA SumIsFold ==
  ASSUME NEW D, IsFiniteSet(D), NEW f, \A x \in D : f[x] \in Nat, NEW S \in SUBSET D
  PROVE  \E h : FoldsTo(S, Nat, 0, Picks(D), Adds(D, f), h) /\ SumFunctionOnSet(f, S) = h[S]
<1>1. PICK c : c = Picks(D)
  OBVIOUS
<1>2. PICK G : G = Adds(D, f)
  OBVIOUS
<1>3. \A X \in SUBSET D : (X # {} => c[X] \in X) /\ c[X] = CHOOSE x \in X : TRUE
  BY <1>1, PicksOne DEF Picks
<1>4. \A X \in SUBSET D, v \in Nat : G[X][v] = f[c[X]] + v
  BY <1>1, <1>2 DEF Adds
<1>5. \A X \in SUBSET S, v \in Nat : X # {} => G[X][v] \in Nat
  BY <1>3, <1>4
<1>6. IsFiniteSet(S) /\ \A X \in SUBSET S : X # {} => c[X] \in X
  BY <1>3, FS_Subset
<1>7. PICK h : FoldsTo(S, Nat, 0, c, G, h)
  BY <1>5, <1>6, FoldExists
<1>8. \A X \in SUBSET S : X # {} => h[X] = f[CHOOSE x \in X : TRUE]
                                            + h[X \ {CHOOSE x \in X : TRUE}]
  <2> SUFFICES ASSUME NEW X \in SUBSET S, X # {}
               PROVE  h[X] = f[c[X]] + h[X \ {c[X]}]
    BY <1>3
  <2>1. PICK Y : Y = X \ {c[X]}
    OBVIOUS
  <2>2. Y \in SUBSET S /\ h[Y] \in Nat
    BY <2>1, <1>7 DEF FoldsTo
  <2>3. h[X] = G[X][h[Y]]
    BY <1>7, <2>1, Zenon DEF FoldsTo
  <2>. QED
    BY <1>4, <2>1, <2>2, <2>3
<1>9. h = [X \in SUBSET S |-> IF X = {} THEN 0
                              ELSE f[CHOOSE x \in X : TRUE]
                                   + h[X \ {CHOOSE x \in X : TRUE}]]
  BY <1>7, <1>8 DEF FoldsTo
<1>10. \A g : g = [X \in SUBSET S |-> IF X = {} THEN 0
                                      ELSE f[CHOOSE x \in X : TRUE]
                                           + g[X \ {CHOOSE x \in X : TRUE}]]
                => g = h
  <2> SUFFICES ASSUME NEW g, 
                 g = [X \in SUBSET S |-> IF X = {} THEN 0
                                      ELSE f[CHOOSE x \in X : TRUE]
                                           + g[X \ {CHOOSE x \in X : TRUE}]]
               PROVE  g = h
    OBVIOUS
  <2>1. \A X \in SUBSET S : g[X] = IF X = {} THEN 0 ELSE f[c[X]] + g[X \ {c[X]}]
    BY <1>3
  <2>2. \A X \in SUBSET S : h[X] = IF X = {} THEN 0 ELSE f[c[X]] + h[X \ {c[X]}]
    BY <1>3, <1>9
  <2>3. PICK Bad : Bad = {X \in SUBSET S : g[X] # h[X]}
    OBVIOUS
  <2>4. ASSUME Bad # {} PROVE FALSE
    <3>1. PICK X \in Bad : \A Y \in Bad : Y \subseteq X => Y = X
      <4>1. Bad \subseteq SUBSET S
        BY <2>3
      <4>. QED
        BY <1>6, <2>4, <4>1, SmallestSet
    <3>2. PICK Y : Y = X \ {c[X]}
      OBVIOUS
    <3>3. X \in SUBSET S /\ g[X] # h[X] /\ X # {}
      BY <2>1, <2>2, <2>3, <3>1
    <3>4. Y \in SUBSET S /\ Y \subseteq X /\ Y # X
      BY <1>6, <3>2, <3>3
    <3>5. g[Y] = h[Y]
      BY <2>3, <3>1, <3>4
    <3>. QED
      BY <2>1, <2>2, <3>2, <3>3, <3>5
  <2>5. \A X \in SUBSET S : g[X] = h[X]
    BY <2>3, <2>4
  <2>. QED
    BY <1>9, <2>5
<1>11. SumFunctionOnSet(f, S)
         = (CHOOSE g : g = [X \in SUBSET S |-> IF X = {} THEN 0
                                      ELSE f[CHOOSE x \in X : TRUE]
                                           + g[X \ {CHOOSE x \in X : TRUE}]])[S]
  BY DEF SumFunctionOnSet, FoldFunctionOnSet, MapThenFoldSet
<1>. QED
  BY <1>1, <1>2, <1>7, <1>9, <1>10, <1>11

(* A sum over nothing is 0, any other takes up one summand first.          *)
LEMMA SumPick ==
  ASSUME NEW S, IsFiniteSet(S), NEW f, \A x \in S : f[x] \in Nat
  PROVE  /\ SumFunctionOnSet(f, S) \in Nat
         /\ S = {} => SumFunctionOnSet(f, S) = 0
         /\ S # {} => \E x \in S : SumFunctionOnSet(f, S) = f[x] + SumFunctionOnSet(f, S \ {x})
<1>1. PICK h : FoldsTo(S, Nat, 0, Picks(S), Adds(S, f), h) /\ SumFunctionOnSet(f, S) = h[S]
  BY SumIsFold
<1>2. S \in SUBSET S /\ SumFunctionOnSet(f, S) \in Nat
  BY <1>1 DEF FoldsTo
<1>3. S = {} => SumFunctionOnSet(f, S) = 0
  BY <1>1, <1>2 DEF FoldsTo
<1>4. ASSUME S # {}
      PROVE  \E x \in S : SumFunctionOnSet(f, S) = f[x] + SumFunctionOnSet(f, S \ {x})
  <2>1. PICK x : x = Picks(S)[S]
    OBVIOUS
  <2>2. x \in S
    BY <1>2, <1>4, <2>1, PicksOne
  <2>3. PICK T : T = S \ {x}
    OBVIOUS
  <2>4. T \in SUBSET S /\ T \in SUBSET T
    BY <2>3
  <2>5. PICK g : FoldsTo(T, Nat, 0, Picks(S), Adds(S, f), g) /\ SumFunctionOnSet(f, T) = g[T]
    BY <2>4, SumIsFold
  <2>6. h[T] = g[T]
    BY <1>1, <2>4, <2>5, PicksOne, FoldsAgree
  <2>7. h[S] = Adds(S, f)[S][h[T]] /\ h[T] \in Nat
    BY <1>1, <1>2, <1>4, <2>1, <2>3, <2>4 DEF FoldsTo
  <2>8. Adds(S, f)[S][h[T]] = f[x] + h[T]
    BY <1>2, <2>1, <2>7 DEF Adds
  <2>. QED
    BY <1>1, <2>2, <2>3, <2>5, <2>6, <2>7, <2>8
<1>. QED
  BY <1>2, <1>3, <1>4

(* Any summand may be taken out.                                           *)
LEMMA SumRemove ==
  ASSUME NEW S, IsFiniteSet(S), NEW f, \A x \in S : f[x] \in Nat, NEW y \in S
  PROVE  SumFunctionOnSet(f, S) = f[y] + SumFunctionOnSet(f, S \ {y})
<1>1. PICK Bad : Bad = {X \in SUBSET S : \E x \in X :
                          SumFunctionOnSet(f, X) # f[x] + SumFunctionOnSet(f, X \ {x})}
  OBVIOUS
<1>2. SUFFICES ASSUME Bad # {} PROVE FALSE
  <2>1. S \in SUBSET S
    OBVIOUS
  <2>. QED
    BY <1>1, <2>1
<1>3. PICK X \in Bad : \A Y \in Bad : Y \subseteq X => Y = X
  <2>1. Bad \subseteq SUBSET S
    BY <1>1
  <2>. QED
    BY <1>2, <2>1, SmallestSet
<1>4. X \in SUBSET S
  BY <1>1
<1>5. PICK x \in X : SumFunctionOnSet(f, X) # f[x] + SumFunctionOnSet(f, X \ {x})
  BY <1>1
<1>6. \A Y \in SUBSET S : IsFiniteSet(Y) /\ \A u \in Y : f[u] \in Nat
  BY FS_Subset
<1>7. PICK z \in X : SumFunctionOnSet(f, X) = f[z] + SumFunctionOnSet(f, X \ {z})
  BY <1>4, <1>5, <1>6, SumPick
<1>8. PICK A, B, C : A = X \ {x} /\ B = X \ {z} /\ C = X \ {x, z}
  OBVIOUS
<1>9. x # z /\ z \in A /\ x \in B /\ A \ {z} = C /\ B \ {x} = C
  BY <1>5, <1>7, <1>8
<1>10. A \in SUBSET S /\ B \in SUBSET S /\ C \in SUBSET S
  BY <1>4, <1>8
<1>11. A \notin Bad /\ B \notin Bad
  <2>1. A # X /\ B # X /\ A \subseteq X /\ B \subseteq X
    BY <1>8, <1>9
  <2>. QED
    BY <1>3, <2>1
<1>12. SumFunctionOnSet(f, A) = f[z] + SumFunctionOnSet(f, C)
  BY <1>1, <1>9, <1>10, <1>11
<1>13. SumFunctionOnSet(f, B) = f[x] + SumFunctionOnSet(f, C)
  BY <1>1, <1>9, <1>10, <1>11
<1>14. SumFunctionOnSet(f, C) \in Nat /\ f[x] \in Nat /\ f[z] \in Nat
  BY <1>4, <1>6, <1>10, SumPick
<1>. QED
  BY <1>5, <1>7, <1>8, <1>12, <1>13, <1>14

(* Or put in. *)
LEMMA SumAdd ==
  ASSUME NEW S, IsFiniteSet(S), NEW f, \A x \in S : f[x] \in Nat,
         NEW y, y \notin S, f[y] \in Nat
  PROVE  SumFunctionOnSet(f, S \cup {y}) = f[y] + SumFunctionOnSet(f, S)
<1>1. PICK T : T = S \cup {y}
  OBVIOUS
<1>2. IsFiniteSet(T) /\ y \in T /\ T \ {y} = S /\ \A x \in T : f[x] \in Nat
  BY <1>1, FS_AddElement
<1>. QED
  BY <1>1, <1>2, SumRemove

(* Summands may be renamed: m takes the indices S of f to the indices T of *)
(* g, one to one.                                                          *)
Renames(m, S, f, T, g) ==
  /\ IsFiniteSet(S)
  /\ \A x \in S : f[x] \in Nat
  /\ \A x, y \in S : m[x] = m[y] => x = y
  /\ \A x \in S : m[x] \in T /\ g[m[x]] = f[x]
  /\ \A y \in T : \E x \in S : y = m[x]

LEMMA SumRenamed ==
  ASSUME NEW m, NEW S, NEW f, NEW T, NEW g, Renames(m, S, f, T, g)
  PROVE  SumFunctionOnSet(g, T) = SumFunctionOnSet(f, S)
<1>1. PICK Bad : Bad = {X \in SUBSET S :
                          SumFunctionOnSet(g, {m[x] : x \in X}) # SumFunctionOnSet(f, X)}
  OBVIOUS
<1>2. SUFFICES ASSUME Bad # {} PROVE FALSE
  <2>1. S \in SUBSET S /\ T = {m[x] : x \in S}
    BY DEF Renames
  <2>. QED
    BY <1>1, <2>1
<1>3. PICK X \in Bad : \A Y \in Bad : Y \subseteq X => Y = X
  <2>1. Bad \subseteq SUBSET S
    BY <1>1
  <2>. QED
    BY <1>2, <2>1, SmallestSet DEF Renames
<1>4. X \in SUBSET S
  BY <1>1
<1>5. PICK M : M = [Y \in SUBSET S |-> {m[x] : x \in Y}]
  OBVIOUS
<1>6. \A Y \in SUBSET S : /\ IsFiniteSet(Y) /\ \A u \in Y : f[u] \in Nat
                          /\ M[Y] = {m[x] : x \in Y}
                          /\ IsFiniteSet(M[Y]) /\ \A u \in M[Y] : g[u] \in Nat
  <2> SUFFICES ASSUME NEW Y \in SUBSET S
               PROVE  /\ IsFiniteSet(Y)
                      /\ M[Y] = {m[x] : x \in Y}
                      /\ IsFiniteSet(M[Y]) /\ \A u \in M[Y] : g[u] \in Nat
    BY DEF Renames
  <2>1. IsFiniteSet(Y) /\ M[Y] = {m[x] : x \in Y}
    BY <1>5, FS_Subset DEF Renames
  <2>2. \A u \in M[Y] : g[u] \in Nat
    BY <2>1 DEF Renames
  <2>3. IsFiniteSet(M[Y])
    <3>1. PICK k : k = [x \in Y |-> m[x]]
      OBVIOUS
    <3>2. k \in Surjection(Y, M[Y])
      BY <2>1, <3>1 DEF Surjection
    <3>. QED
      BY <2>1, <3>2, FS_Surjection
  <2>. QED
    BY <2>1, <2>2, <2>3
<1>7. CASE X = {}
  <2>1. M[X] = {}
    BY <1>4, <1>6, <1>7
  <2>. QED
    BY <1>1, <1>4, <1>6, <1>7, <2>1, SumPick
<1>8. CASE X # {}
  <2>1. PICK z \in X : TRUE
    BY <1>8
  <2>2. PICK Y : Y = X \ {z}
    OBVIOUS
  <2>3. Y \in SUBSET S /\ Y \subseteq X /\ Y # X /\ z \in S
    BY <1>4, <2>1, <2>2
  <2>4. SumFunctionOnSet(g, M[Y]) = SumFunctionOnSet(f, Y)
    BY <1>1, <1>3, <1>6, <2>3
  <2>5. SumFunctionOnSet(f, X) = f[z] + SumFunctionOnSet(f, Y)
    <3>1. IsFiniteSet(X) /\ \A u \in X : f[u] \in Nat
      BY <1>4, <1>6
    <3>. QED
      BY <2>1, <2>2, <3>1, SumRemove
  <2>6. m[z] \in M[X] /\ M[X] \ {m[z]} = M[Y]
    BY <1>4, <1>6, <2>1, <2>2, <2>3 DEF Renames
  <2>7. SumFunctionOnSet(g, M[X]) = g[m[z]] + SumFunctionOnSet(g, M[Y])
    <3>1. IsFiniteSet(M[X]) /\ \A u \in M[X] : g[u] \in Nat
      BY <1>4, <1>6
    <3>. QED
      BY <2>6, <3>1, SumRemove
  <2>8. g[m[z]] = f[z] /\ M[X] = {m[x] : x \in X}
    BY <1>4, <1>6, <2>3 DEF Renames
  <2>. QED
    BY <1>1, <2>4, <2>5, <2>7, <2>8
<1>. QED
  BY <1>7, <1>8

(* Equal summands have equal sums. *)
LEMMA SumSame ==
  ASSUME NEW S, IsFiniteSet(S), NEW f, \A x \in S : f[x] \in Nat,
         NEW g, \A x \in S : g[x] = f[x]
  PROVE  SumFunctionOnSet(g, S) = SumFunctionOnSet(f, S)
<1>1. PICK m : m = [x \in S |-> x]
  OBVIOUS
<1>2. Renames(m, S, f, S, g)
  BY <1>1 DEF Renames
<1>. QED
  BY <1>2, SumRenamed

(* The sums over two separate sets add up to the sum over both.            *)
LEMMA SumUnion ==
  ASSUME NEW S, IsFiniteSet(S), NEW T, IsFiniteSet(T), S \cap T = {},
         NEW f, \A x \in S \cup T : f[x] \in Nat
  PROVE  SumFunctionOnSet(f, S \cup T) = SumFunctionOnSet(f, S) + SumFunctionOnSet(f, T)
<1>1. PICK Bad : Bad = {X \in SUBSET T :
                          SumFunctionOnSet(f, S \cup X)
                            # SumFunctionOnSet(f, S) + SumFunctionOnSet(f, X)}
  OBVIOUS
<1>2. SUFFICES ASSUME Bad # {} PROVE FALSE
  <2>1. T \in SUBSET T
    OBVIOUS
  <2>. QED
    BY <1>1, <2>1
<1>3. PICK X \in Bad : \A Y \in Bad : Y \subseteq X => Y = X
  <2>1. Bad \subseteq SUBSET T
    BY <1>1
  <2>. QED
    BY <1>2, <2>1, SmallestSet
<1>4. X \in SUBSET T
  BY <1>1
<1>5. \A Y \in SUBSET T : /\ IsFiniteSet(Y) /\ IsFiniteSet(S \cup Y)
                          /\ \A u \in S \cup Y : f[u] \in Nat
  BY FS_Subset, FS_Union
<1>6. SumFunctionOnSet(f, S) \in Nat
  BY SumPick
<1>7. CASE X = {}
  <2>1. S \cup X = S /\ SumFunctionOnSet(f, X) = 0
    BY <1>4, <1>5, <1>7, SumPick
  <2>2. SumFunctionOnSet(f, S \cup X) # SumFunctionOnSet(f, S) + SumFunctionOnSet(f, X)
    BY <1>1
  <2>3. SumFunctionOnSet(f, S \cup X) = SumFunctionOnSet(f, S)
    BY <2>1
  <2>. QED
    BY <1>6, <2>1, <2>2, <2>3
<1>8. CASE X # {}
  <2>1. PICK z \in X : TRUE
    BY <1>8
  <2>2. PICK Y, A, B : Y = X \ {z} /\ A = S \cup X /\ B = S \cup Y
    OBVIOUS
  <2>3. Y \in SUBSET T /\ Y \subseteq X /\ Y # X /\ z \in A /\ A \ {z} = B
    BY <1>4, <2>1, <2>2
  <2>4. SumFunctionOnSet(f, B) = SumFunctionOnSet(f, S) + SumFunctionOnSet(f, Y)
    BY <1>1, <1>3, <2>2, <2>3
  <2>5. SumFunctionOnSet(f, X) = f[z] + SumFunctionOnSet(f, Y)
    BY <1>4, <1>5, <2>1, <2>2, SumRemove
  <2>6. SumFunctionOnSet(f, A) = f[z] + SumFunctionOnSet(f, B)
    <3>1. IsFiniteSet(A) /\ \A u \in A : f[u] \in Nat
      BY <1>4, <1>5, <2>2
    <3>. QED
      BY <2>3, <3>1, SumRemove
  <2>7. SumFunctionOnSet(f, Y) \in Nat /\ f[z] \in Nat
    BY <1>4, <1>5, <2>1, <2>3, SumPick
  <2>. QED
    BY <1>1, <1>6, <2>2, <2>4, <2>5, <2>6, <2>7
<1>. QED
  BY <1>7, <1>8
-----------------------------------------------------------------------------
(* Sorting.                                                                *)

(* R orders S: of two elements one comes first. *)
Orders(R, S) ==
  /\ \A x \in S : <<x, x>> \notin R
  /\ \A x, y \in S : x # y => <<x, y>> \in R \/ <<y, x>> \in R
  /\ \A x, y, z \in S : <<x, y>> \in R /\ <<y, z>> \in R => <<x, z>> \in R

(* An element has fewer elements ahead of it than any that comes later. *)
LEMMA FewerAhead ==
  ASSUME NEW S, IsFiniteSet(S), NEW R, Orders(R, S), NEW x \in S, NEW y \in S, <<x, y>> \in R
  PROVE  Cardinality(Ahead(x, S, R)) < Cardinality(Ahead(y, S, R))
<1>1. PICK X, Y : X = Ahead(x, S, R) /\ Y = Ahead(y, S, R)
  OBVIOUS
<1>2. X \subseteq Y /\ Y \subseteq S /\ x \in Y /\ x \notin X
  BY <1>1 DEF Ahead, Orders
<1>3. IsFiniteSet(X) /\ IsFiniteSet(Y)
  BY <1>2, FS_Subset
<1>4. Cardinality(X) <= Cardinality(Y) /\ Cardinality(Y) # Cardinality(X)
  BY <1>2, <1>3, FS_Subset
<1>5. Cardinality(X) \in Nat /\ Cardinality(Y) \in Nat
  BY <1>3, FS_CardinalityType
<1>. QED
  BY <1>1, <1>4, <1>5

(* So each element has a place of its own, and each place an element. *)
LEMMA PlacesAreTaken ==
  ASSUME NEW S, IsFiniteSet(S), NEW R, Orders(R, S)
  PROVE  /\ Cardinality(S) \in Nat
         /\ \A x \in S : Cardinality(Ahead(x, S, R)) \in 0 .. Cardinality(S) - 1
         /\ \A x, y \in S : Cardinality(Ahead(x, S, R)) = Cardinality(Ahead(y, S, R)) => x = y
         /\ \A i \in 1 .. Cardinality(S) : \E x \in S : Cardinality(Ahead(x, S, R)) = i - 1
<1>1. PICK n : n = Cardinality(S)
  OBVIOUS
<1>2. n \in Nat
  BY <1>1, FS_CardinalityType
<1>3. PICK place : place = [x \in S |-> Cardinality(Ahead(x, S, R)) + 1]
  OBVIOUS
<1>4. ASSUME NEW x \in S
      PROVE  Cardinality(Ahead(x, S, R)) \in 0 .. n - 1
  <2>1. PICK X : X = Ahead(x, S, R)
    OBVIOUS
  <2>2. X \subseteq S /\ x \notin X
    BY <2>1 DEF Ahead, Orders
  <2>3. IsFiniteSet(X) /\ Cardinality(X) <= n /\ n # Cardinality(X)
    BY <1>1, <2>2, FS_Subset
  <2>4. Cardinality(X) \in Nat
    BY <2>3, FS_CardinalityType
  <2>. QED
    BY <1>2, <2>1, <2>3, <2>4
<1>5. ASSUME NEW x \in S, NEW y \in S, Cardinality(Ahead(x, S, R)) = Cardinality(Ahead(y, S, R))
      PROVE  x = y
  <2>1. Cardinality(Ahead(x, S, R)) \in Nat /\ Cardinality(Ahead(y, S, R)) \in Nat
    BY <1>2, <1>4
  <2>2. ~(<<x, y>> \in R) /\ ~(<<y, x>> \in R)
    BY <1>5, <2>1, FewerAhead
  <2>. QED
    BY <2>2 DEF Orders
<1>6. place \in [S -> 1 .. n] /\ \A x, y \in S : place[x] = place[y] => x = y
  <2>1. \A x \in S : place[x] \in 1 .. n
    BY <1>2, <1>3, <1>4
  <2>2. ASSUME NEW x \in S, NEW y \in S, place[x] = place[y]
        PROVE  x = y
    <3>1. Cardinality(Ahead(x, S, R)) + 1 = Cardinality(Ahead(y, S, R)) + 1
      BY <1>3, <2>2
    <3>. QED
      BY <1>2, <1>4, <1>5, <3>1
  <2>. QED
    BY <1>3, <2>1, <2>2
<1>7. place \in Surjection(S, 1 .. n)
  <2>1. place \in Injection(S, 1 .. n)
    BY <1>6 DEF Injection, IsInjective
  <2>2. IsFiniteSet(1 .. n) /\ Cardinality(1 .. n) = n
    BY <1>2, FS_Interval
  <2>. QED
    BY <1>1, <2>1, <2>2, FS_Injection
<1>8. ASSUME NEW i \in 1 .. n
      PROVE  \E x \in S : Cardinality(Ahead(x, S, R)) = i - 1
  <2>1. PICK x \in S : place[x] = i
    BY <1>7 DEF Surjection
  <2>2. Cardinality(Ahead(x, S, R)) + 1 = i
    BY <1>3, <2>1
  <2>. QED
    BY <1>2, <1>4, <2>2
<1>. QED
  BY <1>1, <1>2, <1>4, <1>5, <1>8

(* The list of a finite set, in order. *)
Lists(q, S, R) ==
  /\ q \in Seq(S) /\ Len(q) = Cardinality(S) /\ Cardinality(S) \in Nat
  /\ Range(q) = S
  /\ \A i, k \in DOMAIN q : i < k => <<q[i], q[k]>> \in R
  /\ \A i, k \in DOMAIN q : q[i] = q[k] => i = k

LEMMA ArrangedLists ==
  ASSUME NEW S, IsFiniteSet(S), NEW R, Orders(R, S)
  PROVE  Lists(Arranged(S, R), S, R)
<1>1. PICK q, n : q = Arranged(S, R) /\ n = Cardinality(S)
  OBVIOUS
<1>2. n \in Nat
  BY <1>1, PlacesAreTaken
<1>3. ASSUME NEW i \in 1 .. n
      PROVE  q[i] \in S /\ Cardinality(Ahead(q[i], S, R)) = i - 1
  <2>1. \E x \in S : Cardinality(Ahead(x, S, R)) = i - 1
    BY <1>1, <1>3, PlacesAreTaken
  <2>2. q[i] = CHOOSE x \in S : Cardinality(Ahead(x, S, R)) = i - 1
    BY <1>1, <1>3 DEF Arranged
  <2>. QED
    BY <2>1, <2>2
<1>4. DOMAIN q = 1 .. n /\ q \in Seq(S) /\ Len(q) = n
  <2>1. q \in [1 .. n -> S]
    BY <1>1, <1>3 DEF Arranged
  <2>. QED
    BY <1>2, <2>1
<1>5. ASSUME NEW x \in S
      PROVE  \E i \in 1 .. n : q[i] = x
  <2>1. PICK i : i = Cardinality(Ahead(x, S, R)) + 1
    OBVIOUS
  <2>2. Cardinality(Ahead(x, S, R)) \in 0 .. n - 1
    BY <1>1, PlacesAreTaken
  <2>3. i \in 1 .. n /\ Cardinality(Ahead(x, S, R)) = i - 1
    BY <1>2, <2>1, <2>2
  <2>. QED
    BY <1>3, <2>3, PlacesAreTaken
<1>6. Range(q) = S
  BY <1>3, <1>4, <1>5 DEF Range
<1>7. ASSUME NEW i \in 1 .. n, NEW k \in 1 .. n, i < k
      PROVE  <<q[i], q[k]>> \in R
  <2>1. Cardinality(Ahead(q[i], S, R)) = i - 1 /\ Cardinality(Ahead(q[k], S, R)) = k - 1
    BY <1>3
  <2>2. ~(Cardinality(Ahead(q[k], S, R)) < Cardinality(Ahead(q[i], S, R))) /\ q[i] # q[k]
    BY <1>2, <1>7, <2>1
  <2>3. q[i] \in S /\ q[k] \in S
    BY <1>3
  <2>. QED
    BY <2>2, <2>3, FewerAhead DEF Orders
<1>8. ASSUME NEW i \in 1 .. n, NEW k \in 1 .. n, q[i] = q[k]
      PROVE  i = k
  <2>1. i - 1 = k - 1
    BY <1>3, <1>8
  <2>. QED
    BY <1>2, <2>1
<1>. QED
  BY <1>1, <1>2, <1>4, <1>6, <1>7, <1>8 DEF Lists

(* SetToSeq lists the members of a finite set, and nothing else. *)
LEMMA ListsAll ==
  ASSUME NEW S, IsFiniteSet(S)
  PROVE  SetToSeq(S) \in Seq(S) /\ Range(SetToSeq(S)) = S
<1>. DEFINE n == Cardinality(S)
            q == SetToSeq(S)
<1>1. n \in Nat /\ ExistsBijection(1 .. n, S)
  BY FS_CardinalityType
<1>2. \E f \in [1 .. n -> S] : IsInjective(f)
  <2>1. PICK f \in [1 .. n -> S] : \A a, b \in 1 .. n : f[a] = f[b] => a = b
    BY <1>1 DEF ExistsBijection, Bijection, Injection, IsInjective
  <2>. QED
    BY <2>1 DEF IsInjective
<1>3. q \in [1 .. n -> S] /\ IsInjective(q)
  BY <1>2 DEF SetToSeq
<1>4. IsFiniteSet(1 .. n) /\ Cardinality(1 .. n) = n
  BY <1>1, FS_Interval
<1>5. q \in Injection(1 .. n, S)
  BY <1>3 DEF Injection, IsInjective
<1>6. q \in Surjection(1 .. n, S)
  <2>. HIDE DEF q
  <2>. QED
    BY <1>4, <1>5, FS_Injection
<1>. HIDE DEF n
<1>7. Range(q) = S
  <2>. HIDE DEF q
  <2>. QED
    BY <1>3, <1>6 DEF Range, Surjection
<1>8. q \in Seq(S)
  <2>. HIDE DEF q
  <2>. QED
    BY <1>1, <1>3
<1>. QED
  BY <1>7, <1>8

(* A list is its head and what follows it. *)
LEMMA TakingHead ==
  ASSUME NEW S, NEW q \in Seq(S), q # <<>>
  PROVE  /\ Head(q) \in S /\ Head(q) \in Range(q) /\ Tail(q) \in Seq(S)
         /\ Range(q) = {Head(q)} \cup Range(Tail(q))
<1>1. /\ Head(q) \in S /\ Tail(q) \in Seq(S) /\ Len(Tail(q)) = Len(q) - 1
      /\ \A i \in 1 .. Len(Tail(q)) : Tail(q)[i] = q[i + 1]
  BY HeadTailProperties
<1>2. Len(q) \in Nat \ {0} /\ DOMAIN q = 1 .. Len(q) /\ Head(q) = q[1]
      /\ DOMAIN Tail(q) = 1 .. (Len(q) - 1)
  BY <1>1
<1>3. ASSUME NEW x \in Range(q) PROVE x \in {Head(q)} \cup Range(Tail(q))
  <2>1. PICK i \in 1 .. Len(q) : x = q[i]
    BY <1>2 DEF Range
  <2>2. CASE i = 1
    BY <1>2, <2>1, <2>2
  <2>3. CASE i # 1
    <3>1. i - 1 \in 1 .. (Len(q) - 1) /\ Tail(q)[i - 1] = x
      BY <1>1, <1>2, <2>1, <2>3
    <3>. QED
      BY <1>2, <3>1 DEF Range
  <2>. QED
    BY <2>2, <2>3
<1>4. ASSUME NEW x \in Range(Tail(q)) PROVE x \in Range(q)
  <2>1. PICK i \in 1 .. (Len(q) - 1) : x = Tail(q)[i]
    BY <1>2 DEF Range
  <2>2. x = q[i + 1] /\ i + 1 \in 1 .. Len(q)
    BY <1>1, <1>2, <2>1
  <2>. QED
    BY <1>2, <2>2 DEF Range
<1>5. Head(q) \in Range(q)
  BY <1>2 DEF Range
<1>. QED
  BY <1>1, <1>3, <1>4, <1>5

(* What is left of a list. *)
Suffix(q, w) ==
  Len(q) <= Len(w) /\ \A i \in 1 .. Len(q) : q[i] = w[Len(w) - Len(q) + i]

LEMMA TakingSuffix ==
  ASSUME NEW S, NEW q \in Seq(S), NEW w \in Seq(S), q # <<>>, Suffix(q, w)
  PROVE  /\ Suffix(Tail(q), w)
         /\ Len(w) - Len(Tail(q)) = Len(w) - Len(q) + 1
         /\ Len(w) - Len(q) + 1 \in DOMAIN w
         /\ Head(q) = w[Len(w) - Len(q) + 1]
<1>1. PICK t : t = Tail(q)
  OBVIOUS
<1>2. /\ Head(q) = q[1] /\ Len(t) = Len(q) - 1 /\ Len(q) \in Nat \ {0} /\ Len(w) \in Nat
      /\ \A i \in 1 .. Len(t) : t[i] = q[i + 1]
      /\ DOMAIN w = 1 .. Len(w)
  BY <1>1, HeadTailProperties, LenProperties
<1>3. Len(q) <= Len(w) /\ \A i \in 1 .. Len(q) : q[i] = w[Len(w) - Len(q) + i]
  BY DEF Suffix
<1>4. ASSUME NEW i \in 1 .. Len(t) PROVE t[i] = w[Len(w) - Len(t) + i]
  <2>1. i + 1 \in 1 .. Len(q) /\ Len(w) - Len(q) + (i + 1) = Len(w) - Len(t) + i
    BY <1>2
  <2>. QED
    BY <1>2, <1>3, <2>1
<1>5. Suffix(t, w)
  BY <1>2, <1>3, <1>4 DEF Suffix
<1>. QED
  BY <1>1, <1>2, <1>3, <1>5

(* A suffix of a list without repetitions has the elements from its own    *)
(* length on.                                                              *)
LEMMA SuffixHolds ==
  ASSUME NEW S, NEW q \in Seq(S), NEW w \in Seq(S), Suffix(q, w),
         \A i, k \in DOMAIN w : w[i] = w[k] => i = k, NEW k \in DOMAIN w
  PROVE  w[k] \in Range(q) <=> k > Len(w) - Len(q)
<1>1. PICK m, n : m = Len(q) /\ n = Len(w)
  OBVIOUS
<1>2. /\ m \in Nat /\ n \in Nat /\ DOMAIN q = 1 .. m /\ DOMAIN w = 1 .. n /\ m <= n
      /\ \A i \in 1 .. m : q[i] = w[n - m + i]
  BY <1>1, LenProperties DEF Suffix
<1>3. ASSUME k > n - m PROVE w[k] \in Range(q)
  <2>1. PICK i : i = k - (n - m)
    OBVIOUS
  <2>2. i \in 1 .. m /\ n - m + i = k
    BY <1>2, <1>3, <2>1
  <2>3. q[i] = w[k]
    BY <1>2, <2>2
  <2>. QED
    BY <1>2, <2>2, <2>3 DEF Range
<1>4. ASSUME NEW i \in 1 .. m, q[i] = w[k] PROVE k > n - m
  <2>1. n - m + i \in DOMAIN w
    BY <1>2
  <2>2. k = n - m + i
    BY <1>2, <1>4, <2>1
  <2>. QED
    BY <1>2, <2>2
<1>. QED
  BY <1>1, <1>2, <1>3, <1>4 DEF Range

-----------------------------------------------------------------------------
(* The least and the largest of some numbers.                              *)

(* A family of subsets of a finite set has a member that includes no other. *)
Least(F, X) == X \in F /\ \A Y \in F : Y \subseteq X => Y = X
Families(U) == {F \in SUBSET SUBSET U : F # {}}

LEMMA LeastExists ==
  ASSUME NEW U, IsFiniteSet(U), NEW F \in Families(U)
  PROVE  \E X : Least(F, X)
BY SmallestSet DEF Least, Families

LEMMA LargestNumber ==
  ASSUME NEW S, S \subseteq Nat, S # {}, IsFiniteSet(S)
  PROVE  \E m \in S : \A u \in S : u <= m
<1>1. PICK up : up = [m \in S |-> {u \in S : u > m}]
  OBVIOUS
<1>2. PICK F : F = {up[m] : m \in S}
  OBVIOUS
<1>3. F # {} /\ F \subseteq SUBSET S
  BY <1>1, <1>2
<1>4. PICK X : Least(F, X)
  <2>1. IsFiniteSet(S) /\ F \in Families(S)
    BY <1>3 DEF Families
  <2>. QED
    BY <2>1, LeastExists, Zenon
<1>5. PICK m \in S : X = up[m]
  BY <1>2, <1>4 DEF Least
<1>6. ASSUME NEW u \in S, u > m PROVE FALSE
  <2>1. up[u] \subseteq up[m] /\ u \in up[m] /\ u \notin up[u]
    <3>1. up[u] = {v \in S : v > u} /\ up[m] = {v \in S : v > m} /\ u \in Nat /\ m \in Nat
      BY <1>1
    <3>2. u > m
      BY <1>6
    <3>3. \A v \in S : v \in Nat /\ (v > u => v > m)
      BY <3>1, <3>2
    <3>4. ~(u > u)
      BY <3>1
    <3>. QED
      BY <3>1, <3>2, <3>3, <3>4
  <2>. QED
    BY <1>2, <1>4, <1>5, <2>1 DEF Least
<1>7. ASSUME NEW u \in S PROVE u <= m
  <2>1. u \in Nat /\ m \in Nat /\ ~(u > m)
    BY <1>6
  <2>. QED
    BY <2>1
<1>. QED
  BY <1>7

LEMMA MaxOf ==
  ASSUME NEW S, S \subseteq Nat, S # {}, IsFiniteSet(S)
  PROVE  Max(S) \in S /\ \A u \in S : u <= Max(S)
<1>1. \E m \in S : \A u \in S : m >= u
  BY LargestNumber
<1>2. Max(S) \in S /\ \A u \in S : Max(S) >= u
  BY <1>1, Zenon DEF Max
<1>. QED
  BY <1>2

LEMMA MinOf ==
  ASSUME NEW S, S \subseteq Nat, S # {}
  PROVE  Min(S) \in S /\ \A u \in S : Min(S) <= u
<1>1. \E m \in S : \A u \in S : m <= u
  BY SmallestNumber
<1>. QED
  BY <1>1, Zenon DEF Min

-----------------------------------------------------------------------------
(* One list out of many: f[i] is what the first i lists make.              *)
Flattens(f, q, m) == f = [i \in 1 .. m |-> IF i = 1 THEN q[i] ELSE f[i - 1] \o q[i]]

Grows(f, q, m) ==
  /\ 1 \in 1 .. m => f[1] = q[1]
  /\ \A i \in 1 .. m : i # 1 => f[i] = f[i - 1] \o q[i]

LEMMA FlattensAt ==
  ASSUME NEW q, NEW m \in Nat, NEW f, Flattens(f, q, m)
  PROVE  DOMAIN f = 1 .. m /\ Grows(f, q, m)
<1>1. PICK g : g = [i \in 1 .. m |-> IF i = 1 THEN q[i] ELSE f[i - 1] \o q[i]]
  OBVIOUS
<1>2. f = g
  BY <1>1 DEF Flattens
<1>3. DOMAIN g = 1 .. m
  BY <1>1
<1>4. \A i \in 1 .. m : g[i] = IF i = 1 THEN q[i] ELSE f[i - 1] \o q[i]
  BY <1>1, Zenon
<1>5. /\ 1 \in 1 .. m => f[1] = q[1]
      /\ \A i \in 1 .. m : i # 1 => f[i] = f[i - 1] \o q[i]
  BY <1>2, <1>4
<1>. QED
  BY <1>2, <1>3, <1>5, Zenon DEF Grows

LEMMA FlattensFrom ==
  ASSUME NEW q, NEW m \in Nat, NEW f, NEW g,
         g = [i \in 1 .. m |-> IF i = 1 THEN q[i] ELSE f[i - 1] \o q[i]],
         \A i \in 1 .. m : i # 1 => f[i - 1] = g[i - 1]
  PROVE  Flattens(g, q, m)
<1>1. \A i \in 1 .. m : (IF i = 1 THEN q[i] ELSE f[i - 1] \o q[i])
                        = (IF i = 1 THEN q[i] ELSE g[i - 1] \o q[i])
  BY Zenon
<1>2. [i \in 1 .. m |-> IF i = 1 THEN q[i] ELSE f[i - 1] \o q[i]]
      = [i \in 1 .. m |-> IF i = 1 THEN q[i] ELSE g[i - 1] \o q[i]]
  BY <1>1, Zenon
<1>. QED
  BY <1>2, Zenon DEF Flattens

LEMMA FlattensExists ==
  ASSUME NEW q, NEW n \in Nat
  PROVE  \E f : Flattens(f, q, n)
<1>1. PICK F : F = {m \in Nat : \E f : Flattens(f, q, m)}
  OBVIOUS
<1>2. 0 \in F
  <2>1. PICK f : f = [i \in 1 .. 0 |-> q[i]]
    OBVIOUS
  <2>2. PICK g : g = [i \in 1 .. 0 |-> IF i = 1 THEN q[i] ELSE f[i - 1] \o q[i]]
    BY Zenon
  <2>3. 0 \in Nat /\ \A i \in 1 .. 0 : i # 1 => f[i - 1] = g[i - 1]
    OBVIOUS
  <2>4. Flattens(g, q, 0)
    BY <2>2, <2>3, FlattensFrom
  <2>. QED
    BY <1>1, <2>4
<1>3. ASSUME NEW m \in Nat, m \in F PROVE m + 1 \in F
  <2>1. PICK f : Flattens(f, q, m)
    BY <1>1, <1>3
  <2>2. PICK g : g = [i \in 1 .. m + 1 |-> IF i = 1 THEN q[i] ELSE f[i - 1] \o q[i]]
    BY Zenon
  <2>3. \A i \in 1 .. m + 1 : g[i] = IF i = 1 THEN q[i] ELSE f[i - 1] \o q[i]
    BY <2>2, Zenon
  <2>8. Grows(f, q, m)
    BY <2>1, FlattensAt
  <2>9. /\ 1 \in 1 .. m => f[1] = q[1]
        /\ \A i \in 1 .. m : i # 1 => f[i] = f[i - 1] \o q[i]
    BY <2>8, Zenon DEF Grows
  <2>4. ASSUME NEW i \in 1 .. m PROVE f[i] = g[i]
    <3>1. i \in 1 .. m + 1
      OBVIOUS
    <3>2. CASE i = 1
      <4>1. f[1] = q[1] /\ g[1] = q[1]
        BY <2>3, <2>9, <3>1, <3>2, Zenon
      <4>. QED
        BY <3>2, <4>1
    <3>3. CASE i # 1
      BY <2>3, <2>9, <3>1, <3>3, Zenon
    <3>. QED
      BY <3>2, <3>3
  <2>5. \A i \in 1 .. m + 1 : i # 1 => f[i - 1] = g[i - 1]
    <3>1. \A i \in 1 .. m + 1 : i # 1 => i - 1 \in 1 .. m
      OBVIOUS
    <3>. QED
      BY <2>4, <3>1
  <2>6. m + 1 \in Nat
    OBVIOUS
  <2>7. Flattens(g, q, m + 1)
    BY <2>2, <2>5, <2>6, FlattensFrom
  <2>. QED
    BY <1>1, <2>6, <2>7
<1>4. n \in F
  BY <1>1, <1>2, <1>3, NumberInduction
<1>. QED
  BY <1>1, <1>4

(* What FlattenSeq gives is reached list by list.                          *)
LEMMA FlattenGrows ==
  ASSUME NEW q, NEW n \in Nat, n # 0
  PROVE  Len(q) = n => \E f : Grows(f, q, n) /\ FlattenSeq(q) = f[n]
<1>1. PICK f : f = CHOOSE g : Flattens(g, q, n)
  OBVIOUS
<1>2. Flattens(f, q, n)
  BY <1>1, FlattensExists
<1>3. Grows(f, q, n)
  BY <1>2, FlattensAt
<1>4. ASSUME Len(q) = n PROVE FlattenSeq(q) = f[n]
  <2>1. Len(q) # 0
    BY <1>4
  <2>2. (CHOOSE g : g = [i \in 1 .. Len(q) |-> IF i = 1 THEN q[i] ELSE g[i - 1] \o q[i]]) = f
    BY <1>1, <1>4, Zenon DEF Flattens
  <2>. QED
    BY <1>4, <2>1, <2>2, Zenon DEF FlattenSeq
<1>. QED
  BY <1>3, <1>4
-----------------------------------------------------------------------------
(* Pieces that go on where the last one ends, from 0 to e.                 *)
Chain(lo, hi, m, e) ==
  /\ m \in Nat \ {0} /\ lo[1] = 0 /\ hi[m] = e
  /\ \A k \in 1 .. m : lo[k] \in Nat /\ hi[k] \in Nat /\ lo[k] <= hi[k]
  /\ \A k \in 1 .. m : k > 1 => lo[k] = hi[k - 1]

LEMMA ChainGrows ==
  ASSUME NEW lo, NEW hi, NEW m, NEW e, Chain(lo, hi, m, e), NEW i \in 1 .. m
  PROVE  \A j \in 1 .. m : i < j => hi[i] <= lo[j]
<1>1. /\ m \in Nat
      /\ \A k \in 1 .. m : lo[k] \in Nat /\ hi[k] \in Nat /\ lo[k] <= hi[k]
      /\ \A k \in 1 .. m : k > 1 => lo[k] = hi[k - 1]
  BY DEF Chain
<1>2. PICK F : F = {j \in Nat : j \in 1 .. m /\ i < j => hi[i] <= lo[j]}
  OBVIOUS
<1>3. 0 \in F
  BY <1>2
<1>4. ASSUME NEW j \in Nat, j \in F PROVE j + 1 \in F
  <2>1. SUFFICES ASSUME j + 1 \in 1 .. m, i < j + 1 PROVE hi[i] <= lo[j + 1]
    BY <1>2
  <2>2. PICK k : k = j + 1 /\ k \in 1 .. m /\ k - 1 = j /\ k > 1 /\ j \in 1 .. m
    BY <1>1, <2>1
  <2>3. lo[k] = hi[j]
    BY <1>1, <2>2
  <2>4. CASE i = j
    BY <1>1, <2>2, <2>3, <2>4
  <2>5. CASE i # j
    <3>1. i < j
      BY <1>1, <2>1, <2>2, <2>5
    <3>2. hi[i] <= lo[j] /\ lo[j] <= hi[j]
      BY <1>1, <1>2, <1>4, <2>2, <3>1
    <3>3. hi[i] \in Nat /\ lo[j] \in Nat /\ hi[j] \in Nat
      BY <1>1, <2>2
    <3>4. hi[i] <= hi[j]
      BY <3>2, <3>3
    <3>. QED
      BY <2>2, <2>3, <3>4
  <2>. QED
    BY <2>4, <2>5
<1>5. \A j \in Nat : j \in F
  BY <1>3, <1>4, NumberInduction
<1>. QED
  BY <1>1, <1>2, <1>5

(* One piece holds a place. *)
OnlyIn(lo, hi, m, k, i) == \A j \in 1 .. m : (lo[j] < k /\ k <= hi[j]) <=> j = i

LEMMA ChainHolds ==
  ASSUME NEW lo, NEW hi, NEW m, NEW e, Chain(lo, hi, m, e), NEW k \in Nat, k > 0, k <= e
  PROVE  \E i \in 1 .. m : OnlyIn(lo, hi, m, k, i)
<1>1. /\ m \in Nat /\ m \in 1 .. m /\ lo[1] = 0 /\ hi[m] = e
      /\ \A j \in 1 .. m : lo[j] \in Nat /\ hi[j] \in Nat /\ lo[j] <= hi[j]
      /\ \A j \in 1 .. m : j > 1 => lo[j] = hi[j - 1]
  BY DEF Chain
<1>2. PICK D : D = {j \in 1 .. m : k <= hi[j]}
  OBVIOUS
<1>3. D \subseteq Nat /\ m \in D
  BY <1>1, <1>2
<1>4. PICK i \in D : \A j \in D : i <= j
  BY <1>3, SmallestNumber
<1>5. i \in 1 .. m /\ k <= hi[i]
  BY <1>2
<1>6. lo[i] < k
  <2>1. CASE i = 1
    BY <1>1, <2>1
  <2>2. CASE i # 1
    <3>1. PICK j : j = i - 1 /\ j \in 1 .. m /\ i > 1 /\ j < i
      BY <1>1, <1>5, <2>2
    <3>2. j \notin D
      <4>1. j \in Nat /\ i \in Nat /\ ~(i <= j)
        BY <1>1, <1>5, <3>1
      <4>. QED
        BY <1>4, <4>1
    <3>3. ~(k <= hi[j]) /\ hi[j] \in Nat
      BY <1>1, <1>2, <3>1, <3>2
    <3>4. lo[i] = hi[j]
      BY <1>1, <1>5, <3>1
    <3>. QED
      BY <3>3, <3>4
  <2>. QED
    BY <2>1, <2>2
<1>7. ASSUME NEW j \in 1 .. m, lo[j] < k, k <= hi[j] PROVE j = i
  <2>0. i \in Nat /\ j \in Nat /\ lo[i] \in Nat /\ hi[i] \in Nat /\ lo[j] \in Nat /\ hi[j] \in Nat
    BY <1>1, <1>5
  <2>1. ASSUME i < j PROVE FALSE
    <3>1. hi[i] <= lo[j]
      BY <1>5, <2>1, ChainGrows
    <3>. QED
      BY <1>5, <1>7, <2>0, <3>1
  <2>2. ASSUME j < i PROVE FALSE
    <3>1. hi[j] <= lo[i]
      BY <1>5, <2>2, ChainGrows
    <3>. QED
      BY <1>6, <1>7, <2>0, <3>1
  <2>. QED
    BY <2>0, <2>1, <2>2
<1>8. OnlyIn(lo, hi, m, k, i)
  BY <1>5, <1>6, <1>7 DEF OnlyIn
<1>. QED
  BY <1>5, <1>8

(* The lengths of the pieces add up. *)
Lengths(lo, hi, m, b, f) == \A k \in 1 .. m : f[b + k] \in Nat /\ lo[k] + f[b + k] = hi[k]

LEMMA ChainSum ==
  ASSUME NEW lo, NEW hi, NEW m, NEW e, Chain(lo, hi, m, e), NEW b \in Nat, NEW f,
         Lengths(lo, hi, m, b, f)
  PROVE  SumFunctionOnSet(f, b + 1 .. b + m) = e
<1>1. /\ m \in Nat /\ m # 0 /\ lo[1] = 0 /\ hi[m] = e
      /\ \A k \in 1 .. m : lo[k] \in Nat /\ hi[k] \in Nat
      /\ \A k \in 1 .. m : k > 1 => lo[k] = hi[k - 1]
      /\ \A k \in 1 .. m : f[b + k] \in Nat /\ lo[k] + f[b + k] = hi[k]
  BY DEF Chain, Lengths
<1>2. PICK F : F = {k \in Nat : k \in 1 .. m => SumFunctionOnSet(f, b + 1 .. b + k) = hi[k]}
  OBVIOUS
<1>3. 0 \in F
  BY <1>2
<1>4. ASSUME NEW j \in Nat, j \in F PROVE j + 1 \in F
  <2>1. SUFFICES ASSUME j + 1 \in 1 .. m
                 PROVE  SumFunctionOnSet(f, b + 1 .. b + (j + 1)) = hi[j + 1]
    BY <1>2
  <2>2. PICK k : k = j + 1 /\ k \in 1 .. m /\ k - 1 = j /\ k \in Nat
    BY <2>1
  <2>3. PICK S, y : S = b + 1 .. b + j /\ y = b + k
    OBVIOUS
  <2>4. b + 1 .. b + k = S \cup {y} /\ y \notin S
    BY <2>2, <2>3
  <2>5. IsFiniteSet(S)
    <3>1. b + 1 \in Int /\ b + j \in Int
      OBVIOUS
    <3>. QED
      BY <2>3, <3>1, FS_Interval
  <2>6. ASSUME NEW i \in S PROVE f[i] \in Nat
    <3>1. PICK l : l = i - b
      OBVIOUS
    <3>2. l \in 1 .. m /\ i = b + l
      BY <1>1, <2>2, <2>3, <3>1
    <3>. QED
      BY <1>1, <3>2
  <2>7. f[y] \in Nat /\ lo[k] + f[y] = hi[k]
    BY <1>1, <2>2, <2>3
  <2>8. SumFunctionOnSet(f, S \cup {y}) = f[y] + SumFunctionOnSet(f, S)
    BY <2>4, <2>5, <2>6, <2>7, SumAdd
  <2>9. SumFunctionOnSet(f, S) = lo[k]
    <3>1. CASE j = 0
      <4>1. S = {} /\ k = 1
        BY <2>2, <2>3, <3>1
      <4>2. SumFunctionOnSet(f, S) = 0
        BY <2>5, <2>6, <4>1, SumPick
      <4>. QED
        BY <1>1, <4>1, <4>2
    <3>2. CASE j # 0
      <4>1. j \in 1 .. m /\ k > 1
        BY <1>1, <2>2, <3>2
      <4>. QED
        BY <1>1, <1>2, <1>4, <2>2, <2>3, <4>1
    <3>. QED
      BY <3>1, <3>2
  <2>10. SumFunctionOnSet(f, b + 1 .. b + k) = hi[k]
    <3>1. PICK o, p : o = SumFunctionOnSet(f, S) /\ p = SumFunctionOnSet(f, S \cup {y})
      OBVIOUS
    <3>2. p = f[y] + lo[k] /\ lo[k] \in Nat /\ hi[k] \in Nat
      BY <1>1, <2>2, <2>8, <2>9, <3>1
    <3>3. p = hi[k]
      BY <2>7, <3>2
    <3>. QED
      BY <2>4, <3>1, <3>3
  <2>. QED
    BY <2>2, <2>10
<1>5. m \in F
  BY <1>1, <1>3, <1>4, NumberInduction
<1>. QED
  BY <1>1, <1>2, <1>5
=============================================================================
