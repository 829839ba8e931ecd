---- MODULE SumTheorems ----
(***************************************************************************)
(* Facts about SumFunctionOnSet, the operator behind every amount, count   *)
(* and balance of the models that is added up over rows.  It is defined by *)
(* recursion over the subsets of a set; what follows is by induction in    *)
(* the form that has no operator as a parameter: a family of subsets of a  *)
(* finite set that is not empty has a smallest member.  By the same        *)
(* argument a finite set of integers has a largest and a smallest member.  *)
(***************************************************************************)
EXTENDS Integers, FiniteSetsExt, Functions, FiniteSetTheorems, TLAPS

LEMMA SmallestSubset ==
  ASSUME NEW S, IsFiniteSet(S), NEW B, B \subseteq SUBSET S, B # {}
  PROVE  \E T \in B : \A U \in B : ~(U \subseteq T /\ U # T)
<1>1. IsWellFoundedOn(StrictSubsetOrdering(S), FiniteSubsetsOf(S)) /\ FiniteSubsetsOf(S) = SUBSET S
  BY FS_StrictSubsetOrderingWellFounded, FS_FiniteSubsetsOfFinite
<1>2. PICK T \in B : \A U \in B : ~(<<U, T>> \in StrictSubsetOrdering(S))
  BY <1>1, WFMin
<1>. QED BY <1>2 DEF StrictSubsetOrdering

----
(***************************************************************************)
(* The recursive function behind the sum exists, and its values are the    *)
(* same whatever set it was started for.                                   *)
(***************************************************************************)
Chosen(T) == CHOOSE x \in T : TRUE
Rest(T) == T \ {Chosen(T)}
Adds(g, f, D) == g = [T \in D |-> IF T = {} THEN 0 ELSE f[Chosen(T)] + g[Rest(T)]]
Adder(f, S) == CHOOSE g : Adds(g, f, SUBSET S)

LEMMA ChosenIsIn == \A T : T # {} => Chosen(T) \in T
BY DEF Chosen

LEMMA SumIsAdder ==
  ASSUME NEW f, NEW S
  PROVE  SumFunctionOnSet(f, S) = Adder(f, S)[S]
BY DEF SumFunctionOnSet, FoldFunctionOnSet, MapThenFoldSet, Adds, Adder, Chosen, Rest

LEMMA AddersAgree ==
  ASSUME NEW f, NEW A, NEW C, IsFiniteSet(A),
         Adds(Adder(f, A), f, SUBSET A), Adds(Adder(f, C), f, SUBSET C)
  PROVE  \A T : T \subseteq A /\ T \subseteq C => Adder(f, A)[T] = Adder(f, C)[T]
<1>. DEFINE g == Adder(f, A)
            h == Adder(f, C)
            B == {U \in SUBSET (A \cap C) : g[U] # h[U]}
<1>. HIDE DEF g, h
<1>0. Adds(g, f, SUBSET A) /\ Adds(h, f, SUBSET C)
  BY DEF g, h
<1>1. SUFFICES ASSUME B # {} PROVE FALSE
  BY DEF g, h
<1>2. PICK U \in B : \A V \in B : ~(V \subseteq U /\ V # U)
  <2>1. B \subseteq SUBSET A
    OBVIOUS
  <2>. HIDE DEF B
  <2>. QED BY <1>1, <2>1, SmallestSubset
<1>3. U \subseteq A /\ U \subseteq C /\ g[U] # h[U]
  BY <1>2
<1>a. /\ g[U] = IF U = {} THEN 0 ELSE f[Chosen(U)] + g[Rest(U)]
      /\ h[U] = IF U = {} THEN 0 ELSE f[Chosen(U)] + h[Rest(U)]
  BY <1>0, <1>3 DEF Adds
<1>4. U # {}
  BY <1>3, <1>a
<1>5. Rest(U) \subseteq U /\ Rest(U) # U
  BY <1>4, ChosenIsIn DEF Rest
<1>6. g[Rest(U)] = h[Rest(U)]
  BY <1>2, <1>3, <1>5
<1>. QED BY <1>3, <1>4, <1>6, <1>a

LEMMA AdderExists ==
  ASSUME NEW f, NEW S, IsFiniteSet(S)
  PROVE  Adds(Adder(f, S), f, SUBSET S)
<1>. DEFINE B == {T \in SUBSET S : ~ \E g : Adds(g, f, SUBSET T)}
<1>1. SUFFICES B = {}
  <2>1. S \notin B => \E g : Adds(g, f, SUBSET S)
    OBVIOUS
  <2>. QED BY <2>1 DEF Adder
<1>2. SUFFICES ASSUME B # {} PROVE FALSE
  OBVIOUS
<1>3. PICK T \in B : \A U \in B : ~(U \subseteq T /\ U # T)
  <2>1. B \subseteq SUBSET S
    OBVIOUS
  <2>. HIDE DEF B
  <2>. QED BY <1>2, <2>1, SmallestSubset
<1>4. T \subseteq S /\ ~ \E g : Adds(g, f, SUBSET T)
  BY <1>3
<1>. DEFINE V(U) == Adder(f, U)[U]
            g == [U \in SUBSET T |-> IF U = {} THEN 0 ELSE f[Chosen(U)] + V(Rest(U))]
<1>5. \A U \in SUBSET T : U # T => Adds(Adder(f, U), f, SUBSET U)
  <2>1. SUFFICES ASSUME NEW U \in SUBSET T, U # T PROVE \E h : Adds(h, f, SUBSET U)
    BY DEF Adder
  <2>. QED BY <1>3, <1>4, <2>1
<1>6. \A U \in SUBSET T : U # {} => Rest(U) \in SUBSET T /\ Rest(U) # T /\ IsFiniteSet(Rest(U))
  BY <1>4, ChosenIsIn, FS_Subset DEF Rest
<1>7. ASSUME NEW W \in SUBSET T, W # T, IsFiniteSet(W) PROVE g[W] = V(W)
  <2>1. Adds(Adder(f, W), f, SUBSET W)
    BY <1>5, <1>7
  <2>2. V(W) = IF W = {} THEN 0 ELSE f[Chosen(W)] + Adder(f, W)[Rest(W)]
    BY <2>1 DEF Adds
  <2>3. W # {} => Adder(f, W)[Rest(W)] = V(Rest(W))
    <3>1. SUFFICES ASSUME W # {} PROVE Adder(f, W)[Rest(W)] = V(Rest(W))
      OBVIOUS
    <3>2. Adds(Adder(f, Rest(W)), f, SUBSET Rest(W))
      BY <1>5, <1>6, <3>1
    <3>3. Rest(W) \subseteq W
      BY DEF Rest
    <3>4. IsFiniteSet(W) /\ Rest(W) \subseteq Rest(W)
      BY <1>7
    <3>5. Adder(f, W)[Rest(W)] = Adder(f, Rest(W))[Rest(W)]
      BY <2>1, <3>2, <3>3, <3>4, AddersAgree
    <3>. QED BY <3>5
  <2>. QED BY <2>2, <2>3
<1>8. Adds(g, f, SUBSET T)
  <2>1. \A U \in SUBSET T : g[U] = IF U = {} THEN 0 ELSE f[Chosen(U)] + g[Rest(U)]
    <3>1. \A U \in SUBSET T : U # {} => g[Rest(U)] = V(Rest(U))
      BY <1>6, <1>7
    <3>. QED BY <3>1
  <2>2. g = [U \in SUBSET T |-> g[U]]
    OBVIOUS
  <2>. HIDE DEF g
  <2>. QED BY <2>1, <2>2 DEF Adds
<1>. QED BY <1>4, <1>8

----
(***************************************************************************)
(* What the models' proofs use.                                            *)
(***************************************************************************)
LEMMA SumEmpty == \A f : SumFunctionOnSet(f, {}) = 0
<1>. SUFFICES ASSUME NEW f PROVE SumFunctionOnSet(f, {}) = 0
  OBVIOUS
<1>1. Adds(Adder(f, {}), f, SUBSET {})
  BY AdderExists, FS_EmptySet
<1>2. Adder(f, {})[{}] = 0
  BY <1>1 DEF Adds
<1>. QED BY <1>2, SumIsAdder

LEMMA SumStep ==
  ASSUME NEW f, NEW S, IsFiniteSet(S), S # {}
  PROVE  SumFunctionOnSet(f, S) = f[Chosen(S)] + SumFunctionOnSet(f, Rest(S))
<1>1. Rest(S) \subseteq S /\ IsFiniteSet(Rest(S))
  BY FS_Subset DEF Rest
<1>2. Adds(Adder(f, S), f, SUBSET S) /\ Adds(Adder(f, Rest(S)), f, SUBSET Rest(S))
  BY <1>1, AdderExists
<1>3. Adder(f, S)[S] = f[Chosen(S)] + Adder(f, S)[Rest(S)]
  BY <1>2 DEF Adds
<1>4. Adder(f, S)[Rest(S)] = Adder(f, Rest(S))[Rest(S)]
  BY <1>1, <1>2, AddersAgree
<1>. QED BY <1>3, <1>4, SumIsAdder

\* Only the summands count.
LEMMA SumSame ==
  ASSUME NEW f, NEW g, NEW S, IsFiniteSet(S), \A x \in S : f[x] = g[x]
  PROVE  SumFunctionOnSet(f, S) = SumFunctionOnSet(g, S)
<1>. DEFINE B == {U \in SUBSET S : SumFunctionOnSet(f, U) # SumFunctionOnSet(g, U)}
<1>1. SUFFICES ASSUME B # {} PROVE FALSE
  OBVIOUS
<1>2. PICK U \in B : \A V \in B : ~(V \subseteq U /\ V # U)
  <2>1. B \subseteq SUBSET S
    OBVIOUS
  <2>. HIDE DEF B
  <2>. QED BY <1>1, <2>1, SmallestSubset
<1>3. U \subseteq S /\ IsFiniteSet(U) /\ SumFunctionOnSet(f, U) # SumFunctionOnSet(g, U)
  BY <1>2, FS_Subset
<1>4. U # {}
  BY <1>3, SumEmpty
<1>5. Rest(U) \subseteq U /\ Rest(U) # U /\ Chosen(U) \in U
  BY <1>4, ChosenIsIn DEF Rest
<1>6. SumFunctionOnSet(f, Rest(U)) = SumFunctionOnSet(g, Rest(U))
  BY <1>2, <1>3, <1>5
<1>. QED BY <1>3, <1>4, <1>5, <1>6, SumStep

LEMMA SumType ==
  ASSUME NEW f, NEW S, IsFiniteSet(S), \A x \in S : f[x] \in Int
  PROVE  SumFunctionOnSet(f, S) \in Int
<1>. DEFINE B == {U \in SUBSET S : SumFunctionOnSet(f, U) \notin Int}
<1>1. SUFFICES ASSUME B # {} PROVE FALSE
  OBVIOUS
<1>2. PICK U \in B : \A V \in B : ~(V \subseteq U /\ V # U)
  <2>1. B \subseteq SUBSET S
    OBVIOUS
  <2>. HIDE DEF B
  <2>. QED BY <1>1, <2>1, SmallestSubset
<1>3. U \subseteq S /\ IsFiniteSet(U) /\ SumFunctionOnSet(f, U) \notin Int
  BY <1>2, FS_Subset
<1>4. U # {}
  BY <1>3, SumEmpty
<1>5. Rest(U) \subseteq U /\ Rest(U) # U /\ Chosen(U) \in U
  BY <1>4, ChosenIsIn DEF Rest
<1>6. SumFunctionOnSet(f, Rest(U)) \in Int /\ f[Chosen(U)] \in Int
  BY <1>2, <1>3, <1>5
<1>. QED BY <1>3, <1>4, <1>6, SumStep

\* Any element may be taken out first.
LEMMA SumRemove ==
  ASSUME NEW f, NEW S, IsFiniteSet(S), \A y \in S : f[y] \in Int, NEW x \in S
  PROVE  SumFunctionOnSet(f, S) = f[x] + SumFunctionOnSet(f, S \ {x})
<1>. DEFINE Odd(U) == \E y \in U : SumFunctionOnSet(f, U) # f[y] + SumFunctionOnSet(f, U \ {y})
            B == {U \in SUBSET S : Odd(U)}
<1>1. SUFFICES ASSUME B # {} PROVE FALSE
  OBVIOUS
<1>2. PICK U \in B : \A V \in B : ~(V \subseteq U /\ V # U)
  <2>1. B \subseteq SUBSET S
    OBVIOUS
  <2>. HIDE DEF B
  <2>. QED BY <1>1, <2>1, SmallestSubset
<1>3. U \subseteq S /\ IsFiniteSet(U)
  BY <1>2, FS_Subset
<1>4. PICK y \in U : SumFunctionOnSet(f, U) # f[y] + SumFunctionOnSet(f, U \ {y})
  BY <1>2
<1>. DEFINE c == Chosen(U)  W == U \ {c, y}
<1>5. c \in U /\ U # {} /\ Rest(U) = U \ {c}
  BY ChosenIsIn DEF Rest
<1>. HIDE DEF c
<1>6. SumFunctionOnSet(f, U) = f[c] + SumFunctionOnSet(f, U \ {c})
  BY <1>3, <1>5, SumStep DEF c
<1>7. y # c
  BY <1>4, <1>6
<1>8. \A V \in SUBSET S : V \subseteq U /\ V # U => \A z \in V :
        SumFunctionOnSet(f, V) = f[z] + SumFunctionOnSet(f, V \ {z})
  BY <1>2
<1>9. SumFunctionOnSet(f, U \ {c}) = f[y] + SumFunctionOnSet(f, W)
  <2>1. U \ {c} \subseteq U /\ U \ {c} # U /\ U \ {c} \in SUBSET S /\ y \in U \ {c}
        /\ (U \ {c}) \ {y} = W
    BY <1>3, <1>5, <1>7
  <2>. QED BY <1>8, <2>1
<1>10. SumFunctionOnSet(f, U \ {y}) = f[c] + SumFunctionOnSet(f, W)
  <2>1. U \ {y} \subseteq U /\ U \ {y} # U /\ U \ {y} \in SUBSET S /\ c \in U \ {y}
        /\ (U \ {y}) \ {c} = W
    BY <1>3, <1>5, <1>7
  <2>. QED BY <1>8, <2>1
<1>11. SumFunctionOnSet(f, W) \in Int /\ f[c] \in Int /\ f[y] \in Int
  <2>1. IsFiniteSet(W) /\ \A z \in W : f[z] \in Int
    BY <1>3, FS_Subset
  <2>. QED BY <1>3, <1>5, <2>1, SumType
<1>. QED BY <1>4, <1>6, <1>9, <1>10, <1>11

LEMMA SumAdd ==
  ASSUME NEW f, NEW S, IsFiniteSet(S), \A y \in S : f[y] \in Int,
         NEW x, x \notin S, f[x] \in Int
  PROVE  SumFunctionOnSet(f, S \cup {x}) = SumFunctionOnSet(f, S) + f[x]
<1>. DEFINE T == S \cup {x}
<1>1. IsFiniteSet(T) /\ x \in T /\ T \ {x} = S /\ \A y \in T : f[y] \in Int
  BY FS_AddElement
<1>2. SumFunctionOnSet(f, S) \in Int
  BY SumType
<1>. HIDE DEF T
<1>3. SumFunctionOnSet(f, T) = f[x] + SumFunctionOnSet(f, S)
  BY <1>1, SumRemove
<1>. QED BY <1>2, <1>3 DEF T

LEMMA SumNat ==
  ASSUME NEW f, NEW S, IsFiniteSet(S), \A x \in S : f[x] \in Nat
  PROVE  SumFunctionOnSet(f, S) \in Nat
<1>. DEFINE B == {U \in SUBSET S : SumFunctionOnSet(f, U) \notin Nat}
<1>1. SUFFICES ASSUME B # {} PROVE FALSE
  OBVIOUS
<1>2. PICK U \in B : \A V \in B : ~(V \subseteq U /\ V # U)
  <2>1. B \subseteq SUBSET S
    OBVIOUS
  <2>. HIDE DEF B
  <2>. QED BY <1>1, <2>1, SmallestSubset
<1>3. U \subseteq S /\ IsFiniteSet(U) /\ SumFunctionOnSet(f, U) \notin Nat
  BY <1>2, FS_Subset
<1>4. U # {}
  BY <1>3, SumEmpty
<1>5. Rest(U) \subseteq U /\ Rest(U) # U /\ Chosen(U) \in U
  BY <1>4, ChosenIsIn DEF Rest
<1>6. SumFunctionOnSet(f, Rest(U)) \in Nat /\ f[Chosen(U)] \in Nat
  BY <1>2, <1>3, <1>5
<1>. QED BY <1>3, <1>4, <1>6, SumStep

\* Fewer rows do not add up to more.
LEMMA SumSubset ==
  ASSUME NEW f, NEW S, IsFiniteSet(S), \A x \in S : f[x] \in Nat, NEW T, T \subseteq S
  PROVE  SumFunctionOnSet(f, T) <= SumFunctionOnSet(f, S)
<1>. DEFINE B == {U \in SUBSET S : T \subseteq U /\ ~(SumFunctionOnSet(f, T) <= SumFunctionOnSet(f, U))}
<1>1. SUFFICES ASSUME B # {} PROVE FALSE
  OBVIOUS
<1>2. PICK U \in B : \A V \in B : ~(V \subseteq U /\ V # U)
  <2>1. B \subseteq SUBSET S
    OBVIOUS
  <2>. HIDE DEF B
  <2>. QED BY <1>1, <2>1, SmallestSubset
<1>3. U \subseteq S /\ IsFiniteSet(U) /\ IsFiniteSet(T) /\ T \subseteq U
      /\ ~(SumFunctionOnSet(f, T) <= SumFunctionOnSet(f, U))
  BY <1>2, FS_Subset
<1>4. SumFunctionOnSet(f, T) \in Nat
  BY <1>3, SumNat
<1>5. PICK x \in U : x \notin T
  BY <1>3, <1>4
<1>6. SumFunctionOnSet(f, U) = f[x] + SumFunctionOnSet(f, U \ {x})
  BY <1>3, SumRemove
<1>7. SumFunctionOnSet(f, T) <= SumFunctionOnSet(f, U \ {x})
  <2>1. U \ {x} \in SUBSET S /\ U \ {x} \subseteq U /\ U \ {x} # U /\ T \subseteq U \ {x}
    BY <1>3, <1>5
  <2>. QED BY <1>2, <2>1
<1>8. SumFunctionOnSet(f, U \ {x}) \in Nat /\ f[x] \in Nat
  <2>1. IsFiniteSet(U \ {x}) /\ \A y \in U \ {x} : f[y] \in Nat
    BY <1>3, FS_Subset
  <2>. QED BY <1>3, <2>1, SumNat
<1>. QED BY <1>3, <1>4, <1>6, <1>7, <1>8

\* One summand changes.
LEMMA SumUpdate ==
  ASSUME NEW f, NEW g, NEW S, IsFiniteSet(S), NEW x \in S,
         \A y \in S : f[y] \in Int /\ g[y] \in Int, \A y \in S \ {x} : g[y] = f[y]
  PROVE  SumFunctionOnSet(g, S) = SumFunctionOnSet(f, S) - f[x] + g[x]
<1>1. IsFiniteSet(S \ {x}) /\ \A y \in S \ {x} : f[y] \in Int
  BY FS_Subset
<1>2. /\ SumFunctionOnSet(f, S) = f[x] + SumFunctionOnSet(f, S \ {x})
      /\ SumFunctionOnSet(g, S) = g[x] + SumFunctionOnSet(g, S \ {x})
  BY SumRemove
<1>3. SumFunctionOnSet(g, S \ {x}) = SumFunctionOnSet(f, S \ {x})
  BY <1>1, SumSame
<1>4. SumFunctionOnSet(f, S \ {x}) \in Int
  BY <1>1, SumType
<1>. QED BY <1>2, <1>3, <1>4

LEMMA ImageFinite ==
  ASSUME NEW S, IsFiniteSet(S), NEW h
  PROVE  IsFiniteSet({h[x] : x \in S})
<1>. DEFINE T == {h[x] : x \in S}
            k == [x \in S |-> h[x]]
<1>1. k \in Surjection(S, T)
  BY DEF Surjection
<1>. HIDE DEF T, k
<1>2. IsFiniteSet(T)
  BY <1>1, FS_Surjection
<1>. QED BY <1>2 DEF T

\* Rows that are told apart by h add up to what their images do.
LEMMA SumImage ==
  ASSUME NEW f, NEW g, NEW h, NEW S, IsFiniteSet(S),
         \A x, y \in S : h[x] = h[y] => x = y,
         \A x \in S : g[x] = f[h[x]] /\ g[x] \in Int
  PROVE  SumFunctionOnSet(f, {h[x] : x \in S}) = SumFunctionOnSet(g, S)
<1>. DEFINE Image(U) == {h[x] : x \in U}
            B == {U \in SUBSET S : SumFunctionOnSet(f, Image(U)) # SumFunctionOnSet(g, U)}
<1>1. SUFFICES ASSUME B # {} PROVE FALSE
  OBVIOUS
<1>2. PICK U \in B : \A V \in B : ~(V \subseteq U /\ V # U)
  <2>1. B \subseteq SUBSET S
    OBVIOUS
  <2>. HIDE DEF B
  <2>. QED BY <1>1, <2>1, SmallestSubset
<1>3. U \subseteq S /\ IsFiniteSet(U) /\ SumFunctionOnSet(f, Image(U)) # SumFunctionOnSet(g, U)
  BY <1>2, FS_Subset
<1>4. U # {}
  <2>1. Image({}) = {}
    OBVIOUS
  <2>. QED BY <1>3, <2>1, SumEmpty
<1>5. Rest(U) \subseteq U /\ Rest(U) # U /\ Chosen(U) \in U /\ IsFiniteSet(Rest(U))
  BY <1>3, <1>4, ChosenIsIn, FS_Subset DEF Rest
<1>6. SumFunctionOnSet(f, Image(Rest(U))) = SumFunctionOnSet(g, Rest(U))
  BY <1>2, <1>3, <1>5
<1>7. Image(U) = Image(Rest(U)) \cup {h[Chosen(U)]} /\ h[Chosen(U)] \notin Image(Rest(U))
  BY <1>3, <1>5 DEF Rest
<1>8. IsFiniteSet(Image(Rest(U))) /\ \A y \in Image(Rest(U)) : f[y] \in Int
  <2>1. IsFiniteSet(Image(Rest(U)))
    BY <1>5, ImageFinite
  <2>. QED BY <1>3, <1>5, <2>1
<1>9. f[h[Chosen(U)]] \in Int /\ f[h[Chosen(U)]] = g[Chosen(U)]
  BY <1>3, <1>5
<1>. HIDE DEF Image, B
<1>10. SumFunctionOnSet(f, Image(U)) = SumFunctionOnSet(f, Image(Rest(U))) + f[h[Chosen(U)]]
  BY <1>7, <1>8, <1>9, SumAdd
<1>11. SumFunctionOnSet(g, U) = g[Chosen(U)] + SumFunctionOnSet(g, Rest(U))
  BY <1>3, <1>4, SumStep
<1>12. SumFunctionOnSet(g, Rest(U)) \in Int
  BY <1>3, <1>5, SumType
<1>. QED BY <1>3, <1>6, <1>9, <1>10, <1>11, <1>12

\* Sums are added row by row.
LEMMA SumPlus ==
  ASSUME NEW f, NEW g, NEW h, NEW S, IsFiniteSet(S),
         \A x \in S : f[x] \in Int /\ g[x] \in Int /\ h[x] = f[x] + g[x]
  PROVE  SumFunctionOnSet(h, S) = SumFunctionOnSet(f, S) + SumFunctionOnSet(g, S)
<1>. DEFINE B == {U \in SUBSET S :
                    SumFunctionOnSet(h, U) # SumFunctionOnSet(f, U) + SumFunctionOnSet(g, U)}
<1>1. SUFFICES ASSUME B # {} PROVE FALSE
  OBVIOUS
<1>2. PICK U \in B : \A V \in B : ~(V \subseteq U /\ V # U)
  <2>1. B \subseteq SUBSET S
    OBVIOUS
  <2>. HIDE DEF B
  <2>. QED BY <1>1, <2>1, SmallestSubset
<1>3. /\ U \subseteq S /\ IsFiniteSet(U)
      /\ SumFunctionOnSet(h, U) # SumFunctionOnSet(f, U) + SumFunctionOnSet(g, U)
  BY <1>2, FS_Subset
<1>4. U # {}
  BY <1>3, SumEmpty
<1>5. Rest(U) \subseteq U /\ Rest(U) # U /\ Chosen(U) \in U
  BY <1>4, ChosenIsIn DEF Rest
<1>6. SumFunctionOnSet(h, Rest(U)) = SumFunctionOnSet(f, Rest(U)) + SumFunctionOnSet(g, Rest(U))
  BY <1>2, <1>3, <1>5
<1>7. /\ SumFunctionOnSet(h, U) = h[Chosen(U)] + SumFunctionOnSet(h, Rest(U))
      /\ SumFunctionOnSet(f, U) = f[Chosen(U)] + SumFunctionOnSet(f, Rest(U))
      /\ SumFunctionOnSet(g, U) = g[Chosen(U)] + SumFunctionOnSet(g, Rest(U))
  BY <1>3, <1>4, SumStep
<1>8. SumFunctionOnSet(f, Rest(U)) \in Int /\ SumFunctionOnSet(g, Rest(U)) \in Int
  <2>1. IsFiniteSet(Rest(U)) /\ \A x \in Rest(U) : f[x] \in Int /\ g[x] \in Int
    BY <1>3, <1>5, FS_Subset
  <2>. QED BY <2>1, SumType
<1>9. f[Chosen(U)] \in Int /\ g[Chosen(U)] \in Int /\ h[Chosen(U)] = f[Chosen(U)] + g[Chosen(U)]
  BY <1>3, <1>5
<1>. QED BY <1>3, <1>6, <1>7, <1>8, <1>9

\* Rows of nothing add nothing.
LEMMA SumWithin ==
  ASSUME NEW f, NEW S, IsFiniteSet(S), \A x \in S : f[x] \in Int, NEW T, T \subseteq S,
         \A x \in S \ T : f[x] = 0
  PROVE  SumFunctionOnSet(f, T) = SumFunctionOnSet(f, S)
<1>. DEFINE B == {U \in SUBSET S : T \subseteq U /\ SumFunctionOnSet(f, T) # SumFunctionOnSet(f, U)}
<1>1. SUFFICES ASSUME B # {} PROVE FALSE
  OBVIOUS
<1>2. PICK U \in B : \A V \in B : ~(V \subseteq U /\ V # U)
  <2>1. B \subseteq SUBSET S
    OBVIOUS
  <2>. HIDE DEF B
  <2>. QED BY <1>1, <2>1, SmallestSubset
<1>3. /\ U \subseteq S /\ IsFiniteSet(U) /\ T \subseteq U
      /\ SumFunctionOnSet(f, T) # SumFunctionOnSet(f, U)
  BY <1>2, FS_Subset
<1>4. PICK x \in U : x \notin T
  BY <1>3
<1>5. SumFunctionOnSet(f, U) = f[x] + SumFunctionOnSet(f, U \ {x})
  BY <1>3, SumRemove
<1>6. SumFunctionOnSet(f, T) = SumFunctionOnSet(f, U \ {x})
  BY <1>2, <1>3, <1>4
<1>7. SumFunctionOnSet(f, U \ {x}) \in Int
  <2>1. IsFiniteSet(U \ {x}) /\ \A y \in U \ {x} : f[y] \in Int
    BY <1>3, FS_Subset
  <2>. QED BY <2>1, SumType
<1>8. f[x] = 0
  BY <1>3, <1>4
<1>. QED BY <1>3, <1>5, <1>6, <1>7, <1>8

\* The same summand everywhere is a product.
LEMMA SumConst ==
  ASSUME NEW f, NEW S, IsFiniteSet(S), NEW c \in Int, \A x \in S : f[x] = c
  PROVE  SumFunctionOnSet(f, S) = c * Cardinality(S)
<1>. DEFINE B == {U \in SUBSET S : SumFunctionOnSet(f, U) # c * Cardinality(U)}
<1>1. SUFFICES ASSUME B # {} PROVE FALSE
  OBVIOUS
<1>2. PICK U \in B : \A V \in B : ~(V \subseteq U /\ V # U)
  <2>1. B \subseteq SUBSET S
    OBVIOUS
  <2>. HIDE DEF B
  <2>. QED BY <1>1, <2>1, SmallestSubset
<1>3. U \subseteq S /\ IsFiniteSet(U) /\ SumFunctionOnSet(f, U) # c * Cardinality(U)
  BY <1>2, FS_Subset
<1>4. U # {}
  <2>1. Cardinality({}) = 0
    BY FS_EmptySet
  <2>2. c * 0 = 0
    OBVIOUS
  <2>. QED BY <1>3, <2>1, <2>2, SumEmpty
<1>5. /\ Rest(U) \subseteq U /\ Rest(U) # U /\ Chosen(U) \in U /\ Rest(U) = U \ {Chosen(U)}
  BY <1>4, ChosenIsIn DEF Rest
<1>6. SumFunctionOnSet(f, Rest(U)) = c * Cardinality(Rest(U))
  BY <1>2, <1>3, <1>5
<1>7. /\ IsFiniteSet(Rest(U)) /\ Cardinality(Rest(U)) = Cardinality(U) - 1
  BY <1>3, <1>5, FS_RemoveElement
<1>8. PICK n \in Nat : Cardinality(U) = n
  BY <1>3, FS_CardinalityType
<1>9. SumFunctionOnSet(f, U) = c + SumFunctionOnSet(f, Rest(U))
  BY <1>3, <1>4, <1>5, SumStep
<1>10. c + c * (n - 1) = c * n
  OBVIOUS
<1>. QED BY <1>3, <1>6, <1>7, <1>8, <1>9, <1>10

\* The groups of a set add up to the set.
LEMMA SumOfGroups ==
  ASSUME NEW S, IsFiniteSet(S), NEW h, NEW G, IsFiniteSet(G), \A x \in S : h[x] \in G
  PROVE  SumFunctionOnSet([g \in G |-> Cardinality({x \in S : h[x] = g})], G) = Cardinality(S)
<1>. DEFINE group(U, g) == {x \in U : h[x] = g}
            size(U) == [g \in G |-> Cardinality(group(U, g))]
            B == {U \in SUBSET S : SumFunctionOnSet(size(U), G) # Cardinality(U)}
<1>1. SUFFICES ASSUME B # {} PROVE FALSE
  <2>1. S \in SUBSET S
    OBVIOUS
  <2>. QED BY <2>1
<1>2. PICK U \in B : \A V \in B : ~(V \subseteq U /\ V # U)
  <2>1. B \subseteq SUBSET S
    OBVIOUS
  <2>. HIDE DEF B
  <2>. QED BY <1>1, <2>1, SmallestSubset
<1>3. U \subseteq S /\ IsFiniteSet(U) /\ SumFunctionOnSet(size(U), G) # Cardinality(U)
  BY <1>2, FS_Subset
<1>4. U # {}
  <2>1. SUFFICES ASSUME U = {} PROVE FALSE
    OBVIOUS
  <2>2. \A g \in G : size(U)[g] = 0
    <3>1. \A g : group(U, g) = {}
      BY <2>1
    <3>. HIDE DEF group
    <3>. QED BY <3>1, FS_EmptySet
  <2>. HIDE DEF size
  <2>3. SumFunctionOnSet(size(U), G) = 0 * Cardinality(G)
    BY <2>2, SumConst
  <2>4. Cardinality(G) \in Nat /\ Cardinality(U) = 0
    BY <2>1, FS_CardinalityType, FS_EmptySet
  <2>. QED BY <1>3, <2>3, <2>4
<1>5. PICK x \in U : TRUE
  BY <1>4
<1>. DEFINE V == U \ {x}
<1>6. V \in SUBSET S /\ V \subseteq U /\ V # U /\ x \notin V
  BY <1>3, <1>5
<1>7. SumFunctionOnSet(size(V), G) = Cardinality(V)
  <2>1. V \notin B
    <3>. HIDE DEF V, B
    <3>. QED BY <1>2, <1>6
  <2>. HIDE DEF size, V
  <2>. QED BY <1>6, <2>1
<1>8. /\ IsFiniteSet(V) /\ Cardinality(V) = Cardinality(U) - 1
      /\ Cardinality(U) \in Nat
  BY <1>3, FS_RemoveElement, FS_CardinalityType
<1>9. h[x] \in G
  BY <1>3
<1>10. \A g : IsFiniteSet(group(U, g)) /\ IsFiniteSet(group(V, g))
              /\ Cardinality(group(U, g)) \in Nat /\ Cardinality(group(V, g)) \in Nat
  <2>. TAKE g
  <2>1. group(U, g) \in SUBSET U /\ group(V, g) \in SUBSET V
    OBVIOUS
  <2>. HIDE DEF group, V
  <2>. QED BY <1>3, <1>8, <2>1, FS_Subset, FS_CardinalityType
<1>11. \A g \in G \ {h[x]} : group(U, g) = group(V, g)
  OBVIOUS
<1>12. group(U, h[x]) = group(V, h[x]) \cup {x} /\ x \notin group(V, h[x])
  OBVIOUS
<1>. HIDE DEF group, V
<1>13. Cardinality(group(U, h[x])) = Cardinality(group(V, h[x])) + 1
  BY <1>10, <1>12, FS_AddElement
<1>14. /\ \A g \in G : size(V)[g] \in Int /\ size(U)[g] \in Int
       /\ \A g \in G \ {h[x]} : size(U)[g] = size(V)[g]
       /\ size(U)[h[x]] = size(V)[h[x]] + 1
  BY <1>9, <1>10, <1>11, <1>13
<1>. HIDE DEF size
<1>15. SumFunctionOnSet(size(U), G) = SumFunctionOnSet(size(V), G) - size(V)[h[x]] + size(U)[h[x]]
  BY <1>9, <1>14, SumUpdate
<1>16. size(V)[h[x]] \in Int
  BY <1>9, <1>14
<1>. QED BY <1>3, <1>7, <1>8, <1>14, <1>15, <1>16

----
\* A finite set of integers has a largest member.
LEMMA LargestIsMax ==
  ASSUME NEW S, IsFiniteSet(S), S # {}
  PROVE  S \subseteq Int => Max(S) \in S /\ \A y \in S : Max(S) >= y
<1>. DEFINE Up(y) == {z \in S : z >= y}
            B == {Up(y) : y \in S}
<1>1. B \subseteq SUBSET S /\ B # {}
  OBVIOUS
<1>2. PICK T \in B : \A U \in B : ~(U \subseteq T /\ U # T)
  <2>. HIDE DEF B, Up
  <2>. QED BY <1>1, SmallestSubset
<1>3. PICK x \in S : T = Up(x)
  BY <1>2
<1>4. ASSUME S \subseteq Int PROVE \A y \in S : x >= y
  <2>1. SUFFICES ASSUME NEW y \in S, ~(x >= y) PROVE FALSE
    OBVIOUS
  <2>2. x \in Int /\ y \in Int /\ y > x
    BY <1>4, <2>1
  <2>3. \A z \in Int : z >= y => z >= x
    BY <2>2
  <2>4. x >= x
    BY <2>2
  <2>5. Up(y) \subseteq Up(x) /\ x \in Up(x) /\ x \notin Up(y)
    BY <1>4, <2>1, <2>3, <2>4
  <2>6. Up(y) \in B
    OBVIOUS
  <2>. HIDE DEF B, Up
  <2>. QED BY <1>2, <1>3, <2>5, <2>6
<1>. QED BY <1>4 DEF Max

\* A finite set of integers has a smallest member.
LEMMA SmallestIsMin ==
  ASSUME NEW S, IsFiniteSet(S), S # {}
  PROVE  S \subseteq Int => Min(S) \in S /\ \A y \in S : Min(S) <= y
<1>. DEFINE down == [y \in S |-> -y]
            downs == {down[y] : y \in S}
<1>1. SUFFICES ASSUME S \subseteq Int PROVE Min(S) \in S /\ \A y \in S : Min(S) <= y
  OBVIOUS
<1>2. IsFiniteSet(downs)
  <2>. HIDE DEF down
  <2>. QED BY ImageFinite
<1>3. downs # {} /\ downs \subseteq Int
  <2>1. \A y \in S : down[y] = -y /\ y \in Int
    BY <1>1
  <2>. HIDE DEF down
  <2>. QED BY <2>1
<1>4. PICK top \in downs : \A z \in downs : top >= z
  <2>. HIDE DEF downs
  <2>. QED BY <1>2, <1>3, LargestIsMax
<1>5. PICK x \in S : top = down[x]
  BY <1>4
<1>6. ASSUME NEW y \in S PROVE x <= y
  <2>1. down[y] \in downs /\ down[y] = -y /\ down[x] = -x /\ x \in Int /\ y \in Int
    BY <1>1
  <2>2. top >= down[y]
    BY <1>4, <2>1
  <2>. QED BY <1>5, <2>1, <2>2
<1>. QED BY <1>6 DEF Min

\* What holds of 0 and of the next of every number below N holds up to N.
LEMMA CountsUpwards ==
  ASSUME NEW N \in Nat, NEW S, 0 \in S, \A n \in 0 .. N - 1 : n \in S => n + 1 \in S
  PROVE  0 .. N \subseteq S
<1>. DEFINE off == (0 .. N) \ S
<1>1. SUFFICES ASSUME off # {} PROVE FALSE
  OBVIOUS
<1>2. IsFiniteSet(off)
  <2>1. IsFiniteSet(0 .. N) /\ off \subseteq 0 .. N
    BY FS_Interval
  <2>. HIDE DEF off
  <2>. QED BY <2>1, FS_Subset
<1>3. Min(off) \in off /\ \A y \in off : Min(off) <= y
  <2>1. off \subseteq Int
    OBVIOUS
  <2>. HIDE DEF off
  <2>. QED BY <1>1, <1>2, <2>1, SmallestIsMin
<1>. DEFINE k == Min(off)
<1>4. k \in 0 .. N /\ k \notin S /\ k # 0
  BY <1>3
<1>5. ASSUME k - 1 \in off PROVE FALSE
  <2>1. k <= k - 1
    BY <1>3, <1>5
  <2>. QED BY <1>4, <2>1
<1>. HIDE DEF k
<1>6. k - 1 \in 0 .. N - 1 /\ (k - 1) + 1 = k
  BY <1>4
<1>7. k - 1 \notin S
  BY <1>4, <1>6
<1>. QED BY <1>5, <1>6, <1>7

\* The largest member is the only one that no other exceeds.
LEMMA MaxIs ==
  ASSUME NEW S, IsFiniteSet(S), S \subseteq Int, NEW x \in S, \A y \in S : x >= y
  PROVE  Max(S) = x
<1>1. Max(S) \in S /\ Max(S) >= x
  BY LargestIsMax
<1>2. x >= Max(S) /\ x \in Int /\ Max(S) \in Int
  BY <1>1
<1>. QED BY <1>1, <1>2

LEMMA MinOfTwo ==
  ASSUME NEW x \in Int, NEW y \in Int
  PROVE  Min({x, y}) = IF x <= y THEN x ELSE y
BY DEF Min

LEMMA MaxOfTwo ==
  ASSUME NEW x \in Int, NEW y \in Int
  PROVE  Max({x, y}) = IF x >= y THEN x ELSE y
BY DEF Max

----
(* Places in a strict total order. *)

\* The place of a member of a finite set in a strict total order, and what is
\* asked of the order.
Standing(all, order, c) == 1 + Cardinality({b \in all : <<b, c>> \in order})
StrictlyOrders(order, all) ==
  /\ \A a \in all : <<a, a>> \notin order
  /\ \A a, b \in all : a = b \/ <<a, b>> \in order \/ <<b, a>> \in order
  /\ \A a, b, c \in all : <<a, b>> \in order /\ <<b, c>> \in order => <<a, c>> \in order

\* The places are the ranks 1, 2, ... up to the number of members, each of them
\* taken once, and the order of the places is the order of the members.
LEMMA StandingsAreRanks ==
  ASSUME NEW all, IsFiniteSet(all), NEW order, StrictlyOrders(order, all)
  PROVE  /\ \A c \in all : Standing(all, order, c) \in 1 .. Cardinality(all)
         /\ \A a, b \in all : <<a, b>> \in order <=> Standing(all, order, a) < Standing(all, order, b)
         /\ \A r \in 1 .. Cardinality(all) : \E c \in all : Standing(all, order, c) = r
<1>. DEFINE ahead(c) == {b \in all : <<b, c>> \in order}
            n == Cardinality(all)
            f == [c \in all |-> Standing(all, order, c)]
<1>1. IsFiniteSet(all) /\ n \in Nat
  BY FS_CardinalityType
<1>2. ASSUME NEW c \in all
      PROVE  /\ IsFiniteSet(ahead(c)) /\ Cardinality(ahead(c)) \in Nat
             /\ Cardinality(ahead(c)) < n /\ Standing(all, order, c) = 1 + Cardinality(ahead(c))
  <2>1. ahead(c) \in SUBSET all /\ c \notin ahead(c)
    BY DEF StrictlyOrders
  <2>2. Standing(all, order, c) = 1 + Cardinality(ahead(c))
    BY DEF Standing
  <2>. HIDE DEF ahead
  <2>3. /\ IsFiniteSet(ahead(c)) /\ Cardinality(ahead(c)) <= n
        /\ n = Cardinality(ahead(c)) => all = ahead(c)
    BY <1>1, <2>1, FS_Subset
  <2>4. Cardinality(ahead(c)) \in Nat
    BY <2>3, FS_CardinalityType
  <2>. HIDE DEF n
  <2>. QED BY <1>1, <2>1, <2>2, <2>3, <2>4
<1>3. ASSUME NEW a \in all, NEW b \in all, <<a, b>> \in order
      PROVE  Standing(all, order, a) < Standing(all, order, b)
  <2>1. ahead(a) \in SUBSET ahead(b) /\ a \in ahead(b) /\ a \notin ahead(a)
    BY <1>3 DEF StrictlyOrders
  <2>. HIDE DEF ahead
  <2>2. /\ Cardinality(ahead(a)) <= Cardinality(ahead(b))
        /\ Cardinality(ahead(b)) = Cardinality(ahead(a)) => ahead(b) = ahead(a)
    BY <1>2, <2>1, FS_Subset
  <2>3. /\ Standing(all, order, a) = 1 + Cardinality(ahead(a)) /\ Cardinality(ahead(a)) \in Nat
        /\ Standing(all, order, b) = 1 + Cardinality(ahead(b)) /\ Cardinality(ahead(b)) \in Nat
    BY <1>2
  <2>4. Cardinality(ahead(b)) # Cardinality(ahead(a))
    BY <2>1, <2>2
  <2>. QED BY <2>2, <2>3, <2>4
<1>4. \A c \in all : Standing(all, order, c) \in 1 .. n
  <2>. TAKE c \in all
  <2>. DEFINE k == Cardinality(ahead(c))
  <2>1. k \in Nat /\ k < n /\ Standing(all, order, c) = 1 + k
    BY <1>2
  <2>. HIDE DEF k, n
  <2>. QED BY <1>1, <2>1
<1>. HIDE DEF ahead
<1>5. ASSUME NEW a \in all, NEW b \in all, Standing(all, order, a) < Standing(all, order, b)
      PROVE  <<a, b>> \in order
  <2>1. Standing(all, order, a) \in Int /\ Standing(all, order, b) \in Int
    BY <1>4
  <2>2. a # b /\ <<b, a>> \notin order
    BY <1>3, <1>5, <2>1
  <2>. QED BY <2>2 DEF StrictlyOrders
<1>6. f \in Injection(all, 1 .. n)
  <2>1. f \in [all -> 1 .. n]
    <3>. HIDE DEF n
    <3>. QED BY <1>4
  <2>2. ASSUME NEW a \in all, NEW b \in all, f[a] = f[b] PROVE a = b
    <3>1. Standing(all, order, a) = Standing(all, order, b) /\ Standing(all, order, a) \in Int
      BY <1>4, <2>2
    <3>2. <<a, b>> \notin order /\ <<b, a>> \notin order
      BY <1>3, <3>1
    <3>. QED BY <3>2 DEF StrictlyOrders
  <2>3. DOMAIN f = all
    OBVIOUS
  <2>. HIDE DEF f, n
  <2>4. IsInjective(f)
    BY <2>2, <2>3 DEF IsInjective
  <2>. QED BY <2>1, <2>4 DEF Injection
<1>7. IsFiniteSet(1 .. n) /\ Cardinality(1 .. n) = n
  <2>. HIDE DEF n
  <2>1. /\ IsFiniteSet(1 .. n)
        /\ Cardinality(1 .. n) = IF 1 > n THEN 0 ELSE n - 1 + 1
    BY <1>1, FS_Interval
  <2>. QED BY <1>1, <2>1
<1>8. f \in Surjection(all, 1 .. n)
  <2>. HIDE DEF f
  <2>. QED BY <1>6, <1>7, FS_Injection
<1>9. \A r \in 1 .. n : \E c \in all : Standing(all, order, c) = r
  <2>1. \A r \in 1 .. n : \E c \in all : f[c] = r
    <3>. HIDE DEF f, n
    <3>. QED BY <1>8 DEF Surjection
  <2>. HIDE DEF n
  <2>. QED BY <2>1
<1>. QED BY <1>3, <1>4, <1>5, <1>9
====
