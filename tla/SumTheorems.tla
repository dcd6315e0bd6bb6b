---------------------------- MODULE SumTheorems ----------------------------
(* Sums of a function over a finite set, and of a sequence: the community     *)
(* modules' SumFunctionOnSet and SumFunction, for every function and set; and *)
(* places in a finite set of numbers, its least and its greatest among them.  *)
(* Induction over finite sets is by a smallest counterexample.                *)
EXTENDS Integers, Sequences, FiniteSets, Functions, FiniteSetTheorems, TLAPS

\* Of some finite sets, one has no other inside it.
LEMMA SmallestSet ==
  ASSUME NEW P, P # {}, \A T \in P : IsFiniteSet(T)
  PROVE  \E T \in P : \A U \in P : ~(U \subseteq T /\ U # T)
<1> DEFINE D == UNION P
<1>1. P \subseteq FiniteSubsetsOf(D)
  BY DEF FiniteSubsetsOf
<1>2. PICK T \in P : \A U \in P : ~(<<U, T>> \in StrictSubsetOrdering(D))
  BY <1>1, FS_StrictSubsetOrderingWellFounded, WFMin
<1>3. ASSUME NEW U \in P, U \subseteq T, U # T PROVE FALSE
  <2>1. U \in SUBSET D /\ T \in SUBSET D
    OBVIOUS
  <2>2. <<U, T>> \in StrictSubsetOrdering(D)
    BY <1>3, <2>1 DEF StrictSubsetOrdering
  <2> QED BY <2>2, <1>2
<1> QED BY <1>3

Chosen(T) == CHOOSE x \in T : TRUE

LEMMA ChosenIsOne == ASSUME NEW T, T # {} PROVE Chosen(T) \in T
BY DEF Chosen

\* What SumFunctionOnSet computes: g gives every subset of S its sum.
SumTable(f, S, g) ==
  g = [T \in SUBSET S |-> IF T = {} THEN 0 ELSE f[Chosen(T)] + g[T \ {Chosen(T)}]]

LEMMA SumByTable ==
  ASSUME NEW f, NEW S
  PROVE  SumFunctionOnSet(f, S) = (CHOOSE g : SumTable(f, S, g))[S]
BY DEF SumFunctionOnSet, FoldFunctionOnSet, MapThenFoldSet, SumTable, Chosen

LEMMA TableEntry ==
  ASSUME NEW f, NEW S, NEW g, SumTable(f, S, g), NEW T \in SUBSET S
  PROVE  g[T] = IF T = {} THEN 0 ELSE f[Chosen(T)] + g[T \ {Chosen(T)}]
<1>1. g = [U \in SUBSET S |-> IF U = {} THEN 0 ELSE f[Chosen(U)] + g[U \ {Chosen(U)}]]
  BY DEF SumTable
<1> QED BY <1>1

\* Two tables agree on the sets that both have.
LEMMA SumTablesAgree ==
  ASSUME NEW f, NEW S, NEW R, NEW g, NEW h, SumTable(f, S, g), SumTable(f, R, h),
         IsFiniteSet(S), NEW T \in SUBSET S, T \subseteq R
  PROVE  g[T] = h[T]
<1> DEFINE P == {U \in SUBSET S : U \subseteq R /\ g[U] # h[U]}
<1> SUFFICES ASSUME P # {} PROVE FALSE
  OBVIOUS
<1>1. \A U \in P : IsFiniteSet(U)
  BY FS_Subset
<1> HIDE DEF P
<1>2. PICK U \in P : \A V \in P : ~(V \subseteq U /\ V # U)
  BY <1>1, SmallestSet
<1> USE DEF P
<1>3. U \in SUBSET S /\ U \in SUBSET R /\ g[U] # h[U]
  BY <1>2
<1>4. g[U] = (IF U = {} THEN 0 ELSE f[Chosen(U)] + g[U \ {Chosen(U)}])
  BY <1>3, TableEntry
<1>5. h[U] = (IF U = {} THEN 0 ELSE f[Chosen(U)] + h[U \ {Chosen(U)}])
  BY <1>3, TableEntry
<1>6. U # {}
  BY <1>3, <1>4, <1>5
<1>7. U \ {Chosen(U)} \in SUBSET S /\ U \ {Chosen(U)} \subseteq R /\ U \ {Chosen(U)} # U
  BY <1>3, <1>6, ChosenIsOne
<1>8. g[U \ {Chosen(U)}] = h[U \ {Chosen(U)}]
  BY <1>2, <1>7
<1> QED BY <1>3, <1>4, <1>5, <1>8

\* Every finite set has a table.
LEMMA TableExists ==
  ASSUME NEW f, NEW S, IsFiniteSet(S)
  PROVE  \E g : SumTable(f, S, g)
<1> DEFINE P == {T \in SUBSET S : ~\E g : SumTable(f, T, g)}
<1> SUFFICES ASSUME P # {} PROVE FALSE
  OBVIOUS
<1>1. \A T \in P : IsFiniteSet(T)
  BY FS_Subset
<1> HIDE DEF P
<1>2. PICK T \in P : \A U \in P : ~(U \subseteq T /\ U # T)
  BY <1>1, SmallestSet
<1> USE DEF P
<1> DEFINE table(U) == CHOOSE g : SumTable(f, U, g)
           sum(U) == table(U)[U]
           g == [U \in SUBSET T |-> IF U = {} THEN 0 ELSE f[Chosen(U)] + sum(U \ {Chosen(U)})]
<1>3. ASSUME NEW U \in SUBSET T, U # T PROVE SumTable(f, U, table(U)) /\ IsFiniteSet(U)
  <2>1. U \in SUBSET S /\ U \notin P
    BY <1>2, <1>3
  <2>2. \E h : SumTable(f, U, h)
    BY <2>1
  <2>3. SumTable(f, U, table(U))
    BY <2>2
  <2> QED BY <2>1, <2>3, FS_Subset
<1>4. ASSUME NEW U \in SUBSET T, U # T, U # {}
      PROVE  sum(U) = f[Chosen(U)] + sum(U \ {Chosen(U)})
  <2> DEFINE V == U \ {Chosen(U)}
  <2>1. V \in SUBSET U /\ V \in SUBSET T /\ V # T
    BY <1>4
  <2>2. SumTable(f, U, table(U)) /\ SumTable(f, V, table(V)) /\ IsFiniteSet(U)
    BY <1>3, <1>4, <2>1
  <2> HIDE DEF table, V
  <2>3. table(U)[V] = table(V)[V]
    BY <2>1, <2>2, SumTablesAgree
  <2>4. table(U)[U] = f[Chosen(U)] + table(U)[U \ {Chosen(U)}]
    BY <1>4, <2>2, TableEntry
  <2> QED BY <2>3, <2>4 DEF V
<1>5. ASSUME NEW U \in SUBSET T, U # T PROVE sum(U) = g[U]
  <2>1. CASE U = {}
    <3>1. SumTable(f, U, table(U))
      BY <1>3, <1>5
    <3> HIDE DEF table
    <3>2. table(U)[U] = 0
      BY <2>1, <3>1, TableEntry
    <3> QED BY <2>1, <3>2
  <2>2. CASE U # {}
    <3>1. sum(U) = f[Chosen(U)] + sum(U \ {Chosen(U)})
      BY <1>4, <1>5, <2>2
    <3> HIDE DEF sum
    <3> QED BY <3>1, <2>2
  <2> QED BY <2>1, <2>2
<1>6. SumTable(f, T, g)
  <2>1. ASSUME NEW U \in SUBSET T, U # {}
        PROVE  sum(U \ {Chosen(U)}) = g[U \ {Chosen(U)}]
    <3>1. U \ {Chosen(U)} \in SUBSET T /\ U \ {Chosen(U)} # T
      BY <2>1, ChosenIsOne
    <3> HIDE DEF sum, g
    <3> QED BY <3>1, <1>5
  <2> HIDE DEF sum
  <2>2. g = [U \in SUBSET T |-> IF U = {} THEN 0 ELSE f[Chosen(U)] + g[U \ {Chosen(U)}]]
    BY <2>1
  <2> HIDE DEF g
  <2> QED BY <2>2 DEF SumTable
<1> HIDE DEF g
<1> QED BY <1>2, <1>6

\* The sum of a set is one of its members and the rest.
LEMMA SumUnfolds ==
  ASSUME NEW f, NEW S, IsFiniteSet(S)
  PROVE  /\ S = {} => SumFunctionOnSet(f, S) = 0
         /\ S # {} => SumFunctionOnSet(f, S)
                        = f[Chosen(S)] + SumFunctionOnSet(f, S \ {Chosen(S)})
<1> DEFINE table(U) == CHOOSE g : SumTable(f, U, g)
           V == S \ {Chosen(S)}
<1>1. V \subseteq S /\ IsFiniteSet(V)
  BY FS_Subset
<1>2. SumTable(f, S, table(S)) /\ SumTable(f, V, table(V))
  BY <1>1, TableExists
<1>3. SumFunctionOnSet(f, S) = table(S)[S] /\ SumFunctionOnSet(f, V) = table(V)[V]
  BY SumByTable
<1> HIDE DEF table, V
<1>4. table(S)[V] = table(V)[V]
  BY <1>1, <1>2, SumTablesAgree
<1>5. S = {} => table(S)[S] = 0
  BY <1>2, TableEntry
<1>6. S # {} => table(S)[S] = f[Chosen(S)] + table(S)[S \ {Chosen(S)}]
  BY <1>2, TableEntry
<1> QED BY <1>3, <1>4, <1>5, <1>6 DEF V

\* Sums of integers are integers.
LEMMA SumIsInt ==
  ASSUME NEW f, NEW S, IsFiniteSet(S), \A x \in S : f[x] \in Int
  PROVE  SumFunctionOnSet(f, S) \in Int
<1> DEFINE P == {T \in SUBSET S : SumFunctionOnSet(f, T) \notin Int}
<1> SUFFICES ASSUME P # {} PROVE FALSE
  OBVIOUS
<1>1. \A T \in P : IsFiniteSet(T)
  BY FS_Subset
<1> HIDE DEF P
<1>2. PICK T \in P : \A U \in P : ~(U \subseteq T /\ U # T)
  BY <1>1, SmallestSet
<1> USE DEF P
<1>3. T \in SUBSET S /\ IsFiniteSet(T) /\ SumFunctionOnSet(f, T) \notin Int
  BY <1>1, <1>2
<1>4. T # {}
  <2>1. T = {} => SumFunctionOnSet(f, T) = 0
    BY <1>3, SumUnfolds
  <2> QED BY <1>3, <2>1
<1>5. SumFunctionOnSet(f, T) = f[Chosen(T)] + SumFunctionOnSet(f, T \ {Chosen(T)})
  BY <1>3, <1>4, SumUnfolds
<1>6. Chosen(T) \in S /\ T \ {Chosen(T)} # T /\ T \ {Chosen(T)} \in SUBSET S
  BY <1>3, <1>4, ChosenIsOne
<1>7. SumFunctionOnSet(f, T \ {Chosen(T)}) \in Int
  BY <1>2, <1>6
<1> QED BY <1>3, <1>5, <1>6, <1>7

\* Any member may be taken out, not only the one that was chosen.
LEMMA SumTakes ==
  ASSUME NEW f, NEW S, IsFiniteSet(S), \A x \in S : f[x] \in Int, NEW a \in S
  PROVE  SumFunctionOnSet(f, S) = f[a] + SumFunctionOnSet(f, S \ {a})
<1> DEFINE sum(T) == SumFunctionOnSet(f, T)
           P == {T \in SUBSET S : \E x \in T : sum(T) # f[x] + sum(T \ {x})}
<1> SUFFICES ASSUME P # {} PROVE FALSE
  OBVIOUS
<1>1. \A T \in P : IsFiniteSet(T)
  BY FS_Subset
<1> HIDE DEF P
<1>2. PICK T \in P : \A U \in P : ~(U \subseteq T /\ U # T)
  BY <1>1, SmallestSet
<1> USE DEF P
<1>3. T \in SUBSET S /\ IsFiniteSet(T)
  BY <1>1, <1>2
<1>4. PICK x \in T : sum(T) # f[x] + sum(T \ {x})
  BY <1>2
<1> DEFINE c == Chosen(T)
<1>5. c \in T
  BY <1>4, ChosenIsOne
<1>6. sum(T) = f[c] + sum(T \ {c})
  BY <1>3, <1>4, SumUnfolds
<1>7. x # c
  BY <1>4, <1>6
<1>8. \A U \in SUBSET T : IsFiniteSet(U) /\ sum(U) \in Int
  <2> SUFFICES ASSUME NEW U \in SUBSET T PROVE IsFiniteSet(U) /\ sum(U) \in Int
    OBVIOUS
  <2>1. IsFiniteSet(U) /\ \A y \in U : f[y] \in Int
    BY <1>3, FS_Subset
  <2> QED BY <2>1, SumIsInt
<1> HIDE DEF sum, c
<1>9. ASSUME NEW U \in SUBSET T, U # T, NEW y \in U PROVE sum(U) = f[y] + sum(U \ {y})
  <2>1. U \in SUBSET S /\ U \notin P
    BY <1>2, <1>3, <1>9
  <2> QED BY <2>1
<1> DEFINE W == T \ {c, x}
<1>10. sum(T \ {c}) = f[x] + sum(W)
  <2>1. (T \ {c}) \ {x} = W /\ T \ {c} # T /\ x \in T \ {c}
    BY <1>4, <1>5, <1>7
  <2> QED BY <2>1, <1>9
<1>11. sum(T \ {x}) = f[c] + sum(W)
  <2>1. (T \ {x}) \ {c} = W /\ T \ {x} # T /\ c \in T \ {x}
    BY <1>4, <1>5, <1>7
  <2> QED BY <2>1, <1>9
<1>12. sum(W) \in Int /\ f[c] \in Int /\ f[x] \in Int
  BY <1>3, <1>5, <1>8
<1> HIDE DEF W
<1> QED BY <1>4, <1>6, <1>10, <1>11, <1>12

\* A sum depends on no more than what is summed.
LEMMA SumSame ==
  ASSUME NEW f, NEW h, NEW S, IsFiniteSet(S), \A x \in S : f[x] = h[x]
  PROVE  SumFunctionOnSet(f, S) = SumFunctionOnSet(h, S)
<1> DEFINE P == {T \in SUBSET S : SumFunctionOnSet(f, T) # SumFunctionOnSet(h, T)}
<1> SUFFICES ASSUME P # {} PROVE FALSE
  OBVIOUS
<1>1. \A T \in P : IsFiniteSet(T)
  BY FS_Subset
<1> HIDE DEF P
<1>2. PICK T \in P : \A U \in P : ~(U \subseteq T /\ U # T)
  BY <1>1, SmallestSet
<1> USE DEF P
<1>3. T \in SUBSET S /\ IsFiniteSet(T) /\ SumFunctionOnSet(f, T) # SumFunctionOnSet(h, T)
  BY <1>1, <1>2
<1>4. T # {}
  <2>1. T = {} => SumFunctionOnSet(f, T) = 0 /\ SumFunctionOnSet(h, T) = 0
    BY <1>3, SumUnfolds
  <2> QED BY <1>3, <2>1
<1>5. /\ SumFunctionOnSet(f, T) = f[Chosen(T)] + SumFunctionOnSet(f, T \ {Chosen(T)})
      /\ SumFunctionOnSet(h, T) = h[Chosen(T)] + SumFunctionOnSet(h, T \ {Chosen(T)})
  BY <1>3, <1>4, SumUnfolds
<1>6. Chosen(T) \in S /\ T \ {Chosen(T)} # T /\ T \ {Chosen(T)} \in SUBSET S
  BY <1>3, <1>4, ChosenIsOne
<1>7. SumFunctionOnSet(f, T \ {Chosen(T)}) = SumFunctionOnSet(h, T \ {Chosen(T)})
  BY <1>2, <1>6
<1> QED BY <1>3, <1>5, <1>6, <1>7

\* Changing one summand changes the sum by as much.
LEMMA SumChanges ==
  ASSUME NEW f, NEW h, NEW S, IsFiniteSet(S), NEW a \in S,
         \A x \in S : f[x] \in Int /\ h[x] \in Int, \A x \in S \ {a} : f[x] = h[x]
  PROVE  SumFunctionOnSet(h, S) = SumFunctionOnSet(f, S) + (h[a] - f[a])
<1>1. IsFiniteSet(S \ {a})
  BY FS_Subset
<1>2. SumFunctionOnSet(f, S \ {a}) = SumFunctionOnSet(h, S \ {a})
  BY <1>1, SumSame
<1>3. SumFunctionOnSet(f, S \ {a}) \in Int
  BY <1>1, SumIsInt
<1>4. SumFunctionOnSet(f, S) = f[a] + SumFunctionOnSet(f, S \ {a})
  BY SumTakes
<1>5. SumFunctionOnSet(h, S) = h[a] + SumFunctionOnSet(h, S \ {a})
  BY SumTakes
<1> QED BY <1>2, <1>3, <1>4, <1>5

\* A new summand is added to the sum of the old ones.
LEMMA SumAdds ==
  ASSUME NEW f, NEW h, NEW S, IsFiniteSet(S), NEW a, a \notin S,
         \A x \in S : f[x] \in Int /\ h[x] = f[x], h[a] \in Int
  PROVE  SumFunctionOnSet(h, S \cup {a}) = SumFunctionOnSet(f, S) + h[a]
<1>1. IsFiniteSet(S \cup {a}) /\ (S \cup {a}) \ {a} = S
  BY FS_AddElement
<1>2. \A x \in S \cup {a} : h[x] \in Int
  OBVIOUS
<1>3. SumFunctionOnSet(h, S \cup {a}) = h[a] + SumFunctionOnSet(h, S)
  BY <1>1, <1>2, SumTakes
<1>4. SumFunctionOnSet(h, S) = SumFunctionOnSet(f, S)
  BY SumSame
<1>5. SumFunctionOnSet(f, S) \in Int
  BY SumIsInt
<1> QED BY <1>3, <1>4, <1>5

\* Sums of naturals are naturals.
LEMMA SumIsNat ==
  ASSUME NEW f, NEW S, IsFiniteSet(S), \A x \in S : f[x] \in Nat
  PROVE  SumFunctionOnSet(f, S) \in Nat
<1> DEFINE P == {T \in SUBSET S : SumFunctionOnSet(f, T) \notin Nat}
<1> SUFFICES ASSUME P # {} PROVE FALSE
  OBVIOUS
<1>1. \A T \in P : IsFiniteSet(T)
  BY FS_Subset
<1> HIDE DEF P
<1>2. PICK T \in P : \A U \in P : ~(U \subseteq T /\ U # T)
  BY <1>1, SmallestSet
<1> USE DEF P
<1>3. T \in SUBSET S /\ IsFiniteSet(T) /\ SumFunctionOnSet(f, T) \notin Nat
  BY <1>1, <1>2
<1>4. T # {}
  <2>1. T = {} => SumFunctionOnSet(f, T) = 0
    BY <1>3, SumUnfolds
  <2> QED BY <1>3, <2>1
<1>5. SumFunctionOnSet(f, T) = f[Chosen(T)] + SumFunctionOnSet(f, T \ {Chosen(T)})
  BY <1>3, <1>4, SumUnfolds
<1>6. Chosen(T) \in S /\ T \ {Chosen(T)} # T /\ T \ {Chosen(T)} \in SUBSET S
  BY <1>3, <1>4, ChosenIsOne
<1>7. SumFunctionOnSet(f, T \ {Chosen(T)}) \in Nat
  BY <1>2, <1>6
<1> QED BY <1>3, <1>5, <1>6, <1>7

LEMMA SumIsZero ==
  ASSUME NEW f, NEW S, IsFiniteSet(S), \A x \in S : f[x] = 0
  PROVE  SumFunctionOnSet(f, S) = 0
<1> DEFINE P == {T \in SUBSET S : SumFunctionOnSet(f, T) # 0}
<1>1. P = {}
  <2> SUFFICES ASSUME P # {} PROVE FALSE
    OBVIOUS
  <2>1. \A T \in P : IsFiniteSet(T)
    BY FS_Subset
  <2> HIDE DEF P
  <2>2. PICK T \in P : \A U \in P : ~(U \subseteq T /\ U # T)
    BY <2>1, SmallestSet
  <2>3. IsFiniteSet(T)
    BY <2>1
  <2> USE DEF P
  <2>4. T \in SUBSET S /\ SumFunctionOnSet(f, T) # 0
    BY <2>2
  <2>5. T # {}
    BY <2>3, <2>4, SumUnfolds
  <2>6. SumFunctionOnSet(f, T) = f[Chosen(T)] + SumFunctionOnSet(f, T \ {Chosen(T)})
    BY <2>3, <2>5, SumUnfolds
  <2>7. Chosen(T) \in T
    BY <2>5, ChosenIsOne
  <2>8. T \ {Chosen(T)} \in SUBSET S /\ T \ {Chosen(T)} # T
    BY <2>4, <2>7
  <2>9. SumFunctionOnSet(f, T \ {Chosen(T)}) = 0
    BY <2>2, <2>8
  <2>10. f[Chosen(T)] = 0
    BY <2>4, <2>7
  <2> QED BY <2>4, <2>6, <2>9, <2>10
<1> QED BY <1>1

\* A sequence is its head and its tail, in sum too.
Shifted(T) == {i + 1 : i \in T}

LEMMA SumOfTail ==
  ASSUME NEW s \in Seq(Nat), s # <<>>
  PROVE  SumFunctionOnSet(Tail(s), 1..Len(Tail(s))) = SumFunctionOnSet(s, 2..Len(s))
<1> DEFINE t == Tail(s)
           P == {T \in SUBSET (1..Len(t)) :
                   SumFunctionOnSet(t, T) # SumFunctionOnSet(s, Shifted(T))}
<1>1. /\ t \in Seq(Nat) /\ Len(s) \in Nat /\ Len(t) \in Nat /\ Len(s) = Len(t) + 1
      /\ \A i \in 1..Len(t) : t[i] = s[i + 1] /\ t[i] \in Nat
      /\ \A i \in 1..Len(s) : s[i] \in Nat
  OBVIOUS
<1> HIDE DEF t
<1>2. P = {}
  <2> SUFFICES ASSUME P # {} PROVE FALSE
    OBVIOUS
  <2>0. IsFiniteSet(1..Len(t)) /\ IsFiniteSet(1..Len(s))
    BY <1>1, FS_Interval
  <2>1. \A T \in P : IsFiniteSet(T)
    BY <2>0, FS_Subset
  <2> HIDE DEF P
  <2>2. PICK T \in P : \A U \in P : ~(U \subseteq T /\ U # T)
    BY <2>1, SmallestSet
  <2> USE DEF P
  <2>3. /\ T \in SUBSET (1..Len(t)) /\ IsFiniteSet(T)
        /\ SumFunctionOnSet(t, T) # SumFunctionOnSet(s, Shifted(T))
    BY <2>1, <2>2
  <2>4. Shifted(T) \in SUBSET (1..Len(s))
    BY <1>1, <2>3 DEF Shifted
  <2>5. IsFiniteSet(Shifted(T)) /\ \A i \in Shifted(T) : s[i] \in Int
    BY <1>1, <2>0, <2>4, FS_Subset
  <2>6. T # {}
    <3>1. SumFunctionOnSet(t, {}) = 0 /\ SumFunctionOnSet(s, {}) = 0
      BY SumUnfolds, FS_EmptySet
    <3>2. T = {} => Shifted(T) = {}
      BY DEF Shifted
    <3> QED BY <2>3, <3>1, <3>2
  <2>7. PICK x \in T : TRUE
    BY <2>6
  <2>8. SumFunctionOnSet(t, T) = t[x] + SumFunctionOnSet(t, T \ {x})
    <3>1. \A i \in T : t[i] \in Int
      BY <1>1, <2>3
    <3>2. IsFiniteSet(T) /\ x \in T
      BY <2>3
    <3> HIDE DEF P
    <3> QED BY <3>1, <3>2, SumTakes
  <2>9. SumFunctionOnSet(s, Shifted(T)) = s[x + 1] + SumFunctionOnSet(s, Shifted(T) \ {x + 1})
    <3>1. x + 1 \in Shifted(T)
      BY <2>7 DEF Shifted
    <3> QED BY <2>5, <3>1, SumTakes
  <2>10. Shifted(T \ {x}) = Shifted(T) \ {x + 1}
    <3>1. \A i \in T : i \in Int /\ (i + 1 = x + 1 <=> i = x)
      BY <1>1, <2>3, <2>7
    <3> QED BY <3>1 DEF Shifted
  <2>11. T \ {x} \in SUBSET (1..Len(t)) /\ T \ {x} \subseteq T /\ T \ {x} # T
    BY <2>3
  <2>12. SumFunctionOnSet(t, T \ {x}) = SumFunctionOnSet(s, Shifted(T \ {x}))
    BY <2>2, <2>11
  <2>13. t[x] = s[x + 1]
    BY <1>1, <2>3
  <2> QED BY <2>3, <2>8, <2>9, <2>10, <2>12, <2>13
<1>3. 1..Len(t) \notin P
  BY <1>2
<1>4. Shifted(1..Len(t)) = 2..Len(s)
  <2>1. ASSUME NEW i \in 2..Len(s) PROVE i \in Shifted(1..Len(t))
    <3>1. i - 1 \in 1..Len(t) /\ i = (i - 1) + 1
      BY <1>1
    <3> QED BY <3>1 DEF Shifted
  <2>2. Shifted(1..Len(t)) \subseteq 2..Len(s)
    BY <1>1 DEF Shifted
  <2> QED BY <2>1, <2>2
<1>5. SumFunctionOnSet(t, 1..Len(t)) = SumFunctionOnSet(s, Shifted(1..Len(t)))
  BY <1>3
<1> QED BY <1>4, <1>5 DEF t

LEMMA SumOfSequence ==
  ASSUME NEW s \in Seq(Nat)
  PROVE  /\ SumFunction(s) \in Nat
         /\ s = <<>> => SumFunction(s) = 0
         /\ s # <<>> => SumFunction(s) = Head(s) + SumFunction(Tail(s))
<1>1. DOMAIN s = 1..Len(s) /\ Len(s) \in Nat /\ IsFiniteSet(1..Len(s))
      /\ \A i \in 1..Len(s) : s[i] \in Nat
  <2>1. DOMAIN s = 1..Len(s) /\ Len(s) \in Nat /\ \A i \in 1..Len(s) : s[i] \in Nat
    OBVIOUS
  <2> QED BY <2>1, FS_Interval
<1>2. SumFunction(s) = SumFunctionOnSet(s, 1..Len(s))
  BY <1>1 DEF SumFunction
<1>3. SumFunction(s) \in Nat
  BY <1>1, <1>2, SumIsNat
<1>4. s = <<>> => SumFunction(s) = 0
  <2>1. s = <<>> => 1..Len(s) = {}
    OBVIOUS
  <2>2. SumFunctionOnSet(s, {}) = 0
    BY SumUnfolds, FS_EmptySet
  <2> QED BY <1>2, <2>1, <2>2
<1>5. ASSUME s # <<>> PROVE SumFunction(s) = Head(s) + SumFunction(Tail(s))
  <2>1. /\ Tail(s) \in Seq(Nat) /\ DOMAIN Tail(s) = 1..Len(Tail(s)) /\ 1 \in 1..Len(s)
        /\ Head(s) = s[1] /\ (1..Len(s)) \ {1} = 2..Len(s)
    BY <1>5
  <2>2. SumFunctionOnSet(s, 1..Len(s)) = s[1] + SumFunctionOnSet(s, (1..Len(s)) \ {1})
    <3>1. \A i \in 1..Len(s) : s[i] \in Int
      BY <1>1
    <3>2. 1 \in 1..Len(s) /\ IsFiniteSet(1..Len(s))
      BY <1>1, <2>1
    <3> DEFINE S == 1..Len(s)
    <3> HIDE DEF S
    <3> QED BY <3>1, <3>2, SumTakes DEF S
  <2>3. SumFunction(Tail(s)) = SumFunctionOnSet(Tail(s), 1..Len(Tail(s)))
    BY <2>1 DEF SumFunction
  <2>4. SumFunction(Tail(s)) = SumFunctionOnSet(s, 2..Len(s))
    BY <1>5, <2>3, SumOfTail
  <2> QED BY <1>2, <2>1, <2>2, <2>4
<1> QED BY <1>3, <1>4, <1>5

-----------------------------------------------------------------------------
(* Places in a finite set of numbers.                                        *)

\* How many of S are e or more: e's place, counted from the top.
Rank(S, e) == Cardinality({f \in S : f >= e})

LEMMA LargestOf ==
  ASSUME NEW S \in SUBSET Int, IsFiniteSet(S), S # {}
  PROVE  \E m \in S : \A x \in S : x <= m
<1> DEFINE P == {{x \in S : x > e} : e \in S}
<1>0. \A x \in S : x \in Int
  OBVIOUS
<1>1. P # {} /\ \A T \in P : IsFiniteSet(T)
  <2>1. ASSUME NEW e \in S PROVE IsFiniteSet({x \in S : x > e})
    <3>1. {x \in S : x > e} \in SUBSET S
      OBVIOUS
    <3> QED BY <3>1, FS_Subset
  <2> QED BY <2>1
<1> HIDE DEF P
<1>2. PICK T \in P : \A U \in P : ~(U \subseteq T /\ U # T)
  BY <1>1, SmallestSet
<1>3. PICK e \in S : T = {x \in S : x > e}
  BY <1>2 DEF P
<1>4. ASSUME NEW x \in S, x > e PROVE FALSE
  <2> DEFINE U == {y \in S : y > x}
  <2>1. U \in P
    BY DEF P
  <2>2. x \in Int /\ e \in Int /\ x \in T /\ x \notin U
    BY <1>0, <1>3, <1>4
  <2>3. U \subseteq T
    <3>1. ASSUME NEW y \in U PROVE y \in T
      <4>1. y \in S /\ y \in Int /\ y > x
        BY <1>0
      <4>2. y > e
        BY <4>1, <2>2, <1>4
      <4> QED BY <1>3, <4>1, <4>2
    <3> QED BY <3>1
  <2> QED BY <1>2, <2>1, <2>2, <2>3
<1> QED BY <1>0, <1>4

LEMMA SmallestOf ==
  ASSUME NEW S \in SUBSET Int, IsFiniteSet(S), S # {}
  PROVE  \E m \in S : \A x \in S : m <= x
<1> DEFINE P == {{x \in S : x < e} : e \in S}
<1>0. \A x \in S : x \in Int
  OBVIOUS
<1>1. P # {} /\ \A T \in P : IsFiniteSet(T)
  <2>1. ASSUME NEW e \in S PROVE IsFiniteSet({x \in S : x < e})
    <3>1. {x \in S : x < e} \in SUBSET S
      OBVIOUS
    <3> QED BY <3>1, FS_Subset
  <2> QED BY <2>1
<1> HIDE DEF P
<1>2. PICK T \in P : \A U \in P : ~(U \subseteq T /\ U # T)
  BY <1>1, SmallestSet
<1>3. PICK e \in S : T = {x \in S : x < e}
  BY <1>2 DEF P
<1>4. ASSUME NEW x \in S, x < e PROVE FALSE
  <2> DEFINE U == {y \in S : y < x}
  <2>1. U \in P
    BY DEF P
  <2>2. x \in Int /\ e \in Int /\ x \in T /\ x \notin U
    BY <1>0, <1>3, <1>4
  <2>3. U \subseteq T
    <3>1. ASSUME NEW y \in U PROVE y \in T
      <4>1. y \in S /\ y \in Int /\ y < x
        BY <1>0
      <4>2. y < e
        BY <4>1, <2>2, <1>4
      <4> QED BY <1>3, <4>1, <4>2
    <3> QED BY <3>1
  <2> QED BY <1>2, <2>1, <2>2, <2>3
<1> QED BY <1>0, <1>4

\* Ranks are counts, and fall as numbers rise.
LEMMA RankIsStrict ==
  ASSUME NEW S \in SUBSET Int, IsFiniteSet(S)
  PROVE  /\ \A e \in Int : Rank(S, e) \in Nat
         /\ \A e \in S : Rank(S, e) >= 1
         /\ \A e \in S, f \in Int : e < f => Rank(S, f) < Rank(S, e)
<1>1. ASSUME NEW e \in Int PROVE IsFiniteSet({x \in S : x >= e}) /\ Rank(S, e) \in Nat
  BY FS_Subset, FS_CardinalityType DEF Rank
<1>2. ASSUME NEW e \in S PROVE Rank(S, e) >= 1
  <2>1. e \in {x \in S : x >= e} /\ e \in Int
    OBVIOUS
  <2> DEFINE A == {x \in S : x >= e}
  <2>2. IsFiniteSet(A) /\ A # {} /\ Rank(S, e) = Cardinality(A) /\ Rank(S, e) \in Nat
    BY <1>1, <2>1 DEF Rank
  <2> HIDE DEF A
  <2>3. Rank(S, e) # 0
    BY <2>2, FS_EmptySet
  <2> QED BY <2>2, <2>3
<1>3. ASSUME NEW e \in S, NEW f \in Int, e < f PROVE Rank(S, f) < Rank(S, e)
  <2> DEFINE A == {x \in S : x >= e}
             B == {x \in S : x >= f}
  <2>0. e \in Int /\ \A x \in S : x \in Int
    OBVIOUS
  <2>1. e \in Int /\ e \in A /\ e \notin B
    BY <1>3, <2>0
  <2>5. B \subseteq A
    <3> SUFFICES ASSUME NEW x \in S, x >= f PROVE x >= e
      OBVIOUS
    <3> QED BY <2>0, <1>3
  <2>2. IsFiniteSet(A) /\ Rank(S, e) \in Nat /\ Rank(S, f) \in Nat
    BY <1>1, <2>1
  <2>3. Rank(S, e) = Cardinality(A) /\ Rank(S, f) = Cardinality(B)
    BY DEF Rank
  <2> HIDE DEF A, B
  <2>4. Cardinality(B) <= Cardinality(A) /\ Cardinality(A) # Cardinality(B)
    BY <2>1, <2>2, <2>5, FS_Subset
  <2> QED BY <2>2, <2>3, <2>4
<1> QED BY <1>1, <1>2, <1>3

\* Equal ranks are one number.
LEMMA RankIsUnique ==
  ASSUME NEW S \in SUBSET Int, IsFiniteSet(S), NEW e \in S, NEW f \in S, Rank(S,
         e) = Rank(S, f)
  PROVE  e = f
<1>1. e \in Int /\ f \in Int /\ Rank(S, e) \in Nat /\ Rank(S, f) \in Nat
  BY RankIsStrict
<1>2. ~(e < f) /\ ~(f < e)
  BY <1>1, RankIsStrict
<1> QED BY <1>1, <1>2

\* Every place is taken.
LEMMA RankExists ==
  ASSUME NEW S \in SUBSET Int, IsFiniteSet(S), NEW j \in Nat, 1 <= j, j <= Cardinality(S)
  PROVE  \E e \in S : Rank(S, e) = j
<1> DEFINE G == {e \in S : Rank(S, e) >= j}
<1>0. Cardinality(S) \in Nat
  BY FS_CardinalityType
<1>1. G # {}
  <2>1. S # {}
    BY <1>0, FS_EmptySet
  <2>2. PICK m \in S : \A x \in S : m <= x
    BY <2>1, SmallestOf
  <2>3. {x \in S : x >= m} = S
    BY <2>2
  <2> QED BY <2>2, <2>3 DEF Rank
<1>2. G \in SUBSET Int /\ IsFiniteSet(G)
  BY FS_Subset
<1> HIDE DEF G
<1>3. PICK e \in G : \A x \in G : x <= e
  BY <1>1, <1>2, LargestOf
<1>4. e \in S /\ Rank(S, e) >= j /\ e \in Int /\ Rank(S, e) \in Nat
  BY <1>3, RankIsStrict DEF G
<1>5. ASSUME Rank(S, e) > j PROVE FALSE
  <2> DEFINE A == {x \in S : x >= e}
             B == {x \in S : x > e}
  <2>0. \A x \in S : x \in Int
    OBVIOUS
  <2>1. IsFiniteSet(A) /\ e \in A
    BY <1>4, FS_Subset
  <2>11. A \ {e} = B
    <3> SUFFICES ASSUME NEW x \in S PROVE x >= e /\ x # e <=> x > e
      OBVIOUS
    <3> QED BY <1>4, <2>0
  <2>2. Cardinality(B) = Cardinality(A) - 1 /\ IsFiniteSet(B)
    BY <2>1, <2>11, FS_RemoveElement
  <2>3. Cardinality(A) = Rank(S, e)
    BY DEF Rank
  <2>4. Cardinality(B) >= j
    BY <2>2, <2>3, <1>4, <1>5
  <2>5. B # {}
    BY <2>4, FS_EmptySet
  <2>6. PICK f \in B : \A x \in B : f <= x
    BY <2>2, <2>5, SmallestOf
  <2>7. f \in S /\ f > e /\ f \in Int
    BY <2>6
  <2>8. {x \in S : x >= f} = B
    <3> SUFFICES ASSUME NEW x \in S PROVE x >= f <=> x > e
      OBVIOUS
    <3>1. x > e => x >= f
      <4>1. x > e => x \in B
        OBVIOUS
      <4> QED BY <2>0, <2>6, <2>7, <4>1
    <3> QED BY <2>0, <2>7, <1>4, <3>1
  <2>9. Rank(S, f) >= j
    BY <2>4, <2>8 DEF Rank
  <2>10. f <= e
    BY <2>7, <2>9, <1>3 DEF G
  <2> QED BY <2>7, <2>10, <1>4
<1> QED BY <1>4, <1>5
=============================================================================
