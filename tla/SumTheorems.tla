----------------------------- MODULE SumTheorems -----------------------------
(***************************************************************************)
(* Sums over finite sets, which the models write with MapThenSumSet: what  *)
(* the ledgers, the issued tonnage and the drawn quantities add up to.      *)
(*                                                                         *)
(* The sum is a recursive function, and facts about it need induction over *)
(* the set summed.  The induction theorems of the library take a predicate *)
(* as a parameter; here the sets a claim fails for are collected in a set   *)
(* instead, and the well-foundedness of the subset ordering yields a        *)
(* smallest one.                                                           *)
(***************************************************************************)
EXTENDS Integers, FiniteSetsExt, FiniteSetTheorems, WellFoundedInduction, TLAPS

\* The element MapThenSumSet takes out of a set first.
Pick(T) == CHOOSE x \in T : TRUE

\* g tabulates the sums of f over the subsets of S.
Tabulates(g, f, S) ==
  g = [T \in SUBSET S |-> IF T = {} THEN 0 ELSE f[Pick(T)] + g[T \ {Pick(T)}]]

\* The sum of f over S.
Total(f, S) == (CHOOSE g : Tabulates(g, f, S))[S]

\* The community module's sum, as a sum of the values of a function.
LEMMA TotalIsMapThenSumSet ==
  ASSUME NEW f, NEW S
  PROVE  MapThenSumSet(LAMBDA x : f[x], S) = Total(f, S)
  BY DEF MapThenSumSet, MapThenFoldSet, Total, Tabulates, Pick

-----------------------------------------------------------------------------
(* Induction over finite sets.                                              *)

\* Among the bad subsets of a finite set there is a smallest one.
LEMMA SmallestBad ==
  ASSUME NEW S, IsFiniteSet(S), NEW Bad \in SUBSET SUBSET S, Bad # {}
  PROVE  \E T \in Bad : \A U \in SUBSET T : U # T => U \notin Bad
<1>1. IsWellFoundedOn(StrictSubsetOrdering(S), FiniteSubsetsOf(S))
  BY FS_StrictSubsetOrderingWellFounded
<1>2. FiniteSubsetsOf(S) = SUBSET S
  BY FS_FiniteSubsetsOfFinite
<1>3. PICK T \in Bad : \A U \in Bad : <<U, T>> \notin StrictSubsetOrdering(S)
  BY <1>1, <1>2, WFMin
<1>4. ASSUME NEW U \in SUBSET T, U # T PROVE U \notin Bad
  BY <1>3, <1>4 DEF StrictSubsetOrdering
<1> QED
  BY <1>4

\* What a function reaches from a finite set is finite.
LEMMA FiniteImage ==
  ASSUME NEW S, IsFiniteSet(S), NEW T, NEW f, \A y \in T : \E x \in S : f[x] = y
  PROVE  IsFiniteSet(T)
<1> DEFINE R == {x \in S : f[x] \in T}
           g == [x \in R |-> f[x]]
<1>1. g \in Surjection(R, T)
  BY DEF Surjection
<1>2. IsFiniteSet(R)
  BY FS_Subset
<1> HIDE DEF g, R
<1> QED
  BY <1>1, <1>2, FS_Surjection

-----------------------------------------------------------------------------
(* The sum is what its recursion says.                                      *)

\* What a table says of one set.
LEMMA TableEntry ==
  ASSUME NEW f, NEW S, NEW g, Tabulates(g, f, S), NEW T \in SUBSET S
  PROVE  g[T] = IF T = {} THEN 0 ELSE f[Pick(T)] + g[T \ {Pick(T)}]
  BY DEF Tabulates

\* A set that is not empty has the element picked.
LEMMA PickIsIn ==
  ASSUME NEW T, T # {}
  PROVE  Pick(T) \in T
  BY DEF Pick

\* Two tables agree wherever both have an entry.
LEMMA TablesAgree ==
  ASSUME NEW f, NEW S, NEW R, NEW g, NEW h,
         Tabulates(g, f, S), Tabulates(h, f, R),
         NEW U \in SUBSET S, U \in SUBSET R, IsFiniteSet(U)
  PROVE  g[U] = h[U]
<1> DEFINE Bad == {T \in SUBSET U : g[T] # h[T]}
<1>1. SUFFICES ASSUME Bad # {} PROVE FALSE
  OBVIOUS
<1>0. Bad \in SUBSET SUBSET U
  OBVIOUS
<1> HIDE DEF Bad
<1>2. PICK T \in Bad : \A V \in SUBSET T : V # T => V \notin Bad
  BY <1>1, <1>0, SmallestBad
<1>3. g[T] # h[T] /\ T \in SUBSET U
  BY <1>2 DEF Bad
<1>4. T # {}
  BY <1>3, TableEntry
<1> DEFINE V == T \ {Pick(T)}
<1>5. V \in SUBSET T /\ V # T /\ V \in SUBSET U
  BY <1>3, <1>4, PickIsIn
<1>6. g[V] = h[V]
  BY <1>2, <1>5 DEF Bad
<1>7. g[T] = f[Pick(T)] + g[V] /\ h[T] = f[Pick(T)] + h[V]
  BY <1>3, <1>4, TableEntry
<1> QED
  BY <1>3, <1>6, <1>7

\* Every finite set has a table.
LEMMA TableExists ==
  ASSUME NEW f, NEW S, IsFiniteSet(S)
  PROVE  \E g : Tabulates(g, f, S)
<1> DEFINE Bad == {T \in SUBSET S : ~\E g : Tabulates(g, f, T)}
<1>1. SUFFICES ASSUME Bad # {} PROVE FALSE
  OBVIOUS
<1>0. Bad \in SUBSET SUBSET S
  OBVIOUS
<1> HIDE DEF Bad
<1>2. PICK T \in Bad : \A U \in SUBSET T : U # T => U \notin Bad
  BY <1>1, <1>0, SmallestBad
<1>3. T \in SUBSET S /\ ~\E g : Tabulates(g, f, T)
  BY <1>2 DEF Bad
<1>4. \A U \in SUBSET T : U # T => \E g : Tabulates(g, f, U)
  BY <1>2, <1>3 DEF Bad
<1> DEFINE Table(U) == CHOOSE g : Tabulates(g, f, U)
           Next(U)  == IF U = {} THEN 0 ELSE f[Pick(U)] + Table(U \ {Pick(U)})[U \ {Pick(U)}]
           h        == [U \in SUBSET T |-> Next(U)]
<1>5. ASSUME NEW U \in SUBSET T, U # T
      PROVE  Tabulates(Table(U), f, U)
  BY <1>4, <1>5
<1>6. ASSUME NEW U \in SUBSET T, U # T
      PROVE  h[U] = Table(U)[U]
  <2>1. CASE U = {}
    BY <2>1, <1>5, <1>6, TableEntry
  <2>2. CASE U # {}
    <3> DEFINE V == U \ {Pick(U)}
    <3>1. V \in SUBSET U /\ V \in SUBSET T /\ V # T /\ IsFiniteSet(V)
      BY <1>3, <1>6, FS_Subset
    <3>2. Tabulates(Table(U), f, U) /\ Tabulates(Table(V), f, V)
      BY <1>5, <1>6, <3>1
    <3> HIDE DEF Table
    <3>3. Table(U)[V] = Table(V)[V]
      BY <3>1, <3>2, TablesAgree
    <3>4. Table(U)[U] = f[Pick(U)] + Table(U)[V]
      BY <2>2, <3>2, TableEntry
    <3> QED
      BY <2>2, <3>3, <3>4
  <2> QED
    BY <2>1, <2>2
<1>7. ASSUME NEW U \in SUBSET T
      PROVE  h[U] = IF U = {} THEN 0 ELSE f[Pick(U)] + h[U \ {Pick(U)}]
  <2>1. CASE U = {}
    BY <2>1
  <2>2. CASE U # {}
    <3> DEFINE V == U \ {Pick(U)}
    <3>1. V \in SUBSET T /\ V # T
      BY <2>2, PickIsIn
    <3>2. h[V] = Table(V)[V]
      BY <3>1, <1>6
    <3> QED
      BY <2>2, <3>2
  <2> QED
    BY <2>1, <2>2
<1>8. h = [U \in SUBSET T |-> IF U = {} THEN 0 ELSE f[Pick(U)] + h[U \ {Pick(U)}]]
  <2>1. h = [U \in SUBSET T |-> h[U]]
    OBVIOUS
  <2> HIDE DEF h
  <2> QED
    BY <1>7, <2>1
<1> HIDE DEF h
<1>9. Tabulates(h, f, T)
  BY <1>8 DEF Tabulates
<1> QED
  BY <1>3, <1>9

\* The table of a set holds the sums over its subsets.
LEMMA TotalTable ==
  ASSUME NEW f, NEW S, IsFiniteSet(S), NEW T \in SUBSET S
  PROVE  /\ Tabulates(CHOOSE g : Tabulates(g, f, S), f, S)
         /\ (CHOOSE g : Tabulates(g, f, S))[T] = Total(f, T)
<1>1. Tabulates(CHOOSE g : Tabulates(g, f, S), f, S)
  BY TableExists
<1>2. IsFiniteSet(T)
  BY FS_Subset
<1>3. Tabulates(CHOOSE g : Tabulates(g, f, T), f, T)
  BY <1>2, TableExists
<1> QED
  BY <1>1, <1>2, <1>3, TablesAgree DEF Total

\* Any table will do.
LEMMA TotalOfTable ==
  ASSUME NEW f, NEW S, IsFiniteSet(S), NEW g, Tabulates(g, f, S)
  PROVE  g[S] = Total(f, S)
  BY TotalTable, TablesAgree, S \in SUBSET S DEF Total

\* The litres in the rows of a table, and one column of a table of tables.
LitresOf(t, D) == [a \in D |-> t[a].litres]
ColumnOf(t, D, b) == [c \in D |-> t[c][b]]

\* The sum of the litres of some rows.
LEMMA LitresAddUp ==
  ASSUME NEW t, NEW D, IsFiniteSet(D), NEW S \in SUBSET D
  PROVE  MapThenSumSet(LAMBDA a : t[a].litres, S) = Total(LitresOf(t, D), S)
<1> DEFINE f == LitresOf(t, D)
           Adds(g) == g = [T \in SUBSET S |->
                            IF T = {} THEN 0 ELSE t[Pick(T)].litres + g[T \ {Pick(T)}]]
           g == CHOOSE g : Adds(g)
<1>1. MapThenSumSet(LAMBDA a : t[a].litres, S) = g[S]
  BY DEF MapThenSumSet, MapThenFoldSet, Pick
<1>2. ASSUME NEW h PROVE Adds(h) <=> Tabulates(h, f, S)
  <2>1. \A T \in SUBSET S : T # {} => f[Pick(T)] = t[Pick(T)].litres
    BY PickIsIn DEF LitresOf
  <2> HIDE DEF f
  <2> QED
    BY <2>1 DEF Tabulates
<1>3. IsFiniteSet(S)
  BY FS_Subset
<1>4. Adds(g)
  <2> HIDE DEF Adds
  <2>1. \E h : Adds(h)
    BY <1>2, <1>3, TableExists
  <2> QED
    BY <2>1
<1> HIDE DEF g, Adds
<1> QED
  BY <1>1, <1>2, <1>3, <1>4, TotalOfTable

\* The sum of a column over some rows.
LEMMA ColumnAddsUp ==
  ASSUME NEW t, NEW b, NEW D, IsFiniteSet(D), NEW S \in SUBSET D
  PROVE  MapThenSumSet(LAMBDA c : t[c][b], S) = Total(ColumnOf(t, D, b), S)
<1> DEFINE f == ColumnOf(t, D, b)
           Adds(g) == g = [T \in SUBSET S |->
                            IF T = {} THEN 0 ELSE t[Pick(T)][b] + g[T \ {Pick(T)}]]
           g == CHOOSE g : Adds(g)
<1>1. MapThenSumSet(LAMBDA c : t[c][b], S) = g[S]
  BY DEF MapThenSumSet, MapThenFoldSet, Pick
<1>2. ASSUME NEW h PROVE Adds(h) <=> Tabulates(h, f, S)
  <2>1. \A T \in SUBSET S : T # {} => f[Pick(T)] = t[Pick(T)][b]
    BY PickIsIn DEF ColumnOf
  <2> HIDE DEF f
  <2> QED
    BY <2>1 DEF Tabulates
<1>3. IsFiniteSet(S)
  BY FS_Subset
<1>4. Adds(g)
  <2> HIDE DEF Adds
  <2>1. \E h : Adds(h)
    BY <1>2, <1>3, TableExists
  <2> QED
    BY <2>1
<1> HIDE DEF g, Adds
<1> QED
  BY <1>1, <1>2, <1>3, <1>4, TotalOfTable

\* Nothing adds up to zero.
LEMMA TotalEmpty == ASSUME NEW f PROVE Total(f, {}) = 0
<1> DEFINE g == CHOOSE g : Tabulates(g, f, {})
<1>1. Tabulates(g, f, {}) /\ g[{}] = Total(f, {})
  BY FS_EmptySet, TotalTable
<1> HIDE DEF g
<1> QED
  BY <1>1, TableEntry

\* The recursion of MapThenSumSet.
LEMMA TotalPick ==
  ASSUME NEW f, NEW S, IsFiniteSet(S), S # {}
  PROVE  Total(f, S) = f[Pick(S)] + Total(f, S \ {Pick(S)})
<1> DEFINE g == CHOOSE g : Tabulates(g, f, S)
<1>1. Tabulates(g, f, S) /\ g[S] = Total(f, S) /\ g[S \ {Pick(S)}] = Total(f, S \ {Pick(S)})
  BY TotalTable, S \ {Pick(S)} \in SUBSET S, S \in SUBSET S
<1> HIDE DEF g
<1> QED
  BY <1>1, TableEntry

-----------------------------------------------------------------------------
(* What the proofs about the models use.                                    *)

\* The sum of integers is an integer.
LEMMA TotalType ==
  ASSUME NEW S, IsFiniteSet(S), NEW f, \A x \in S : f[x] \in Int
  PROVE  Total(f, S) \in Int
<1> DEFINE Bad == {T \in SUBSET S : Total(f, T) \notin Int}
<1>1. SUFFICES ASSUME Bad # {} PROVE FALSE
  OBVIOUS
<1>0. Bad \in SUBSET SUBSET S
  OBVIOUS
<1> HIDE DEF Bad
<1>2. PICK T \in Bad : \A U \in SUBSET T : U # T => U \notin Bad
  BY <1>1, <1>0, SmallestBad
<1>3. T \in SUBSET S /\ Total(f, T) \notin Int /\ IsFiniteSet(T)
  BY <1>2, FS_Subset DEF Bad
<1>4. T # {}
  BY <1>3, TotalEmpty
<1> DEFINE V == T \ {Pick(T)}
<1>5. Pick(T) \in S /\ V \in SUBSET T /\ V # T
  BY <1>3, <1>4, PickIsIn
<1>6. Total(f, V) \in Int
  BY <1>2, <1>3, <1>5 DEF Bad
<1>7. Total(f, T) = f[Pick(T)] + Total(f, V)
  BY <1>3, <1>4, TotalPick
<1> QED
  BY <1>3, <1>5, <1>6, <1>7

\* The sum of natural numbers is one.
LEMMA TotalNat ==
  ASSUME NEW S, IsFiniteSet(S), NEW f, \A x \in S : f[x] \in Nat
  PROVE  Total(f, S) \in Nat
<1> DEFINE Bad == {T \in SUBSET S : Total(f, T) \notin Nat}
<1>1. SUFFICES ASSUME Bad # {} PROVE FALSE
  OBVIOUS
<1>0. Bad \in SUBSET SUBSET S
  OBVIOUS
<1> HIDE DEF Bad
<1>2. PICK T \in Bad : \A U \in SUBSET T : U # T => U \notin Bad
  BY <1>1, <1>0, SmallestBad
<1>3. T \in SUBSET S /\ Total(f, T) \notin Nat /\ IsFiniteSet(T)
  BY <1>2, FS_Subset DEF Bad
<1>4. T # {}
  BY <1>3, TotalEmpty
<1> DEFINE V == T \ {Pick(T)}
<1>5. Pick(T) \in S /\ V \in SUBSET T /\ V # T
  BY <1>3, <1>4, PickIsIn
<1>6. Total(f, V) \in Nat
  BY <1>2, <1>3, <1>5 DEF Bad
<1>7. Total(f, T) = f[Pick(T)] + Total(f, V)
  BY <1>3, <1>4, TotalPick
<1> QED
  BY <1>3, <1>5, <1>6, <1>7

\* Any element may be taken out first.
LEMMA TotalRemove ==
  ASSUME NEW S, IsFiniteSet(S), NEW f, \A x \in S : f[x] \in Int, NEW x \in S
  PROVE  Total(f, S) = f[x] + Total(f, S \ {x})
<1> DEFINE Bad == {T \in SUBSET S : \E y \in T : Total(f, T) # f[y] + Total(f, T \ {y})}
<1>1. SUFFICES ASSUME Bad # {} PROVE FALSE
  BY S \in SUBSET S
<1>0. Bad \in SUBSET SUBSET S
  OBVIOUS
<1> HIDE DEF Bad
<1>2. PICK T \in Bad : \A U \in SUBSET T : U # T => U \notin Bad
  BY <1>1, <1>0, SmallestBad
<1>3. T \in SUBSET S /\ IsFiniteSet(T)
  BY <1>2, FS_Subset DEF Bad
<1>4. PICK y \in T : Total(f, T) # f[y] + Total(f, T \ {y})
  BY <1>2 DEF Bad
<1> DEFINE p == Pick(T)
<1>5. p \in T /\ Total(f, T) = f[p] + Total(f, T \ {p})
  BY <1>3, <1>4, PickIsIn, TotalPick
<1> HIDE DEF p
<1>6. p # y
  BY <1>4, <1>5
<1>7. Total(f, T \ {p}) = f[y] + Total(f, (T \ {p}) \ {y})
  BY <1>2, <1>3, <1>5, <1>6, T \ {p} \in SUBSET T DEF Bad
<1>8. Total(f, T \ {y}) = f[p] + Total(f, (T \ {y}) \ {p})
  BY <1>2, <1>3, <1>5, <1>6, T \ {y} \in SUBSET T DEF Bad
<1>9. (T \ {p}) \ {y} = (T \ {y}) \ {p}
  OBVIOUS
<1>10. Total(f, (T \ {p}) \ {y}) \in Int
  BY <1>3, FS_Subset, TotalType, (T \ {p}) \ {y} \in SUBSET S
<1>11. f[p] \in Int /\ f[y] \in Int
  BY <1>3, <1>5
<1>12. Total(f, (T \ {p}) \ {y}) = Total(f, (T \ {y}) \ {p})
  BY <1>9
<1> DEFINE rest == Total(f, (T \ {p}) \ {y})
<1>13. Total(f, T) = f[p] + (f[y] + rest) /\ f[y] + Total(f, T \ {y}) = f[y] + (f[p] + rest)
  BY <1>5, <1>7, <1>8, <1>12
<1>14. rest \in Int
  BY <1>10
<1> HIDE DEF rest
<1> QED
  BY <1>4, <1>11, <1>13, <1>14

\* Functions that agree on a set have the same sum over it.
LEMMA TotalSame ==
  ASSUME NEW S, IsFiniteSet(S), NEW f, NEW g, \A x \in S : f[x] = g[x]
  PROVE  Total(f, S) = Total(g, S)
<1> DEFINE Bad == {T \in SUBSET S : Total(f, T) # Total(g, T)}
<1>1. SUFFICES ASSUME Bad # {} PROVE FALSE
  OBVIOUS
<1>0. Bad \in SUBSET SUBSET S
  OBVIOUS
<1> HIDE DEF Bad
<1>2. PICK T \in Bad : \A U \in SUBSET T : U # T => U \notin Bad
  BY <1>1, <1>0, SmallestBad
<1>3. T \in SUBSET S /\ Total(f, T) # Total(g, T) /\ IsFiniteSet(T)
  BY <1>2, FS_Subset DEF Bad
<1>4. T # {}
  BY <1>3, TotalEmpty
<1>5. Pick(T) \in S /\ T \ {Pick(T)} \in SUBSET T /\ T \ {Pick(T)} # T
  BY <1>3, <1>4, PickIsIn
<1>6. Total(f, T \ {Pick(T)}) = Total(g, T \ {Pick(T)})
  BY <1>2, <1>3, <1>5 DEF Bad
<1> QED
  BY <1>3, <1>4, <1>5, <1>6, TotalPick

\* Zeros add up to zero.
LEMMA TotalZero ==
  ASSUME NEW S, IsFiniteSet(S), NEW f, \A x \in S : f[x] = 0
  PROVE  Total(f, S) = 0
<1> DEFINE Bad == {T \in SUBSET S : Total(f, T) # 0}
<1>1. SUFFICES ASSUME Bad # {} PROVE FALSE
  OBVIOUS
<1>0. Bad \in SUBSET SUBSET S
  OBVIOUS
<1> HIDE DEF Bad
<1>2. PICK T \in Bad : \A U \in SUBSET T : U # T => U \notin Bad
  BY <1>1, <1>0, SmallestBad
<1>3. T \in SUBSET S /\ Total(f, T) # 0 /\ IsFiniteSet(T)
  BY <1>2, FS_Subset DEF Bad
<1>4. T # {}
  BY <1>3, TotalEmpty
<1>5. Pick(T) \in S /\ T \ {Pick(T)} \in SUBSET T /\ T \ {Pick(T)} # T
  BY <1>3, <1>4, PickIsIn
<1>6. Total(f, T \ {Pick(T)}) = 0
  BY <1>2, <1>3, <1>5 DEF Bad
<1> QED
  BY <1>3, <1>4, <1>5, <1>6, TotalPick

\* A sum moves by as much as the one value that changes.
LEMMA TotalChange ==
  ASSUME NEW S, IsFiniteSet(S), NEW f, NEW g, NEW x \in S,
         \A y \in S : f[y] \in Int /\ g[y] \in Int,
         \A y \in S \ {x} : f[y] = g[y]
  PROVE  Total(g, S) = Total(f, S) + g[x] - f[x]
<1>1. Total(f, S) = f[x] + Total(f, S \ {x}) /\ Total(g, S) = g[x] + Total(g, S \ {x})
  BY TotalRemove
<1>2. IsFiniteSet(S \ {x})
  BY FS_Subset, S \ {x} \in SUBSET S
<1>3. Total(f, S \ {x}) = Total(g, S \ {x})
  BY <1>2, TotalSame
<1>4. Total(f, S \ {x}) \in Int
  BY <1>2, TotalType
<1> QED
  BY <1>1, <1>3, <1>4

\* A value that is zero, or that is not in the sum, may be left out of it.
LEMMA TotalIgnores ==
  ASSUME NEW S, IsFiniteSet(S), NEW f, \A y \in S : f[y] \in Int, NEW x, x \in S => f[x] = 0
  PROVE  Total(f, S) = Total(f, S \ {x})
<1>1. CASE x \in S
  <2>1. Total(f, S) = f[x] + Total(f, S \ {x})
    BY <1>1, TotalRemove
  <2>2. IsFiniteSet(S \ {x})
    BY FS_Subset, S \ {x} \in SUBSET S
  <2>3. Total(f, S \ {x}) \in Int
    BY <2>2, TotalType
  <2> QED
    BY <1>1, <2>1, <2>3
<1>2. CASE x \notin S
  <2>1. S \ {x} = S
    BY <1>2
  <2> QED
    BY <2>1
<1> QED
  BY <1>1, <1>2

\* A sum moves by what the one entry that changes held and holds now, whether or
\* not it was and is in the sum.
LEMMA TotalMoves ==
  ASSUME NEW S, IsFiniteSet(S), NEW R, IsFiniteSet(R), NEW f, NEW g, NEW x,
         \A y \in S : f[y] \in Int, \A y \in R : g[y] \in Int,
         S \ {x} = R \ {x}, \A y \in S \ {x} : f[y] = g[y]
  PROVE  /\ Total(f, S) \in Int
         /\ Total(g, R) = Total(f, S) - (IF x \in S THEN f[x] ELSE 0)
                                      + (IF x \in R THEN g[x] ELSE 0)
<1> DEFINE rest == S \ {x}
<1>1. IsFiniteSet(rest) /\ (\A y \in rest : f[y] \in Int) /\ (\A y \in rest : f[y] = g[y])
  BY FS_Subset, rest \in SUBSET S
<1>2. rest = R \ {x} /\ Total(g, R \ {x}) = Total(g, rest)
  OBVIOUS
<1>3. Total(f, S) = (IF x \in S THEN f[x] ELSE 0) + Total(f, rest)
  <2>1. CASE x \in S
    BY <2>1, TotalRemove
  <2>2. CASE x \notin S
    <3>1. rest = S
      BY <2>2
    <3>2. Total(f, rest) = Total(f, S) /\ Total(f, S) \in Int
      BY <3>1, TotalType
    <3> QED
      BY <2>2, <3>2
  <2> QED
    BY <2>1, <2>2
<1>4. Total(g, R) = (IF x \in R THEN g[x] ELSE 0) + Total(g, rest)
  <2>1. CASE x \in R
    BY <1>2, <2>1, TotalRemove
  <2>2. CASE x \notin R
    <3>1. R \ {x} = R
      BY <2>2
    <3>2. Total(g, R \ {x}) = Total(g, R) /\ Total(g, R) \in Int
      BY <3>1, TotalType
    <3> QED
      BY <1>2, <2>2, <3>2
  <2> QED
    BY <2>1, <2>2
<1> HIDE DEF rest
<1>5. Total(f, rest) = Total(g, rest) /\ Total(f, rest) \in Int
  BY <1>1, TotalSame, TotalType
<1>6. Total(f, S) \in Int
  BY TotalType
<1>7. (x \in S => f[x] \in Int) /\ (x \in R => g[x] \in Int)
  OBVIOUS
<1> QED
  BY <1>3, <1>4, <1>5, <1>6, <1>7
=============================================================================
