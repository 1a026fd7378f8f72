----------------------------- MODULE QueriesProofs -----------------------------
(***************************************************************************)
(* Theorems about Queries for every number of pages, for answers, windows  *)
(* and rank fusions of every size.                                         *)
(***************************************************************************)
EXTENDS Queries, FiniteSetTheorems, SequenceTheorems, TLAPS

-----------------------------------------------------------------------------
(* Sorting.                                                                 *)

\* A finite set in which each element has fewer before it than the next one has
\* a place for each number up to its size: sorting loses and repeats nothing.
LEMMA Places ==
    ASSUME NEW S, IsFiniteSet(S), NEW B \in [S -> SUBSET S],
           \A x \in S : x \notin B[x],
           \A x, y \in S : x # y => x \in B[y] \/ y \in B[x],
           \A x, y \in S : x \in B[y] => B[x] \subseteq B[y]
    PROVE  /\ \A x \in S : Cardinality(B[x]) \in 0 .. Cardinality(S) - 1
           /\ \A x, y \in S : x \in B[y] => Cardinality(B[x]) < Cardinality(B[y])
           /\ \A x, y \in S : Cardinality(B[x]) = Cardinality(B[y]) => x = y
           /\ \A n \in 1 .. Cardinality(S) : \E x \in S : Cardinality(B[x]) = n - 1
<1> DEFINE size == Cardinality(S)
           at == [x \in S |-> Cardinality(B[x])]
<1>1. size \in Nat /\ \A x \in S : IsFiniteSet(B[x]) /\ Cardinality(B[x]) \in Nat
    BY FS_Subset, FS_CardinalityType
<1>2. ASSUME NEW x \in S PROVE Cardinality(B[x]) \in 0 .. size - 1
    <2>1. B[x] \subseteq S /\ B[x] # S
        OBVIOUS
    <2>2. Cardinality(B[x]) <= size /\ Cardinality(B[x]) # size
        BY <2>1, FS_Subset
    <2>3. QED
        BY <1>1, <2>2
<1>3. ASSUME NEW x \in S, NEW y \in S, x \in B[y] PROVE Cardinality(B[x]) < Cardinality(B[y])
    <2>1. B[x] \subseteq B[y] /\ B[x] # B[y]
        BY <1>3
    <2>2. Cardinality(B[x]) <= Cardinality(B[y]) /\ Cardinality(B[x]) # Cardinality(B[y])
        BY <1>1, <2>1, FS_Subset
    <2>3. QED
        BY <1>1, <2>2
<1>4. ASSUME NEW x \in S, NEW y \in S, Cardinality(B[x]) = Cardinality(B[y]) PROVE x = y
    BY <1>1, <1>3, <1>4
<1>5. at \in Injection(S, 0 .. size - 1)
    <2>1. \A x \in S : at[x] = Cardinality(B[x])
        OBVIOUS
    <2>2. at \in [S -> 0 .. size - 1]
        BY <1>2
    <2> HIDE DEF at
    <2>3. \A x, y \in S : at[x] = at[y] => x = y
        BY <1>4, <2>1
    <2>4. QED
        BY <2>2, <2>3 DEF Injection, IsInjective
<1>6. IsFiniteSet(0 .. size - 1) /\ Cardinality(0 .. size - 1) = size
    <2>1. 0 \in Int /\ size - 1 \in Int
        BY <1>1
    <2>2. QED
        BY <1>1, <2>1, FS_Interval
<1>7. at \in Surjection(S, 0 .. size - 1)
    BY <1>5, <1>6, FS_Injection
<1>8. ASSUME NEW n \in 1 .. size PROVE \E x \in S : Cardinality(B[x]) = n - 1
    <2>1. n - 1 \in 0 .. size - 1
        BY <1>1
    <2>2. QED
        BY <1>7, <2>1 DEF Surjection
<1>9. QED
    BY <1>2, <1>3, <1>4, <1>8

\* A set of natural numbers that is not empty has a smallest one.
LEMMA LeastNatural ==
    ASSUME NEW T \in SUBSET Nat, T # {}
    PROVE  \E m \in T : \A n \in T : ~(n < m)
<1>1. \E m \in T : \A n \in T : <<n, m>> \notin OpToRel(<, Nat)
    BY WFMin, NatLessThanWellFounded, Zenon
<1>2. QED
    BY <1>1 DEF OpToRel

-----------------------------------------------------------------------------
(* The common denominator of the shares.                                    *)

\* Both numbers of rows to look at are positive.
LEMMA WindowType == Window \in Nat \ {0}
BY QueriesAssumption DEF Window

\* f counts the products up to n, as the recursion of Products does.
Multiplies(f, n) ==
    /\ f \in [0 .. n -> Nat]
    /\ \A i \in 0 .. n : f[i] = IF i = 0 THEN 1 ELSE f[i - 1] * (K + i)

\* The recursion of Products has a solution.
LEMMA ProductsExist == \E f : Multiplies(f, Window)
<1> DEFINE bad == {n \in Nat : ~ \E f : Multiplies(f, n)}
<1>1. ASSUME NEW n \in bad, \A m \in bad : ~(m < n) PROVE FALSE
    <2>1. CASE n = 0
        <3>1. Multiplies([i \in 0 .. 0 |-> 1], 0)
            BY DEF Multiplies
        <3>2. QED
            BY <2>1, <3>1
    <2>2. CASE n # 0
        <3>1. n \in Nat /\ n - 1 \in Nat /\ n - 1 < n
            BY <2>2
        <3>2. PICK f : Multiplies(f, n - 1)
            BY <1>1, <3>1
        <3> DEFINE g == [i \in 0 .. n |-> IF i = n THEN f[n - 1] * (K + n) ELSE f[i]]
        <3>3. f[n - 1] \in Nat /\ f[n - 1] * (K + n) \in Nat
            BY <3>1, <3>2, QueriesAssumption DEF Multiplies
        <3>4. g \in [0 .. n -> Nat]
            BY <3>1, <3>2, <3>3 DEF Multiplies
        <3>5. ASSUME NEW i \in 0 .. n
              PROVE  g[i] = IF i = 0 THEN 1 ELSE g[i - 1] * (K + i)
            <4>1. CASE i = n
                <5>1. i # 0 /\ i - 1 \in 0 .. n /\ i - 1 # n
                    BY <2>2, <3>1, <4>1
                <5>2. g[i] = f[n - 1] * (K + n) /\ g[i - 1] = f[i - 1]
                    BY <4>1, <5>1
                <5>3. QED
                    BY <4>1, <5>1, <5>2
            <4>2. CASE i # n
                <5>1. i \in 0 .. n - 1 /\ g[i] = f[i]
                    BY <3>1, <4>2
                <5>2. i # 0 => i - 1 \in 0 .. n /\ i - 1 # n
                    BY <3>1, <4>2
                <5>3. i # 0 => g[i - 1] = f[i - 1]
                    BY <5>2
                <5>4. QED
                    BY <3>2, <5>1, <5>3 DEF Multiplies
            <4>3. QED
                BY <4>1, <4>2
        <3> HIDE DEF g
        <3>6. Multiplies(g, n)
            BY <3>4, <3>5 DEF Multiplies
        <3>7. QED
            BY <3>6
    <2>3. QED
        BY <2>1, <2>2
<1>2. bad = {}
    BY <1>1, LeastNatural
<1>3. QED
    BY <1>2, WindowType

\* So Products is that solution.
LEMMA ProductsStep ==
    ASSUME NEW n \in 0 .. Window
    PROVE  Products[n] = IF n = 0 THEN 1 ELSE Products[n - 1] * (K + n)
<1> DEFINE Step(f) == [i \in 0 .. Window |-> IF i = 0 THEN 1 ELSE f[i - 1] * (K + i)]
<1>1. PICK f : Multiplies(f, Window)
    BY ProductsExist
<1>2. f = Step(f)
    BY <1>1 DEF Multiplies
<1>3. Products = CHOOSE g : g = Step(g)
    BY DEF Products
<1>4. Products = Step(Products)
    BY <1>2, <1>3
<1>5. QED
    BY <1>4

\* What a product is a multiple of stays a factor of the products after it.
LEMMA Divisible ==
    ASSUME NEW n \in 0 .. Window
    PROVE  /\ Products[n] \in Nat \ {0}
           /\ \A m \in 1 .. n : \E c \in Nat \ {0} : Products[n] = c * (K + m)
<1> DEFINE good(i) == /\ Products[i] \in Nat \ {0}
                      /\ \A m \in 1 .. i : \E c \in Nat \ {0} : Products[i] = c * (K + m)
           bad == {i \in 0 .. Window : ~good(i)}
<1>1. ASSUME NEW i \in bad, \A j \in bad : ~(j < i) PROVE FALSE
    <2>0. i \in 0 .. Window /\ ~good(i)
        OBVIOUS
    <2>1. CASE i = 0
        BY <2>0, <2>1, ProductsStep
    <2>2. CASE i # 0
        <3>1. i \in Nat /\ i - 1 \in 0 .. Window /\ i - 1 < i
            BY <2>0, <2>2, WindowType
        <3>2. good(i - 1)
            BY <1>1, <3>1
        <3> DEFINE x == Products[i - 1]
        <3>3. Products[i] = x * (K + i)
            BY <2>0, <2>2, ProductsStep
        <3>4. x \in Nat \ {0} /\ K + i \in Nat \ {0}
            BY <3>1, <3>2, QueriesAssumption
        <3>5. \A m \in 1 .. i - 1 : \E c \in Nat \ {0} : x = c * (K + m)
            BY <3>2
        <3> HIDE DEF x
        <3>6. Products[i] \in Nat \ {0}
            BY <3>3, <3>4
        <3>7. ASSUME NEW m \in 1 .. i PROVE \E c \in Nat \ {0} : Products[i] = c * (K + m)
            <4>1. CASE m = i
                BY <3>3, <3>4, <4>1
            <4>2. CASE m # i
                <5>1. m \in 1 .. i - 1
                    BY <3>1, <4>2
                <5>2. PICK c \in Nat \ {0} : x = c * (K + m)
                    BY <3>5, <5>1
                <5>3. c * (K + i) \in Nat \ {0}
                    BY <3>4
                <5>4. K \in Nat /\ m \in Nat
                    BY <3>1, QueriesAssumption
                <5>5. (c * (K + m)) * (K + i) = (c * (K + i)) * (K + m)
                    BY <3>1, <5>4
                <5>6. QED
                    BY <3>3, <5>2, <5>3, <5>5
            <4>3. QED
                BY <4>1, <4>2
        <3>8. QED
            BY <2>0, <3>6, <3>7
    <2>3. QED
        BY <2>1, <2>2
<1> HIDE DEF good
<1>2. bad \in SUBSET Nat
    BY WindowType
<1>3. bad = {}
    BY <1>1, <1>2, LeastNatural
<1>4. good(n)
    BY <1>3
<1>5. QED
    BY <1>4 DEF good

\* Division without a remainder.
LEMMA Quotient ==
    ASSUME NEW c \in Nat, NEW k \in Nat \ {0}
    PROVE  (c * k) \div k = c
OBVIOUS

\* A better rank has the larger share.
LEMMA ShareFalls ==
    /\ \A i \in 1 .. Window : Share(i) \in Nat \ {0}
    /\ \A i, j \in 1 .. Window : i < j => Share(j) < Share(i)
<1>1. ASSUME NEW i \in 1 .. Window
      PROVE  Share(i) \in Nat \ {0} /\ Denominator = Share(i) * (K + i)
    <2>1. Window \in 0 .. Window /\ K + i \in Nat \ {0}
        BY WindowType, QueriesAssumption
    <2>2. PICK c \in Nat \ {0} : Products[Window] = c * (K + i)
        BY <2>1, Divisible
    <2>3. Share(i) = c
        BY <2>1, <2>2, Quotient DEF Share, Denominator
    <2>4. QED
        BY <2>2, <2>3 DEF Denominator
<1>2. ASSUME NEW i \in 1 .. Window, NEW j \in 1 .. Window, i < j PROVE Share(j) < Share(i)
    <2> DEFINE a == Share(i)
               b == Share(j)
    <2>1. a \in Nat \ {0} /\ b \in Nat \ {0} /\ a * (K + i) = b * (K + j)
        BY <1>1
    <2>2. K \in Nat /\ i \in Nat /\ j \in Nat /\ i >= 1
        BY WindowType, QueriesAssumption
    <2> HIDE DEF a, b
    <2>3. K + i \in Nat \ {0} /\ j - i \in Nat \ {0} /\ K + j = (K + i) + (j - i)
        BY <1>2, <2>2
    <2>4. b * (K + j) = b * (K + i) + b * (j - i)
        BY <2>1, <2>2, <2>3
    <2>5. b * (j - i) > 0
        BY <2>1, <2>3
    <2>6. a * (K + i) > b * (K + i)
        <3>1. b * (K + i) \in Nat /\ b * (j - i) \in Nat
            BY <2>1, <2>3
        <3>2. QED
            BY <2>1, <2>4, <2>5, <3>1
    <2>7. a > b
        <3>1. CASE a <= b
            <4>1. b * (K + i) = a * (K + i) + (b - a) * (K + i)
                BY <2>1, <2>3
            <4>2. (b - a) * (K + i) >= 0
                BY <2>1, <2>3, <3>1
            <4>3. a * (K + i) \in Nat /\ (b - a) * (K + i) \in Int
                BY <2>1, <2>3
            <4>4. QED
                BY <2>6, <4>1, <4>2, <4>3
        <3>2. QED
            BY <2>1, <3>1
    <2>8. QED
        BY <2>7 DEF a, b
<1>3. QED
    BY <1>1, <1>2

-----------------------------------------------------------------------------
(* Rankings and their fusion.                                               *)

Page == [path : Path, gv : 1 .. MaxGv]

\* What a ranker answers: rows of different pages, as many as it looks at.
IsRanking(q) ==
    /\ q \in Seq(Page)
    /\ Len(q) <= Window
    /\ \A i, j \in DOMAIN q : q[i].path = q[j].path => i = j

\* The rank of a page is the place its row is in.
LEMMA RankFact ==
    ASSUME NEW q, \A i, j \in DOMAIN q : q[i].path = q[j].path => i = j
    PROVE  /\ \A p \in PathsOf(q) : Rank(p, q) \in DOMAIN q /\ q[Rank(p, q)].path = p
           /\ \A i \in DOMAIN q : q[i].path \in PathsOf(q) /\ Rank(q[i].path, q) = i
<1>1. ASSUME NEW p \in PathsOf(q) PROVE Rank(p, q) \in DOMAIN q /\ q[Rank(p, q)].path = p
    <2>1. \E i \in DOMAIN q : q[i].path = p
        BY DEF PathsOf
    <2>2. QED
        BY <2>1 DEF Rank
<1>2. ASSUME NEW i \in DOMAIN q PROVE q[i].path \in PathsOf(q) /\ Rank(q[i].path, q) = i
    <2>1. q[i].path \in PathsOf(q)
        BY DEF PathsOf
    <2>2. QED
        BY <1>1, <2>1
<1>3. QED
    BY <1>1, <1>2

\* In a ranking it is a place that was looked at.
LEMMA RankInWindow ==
    ASSUME NEW q, IsRanking(q), NEW p \in PathsOf(q)
    PROVE  Rank(p, q) \in 1 .. Len(q) /\ Rank(p, q) \in 1 .. Window /\ p \in Path
<1>1. Rank(p, q) \in DOMAIN q /\ q[Rank(p, q)].path = p
    BY RankFact DEF IsRanking
<1>2. DOMAIN q = 1 .. Len(q) /\ Len(q) \in Nat /\ q[Rank(p, q)] \in Page
    BY <1>1 DEF IsRanking
<1>3. QED
    BY <1>1, <1>2, WindowType DEF IsRanking, Page

\* Each page that was found has one row among the entries, and no other has.
LEMMA EntryOfPath ==
    ASSUME IsRanking(lex), IsRanking(sem)
    PROVE  /\ \A r \in Entries : r \in Page /\ r.path \in PathsOf(lex) \cup PathsOf(sem)
           /\ \A p \in PathsOf(lex) \cup PathsOf(sem) : \E r \in Entries : r.path = p
           /\ \A r, s \in Entries : r.path = s.path => r = s
           /\ IsFiniteSet(Entries)
<1>1. DOMAIN lex = 1 .. Len(lex) /\ DOMAIN sem = 1 .. Len(sem) /\ Len(lex) \in Nat /\ Len(sem) \in Nat
    BY DEF IsRanking
<1>2. /\ \A i \in DOMAIN lex : lex[i] \in Page
      /\ \A i \in DOMAIN sem : sem[i] \in Page
    BY <1>1 DEF IsRanking
<1>3. ASSUME NEW r \in Entries PROVE r \in Page /\ r.path \in PathsOf(lex) \cup PathsOf(sem)
    <2>1. CASE r \in RowsOf(lex)
        <3>1. PICK i \in DOMAIN lex : r = lex[i]
            BY <2>1 DEF RowsOf
        <3>2. QED
            BY <1>2, <3>1 DEF PathsOf
    <2>2. CASE r \in RowsOf(sem)
        <3>1. PICK i \in DOMAIN sem : r = sem[i]
            BY <2>2 DEF RowsOf
        <3>2. QED
            BY <1>2, <3>1 DEF PathsOf
    <2>3. QED
        BY <2>1, <2>2 DEF Entries
<1>4. ASSUME NEW p \in PathsOf(lex) \cup PathsOf(sem) PROVE \E r \in Entries : r.path = p
    BY DEF Entries, RowsOf, PathsOf
<1>5. ASSUME NEW r \in Entries, NEW s \in Entries, r.path = s.path PROVE r = s
    <2>1. (\E i \in DOMAIN lex : r = lex[i]) \/ (r.path \notin PathsOf(lex) /\ \E i \in DOMAIN sem : r = sem[i])
        BY DEF Entries, RowsOf
    <2>2. (\E i \in DOMAIN lex : s = lex[i]) \/ (s.path \notin PathsOf(lex) /\ \E i \in DOMAIN sem : s = sem[i])
        BY DEF Entries, RowsOf
    <2>3. CASE r.path \in PathsOf(lex)
        BY <1>5, <2>1, <2>2, <2>3 DEF IsRanking
    <2>4. CASE r.path \notin PathsOf(lex)
        <3>1. \A i \in DOMAIN lex : lex[i].path \in PathsOf(lex)
            BY DEF PathsOf
        <3>2. QED
            BY <1>5, <2>1, <2>2, <2>4, <3>1 DEF IsRanking
    <2>5. QED
        BY <2>3, <2>4
<1>6. IsFiniteSet(Entries)
    <2>1. IsFiniteSet(RowsOf(lex)) /\ IsFiniteSet(RowsOf(sem))
        <3>1. IsFiniteSet(DOMAIN lex) /\ IsFiniteSet(DOMAIN sem)
            BY <1>1, FS_Interval
        <3>2. lex \in Surjection(DOMAIN lex, RowsOf(lex)) /\ sem \in Surjection(DOMAIN sem, RowsOf(sem))
            BY DEF RowsOf, Surjection, IsRanking
        <3>3. QED
            BY <3>1, <3>2, FS_Surjection
    <2>2. QED
        BY <2>1, FS_Union, FS_Subset DEF Entries
<1>7. QED
    BY <1>3, <1>4, <1>5, <1>6

\* A score is a number, and of two pages the better one has the higher score.
LEMMA BetterScores ==
    ASSUME IsRanking(lex), IsRanking(sem)
    PROVE  /\ \A p \in Path : Score(p) \in Nat
           /\ \A p, q \in PathsOf(lex) \cup PathsOf(sem) : Better(p, q) => Score(q) < Score(p)
<1> DEFINE part(p, q) == IF p \in PathsOf(q) THEN Share(Rank(p, q)) ELSE 0
           at(p, q) == IF p \in PathsOf(q) THEN Rank(p, q) ELSE Window + 1
<1>1. ASSUME NEW q, IsRanking(q), NEW p PROVE part(p, q) \in Nat
    BY <1>1, RankInWindow, ShareFalls
<1>2. ASSUME NEW q, IsRanking(q), NEW p, NEW s
      PROVE  /\ at(p, q) <= at(s, q) => part(s, q) <= part(p, q)
             /\ at(p, q) < at(s, q) => part(s, q) < part(p, q)
    <2>1. p \in PathsOf(q) => Rank(p, q) \in 1 .. Window
        BY <1>2, RankInWindow
    <2>2. s \in PathsOf(q) => Rank(s, q) \in 1 .. Window
        BY <1>2, RankInWindow
    <2>3. Window \in Nat \ {0}
        BY WindowType
    <2>4. CASE p \in PathsOf(q) /\ s \in PathsOf(q)
        BY <2>1, <2>2, <2>4, ShareFalls
    <2>5. CASE p \in PathsOf(q) /\ s \notin PathsOf(q)
        BY <2>1, <2>3, <2>5, ShareFalls
    <2>6. CASE p \notin PathsOf(q)
        BY <2>1, <2>2, <2>3, <2>6, ShareFalls
    <2>7. QED
        BY <2>4, <2>5, <2>6
<1>3. \A p : Score(p) = part(p, lex) + part(p, sem)
    BY DEF Score
<1>4. \A p, q : Better(p, q) =>
          /\ at(p, lex) <= at(q, lex) /\ at(p, sem) <= at(q, sem)
          /\ at(p, lex) < at(q, lex) \/ at(p, sem) < at(q, sem)
    BY DEF Better
<1> HIDE DEF part, at
<1>5. ASSUME NEW p \in PathsOf(lex) \cup PathsOf(sem), NEW q \in PathsOf(lex) \cup PathsOf(sem), Better(p, q)
      PROVE  Score(q) < Score(p)
    BY <1>1, <1>2, <1>3, <1>4, <1>5
<1>6. QED
    BY <1>1, <1>3, <1>5

\* No two entries were inserted in the same place.
LEMMA InsertedOnce ==
    ASSUME IsRanking(lex), IsRanking(sem)
    PROVE  /\ \A r \in Entries : Inserted(r) \in Nat
           /\ \A r, s \in Entries : Inserted(r) = Inserted(s) => r = s
<1> DEFINE old(r) == r \in RowsOf(lex) /\ r.path \in PathsOf(lex) /\ lex[Rank(r.path, lex)].path = r.path
           new(r) == /\ r \notin RowsOf(lex) /\ r.path \in PathsOf(sem)
                     /\ sem[Rank(r.path, sem)].path = r.path
<1>1. ASSUME NEW r \in Entries PROVE old(r) \/ new(r)
    <2>1. r \in RowsOf(lex) => r.path \in PathsOf(lex)
        BY DEF RowsOf, PathsOf
    <2>2. r \notin RowsOf(lex) => r.path \in PathsOf(sem)
        BY DEF Entries, RowsOf, PathsOf
    <2>3. QED
        BY <2>1, <2>2, RankFact DEF IsRanking
<1>2. ASSUME NEW r \in Entries, old(r)
      PROVE  Inserted(r) = Rank(r.path, lex) /\ Rank(r.path, lex) \in 1 .. Len(lex)
    BY <1>2, RankInWindow DEF Inserted
<1>3. ASSUME NEW r \in Entries, new(r)
      PROVE  Inserted(r) = Len(lex) + Rank(r.path, sem) /\ Rank(r.path, sem) \in 1 .. Len(sem)
    BY <1>3, RankInWindow DEF Inserted
<1>4. Len(lex) \in Nat /\ Len(sem) \in Nat
    BY DEF IsRanking
<1>5. ASSUME NEW r \in Entries PROVE Inserted(r) \in Nat
    <2>1. CASE old(r)
        BY <1>2, <1>4, <2>1
    <2>2. CASE new(r)
        BY <1>3, <1>4, <2>2
    <2>3. QED
        BY <1>1, <2>1, <2>2
<1>6. ASSUME NEW r \in Entries, NEW s \in Entries, Inserted(r) = Inserted(s) PROVE r.path = s.path
    <2>1. CASE old(r) /\ old(s)
        BY <1>2, <1>6, <2>1
    <2>2. CASE new(r) /\ new(s)
        <3>1. Rank(r.path, sem) = Rank(s.path, sem)
            <4> HIDE DEF new
            <4>1. QED
                BY <1>3, <1>4, <1>6, <2>2
        <3>2. QED
            BY <2>2, <3>1
    <2>3. CASE old(r) /\ new(s)
        <3> HIDE DEF new, old
        <3>1. QED
            BY <1>2, <1>3, <1>4, <1>6, <2>3
    <2>4. CASE new(r) /\ old(s)
        <3> HIDE DEF new, old
        <3>1. QED
            BY <1>2, <1>3, <1>4, <1>6, <2>4
    <2>5. QED
        BY <1>1, <2>1, <2>2, <2>3, <2>4
<1>7. QED
    BY <1>5, <1>6, EntryOfPath

\* The entries are in a strict order, so each has a place of its own.
LEMMA EntryPlaces ==
    ASSUME IsRanking(lex), IsRanking(sem)
    PROVE  /\ \A r \in Entries : Cardinality(Before(r)) \in 0 .. Cardinality(Entries) - 1
           /\ \A r, s \in Entries : r \in Before(s) => Cardinality(Before(r)) < Cardinality(Before(s))
           /\ \A r, s \in Entries : Cardinality(Before(r)) = Cardinality(Before(s)) => r = s
           /\ \A n \in 1 .. Cardinality(Entries) : \E r \in Entries : Cardinality(Before(r)) = n - 1
<1> DEFINE B == [r \in Entries |-> Before(r)]
<1>1. \A r \in Entries : Score(r.path) \in Nat /\ Inserted(r) \in Nat
    <2>1. \A r \in Entries : r.path \in Path
        BY EntryOfPath DEF Page
    <2>2. QED
        BY <2>1, BetterScores, InsertedOnce
<1>2. \A r, s \in Entries : s \in Before(r) <=>
          \/ Score(s.path) > Score(r.path)
          \/ Score(s.path) = Score(r.path) /\ Inserted(s) < Inserted(r)
    BY DEF Before
<1>3. B \in [Entries -> SUBSET Entries]
    BY DEF Before
<1>4. \A r \in Entries : r \notin B[r]
    BY <1>1, <1>2
<1>5. \A r, s \in Entries : r # s => r \in B[s] \/ s \in B[r]
    <2>1. \A r, s \in Entries : r # s => Inserted(r) # Inserted(s)
        BY InsertedOnce
    <2>2. QED
        BY <1>1, <1>2, <2>1
<1>6. ASSUME NEW r \in Entries, NEW s \in Entries, r \in B[s] PROVE B[r] \subseteq B[s]
    <2>1. ASSUME NEW e \in B[r] PROVE e \in B[s]
        <3>1. e \in Entries /\ e \in Before(r) /\ r \in Before(s)
            BY <1>3, <1>6
        <3>2. e \in Before(s)
            BY <1>1, <1>2, <3>1
        <3>3. QED
            BY <3>2
    <2>2. QED
        BY <2>1
<1>7. IsFiniteSet(Entries)
    BY EntryOfPath
<1>8. \A r \in Entries : B[r] = Before(r)
    OBVIOUS
<1> HIDE DEF B
<1>9. /\ \A r \in Entries : Cardinality(B[r]) \in 0 .. Cardinality(Entries) - 1
      /\ \A r, s \in Entries : r \in B[s] => Cardinality(B[r]) < Cardinality(B[s])
      /\ \A r, s \in Entries : Cardinality(B[r]) = Cardinality(B[s]) => r = s
      /\ \A n \in 1 .. Cardinality(Entries) : \E r \in Entries : Cardinality(B[r]) = n - 1
    BY <1>3, <1>4, <1>5, <1>6, <1>7, Places
<1>10. QED
    BY <1>8, <1>9

\* The answer is the first entries in that order.
LEMMA BestFact ==
    ASSUME IsRanking(lex), IsRanking(sem)
    PROVE  /\ DOMAIN Best = 1 .. Len(Best) /\ Len(Best) \in Nat
           /\ Len(Best) = IF Cardinality(Entries) < SearchLimit THEN Cardinality(Entries) ELSE SearchLimit
           /\ \A n \in DOMAIN Best : Best[n] \in Entries /\ Cardinality(Before(Best[n])) = n - 1
           /\ \A r \in Entries : Cardinality(Before(r)) < Len(Best) =>
                  Cardinality(Before(r)) + 1 \in DOMAIN Best /\ Best[Cardinality(Before(r)) + 1] = r
           /\ \A i, j \in DOMAIN Best : Best[i].path = Best[j].path => i = j
<1> DEFINE size == Cardinality(Entries)
           len == IF size < SearchLimit THEN size ELSE SearchLimit
<1>1. size \in Nat /\ len \in Nat /\ len <= size
    BY EntryOfPath, FS_CardinalityType, QueriesAssumption
<1>2. Best = [n \in 1 .. len |-> CHOOSE r \in Entries : Cardinality(Before(r)) = n - 1]
    BY DEF Best
<1> HIDE DEF len
<1>3. DOMAIN Best = 1 .. len /\ Len(Best) = len
    BY <1>1, <1>2
<1>4. ASSUME NEW n \in 1 .. len PROVE Best[n] \in Entries /\ Cardinality(Before(Best[n])) = n - 1
    <2>1. n \in 1 .. size
        BY <1>1
    <2>2. \E r \in Entries : Cardinality(Before(r)) = n - 1
        BY <2>1, EntryPlaces
    <2>3. Best[n] = CHOOSE r \in Entries : Cardinality(Before(r)) = n - 1
        BY <1>2
    <2>4. QED
        BY <2>2, <2>3
<1>5. ASSUME NEW r \in Entries, Cardinality(Before(r)) < len
      PROVE  Cardinality(Before(r)) + 1 \in 1 .. len /\ Best[Cardinality(Before(r)) + 1] = r
    <2> DEFINE b == Cardinality(Before(r))
    <2>1. b \in 0 .. size - 1
        BY EntryPlaces
    <2>2. b + 1 \in 1 .. len /\ (b + 1) - 1 = b
        BY <1>1, <1>5, <2>1
    <2>3. Best[b + 1] \in Entries /\ Cardinality(Before(Best[b + 1])) = b
        BY <1>4, <2>2
    <2>4. QED
        BY <2>2, <2>3, EntryPlaces
<1>6. ASSUME NEW i \in 1 .. len, NEW j \in 1 .. len, Best[i].path = Best[j].path PROVE i = j
    <2>1. Best[i] = Best[j]
        BY <1>4, <1>6, EntryOfPath
    <2>2. i - 1 = j - 1
        BY <1>4, <2>1
    <2>3. QED
        BY <1>1, <2>2
<1>7. QED
    BY <1>1, <1>3, <1>4, <1>5, <1>6 DEF len

\* So the fusion is fair, whatever the two rankers have found.
LEMMA FusionFair ==
    ASSUME IsRanking(lex), IsRanking(sem), answer = Best
    PROVE  FusionIsFair /\ Ranked(answer)
<1> DEFINE found == PathsOf(lex) \cup PathsOf(sem)
           hits == PathsOf(answer)
<1>1. hits \subseteq found
    <2>1. ASSUME NEW p \in hits PROVE p \in found
        <3>1. PICK n \in DOMAIN Best : p = Best[n].path
            BY DEF PathsOf
        <3>2. QED
            BY <3>1, BestFact, EntryOfPath
    <2>2. QED
        BY <2>1
<1>2. hits = found \/ Len(answer) = SearchLimit
    <2>1. SUFFICES ASSUME Len(answer) # SearchLimit PROVE found \subseteq hits
        BY <1>1
    <2>2. Len(Best) = Cardinality(Entries)
        BY <2>1, BestFact
    <2>3. ASSUME NEW p \in found PROVE p \in hits
        <3>1. PICK r \in Entries : r.path = p
            BY EntryOfPath
        <3>2. Cardinality(Before(r)) < Len(Best)
            <4>1. Cardinality(Before(r)) \in 0 .. Cardinality(Entries) - 1
                BY EntryPlaces
            <4>2. Cardinality(Entries) \in Nat
                BY EntryOfPath, FS_CardinalityType
            <4>3. QED
                BY <2>2, <4>1, <4>2
        <3>3. PICK n \in DOMAIN Best : Best[n] = r
            BY <3>2, BestFact
        <3>4. QED
            BY <3>1, <3>3 DEF PathsOf
    <2>4. QED
        BY <2>3
<1>3. ASSUME NEW p \in found, NEW q \in hits, Better(p, q)
      PROVE  p \in hits /\ Rank(p, answer) < Rank(q, answer)
    <2>1. PICK n \in DOMAIN Best : q = Best[n].path
        BY DEF PathsOf
    <2>2. PICK r \in Entries : r.path = p
        BY EntryOfPath
    <2>3. Best[n] \in Entries /\ Cardinality(Before(Best[n])) = n - 1
        BY BestFact
    <2>4. Score(Best[n].path) < Score(r.path) /\ Score(Best[n].path) \in Nat /\ Score(r.path) \in Nat
        <3>1. p \in Path /\ q \in Path
            BY <2>1, <2>2, <2>3, EntryOfPath DEF Page
        <3>2. q \in found
            BY <1>1
        <3>3. QED
            BY <1>3, <2>1, <2>2, <3>1, <3>2, BetterScores
    <2>5. r \in Before(Best[n])
        BY <2>4 DEF Before
    <2>6. Cardinality(Before(r)) < n - 1
        BY <2>3, <2>5, EntryPlaces
    <2> DEFINE m == Cardinality(Before(r)) + 1
    <2>7. Cardinality(Before(r)) < Len(Best) /\ m < n
        <3>1. n \in 1 .. Len(Best) /\ Len(Best) \in Nat
            BY BestFact
        <3>2. Cardinality(Before(r)) \in Int
            BY EntryPlaces
        <3>3. QED
            BY <2>6, <3>1, <3>2
    <2>8. m \in DOMAIN Best /\ Best[m] = r
        BY <2>7, BestFact
    <2>9. Rank(p, answer) = m /\ Rank(q, answer) = n /\ p \in PathsOf(answer)
        BY <2>1, <2>2, <2>8, BestFact, RankFact
    <2>10. QED
        BY <2>7, <2>9
<1>4. Ranked(answer)
    <2>1. \A i \in DOMAIN answer : answer[i].path \in Path /\ answer[i].gv \in 1 .. MaxGv
        BY BestFact, EntryOfPath DEF Page
    <2>2. QED
        BY <2>1, BestFact DEF Ranked
<1>5. QED
    BY <1>1, <1>2, <1>3, <1>4 DEF FusionIsFair

-----------------------------------------------------------------------------
(* The invariant.                                                           *)

\* Every content has a number of its own, and no number is used twice.
PagesOK ==
    /\ pages \in [Path -> 0 .. MaxGv] /\ embedded \in [Path -> 0 .. MaxGv]
    /\ \A p, q \in Present : pages[p] = pages[q] => p = q
    /\ \A p \in Path : embedded[p] # 0 => p \in Present
    /\ drawn \subseteq 1 .. MaxGv /\ {pages[p] : p \in Present} \subseteq drawn

\* Of the pages nobody touched, a listing has named those that are as new as its
\* cursor and no others.
ListOK ==
    /\ op \in {"none", "list", "listed", "search", "found"}
    /\ cursor \in 0 .. MaxGv + 1
    /\ listed \subseteq Path /\ twice \subseteq listed
    /\ first \subseteq Path /\ touched \subseteq Path
    /\ twice \subseteq touched
    /\ op = "none" => touched = {} /\ listed = {} /\ cursor = MaxGv + 1
    /\ op = "list" => \A p \in Path \ touched :
          /\ p \in first <=> p \in Present
          /\ p \in listed <=> p \in Present /\ pages[p] >= cursor
    /\ op = "listed" => \A p \in Path \ touched : p \in first <=> p \in listed

\* A search answers when both rankers have, with the fusion of what they found.
SearchOK ==
    /\ lex = Pending \/ IsRanking(lex)
    /\ sem = Pending \/ IsRanking(sem)
    /\ IF op = "found" THEN lex # Pending /\ sem # Pending /\ answer = Best ELSE answer = <<>>

QueriesInv == PagesOK /\ ListOK /\ SearchOK

\* The fusion depends on the two rankings alone.
LEMMA BestFrame == ASSUME lex' = lex, sem' = sem PROVE Best' = Best
<1>1. Entries' = Entries
    BY DEF Entries, RowsOf, PathsOf
<1>2. \A p : (Score(p))' = Score(p)
    BY DEF Score, PathsOf, Rank, Share, Denominator
<1>3. \A r : (Inserted(r))' = Inserted(r)
    BY DEF Inserted, RowsOf, Rank
<1>4. \A r : (Before(r))' = Before(r)
    BY <1>1, <1>2, <1>3 DEF Before
<1>5. QED
    BY <1>1, <1>4 DEF Best

\* There are finitely many rows, of different pages.
LEMMA RowsFact ==
    ASSUME PagesOK
    PROVE  /\ IsFiniteSet(Present) /\ IsFiniteSet(Rows)
           /\ \A r \in Rows : r \in Page
           /\ \A r, s \in Rows : r.path = s.path => r = s
<1>1. IsFiniteSet(Present)
    BY QueriesAssumption, FS_Subset DEF Present
<1>2. IsFiniteSet(Rows)
    <2> DEFINE f == [p \in Present |-> Row(p)]
    <2>1. f \in Surjection(Present, Rows)
        BY DEF Surjection, Rows
    <2>2. QED
        BY <1>1, <2>1, FS_Surjection
<1>3. ASSUME NEW r \in Rows PROVE r \in Page
    <2>1. PICK p \in Present : r = Row(p)
        BY DEF Rows
    <2>2. p \in Path /\ pages[p] \in 1 .. MaxGv
        BY QueriesAssumption DEF Present, PagesOK
    <2>3. QED
        BY <2>1, <2>2 DEF Row, Page
<1>4. ASSUME NEW r \in Rows, NEW s \in Rows, r.path = s.path PROVE r = s
    <2>1. PICK p \in Present : r = Row(p)
        BY DEF Rows
    <2>2. PICK q \in Present : s = Row(q)
        BY DEF Rows
    <2>3. QED
        BY <1>4, <2>1, <2>2 DEF Row
<1>5. QED
    BY <1>1, <1>2, <1>3, <1>4

\* What a ranker makes of a set of rows is a ranking.
LEMMA RankingsFact ==
    ASSUME PagesOK, NEW is \in SUBSET Rows, NEW q \in Rankings(is)
    PROVE  IsRanking(q) /\ q # Pending
<1> DEFINE D == 1 .. Cardinality(is)
<1>1. Cardinality(is) \in Nat
    BY RowsFact, FS_Subset, FS_CardinalityType
<1>2. PICK f \in SetToSeqs(is) : q = SubSeq(f, 1, IF Len(f) < Window THEN Len(f) ELSE Window)
    BY DEF Rankings
<1>3. f \in [D -> is] /\ \A i, j \in D : i # j => f[i] # f[j]
    BY <1>2 DEF SetToSeqs
<1>4. f \in Seq(is) /\ Len(f) = Cardinality(is)
    BY <1>1, <1>3
<1> DEFINE k == IF Len(f) < Window THEN Len(f) ELSE Window
<1>5. k \in 0 .. Len(f) /\ k <= Window
    BY <1>1, <1>4, WindowType
<1> HIDE DEF k
<1>6. q = [i \in 1 .. k |-> f[i]]
    <2>1. q = SubSeq(f, 1, k)
        BY <1>2 DEF k
    <2>2. QED
        BY <1>4, <1>5, <2>1
<1>7. k \in Nat /\ \A i \in 1 .. k : i \in D
    BY <1>1, <1>4, <1>5
<1>8. \A i \in 1 .. k : f[i] \in is /\ f[i] \in Page
    BY <1>3, <1>7, RowsFact
<1>9. q \in Seq(Page) /\ Len(q) = k /\ DOMAIN q = 1 .. k
    BY <1>6, <1>7, <1>8
<1>10. ASSUME NEW i \in 1 .. k, NEW j \in 1 .. k, q[i].path = q[j].path PROVE i = j
    <2>1. f[i] \in Rows /\ f[j] \in Rows /\ f[i].path = f[j].path
        BY <1>6, <1>8, <1>10
    <2>2. f[i] = f[j]
        BY <2>1, RowsFact
    <2>3. QED
        BY <1>3, <1>7, <2>2
<1>11. IsRanking(q)
    BY <1>5, <1>9, <1>10 DEF IsRanking
<1>12. q # Pending
    <2>1. Pending \notin Seq(Page)
        <3>1. SUFFICES ASSUME Pending \in Seq(Page) PROVE FALSE
            OBVIOUS
        <3>2. Pending[1] \in Page
            BY <3>1 DEF Pending
        <3>3. DOMAIN Pending[1] = {"path"}
            BY DEF Pending
        <3>4. DOMAIN Pending[1] = {"path", "gv"}
            BY <3>2 DEF Page
        <3>5. QED
            BY <3>3, <3>4
    <2>2. QED
        BY <1>9, <2>1
<1>13. QED
    BY <1>11, <1>12

\* An answer of wiki.list that is not full holds all there is, and with an entry
\* it holds every newer one.
LEMMA NewestFact ==
    ASSUME PagesOK, NEW S \in SUBSET Present
    PROVE  /\ Newest(S) \subseteq S
           /\ Cardinality(Newest(S)) # ListLimit => Newest(S) = S
           /\ Cardinality(Newest(S)) = ListLimit => Newest(S) # {}
           /\ \A p \in S, q \in Newest(S) : pages[q] <= pages[p] => p \in Newest(S)
<1> DEFINE newer(p) == {q \in S : pages[q] > pages[p]}
           B == [p \in S |-> newer(p)]
<1>1. IsFiniteSet(S)
    BY RowsFact, FS_Subset
<1>2. \A p \in S : p \in Path /\ pages[p] \in Nat
    BY DEF PagesOK, Present
<1>3. Newest(S) = {p \in S : Cardinality(B[p]) < ListLimit} /\ ListLimit \in Nat \ {0}
    BY QueriesAssumption DEF Newest
<1>4. B \in [S -> SUBSET S]
    OBVIOUS
<1>5. \A p, q \in S : q \in B[p] <=> pages[q] > pages[p]
    OBVIOUS
<1> HIDE DEF B
<1>6. \A p \in S : p \notin B[p]
    BY <1>2, <1>5
<1>7. \A p, q \in S : p # q => p \in B[q] \/ q \in B[p]
    <2>1. \A p, q \in S : p # q => pages[p] # pages[q]
        BY DEF PagesOK
    <2>2. QED
        BY <1>2, <1>5, <2>1
<1>8. \A p, q \in S : p \in B[q] => B[p] \subseteq B[q]
    BY <1>2, <1>4, <1>5
<1>9. /\ \A p \in S : Cardinality(B[p]) \in 0 .. Cardinality(S) - 1
      /\ \A p, q \in S : p \in B[q] => Cardinality(B[p]) < Cardinality(B[q])
      /\ \A p, q \in S : Cardinality(B[p]) = Cardinality(B[q]) => p = q
      /\ \A n \in 1 .. Cardinality(S) : \E p \in S : Cardinality(B[p]) = n - 1
    BY <1>1, <1>4, <1>6, <1>7, <1>8, Places
<1>10. Cardinality(S) \in Nat
    BY <1>1, FS_CardinalityType
<1>11. Cardinality(Newest(S)) # ListLimit => Newest(S) = S
    <2>1. SUFFICES ASSUME NEW p \in S, p \notin Newest(S) PROVE Cardinality(Newest(S)) = ListLimit
        BY <1>3
    <2>2. ListLimit <= Cardinality(B[p]) /\ ListLimit < Cardinality(S)
        BY <1>3, <1>9, <1>10, <2>1
    <2> DEFINE at == [q \in Newest(S) |-> Cardinality(B[q])]
    <2>3. \A q \in Newest(S) : at[q] = Cardinality(B[q]) /\ q \in S
        BY <1>3
    <2>4. at \in [Newest(S) -> 0 .. ListLimit - 1]
        <3>1. \A q \in Newest(S) : Cardinality(B[q]) \in 0 .. ListLimit - 1
            BY <1>3, <1>9, <1>10
        <3>2. QED
            BY <3>1
    <2> HIDE DEF at
    <2>5. \A x, y \in Newest(S) : at[x] = at[y] => x = y
        BY <1>9, <2>3
    <2>6. \A n \in 0 .. ListLimit - 1 : \E q \in Newest(S) : at[q] = n
        <3>1. ASSUME NEW n \in 0 .. ListLimit - 1 PROVE \E q \in Newest(S) : at[q] = n
            <4>1. n + 1 \in 1 .. Cardinality(S) /\ (n + 1) - 1 = n /\ n < ListLimit
                BY <1>3, <1>10, <2>2
            <4>2. PICK q \in S : Cardinality(B[q]) = n
                BY <1>9, <4>1
            <4>3. q \in Newest(S)
                BY <1>3, <4>1, <4>2
            <4>4. QED
                BY <2>3, <4>2, <4>3
        <3>2. QED
            BY <3>1
    <2>7. at \in Injection(Newest(S), 0 .. ListLimit - 1)
        BY <2>4, <2>5 DEF Injection, IsInjective
    <2>8. at \in Surjection(Newest(S), 0 .. ListLimit - 1)
        BY <2>4, <2>6 DEF Surjection
    <2>9. IsFiniteSet(0 .. ListLimit - 1) /\ Cardinality(0 .. ListLimit - 1) = ListLimit
        <3>1. 0 \in Int /\ ListLimit - 1 \in Int
            BY <1>3
        <3>2. QED
            BY <1>3, <3>1, FS_Interval
    <2>10. QED
        BY <2>7, <2>8, <2>9, FS_Injection
<1>12. Cardinality(Newest(S)) = ListLimit => Newest(S) # {}
    BY <1>3, FS_EmptySet
<1>13. ASSUME NEW p \in S, NEW q \in Newest(S), pages[q] <= pages[p] PROVE p \in Newest(S)
    <2>1. CASE p = q
        BY <2>1
    <2>2. CASE p # q
        <3>1. q \in S /\ Cardinality(B[q]) < ListLimit
            BY <1>3
        <3>2. q \notin B[p]
            BY <1>2, <1>5, <1>13, <3>1
        <3>3. p \in B[q]
            BY <1>7, <2>2, <3>1, <3>2
        <3>4. Cardinality(B[p]) < Cardinality(B[q]) /\ Cardinality(B[p]) \in Int /\ Cardinality(B[q]) \in Int
            BY <1>9, <3>1, <3>3
        <3>5. QED
            BY <1>3, <3>1, <3>4
    <2>3. QED
        BY <2>1, <2>2
<1>14. QED
    BY <1>3, <1>11, <1>12, <1>13

-----------------------------------------------------------------------------
(* The steps.                                                               *)

\* In the states the system begins in, the invariant holds.
LEMMA InitKeeps == ASSUME QueriesInit PROVE QueriesInv
<1>1. PagesOK
    <2>1. PICK order \in [Path -> 1 .. Cardinality(Path)] :
              pages = order /\ \A p, q \in Path : order[p] = order[q] => p = q
        BY DEF QueriesInit
    <2>2. Cardinality(Path) \in Nat /\ MaxGv \in Nat /\ Cardinality(Path) <= MaxGv
        BY QueriesAssumption, FS_CardinalityType
    <2>3. \A p \in Path : pages[p] \in 1 .. Cardinality(Path)
        BY <2>1
    <2>4. pages \in [Path -> 0 .. MaxGv] /\ Present = Path
        BY <2>1, <2>2, <2>3 DEF Present
    <2>5. 0 \in 0 .. MaxGv
        BY <2>2
    <2>6. embedded \in [Path -> 0 .. MaxGv]
        <3>1. embedded \in [Path -> {0}] \/ embedded = pages
            BY DEF QueriesInit
        <3>2. QED
            BY <2>4, <2>5, <3>1
    <2>7. drawn = 1 .. Cardinality(Path)
        BY DEF QueriesInit
    <2>8. drawn \subseteq 1 .. MaxGv /\ {pages[p] : p \in Present} \subseteq drawn
        BY <2>2, <2>3, <2>4, <2>7
    <2>9. QED
        BY <2>1, <2>4, <2>6, <2>8 DEF PagesOK
<1>2. ListOK
    <2>1. MaxGv + 1 \in 0 .. MaxGv + 1
        BY QueriesAssumption
    <2>2. QED
        BY <2>1 DEF QueriesInit, ListOK
<1>3. SearchOK
    BY DEF QueriesInit, SearchOK
<1>4. QED
    BY <1>1, <1>2, <1>3 DEF QueriesInv

\* A write, a deletion and an embedding keep the pages in order.
LEMMA PagesKeep ==
    ASSUME PagesOK, NEW p \in Path, Write(p) \/ Delete(p) \/ Embed(p)
    PROVE  /\ PagesOK'
           /\ \A q \in Path \ {p} : pages'[q] = pages[q]
           /\ Embed(p) => pages' = pages
<1>0. 0 \in 0 .. MaxGv
    BY QueriesAssumption
<1>1. CASE Write(p)
    <2>1. PICK g \in Fresh(p) : pages' = [pages EXCEPT ![p] = g] /\ drawn' = drawn \cup {g}
        BY <1>1 DEF Write
    <2>2. g \in 1 .. MaxGv /\ g \notin drawn /\ g # 0 /\ g \in 0 .. MaxGv
        BY <2>1 DEF Fresh
    <2>3. embedded' = embedded
        BY <1>1 DEF Write
    <2>4. pages' \in [Path -> 0 .. MaxGv] /\ pages'[p] = g /\ \A q \in Path \ {p} : pages'[q] = pages[q]
        BY <2>1, <2>2 DEF PagesOK
    <2>5. Present' = Present \cup {p}
        BY <2>2, <2>4 DEF Present
    <2>6. \A q \in Present : pages[q] \in drawn
        BY DEF PagesOK
    <2>7. \A q, r \in Present' : pages'[q] = pages'[r] => q = r
        BY <2>2, <2>4, <2>5, <2>6 DEF PagesOK, Present
    <2>8. {pages'[q] : q \in Present'} \subseteq drawn'
        BY <2>1, <2>4, <2>5, <2>6 DEF Present
    <2>9. drawn' \subseteq 1 .. MaxGv
        BY <2>1, <2>2 DEF PagesOK
    <2>10. PagesOK'
        BY <2>3, <2>4, <2>5, <2>7, <2>8, <2>9 DEF PagesOK
    <2>11. ~Embed(p) \/ pages' = pages
        BY DEF Embed
    <2>12. QED
        BY <2>4, <2>10, <2>11
<1>2. CASE Delete(p)
    <2>1. /\ pages' = [pages EXCEPT ![p] = 0] /\ embedded' = [embedded EXCEPT ![p] = 0]
          /\ drawn' = drawn
        BY <1>2 DEF Delete
    <2>2. pages' \in [Path -> 0 .. MaxGv] /\ pages'[p] = 0 /\ \A q \in Path \ {p} : pages'[q] = pages[q]
        BY <1>0, <2>1 DEF PagesOK
    <2>3. /\ embedded' \in [Path -> 0 .. MaxGv] /\ embedded'[p] = 0
          /\ \A q \in Path \ {p} : embedded'[q] = embedded[q]
        BY <1>0, <2>1 DEF PagesOK
    <2>4. Present' = Present \ {p}
        BY <2>2 DEF Present
    <2>5. PagesOK'
        BY <2>1, <2>2, <2>3, <2>4 DEF PagesOK
    <2>6. ~Embed(p) \/ pages' = pages
        BY DEF Embed
    <2>7. QED
        BY <2>2, <2>5, <2>6
<1>3. CASE Embed(p)
    <2>1. embedded' = [embedded EXCEPT ![p] = pages[p]] /\ pages' = pages /\ drawn' = drawn /\ p \in Present
        BY <1>3 DEF Embed
    <2>2. Present' = Present
        BY <2>1 DEF Present
    <2>3. embedded' \in [Path -> 0 .. MaxGv] /\ \A q \in Path \ {p} : embedded'[q] = embedded[q]
        BY <2>1 DEF PagesOK
    <2>4. QED
        BY <2>1, <2>2, <2>3 DEF PagesOK
<1>4. QED
    BY <1>1, <1>2, <1>3

\* They put the page on the list of those that were touched, and nothing else
\* that a listing knows of changes.
LEMMA TouchKeeps ==
    ASSUME PagesOK, ListOK, NEW p \in Path, Write(p) \/ Delete(p) \/ Embed(p)
    PROVE  ListOK'
<1>1. /\ UNCHANGED <<op, cursor, listed, twice, first>>
      /\ touched' = touched \/ touched' = touched \cup {p}
      /\ op \in {"none", "found", "listed"} => touched' = touched
      /\ op = "list" => Embed(p) \/ touched' = touched \cup {p}
    BY DEF Write, Delete, Embed, listVars, Touch, Calling
<1>2. op \notin {"listed", "found"}
    BY DEF Write, Delete, Embed, Bounded
<1>3. ASSUME op = "list", NEW q \in Path \ touched'
      PROVE  /\ q \in first <=> q \in Present'
             /\ q \in listed <=> q \in Present' /\ pages'[q] >= cursor
    <2>1. pages'[q] = pages[q] /\ q \in Path \ touched
        BY <1>1, <1>3, PagesKeep
    <2>2. q \in Present' <=> q \in Present
        BY <2>1 DEF Present
    <2>3. QED
        BY <1>3, <2>1, <2>2 DEF ListOK
<1>4. QED
    BY <1>1, <1>2, <1>3 DEF ListOK

\* Nothing of a search changes in a step that leaves its variables alone.
LEMMA SearchFrame ==
    ASSUME SearchOK, UNCHANGED searchVars, op' = "found" <=> op = "found"
    PROVE  SearchOK'
BY BestFrame DEF SearchOK, searchVars

\* A caller that begins has seen nothing, and nobody has touched a page.
LEMMA BeginKeeps ==
    ASSUME QueriesInv, NEW what \in {"list", "search"}, Begin(what)
    PROVE  QueriesInv'
<1>1. op = "none" /\ op' = what /\ first' = Present /\ UNCHANGED <<pageVars, listVars, searchVars, touched>>
    BY DEF Begin
<1>2. PagesOK'
    BY <1>1 DEF QueriesInv, PagesOK, Present, pageVars
<1>3. ListOK'
    <2>1. touched' = {} /\ listed' = {} /\ cursor' = MaxGv + 1 /\ twice' = twice /\ pages' = pages
        BY <1>1 DEF QueriesInv, ListOK, listVars, pageVars
    <2>2. Present' = Present /\ first' = Present /\ Present \subseteq Path
        BY <1>1, <2>1 DEF Present
    <2>3. \A p \in Present : ~(pages[p] >= MaxGv + 1)
        BY QueriesAssumption DEF QueriesInv, PagesOK, Present
    <2>4. MaxGv + 1 \in 0 .. MaxGv + 1
        BY QueriesAssumption
    <2>5. QED
        BY <1>1, <2>1, <2>2, <2>3, <2>4 DEF QueriesInv, ListOK
<1>4. SearchOK'
    BY <1>1, SearchFrame DEF QueriesInv
<1>5. QED
    BY <1>2, <1>3, <1>4 DEF QueriesInv

\* An answer of wiki.list goes on exactly where the one before ended.
LEMMA ListCallKeeps == ASSUME QueriesInv, ListCall PROVE QueriesInv'
<1> DEFINE rows == Newest(Older)
           more == Cardinality(rows) = ListLimit
<1>1. /\ op = "list" /\ listed' = listed \cup rows /\ twice' = twice \cup (listed \cap rows)
      /\ UNCHANGED <<pages, drawn, embedded, lex, sem, answer, first, touched>>
    BY DEF ListCall, pageVars, searchVars
<1>2. more => /\ cursor' \in {pages[p] : p \in rows} /\ \A p \in rows : cursor' <= pages[p]
              /\ op' = op
    BY DEF ListCall
<1>3. ~more => op' = "listed" /\ cursor' = cursor
    BY DEF ListCall
<1>4. /\ rows \subseteq Older
      /\ ~more => rows = Older
      /\ more => rows # {}
      /\ \A p \in Older, q \in rows : pages[q] <= pages[p] => p \in rows
    BY NewestFact DEF QueriesInv, Older
<1> HIDE DEF rows
<1>5. Older = {p \in Present : pages[p] < cursor} /\ Present \subseteq Path /\ cursor \in Nat /\ Present' = Present
    BY <1>1 DEF Older, Present, QueriesInv, ListOK
<1>6. \A p \in Path : pages[p] \in 0 .. MaxGv
    BY DEF QueriesInv, PagesOK
<1>7. \A p \in Path \ touched :
          /\ p \in first <=> p \in Present
          /\ p \in listed <=> p \in Present /\ pages[p] >= cursor
    BY <1>1 DEF QueriesInv, ListOK
<1>8. listed \cap rows \subseteq touched
    <2>1. ASSUME NEW p \in listed \cap rows, p \notin touched PROVE FALSE
        <3>1. p \in Path /\ pages[p] < cursor
            BY <1>4, <1>5
        <3>2. pages[p] >= cursor
            BY <1>7, <2>1, <3>1
        <3>3. QED
            BY <1>5, <1>6, <3>1, <3>2
    <2>2. QED
        BY <2>1
<1>9. listed' \subseteq Path /\ twice' \subseteq listed' /\ twice' \subseteq touched'
    BY <1>1, <1>4, <1>5, <1>8 DEF QueriesInv, ListOK
<1>10. CASE more
    <2>1. PICK last \in rows : cursor' = pages[last]
        BY <1>2, <1>10
    <2>2. last \in Path /\ pages[last] < cursor /\ cursor' \in 0 .. MaxGv + 1
        BY <1>4, <1>5, <1>6, <2>1, QueriesAssumption
    <2>3. ASSUME NEW p \in Path \ touched
          PROVE  p \in listed' <=> p \in Present' /\ pages'[p] >= cursor'
        <3>1. p \in rows => p \in Present /\ pages[p] >= cursor'
            BY <1>2, <1>4, <1>5, <1>6, <1>10, <2>1, <2>2
        <3>2. p \in listed => p \in Present /\ pages[p] >= cursor'
            BY <1>5, <1>6, <1>7, <2>1, <2>2
        <3>3. ASSUME p \in Present, pages[p] >= cursor' PROVE p \in listed \cup rows
            <4>1. CASE pages[p] >= cursor
                BY <1>7, <3>3, <4>1
            <4>2. CASE ~(pages[p] >= cursor)
                <5>1. p \in Older
                    BY <1>5, <1>6, <3>3, <4>2
                <5>2. pages[last] <= pages[p]
                    BY <1>6, <2>1, <2>2, <3>3
                <5>3. QED
                    BY <1>4, <5>1, <5>2
            <4>3. QED
                BY <4>1, <4>2
        <3>4. QED
            BY <1>1, <1>5, <3>1, <3>2, <3>3
    <2>4. op' = "list"
        BY <1>1, <1>2, <1>10
    <2>5. QED
        <3>1. ListOK'
            BY <1>1, <1>5, <1>7, <1>9, <2>2, <2>3, <2>4 DEF QueriesInv, ListOK
        <3>2. PagesOK'
            BY <1>1, <1>5 DEF QueriesInv, PagesOK
        <3>3. SearchOK'
            BY <1>1, <2>4, SearchFrame DEF QueriesInv, searchVars
        <3>4. QED
            BY <3>1, <3>2, <3>3 DEF QueriesInv
<1>11. CASE ~more
    <2>1. op' = "listed" /\ cursor' = cursor /\ rows = Older
        BY <1>3, <1>4, <1>11
    <2>2. ASSUME NEW p \in Path \ touched PROVE p \in first' <=> p \in listed'
        <3>1. p \in Older <=> p \in Present /\ ~(pages[p] >= cursor)
            BY <1>5, <1>6
        <3>2. QED
            BY <1>1, <1>7, <2>1, <3>1
    <2>3. ListOK'
        BY <1>1, <1>9, <2>1, <2>2 DEF QueriesInv, ListOK
    <2>4. PagesOK'
        BY <1>1, <1>5 DEF QueriesInv, PagesOK
    <2>5. SearchOK'
        BY <1>1, <2>1, SearchFrame DEF QueriesInv, searchVars
    <2>6. QED
        BY <2>3, <2>4, <2>5 DEF QueriesInv
<1>12. QED
    BY <1>10, <1>11

\* The rankers rank pages, and a search ends with their fusion.
LEMMA SearchKeeps == ASSUME QueriesInv, Lexical \/ Semantic \/ Fuse PROVE QueriesInv'
<1>1. /\ op = "search" /\ UNCHANGED <<pages, drawn, embedded, cursor, listed, twice, first, touched>>
      /\ op' = op \/ op' = "found"
    BY DEF Lexical, Semantic, Fuse, pageVars, listVars
<1>2. PagesOK'
    BY <1>1 DEF QueriesInv, PagesOK, Present
<1>3. ListOK'
    BY <1>1 DEF QueriesInv, ListOK
<1>4. SearchOK'
    <2>1. CASE Lexical
        <3>1. PICK is \in SUBSET Rows : lex' \in Rankings(is)
            BY <2>1 DEF Lexical
        <3>2. IsRanking(lex') /\ lex' # Pending
            BY <3>1, RankingsFact DEF QueriesInv
        <3>3. op' = "search" /\ sem' = sem /\ answer' = answer
            BY <1>1, <2>1 DEF Lexical
        <3>4. QED
            BY <1>1, <3>2, <3>3 DEF QueriesInv, SearchOK
    <2>2. CASE Semantic
        <3> DEFINE is == {Row(p) : p \in {p \in Path : embedded[p] # 0}}
        <3>1. sem' \in Rankings(is)
            BY <2>2 DEF Semantic
        <3>2. is \in SUBSET Rows
            BY DEF QueriesInv, PagesOK, Rows
        <3> HIDE DEF is
        <3>3. IsRanking(sem') /\ sem' # Pending
            BY <3>1, <3>2, RankingsFact DEF QueriesInv
        <3>4. op' = "search" /\ lex' = lex /\ answer' = answer
            BY <1>1, <2>2 DEF Semantic
        <3>5. QED
            BY <1>1, <3>3, <3>4 DEF QueriesInv, SearchOK
    <2>3. CASE Fuse
        <3>1. lex # Pending /\ sem # Pending /\ answer' = Best /\ op' = "found" /\ lex' = lex /\ sem' = sem
            BY <2>3 DEF Fuse
        <3>2. Best' = Best
            BY <3>1, BestFrame
        <3>3. QED
            BY <3>1, <3>2 DEF QueriesInv, SearchOK
    <2>4. QED
        BY <2>1, <2>2, <2>3
<1>5. QED
    BY <1>2, <1>3, <1>4 DEF QueriesInv

\* Every step keeps the invariant.
LEMMA QueriesStep == ASSUME QueriesInv, [QueriesNext]_queriesVars PROVE QueriesInv'
<1>1. CASE UNCHANGED queriesVars
    <2>1. UNCHANGED <<pages, drawn, embedded, op, cursor, listed, twice, lex, sem, answer, first, touched>>
        BY <1>1 DEF queriesVars, pageVars, listVars, searchVars
    <2>2. PagesOK' /\ ListOK'
        BY <2>1 DEF QueriesInv, PagesOK, ListOK, Present
    <2>3. SearchOK'
        BY <2>1, SearchFrame DEF QueriesInv, searchVars
    <2>4. QED
        BY <2>2, <2>3 DEF QueriesInv
<1>2. ASSUME NEW p \in Path, Write(p) \/ Delete(p) \/ Embed(p) PROVE QueriesInv'
    <2>1. PagesOK' /\ ListOK'
        BY <1>2, PagesKeep, TouchKeeps DEF QueriesInv
    <2>2. UNCHANGED searchVars /\ op' = op
        BY <1>2 DEF Write, Delete, Embed
    <2>3. SearchOK'
        BY <2>2, SearchFrame DEF QueriesInv
    <2>4. QED
        BY <2>1, <2>3 DEF QueriesInv
<1>3. CASE Begin("list") \/ Begin("search")
    BY <1>3, BeginKeeps
<1>4. QED
    BY <1>1, <1>2, <1>3, ListCallKeeps, SearchKeeps DEF QueriesNext

\* The invariant holds in every reachable state.
LEMMA Invariant == QueriesSpec => []QueriesInv
<1>1. QueriesInit => QueriesInv
    BY InitKeeps
<1>2. QueriesInv /\ [QueriesNext]_queriesVars => QueriesInv'
    BY QueriesStep
<1>3. QED
    BY <1>1, <1>2, PTL DEF QueriesSpec

-----------------------------------------------------------------------------
(* The theorems.                                                            *)

\* Versions are never shared, a deleted page has no embedding, and the rankings
\* and the answer of a search name every page at most once (handle_list and
\* handle_search of tools.py, write_page and delete_namespace_pages of db.py).
THEOREM QueriesTypeCorrect == QueriesSpec => []QueriesTypeOK
<1>1. ASSUME QueriesInv PROVE QueriesTypeOK
    <2>1. \A q : IsRanking(q) => Ranked(q)
        <3>1. ASSUME NEW q, IsRanking(q) PROVE \A i \in DOMAIN q : q[i].path \in Path /\ q[i].gv \in 1 .. MaxGv
            <4>1. \A i \in DOMAIN q : q[i] \in Page
                BY <3>1 DEF IsRanking
            <4>2. QED
                BY <4>1 DEF Page
        <3>2. QED
            BY <3>1 DEF Ranked, IsRanking
    <2>2. Ranked(Pending) /\ Ranked(<<>>)
        BY DEF Ranked
    <2>3. Ranked(lex) /\ Ranked(sem)
        BY <1>1, <2>1, <2>2 DEF QueriesInv, SearchOK
    <2>4. Ranked(answer)
        <3>1. CASE op = "found"
            BY <1>1, <3>1, FusionFair DEF QueriesInv, SearchOK
        <3>2. CASE op # "found"
            BY <1>1, <2>2, <3>2 DEF QueriesInv, SearchOK
        <3>3. QED
            BY <3>1, <3>2
    <2>5. QED
        BY <1>1, <2>3, <2>4 DEF QueriesInv, PagesOK, ListOK, QueriesTypeOK
<1>2. QED
    BY <1>1, Invariant, PTL

\* A listing by cursor names every page that nobody touches exactly once, however
\* many others are written or deleted while it goes on (list_pages of db.py).
THEOREM ListingNamesOnce == QueriesSpec => []ListedOnce
<1>1. QueriesInv => ListedOnce
    BY DEF QueriesInv, ListOK, ListedOnce
<1>2. QED
    BY <1>1, Invariant, PTL

\* The fusion puts a page that no ranker has behind another, and one has ahead of
\* it, in front, and drops nobody for someone worse, for every number of pages,
\* every window and every constant (_reciprocal_rank_fusion of tools.py).
THEOREM FusionRespectsRankers == QueriesSpec => []FusionIsFair
<1>1. ASSUME QueriesInv PROVE FusionIsFair
    <2>1. CASE op = "found"
        BY <1>1, <2>1, FusionFair DEF QueriesInv, SearchOK
    <2>2. CASE op # "found"
        BY <2>2 DEF FusionIsFair
    <2>3. QED
        BY <2>1, <2>2
<1>2. QED
    BY <1>1, Invariant, PTL

================================================================================
