----------------------------- MODULE SumLemmas -----------------------------
(***************************************************************************)
(* Lemmas the other proof modules share: least elements of sets of         *)
(* naturals, for proofs by induction; elements of a finite set put in      *)
(* order by counting; sums of functions over finite sets                   *)
(* (SumFunctionOnSet of the community modules); and sequences put one      *)
(* after the other (its FlattenSeq).                                       *)
(***************************************************************************)
EXTENDS Integers, SequencesExt, FiniteSets, Functions, FiniteSetTheorems, WellFoundedInduction,
        SequenceTheorems, TLAPS

\* A set of naturals that is not empty has a least element.
LEMMA LeastNatural ==
  ASSUME NEW T \in SUBSET Nat, T # {}
  PROVE  \E x \in T : \A y \in T : x <= y
<1> DEFINE R == OpToRel(<, Nat)
<1>1. IsWellFoundedOn(R, Nat)
  BY NatLessThanWellFounded
<1> HIDE DEF R
<1>2. PICK x \in T : \A y \in T : ~(<<y, x>> \in R)
  BY <1>1, WFMin, Zenon
<1>3. \A y \in T : y < x => <<y, x>> \in R
  BY DEF R, OpToRel
<1>4. \A y \in T : ~(y < x)
  BY <1>2, <1>3
<1> QED
  BY <1>4

-----------------------------------------------------------------------------

\* R orders the elements of S, each before or after each other.
Orders(R, S) ==
  /\ \A x \in S : <<x, x>> \notin R
  /\ \A x, y \in S : x = y \/ <<x, y>> \in R \/ <<y, x>> \in R
  /\ \A x, y, z \in S : <<x, y>> \in R /\ <<y, z>> \in R => <<x, z>> \in R

Lower(R, S, x) == {y \in S : <<y, x>> \in R}

\* The place of an element, behind those that come before it.
Place(R, S) == [x \in S |-> 1 + Cardinality(Lower(R, S, x))]

\* Fewer elements come before what is earlier, and never all of them.
LEMMA LowerCount ==
  ASSUME NEW S, IsFiniteSet(S), NEW R, Orders(R, S), NEW x \in S
  PROVE  /\ Cardinality(Lower(R, S, x)) \in 0 .. Cardinality(S) - 1
         /\ \A y \in S : <<x, y>> \in R => Cardinality(Lower(R, S, x)) < Cardinality(Lower(R, S, y))
<1>1. \A y \in S : /\ Lower(R, S, y) \in SUBSET S
                   /\ IsFiniteSet(Lower(R, S, y))
                   /\ Cardinality(Lower(R, S, y)) \in Nat
                   /\ Cardinality(Lower(R, S, y)) <= Cardinality(S)
                   /\ Cardinality(Lower(R, S, y)) = Cardinality(S) => Lower(R, S, y) = S
  <2> TAKE y \in S
  <2>1. Lower(R, S, y) \in SUBSET S
    BY DEF Lower
  <2> QED
    BY <2>1, FS_Subset, FS_CardinalityType
<1>2. Cardinality(S) \in Nat
  BY FS_CardinalityType
<1>3. x \notin Lower(R, S, x)
  BY DEF Lower, Orders
<1>4. ASSUME NEW y \in S, <<x, y>> \in R
      PROVE  Cardinality(Lower(R, S, x)) < Cardinality(Lower(R, S, y))
  <2>1. x \in Lower(R, S, y)
    BY <1>4 DEF Lower
  <2>2. Lower(R, S, x) \in SUBSET Lower(R, S, y)
    BY <1>4 DEF Lower, Orders
  <2>3. Lower(R, S, x) # Lower(R, S, y)
    BY <1>3, <2>1
  <2>4. /\ Cardinality(Lower(R, S, x)) <= Cardinality(Lower(R, S, y))
        /\ Cardinality(Lower(R, S, y)) = Cardinality(Lower(R, S, x)) => Lower(R, S, y) = Lower(R, S, x)
    BY <1>1, <2>2, FS_Subset
  <2> QED
    BY <1>1, <2>3, <2>4
<1> QED
  BY <1>1, <1>2, <1>3, <1>4

\* Each element has a place of its own, earlier than those of later ones, and none is free.
LEMMA PlacesInOrder ==
  ASSUME NEW S, IsFiniteSet(S), NEW R, Orders(R, S)
  PROVE  /\ Place(R, S) \in [S -> 1 .. Cardinality(S)]
         /\ \A x, y \in S : Place(R, S)[x] < Place(R, S)[y] <=> <<x, y>> \in R
         /\ \A x, y \in S : Place(R, S)[x] = Place(R, S)[y] => x = y
         /\ \A i \in 1 .. Cardinality(S) : \E x \in S : Place(R, S)[x] = i
<1> DEFINE n == Cardinality(S)
           place == Place(R, S)
<1>1. n \in Nat
  BY FS_CardinalityType
<1>2. \A x \in S : place[x] = 1 + Cardinality(Lower(R, S, x))
  BY DEF Place
<1>3. place \in [S -> 1 .. n]
  <2>1. \A x \in S : 1 + Cardinality(Lower(R, S, x)) \in 1 .. n
    BY <1>1, LowerCount
  <2> QED
    BY <2>1 DEF Place
<1>4. \A x, y \in S : <<x, y>> \in R => place[x] < place[y]
  <2> TAKE x, y \in S
  <2>1. /\ Cardinality(Lower(R, S, x)) \in 0 .. n - 1
        /\ Cardinality(Lower(R, S, y)) \in 0 .. n - 1
        /\ <<x, y>> \in R => Cardinality(Lower(R, S, x)) < Cardinality(Lower(R, S, y))
    BY LowerCount
  <2> QED
    BY <1>1, <1>2, <2>1
<1> HIDE DEF place
<1>5. /\ \A x, y \in S : place[x] = place[y] => x = y
      /\ \A x, y \in S : place[x] < place[y] => <<x, y>> \in R
  <2> SUFFICES ASSUME NEW x \in S, NEW y \in S
               PROVE  /\ place[x] = place[y] => x = y
                      /\ place[x] < place[y] => <<x, y>> \in R
    OBVIOUS
  <2>1. place[x] \in Nat /\ place[y] \in Nat
    BY <1>1, <1>3
  <2>2. x = y \/ <<x, y>> \in R \/ <<y, x>> \in R
    BY DEF Orders
  <2>3. /\ <<x, y>> \in R => place[x] < place[y]
        /\ <<y, x>> \in R => place[y] < place[x]
    BY <1>4
  <2> QED
    BY <2>1, <2>2, <2>3
<1>7. \A i \in 1 .. n : \E x \in S : place[x] = i
  <2>1. place \in Injection(S, 1 .. n)
    BY <1>3, <1>5 DEF Injection, IsInjective
  <2>2. IsFiniteSet(1 .. n) /\ Cardinality(1 .. n) = n
    BY <1>1, FS_Interval
  <2>3. place \in Surjection(S, 1 .. n)
    BY <2>1, <2>2, FS_Injection
  <2> QED
    BY <2>3 DEF Surjection
<1> QED
  BY <1>3, <1>4, <1>5, <1>7 DEF place

-----------------------------------------------------------------------------

\* The element a sum takes first.
SumFirst(s) == CHOOSE x \in s : TRUE

\* The sum over s, from the sums over smaller sets.
Added(f, h, s) == IF s = {} THEN 0 ELSE f[SumFirst(s)] + h[s \ {SumFirst(s)}]

\* h holds the sums over all subsets of S.
AddsUp(f, S, h) == h = [s \in SUBSET S |-> Added(f, h, s)]

Sums(f, S) == CHOOSE h : AddsUp(f, S, h)

\* The fold of the community module is one of the sums.
LEMMA SumIsSums ==
  ASSUME NEW f, NEW S
  PROVE  SumFunctionOnSet(f, S) = Sums(f, S)[S]
BY DEF SumFunctionOnSet, FoldFunctionOnSet, MapThenFoldSet, Sums, AddsUp, Added, SumFirst

\* Taking an element off a finite set leaves a smaller one.
LEMMA SmallerSubset ==
  ASSUME NEW S, IsFiniteSet(S), NEW s \in SUBSET S
  PROVE  /\ Cardinality(s) \in Nat
         /\ Cardinality(s) = 0 <=> s = {}
         /\ \A x \in s : /\ s \ {x} \in SUBSET S
                         /\ Cardinality(s \ {x}) = Cardinality(s) - 1
<1>1. IsFiniteSet(s)
  BY FS_Subset
<1> QED
  BY <1>1, FS_CardinalityType, FS_EmptySet, FS_RemoveElement

\* The element a sum takes first is one of the set.
LEMMA FirstIsElement ==
  ASSUME NEW s, s # {}
  PROVE  SumFirst(s) \in s
BY DEF SumFirst

\* h adds up right over sets of up to n elements.
SumsUpTo(f, S, h, n) ==
  /\ h \in [SUBSET S -> Int]
  /\ \A s \in SUBSET S : Cardinality(s) <= n => h[s] = Added(f, h, s)

\* There are sums over all subsets of a finite set.
LEMMA SumsExist ==
  ASSUME NEW S, IsFiniteSet(S), NEW f, \A x \in S : f[x] \in Int
  PROVE  \E h : AddsUp(f, S, h)
<1> DEFINE none == {n \in Nat : ~ \E h : SumsUpTo(f, S, h, n)}
<1>1. none = {}
  <2> SUFFICES ASSUME none # {} PROVE FALSE
    OBVIOUS
  <2>1. PICK n \in none : \A m \in none : n <= m
    BY LeastNatural
  <2>2. CASE n = 0
    <3> DEFINE h == [s \in SUBSET S |-> 0]
    <3>1. SumsUpTo(f, S, h, 0)
      BY SmallerSubset DEF SumsUpTo, Added
    <3> QED
      BY <2>2, <3>1
  <2>3. CASE n # 0
    <3>1. n - 1 \in Nat /\ n - 1 \notin none
      BY <2>1, <2>3
    <3>2. PICK h : SumsUpTo(f, S, h, n - 1)
      BY <3>1
    <3> DEFINE more == [s \in SUBSET S |-> Added(f, h, s)]
    <3>3. \A s \in SUBSET S : s # {} => SumFirst(s) \in S /\ s \ {SumFirst(s)} \in SUBSET S
      BY FirstIsElement
    <3>4. more \in [SUBSET S -> Int]
      <4> SUFFICES ASSUME NEW s \in SUBSET S PROVE Added(f, h, s) \in Int
        OBVIOUS
      <4> QED
        BY <3>2, <3>3 DEF SumsUpTo, Added
    <3>5. ASSUME NEW s \in SUBSET S, Cardinality(s) <= n
          PROVE  more[s] = Added(f, more, s)
      <4>1. CASE s = {}
        BY <4>1 DEF Added
      <4>2. CASE s # {}
        <5>1. SumFirst(s) \in s
          BY <4>2, FirstIsElement
        <5> DEFINE rest == s \ {SumFirst(s)}
        <5>2. rest \in SUBSET S /\ Cardinality(rest) <= n - 1
          BY <3>5, <5>1, SmallerSubset
        <5>3. more[rest] = h[rest]
          BY <3>2, <5>2 DEF SumsUpTo
        <5> QED
          BY <4>2, <5>3 DEF Added
      <4> QED
        BY <4>1, <4>2
    <3>6. SumsUpTo(f, S, more, n)
      BY <3>4, <3>5 DEF SumsUpTo
    <3> QED
      BY <2>1, <3>6
  <2> QED
    BY <2>2, <2>3
<1>2. Cardinality(S) \in Nat
  BY FS_CardinalityType
<1>3. PICK h : SumsUpTo(f, S, h, Cardinality(S))
  BY <1>1, <1>2
<1>4. \A s \in SUBSET S : h[s] = Added(f, h, s)
  BY <1>3, FS_Subset DEF SumsUpTo
<1>5. h = [s \in SUBSET S |-> Added(f, h, s)]
  BY <1>3, <1>4 DEF SumsUpTo
<1> QED
  BY <1>5 DEF AddsUp

\* There are such sums, and they are whole numbers.
LEMMA SumsAdd ==
  ASSUME NEW S, IsFiniteSet(S), NEW f, \A x \in S : f[x] \in Int
  PROVE  /\ Sums(f, S) \in [SUBSET S -> Int]
         /\ \A s \in SUBSET S : Sums(f, S)[s] = Added(f, Sums(f, S), s)
<1>1. \E h : AddsUp(f, S, h)
  BY SumsExist
<1> DEFINE g == Sums(f, S)
<1>2. g = [s \in SUBSET S |-> Added(f, g, s)]
  BY <1>1, Zenon DEF Sums, AddsUp
<1> HIDE DEF g
<1>3. \A s \in SUBSET S : g[s] = Added(f, g, s)
  BY <1>2, Zenon
<1> DEFINE no == {n \in Nat : \E s \in SUBSET S : Cardinality(s) = n /\ g[s] \notin Int}
<1>4. no = {}
  <2> SUFFICES ASSUME no # {} PROVE FALSE
    OBVIOUS
  <2>1. PICK n \in no : \A m \in no : n <= m
    BY LeastNatural
  <2>2. PICK s \in SUBSET S : Cardinality(s) = n /\ g[s] \notin Int
    BY <2>1
  <2>r. g[s] = IF s = {} THEN 0 ELSE f[SumFirst(s)] + g[s \ {SumFirst(s)}]
    BY <1>3, Zenon DEF Added
  <2>3. s # {}
    BY <2>2, <2>r
  <2>4. SumFirst(s) \in s
    BY <2>3, FirstIsElement
  <2> DEFINE rest == s \ {SumFirst(s)}
  <2>5. rest \in SUBSET S /\ Cardinality(rest) = n - 1 /\ n - 1 \in Nat
    BY <2>2, <2>3, <2>4, SmallerSubset
  <2>6. g[rest] \in Int
    BY <2>1, <2>5
  <2> QED
    BY <2>2, <2>r, <2>3, <2>4, <2>6
<1>5. \A s \in SUBSET S : g[s] \in Int
  BY <1>4, SmallerSubset
<1>6. g \in [SUBSET S -> Int]
  BY <1>2, <1>5
<1> QED
  BY <1>3, <1>6 DEF g

\* A sum can begin with any element.
LEMMA SumsAnyFirst ==
  ASSUME NEW S, IsFiniteSet(S), NEW f, \A x \in S : f[x] \in Int,
         NEW s \in SUBSET S, NEW x \in s
  PROVE  Sums(f, S)[s] = f[x] + Sums(f, S)[s \ {x}]
<1> DEFINE g == Sums(f, S)
<1>1. g \in [SUBSET S -> Int] /\ \A t \in SUBSET S : g[t] = Added(f, g, t)
  BY SumsAdd
<1> HIDE DEF g
<1> DEFINE FirstAny(t) == \A y \in t : g[t] = f[y] + g[t \ {y}]
           no == {n \in Nat : \E t \in SUBSET S : Cardinality(t) = n /\ ~FirstAny(t)}
<1>2. no = {}
  <2> SUFFICES ASSUME no # {} PROVE FALSE
    OBVIOUS
  <2>1. PICK n \in no : \A m \in no : n <= m
    BY LeastNatural
  <2>2. PICK t \in SUBSET S : Cardinality(t) = n /\ ~FirstAny(t)
    BY <2>1
  <2>3. PICK y \in t : g[t] # f[y] + g[t \ {y}]
    BY <2>2
  <2> DEFINE z == SumFirst(t)
  <2>4. z \in t /\ g[t] = f[z] + g[t \ {z}]
    BY <1>1, <2>3, FirstIsElement DEF Added
  <2> HIDE DEF z
  <2>5. y # z
    BY <2>3, <2>4
  <2>6. /\ t \ {z} \in SUBSET S /\ Cardinality(t \ {z}) = n - 1
        /\ t \ {y} \in SUBSET S /\ Cardinality(t \ {y}) = n - 1
        /\ n - 1 \in Nat
    <3>1. \A u \in t : t \ {u} \in SUBSET S /\ Cardinality(t \ {u}) = n - 1
      BY <2>2, SmallerSubset
    <3>2. n - 1 \in Nat
      BY <2>4, <3>1, SmallerSubset
    <3> QED
      BY <2>3, <2>4, <3>1, <3>2
  <2>7. FirstAny(t \ {z}) /\ FirstAny(t \ {y})
    BY <2>1, <2>6, SMTT(30)
  <2>8. g[t \ {z}] = f[y] + g[(t \ {z}) \ {y}] /\ g[t \ {y}] = f[z] + g[(t \ {y}) \ {z}]
    BY <2>3, <2>4, <2>5, <2>7
  <2>9. (t \ {z}) \ {y} = (t \ {y}) \ {z} /\ (t \ {z}) \ {y} \in SUBSET S
    BY <2>2
  <2>10. f[y] \in Int /\ f[z] \in Int /\ g[(t \ {z}) \ {y}] \in Int
    BY <1>1, <2>3, <2>4, <2>9
  <2> QED
    BY <2>3, <2>4, <2>8, <2>9, <2>10, SMTT(30)
<1>3. FirstAny(s)
  BY <1>2, SmallerSubset
<1> QED
  BY <1>3 DEF g

\* Sums over a subset depend on nothing but the values there.
LEMMA SumsAgree ==
  ASSUME NEW S, IsFiniteSet(S), NEW f, \A x \in S : f[x] \in Int,
         NEW R, IsFiniteSet(R), NEW e, \A x \in R : e[x] \in Int,
         NEW s \in SUBSET S, s \in SUBSET R, \A x \in s : f[x] = e[x]
  PROVE  Sums(f, S)[s] = Sums(e, R)[s]
<1> DEFINE g == Sums(f, S)
           h == Sums(e, R)
<1>1. g \in [SUBSET S -> Int] /\ \A t \in SUBSET S : g[t] = Added(f, g, t)
  BY SumsAdd
<1>2. h \in [SUBSET R -> Int] /\ \A t \in SUBSET R : h[t] = Added(e, h, t)
  BY SumsAdd
<1> HIDE DEF g, h
<1> DEFINE no == {n \in Nat : \E t \in SUBSET s : Cardinality(t) = n /\ g[t] # h[t]}
<1>3. no = {}
  <2> SUFFICES ASSUME no # {} PROVE FALSE
    OBVIOUS
  <2>1. PICK n \in no : \A m \in no : n <= m
    BY LeastNatural
  <2>2. PICK t \in SUBSET s : Cardinality(t) = n /\ g[t] # h[t]
    BY <2>1
  <2>3. t # {}
    BY <1>1, <1>2, <2>2 DEF Added
  <2>4. SumFirst(t) \in t
    BY <2>3, FirstIsElement
  <2>5. t \ {SumFirst(t)} \in SUBSET s /\ Cardinality(t \ {SumFirst(t)}) = n - 1 /\ n - 1 \in Nat
    BY <2>2, <2>3, <2>4, SmallerSubset
  <2>6. g[t \ {SumFirst(t)}] = h[t \ {SumFirst(t)}]
    BY <2>1, <2>5
  <2>7. /\ g[t] = f[SumFirst(t)] + g[t \ {SumFirst(t)}]
        /\ h[t] = e[SumFirst(t)] + h[t \ {SumFirst(t)}]
    BY <1>1, <1>2, <2>2, <2>3 DEF Added
  <2> QED
    BY <2>2, <2>4, <2>6, <2>7
<1>4. IsFiniteSet(s) /\ Cardinality(s) \in Nat
  BY FS_Subset, FS_CardinalityType
<1>5. g[s] = h[s]
  BY <1>3, <1>4
<1> QED
  BY <1>5 DEF g, h

-----------------------------------------------------------------------------

\* The sum over no elements is 0.
LEMMA SumOverNone ==
  ASSUME NEW f
  PROVE  SumFunctionOnSet(f, {}) = 0
<1>1. /\ Sums(f, {})[{}] = Added(f, Sums(f, {}), {})
  BY SumsAdd, FS_EmptySet
<1> QED
  BY <1>1, SumIsSums DEF Added

\* A sum of whole numbers is a whole number.
LEMMA SumType ==
  ASSUME NEW S, IsFiniteSet(S), NEW f, \A x \in S : f[x] \in Int
  PROVE  SumFunctionOnSet(f, S) \in Int
BY SumsAdd, SumIsSums

\* A sum is any element's value and the sum over the others.
LEMMA SumWithout ==
  ASSUME NEW S, IsFiniteSet(S), NEW f, \A x \in S : f[x] \in Int, NEW x \in S
  PROVE  SumFunctionOnSet(f, S) = f[x] + SumFunctionOnSet(f, S \ {x})
<1>1. IsFiniteSet(S \ {x})
  BY FS_RemoveElement
<1>2. Sums(f, S)[S] = f[x] + Sums(f, S)[S \ {x}]
  BY SumsAnyFirst
<1>3. Sums(f, S)[S \ {x}] = Sums(f, S \ {x})[S \ {x}]
  BY <1>1, SumsAgree
<1> QED
  BY <1>2, <1>3, SumIsSums

\* Functions that agree on a set have the same sum over it.
LEMMA SumSame ==
  ASSUME NEW S, IsFiniteSet(S), NEW f, \A x \in S : f[x] \in Int,
         NEW e, \A x \in S : f[x] = e[x]
  PROVE  SumFunctionOnSet(f, S) = SumFunctionOnSet(e, S)
<1>1. Sums(f, S)[S] = Sums(e, S)[S]
  BY SumsAgree
<1> QED
  BY <1>1, SumIsSums

-----------------------------------------------------------------------------

\* Of some subsets of a finite set there is one that is none of them without any of its elements.
LEMMA LeastSubset ==
  ASSUME NEW S, IsFiniteSet(S), NEW B \in SUBSET (SUBSET S), B # {}
  PROVE  \E t \in B : IsFiniteSet(t) /\ \A x \in t : IsFiniteSet(t \ {x}) /\ t \ {x} \notin B
<1> DEFINE sizes == {n \in Nat : \E t \in B : Cardinality(t) = n}
<1>1. sizes # {}
  BY SmallerSubset
<1>2. PICK n \in sizes : \A m \in sizes : n <= m
  BY <1>1, LeastNatural
<1>3. PICK t \in B : Cardinality(t) = n
  BY <1>2
<1>4. ASSUME NEW x \in t
      PROVE  t \ {x} \notin B
  <2>1. Cardinality(t \ {x}) = n - 1 /\ Cardinality(t \ {x}) \in Nat
    BY <1>3, SmallerSubset
  <2> QED
    BY <1>2, <2>1
<1>5. IsFiniteSet(t) /\ \A x \in t : IsFiniteSet(t \ {x})
  BY FS_Subset
<1> QED
  BY <1>3, <1>4, <1>5

\* A sum of naturals is a natural.
LEMMA SumNatural ==
  ASSUME NEW S, IsFiniteSet(S), NEW f, \A x \in S : f[x] \in Nat
  PROVE  SumFunctionOnSet(f, S) \in Nat
<1> DEFINE bad == {s \in SUBSET S : SumFunctionOnSet(f, s) \notin Nat}
<1>1. bad = {}
  <2> SUFFICES ASSUME bad # {} PROVE FALSE
    OBVIOUS
  <2>1. PICK s \in bad : IsFiniteSet(s) /\ \A x \in s : s \ {x} \notin bad
    BY LeastSubset
  <2>2. PICK x \in s : TRUE
    BY <2>1, SumOverNone
  <2>3. SumFunctionOnSet(f, s) = f[x] + SumFunctionOnSet(f, s \ {x})
    BY <2>1, SumWithout
  <2>4. SumFunctionOnSet(f, s \ {x}) \in Nat /\ f[x] \in Nat
    BY <2>1
  <2> QED
    BY <2>1, <2>3, <2>4
<1> QED
  BY <1>1

\* The sum over two sets without common elements.
LEMMA SumUnion ==
  ASSUME NEW S, IsFiniteSet(S), NEW T, IsFiniteSet(T), S \cap T = {},
         NEW f, \A x \in S \cup T : f[x] \in Int
  PROVE  SumFunctionOnSet(f, S \cup T) = SumFunctionOnSet(f, S) + SumFunctionOnSet(f, T)
<1> DEFINE sum(X) == SumFunctionOnSet(f, X)
           bad == {t \in SUBSET T : sum(S \cup t) # sum(S) + sum(t)}
<1>0. sum(S) \in Int
  BY SumType
<1>1. bad = {}
  <2> SUFFICES ASSUME bad # {} PROVE FALSE
    OBVIOUS
  <2>1. PICK t \in bad : IsFiniteSet(t) /\ \A x \in t : IsFiniteSet(t \ {x}) /\ t \ {x} \notin bad
    BY LeastSubset
  <2>2. PICK x \in t : TRUE
    <3>1. CASE t = {}
      <4>1. sum(S \cup t) = sum(S) + sum(t)
        BY <1>0, <3>1, SumOverNone
      <4> QED
        BY <2>1, <4>1
    <3> QED
      BY <3>1
  <2>3. sum(t) = f[x] + sum(t \ {x})
    BY <2>1, SumWithout
  <2>4. sum(S \cup t) = f[x] + sum(S \cup (t \ {x}))
    <3>1. (S \cup t) \ {x} = S \cup (t \ {x}) /\ IsFiniteSet(S \cup t)
      BY <2>1, FS_Union
    <3> QED
      BY <3>1, SumWithout
  <2>5. sum(S \cup (t \ {x})) = sum(S) + sum(t \ {x})
    BY <2>1, <2>2
  <2>6. f[x] \in Int /\ sum(t \ {x}) \in Int
    BY <2>1, SumType
  <2> QED
    BY <1>0, <2>1, <2>3, <2>4, <2>5, <2>6
<1> QED
  BY <1>1

\* A sum of naturals over a subset is no larger.
LEMMA SumSubset ==
  ASSUME NEW S, IsFiniteSet(S), NEW T \in SUBSET S, NEW f, \A x \in S : f[x] \in Nat
  PROVE  SumFunctionOnSet(f, T) <= SumFunctionOnSet(f, S)
<1>1. IsFiniteSet(T) /\ IsFiniteSet(S \ T) /\ T \cap (S \ T) = {} /\ T \cup (S \ T) = S
  BY FS_Subset
<1>2. SumFunctionOnSet(f, S) = SumFunctionOnSet(f, T) + SumFunctionOnSet(f, S \ T)
  BY <1>1, SumUnion
<1>3. SumFunctionOnSet(f, T) \in Nat /\ SumFunctionOnSet(f, S \ T) \in Nat
  BY <1>1, SumNatural
<1> QED
  BY <1>2, <1>3

\* A sum does not depend on what its elements are called.
LEMMA SumRenamed ==
  ASSUME NEW S, IsFiniteSet(S), NEW g, NEW f, NEW e,
         \A x, y \in S : g[x] = g[y] => x = y,
         \A x \in S : f[x] \in Int /\ e[g[x]] = f[x]
  PROVE  SumFunctionOnSet(f, S) = SumFunctionOnSet(e, {g[x] : x \in S})
<1> DEFINE named(s) == {g[x] : x \in s}
           bad == {s \in SUBSET S : SumFunctionOnSet(f, s) # SumFunctionOnSet(e, named(s))}
<1>1. bad = {}
  <2> SUFFICES ASSUME bad # {} PROVE FALSE
    OBVIOUS
  <2>1. PICK s \in bad : IsFiniteSet(s) /\ \A x \in s : s \ {x} \notin bad
    BY LeastSubset
  <2>2. PICK x \in s : TRUE
    <3>1. CASE s = {}
      <4>1. named(s) = {}
        BY <3>1
      <4>2. SumFunctionOnSet(f, s) = 0 /\ SumFunctionOnSet(e, named(s)) = 0
        BY <3>1, <4>1, SumOverNone
      <4> QED
        BY <2>1, <4>2
    <3> QED
      BY <3>1
  <2>3. SumFunctionOnSet(f, s) = f[x] + SumFunctionOnSet(f, s \ {x})
    BY <2>1, SumWithout
  <2>4. SumFunctionOnSet(e, named(s)) = e[g[x]] + SumFunctionOnSet(e, named(s) \ {g[x]})
    <3>1. IsFiniteSet(named(s))
      <4>1. [y \in s |-> g[y]] \in Surjection(s, named(s))
        BY DEF Surjection
      <4> QED
        BY <2>1, <4>1, FS_Surjection
    <3>2. g[x] \in named(s) /\ \A y \in named(s) : e[y] \in Int
      BY <2>1
    <3> QED
      BY <3>1, <3>2, SumWithout
  <2>5. named(s) \ {g[x]} = named(s \ {x})
    BY <2>1
  <2>6. SumFunctionOnSet(f, s \ {x}) = SumFunctionOnSet(e, named(s \ {x}))
    BY <2>1
  <2> QED
    BY <2>1, <2>3, <2>4, <2>5, <2>6
<1> QED
  BY <1>1

-----------------------------------------------------------------------------
(***************************************************************************)
(* Quotients and products.                                                 *)
(***************************************************************************)

\* A quotient and what is left.
LEMMA Divided ==
  ASSUME NEW a \in Nat, NEW n \in Nat \ {0}
  PROVE  /\ a \div n \in Nat /\ a % n \in 0 .. n - 1
         /\ a = (a \div n) * n + (a % n)
OBVIOUS

\* The products with neighbouring numbers.
LEMMA Stepped ==
  ASSUME NEW k \in Int, NEW n \in Int
  PROVE  k * n \in Int /\ (k + 1) * n = k * n + n /\ (k - 1) * n = k * n - n
OBVIOUS

\* Products are in the order of their factors.
LEMMA ProductOrder ==
  ASSUME NEW i \in Int, NEW j \in Int, NEW n \in Nat \ {0}
  PROVE  i < j <=> i * n < j * n
<1>1. ASSUME NEW a \in Int, NEW b \in Int, a < b
      PROVE  a * n + n <= b * n
  <2>1. b - a - 1 \in Nat
    BY <1>1
  <2>2. (b - a - 1) * n \in Nat
    BY <2>1
  <2>3. (b - a - 1) * n = b * n - a * n - n
    OBVIOUS
  <2> QED
    BY <2>2, <2>3
<1> QED
  BY <1>1

\* Rounded up, a quotient is enough, and no more than that.
LEMMA RoundedUp ==
  ASSUME NEW a \in Nat \ {0}, NEW n \in Nat \ {0}
  PROVE  /\ (a + n - 1) \div n \in Nat \ {0}
         /\ ((a + n - 1) \div n) * n - n < a
         /\ a <= ((a + n - 1) \div n) * n
<1> DEFINE q == (a + n - 1) \div n
           r == (a + n - 1) % n
<1>0. a + n - 1 \in Nat
  OBVIOUS
<1>1. q \in Nat /\ r \in 0 .. n - 1 /\ a + n - 1 = q * n + r
  BY <1>0, Divided
<1>2. q # 0
  BY <1>1
<1> HIDE DEF q, r
<1>3. q * n \in Int
  BY <1>1
<1>4. q * n - n < a /\ a <= q * n
  BY <1>1, <1>3
<1> QED
  BY <1>1, <1>2, <1>4 DEF q

-----------------------------------------------------------------------------
(***************************************************************************)
(* Sequences put one after the other (FlattenSeq of the community modules) *)
(* by what they are up to each of them.                                    *)
(***************************************************************************)

\* h is what the sequences in ss give, up to each of them.
Flattens(ss, h) ==
  h = [i \in 1 .. Len(ss) |-> IF i = 1 THEN ss[i] ELSE h[i - 1] \o ss[i]]

Flats(ss) == CHOOSE h : Flattens(ss, h)

\* h is so for the first n of them.
FlattensTo(S, ss, h, n) ==
  /\ h \in [1 .. Len(ss) -> Seq(S)]
  /\ \A i \in 1 .. Len(ss) : i <= n => h[i] = IF i = 1 THEN ss[i] ELSE h[i - 1] \o ss[i]

\* There is such an h for every sequence of sequences.
LEMMA FlatsExist ==
  ASSUME NEW S, NEW ss \in Seq(Seq(S))
  PROVE  \E h : Flattens(ss, h)
<1> DEFINE none == {n \in Nat : ~ \E h : FlattensTo(S, ss, h, n)}
<1>0. Len(ss) \in Nat /\ \A i \in 1 .. Len(ss) : ss[i] \in Seq(S)
  BY ElementOfSeq, LenProperties
<1>1. none = {}
  <2> SUFFICES ASSUME none # {} PROVE FALSE
    OBVIOUS
  <2>1. PICK n \in none : \A m \in none : n <= m
    BY LeastNatural
  <2>2. CASE n = 0
    <3> DEFINE h == [i \in 1 .. Len(ss) |-> <<>>]
    <3>1. h \in [1 .. Len(ss) -> Seq(S)]
      BY EmptySeq
    <3>2. \A i \in 1 .. Len(ss) : ~(i <= 0)
      BY <1>0
    <3> HIDE DEF h
    <3>3. FlattensTo(S, ss, h, 0)
      BY <3>1, <3>2 DEF FlattensTo
    <3> QED
      BY <2>1, <2>2, <3>3
  <2>3. CASE n # 0
    <3>1. n \in Nat /\ n - 1 \in Nat /\ n - 1 \notin none
      BY <2>1, <2>3
    <3>2. PICK h : FlattensTo(S, ss, h, n - 1)
      BY <3>1
    <3> DEFINE g == [i \in 1 .. Len(ss) |->
                       IF i = n THEN (IF i = 1 THEN ss[i] ELSE h[i - 1] \o ss[i]) ELSE h[i]]
    <3>3. h \in [1 .. Len(ss) -> Seq(S)]
      BY <3>2 DEF FlattensTo
    <3>4. \A i \in 1 .. Len(ss) : i # 1 => i - 1 \in 1 .. Len(ss) /\ h[i - 1] \o ss[i] \in Seq(S)
      <4> SUFFICES ASSUME NEW i \in 1 .. Len(ss), i # 1
                   PROVE  i - 1 \in 1 .. Len(ss) /\ h[i - 1] \o ss[i] \in Seq(S)
        OBVIOUS
      <4>1. i - 1 \in 1 .. Len(ss) /\ ss[i] \in Seq(S)
        BY <1>0
      <4>2. h[i - 1] \in Seq(S)
        BY <3>3, <4>1
      <4> QED
        BY <4>1, <4>2, ConcatProperties
    <3>5. g \in [1 .. Len(ss) -> Seq(S)]
      BY <1>0, <3>3, <3>4
    <3>6. \A i \in 1 .. Len(ss) : i <= n => g[i] = IF i = 1 THEN ss[i] ELSE g[i - 1] \o ss[i]
      <4> SUFFICES ASSUME NEW i \in 1 .. Len(ss), i <= n
                   PROVE  g[i] = IF i = 1 THEN ss[i] ELSE g[i - 1] \o ss[i]
        OBVIOUS
      <4>1. i # 1 => i - 1 \in 1 .. Len(ss) /\ g[i - 1] = h[i - 1]
        BY <1>0, <3>1
      <4>2. CASE i = n
        BY <4>1, <4>2
      <4>3. CASE i # n
        <5>1. h[i] = IF i = 1 THEN ss[i] ELSE h[i - 1] \o ss[i]
          <6>1. i <= n - 1
            BY <1>0, <3>1, <4>3
          <6> QED
            BY <3>2, <6>1 DEF FlattensTo
        <5> QED
          BY <4>1, <4>3, <5>1
      <4> QED
        BY <4>2, <4>3
    <3>7. FlattensTo(S, ss, g, n)
      BY <3>5, <3>6 DEF FlattensTo
    <3> QED
      BY <2>1, <3>7
  <2> QED
    BY <2>2, <2>3
<1>2. PICK h : FlattensTo(S, ss, h, Len(ss))
  BY <1>0, <1>1
<1>3. Flattens(ss, h)
  <2>1. \A i \in 1 .. Len(ss) : i <= Len(ss)
    BY <1>0
  <2>2. \A i \in 1 .. Len(ss) : h[i] = IF i = 1 THEN ss[i] ELSE h[i - 1] \o ss[i]
    BY <1>2, <2>1 DEF FlattensTo
  <2>3. h = [i \in 1 .. Len(ss) |-> h[i]]
    BY <1>2 DEF FlattensTo
  <2> QED
    BY <2>2, <2>3, Zenon DEF Flattens
<1> QED
  BY <1>3

\* The chosen h is built up sequence by sequence.
LEMMA FlatsSteps ==
  ASSUME NEW S, NEW ss \in Seq(Seq(S))
  PROVE  /\ Flats(ss) \in [1 .. Len(ss) -> Seq(S)]
         /\ \A i \in 1 .. Len(ss) :
              Flats(ss)[i] = IF i = 1 THEN ss[i] ELSE Flats(ss)[i - 1] \o ss[i]
<1> DEFINE g == Flats(ss)
<1>1. g = [i \in 1 .. Len(ss) |-> IF i = 1 THEN ss[i] ELSE g[i - 1] \o ss[i]]
  BY FlatsExist, Zenon DEF Flats, Flattens
<1> HIDE DEF g
<1>0. Len(ss) \in Nat /\ \A i \in 1 .. Len(ss) : ss[i] \in Seq(S)
  BY ElementOfSeq, LenProperties
<1> DEFINE bad == {i \in Nat : i \in 1 .. Len(ss) /\ g[i] \notin Seq(S)}
<1>2. bad = {}
  <2> SUFFICES ASSUME bad # {} PROVE FALSE
    OBVIOUS
  <2>1. PICK i \in bad : \A j \in bad : i <= j
    BY LeastNatural
  <2>2. i # 1
    BY <1>0, <1>1, <2>1
  <2>3. i - 1 \in 1 .. Len(ss) /\ g[i - 1] \in Seq(S)
    BY <1>0, <2>1, <2>2
  <2>4. g[i - 1] \o ss[i] \in Seq(S)
    BY <1>0, <2>1, <2>3, ConcatProperties
  <2> QED
    BY <1>1, <2>1, <2>2, <2>4
<1>3. ASSUME NEW i \in 1 .. Len(ss)
      PROVE  g[i] \in Seq(S)
  <2>1. i \in Nat
    BY <1>0
  <2> QED
    BY <1>2, <2>1
<1>4. \A i \in 1 .. Len(ss) : g[i] = IF i = 1 THEN ss[i] ELSE g[i - 1] \o ss[i]
  BY <1>1
<1>5. g \in [1 .. Len(ss) -> Seq(S)]
  <2>1. \E e : g = [i \in 1 .. Len(ss) |-> e[i]]
    <3> DEFINE e == [i \in 1 .. Len(ss) |-> IF i = 1 THEN ss[i] ELSE g[i - 1] \o ss[i]]
    <3>1. g = [i \in 1 .. Len(ss) |-> e[i]]
      BY <1>1
    <3> QED
      BY <3>1
  <2> QED
    BY <1>3, <2>1
<1> QED
  BY <1>4, <1>5 DEF g

\* What is put together up to the first k of them depends on no others.
LEMMA FlatsAgree ==
  ASSUME NEW S, NEW ss \in Seq(Seq(S)), NEW tt \in Seq(Seq(S)),
         NEW n \in Nat, n <= Len(ss), n <= Len(tt),
         \A i \in 1 .. n : ss[i] = tt[i]
  PROVE  \A i \in 1 .. n : Flats(ss)[i] = Flats(tt)[i]
<1>0. Len(ss) \in Nat /\ Len(tt) \in Nat
  BY LenProperties
<1>1. /\ \A i \in 1 .. Len(ss) : Flats(ss)[i] = IF i = 1 THEN ss[i] ELSE Flats(ss)[i - 1] \o ss[i]
      /\ \A i \in 1 .. Len(tt) : Flats(tt)[i] = IF i = 1 THEN tt[i] ELSE Flats(tt)[i - 1] \o tt[i]
  BY FlatsSteps
<1> DEFINE bad == {i \in Nat : i \in 1 .. n /\ Flats(ss)[i] # Flats(tt)[i]}
<1>2. bad = {}
  <2> SUFFICES ASSUME bad # {} PROVE FALSE
    OBVIOUS
  <2>1. PICK i \in bad : \A j \in bad : i <= j
    BY LeastNatural
  <2>2. i \in 1 .. Len(ss) /\ i \in 1 .. Len(tt) /\ i \in 1 .. n /\ Flats(ss)[i] # Flats(tt)[i]
    BY <1>0, <2>1
  <2>3. i # 1 => Flats(ss)[i - 1] = Flats(tt)[i - 1]
    BY <2>1, <2>2
  <2> QED
    BY <1>1, <2>2, <2>3
<1>3. ASSUME NEW i \in 1 .. n
      PROVE  Flats(ss)[i] = Flats(tt)[i]
  <2>1. i \in Nat
    OBVIOUS
  <2> QED
    BY <1>2, <2>1
<1> QED
  BY <1>3

\* The operator of the community module is the last entry of it.
LEMMA FlattenIsFlats ==
  ASSUME NEW ss, Len(ss) # 0
  PROVE  FlattenSeq(ss) = Flats(ss)[Len(ss)]
BY DEF FlattenSeq, Flats, Flattens

\* Nothing put together is nothing.
LEMMA FlattenNone ==
  FlattenSeq(<<>>) = <<>>
<1>1. Len(<<>>) = 0
  BY EmptySeq
<1> QED
  BY <1>1 DEF FlattenSeq

\* Sequences of elements of S give a sequence of elements of S.
LEMMA FlattenType ==
  ASSUME NEW S, NEW ss \in Seq(Seq(S))
  PROVE  FlattenSeq(ss) \in Seq(S)
<1>0. Len(ss) \in Nat
  BY LenProperties
<1>1. CASE Len(ss) = 0
  <2>1. ss = <<>>
    BY <1>1, EmptySeq
  <2> QED
    BY <2>1, FlattenNone, EmptySeq
<1>2. CASE Len(ss) # 0
  <2>1. Len(ss) \in 1 .. Len(ss)
    BY <1>0, <1>2
  <2> QED
    BY <1>2, <2>1, FlattenIsFlats, FlatsSteps
<1> QED
  BY <1>1, <1>2

\* One more sequence goes to the end.
LEMMA FlattenAppend ==
  ASSUME NEW S, NEW ss \in Seq(Seq(S)), NEW s \in Seq(S)
  PROVE  FlattenSeq(Append(ss, s)) = FlattenSeq(ss) \o s
<1> DEFINE tt == Append(ss, s)
           n == Len(ss)
<1>1. /\ n \in Nat /\ Len(tt) = n + 1 /\ tt \in Seq(Seq(S)) /\ tt[n + 1] = s
      /\ \A i \in 1 .. n : tt[i] = ss[i]
  BY AppendProperties, LenProperties
<1> HIDE DEF tt
<1>2. /\ n + 1 \in 1 .. Len(tt) /\ Len(tt) # 0
      /\ Flats(tt)[n + 1] = IF n + 1 = 1 THEN tt[n + 1] ELSE Flats(tt)[n + 1 - 1] \o tt[n + 1]
  BY <1>1, FlatsSteps
<1>3. FlattenSeq(tt) = Flats(tt)[n + 1]
  BY <1>1, <1>2, FlattenIsFlats
<1>4. CASE n = 0
  <2>1. ss = <<>>
    BY <1>4, EmptySeq
  <2>2. FlattenSeq(tt) = s
    BY <1>1, <1>2, <1>3, <1>4
  <2> QED
    BY <2>1, <2>2, FlattenNone, ConcatEmptySeq DEF tt
<1>5. CASE n # 0
  <2>1. n <= Len(ss) /\ n <= Len(tt) /\ n \in 1 .. n /\ n + 1 - 1 = n /\ n + 1 # 1
    BY <1>1, <1>5
  <2>2. \A i \in 1 .. n : Flats(ss)[i] = Flats(tt)[i]
    BY <1>1, <2>1, FlatsAgree
  <2>3. Flats(tt)[n] = FlattenSeq(ss)
    BY <1>5, <2>1, <2>2, FlattenIsFlats
  <2> QED
    BY <1>1, <1>2, <1>3, <2>1, <2>3 DEF tt
<1> QED
  BY <1>4, <1>5

\* What the first k of them give.
FlatTo(ss, k) == FlattenSeq(SubSeq(ss, 1, k))

\* The sequences are put together one by one.
LEMMA FlatToSteps ==
  ASSUME NEW S, NEW ss \in Seq(Seq(S))
  PROVE  /\ FlatTo(ss, 0) = <<>>
         /\ FlatTo(ss, Len(ss)) = FlattenSeq(ss)
         /\ \A k \in 0 .. Len(ss) : /\ FlatTo(ss, k) \in Seq(S)
                                    /\ Len(FlatTo(ss, k)) \in Nat
         /\ \A k \in 1 .. Len(ss) : FlatTo(ss, k) = FlatTo(ss, k - 1) \o ss[k]
<1>0. Len(ss) \in Nat /\ \A i \in 1 .. Len(ss) : ss[i] \in Seq(S)
  BY ElementOfSeq, LenProperties
<1>1. FlatTo(ss, 0) = <<>>
  <2>1. SubSeq(ss, 1, 0) = <<>>
    BY SubSeqEmpty
  <2> QED
    BY <2>1, FlattenNone DEF FlatTo
<1>2. FlatTo(ss, Len(ss)) = FlattenSeq(ss)
  BY SubSeqFull DEF FlatTo
<1>3. ASSUME NEW k \in 0 .. Len(ss)
      PROVE  /\ SubSeq(ss, 1, k) \in Seq(Seq(S)) /\ FlatTo(ss, k) \in Seq(S)
             /\ Len(FlatTo(ss, k)) \in Nat
  <2>1. SubSeq(ss, 1, k) \in Seq(Seq(S))
    BY <1>0, SubSeqProperties
  <2> QED
    BY <2>1, FlattenType, LenProperties DEF FlatTo
<1>4. ASSUME NEW k \in 1 .. Len(ss)
      PROVE  FlatTo(ss, k) = FlatTo(ss, k - 1) \o ss[k]
  <2> DEFINE u == SubSeq(ss, 1, k - 1)
             v == SubSeq(ss, 1, k)
  <2>1. k - 1 \in 0 .. Len(ss) /\ k \in 0 .. Len(ss)
    BY <1>0
  <2>2. u \in Seq(Seq(S)) /\ v \in Seq(Seq(S))
    BY <1>3, <2>1
  <2>3. /\ Len(u) = k - 1 /\ \A i \in 1 .. k - 1 : u[i] = ss[i]
        /\ Len(v) = k /\ \A i \in 1 .. k : v[i] = ss[i]
    BY <1>0, <2>1
  <2>4. Append(u, ss[k]) = v
    <3>1. /\ Append(u, ss[k]) \in Seq(Seq(S)) /\ Len(Append(u, ss[k])) = k
          /\ Append(u, ss[k])[k] = ss[k] /\ \A i \in 1 .. k - 1 : Append(u, ss[k])[i] = u[i]
      BY <1>0, <2>2, <2>3, AppendProperties
    <3>2. \A i \in 1 .. k : Append(u, ss[k])[i] = v[i]
      BY <1>0, <2>3, <3>1
    <3> QED
      BY <2>2, <2>3, <3>1, <3>2, SeqEqual
  <2> HIDE DEF u, v
  <2>5. FlattenSeq(v) = FlattenSeq(u) \o ss[k]
    BY <1>0, <2>2, <2>4, FlattenAppend
  <2> QED
    BY <2>5 DEF FlatTo, u, v
<1> QED
  BY <1>1, <1>2, <1>3, <1>4

\* Each sequence stays where it was put.
LEMMA FlatToKeeps ==
  ASSUME NEW S, NEW ss \in Seq(Seq(S)), NEW k \in 0 .. Len(ss), NEW n \in k .. Len(ss)
  PROVE  /\ Len(FlatTo(ss, k)) <= Len(FlatTo(ss, n))
         /\ \A i \in 1 .. Len(FlatTo(ss, k)) : FlatTo(ss, n)[i] = FlatTo(ss, k)[i]
<1> DEFINE Kept(m) == /\ Len(FlatTo(ss, k)) <= Len(FlatTo(ss, m))
                      /\ \A i \in 1 .. Len(FlatTo(ss, k)) : FlatTo(ss, m)[i] = FlatTo(ss, k)[i]
           bad == {m \in Nat : m \in k .. Len(ss) /\ ~Kept(m)}
<1>0. Len(ss) \in Nat /\ \A i \in 1 .. Len(ss) : ss[i] \in Seq(S)
  BY ElementOfSeq, LenProperties
<1>1. /\ \A m \in 0 .. Len(ss) : FlatTo(ss, m) \in Seq(S) /\ Len(FlatTo(ss, m)) \in Nat
      /\ \A m \in 1 .. Len(ss) : FlatTo(ss, m) = FlatTo(ss, m - 1) \o ss[m]
  BY FlatToSteps
<1>2. bad = {}
  <2> SUFFICES ASSUME bad # {} PROVE FALSE
    OBVIOUS
  <2>1. PICK m \in bad : \A j \in bad : m <= j
    BY LeastNatural
  <2>2. m \in k .. Len(ss) /\ ~Kept(m) /\ m # k
    BY <1>1, <2>1
  <2>3. m - 1 \in k .. Len(ss) /\ m - 1 \in 0 .. Len(ss) /\ m \in 1 .. Len(ss) /\ m - 1 \notin bad
    BY <1>0, <2>1, <2>2, SMTT(30)
  <2>4. Kept(m - 1)
    BY <1>0, <2>3
  <2>5. /\ Len(FlatTo(ss, m)) = Len(FlatTo(ss, m - 1)) + Len(ss[m])
        /\ \A i \in 1 .. Len(FlatTo(ss, m - 1)) : FlatTo(ss, m)[i] = FlatTo(ss, m - 1)[i]
        /\ Len(ss[m]) \in Nat /\ Len(FlatTo(ss, m - 1)) \in Nat
    <3> DEFINE u == FlatTo(ss, m - 1)
               t == ss[m]
    <3>1. u \in Seq(S) /\ t \in Seq(S) /\ FlatTo(ss, m) = u \o t
      BY <1>0, <1>1, <2>3
    <3>2. Len(u) \in Nat /\ Len(t) \in Nat
      BY <3>1, LenProperties
    <3> HIDE DEF u, t
    <3>3. /\ Len(u \o t) = Len(u) + Len(t)
          /\ \A i \in 1 .. Len(u) + Len(t) : (u \o t)[i] = IF i <= Len(u) THEN u[i] ELSE t[i - Len(u)]
      BY <3>1, ConcatProperties
    <3>4. \A i \in 1 .. Len(u) : (u \o t)[i] = u[i]
      BY <3>2, <3>3
    <3> QED
      BY <3>1, <3>2, <3>3, <3>4 DEF u, t
  <2>6. Len(FlatTo(ss, k)) \in Nat
    BY <1>0, <1>1
  <2>7. Kept(m)
    <3>1. Len(FlatTo(ss, k)) <= Len(FlatTo(ss, m))
      <4> DEFINE a == Len(FlatTo(ss, k))
                 b == Len(FlatTo(ss, m - 1))
                 c == Len(ss[m])
      <4>1. a \in Nat /\ b \in Nat /\ c \in Nat /\ a <= b /\ Len(FlatTo(ss, m)) = b + c
        BY <2>4, <2>5, <2>6
      <4> HIDE DEF a, b, c
      <4>2. a <= b + c
        BY <4>1
      <4> QED
        BY <4>1, <4>2 DEF a
    <3>2. ASSUME NEW i \in 1 .. Len(FlatTo(ss, k))
          PROVE  FlatTo(ss, m)[i] = FlatTo(ss, k)[i]
      <4>1. i \in 1 .. Len(FlatTo(ss, m - 1))
        BY <2>4, <2>5, <2>6
      <4> QED
        BY <2>4, <2>5, <4>1
    <3> QED
      BY <3>1, <3>2
  <2> QED
    BY <2>2, <2>7
<1>3. n \in Nat
  BY <1>0
<1> QED
  BY <1>2, <1>3

\* The i-th sequence begins where those before it end.
LEMMA FlattenAt ==
  ASSUME NEW S, NEW ss \in Seq(Seq(S)), NEW i \in 1 .. Len(ss)
  PROVE  /\ Len(FlatTo(ss, i)) = Len(FlatTo(ss, i - 1)) + Len(ss[i])
         /\ Len(FlatTo(ss, i)) <= Len(FlattenSeq(ss))
         /\ \A j \in 1 .. Len(ss[i]) : FlattenSeq(ss)[Len(FlatTo(ss, i - 1)) + j] = ss[i][j]
<1> DEFINE u == FlatTo(ss, i - 1)
           t == ss[i]
<1>0. Len(ss) \in Nat /\ ss[i] \in Seq(S)
  BY ElementOfSeq, LenProperties
<1>1. u \in Seq(S) /\ t \in Seq(S) /\ FlatTo(ss, i) = u \o t /\ FlatTo(ss, Len(ss)) = FlattenSeq(ss)
  <2>1. i - 1 \in 0 .. Len(ss)
    BY <1>0
  <2> QED
    BY <1>0, <2>1, FlatToSteps
<1>2. Len(u) \in Nat /\ Len(t) \in Nat
  BY <1>1, LenProperties
<1> HIDE DEF u, t
<1>3. /\ Len(u \o t) = Len(u) + Len(t)
      /\ \A j \in 1 .. Len(u) + Len(t) : (u \o t)[j] = IF j <= Len(u) THEN u[j] ELSE t[j - Len(u)]
  BY <1>1, ConcatProperties
<1>4. \A j \in 1 .. Len(t) : (u \o t)[Len(u) + j] = t[j]
  <2> SUFFICES ASSUME NEW j \in 1 .. Len(t) PROVE (u \o t)[Len(u) + j] = t[j]
    OBVIOUS
  <2>1. Len(u) + j \in 1 .. Len(u) + Len(t) /\ ~(Len(u) + j <= Len(u)) /\ Len(u) + j - Len(u) = j
    BY <1>2
  <2> QED
    BY <1>3, <2>1
<1>5. /\ Len(FlatTo(ss, i)) <= Len(FlattenSeq(ss))
      /\ \A j \in 1 .. Len(FlatTo(ss, i)) : FlattenSeq(ss)[j] = FlatTo(ss, i)[j]
  <2>1. i \in 0 .. Len(ss) /\ Len(ss) \in i .. Len(ss)
    BY <1>0
  <2> QED
    BY <1>1, <2>1, FlatToKeeps
<1>6. \A j \in 1 .. Len(t) : Len(u) + j \in 1 .. Len(FlatTo(ss, i))
  BY <1>1, <1>2, <1>3
<1> QED
  BY <1>1, <1>3, <1>4, <1>5, <1>6 DEF u, t

\* What is put together is all of the sequences, and nothing else.
LEMMA FlattenWhere ==
  ASSUME NEW S, NEW ss \in Seq(Seq(S)), NEW n \in 1 .. Len(FlattenSeq(ss))
  PROVE  \E i \in 1 .. Len(ss) : \E j \in 1 .. Len(ss[i]) :
           n = Len(FlatTo(ss, i - 1)) + j /\ FlattenSeq(ss)[n] = ss[i][j]
<1> DEFINE over == {k \in Nat : k \in 0 .. Len(ss) /\ n <= Len(FlatTo(ss, k))}
<1>0. /\ Len(ss) \in Nat /\ \A k \in 0 .. Len(ss) : Len(FlatTo(ss, k)) \in Nat
      /\ FlatTo(ss, 0) = <<>> /\ FlatTo(ss, Len(ss)) = FlattenSeq(ss) /\ Len(FlattenSeq(ss)) \in Nat
  <2>1. Len(ss) \in Nat /\ FlattenSeq(ss) \in Seq(S)
    BY FlattenType, LenProperties
  <2>2. Len(FlattenSeq(ss)) \in Nat
    BY <2>1, LenProperties
  <2> QED
    BY <2>1, <2>2, FlatToSteps
<1>1. Len(ss) \in over
  BY <1>0
<1>2. PICK i \in over : \A k \in over : i <= k
  BY <1>1, LeastNatural
<1>3. i # 0
  BY <1>0, <1>2, EmptySeq
<1>4. i \in 1 .. Len(ss) /\ i - 1 \in 0 .. Len(ss) /\ i - 1 \notin over
  BY <1>0, <1>2, <1>3
<1>5. n > Len(FlatTo(ss, i - 1)) /\ n <= Len(FlatTo(ss, i))
  BY <1>0, <1>2, <1>4
<1>6. /\ Len(FlatTo(ss, i)) = Len(FlatTo(ss, i - 1)) + Len(ss[i])
      /\ \A j \in 1 .. Len(ss[i]) : FlattenSeq(ss)[Len(FlatTo(ss, i - 1)) + j] = ss[i][j]
  BY <1>4, FlattenAt
<1> DEFINE j == n - Len(FlatTo(ss, i - 1))
<1>7. j \in 1 .. Len(ss[i]) /\ n = Len(FlatTo(ss, i - 1)) + j
  <2>1. Len(ss[i]) \in Nat /\ Len(FlatTo(ss, i - 1)) \in Nat /\ n \in Nat
    <3>1. ss[i] \in Seq(S)
      BY <1>4, ElementOfSeq
    <3> QED
      BY <1>0, <1>4, <3>1, LenProperties
  <2> DEFINE a == Len(FlatTo(ss, i - 1))
             c == Len(ss[i])
  <2>2. a \in Nat /\ c \in Nat /\ n \in Nat /\ n > a /\ n <= a + c
    BY <1>5, <1>6, <2>1
  <2> HIDE DEF a, c
  <2>3. n - a \in 1 .. c /\ n = a + (n - a)
    BY <2>2
  <2> QED
    BY <2>3 DEF a, c
<1> QED
  BY <1>4, <1>6, <1>7

\* What is left of them from the k-th on, the first k taken off.
FlatFrom(ss, k) == SubSeq(FlattenSeq(ss), Len(FlatTo(ss, k)) + 1, Len(FlattenSeq(ss)))

\* The sequences are taken off one by one, too.
LEMMA FlatFromSteps ==
  ASSUME NEW S, NEW ss \in Seq(Seq(S))
  PROVE  /\ FlatFrom(ss, 0) = FlattenSeq(ss)
         /\ FlatFrom(ss, Len(ss)) = <<>>
         /\ \A k \in 0 .. Len(ss) : FlatFrom(ss, k) \in Seq(S)
         /\ \A k \in 1 .. Len(ss) : FlatFrom(ss, k - 1) = ss[k] \o FlatFrom(ss, k)
<1> DEFINE all == FlattenSeq(ss)
           at(k) == Len(FlatTo(ss, k))
<1>0. /\ Len(ss) \in Nat /\ \A i \in 1 .. Len(ss) : ss[i] \in Seq(S) /\ Len(ss[i]) \in Nat
      /\ all \in Seq(S) /\ Len(all) \in Nat
  BY FlattenType, ElementOfSeq, LenProperties
<1>1. /\ FlatTo(ss, 0) = <<>> /\ FlatTo(ss, Len(ss)) = all
      /\ \A k \in 0 .. Len(ss) : at(k) \in Nat
  BY FlatToSteps
<1>2. at(0) = 0 /\ at(Len(ss)) = Len(all)
  BY <1>1, EmptySeq
<1>3. \A k \in 1 .. Len(ss) :
        /\ at(k) = at(k - 1) + Len(ss[k]) /\ at(k) <= Len(all)
        /\ \A j \in 1 .. Len(ss[k]) : all[at(k - 1) + j] = ss[k][j]
  BY FlattenAt
<1> HIDE DEF all, at
<1>4. \A k \in 0 .. Len(ss) : at(k) \in 0 .. Len(all)
  <2> TAKE k \in 0 .. Len(ss)
  <2>1. CASE k = 0
    BY <1>0, <1>2, <2>1
  <2>2. CASE k \in 1 .. Len(ss)
    BY <1>0, <1>1, <1>3, <2>2
  <2> QED
    BY <1>0, <2>1, <2>2
<1>5. \A k \in 0 .. Len(ss) : /\ SubSeq(all, at(k) + 1, Len(all)) \in Seq(S)
                              /\ Len(SubSeq(all, at(k) + 1, Len(all))) = Len(all) - at(k)
                              /\ \A i \in 1 .. Len(all) - at(k) :
                                   SubSeq(all, at(k) + 1, Len(all))[i] = all[at(k) + i]
  <2> SUFFICES ASSUME NEW a \in 0 .. Len(all)
               PROVE  /\ SubSeq(all, a + 1, Len(all)) \in Seq(S)
                      /\ Len(SubSeq(all, a + 1, Len(all))) = Len(all) - a
                      /\ \A i \in 1 .. Len(all) - a : SubSeq(all, a + 1, Len(all))[i] = all[a + i]
    BY <1>4
  <2>1. \A i \in a + 1 .. Len(all) : all[i] \in S
    BY <1>0, ElementOfSeq
  <2>2. a + 1 \in Int /\ Len(all) \in Int
    BY <1>0
  <2>3. /\ SubSeq(all, a + 1, Len(all)) \in Seq(S)
        /\ Len(SubSeq(all, a + 1, Len(all))) = IF a + 1 <= Len(all) THEN Len(all) - (a + 1) + 1 ELSE 0
        /\ \A i \in 1 .. Len(all) - (a + 1) + 1 : SubSeq(all, a + 1, Len(all))[i] = all[a + 1 + i - 1]
    BY <2>1, <2>2, SubSeqProperties
  <2> QED
    BY <1>0, <2>3
<1>6. SubSeq(all, at(0) + 1, Len(all)) = all
  BY <1>0, <1>2, SubSeqFull
<1>7. SubSeq(all, at(Len(ss)) + 1, Len(all)) = <<>>
  BY <1>0, <1>2, SubSeqEmpty
<1>8. ASSUME NEW k \in 1 .. Len(ss)
      PROVE  SubSeq(all, at(k - 1) + 1, Len(all)) = ss[k] \o SubSeq(all, at(k) + 1, Len(all))
  <2> DEFINE u == SubSeq(all, at(k - 1) + 1, Len(all))
             v == SubSeq(all, at(k) + 1, Len(all))
             t == ss[k]
             a == at(k - 1)
             b == at(k)
  <2>1. /\ k - 1 \in 0 .. Len(ss) /\ k \in 0 .. Len(ss)
        /\ a \in 0 .. Len(all) /\ b \in 0 .. Len(all) /\ b = a + Len(t) /\ t \in Seq(S) /\ Len(t) \in Nat
        /\ \A j \in 1 .. Len(t) : all[a + j] = t[j]
    BY <1>0, <1>3, <1>4
  <2>2. /\ u \in Seq(S) /\ Len(u) = Len(all) - a /\ \A i \in 1 .. Len(all) - a : u[i] = all[a + i]
        /\ v \in Seq(S) /\ Len(v) = Len(all) - b /\ \A i \in 1 .. Len(all) - b : v[i] = all[b + i]
    BY <1>5, <2>1
  <2> HIDE DEF u, v, t, a, b
  <2>3. /\ t \o v \in Seq(S) /\ Len(t \o v) = Len(t) + Len(v)
        /\ \A i \in 1 .. Len(t) + Len(v) : (t \o v)[i] = IF i <= Len(t) THEN t[i] ELSE v[i - Len(t)]
    BY <2>1, <2>2, ConcatProperties, ZenonT(60)
  <2>4. Len(t \o v) = Len(u)
    BY <1>0, <2>1, <2>2, <2>3
  <2>5. ASSUME NEW i \in 1 .. Len(u)
        PROVE  u[i] = (t \o v)[i]
    <3>1. i \in 1 .. Len(all) - a /\ u[i] = all[a + i] /\ i \in 1 .. Len(t) + Len(v)
      BY <2>2, <2>3, <2>4
    <3>2. CASE i <= Len(t)
      BY <1>0, <2>1, <2>3, <3>1, <3>2
    <3>3. CASE ~(i <= Len(t))
      <4>1. i - Len(t) \in 1 .. Len(all) - b /\ b + (i - Len(t)) = a + i
        BY <1>0, <2>1, <3>1, <3>3
      <4> QED
        BY <2>2, <2>3, <3>1, <3>3, <4>1
    <3> QED
      BY <3>2, <3>3
  <2> QED
    BY <2>2, <2>3, <2>4, <2>5, SeqEqual DEF u, v, t, a, b
<1> QED
  BY <1>5, <1>6, <1>7, <1>8 DEF FlatFrom, all, at
=============================================================================
