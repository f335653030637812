----------------------------- MODULE GlobProofs -----------------------------
(***************************************************************************)
(* Glob proved for any tree, patterns, flags and offsets: match accepts    *)
(* what a segment stands for; the array always has the room that           *)
(* globextend uses, and is NULLs, paths and a NULL; what earlier calls put *)
(* into it stays; whatever fails, no call adds what its pattern does not   *)
(* stand for; and a call that has not failed adds all its pattern stands   *)
(* for, in order.                                                          *)
(***************************************************************************)
EXTENDS Glob, FiniteSetTheorems, WellFoundedInduction, TLAPS

-----------------------------------------------------------------------------
(* Numbers, and the functions that match, glob0 and globexp2 compute step   *)
(* by step                                                                  *)

\* A set of numbers has a least one.
LEMMA LeastNumber ==
  ASSUME NEW S \in SUBSET Nat, S # {}
  PROVE  \E m \in S : \A j \in S : m <= j
<1> DEFINE Below(m) == S \cap (0..m)
           T == {Below(m) : m \in S}
<1>1. T \subseteq FiniteSubsetsOf(S) /\ T # {}
  <2>1. \A m \in S : IsFiniteSet(0..m)
    BY FS_Interval
  <2>2. \A m \in S : IsFiniteSet(Below(m))
    BY <2>1, FS_Subset
  <2> QED
    BY <2>2 DEF FiniteSubsetsOf
<1>2. PICK m \in S : \A j \in S : ~ (<<Below(j), Below(m)>> \in StrictSubsetOrdering(S))
  <2> HIDE DEF T
  <2>1. \E x \in T : \A y \in T : ~ (<<y, x>> \in StrictSubsetOrdering(S))
    BY <1>1, FS_StrictSubsetOrderingWellFounded, WFMin
  <2> QED
    BY <2>1 DEF T
<1>3. ASSUME NEW j \in S, j < m PROVE FALSE
  <2>1. Below(j) \subseteq Below(m) /\ m \in Below(m) /\ m \notin Below(j)
    BY <1>3
  <2>2. Below(j) \in SUBSET S /\ Below(m) \in SUBSET S
    OBVIOUS
  <2> HIDE DEF Below
  <2> QED
    BY <1>2, <2>1, <2>2 DEF StrictSubsetOrdering
<1> QED
  BY <1>3

\* Induction up to a number, over the set S of the numbers for which a fact holds.
LEMMA InductionUpTo ==
  ASSUME NEW S, NEW m \in Nat, 0 \in S, \A n \in 0..m - 1 : n \in S => n + 1 \in S
  PROVE  \A n \in 0..m : n \in S
<1> DEFINE T == {n \in 0..m : n \notin S}
<1>1. SUFFICES ASSUME T # {} PROVE FALSE
  BY <1>1
<1>2. PICK k \in T : \A j \in T : k <= j
  <2>1. T \in SUBSET Nat
    OBVIOUS
  <2> HIDE DEF T
  <2> QED
    BY <1>1, <2>1, LeastNumber
<1>3. k \in 0..m /\ k \notin S /\ k # 0
  OBVIOUS
<1>4. k - 1 \in 0..m - 1 /\ (k - 1) + 1 = k
  BY <1>3
<1>5. k - 1 \in S
  BY <1>2, <1>4
<1> QED
  BY <1>3, <1>4, <1>5

\* Compiled is defined: the part of a segment that is compiled grows by a token at a time.
LEMMA CompiledExists ==
  ASSUME NEW segment \in Seq(Tokens)
  PROVE  \E f : f = [n \in 0..Len(segment) |->
            IF n = 0 THEN <<>> ELSE Collapse(f[n - 1], segment[n])]
<1> DEFINE Is(f, k) == f = [n \in 0..k |-> IF n = 0 THEN <<>> ELSE Collapse(f[n - 1], segment[n])]
           S == {k \in Nat : \E f : Is(f, k)}
<1>1. 0 \in S
  <2> DEFINE f == [n \in 0..0 |-> <<>>]
  <2>1. \A n \in 0..0 : n = 0
    OBVIOUS
  <2>2. [n \in 0..0 |-> IF n = 0 THEN <<>> ELSE Collapse(f[n - 1], segment[n])] = f
    BY <2>1
  <2>3. Is(f, 0)
    BY <2>2
  <2> QED
    BY <2>3
<1>2. ASSUME NEW k \in Nat, k \in S PROVE k + 1 \in S
  <2>1. PICK f : Is(f, k)
    BY <1>2
  <2> DEFINE g == [n \in 0..k + 1 |-> IF n = k + 1 THEN Collapse(f[n - 1], segment[n]) ELSE f[n]]
  <2>2. ASSUME NEW n \in 0..k + 1
        PROVE  g[n] = IF n = 0 THEN <<>> ELSE Collapse(g[n - 1], segment[n])
    <3>1. n # 0 => n - 1 \in 0..k + 1 /\ n - 1 # k + 1
      OBVIOUS
    <3>2. n # 0 => g[n - 1] = f[n - 1]
      BY <3>1
    <3>3. CASE n = k + 1
      BY <3>2, <3>3
    <3>4. CASE n # k + 1
      <4>1. n \in 0..k
        BY <3>4
      <4>2. f[n] = IF n = 0 THEN <<>> ELSE Collapse(f[n - 1], segment[n])
        BY <2>1, <4>1
      <4> QED
        BY <3>2, <3>4, <4>2
    <3> QED
      BY <3>3, <3>4
  <2>3. Is(g, k + 1)
    <3>1. g = [n \in 0..k + 1 |-> g[n]]
      OBVIOUS
    <3> HIDE DEF g
    <3>2. [n \in 0..k + 1 |-> g[n]]
          = [n \in 0..k + 1 |-> IF n = 0 THEN <<>> ELSE Collapse(g[n - 1], segment[n])]
      BY <2>2
    <3> QED
      BY <3>1, <3>2
  <2> HIDE DEF g
  <2>4. \E h : Is(h, k + 1)
    BY <2>3
  <2> QED
    BY <2>4
<1> DEFINE m == Len(segment)
<1>3. m \in Nat
  OBVIOUS
<1> HIDE DEF S, m
<1>4. \A n \in 0..m - 1 : n \in S => n + 1 \in S
  BY <1>2, <1>3
<1>5. \A n \in 0..m : n \in S
  BY <1>1, <1>3, <1>4, InductionUpTo
<1> QED
  BY <1>3, <1>5 DEF S, m

\* Expand is defined, for each number of elements.
LEMMA ExpandExists ==
  ASSUME NEW closed \in Seq(Elements)
  PROVE  \E f : f = [n \in 0..Len(closed) |->
            IF n = 0 THEN <<<<>>>> ELSE WithNext(f[n - 1], closed[n])]
<1> DEFINE Is(f, k) == f = [n \in 0..k |->
          IF n = 0 THEN <<<<>>>> ELSE WithNext(f[n - 1], closed[n])]
           S == {k \in Nat : \E f : Is(f, k)}
<1>1. 0 \in S
  <2> DEFINE f == [n \in 0..0 |-> <<<<>>>>]
  <2>1. \A n \in 0..0 : n = 0
    OBVIOUS
  <2>2. [n \in 0..0 |-> IF n = 0 THEN <<<<>>>> ELSE WithNext(f[n - 1], closed[n])] = f
    BY <2>1
  <2>3. Is(f, 0)
    BY <2>2
  <2> QED
    BY <2>3
<1>2. ASSUME NEW k \in Nat, k \in S PROVE k + 1 \in S
  <2>1. PICK f : Is(f, k)
    BY <1>2
  <2> DEFINE g == [n \in 0..k + 1 |-> IF n = k + 1 THEN WithNext(f[n - 1], closed[n]) ELSE f[n]]
  <2>2. ASSUME NEW n \in 0..k + 1
        PROVE  g[n] = IF n = 0 THEN <<<<>>>> ELSE WithNext(g[n - 1], closed[n])
    <3>1. n # 0 => n - 1 \in 0..k + 1 /\ n - 1 # k + 1
      OBVIOUS
    <3>2. n # 0 => g[n - 1] = f[n - 1]
      BY <3>1
    <3>3. CASE n = k + 1
      BY <3>2, <3>3
    <3>4. CASE n # k + 1
      <4>1. n \in 0..k
        BY <3>4
      <4>2. f[n] = IF n = 0 THEN <<<<>>>> ELSE WithNext(f[n - 1], closed[n])
        BY <2>1, <4>1
      <4> QED
        BY <3>2, <3>4, <4>2
    <3> QED
      BY <3>3, <3>4
  <2>3. Is(g, k + 1)
    <3>1. g = [n \in 0..k + 1 |-> g[n]]
      OBVIOUS
    <3> HIDE DEF g
    <3>2. [n \in 0..k + 1 |-> g[n]]
          = [n \in 0..k + 1 |-> IF n = 0 THEN <<<<>>>> ELSE WithNext(g[n - 1], closed[n])]
      BY <2>2
    <3> QED
      BY <3>1, <3>2
  <2> HIDE DEF g
  <2>4. \E h : Is(h, k + 1)
    BY <2>3
  <2> QED
    BY <2>4
<1> DEFINE m == Len(closed)
<1>3. m \in Nat
  OBVIOUS
<1> HIDE DEF S, m
<1>4. \A n \in 0..m - 1 : n \in S => n + 1 \in S
  BY <1>2, <1>3
<1>5. \A n \in 0..m : n \in S
  BY <1>1, <1>3, <1>4, InductionUpTo
<1> QED
  BY <1>3, <1>5 DEF S, m

\* Match is defined, for each number of tokens that are left.
LEMMA MatchExists ==
  ASSUME NEW name, NEW segment \in Seq(Tokens)
  PROVE  \E f : f = [n \in 0..Len(segment) |->
            IF n = 0 THEN {Len(name)}
            ELSE TakesFrom(name, segment[Len(segment) - n + 1], n, f[n - 1])]
<1> DEFINE Is(f, k) == f = [n \in 0..k |->
          IF n = 0 THEN {Len(name)}
          ELSE TakesFrom(name, segment[Len(segment) - n + 1], n, f[n - 1])]
           S == {k \in Nat : \E f : Is(f, k)}
<1>1. 0 \in S
  <2> DEFINE f == [n \in 0..0 |-> {Len(name)}]
  <2>1. \A n \in 0..0 : n = 0
    OBVIOUS
  <2>2. [n \in 0..0 |->
            IF n = 0 THEN {Len(name)}
            ELSE TakesFrom(name, segment[Len(segment) - n + 1], n, f[n - 1])] = f
    BY <2>1
  <2>3. Is(f, 0)
    BY <2>2
  <2> QED
    BY <2>3
<1>2. ASSUME NEW k \in Nat, k \in S PROVE k + 1 \in S
  <2>1. PICK f : Is(f, k)
    BY <1>2
  <2> DEFINE g == [n \in 0..k + 1 |->
            IF n = k + 1 THEN TakesFrom(name, segment[Len(segment) - n + 1], n, f[n - 1]) ELSE f[n]]
  <2>2. ASSUME NEW n \in 0..k + 1
        PROVE  g[n] = IF n = 0 THEN {Len(name)}
        ELSE TakesFrom(name, segment[Len(segment) - n + 1], n, g[n - 1])
    <3>1. n # 0 => n - 1 \in 0..k + 1 /\ n - 1 # k + 1
      OBVIOUS
    <3>2. n # 0 => g[n - 1] = f[n - 1]
      BY <3>1
    <3>3. CASE n = k + 1
      BY <3>2, <3>3
    <3>4. CASE n # k + 1
      <4>1. n \in 0..k
        BY <3>4
      <4>2. f[n] = IF n = 0 THEN {Len(name)}
      ELSE TakesFrom(name, segment[Len(segment) - n + 1], n, f[n - 1])
        BY <2>1, <4>1
      <4> QED
        BY <3>2, <3>4, <4>2
    <3> QED
      BY <3>3, <3>4
  <2>3. Is(g, k + 1)
    <3>1. g = [n \in 0..k + 1 |-> g[n]]
      OBVIOUS
    <3> HIDE DEF g
    <3>2. [n \in 0..k + 1 |-> g[n]]
          = [n \in 0..k + 1 |->
              IF n = 0 THEN {Len(name)}
              ELSE TakesFrom(name, segment[Len(segment) - n + 1], n, g[n - 1])]
      BY <2>2
    <3> QED
      BY <3>1, <3>2
  <2> HIDE DEF g
  <2>4. \E h : Is(h, k + 1)
    BY <2>3
  <2> QED
    BY <2>4
<1> DEFINE m == Len(segment)
<1>3. m \in Nat
  OBVIOUS
<1> HIDE DEF S, m
<1>4. \A n \in 0..m - 1 : n \in S => n + 1 \in S
  BY <1>2, <1>3
<1>5. \A n \in 0..m : n \in S
  BY <1>1, <1>3, <1>4, InductionUpTo
<1> QED
  BY <1>3, <1>5 DEF S, m

\* Compiled, token by token.
LEMMA CompiledSteps ==
  ASSUME NEW segment \in Seq(Tokens)
  PROVE  \E front : /\ front[0] = <<>>
                    /\ \A n \in 1..Len(segment) : front[n] = Collapse(front[n - 1], segment[n])
                    /\ Compiled(segment) = front[Len(segment)]
<1> DEFINE Is(f) == f = [n \in 0..Len(segment) |->
          IF n = 0 THEN <<>> ELSE Collapse(f[n - 1], segment[n])]
           front == CHOOSE f : Is(f)
<1>1. Is(front)
  <2>1. \E f : Is(f)
    BY CompiledExists
  <2> HIDE DEF Is
  <2> QED
    BY <2>1
<1>2. Compiled(segment) = front[Len(segment)]
  BY DEF Compiled
<1>3. Len(segment) \in Nat
  OBVIOUS
<1> HIDE DEF front
<1>4. front[0] = <<>> /\ \A n \in 1..Len(segment) : front[n] = Collapse(front[n - 1], segment[n])
  BY <1>1, <1>3
<1> QED
  BY <1>2, <1>4

\* Expand, element by element.
LEMMA ExpandSteps ==
  ASSUME NEW pattern, UpToOpenBrace(pattern) \in Seq(Elements)
  PROVE  LET closed == UpToOpenBrace(pattern) IN
         \E fronts : /\ fronts[0] = <<<<>>>>
                     /\ \A n \in 1..Len(closed) : fronts[n] = WithNext(fronts[n - 1], closed[n])
                     /\ Expand(pattern) = fronts[Len(closed)]
<1> DEFINE closed == UpToOpenBrace(pattern)
           Is(f) == f = [n \in 0..Len(closed) |->
                     IF n = 0 THEN <<<<>>>> ELSE WithNext(f[n - 1], closed[n])]
           fronts == CHOOSE f : Is(f)
<1>1. Is(fronts)
  <2>1. \E f : Is(f)
    <3> HIDE DEF closed
    <3>1. closed \in Seq(Elements)
      BY DEF closed
    <3> QED
      BY <3>1, ExpandExists
  <2> HIDE DEF Is
  <2> QED
    BY <2>1
<1>2. Expand(pattern) = fronts[Len(closed)]
  BY DEF Expand
<1>3. Len(closed) \in Nat
  OBVIOUS
<1> DEFINE m == Len(closed)
           start == <<<<>>>>
<1> HIDE DEF fronts, closed, m, start
<1>4. fronts = [n \in 0..m |->
          IF n = 0 THEN start ELSE WithNext(fronts[n - 1], closed[n])] /\ m \in Nat
  BY <1>1, <1>3 DEF m, start
<1>5. fronts[0] = start /\ \A n \in 1..m : fronts[n] = WithNext(fronts[n - 1], closed[n])
  BY <1>4
<1> QED
  BY <1>2, <1>5 DEF closed, m, start

\* Match, from the last token to the first.
LEMMA MatchSteps ==
  ASSUME NEW name, NEW segment \in Seq(Tokens)
  PROVE  \E from : /\ from[0] = {Len(name)}
                   /\ \A n \in 1..Len(segment) :
                        from[n] = TakesFrom(name, segment[Len(segment) - n + 1], n, from[n - 1])
                   /\ Match(name, segment) = (0 \in from[Len(segment)])
<1> DEFINE Is(f) == f = [n \in 0..Len(segment) |->
                           IF n = 0 THEN {Len(name)}
                           ELSE TakesFrom(name, segment[Len(segment) - n + 1], n, f[n - 1])]
           from == CHOOSE f : Is(f)
<1>1. Is(from)
  <2>1. \E f : Is(f)
    BY MatchExists
  <2> HIDE DEF Is
  <2> QED
    BY <2>1
<1>2. Match(name, segment) = (0 \in from[Len(segment)])
  BY DEF Match
<1>3. Len(segment) \in Nat
  OBVIOUS
<1> DEFINE m == Len(segment)
           all == {Len(name)}
<1> HIDE DEF from, m, all
<1>4. /\ from = [n \in 0..m |-> IF n = 0 THEN all
                                ELSE TakesFrom(name, segment[m - n + 1], n, from[n - 1])]
      /\ m \in Nat
  BY <1>1, <1>3 DEF m, all
<1>5. /\ from[0] = all
      /\ \A n \in 1..m : from[n] = TakesFrom(name, segment[m - n + 1], n, from[n - 1])
  BY <1>4
<1> QED
  BY <1>2, <1>5 DEF m, all

-----------------------------------------------------------------------------
(* What a segment accepts: its tokens span the name, one after the other    *)

\* A token spans the part of the name from d to e.
Spans(name, token, d, e) ==
  IF token.kind = "all" THEN d <= e ELSE e = d + 1 /\ name[e] \in Stands(token)

\* The tokens behind the i-th, up to the j-th, span the part from d to e.
SpanFromTo(name, segment, i, j, d, e) ==
  \E cut \in [i..j -> 0..Len(name)] :
    /\ cut[i] = d /\ cut[j] = e
    /\ \A k \in i + 1..j : Spans(name, segment[k], cut[k - 1], cut[k])

\* No token spans nothing.
LEMMA SpanOfNone ==
  ASSUME NEW name, Len(name) \in Nat, NEW segment, NEW i \in Nat,
         NEW d \in 0..Len(name), NEW e \in 0..Len(name)
  PROVE  SpanFromTo(name, segment, i, i, d, e) <=> d = e
<1>1. ASSUME d = e PROVE SpanFromTo(name, segment, i, i, d, e)
  <2> DEFINE cut == [k \in i..i |-> d]
  <2>1. cut \in [i..i -> 0..Len(name)] /\ cut[i] = d /\ i + 1..i = {}
    OBVIOUS
  <2> HIDE DEF cut
  <2> QED
    BY <1>1, <2>1 DEF SpanFromTo
<1> QED
  BY <1>1 DEF SpanFromTo

\* The first token spans a part, and the others span the rest.
LEMMA SpanOfFirst ==
  ASSUME NEW name, Len(name) \in Nat, NEW segment, NEW i \in Nat, NEW j \in Nat, i < j,
         NEW d \in 0..Len(name), NEW e \in 0..Len(name)
  PROVE  SpanFromTo(name, segment, i, j, d, e) <=>
           \E c \in 0..Len(name) : /\ Spans(name, segment[i + 1], d, c)
                                   /\ SpanFromTo(name, segment, i + 1, j, c, e)
<1>1. ASSUME SpanFromTo(name, segment, i, j, d, e)
      PROVE  \E c \in 0..Len(name) : /\ Spans(name, segment[i + 1], d, c)
                                     /\ SpanFromTo(name, segment, i + 1, j, c, e)
  <2>1. PICK cut \in [i..j -> 0..Len(name)] :
          /\ cut[i] = d /\ cut[j] = e
          /\ \A k \in i + 1..j : Spans(name, segment[k], cut[k - 1], cut[k])
    BY <1>1 DEF SpanFromTo
  <2> DEFINE rest == [k \in i + 1..j |-> cut[k]]
  <2>2. rest \in [i + 1..j -> 0..Len(name)] /\ rest[i + 1] = cut[i + 1] /\ rest[j] = e
    BY <2>1
  <2>3. ASSUME NEW k \in (i + 1) + 1..j PROVE Spans(name, segment[k], rest[k - 1], rest[k])
    <3>1. k \in i + 1..j /\ rest[k - 1] = cut[k - 1] /\ rest[k] = cut[k]
      OBVIOUS
    <3> QED
      BY <2>1, <3>1
  <2> HIDE DEF rest
  <2>4. SpanFromTo(name, segment, i + 1, j, cut[i + 1], e)
    BY <2>2, <2>3 DEF SpanFromTo
  <2>5. i + 1 \in i + 1..j /\ (i + 1) - 1 = i /\ i + 1 \in i..j
    OBVIOUS
  <2>6. Spans(name, segment[i + 1], d, cut[i + 1]) /\ cut[i + 1] \in 0..Len(name)
    BY <2>1, <2>5
  <2> QED
    BY <2>4, <2>6
<1>2. ASSUME NEW c \in 0..Len(name), Spans(name, segment[i + 1], d, c),
             SpanFromTo(name, segment, i + 1, j, c, e)
      PROVE  SpanFromTo(name, segment, i, j, d, e)
  <2>1. PICK rest \in [i + 1..j -> 0..Len(name)] :
          /\ rest[i + 1] = c /\ rest[j] = e
          /\ \A k \in (i + 1) + 1..j : Spans(name, segment[k], rest[k - 1], rest[k])
    BY <1>2 DEF SpanFromTo
  <2> DEFINE cut == [k \in i..j |-> IF k = i THEN d ELSE rest[k]]
  <2>2. cut \in [i..j -> 0..Len(name)] /\ cut[i] = d /\ cut[j] = e
    BY <2>1
  <2>3. ASSUME NEW k \in i + 1..j PROVE Spans(name, segment[k], cut[k - 1], cut[k])
    <3>1. CASE k = i + 1
      <4>1. cut[k - 1] = d /\ cut[k] = c
        BY <2>1, <3>1
      <4> QED
        BY <1>2, <3>1, <4>1
    <3>2. CASE k # i + 1
      <4>1. k \in (i + 1) + 1..j /\ cut[k - 1] = rest[k - 1] /\ cut[k] = rest[k]
        BY <3>2
      <4> QED
        BY <2>1, <4>1
    <3> QED
      BY <3>1, <3>2
  <2> HIDE DEF cut
  <2> QED
    BY <2>2, <2>3 DEF SpanFromTo
<1> QED
  BY <1>1, <1>2

\* The last token spans the end, and those before it the rest.
LEMMA SpanOfLast ==
  ASSUME NEW name, Len(name) \in Nat, NEW segment, NEW i \in Nat, NEW j \in Nat, i <= j,
         NEW d \in 0..Len(name), NEW e \in 0..Len(name)
  PROVE  SpanFromTo(name, segment, i, j + 1, d, e) <=>
           \E c \in 0..Len(name) : /\ SpanFromTo(name, segment, i, j, d, c)
                                   /\ Spans(name, segment[j + 1], c, e)
<1>1. ASSUME SpanFromTo(name, segment, i, j + 1, d, e)
      PROVE  \E c \in 0..Len(name) : /\ SpanFromTo(name, segment, i, j, d, c)
                                     /\ Spans(name, segment[j + 1], c, e)
  <2>1. PICK cut \in [i..j + 1 -> 0..Len(name)] :
          /\ cut[i] = d /\ cut[j + 1] = e
          /\ \A k \in i + 1..j + 1 : Spans(name, segment[k], cut[k - 1], cut[k])
    BY <1>1 DEF SpanFromTo
  <2> DEFINE front == [k \in i..j |-> cut[k]]
  <2>2. front \in [i..j -> 0..Len(name)] /\ front[i] = d /\ front[j] = cut[j]
    BY <2>1
  <2>3. ASSUME NEW k \in i + 1..j PROVE Spans(name, segment[k], front[k - 1], front[k])
    <3>1. k \in i + 1..j + 1 /\ front[k - 1] = cut[k - 1] /\ front[k] = cut[k]
      OBVIOUS
    <3> QED
      BY <2>1, <3>1
  <2> HIDE DEF front
  <2>4. SpanFromTo(name, segment, i, j, d, cut[j])
    BY <2>2, <2>3 DEF SpanFromTo
  <2>5. j + 1 \in i + 1..j + 1 /\ (j + 1) - 1 = j /\ j \in i..j + 1
    OBVIOUS
  <2>6. Spans(name, segment[j + 1], cut[j], e) /\ cut[j] \in 0..Len(name)
    BY <2>1, <2>5
  <2> QED
    BY <2>4, <2>6
<1>2. ASSUME NEW c \in 0..Len(name), SpanFromTo(name, segment, i, j, d, c),
             Spans(name, segment[j + 1], c, e)
      PROVE  SpanFromTo(name, segment, i, j + 1, d, e)
  <2>1. PICK front \in [i..j -> 0..Len(name)] :
          /\ front[i] = d /\ front[j] = c
          /\ \A k \in i + 1..j : Spans(name, segment[k], front[k - 1], front[k])
    BY <1>2 DEF SpanFromTo
  <2> DEFINE cut == [k \in i..j + 1 |-> IF k = j + 1 THEN e ELSE front[k]]
  <2>2. cut \in [i..j + 1 -> 0..Len(name)] /\ cut[i] = d /\ cut[j + 1] = e
    BY <2>1
  <2>3. ASSUME NEW k \in i + 1..j + 1 PROVE Spans(name, segment[k], cut[k - 1], cut[k])
    <3>1. CASE k = j + 1
      <4>1. cut[k - 1] = c /\ cut[k] = e
        BY <2>1, <3>1
      <4> QED
        BY <1>2, <3>1, <4>1
    <3>2. CASE k # j + 1
      <4>1. k \in i + 1..j /\ cut[k - 1] = front[k - 1] /\ cut[k] = front[k]
        BY <3>2
      <4> QED
        BY <2>1, <4>1
    <3> QED
      BY <3>1, <3>2
  <2> HIDE DEF cut
  <2> QED
    BY <2>2, <2>3 DEF SpanFromTo
<1> QED
  BY <1>1, <1>2

\* Only the tokens that are used count.
LEMMA SpanOfSame ==
  ASSUME NEW name, NEW s, NEW t, NEW i \in Nat, NEW j \in Nat, NEW d, NEW e,
         \A k \in i + 1..j : s[k] = t[k]
  PROVE  SpanFromTo(name, s, i, j, d, e) <=> SpanFromTo(name, t, i, j, d, e)
BY DEF SpanFromTo

\* A token takes the characters that it stands for.
LEMMA TakesWhatItStandsFor ==
  ASSUME NEW token \in Tokens, token.kind # "all", NEW c \in Characters
  PROVE  Takes(token, c) <=> c \in Stands(token)
<1>1. CASE token.kind = "one"
  BY <1>1 DEF Takes, Stands
<1>2. CASE token.kind = "not"
  BY <1>2 DEF Takes, Stands
<1>3. CASE token.kind \in {"char", "set"}
  BY <1>3 DEF Takes, Stands
<1> QED
  BY <1>1, <1>2, <1>3 DEF Tokens

\* match finds whether the tokens span the name.
LEMMA MatchIsSpan ==
  ASSUME NEW name \in Seq(Characters), NEW segment \in Seq(Tokens)
  PROVE  Match(name, segment) <=> SpanFromTo(name, segment, 0, Len(segment), 0, Len(name))
<1> DEFINE m == Len(segment)
           len == Len(name)
<1>1. m \in Nat /\ len \in Nat /\ \A k \in 1..m : segment[k] \in Tokens
  OBVIOUS
<1>2. \A c \in 1..len : name[c] \in Characters
  OBVIOUS
<1>3. PICK from : /\ from[0] = {len}
                  /\ \A n \in 1..m : from[n] = TakesFrom(name, segment[m - n + 1], n, from[n - 1])
                  /\ Match(name, segment) = (0 \in from[m])
  BY MatchSteps
<1> DEFINE Rest(n) == {d \in 0..len : SpanFromTo(name, segment, m - n, m, d, len)}
           S == {n \in 0..m : from[n] = Rest(n)}
<1>4. 0 \in S
  <2>1. m - 0 = m
    BY <1>1
  <2>2. \A d \in 0..len : SpanFromTo(name, segment, m, m, d, len) <=> d = len
    <3> HIDE DEF m
    <3> QED
      BY <1>1, SpanOfNone DEF m
  <2>3. Rest(0) = {len}
    BY <1>1, <2>1, <2>2
  <2> HIDE DEF Rest, m, len
  <2>4. 0 \in 0..m /\ from[0] = Rest(0)
    BY <1>1, <1>3, <2>3
  <2> QED
    BY <2>4
<1>5. ASSUME NEW n \in 0..m - 1, n \in S PROVE n + 1 \in S
  <2> DEFINE i == m - (n + 1)
             token == segment[i + 1]
             T == from[n + 1]
  <2>1. /\ i \in Nat /\ i < m /\ i + 1 = m - n /\ m - (n + 1) + 1 = i + 1
        /\ n + 1 \in 1..m /\ (n + 1) - 1 = n /\ i + 1 \in 1..m
    BY <1>1
  <2>2. T = TakesFrom(name, token, n + 1, Rest(n))
    <3> HIDE DEF Rest
    <3> QED
      BY <1>3, <1>5, <2>1
  <2>3. \A c \in 0..len : c \in Rest(n) <=> SpanFromTo(name, segment, i + 1, m, c, len)
    BY <2>1
  <2>4. token \in Tokens
    BY <1>1, <2>1
  <2>5. len \in 0..len
    BY <1>1
  <2> HIDE DEF Rest, i, token, T, m, len
  <2>6. ASSUME NEW d \in 0..len
        PROVE  SpanFromTo(name, segment, i, m, d, len) <=>
                 \E c \in 0..len : Spans(name, token, d, c) /\ c \in Rest(n)
    <3>1. SpanFromTo(name, segment, i, m, d, len) <=>
            \E c \in 0..len : /\ Spans(name, segment[i + 1], d, c)
                              /\ SpanFromTo(name, segment, i + 1, m, c, len)
      BY <1>1, <2>1, <2>5, SpanOfFirst DEF len
    <3> QED
      BY <2>3, <3>1 DEF token
  <2>7. n + 1 = 1 => len \in Rest(n)
    <3>1. n + 1 = 1 => i + 1 = m
      BY <1>1, <2>1
    <3>2. SpanFromTo(name, segment, m, m, len, len)
      BY <1>1, <2>5, SpanOfNone DEF len
    <3> QED
      BY <2>3, <2>5, <3>1, <3>2
  <2>8. ASSUME NEW d \in 0..len
        PROVE  d \in T <=> \E c \in 0..len : Spans(name, token, d, c) /\ c \in Rest(n)
    <3>1. CASE token.kind = "all"
      <4>1. d \in T <=> n + 1 = 1 \/ \E e \in d + ShortestStar..len : e \in Rest(n)
        BY <2>2, <3>1 DEF TakesFrom, len
      <4>2. \A e : e \in d + ShortestStar..len <=> e \in 0..len /\ d <= e
        BY <1>1 DEF ShortestStar
      <4> QED
        BY <1>1, <2>5, <2>7, <3>1, <4>1, <4>2 DEF Spans
    <3>2. CASE token.kind # "all"
      <4>1. d \in T <=> d < len /\ Takes(token, name[d + 1]) /\ d + 1 \in Rest(n)
        BY <2>2, <3>2 DEF TakesFrom, len
      <4>2. d < len => d + 1 \in 1..len /\ d + 1 \in 0..len
        BY <1>1
      <4>3. d < len => (Takes(token, name[d + 1]) <=> name[d + 1] \in Stands(token))
        BY <1>2, <2>4, <3>2, <4>2, TakesWhatItStandsFor
      <4>4. d + 1 \in 0..len => d < len
        BY <1>1
      <4> QED
        BY <3>2, <4>1, <4>2, <4>3, <4>4 DEF Spans
    <3> QED
      BY <3>1, <3>2
  <2>9. T \subseteq 0..len
    BY <2>2 DEF TakesFrom, len
  <2>10. \A d : d \in T <=> d \in 0..len /\ SpanFromTo(name, segment, i, m, d, len)
    BY <2>6, <2>8, <2>9
  <2>11. T = Rest(n + 1)
    BY <2>10 DEF Rest, i
  <2> QED
    BY <2>1, <2>11 DEF T, m
<1> HIDE DEF S, m, len
<1>6. m \in S
  <2>1. \A n \in 0..m - 1 : n \in S => n + 1 \in S
    BY <1>5
  <2>2. \A n \in 0..m : n \in S
    BY <1>1, <1>4, <2>1, InductionUpTo
  <2> QED
    BY <1>1, <2>2
<1>7. from[m] = {d \in 0..len : SpanFromTo(name, segment, 0, m, d, len)}
  <2>1. m - m = 0
    BY <1>1
  <2> QED
    BY <1>6, <2>1 DEF S
<1>8. 0 \in 0..len
  BY <1>1
<1> QED
  BY <1>3, <1>7, <1>8 DEF m, len

\* A sequence that is appended to keeps its first element.
LEMMA AppendFirst ==
  ASSUME NEW S, NEW s \in Seq(S), NEW x \in S
  PROVE  /\ Append(s, x) \in Seq(S) /\ Append(s, x) # <<>>
         /\ s # <<>> => Append(s, x)[1] = s[1]
         /\ s = <<>> => Append(s, x)[1] = x
<1>1. Append(s, x) \in Seq(S) /\ Len(Append(s, x)) = Len(s) + 1 /\ Len(s) \in Nat
  OBVIOUS
<1>2. s # <<>> => Len(s) >= 1 /\ Append(s, x)[1] = s[1]
  OBVIOUS
<1>3. s = <<>> => Append(s, x)[1] = x
  OBVIOUS
<1>4. Append(s, x) # <<>>
  <2>1. ASSUME Append(s, x) = <<>> PROVE FALSE
    <3> DEFINE a == Append(s, x)
    <3>1. Len(a) = Len(s) + 1 /\ Len(s) \in Nat
      BY <1>1
    <3>2. Len(a) = 0
      BY <2>1
    <3> QED
      BY <3>1, <3>2
  <2> QED
    BY <2>1
<1> QED
  BY <1>1, <1>2, <1>3, <1>4

\* Compiled yields tokens, of which the first is the first of the segment.
LEMMA CompiledTyped ==
  ASSUME NEW segment \in Seq(Tokens)
  PROVE  /\ Compiled(segment) \in Seq(Tokens)
         /\ segment # <<>> => Compiled(segment) # <<>> /\ Compiled(segment)[1] = segment[1]
<1> DEFINE m == Len(segment)
<1>1. m \in Nat /\ \A k \in 1..m : segment[k] \in Tokens
  OBVIOUS
<1>2. PICK front : /\ front[0] = <<>>
                   /\ \A n \in 1..m : front[n] = Collapse(front[n - 1], segment[n])
                   /\ Compiled(segment) = front[m]
  BY CompiledSteps
<1> DEFINE Good(n) == /\ front[n] \in Seq(Tokens)
                      /\ n # 0 => front[n] # <<>> /\ front[n][1] = segment[1]
                      /\ n = 0 => front[n] = <<>>
           S == {n \in 0..m : Good(n)}
<1>3. 0 \in S
  <2>1. front[0] \in Seq(Tokens)
    BY <1>2
  <2>2. Good(0) /\ 0 \in 0..m
    BY <1>1, <1>2, <2>1
  <2> QED
    BY <2>2
<1>4. ASSUME NEW n \in 0..m - 1, n \in S PROVE n + 1 \in S
  <2> DEFINE f == front[n]
             t == segment[n + 1]
  <2>1. n + 1 \in 1..m /\ (n + 1) - 1 = n /\ n + 1 # 0
    BY <1>1
  <2>2. front[n + 1] = Collapse(f, t) /\ t \in Tokens /\ f \in Seq(Tokens)
    BY <1>1, <1>2, <1>4, <2>1
  <2>3. n # 0 => f # <<>> /\ f[1] = segment[1]
    BY <1>4
  <2>4. n = 0 => f = <<>> /\ t = segment[1]
    BY <1>4
  <2>5. \/ f # <<>> /\ Collapse(f, t) = f
        \/ Collapse(f, t) = Append(f, t)
    BY DEF Collapse
  <2> HIDE DEF f, t, m
  <2>6. Append(f, t) \in Seq(Tokens) /\ Append(f, t) # <<>>
        /\ (f # <<>> => Append(f, t)[1] = f[1]) /\ (f = <<>> => Append(f, t)[1] = t)
    BY <2>2, AppendFirst
  <2>7. Good(n + 1)
    BY <2>1, <2>2, <2>3, <2>4, <2>5, <2>6
  <2> HIDE DEF Good
  <2> QED
    BY <1>1, <2>1, <2>7
<1> HIDE DEF S, m
<1>5. m \in S
  <2>1. \A n \in 0..m - 1 : n \in S => n + 1 \in S
    BY <1>4
  <2>2. \A n \in 0..m : n \in S
    BY <1>1, <1>3, <2>1, InductionUpTo
  <2> QED
    BY <1>1, <2>2
<1>6. segment # <<>> => m # 0
  BY DEF m
<1> QED
  BY <1>2, <1>5, <1>6 DEF S

\* The same as SpanOfLast, from the beginning.
LEMMA SpanFromStart ==
  ASSUME NEW name, Len(name) \in Nat, NEW segment, NEW j \in Nat, NEW e \in 0..Len(name)
  PROVE  SpanFromTo(name, segment, 0, j + 1, 0, e) <=>
           \E c \in 0..Len(name) : /\ SpanFromTo(name, segment, 0, j, 0, c)
                                   /\ Spans(name, segment[j + 1], c, e)
<1> DEFINE i == 0
<1>1. i \in Nat /\ i \in 0..Len(name) /\ i <= j
  OBVIOUS
<1> HIDE DEF i
<1>2. SpanFromTo(name, segment, i, j + 1, i, e) <=>
        \E c \in 0..Len(name) : /\ SpanFromTo(name, segment, i, j, i, c)
                                /\ Spans(name, segment[j + 1], c, e)
  BY <1>1, SpanOfLast
<1> QED
  BY <1>2 DEF i

\* Collapsing stars changes nothing of what a segment spans.
LEMMA CompiledSpansTheSame ==
  ASSUME NEW name, Len(name) \in Nat, NEW segment \in Seq(Tokens), NEW e \in 0..Len(name)
  PROVE  SpanFromTo(name, Compiled(segment), 0, Len(Compiled(segment)), 0, e) <=>
           SpanFromTo(name, segment, 0, Len(segment), 0, e)
<1> DEFINE m == Len(segment)
           len == Len(name)
           All(s, x) == SpanFromTo(name, s, 0, Len(s), 0, x)
           Upto(n, x) == SpanFromTo(name, segment, 0, n, 0, x)
<1>1. /\ m \in Nat /\ len \in Nat /\ 0 \in 0..len
      /\ \A k \in 1..m : segment[k] \in Tokens
  OBVIOUS
<1>2. PICK front : /\ front[0] = <<>>
                   /\ \A n \in 1..m : front[n] = Collapse(front[n - 1], segment[n])
                   /\ Compiled(segment) = front[m]
  BY CompiledSteps
<1> DEFINE Good(n) == front[n] \in Seq(Tokens) /\ \A x \in 0..len : All(front[n], x) <=> Upto(n, x)
           S == {n \in 0..m : Good(n)}
<1>3. 0 \in S
  <2>1. front[0] \in Seq(Tokens) /\ Len(front[0]) = 0
    BY <1>2
  <2>2. ASSUME NEW x \in 0..len PROVE All(front[0], x) <=> Upto(0, x)
    <3>1. SpanFromTo(name, front[0], 0, 0, 0, x) <=> 0 = x
      BY <1>1, SpanOfNone
    <3>2. SpanFromTo(name, segment, 0, 0, 0, x) <=> 0 = x
      BY <1>1, SpanOfNone
    <3> QED
      BY <2>1, <3>1, <3>2
  <2> HIDE DEF All, Upto
  <2> QED
    BY <1>1, <2>1, <2>2
<1>4. ASSUME NEW n \in 0..m - 1, n \in S PROVE n + 1 \in S
  <2> DEFINE f == front[n]
             t == segment[n + 1]
             g == front[n + 1]
             l == Len(f)
  <2>1. n + 1 \in 1..m /\ (n + 1) - 1 = n /\ n \in Nat
    BY <1>1
  <2>2. g = Collapse(f, t) /\ t \in Tokens /\ f \in Seq(Tokens) /\ l \in Nat
    BY <1>1, <1>2, <1>4, <2>1
  <2>3. \A x \in 0..len : All(f, x) <=> Upto(n, x)
    BY <1>4
  <2> HIDE DEF f, t, g, m, len
  <2>4. ASSUME NEW x \in 0..len
        PROVE  Upto(n + 1, x) <=> \E c \in 0..len : Upto(n, c) /\ Spans(name, t, c, x)
    <3>1. SpanFromTo(name, segment, 0, n + 1, 0, x) <=>
            \E c \in 0..len : /\ SpanFromTo(name, segment, 0, n, 0, c)
                              /\ Spans(name, segment[n + 1], c, x)
      BY <1>1, <2>1, SpanFromStart DEF len
    <3> QED
      BY <3>1 DEF t
  <2>5. ASSUME NEW x \in 0..len
        PROVE  Upto(n + 1, x) <=> \E c \in 0..len : All(f, c) /\ Spans(name, t, c, x)
    <3> HIDE DEF All, Upto
    <3> QED
      BY <2>3, <2>4
  <2>6. CASE g = Append(f, t)
    <3>1. g \in Seq(Tokens) /\ Len(g) = l + 1 /\ g[l + 1] = t /\ \A k \in 1..l : g[k] = f[k]
      BY <2>2, <2>6 DEF l
    <3>2. ASSUME NEW x \in 0..len PROVE All(g, x) <=> Upto(n + 1, x)
      <4>1. SpanFromTo(name, g, 0, l + 1, 0, x) <=>
              \E c \in 0..len : /\ SpanFromTo(name, g, 0, l, 0, c)
                                /\ Spans(name, g[l + 1], c, x)
        BY <1>1, <2>2, SpanFromStart DEF len
      <4>2. \A c \in 0..len : SpanFromTo(name, g, 0, l, 0, c) <=> SpanFromTo(name, f, 0, l, 0, c)
        <5>1. \A k \in 0 + 1..l : g[k] = f[k]
          BY <3>1
        <5> QED
          BY <2>2, <5>1, SpanOfSame
      <4>3. All(g, x) <=> \E c \in 0..len : All(f, c) /\ Spans(name, t, c, x)
        BY <3>1, <4>1, <4>2 DEF l
      <4> HIDE DEF All, Upto
      <4> QED
        BY <2>5, <4>3
    <3> HIDE DEF All, Upto
    <3> QED
      BY <1>1, <2>1, <3>1, <3>2 DEF g, m
  <2>7. CASE g = f /\ f # <<>> /\ t.kind = "all" /\ f[l].kind = "all"
    <3>1. l # 0 /\ l - 1 \in Nat /\ (l - 1) + 1 = l
      BY <2>2, <2>7 DEF l
    <3>2. ASSUME NEW x \in 0..len
          PROVE  All(f, x) <=> \E c \in 0..len : SpanFromTo(name, f, 0, l - 1, 0, c) /\ c <= x
      <4> DEFINE k == l - 1
      <4>1. k \in Nat /\ k + 1 = l
        BY <3>1
      <4> HIDE DEF k
      <4>2. SpanFromTo(name, f, 0, k + 1, 0, x) <=>
              \E c \in 0..len : SpanFromTo(name, f, 0, k, 0, c) /\ Spans(name, f[k + 1], c, x)
        BY <1>1, <4>1, SpanFromStart DEF len
      <4>3. \A c : Spans(name, f[k + 1], c, x) <=> c <= x
        BY <2>7, <4>1 DEF Spans
      <4> QED
        BY <4>1, <4>2, <4>3 DEF k, l
    <3>3. ASSUME NEW x \in 0..len PROVE All(f, x) <=> Upto(n + 1, x)
      <4>1. \A c : Spans(name, t, c, x) <=> c <= x
        BY <2>7 DEF Spans
      <4>2. Upto(n + 1, x) <=> \E c \in 0..len : All(f, c) /\ c <= x
        <5> HIDE DEF All, Upto
        <5> QED
          BY <2>5, <4>1
      <4>3. ASSUME NEW c \in 0..len, All(f, c), c <= x PROVE All(f, x)
        <5> DEFINE P(b) == SpanFromTo(name, f, 0, l - 1, 0, b)
        <5>1. PICK b \in 0..len : P(b) /\ b <= c
          BY <3>2, <4>3
        <5>2. b <= x
          BY <1>1, <4>3, <5>1
        <5> QED
          BY <3>2, <5>1, <5>2
      <4>4. x <= x
        BY <1>1
      <4> HIDE DEF All, Upto
      <4> QED
        BY <4>2, <4>3, <4>4
    <3> HIDE DEF All, Upto
    <3> QED
      BY <1>1, <2>1, <2>2, <2>7, <3>3 DEF g, m
  <2>8. \/ g = Append(f, t)
        \/ g = f /\ f # <<>> /\ t.kind = "all" /\ f[l].kind = "all"
    BY <2>2 DEF Collapse, l
  <2> QED
    BY <2>6, <2>7, <2>8
<1> HIDE DEF S, m
<1>5. m \in S
  <2>1. \A n \in 0..m - 1 : n \in S => n + 1 \in S
    BY <1>4
  <2>2. \A n \in 0..m : n \in S
    BY <1>1, <1>3, <2>1, InductionUpTo
  <2> QED
    BY <1>1, <2>2
<1>6. All(front[m], e) <=> Upto(m, e)
  <2> HIDE DEF All, Upto
  <2> QED
    BY <1>5 DEF S
<1> QED
  BY <1>2, <1>6 DEF m

\* A name is read and stands in the list exactly if it matches: the stars that are
\* collapsed, the recursion over the stars and the test for an initial dot come to
\* the same as the definition of what a segment accepts.
THEOREM MatchIsAcceptance ==
  ASSUME NEW name \in Seq(Characters), NEW segment \in Segments
  PROVE  ShowsDots(name, Compiled(segment)) /\ Match(name, Compiled(segment)) <=>
           Accepts(name, segment)
<1> DEFINE compiled == Compiled(segment)
           len == Len(name)
<1>1. segment \in Seq(Tokens) /\ segment # <<>> /\ Len(segment) \in Nat \ {0} /\ segment[1] \in Tokens
  BY DEF Segments
<1>2. compiled \in Seq(Tokens) /\ compiled # <<>> /\ compiled[1] = segment[1]
  BY <1>1, CompiledTyped
<1>3. Match(name, compiled) <=> SpanFromTo(name, segment, 0, Len(segment), 0, len)
  <2>1. Match(name, compiled) <=> SpanFromTo(name, compiled, 0, Len(compiled), 0, len)
    <3> HIDE DEF compiled
    <3> QED
      BY <1>2, MatchIsSpan
  <2>2. len \in Nat /\ len \in 0..len
    OBVIOUS
  <2> QED
    BY <1>1, <2>1, <2>2, CompiledSpansTheSame
<1>4. SpanFromTo(name, segment, 0, Len(segment), 0, len) <=>
        \E cut \in [0..Len(segment) -> 0..len] :
          /\ cut[0] = 0 /\ cut[Len(segment)] = len
          /\ \A k \in 1..Len(segment) :
               IF segment[k].kind = "all" THEN cut[k - 1] <= cut[k]
               ELSE cut[k] = cut[k - 1] + 1 /\ name[cut[k]] \in Stands(segment[k])
  <2>1. 0 + 1 = 1
    OBVIOUS
  <2> QED
    BY <2>1 DEF SpanFromTo, Spans
<1>5. ShowsDots(name, compiled) <=> (name[1] = Dot => segment[1] = [kind |-> "char", chars |-> {Dot}])
  <2>1. Head(compiled) = segment[1] /\ Head(name) = name[1]
    BY <1>2
  <2>2. segment[1].kind = "char" /\ Dot \in segment[1].chars <=>
          segment[1] = [kind |-> "char", chars |-> {Dot}]
    <3>1. ASSUME segment[1].kind = "char", Dot \in segment[1].chars
          PROVE  segment[1] = [kind |-> "char", chars |-> {Dot}]
      <4>1. segment[1] \in [kind : {"char"}, chars : {{c} : c \in Characters}]
        BY <1>1, <3>1 DEF Tokens
      <4>2. segment[1].chars = {Dot}
        BY <3>1, <4>1
      <4> QED
        BY <4>1, <4>2
    <3> QED
      BY <3>1
  <2> QED
    BY <2>1, <2>2 DEF ShowsDots
<1> QED
  BY <1>3, <1>4, <1>5 DEF Accepts

-----------------------------------------------------------------------------
(* What glob0 is given                                                     *)

\* A product grows with its factors.
LEMMA ProductGrows ==
  ASSUME NEW n \in Nat, NEW a \in Int, NEW b \in Int, a <= b
  PROVE  a * n <= b * n
OBVIOUS

\* The index of one of l * n pairs, split into the indices of its parts.
LEMMA PairIndices ==
  ASSUME NEW n \in Nat, n > 0, NEW l \in Nat, NEW k \in 1..l * n
  PROVE  (k - 1) \div n + 1 \in 1..l /\ ((k - 1) % n) + 1 \in 1..n
<1> DEFINE i == k - 1
           q == i \div n
           r == i % n
<1>1. i \in Nat /\ i < l * n
  OBVIOUS
<1> HIDE DEF i
<1>2. q \in Int /\ r \in 0..n - 1 /\ i = q * n + r
  BY <1>1
<1> HIDE DEF q, r
<1>3. q >= 0
  <2>1. ASSUME q <= -1 PROVE FALSE
    <3>1. q * n <= (-1) * n
      BY <1>2, <2>1, ProductGrows
    <3>2. q * n \in Int
      BY <1>2
    <3> QED
      BY <1>1, <1>2, <3>1, <3>2
  <2> QED
    BY <1>2, <2>1
<1>4. q < l
  <2>1. ASSUME l <= q PROVE FALSE
    <3>1. l * n <= q * n
      BY <1>2, <2>1, ProductGrows
    <3>2. q * n \in Int /\ l * n \in Int
      BY <1>2
    <3> QED
      BY <1>1, <1>2, <3>1, <3>2
  <2> QED
    BY <1>2, <2>1
<1>5. q + 1 \in 1..l /\ r + 1 \in 1..n
  BY <1>2, <1>3, <1>4
<1> QED
  BY <1>5 DEF i, q, r

\* globexp1 and globexp2 make patterns of segments.
LEMMA WithNextTyped ==
  ASSUME NEW fronts \in Seq(Seq(Segments)), NEW e \in Elements, e.kind # "open"
  PROVE  WithNext(fronts, e) \in Seq(Seq(Segments))
<1>1. CASE e.kind = "segment"
  <2>1. e.of \in Segments
    BY <1>1 DEF Elements
  <2>2. WithNext(fronts, e) = [k \in 1..Len(fronts) |-> Append(fronts[k], e.of)]
    BY <1>1 DEF WithNext
  <2>3. \A k \in 1..Len(fronts) : Append(fronts[k], e.of) \in Seq(Segments)
    <3>1. ASSUME NEW k \in 1..Len(fronts) PROVE Append(fronts[k], e.of) \in Seq(Segments)
      <4>1. fronts[k] \in Seq(Segments)
        OBVIOUS
      <4> QED
        BY <2>1, <4>1
    <3> QED
      BY <3>1
  <2> QED
    BY <2>2, <2>3
<1>2. CASE e.kind # "segment"
  <2> DEFINE n == Len(e.of)
             l == Len(fronts)
             Part(k) == fronts[(k - 1) \div n + 1] \o e.of[((k - 1) % n) + 1]
  <2>1. e.of \in Seq(Seq(Segments)) /\ e.of # <<>>
    BY <1>2 DEF Elements
  <2>2. n \in Nat /\ n > 0 /\ l \in Nat
    BY <2>1
  <2>3. WithNext(fronts, e) = [k \in 1..l * n |-> Part(k)]
    BY <1>2 DEF WithNext
  <2>4. l * n \in Nat
    <3>1. 0 * n <= l * n
      <4> HIDE DEF n, l
      <4> QED
        BY <2>2, ProductGrows
    <3> HIDE DEF n, l
    <3> QED
      BY <2>2, <3>1
  <2>5. ASSUME NEW k \in 1..l * n PROVE Part(k) \in Seq(Segments)
    <3> DEFINE i == (k - 1) \div n + 1
               j == ((k - 1) % n) + 1
    <3>1. i \in 1..l /\ j \in 1..n
      <4> HIDE DEF n, l
      <4> QED
        BY <2>2, PairIndices
    <3> HIDE DEF i, j
    <3>2. fronts[i] \in Seq(Segments) /\ e.of[j] \in Seq(Segments)
      BY <2>1, <3>1
    <3>3. fronts[i] \o e.of[j] \in Seq(Segments)
      BY <3>2
    <3> QED
      BY <3>3 DEF i, j
  <2> HIDE DEF n, l, Part
  <2>6. [k \in 1..l * n |-> Part(k)] \in Seq(Seq(Segments))
    BY <2>4, <2>5
  <2> QED
    BY <2>3, <2>6
<1> QED
  BY <1>1, <1>2

\* The part of a pattern before a brace that is not closed.
LEMMA UpToOpenBraceTyped ==
  ASSUME NEW pattern \in Seq(Elements)
  PROVE  /\ UpToOpenBrace(pattern) \in Seq(Elements)
         /\ \A j \in 1..Len(UpToOpenBrace(pattern)) :
              /\ UpToOpenBrace(pattern)[j].kind # "open"
              /\ j \in DOMAIN pattern /\ UpToOpenBrace(pattern)[j] = pattern[j]
<1> DEFINE m == Len(pattern)
           Open == {j \in 1..m : pattern[j].kind = "open"}
           Here(n) == /\ \A j \in 1..n : pattern[j].kind # "open"
                      /\ n = m \/ pattern[n + 1].kind = "open"
           n == CHOOSE n \in 0..m : Here(n)
<1>1. m \in Nat
  OBVIOUS
<1>2. \E k \in 0..m : Here(k)
  <2>1. CASE Open = {}
    <3>1. m \in 0..m /\ Here(m)
      BY <1>1, <2>1
    <3> QED
      BY <3>1
  <2>2. CASE Open # {}
    <3>1. Open \in SUBSET Nat
      OBVIOUS
    <3>2. PICK k \in Open : \A j \in Open : k <= j
      <4> HIDE DEF Open
      <4> QED
        BY <2>2, <3>1, LeastNumber
    <3>3. k \in 1..m /\ pattern[k].kind = "open" /\ k - 1 \in 0..m /\ (k - 1) + 1 = k
      OBVIOUS
    <3>4. \A j \in 1..k - 1 : pattern[j].kind # "open"
      BY <1>1, <3>2, <3>3
    <3>5. Here(k - 1)
      BY <3>3, <3>4
    <3> QED
      BY <3>3, <3>5
  <2> QED
    BY <2>1, <2>2
<1>3. n \in 0..m /\ Here(n)
  <2> HIDE DEF Here
  <2> QED
    BY <1>2
<1>4. UpToOpenBrace(pattern) = SubSeq(pattern, 1, n)
  BY DEF UpToOpenBrace
<1> HIDE DEF n
<1>5. /\ SubSeq(pattern, 1, n) \in Seq(Elements) /\ Len(SubSeq(pattern, 1, n)) = n
      /\ \A j \in 1..n : SubSeq(pattern, 1, n)[j] = pattern[j]
  <2> HIDE DEF Here
  <2> QED
    BY <1>1, <1>3
<1> QED
  BY <1>3, <1>4, <1>5

\* What is expanded is a list of patterns without braces.
LEMMA ExpandTyped ==
  ASSUME NEW pattern \in Seq(Elements)
  PROVE  Expand(pattern) \in Seq(Seq(Segments))
<1> DEFINE closed == UpToOpenBrace(pattern)
           m == Len(closed)
<1>1. closed \in Seq(Elements) /\ \A j \in 1..m : closed[j].kind # "open"
  BY UpToOpenBraceTyped
<1>2. PICK fronts : /\ fronts[0] = <<<<>>>>
                    /\ \A n \in 1..m : fronts[n] = WithNext(fronts[n - 1], closed[n])
                    /\ Expand(pattern) = fronts[m]
  BY <1>1, ExpandSteps
<1>3. m \in Nat /\ \A n \in 1..m : closed[n] \in Elements
  BY <1>1
<1> HIDE DEF closed, m
<1> DEFINE S == {n \in 0..m : fronts[n] \in Seq(Seq(Segments))}
<1>4. 0 \in S
  <2>1. <<<<>>>> \in Seq(Seq(Segments))
    <3>1. <<>> \in Seq(Segments)
      OBVIOUS
    <3> DEFINE empty == <<>>
    <3> HIDE DEF empty
    <3>2. <<empty>> \in Seq({empty})
      OBVIOUS
    <3>3. \A T : empty \in T => <<empty>> \in Seq(T)
      BY <3>2
    <3> QED
      BY <3>1, <3>3 DEF empty
  <2> DEFINE start == <<<<>>>>
  <2>2. fronts[0] = start
    BY <1>2
  <2> HIDE DEF start
  <2>3. fronts[0] \in Seq(Seq(Segments))
    BY <2>1, <2>2 DEF start
  <2>4. 0 \in 0..m
    BY <1>3
  <2> QED
    BY <2>3, <2>4
<1>5. ASSUME NEW n \in 0..m - 1, n \in S PROVE n + 1 \in S
  <2>1. n + 1 \in 1..m /\ (n + 1) - 1 = n /\ n + 1 \in 0..m
    BY <1>3
  <2>2. fronts[n + 1] = WithNext(fronts[n], closed[n + 1])
    BY <1>2, <2>1
  <2>3. fronts[n + 1] \in Seq(Seq(Segments))
    BY <1>1, <1>3, <1>5, <2>1, <2>2, WithNextTyped
  <2> QED
    BY <2>1, <2>3
<1>6. m \in S
  <2> HIDE DEF S
  <2>1. \A n \in 0..m : n \in S
    BY <1>3, <1>4, <1>5, InductionUpTo
  <2> QED
    BY <1>3, <2>1
<1> QED
  BY <1>2, <1>6

\* The array holds gl_offs cells, gl_pathc paths and the NULL behind them.  There is
\* one as soon as the current alternative has an entry.
ArrayHasRoom ==
  pathv # NULL \/ (pc = "walk" /\ pathc # oldpathc) =>
    \E n \in Nat : /\ n >= offs + pathc + 1
                   /\ DOMAIN pathv = 1..n

\* The entries from oldpathc on are those of the current alternative, and the ones
\* from `before' on those of the current call.
Counts ==
  /\ offs \in Nat /\ pathc \in Nat /\ before \in Nat /\ oldpathc \in Nat /\ calls \in Nat
  /\ before <= pathc
  /\ pc = "walk" => before <= oldpathc /\ oldpathc <= pathc

IInv == Counts /\ ArrayHasRoom

\* What a step keeps of the array, as far as the entries of earlier calls go.
OldEntriesKept ==
  pathv # NULL /\ pathv' # NULL /\ calls' = calls =>
    \A j \in 1..offs + before : pathv'[j] = pathv[j]

-----------------------------------------------------------------------------
(* The array                                                               *)

\* A grown array has room for one more path, and all that was in it is still there.
LEMMA GrowingKeepsAll ==
  ASSUME IInv
  PROVE  /\ Grown \in [1..offs + pathc + 2 -> {Grown[j] : j \in 1..offs + pathc + 2}]
         /\ pathv # NULL => \A j \in 1..offs + pathc : Grown[j] = pathv[j]
<1>1. Grown \in [1..offs + pathc + 2 -> {Grown[j] : j \in 1..offs + pathc + 2}]
  BY DEF Grown
<1>2. ASSUME pathv # NULL, NEW j \in 1..offs + pathc PROVE Grown[j] = pathv[j]
  <2>1. j \in 1..offs + pathc + 2 /\ j <= offs + pathc + 1 /\ ~(j > offs + pathc + 1)
    BY DEF IInv, Counts
  <2> QED
    BY <1>2, <2>1 DEF Grown
<1> QED
  BY <1>1, <1>2

\* Only the last two cells of a grown array are written.
LEMMA StoringKeepsTheRest ==
  ASSUME IInv, NEW path, NEW array \in {Stored(Grown, path), NotStored(Grown)}
  PROVE  /\ DOMAIN array = 1..offs + pathc + 2
         /\ pathv # NULL => \A j \in 1..offs + pathc : array[j] = pathv[j]
<1>1. DOMAIN Grown = 1..offs + pathc + 2
  BY GrowingKeepsAll
<1>2. DOMAIN array = 1..offs + pathc + 2
  BY <1>1 DEF Stored, NotStored
<1>3. \A j \in 1..offs + pathc : array[j] = Grown[j]
  <2> SUFFICES ASSUME NEW j \in 1..offs + pathc PROVE array[j] = Grown[j]
    OBVIOUS
  <2>1. j \in DOMAIN Grown /\ j # offs + pathc + 1 /\ j # offs + pathc + 2
    BY <1>1 DEF IInv, Counts
  <2> QED
    BY <2>1 DEF Stored, NotStored
<1> QED
  BY <1>2, <1>3, GrowingKeepsAll

\* Sorting stays inside the entries of the current alternative.
LEMMA SortingKeepsTheRest ==
  ASSUME IInv, pc = "walk", NEW order
  PROVE  /\ DOMAIN Sorted(order) = DOMAIN pathv
         /\ \A j \in DOMAIN pathv :
              j \in Nat /\ j <= offs + before => Sorted(order)[j] = pathv[j]
<1>1. DOMAIN Sorted(order) = DOMAIN pathv
  BY DEF Sorted
<1>2. ASSUME NEW j \in DOMAIN pathv, j <= offs + before, j \in Nat
      PROVE  Sorted(order)[j] = pathv[j]
  <2>1. j \notin SortedCells
    BY <1>2 DEF IInv, Counts, SortFrom, SortedCells
  <2> QED
    BY <2>1 DEF Sorted
<1> QED
  BY <1>1, <1>2

\* globextend with a path preserves the invariant and the old entries.
LEMMA AddingKeepsIInv ==
  ASSUME IInv, NEW path, AddPath(path), UNCHANGED <<offs, before, oldpathc, calls>>,
         pc' # "walk" \/ pc = "walk"
  PROVE  IInv' /\ OldEntriesKept
<1>1. pathc' = pathc + 1 /\ pathv' = Stored(Grown, path)
  BY DEF AddPath
<1>2. Counts'
  BY <1>1 DEF IInv, Counts
<1>3. DOMAIN pathv' = 1..offs + pathc + 2
  BY <1>1, StoringKeepsTheRest
<1>4. ArrayHasRoom'
  <2>1. offs + pathc + 2 \in Nat /\ offs + pathc + 2 >= offs' + pathc' + 1
    BY <1>1 DEF IInv, Counts
  <2> QED
    BY <1>3, <2>1 DEF ArrayHasRoom
<1>5. OldEntriesKept
  BY <1>1, StoringKeepsTheRest DEF IInv, Counts, OldEntriesKept
<1> QED
  BY <1>2, <1>4, <1>5 DEF IInv

\* globextend that fails preserves them too, as far as there is still a list.
LEMMA FailingKeepsIInv ==
  ASSUME IInv, CannotAdd, UNCHANGED <<offs, before, oldpathc, calls>>,
         pc' = "next"
  PROVE  IInv' /\ OldEntriesKept
<1>1. Counts' /\ UNCHANGED pathc
  BY DEF CannotAdd, IInv, Counts
<1>2. CASE UNCHANGED pathv
  BY <1>1, <1>2 DEF IInv, ArrayHasRoom, OldEntriesKept
<1>3. CASE pathv' = NULL
  BY <1>1, <1>3 DEF IInv, ArrayHasRoom, OldEntriesKept
<1>4. CASE pathv' = NotStored(Grown)
  <2>1. DOMAIN pathv' = 1..offs + pathc + 2
    BY <1>4, StoringKeepsTheRest
  <2>2. offs + pathc + 2 \in Nat /\ offs + pathc + 2 >= offs' + pathc' + 1
    BY <1>1 DEF IInv, Counts
  <2>3. ArrayHasRoom'
    BY <2>1, <2>2 DEF ArrayHasRoom
  <2>4. OldEntriesKept
    BY <1>4, StoringKeepsTheRest DEF IInv, Counts, OldEntriesKept
  <2> QED
    BY <1>1, <2>3, <2>4 DEF IInv
<1> QED
  BY <1>2, <1>3, <1>4 DEF CannotAdd

-----------------------------------------------------------------------------
(* The steps                                                               *)

\* The invariant holds of an empty list.
LEMMA InitIInv == Init => IInv
BY DEF Init, IInv, Counts, ArrayHasRoom

\* A new call preserves the invariant.
LEMMA CallKeepsIInv == ASSUME IInv, Glob PROVE IInv' /\ OldEntriesKept
<1>1. calls' = calls + 1 /\ before' = pathc' /\ pc' = "next" /\ UNCHANGED oldpathc
  BY DEF Glob
<1>2. CASE UNCHANGED <<pathv, pathc, offs>>
  BY <1>1, <1>2 DEF IInv, Counts, ArrayHasRoom, OldEntriesKept
<1>3. CASE pathc' = 0 /\ pathv' = NULL /\ offs' \in Offsets
  <2>1. offs' \in Nat
    BY <1>3, GlobAssumption
  <2> QED
    BY <1>1, <1>3, <2>1 DEF IInv, Counts, ArrayHasRoom, OldEntriesKept
<1> QED
  BY <1>2, <1>3 DEF Glob

\* Sorting the new entries preserves the invariant and the old ones.
LEMMA MatchedKeepsIInv == ASSUME IInv, Matched PROVE IInv' /\ OldEntriesKept
<1>1. UNCHANGED <<pathc, offs, before, oldpathc, calls>> /\ pc = "walk" /\ pc' = "next"
  BY DEF Matched, WalkEnds, EndGlob0, history
<1>2. pathv' = pathv \/ \E order \in Orders : pathv' = Sorted(order)
  BY DEF Matched
<1>3. Counts'
  BY <1>1 DEF IInv, Counts
<1>4. PICK n \in Nat : n >= offs + pathc + 1 /\ DOMAIN pathv = 1..n
  BY <1>1 DEF Matched, IInv, ArrayHasRoom
<1>5. DOMAIN pathv' = 1..n
  BY <1>1, <1>2, <1>4, SortingKeepsTheRest
<1>6. ArrayHasRoom'
  BY <1>1, <1>4, <1>5 DEF ArrayHasRoom
<1>7. \A j \in 1..offs + before : j \in DOMAIN pathv /\ j <= offs + before /\ j \in Nat
  BY <1>4 DEF IInv, Counts
<1>8. OldEntriesKept
  BY <1>1, <1>2, <1>7, SortingKeepsTheRest DEF OldEntriesKept
<1> QED
  BY <1>3, <1>6, <1>8 DEF IInv

\* All other steps leave the array and the counts alone.
LEMMA WalkingKeepsIInv ==
  ASSUME IInv,
         \/ Return \/ NextSegment \/ NoSuchFile \/ OpenDir \/ SkipDir \/ Abort \/ ReadDir \/ CloseDir
         \/ NoMatch
  PROVE  IInv' /\ OldEntriesKept
<1>1. UNCHANGED <<pathv, pathc, offs, before, oldpathc, calls>> /\ (pc' = "walk" => pc = "walk")
  BY DEF Return, NextSegment, NoSuchFile, OpenDir, SkipDir, Abort, ReadDir, CloseDir, NoMatch, list,
         history, EndGlob0
<1> QED
  BY <1>1 DEF IInv, Counts, ArrayHasRoom, OldEntriesKept

\* Every step of glob.c preserves the invariant and the old entries.
LEMMA StepKeepsIInv == IInv /\ [Next]_vars => IInv' /\ OldEntriesKept
<1> SUFFICES ASSUME IInv, [Next]_vars PROVE IInv' /\ OldEntriesKept
  OBVIOUS
<1>1. CASE Glob
  BY <1>1, CallKeepsIInv
<1>2. CASE Glob0
  BY <1>2 DEF Glob0, list, history, IInv, Counts, ArrayHasRoom, OldEntriesKept
<1>3. CASE FileFound
  BY <1>3, AddingKeepsIInv DEF FileFound, AtEnd, history
<1>4. CASE PatternAdded
  BY <1>4, AddingKeepsIInv DEF PatternAdded, WalkEnds, history
<1>5. CASE FileNotAdded \/ PatternNotAdded
  BY <1>5, FailingKeepsIInv DEF FileNotAdded, PatternNotAdded, EndGlob0, history
<1>6. CASE Matched
  BY <1>6, MatchedKeepsIInv
<1>7. CASE \/ Return \/ NextSegment \/ NoSuchFile \/ OpenDir \/ SkipDir \/ Abort \/ ReadDir \/ CloseDir
           \/ NoMatch
  BY <1>7, WalkingKeepsIInv
<1>8. CASE GlobFree
  BY <1>8 DEF GlobFree, IInv, Counts, ArrayHasRoom, OldEntriesKept
<1>9. CASE UNCHANGED vars
  BY <1>9 DEF vars, IInv, Counts, ArrayHasRoom, OldEntriesKept
<1> QED
  BY <1>1, <1>2, <1>3, <1>4, <1>5, <1>6, <1>7, <1>8, <1>9 DEF Next

-----------------------------------------------------------------------------
(* What the variables of the walk and the cells of the array hold          *)

Cells == GlobPaths \cup {NULL, Garbage}

OpenDirs ==
  [path : GlobPaths, unread : SUBSET Seq(Characters), rest : Seq(Segments) \ {<<>>}]

\* Only a call in progress walks, and it walks for the first of the alternatives
\* that are left.
WalkTyped ==
  /\ call.pattern \in Seq(Elements)
  /\ todo \in Seq(Seq(Segments))
  /\ visit \in Visits \cup {NULL}
  /\ stack \in Seq(OpenDirs)
  /\ pc \in {"idle", "next", "walk"}
  /\ pc # "idle" => calls > 0
  /\ pc = "walk" => todo # <<>>

ArrayTyped ==
  /\ pathv \in {NULL} \cup Seq(Cells)
  /\ pc = "walk" /\ pathc # oldpathc => pathv # NULL
  /\ lost \in Nat

\* The cells that nothing was written to are those of lost paths, which qsort does
\* not reach, and those behind the NULL that ends the list.
ListWhole ==
  calls > 0 =>
    /\ pathv = NULL => pathc = lost
    /\ pathv # NULL =>
         /\ lost <= pathc
         /\ \A j \in 1..offs : pathv[j] = NULL
         /\ \A j \in offs + 1..offs + lost : pathv[j] = Garbage
         /\ \A j \in offs + lost + 1..offs + pathc : pathv[j] \in GlobPaths
         /\ pathv[offs + pathc + 1] = NULL
    /\ pc = "walk" => lost <= oldpathc

ListInv == IInv /\ WalkTyped /\ ArrayTyped /\ ListWhole

\* A name, and what a segment without meta characters says, can be put behind a path.
LEMMA LongerPath ==
  ASSUME NEW path \in GlobPaths, NEW name \in Seq(Characters \cup {MetaCharacter})
  PROVE  Append(path, name) \in GlobPaths
BY DEF GlobPaths

LEMMA NamesArePathNames ==
  ASSUME NEW name \in Seq(Characters)
  PROVE  name \in Seq(Characters \cup {MetaCharacter})
OBVIOUS

\* The pattern as it was given can stand in the list.
LEMMA AsGivenTyped ==
  ASSUME NEW pattern \in Seq(Segments)
  PROVE  AsGiven(pattern) \in GlobPaths
<1> DEFINE Text(segment) == [k \in DOMAIN segment |->
                               IF segment[k].kind = "char" THEN CHOOSE c \in segment[k].chars : TRUE
                               ELSE MetaCharacter]
           All == Characters \cup {MetaCharacter}
<1>1. ASSUME NEW segment \in Segments PROVE Text(segment) \in Seq(All)
  <2>1. segment \in Seq(Tokens)
    BY DEF Segments
  <2>2. ASSUME NEW k \in 1..Len(segment), segment[k].kind = "char"
        PROVE  (CHOOSE c \in segment[k].chars : TRUE) \in Characters
    <3>1. segment[k] \in Tokens
      BY <2>1
    <3>2. \E c \in Characters : segment[k].chars = {c}
      BY <2>2, <3>1 DEF Tokens
    <3> QED
      BY <3>2
  <2>3. \A k \in 1..Len(segment) : Text(segment)[k] \in All
    BY <2>1, <2>2
  <2>4. Text(segment) \in [1..Len(segment) -> All] /\ Len(segment) \in Nat
    BY <2>1, <2>2
  <2> HIDE DEF Text
  <2> QED
    BY <2>4
<1>2. \A j \in 1..Len(pattern) : Text(pattern[j]) \in Seq(All)
  <2>1. \A j \in 1..Len(pattern) : pattern[j] \in Segments
    OBVIOUS
  <2> HIDE DEF Text, All
  <2> QED
    BY <1>1, <2>1
<1>3. AsGiven(pattern) = [j \in 1..Len(pattern) |-> Text(pattern[j])]
  <2>1. DOMAIN pattern = 1..Len(pattern)
    OBVIOUS
  <2> QED
    BY <2>1 DEF AsGiven
<1> HIDE DEF Text
<1>4. [j \in 1..Len(pattern) |-> Text(pattern[j])] \in Seq(Seq(All))
  <2>1. Len(pattern) \in Nat
    OBVIOUS
  <2> HIDE DEF All
  <2> QED
    BY <1>2, <2>1
<1> QED
  BY <1>3, <1>4 DEF GlobPaths

\* So can a segment without meta characters stand for a name.
LEMMA LiteralTyped ==
  ASSUME NEW segment \in Segments
  PROVE  Literal(segment) \in Seq(Characters \cup {MetaCharacter})
<1>1. <<segment>> \in Seq(Segments) /\ Len(<<segment>>) = 1
  OBVIOUS
<1>2. AsGiven(<<segment>>) \in GlobPaths
  BY <1>1, AsGivenTyped
<1>3. DOMAIN AsGiven(<<segment>>) = 1..1
  BY <1>1 DEF AsGiven
<1>4. AsGiven(<<segment>>)[1] \in Seq(Characters \cup {MetaCharacter})
  BY <1>2, <1>3 DEF GlobPaths
<1> QED
  BY <1>4 DEF Literal

\* What glob0 compiles is a pattern again.
LEMMA CompiledPatternTyped ==
  ASSUME NEW pattern \in Seq(Segments)
  PROVE  [j \in DOMAIN pattern |-> Compiled(pattern[j])] \in Seq(Segments)
<1>1. ASSUME NEW j \in 1..Len(pattern) PROVE Compiled(pattern[j]) \in Segments
  <2>1. pattern[j] \in Seq(Tokens) /\ pattern[j] # <<>>
    BY DEF Segments
  <2> DEFINE segment == pattern[j]
  <2> HIDE DEF segment
  <2>2. segment \in Seq(Tokens) /\ segment # <<>>
    BY <2>1 DEF segment
  <2>3. Compiled(segment) \in Seq(Tokens) /\ Compiled(segment) # <<>>
    BY <2>2, CompiledTyped
  <2> QED
    BY <2>3 DEF segment, Segments
<1>2. DOMAIN pattern = 1..Len(pattern) /\ Len(pattern) \in Nat
  OBVIOUS
<1>3. [j \in 1..Len(pattern) |-> Compiled(pattern[j])] \in Seq(Segments)
  BY <1>1, <1>2
<1> QED
  BY <1>2, <1>3

\* A call, and glob0, begin with what they are given.
LEMMA BeginKeepsWalkTyped == ASSUME WalkTyped, IInv, Glob \/ Glob0 PROVE WalkTyped'
<1>1. CASE Glob
  <2>1. PICK pattern \in Patterns : call'.pattern = pattern /\ todo' = Expand(pattern)
    BY <1>1 DEF Glob
  <2>2. pattern \in Seq(Elements)
    BY GlobAssumption
  <2>3. todo' \in Seq(Seq(Segments))
    BY <2>1, <2>2, ExpandTyped
  <2>4. calls' = calls + 1 /\ pc' = "next" /\ UNCHANGED <<visit, stack>> /\ calls \in Nat
    BY <1>1 DEF Glob, IInv, Counts
  <2> QED
    BY <2>1, <2>2, <2>3, <2>4 DEF WalkTyped
<1>2. CASE Glob0
  <2> DEFINE rest == [j \in DOMAIN Head(todo) |-> Compiled(Head(todo)[j])]
  <2>1. Head(todo) \in Seq(Segments)
    BY <1>2 DEF Glob0, WalkTyped
  <2>2. rest \in Seq(Segments)
    <3> DEFINE pattern == Head(todo)
    <3> HIDE DEF pattern
    <3>1. [j \in DOMAIN pattern |-> Compiled(pattern[j])] \in Seq(Segments)
      BY <2>1, CompiledPatternTyped DEF pattern
    <3> QED
      BY <3>1 DEF pattern
  <2>3. [path |-> <<>>, rest |-> rest] \in Visits
    <3>1. <<>> \in GlobPaths
      BY DEF GlobPaths
    <3> HIDE DEF rest
    <3> QED
      BY <2>2, <3>1 DEF Visits
  <2>4. visit' \in Visits \cup {NULL}
    BY <1>2, <2>3 DEF Glob0
  <2>5. /\ UNCHANGED <<call, todo, stack, calls>> /\ pc' = "walk" /\ todo # <<>> /\ pc = "next"
    BY <1>2 DEF Glob0, history
  <2> QED
    BY <2>4, <2>5 DEF WalkTyped
<1> QED
  BY <1>1, <1>2

\* When glob0 returns, the rest of the alternatives is left.
LEMMA EndKeepsWalkTyped ==
  ASSUME WalkTyped, pc = "walk", NEW rv, EndGlob0(rv), UNCHANGED <<call, calls>>
  PROVE  WalkTyped'
<1>1. todo' \in Seq(Seq(Segments))
  BY DEF WalkTyped, EndGlob0
<1>2. visit' = NULL /\ stack' = <<>> /\ pc' = "next"
  BY DEF EndGlob0
<1>3. stack' \in Seq(OpenDirs)
  BY <1>2
<1> QED
  BY <1>1, <1>2, <1>3 DEF WalkTyped

\* A step of glob2 and glob3 only goes on to another path or directory.
LEMMA WalkKeepsWalkTyped ==
  ASSUME WalkTyped, UNCHANGED <<call, todo, pc, calls>>, visit' \in Visits \cup {NULL},
         stack' \in Seq(OpenDirs)
  PROVE  WalkTyped'
BY DEF WalkTyped

LEMMA NextSegmentKeepsWalkTyped == ASSUME WalkTyped, NextSegment PROVE WalkTyped'
<1>1. visit \in Visits /\ visit.rest # <<>>
  BY DEF WalkTyped, NextSegment
<1>2. Head(visit.rest) \in Segments /\ Tail(visit.rest) \in Seq(Segments) /\ visit.path \in GlobPaths
  BY <1>1 DEF Visits
<1>3. Append(visit.path, Literal(Head(visit.rest))) \in GlobPaths
  BY <1>2, LiteralTyped, LongerPath
<1>4. visit' \in Visits
  BY <1>2, <1>3 DEF NextSegment, Visits
<1>5. UNCHANGED <<call, todo, pc, calls, stack>>
  BY DEF NextSegment, history
<1> QED
  BY <1>4, <1>5, WalkKeepsWalkTyped DEF WalkTyped

LEMMA OpenDirKeepsWalkTyped == ASSUME WalkTyped, OpenDir PROVE WalkTyped'
<1>1. visit \in Visits /\ visit.path \in DOMAIN Tree /\ visit.rest # <<>>
  BY DEF WalkTyped, OpenDir, AtMagic
<1>2. Tree[visit.path] \subseteq Seq(Characters)
  BY <1>1, GlobAssumption
<1> DEFINE dir == [path |-> visit.path, unread |-> Tree[visit.path], rest |-> visit.rest]
<1>3. dir \in OpenDirs
  BY <1>1, <1>2 DEF OpenDirs, Visits
<1>4. stack' = Append(stack, dir) /\ stack \in Seq(OpenDirs) /\ visit' = NULL
  BY DEF OpenDir, WalkTyped
<1>5. stack' \in Seq(OpenDirs)
  <2> HIDE DEF dir
  <2> QED
    BY <1>3, <1>4
<1>6. UNCHANGED <<call, todo, pc, calls>>
  BY DEF OpenDir, history
<1> QED
  BY <1>4, <1>5, <1>6, WalkKeepsWalkTyped

LEMMA ReadDirKeepsWalkTyped == ASSUME WalkTyped, ReadDir PROVE WalkTyped'
<1> DEFINE n == Len(stack)
           dir == stack[n]
<1>1. stack \in Seq(OpenDirs) /\ stack # <<>>
  BY DEF WalkTyped, ReadDir, Reading
<1>2. n \in 1..n /\ dir \in OpenDirs /\ Last(stack) = dir
  BY <1>1 DEF Last
<1>3. PICK name \in dir.unread :
        /\ stack' = [stack EXCEPT ![n].unread = @ \ {name}]
        /\ visit' = IF ShowsDots(name, Head(dir.rest)) /\ Match(name, Head(dir.rest))
                      THEN [path |-> Append(dir.path, name), rest |-> Tail(dir.rest)]
                      ELSE NULL
  BY <1>2 DEF ReadDir
<1>4. dir.path \in GlobPaths /\ name \in Seq(Characters) /\ dir.rest \in Seq(Segments)
  BY <1>2 DEF OpenDirs
<1>5. Append(dir.path, name) \in GlobPaths
  BY <1>4, LongerPath, NamesArePathNames
<1>6. [dir EXCEPT !.unread = @ \ {name}] \in OpenDirs
  BY <1>2 DEF OpenDirs
<1>7. stack' \in Seq(OpenDirs)
  <2>1. stack' = [stack EXCEPT ![n] = [dir EXCEPT !.unread = @ \ {name}]]
    BY <1>2, <1>3
  <2> QED
    BY <1>1, <1>2, <1>6, <2>1
<1>8. visit' \in Visits \cup {NULL}
  <2>1. Tail(dir.rest) \in Seq(Segments)
    BY <1>2 DEF OpenDirs
  <2>2. [path |-> Append(dir.path, name), rest |-> Tail(dir.rest)] \in Visits
    BY <1>5, <2>1 DEF Visits
  <2> QED
    BY <1>3, <2>2
<1>9. UNCHANGED <<call, todo, pc, calls>>
  BY DEF ReadDir, history
<1> QED
  BY <1>7, <1>8, <1>9, WalkKeepsWalkTyped

LEMMA CloseDirKeepsWalkTyped == ASSUME WalkTyped, CloseDir PROVE WalkTyped'
<1>1. stack \in Seq(OpenDirs) /\ stack # <<>> /\ stack' = SubSeq(stack, 1, Len(stack) - 1)
  BY DEF WalkTyped, CloseDir, Reading, Front
<1>2. stack' \in Seq(OpenDirs)
  BY <1>1
<1>3. UNCHANGED <<call, todo, pc, calls, visit>>
  BY DEF CloseDir, history
<1> QED
  BY <1>2, <1>3, WalkKeepsWalkTyped DEF WalkTyped

\* Every step keeps the walk in its shape.
LEMMA StepKeepsWalkTyped == ASSUME WalkTyped, IInv, [Next]_vars PROVE WalkTyped'
<1>1. CASE Glob \/ Glob0
  BY <1>1, BeginKeepsWalkTyped
<1>2. CASE Return
  BY <1>2 DEF Return, WalkTyped, history
<1>3. CASE NextSegment
  BY <1>3, NextSegmentKeepsWalkTyped
<1>4. CASE OpenDir
  BY <1>4, OpenDirKeepsWalkTyped
<1>5. CASE ReadDir
  BY <1>5, ReadDirKeepsWalkTyped
<1>6. CASE CloseDir
  BY <1>6, CloseDirKeepsWalkTyped
<1>7. CASE NoSuchFile \/ FileFound \/ SkipDir
  <2>1. UNCHANGED <<call, todo, pc, calls, stack>> /\ visit' = NULL
    BY <1>7 DEF NoSuchFile, FileFound, SkipDir, history
  <2> QED
    BY <2>1, WalkKeepsWalkTyped DEF WalkTyped
<1>8. CASE FileNotAdded \/ Abort \/ Matched \/ NoMatch \/ PatternAdded \/ PatternNotAdded
  <2>1. /\ UNCHANGED <<call, calls>> /\ pc = "walk"
        /\ \E rv \in {"0", "NOSPACE", "NOMATCH", "ABORTED"} : EndGlob0(rv)
    BY <1>8 DEF FileNotAdded, Abort, Matched, NoMatch, PatternAdded, PatternNotAdded, history, AtEnd,
                AtMagic, WalkEnds
  <2> QED
    BY <2>1, EndKeepsWalkTyped
<1>9. CASE GlobFree
  <2>1. call'.pattern = <<>> /\ pc = "idle" /\ UNCHANGED <<todo, visit, stack, pc>>
    BY <1>9 DEF GlobFree, NoCall
  <2>2. call'.pattern \in Seq(Elements)
    BY <2>1
  <2> QED
    BY <2>1, <2>2 DEF WalkTyped
<1>10. CASE UNCHANGED vars
  BY <1>10 DEF vars, WalkTyped
<1> QED
  BY <1>1, <1>2, <1>3, <1>4, <1>5, <1>6, <1>7, <1>8, <1>9, <1>10 DEF Next

-----------------------------------------------------------------------------
(* The array                                                               *)

\* What growing leaves in the array.
LEMMA GrownHolds ==
  ASSUME ListInv
  PROVE  /\ Grown \in Seq(Cells) /\ Len(Grown) = offs + pathc + 2
         /\ calls > 0 =>
              /\ lost <= pathc
              /\ \A j \in 1..offs : Grown[j] = NULL
              /\ \A j \in offs + 1..offs + lost : Grown[j] = Garbage
              /\ \A j \in offs + lost + 1..offs + pathc : Grown[j] \in GlobPaths
<1> DEFINE n == offs + pathc + 2
<1>1. n \in Nat /\ offs \in Nat /\ pathc \in Nat
  BY DEF ListInv, IInv, Counts
<1>2. pathv # NULL => pathv \in Seq(Cells) /\ DOMAIN pathv = 1..Len(pathv) /\ Len(pathv) \in Nat
  BY DEF ListInv, ArrayTyped
<1>3. pathv # NULL => Len(pathv) >= offs + pathc + 1
  <2>1. ASSUME pathv # NULL PROVE Len(pathv) >= offs + pathc + 1
    <3>1. PICK k \in Nat : k >= offs + pathc + 1 /\ DOMAIN pathv = 1..k
      BY <2>1 DEF ListInv, IInv, ArrayHasRoom
    <3>2. k \in 1..k
      BY <1>1, <3>1
    <3>3. k \in 1..Len(pathv)
      BY <1>2, <2>1, <3>1, <3>2
    <3> QED
      BY <1>1, <1>2, <2>1, <3>1, <3>3
  <2> QED
    BY <2>1
<1>4. ASSUME NEW j \in 1..n PROVE Grown[j] \in Cells
  <2>1. CASE pathv # NULL /\ j <= offs + pathc + 1
    <3>1. Grown[j] = pathv[j]
      BY <2>1 DEF Grown
    <3>2. j \in 1..Len(pathv)
      BY <1>1, <1>2, <1>3, <2>1
    <3> QED
      BY <1>2, <2>1, <3>1, <3>2
  <2>2. CASE pathv = NULL /\ j <= offs
    BY <2>2 DEF Grown, Cells
  <2>3. CASE ~(pathv # NULL /\ j <= offs + pathc + 1) /\ ~(pathv = NULL /\ j <= offs)
    BY <2>3 DEF Grown, Cells
  <2> QED
    BY <2>1, <2>2, <2>3
<1>5. DOMAIN Grown = 1..n
  BY DEF Grown
<1>6. Grown \in Seq(Cells) /\ Len(Grown) = n
  <2>1. Grown = [j \in 1..n |-> Grown[j]]
    BY <1>5 DEF Grown
  <2> HIDE DEF n
  <2>2. [j \in 1..n |-> Grown[j]] \in [1..n -> Cells]
    BY <1>4
  <2>3. Grown \in [1..n -> Cells]
    BY <2>1, <2>2
  <2> QED
    BY <1>1, <2>3
<1>7. ASSUME calls > 0
      PROVE  /\ lost <= pathc
             /\ \A j \in 1..offs : Grown[j] = NULL
             /\ \A j \in offs + 1..offs + lost : Grown[j] = Garbage
             /\ \A j \in offs + lost + 1..offs + pathc : Grown[j] \in GlobPaths
  <2>0. lost \in Nat
    BY DEF ListInv, ArrayTyped
  <2>1. CASE pathv = NULL
    <3>1. pathc = lost
      BY <1>7, <2>1 DEF ListInv, ListWhole
    <3>2. /\ \A j \in 1..offs : j \in 1..n /\ j <= offs
          /\ \A j \in offs + 1..offs + lost : j \in 1..n /\ ~(j <= offs)
      BY <1>1, <2>0, <3>1
    <3>3. /\ \A j \in 1..offs : Grown[j] = NULL
          /\ \A j \in offs + 1..offs + lost : Grown[j] = Garbage
      BY <2>1, <3>2 DEF Grown
    <3>4. offs + lost + 1..offs + pathc = {} /\ lost <= pathc
      BY <1>1, <3>1
    <3> QED
      BY <3>3, <3>4
  <2>2. CASE pathv # NULL
    <3>1. \A j \in 1..offs + pathc : Grown[j] = pathv[j]
      BY <2>2, GrowingKeepsAll DEF ListInv
    <3>2. /\ lost <= pathc
          /\ \A j \in 1..offs : pathv[j] = NULL
          /\ \A j \in offs + 1..offs + lost : pathv[j] = Garbage
          /\ \A j \in offs + lost + 1..offs + pathc : pathv[j] \in GlobPaths
      BY <1>7, <2>2 DEF ListInv, ListWhole
    <3>3. /\ \A j \in 1..offs : j \in 1..offs + pathc
          /\ \A j \in offs + 1..offs + lost : j \in 1..offs + pathc
          /\ \A j \in offs + lost + 1..offs + pathc : j \in 1..offs + pathc
      BY <1>1, <2>0, <3>2
    <3> QED
      BY <3>1, <3>2, <3>3
  <2> QED
    BY <2>1, <2>2
<1> QED
  BY <1>6, <1>7

\* The list is whole with a path more, and it is whole if there was no memory for
\* the copy of the path.
LEMMA AddingKeepsList ==
  ASSUME ListInv, NEW path \in GlobPaths, AddPath(path), UNCHANGED <<offs, calls>>,
         pc' = "walk" => UNCHANGED <<pc, oldpathc>>
  PROVE  ArrayTyped' /\ ListWhole' /\ pathv'[offs + pathc + 1] = path /\ pathv' # NULL
<1>1. pathv' = Stored(Grown, path) /\ pathc' = pathc + 1 /\ UNCHANGED <<lost, offs, calls>>
  BY DEF AddPath
<1>2. offs \in Nat /\ pathc \in Nat
  BY DEF ListInv, IInv, Counts
<1>3. Grown \in Seq(Cells) /\ Len(Grown) = offs + pathc + 2
  BY GrownHolds
<1>4. /\ pathv' \in Seq(Cells) /\ Len(pathv') = offs + pathc + 2
      /\ pathv'[offs + pathc + 1] = path /\ pathv'[offs + pathc + 2] = NULL
      /\ \A j \in 1..offs + pathc : pathv'[j] = Grown[j]
  <2> DEFINE a == Grown
  <2> HIDE DEF a
  <2>1. a \in Seq(Cells) /\ Len(a) = offs + pathc + 2
    BY <1>3 DEF a
  <2>2. pathv' = [a EXCEPT ![offs + pathc + 1] = path, ![offs + pathc + 2] = NULL]
    BY <1>1 DEF a, Stored
  <2>3. path \in Cells /\ NULL \in Cells
    BY DEF Cells
  <2>4. \A j \in 1..offs + pathc : pathv'[j] = a[j]
    BY <1>2, <2>1, <2>2
  <2> QED
    BY <1>2, <2>1, <2>2, <2>3, <2>4 DEF a
<1>5. pathv' # NULL
  BY <1>4, GlobAssumption DEF Cells
<1>6. lost \in Nat /\ lost' = lost
  BY <1>1 DEF ListInv, ArrayTyped
<1>7. ASSUME calls > 0
      PROVE  /\ lost <= pathc
             /\ \A j \in 1..offs : pathv'[j] = NULL
             /\ \A j \in offs + 1..offs + lost : pathv'[j] = Garbage
             /\ \A j \in offs + lost + 1..offs + pathc + 1 : pathv'[j] \in GlobPaths
             /\ pathv'[offs + pathc + 2] = NULL
  <2>1. /\ lost <= pathc
        /\ \A j \in 1..offs : Grown[j] = NULL
        /\ \A j \in offs + 1..offs + lost : Grown[j] = Garbage
        /\ \A j \in offs + lost + 1..offs + pathc : Grown[j] \in GlobPaths
    BY <1>7, GrownHolds
  <2> QED
    BY <1>2, <1>4, <1>6, <2>1
<1>8. /\ offs + (pathc + 1) = offs + pathc + 1 /\ offs + (pathc + 1) + 1 = offs + pathc + 2
      /\ lost <= pathc => lost <= pathc + 1
  BY <1>2, <1>6
<1>9. calls > 0 /\ pc' = "walk" => lost <= oldpathc'
  BY DEF ListInv, ListWhole
<1>10. ListWhole'
  BY <1>1, <1>5, <1>7, <1>8, <1>9 DEF ListWhole
<1> QED
  BY <1>4, <1>5, <1>6, <1>10 DEF ArrayTyped

LEMMA FailingKeepsList ==
  ASSUME ListInv, CannotAdd, UNCHANGED <<offs, calls>>, pc' = "next"
  PROVE  ArrayTyped' /\ ListWhole'
<1>1. UNCHANGED <<pathc, offs, calls>>
  BY DEF CannotAdd
<1>2. CASE UNCHANGED <<pathv, lost>>
  BY <1>1, <1>2 DEF ListInv, ArrayTyped, ListWhole
<1>3. CASE pathv' = NULL /\ lost' = pathc
  <2>1. pathc \in Nat /\ pathc' = lost'
    BY <1>1, <1>3 DEF ListInv, IInv, Counts
  <2> QED
    BY <1>3, <2>1 DEF ArrayTyped, ListWhole
<1>4. CASE pathv' = NotStored(Grown) /\ UNCHANGED lost
  <2>1. offs \in Nat /\ pathc \in Nat
    BY DEF ListInv, IInv, Counts
  <2>2. Grown \in Seq(Cells) /\ Len(Grown) = offs + pathc + 2
    BY GrownHolds
  <2>3. /\ pathv' \in Seq(Cells)
        /\ pathv'[offs + pathc + 1] = NULL
        /\ \A j \in 1..offs + pathc : pathv'[j] = Grown[j]
    <3> DEFINE a == Grown
    <3> HIDE DEF a
    <3>1. a \in Seq(Cells) /\ Len(a) = offs + pathc + 2
      BY <2>2 DEF a
    <3>2. pathv' = [a EXCEPT ![offs + pathc + 1] = NULL]
      BY <1>4 DEF a, NotStored
    <3>3. NULL \in Cells
      BY DEF Cells
    <3> QED
      BY <2>1, <3>1, <3>2, <3>3 DEF a
  <2>4. pathv' # NULL
    BY <2>3, GlobAssumption DEF Cells
  <2>5. lost \in Nat
    BY DEF ListInv, ArrayTyped
  <2>6. ASSUME calls > 0
        PROVE  /\ lost <= pathc
               /\ \A j \in 1..offs : pathv'[j] = NULL
               /\ \A j \in offs + 1..offs + lost : pathv'[j] = Garbage
               /\ \A j \in offs + lost + 1..offs + pathc : pathv'[j] \in GlobPaths
    <3>1. /\ lost <= pathc
          /\ \A j \in 1..offs : Grown[j] = NULL
          /\ \A j \in offs + 1..offs + lost : Grown[j] = Garbage
          /\ \A j \in offs + lost + 1..offs + pathc : Grown[j] \in GlobPaths
      BY <2>6, GrownHolds
    <3> QED
      BY <2>1, <2>3, <2>5, <3>1
  <2>7. ListWhole'
    BY <1>1, <1>4, <2>3, <2>4, <2>6 DEF ListWhole
  <2> QED
    BY <1>4, <2>3, <2>5, <2>7 DEF ArrayTyped
<1> QED
  BY <1>2, <1>3, <1>4 DEF CannotAdd

\* Sorting moves only paths, and only to cells that held one.
LEMMA SortingKeepsList ==
  ASSUME ListInv, pc = "walk", pathc # oldpathc, NEW order \in Orders,
         pathv' = Sorted(order), UNCHANGED <<pathc, offs, calls, lost>>, pc' = "next"
  PROVE  ArrayTyped' /\ ListWhole'
<1>1. /\ offs \in Nat /\ pathc \in Nat /\ oldpathc \in Nat /\ pathv # NULL
      /\ \E n \in Nat : n >= offs + pathc + 1 /\ DOMAIN pathv = 1..n
  BY DEF ListInv, IInv, Counts, ArrayHasRoom, ArrayTyped
<1>2. \A j \in SortedCells : j \in offs + 1..offs + pathc /\ order[j] \in SortedCells
  <2>1. order \in [SortedCells -> SortedCells]
    BY DEF Orders
  <2>2. \A j \in SortedCells : j \in offs + 1..offs + pathc
    BY <1>1 DEF SortedCells, SortFrom
  <2> QED
    BY <2>1, <2>2
<1>3. pathv \in Seq(Cells)
  BY <1>1 DEF ListInv, ArrayTyped
<1>4. DOMAIN pathv' = DOMAIN pathv
  BY DEF Sorted
<1>5. \A j \in DOMAIN pathv : pathv'[j] = IF j \in SortedCells THEN pathv[order[j]] ELSE pathv[j]
  BY DEF Sorted
<1>6. \A j \in DOMAIN pathv : pathv[j] \in Cells
  BY <1>3
<1>7. offs + 1..offs + pathc \subseteq DOMAIN pathv
  BY <1>1
<1>8. \A j \in DOMAIN pathv : pathv'[j] \in Cells
  BY <1>2, <1>5, <1>6, <1>7
<1>9. pathv' \in Seq(Cells)
  <2>1. PICK n \in Nat : DOMAIN pathv = 1..n
    BY <1>1
  <2>2. pathv' = [j \in DOMAIN pathv |-> pathv'[j]]
    BY <1>4, <1>5 DEF Sorted
  <2>3. [j \in 1..n |-> pathv'[j]] \in [1..n -> Cells]
    BY <1>8, <2>1
  <2>4. pathv' \in [1..n -> Cells]
    BY <2>1, <2>2, <2>3
  <2> QED
    BY <2>1, <2>4
<1>10. pathv' # NULL
  BY <1>9, GlobAssumption DEF Cells
<1>11. lost \in Nat /\ (calls > 0 => lost <= oldpathc)
  BY DEF ListInv, ArrayTyped, ListWhole
<1>12. ASSUME calls > 0
       PROVE  /\ lost <= pathc
              /\ \A j \in 1..offs : pathv'[j] = NULL
              /\ \A j \in offs + 1..offs + lost : pathv'[j] = Garbage
              /\ \A j \in offs + lost + 1..offs + pathc : pathv'[j] \in GlobPaths
              /\ pathv'[offs + pathc + 1] = NULL
  <2>1. /\ lost <= pathc
        /\ \A j \in 1..offs : pathv[j] = NULL
        /\ \A j \in offs + 1..offs + lost : pathv[j] = Garbage
        /\ \A j \in offs + lost + 1..offs + pathc : pathv[j] \in GlobPaths
        /\ pathv[offs + pathc + 1] = NULL
    BY <1>1, <1>12 DEF ListInv, ListWhole
  <2>2. /\ \A j \in 1..offs : j \in DOMAIN pathv /\ j \notin SortedCells
        /\ \A j \in offs + 1..offs + lost : j \in DOMAIN pathv /\ j \notin SortedCells
    BY <1>1, <1>11, <1>12, <2>1 DEF SortedCells, SortFrom
  <2>3. offs + pathc + 1 \in DOMAIN pathv /\ offs + pathc + 1 \notin SortedCells
    BY <1>1 DEF SortedCells, SortFrom
  <2>4. /\ \A j \in SortedCells : order[j] \in offs + lost + 1..offs + pathc
        /\ offs + lost + 1..offs + pathc \subseteq DOMAIN pathv
    <3>1. \A j \in SortedCells : j \in offs + lost + 1..offs + pathc
      BY <1>1, <1>11, <1>12 DEF SortedCells, SortFrom
    <3> QED
      BY <1>1, <1>2, <1>11, <3>1
  <2>5. \A j \in offs + lost + 1..offs + pathc : pathv'[j] \in GlobPaths
    BY <1>5, <2>1, <2>4
  <2> QED
    BY <1>5, <2>1, <2>2, <2>3, <2>5
<1>13. ListWhole'
  BY <1>10, <1>12 DEF ListWhole
<1> QED
  BY <1>9, <1>10, <1>11, <1>13 DEF ArrayTyped

\* Every step keeps the list in its shape.
LEMMA StepKeepsList == ASSUME ListInv, [Next]_vars PROVE ListInv'
<1>1. IInv' /\ WalkTyped'
  BY StepKeepsIInv, StepKeepsWalkTyped DEF ListInv
<1> SUFFICES ArrayTyped' /\ ListWhole'
  BY <1>1 DEF ListInv
<1>2. CASE Glob
  <2>1. pc' = "next"
    BY <1>2 DEF Glob
  <2>2. CASE calls > 0 /\ UNCHANGED <<pathv, pathc, offs, lost>>
    BY <2>1, <2>2 DEF ListInv, ArrayTyped, ListWhole
  <2>3. CASE pathv' = NULL /\ pathc' = 0 /\ lost' = 0
    BY <2>1, <2>3 DEF ArrayTyped, ListWhole
  <2> QED
    BY <1>2, <2>2, <2>3 DEF Glob
<1>3. CASE FileFound
  <2>1. visit.path \in GlobPaths
    BY <1>3 DEF ListInv, WalkTyped, FileFound, AtEnd, Visits
  <2>2. AddPath(visit.path) /\ UNCHANGED <<offs, calls, pc, oldpathc>>
    BY <1>3 DEF FileFound, history
  <2> QED
    BY <2>1, <2>2, AddingKeepsList
<1>4. CASE PatternAdded
  <2>1. Head(todo) \in Seq(Segments)
    BY <1>4 DEF ListInv, WalkTyped, PatternAdded, WalkEnds
  <2>2. AsGiven(Head(todo)) \in GlobPaths
    BY <2>1, AsGivenTyped
  <2>3. AddPath(AsGiven(Head(todo))) /\ UNCHANGED <<offs, calls>> /\ pc' = "next"
    BY <1>4 DEF PatternAdded, EndGlob0, history
  <2> QED
    BY <2>2, <2>3, AddingKeepsList
<1>5. CASE FileNotAdded \/ PatternNotAdded
  BY <1>5, FailingKeepsList DEF FileNotAdded, PatternNotAdded, history, EndGlob0
<1>6. CASE Matched
  <2>1. pc = "walk" /\ pathc # oldpathc /\ UNCHANGED <<pathc, offs, calls, lost>> /\ pc' = "next"
    BY <1>6 DEF Matched, WalkEnds, EndGlob0, history
  <2>2. CASE UNCHANGED pathv
    BY <2>1, <2>2 DEF ListInv, ArrayTyped, ListWhole
  <2>3. CASE \E order \in Orders : pathv' = Sorted(order)
    BY <2>1, <2>3, SortingKeepsList
  <2> QED
    BY <1>6, <2>2, <2>3 DEF Matched
<1>7. CASE \/ Glob0 \/ Return \/ NextSegment \/ NoSuchFile \/ OpenDir \/ SkipDir \/ Abort \/ ReadDir
           \/ CloseDir \/ NoMatch \/ UNCHANGED vars
  <2>1. /\ UNCHANGED <<pathv, pathc, offs, calls, lost>>
        /\ pc' = "walk" => oldpathc' = pathc \/ UNCHANGED <<pc, oldpathc>>
    BY <1>7 DEF Glob0, Return, NextSegment, NoSuchFile, OpenDir, SkipDir, Abort, ReadDir, CloseDir,
                NoMatch, list, history, vars, EndGlob0
  <2>2. lost \in Nat /\ pathc \in Nat /\ (calls > 0 => lost <= pathc)
    BY DEF ListInv, IInv, Counts, ArrayTyped, ListWhole
  <2> QED
    BY <2>1, <2>2 DEF ListInv, ArrayTyped, ListWhole
<1>8. CASE GlobFree
  BY <1>8 DEF GlobFree, ListInv, ArrayTyped, ListWhole
<1> QED
  BY <1>2, <1>3, <1>4, <1>5, <1>6, <1>7, <1>8 DEF Next

LEMMA InitListInv == Init => ListInv
<1>1. Init => IInv /\ ArrayTyped /\ ListWhole
  BY InitIInv DEF Init, ArrayTyped, ListWhole
<1>2. Init => WalkTyped
  <2>1. <<>> \in Seq(Elements) /\ <<>> \in Seq(Seq(Segments)) /\ <<>> \in Seq(OpenDirs)
    OBVIOUS
  <2> QED
    BY <2>1 DEF Init, NoCall, WalkTyped
<1> QED
  BY <1>1, <1>2 DEF ListInv

-----------------------------------------------------------------------------
(* Where the walk is                                                       *)

\* The alternatives that are behind the walk.
Done == Len(Expand(call.pattern)) - Len(todo)

\* What is to be done are the last of the alternatives.
TodoFits ==
  pc # "idle" =>
    /\ Done \in Nat
    /\ \A i \in 1..Len(todo) : todo[i] = Expand(call.pattern)[Done + i]

NoMagic(pattern) == \A j \in DOMAIN pattern : ~IsMagic(pattern[j])

\* No alternative had a meta character if gl_flags does not say so.
MagcharFits ==
  pc # "idle" /\ ~magchar =>
    /\ \A i \in 1..Done : NoMagic(Expand(call.pattern)[i])
    /\ pc = "walk" => NoMagic(Head(todo))

\* The names of the path were accepted by the pattern, and the rest of it is left.
Part(path, rest, pattern) ==
  /\ Len(path) + Len(rest) = Len(pattern)
  /\ \A j \in 1..Len(path) : Accepts(path[j], pattern[j])
  /\ \A j \in 1..Len(rest) : rest[j] = Compiled(pattern[Len(path) + j])

WalkFits ==
  /\ pc = "walk" =>
       /\ visit # NULL => Part(visit.path, visit.rest, Head(todo))
       /\ \A i \in 1..Len(stack) : Part(stack[i].path, stack[i].rest, Head(todo))
  /\ pc # "walk" => stack = <<>>

Under(dir, path) == Len(dir) <= Len(path) /\ \A j \in 1..Len(dir) : dir[j] = path[j]

\* The walk will still come to the path.
Ahead(path, next, dirs) ==
  \/ next # NULL /\ Under(next.path, path)
  \/ \E i \in 1..Len(dirs) : \E name \in dirs[i].unread : Under(Append(dirs[i].path, name), path)

\* The entries of the alternative that is walked.
NewCells == offs + oldpathc + 1..offs + pathc

Found(path) == \E j \in NewCells : pathv[j] = path

\* As long as nothing was passed over, everything is ahead or found.
AllAhead ==
  pc = "walk" /\ ~skipped =>
    \A path \in Matching(Head(todo)) : Ahead(path, visit, stack) \/ Found(path)

\* StandsForItself of the call that asked.
Itself(asked, patterns, k) ==
  \/ "NOCHECK" \in asked.flags
  \/ "NOMAGIC" \in asked.flags /\ \A i \in 1..k : NoMagic(patterns[i])

\* The path is what an alternative asks for, whatever was passed over,
Belongs(path, asked) ==
  LET patterns == Expand(asked.pattern) IN
  \E k \in DOMAIN patterns :
    \/ path \in Matching(patterns[k])
    \/ Matching(patterns[k]) = {} /\ Itself(asked, patterns, k) /\ path = AsGiven(patterns[k])

\* or the alternative itself, which may have matches that were passed over.
StandsIn(path, asked) ==
  LET patterns == Expand(asked.pattern) IN
  \E k \in DOMAIN patterns : Itself(asked, patterns, k) /\ path = AsGiven(patterns[k])

EntriesFit ==
  calls > 0 /\ pathv # NULL =>
    \A j \in offs + before + 1..offs + pathc :
      pathv[j] # Garbage => Belongs(pathv[j], call) \/ (skipped /\ StandsIn(pathv[j], call))

-----------------------------------------------------------------------------
(* Literal segments, and the paths of the tree                             *)

\* Single characters are cut one by one.
LEMMA SpanOfSingles ==
  ASSUME NEW m \in Nat, NEW cut, cut[0] = 0, \A k \in 1..m : cut[k] = cut[k - 1] + 1
  PROVE  \A k \in 0..m : cut[k] = k
<1> DEFINE S == {k \in 0..m : cut[k] = k}
<1>1. 0 \in S
  OBVIOUS
<1>2. ASSUME NEW n \in 0..m - 1, n \in S PROVE n + 1 \in S
  <2>1. n + 1 \in 1..m /\ (n + 1) - 1 = n /\ n + 1 \in 0..m
    OBVIOUS
  <2>2. cut[n] = n
    BY <1>2
  <2>3. cut[n + 1] = n + 1
    BY <2>1, <2>2
  <2> QED
    BY <2>1, <2>3
<1>3. \A n \in 0..m : n \in S
  <2> HIDE DEF S
  <2> QED
    BY <1>1, <1>2, InductionUpTo
<1> QED
  BY <1>3

\* A literal segment says one name, character by character.
LEMMA LiteralCharacters ==
  ASSUME NEW segment \in Segments, ~IsMagic(segment)
  PROVE  /\ Literal(segment) \in Seq(Characters) /\ Len(Literal(segment)) = Len(segment)
         /\ \A k \in 1..Len(segment) : /\ segment[k].kind = "char"
                                       /\ segment[k].chars = {Literal(segment)[k]}
                                       /\ Stands(segment[k]) = {Literal(segment)[k]}
<1> DEFINE m == Len(segment)
           one == <<segment>>
           text == Literal(segment)
<1>1. segment \in Seq(Tokens) /\ m \in Nat /\ DOMAIN segment = 1..m
  BY DEF Segments
<1>2. \A k \in 1..m : segment[k] \in Tokens /\ segment[k].kind = "char"
  BY <1>1 DEF IsMagic
<1>3. 1 \in DOMAIN one /\ one[1] = segment
  OBVIOUS
<1>4. text = AsGiven(one)[1]
  BY DEF Literal
<1> HIDE DEF one, text, m
<1>5. /\ DOMAIN text = 1..m /\ text = [k \in DOMAIN text |-> text[k]]
      /\ \A k \in 1..m : text[k] = IF one[1][k].kind = "char" THEN CHOOSE c \in one[1][k].chars : TRUE
                                  ELSE MetaCharacter
  <2> DEFINE Char(k) == IF one[1][k].kind = "char" THEN CHOOSE c \in one[1][k].chars : TRUE
                        ELSE MetaCharacter
  <2>1. text = [k \in DOMAIN one[1] |-> Char(k)]
    BY <1>3, <1>4 DEF AsGiven
  <2>2. DOMAIN one[1] = 1..m
    BY <1>1, <1>3
  <2> HIDE DEF Char
  <2>3. DOMAIN text = 1..m /\ text = [k \in DOMAIN text |-> text[k]] /\ \A k \in 1..m : text[k] = Char(k)
    BY <2>1, <2>2
  <2> QED
    BY <2>3 DEF Char
<1>6. ASSUME NEW k \in 1..m
      PROVE  /\ segment[k].kind = "char" /\ segment[k].chars = {text[k]}
             /\ Stands(segment[k]) = {text[k]} /\ text[k] \in Characters
  <2> DEFINE t == one[1][k]
  <2>1. t \in Tokens /\ t.kind = "char" /\ t = segment[k]
    BY <1>2, <1>3
  <2>2. text[k] = CHOOSE c \in t.chars : TRUE
    BY <1>5, <2>1
  <2> HIDE DEF t
  <2>3. PICK c \in Characters : t.chars = {c}
    BY <2>1 DEF Tokens
  <2>4. text[k] = c
    BY <2>2, <2>3
  <2>5. Stands(t) = {c}
    BY <2>1, <2>3 DEF Stands
  <2> QED
    BY <2>1, <2>3, <2>4, <2>5
<1>7. text \in Seq(Characters) /\ Len(text) = m
  <2>1. text \in [1..m -> Characters]
    BY <1>5, <1>6
  <2> QED
    BY <1>1, <2>1
<1> QED
  BY <1>6, <1>7 DEF m, text

\* A segment that is literal when it is compiled accepts the name that it says, and
\* no other.
LEMMA LiteralAccepts ==
  ASSUME NEW segment \in Segments, ~IsMagic(Compiled(segment))
  PROVE  /\ Accepts(Literal(Compiled(segment)), segment)
         /\ \A name \in Seq(Characters) : Accepts(name, segment) => name = Literal(Compiled(segment))
<1> DEFINE s == Compiled(segment)
           text == Literal(s)
           m == Len(s)
<1>1. s \in Seq(Tokens) /\ s # <<>> /\ s \in Segments
  BY CompiledTyped DEF Segments
<1>2. ~IsMagic(s)
  OBVIOUS
<1>3. ASSUME NEW name \in Seq(Characters)
      PROVE  Accepts(name, segment) <=>
               ShowsDots(name, s) /\ SpanFromTo(name, s, 0, m, 0, Len(name))
  <2>1. Accepts(name, segment) <=> ShowsDots(name, s) /\ Match(name, s)
    BY MatchIsAcceptance
  <2> HIDE DEF s
  <2>2. Match(name, s) <=> SpanFromTo(name, s, 0, Len(s), 0, Len(name))
    BY <1>1, MatchIsSpan
  <2> QED
    BY <2>1, <2>2
<1> HIDE DEF s
<1>4. /\ text \in Seq(Characters) /\ Len(text) = m /\ m \in Nat \ {0}
      /\ \A k \in 1..m : s[k].kind = "char" /\ s[k].chars = {text[k]} /\ Stands(s[k]) = {text[k]}
  <2>1. m \in Nat \ {0}
    BY <1>1
  <2>2. /\ Literal(s) \in Seq(Characters) /\ Len(Literal(s)) = Len(s)
        /\ \A k \in 1..Len(s) : /\ s[k].kind = "char" /\ s[k].chars = {Literal(s)[k]}
                                /\ Stands(s[k]) = {Literal(s)[k]}
    BY <1>1, <1>2, LiteralCharacters
  <2> QED
    BY <2>1, <2>2
<1> HIDE DEF text
<1>5. m = Len(s)
  OBVIOUS
<1> HIDE DEF m
<1>6. Accepts(text, segment)
  <2>1. ShowsDots(text, s)
    <3>1. Head(s) = s[1] /\ Head(text) = text[1] /\ 1 \in 1..m
      BY <1>1, <1>4
    <3>2. Head(s).kind = "char" /\ Head(s).chars = {Head(text)}
      BY <1>4, <3>1
    <3> QED
      BY <3>2 DEF ShowsDots
  <2>2. SpanFromTo(text, s, 0, m, 0, m)
    <3> DEFINE cut == [k \in 0..m |-> k]
    <3>1. cut \in [0..m -> 0..Len(text)] /\ cut[0] = 0 /\ cut[m] = m
      BY <1>4
    <3>2. ASSUME NEW k \in 0 + 1..m PROVE Spans(text, s[k], cut[k - 1], cut[k])
      <4>1. k \in 1..m /\ cut[k - 1] = k - 1 /\ cut[k] = k /\ k = (k - 1) + 1
        BY <1>4
      <4>2. s[k].kind # "all" /\ text[k] \in Stands(s[k])
        BY <1>4, <4>1
      <4> QED
        BY <4>1, <4>2 DEF Spans
    <3> HIDE DEF cut
    <3> QED
      BY <3>1, <3>2 DEF SpanFromTo
  <2>3. Len(text) = m
    BY <1>4
  <2> QED
    BY <1>3, <1>4, <2>1, <2>2, <2>3
<1>7. ASSUME NEW name \in Seq(Characters), Accepts(name, segment) PROVE name = text
  <2> DEFINE len == Len(name)
  <2>1. SpanFromTo(name, s, 0, m, 0, len) /\ len \in Nat
    BY <1>3, <1>7
  <2>2. PICK cut \in [0..m -> 0..len] :
          /\ cut[0] = 0 /\ cut[m] = len
          /\ \A k \in 0 + 1..m : Spans(name, s[k], cut[k - 1], cut[k])
    BY <2>1 DEF SpanFromTo
  <2>3. ASSUME NEW k \in 1..m PROVE cut[k] = cut[k - 1] + 1 /\ name[cut[k]] = text[k]
    <3>1. Spans(name, s[k], cut[k - 1], cut[k])
      BY <2>2
    <3>2. s[k].kind # "all" /\ Stands(s[k]) = {text[k]}
      BY <1>4
    <3> QED
      BY <3>1, <3>2 DEF Spans
  <2>4. \A k \in 0..m : cut[k] = k
    <3>1. m \in Nat /\ cut[0] = 0 /\ \A k \in 1..m : cut[k] = cut[k - 1] + 1
      BY <1>4, <2>2, <2>3
    <3> QED
      BY <3>1, SpanOfSingles
  <2>5. len = m
    BY <1>4, <2>2, <2>4
  <2>6. \A k \in 1..m : name[k] = text[k]
    <3>1. \A k \in 1..m : cut[k] = k /\ name[cut[k]] = text[k]
      BY <1>4, <2>3, <2>4
    <3> QED
      BY <3>1
  <2> QED
    BY <1>4, <2>5, <2>6
<1> QED
  BY <1>6, <1>7 DEF text, s

\* The first elements of a sequence.
LEMMA Prefix ==
  ASSUME NEW S, NEW s \in Seq(S), NEW n \in 0..Len(s)
  PROVE  /\ SubSeq(s, 1, n) \in Seq(S) /\ Len(SubSeq(s, 1, n)) = n
         /\ \A j \in 1..n : SubSeq(s, 1, n)[j] = s[j]
OBVIOUS

\* The paths of the tree are those that exist.
LEMMA PathsExist ==
  /\ \A path \in Paths : path \in Seq(Seq(Characters)) /\ Exists(path)
  /\ \A path \in GlobPaths : Exists(path) => path \in Paths
<1>1. ASSUME NEW path \in Paths PROVE path \in Seq(Seq(Characters)) /\ Exists(path)
  <2>0. PICK dir \in DOMAIN Tree : \E name \in Tree[dir] : path = Append(dir, name)
    BY DEF Paths
  <2>1. PICK name \in Tree[dir] : path = Append(dir, name)
    BY <2>0
  <2>2. dir \in Seq(Seq(Characters)) /\ name \in Seq(Characters)
    BY GlobAssumption
  <2>3. path \in Seq(Seq(Characters)) /\ Len(path) = Len(dir) + 1 /\ Len(dir) \in Nat
    BY <2>1, <2>2
  <2>4. path # <<>> /\ Last(path) = name
    BY <2>1, <2>2, <2>3 DEF Last
  <2>5. Front(path) = dir
    <3>1. Front(path) = SubSeq(path, 1, Len(dir))
      BY <2>3 DEF Front
    <3> QED
      BY <2>1, <2>2, <3>1
  <2> QED
    BY <2>3, <2>4, <2>5 DEF Exists
<1>2. ASSUME NEW path \in GlobPaths, Exists(path) PROVE path \in Paths
  <2>1. path # <<>> /\ Front(path) \in DOMAIN Tree /\ Last(path) \in Tree[Front(path)]
    BY <1>2 DEF Exists
  <2>2. path = Append(Front(path), Last(path))
    <3>1. path \in Seq(Seq(Characters \cup {MetaCharacter}))
      BY DEF GlobPaths
    <3>2. Len(path) \in Nat /\ Len(path) # 0
      BY <2>1, <3>1
    <3> DEFINE n == Len(path) - 1
    <3>3. /\ SubSeq(path, 1, n) \in Seq(Seq(Characters \cup {MetaCharacter})) /\ Len(SubSeq(path, 1, n)) = n
          /\ \A j \in 1..n : SubSeq(path, 1, n)[j] = path[j]
      <4> DEFINE All == Seq(Characters \cup {MetaCharacter})
      <4>1. path \in Seq(All) /\ n \in 0..Len(path)
        BY <3>1, <3>2
      <4> HIDE DEF All, n
      <4>2. /\ SubSeq(path, 1, n) \in Seq(All) /\ Len(SubSeq(path, 1, n)) = n
            /\ \A j \in 1..n : SubSeq(path, 1, n)[j] = path[j]
        BY <4>1, Prefix
      <4> QED
        BY <4>2 DEF All
    <3> QED
      BY <3>1, <3>2, <3>3 DEF Front, Last
  <2> QED
    BY <2>1, <2>2 DEF Paths
<1> QED
  BY <1>1, <1>2

\* On the way to a path are directories with the names that are in it.
LEMMA DirectoriesOfPath ==
  ASSUME NEW path \in Paths, NEW n \in 0..Len(path) - 1
  PROVE  SubSeq(path, 1, n) \in DOMAIN Tree /\ path[n + 1] \in Tree[SubSeq(path, 1, n)]
<1> DEFINE l == Len(path)
           Dir(k) == SubSeq(path, 1, k)
           S == {k \in 0..l - 1 : Dir(l - 1 - k) \in DOMAIN Tree /\ path[l - k] \in Tree[Dir(l - 1 - k)]}
<1>1. path \in Seq(Seq(Characters)) /\ Exists(path)
  BY PathsExist
<1>2. path # <<>> /\ l \in Nat /\ l > 0
  BY <1>1 DEF Exists
<1>3. 0 \in S
  BY <1>1, <1>2 DEF Exists, Front, Last
<1>4. ASSUME NEW k \in 0..(l - 1) - 1, k \in S PROVE k + 1 \in S
  <2> DEFINE m == l - 1 - k
  <2>1. m \in 1..l - 1 /\ l - 1 - (k + 1) = m - 1 /\ l - (k + 1) = m /\ k + 1 \in 0..l - 1
    BY <1>2
  <2> HIDE DEF m
  <2>2. Dir(m) \in DOMAIN Tree
    BY <1>4 DEF m
  <2>3. /\ Dir(m) \in Seq(Seq(Characters)) /\ Len(Dir(m)) = m /\ Dir(m)[m] = path[m]
        /\ Dir(m) # <<>>
    <3>1. m \in 0..Len(path) /\ m \in 1..m /\ m # 0
      BY <1>2, <2>1
    <3>2. /\ Dir(m) \in Seq(Seq(Characters)) /\ Len(Dir(m)) = m
          /\ \A j \in 1..m : Dir(m)[j] = path[j]
      BY <1>1, <3>1, Prefix
    <3> HIDE DEF Dir
    <3> QED
      BY <3>1, <3>2
  <2>4. Front(Dir(m)) \in DOMAIN Tree /\ Last(Dir(m)) \in Tree[Front(Dir(m))]
    <3> HIDE DEF Dir
    <3> QED
      BY <2>2, <2>3, GlobAssumption
  <2>5. Front(Dir(m)) = Dir(m - 1)
    <3>1. Front(Dir(m)) = SubSeq(Dir(m), 1, m - 1)
      BY <2>3 DEF Front
    <3>2. SubSeq(SubSeq(path, 1, m), 1, m - 1) = SubSeq(path, 1, m - 1)
      BY <1>1, <1>2, <2>1
    <3> QED
      BY <3>1, <3>2
  <2>6. Last(Dir(m)) = path[m]
    BY <2>3 DEF Last
  <2> HIDE DEF Dir
  <2> QED
    BY <2>1, <2>4, <2>5, <2>6
<1>5. \A k \in 0..l - 1 : k \in S
  <2> DEFINE m == l - 1
  <2>1. m \in Nat /\ \A k \in 0..m - 1 : k \in S => k + 1 \in S
    <3> HIDE DEF S
    <3> QED
      BY <1>2, <1>4
  <2> HIDE DEF S, m
  <2>2. \A k \in 0..m : k \in S
    BY <1>3, <2>1, InductionUpTo
  <2> QED
    BY <2>2 DEF m
<1>6. l - 1 - n \in S /\ l - 1 - (l - 1 - n) = n /\ l - (l - 1 - n) = n + 1
  <2> HIDE DEF S
  <2> QED
    BY <1>2, <1>5
<1> QED
  BY <1>6

\* What is under a directory, and what is under a name in it.
LEMMA UnderDir ==
  ASSUME NEW dir \in GlobPaths, NEW path \in GlobPaths
  PROVE  /\ Under(<<>>, path)
         /\ Under(dir, path) /\ Len(dir) = Len(path) => dir = path
         /\ Under(dir, path) => dir = SubSeq(path, 1, Len(dir))
         /\ \A name : Under(Append(dir, name), path) <=>
                        Under(dir, path) /\ Len(dir) < Len(path) /\ name = path[Len(dir) + 1]
<1> DEFINE All == Seq(Characters \cup {MetaCharacter})
<1>1. dir \in Seq(All) /\ path \in Seq(All) /\ Len(dir) \in Nat /\ Len(path) \in Nat
  BY DEF GlobPaths
<1> HIDE DEF All
<1>2. Under(<<>>, path)
  <2>1. Len(<<>>) = 0
    OBVIOUS
  <2> DEFINE empty == <<>>
  <2> HIDE DEF empty
  <2>2. Len(empty) = 0 => Under(empty, path)
    BY <1>1 DEF Under
  <2> QED
    BY <2>1, <2>2 DEF empty
<1>3. Under(dir, path) /\ Len(dir) = Len(path) => dir = path
  BY <1>1 DEF Under
<1>4. Under(dir, path) => dir = SubSeq(path, 1, Len(dir))
  BY <1>1 DEF Under
<1>5. ASSUME NEW name
      PROVE  Under(Append(dir, name), path) <=>
               Under(dir, path) /\ Len(dir) < Len(path) /\ name = path[Len(dir) + 1]
  <2> DEFINE longer == Append(dir, name)
             l == Len(dir)
  <2>1. /\ Len(longer) = l + 1 /\ longer[l + 1] = name
        /\ \A j \in 1..l : longer[j] = dir[j]
    <3>1. dir \in Seq(All \cup {name}) /\ name \in All \cup {name}
      BY <1>1
    <3> DEFINE T == All \cup {name}
    <3> HIDE DEF T
    <3>2. dir \in Seq(T) /\ name \in T
      BY <3>1 DEF T
    <3> QED
      BY <3>2
  <2> HIDE DEF longer
  <2>2. \A j : j \in 1..l + 1 <=> j \in 1..l \/ j = l + 1
    BY <1>1
  <2>3. Under(longer, path) <=> l + 1 <= Len(path) /\ \A j \in 1..l + 1 : longer[j] = path[j]
    BY <2>1 DEF Under
  <2>4. Under(dir, path) <=> l <= Len(path) /\ \A j \in 1..l : dir[j] = path[j]
    BY DEF Under
  <2> QED
    BY <1>1, <2>1, <2>2, <2>3, <2>4 DEF longer
<1> QED
  BY <1>2, <1>3, <1>4, <1>5

-----------------------------------------------------------------------------
(* The walk                                                                *)

FitInv == ListInv /\ TodoFits /\ MagcharFits /\ WalkFits /\ AllAhead /\ EntriesFit

\* The walk begins before the pattern,
LEMMA PartStarts ==
  ASSUME NEW pattern \in Seq(Segments)
  PROVE  Part(<<>>, [j \in DOMAIN pattern |-> Compiled(pattern[j])], pattern)
<1> DEFINE empty == <<>>
           rest == [j \in DOMAIN pattern |-> Compiled(pattern[j])]
<1>1. Len(empty) = 0 /\ Len(pattern) \in Nat /\ DOMAIN pattern = 1..Len(pattern)
  OBVIOUS
<1>2. rest \in Seq(Segments)
  BY CompiledPatternTyped
<1>3. Len(rest) = Len(pattern) /\ \A j \in 1..Len(rest) : rest[j] = Compiled(pattern[0 + j])
  <2>1. DOMAIN rest = 1..Len(pattern) /\ DOMAIN rest = 1..Len(rest) /\ Len(rest) \in Nat
    BY <1>1, <1>2
  <2> DEFINE m == Len(rest)
             n == Len(pattern)
  <2>2. 1..m = 1..n /\ m \in Nat /\ n \in Nat
    BY <1>1, <2>1
  <2>3. m = n
    <3> HIDE DEF m, n
    <3>1. m \in 1..m \/ m = 0
      BY <2>2
    <3>2. n \in 1..n \/ n = 0
      BY <2>2
    <3> QED
      BY <2>2, <3>1, <3>2
  <2> QED
    BY <1>1, <2>1, <2>3
<1> HIDE DEF empty, rest
<1>4. Part(empty, rest, pattern)
  <2>1. 0 + Len(rest) = Len(pattern)
    BY <1>1, <1>3
  <2> QED
    BY <1>1, <1>3, <2>1 DEF Part
<1> QED
  BY <1>4 DEF empty, rest

\* and goes on behind the segment whose name is accepted.
LEMMA PartGrows ==
  ASSUME NEW path \in GlobPaths, NEW rest \in Seq(Segments), rest # <<>>,
         NEW pattern \in Seq(Segments), Part(path, rest, pattern)
  PROVE  /\ Len(path) + 1 \in 1..Len(pattern) /\ pattern[Len(path) + 1] \in Segments
         /\ Head(rest) = Compiled(pattern[Len(path) + 1])
         /\ \A name : Accepts(name, pattern[Len(path) + 1]) => Part(Append(path, name), Tail(rest), pattern)
<1> DEFINE l == Len(path)
           m == Len(rest)
<1>1. /\ l \in Nat /\ m \in Nat \ {0} /\ Len(pattern) \in Nat
      /\ l + m = Len(pattern)
      /\ \A j \in 1..l : Accepts(path[j], pattern[j])
      /\ \A j \in 1..m : rest[j] = Compiled(pattern[l + j])
  BY DEF Part, GlobPaths
<1>2. Head(rest) = rest[1] /\ Len(Tail(rest)) = m - 1 /\ \A j \in 1..m - 1 : Tail(rest)[j] = rest[j + 1]
  OBVIOUS
<1>3. l + 1 \in 1..Len(pattern)
  <2> HIDE DEF l, m
  <2> QED
    BY <1>1
<1>4. pattern[l + 1] \in Segments
  <2> HIDE DEF l
  <2> QED
    BY <1>3
<1>5. ASSUME NEW name, Accepts(name, pattern[l + 1])
      PROVE  Part(Append(path, name), Tail(rest), pattern)
  <2> DEFINE longer == Append(path, name)
             less == Tail(rest)
  <2>1. /\ Len(longer) = l + 1 /\ longer[l + 1] = name
        /\ \A j \in 1..l : longer[j] = path[j]
    <3>1. path \in Seq(Seq(Characters \cup {MetaCharacter}) \cup {name})
      BY DEF GlobPaths
    <3> DEFINE T == Seq(Characters \cup {MetaCharacter}) \cup {name}
    <3>2. path \in Seq(T) /\ name \in T
      BY <3>1
    <3> HIDE DEF T
    <3> QED
      BY <3>2
  <2> HIDE DEF longer, less, l, m
  <2>2. \A j \in 1..l + 1 : Accepts(longer[j], pattern[j])
    <3>1. \A j \in 1..l + 1 : j \in 1..l \/ j = l + 1
      BY <1>1
    <3> QED
      BY <1>1, <1>5, <2>1, <3>1
  <2>3. Len(less) = m - 1
    BY <1>2 DEF less
  <2>4. (l + 1) + (m - 1) = Len(pattern)
    BY <1>1
  <2>5. ASSUME NEW j \in 1..m - 1 PROVE less[j] = Compiled(pattern[(l + 1) + j])
    <3>1. less[j] = rest[j + 1] /\ j + 1 \in 1..m /\ l + (j + 1) = (l + 1) + j
      BY <1>1, <1>2 DEF less
    <3>2. rest[j + 1] = Compiled(pattern[l + (j + 1)])
      BY <1>1, <3>1
    <3> QED
      BY <3>1, <3>2
  <2>6. Part(longer, less, pattern)
    BY <2>1, <2>2, <2>3, <2>4, <2>5 DEF Part
  <2> QED
    BY <2>6 DEF longer, less
<1>6. Head(rest) = Compiled(pattern[l + 1])
  <2> HIDE DEF l, m
  <2> QED
    BY <1>1, <1>2
<1> QED
  BY <1>3, <1>4, <1>5, <1>6

\* What the pattern stands for are paths as long as it is.
LEMMA MatchingPaths ==
  ASSUME NEW pattern \in Seq(Segments), NEW path \in Matching(pattern)
  PROVE  /\ path \in Paths /\ path \in GlobPaths /\ path \in Seq(Seq(Characters))
         /\ Len(path) = Len(pattern)
         /\ \A j \in 1..Len(path) : Accepts(path[j], pattern[j])
<1>1. path \in Paths /\ Len(path) = Len(pattern) /\ \A j \in 1..Len(path) : Accepts(path[j], pattern[j])
  BY DEF Matching
<1>2. path \in Seq(Seq(Characters))
  BY <1>1, PathsExist
<1>3. path \in GlobPaths
  BY <1>2 DEF GlobPaths
<1> QED
  BY <1>1, <1>2, <1>3

\* A walk at the end of the pattern has found a path, if there is one.
LEMMA WalkedPathMatches ==
  ASSUME NEW pattern \in Seq(Segments), NEW path \in GlobPaths, Part(path, <<>>, pattern)
  PROVE  /\ Exists(path) => path \in Matching(pattern)
         /\ \A q \in Matching(pattern) : Under(path, q) => q = path /\ Exists(path)
<1>1. Len(path) = Len(pattern) /\ \A j \in 1..Len(path) : Accepts(path[j], pattern[j])
  <2> DEFINE empty == <<>>
  <2>1. Len(empty) = 0 /\ Len(path) \in Nat
    BY DEF GlobPaths
  <2> HIDE DEF empty
  <2>2. Part(path, empty, pattern)
    BY DEF empty
  <2> QED
    BY <2>1, <2>2 DEF Part
<1>2. Exists(path) => path \in Matching(pattern)
  BY <1>1, PathsExist DEF Matching
<1>3. ASSUME NEW q \in Matching(pattern), Under(path, q) PROVE q = path /\ Exists(path)
  <2>1. q \in GlobPaths /\ Len(q) = Len(pattern) /\ q \in Paths
    BY MatchingPaths
  <2>2. q = path
    BY <1>1, <1>3, <2>1, UnderDir
  <2> QED
    BY <2>1, <2>2, PathsExist
<1> QED
  BY <1>2, <1>3

\* A directory above a path of the tree is in the tree, with a name for the path.
LEMMA DirAbovePath ==
  ASSUME NEW dir \in GlobPaths, NEW path \in Paths, NEW n \in Nat, n > 0, Len(dir) + n = Len(path),
         Under(dir, path)
  PROVE  dir \in DOMAIN Tree /\ path[Len(dir) + 1] \in Tree[dir]
<1>1. path \in GlobPaths
  BY PathsExist DEF GlobPaths
<1>2. dir = SubSeq(path, 1, Len(dir))
  BY <1>1, UnderDir
<1>3. Len(dir) \in 0..Len(path) - 1
  BY <1>1 DEF GlobPaths
<1> QED
  BY <1>2, <1>3, DirectoriesOfPath

LEMMA WalkFacts ==
  ASSUME FitInv, pc = "walk"
  PROVE  /\ Head(todo) \in Seq(Segments)
         /\ visit \in Visits \cup {NULL}
         /\ visit # NULL => /\ visit \in Visits /\ visit.path \in GlobPaths /\ visit.rest \in Seq(Segments)
                            /\ Part(visit.path, visit.rest, Head(todo))
         /\ stack \in Seq(OpenDirs) /\ Len(stack) \in Nat
         /\ \A i \in 1..Len(stack) : /\ stack[i] \in OpenDirs
                                     /\ stack[i].path \in GlobPaths
                                     /\ stack[i].unread \in SUBSET Seq(Characters)
                                     /\ stack[i].rest \in Seq(Segments) /\ stack[i].rest # <<>>
                                     /\ Part(stack[i].path, stack[i].rest, Head(todo))
         /\ ~skipped =>
              \A path \in Matching(Head(todo)) : Ahead(path, visit, stack) \/ Found(path)
<1>1. /\ todo \in Seq(Seq(Segments)) /\ todo # <<>> /\ visit \in Visits \cup {NULL}
      /\ stack \in Seq(OpenDirs)
  BY DEF FitInv, ListInv, WalkTyped
<1>2. Head(todo) \in Seq(Segments) /\ Len(stack) \in Nat
  BY <1>1
<1>3. visit # NULL => visit \in Visits /\ visit.path \in GlobPaths /\ visit.rest \in Seq(Segments)
  BY <1>1 DEF Visits
<1>4. \A i \in 1..Len(stack) : /\ stack[i] \in OpenDirs
                               /\ stack[i].path \in GlobPaths
                               /\ stack[i].unread \in SUBSET Seq(Characters)
                               /\ stack[i].rest \in Seq(Segments) /\ stack[i].rest # <<>>
  <2>1. \A i \in 1..Len(stack) : stack[i] \in OpenDirs
    BY <1>1
  <2> QED
    BY <2>1 DEF OpenDirs
<1>5. WalkFits /\ AllAhead
  BY DEF FitInv
<1> QED
  BY <1>1, <1>2, <1>3, <1>4, <1>5 DEF WalkFits, AllAhead

LEMMA Glob0KeepsWalk == ASSUME FitInv, Glob0 PROVE WalkFits' /\ AllAhead'
<1> DEFINE pattern == Head(todo)
           rest == [j \in DOMAIN pattern |-> Compiled(pattern[j])]
<1>1. /\ pc = "next" /\ pc' = "walk" /\ UNCHANGED <<todo, stack>>
      /\ visit' = IF pattern = <<>> THEN NULL ELSE [path |-> <<>>, rest |-> rest]
  BY DEF Glob0
<1>2. stack = <<>>
  BY <1>1 DEF FitInv, WalkFits
<1>3. pattern \in Seq(Segments)
  BY DEF Glob0, FitInv, ListInv, WalkTyped
<1> HIDE DEF pattern
<1>4. Part(<<>>, rest, pattern)
  BY <1>3, PartStarts
<1>5. WalkFits'
  <2>1. visit' # NULL => visit'.path = <<>> /\ visit'.rest = rest
    BY <1>1
  <2>2. visit' # NULL => Part(visit'.path, visit'.rest, pattern)
    BY <1>4, <2>1
  <2>3. 1..Len(stack') = {}
    BY <1>1, <1>2
  <2>4. Head(todo') = pattern
    BY <1>1 DEF pattern
  <2> QED
    BY <1>1, <2>2, <2>3, <2>4 DEF WalkFits
<1>6. ASSUME NEW path \in Matching(pattern) PROVE Ahead(path, visit', stack')
  <2>1. path \in GlobPaths /\ path \in Paths /\ Len(path) = Len(pattern)
    BY <1>3, MatchingPaths
  <2>2. path # <<>>
    BY <2>1, PathsExist DEF Exists
  <2>3. pattern # <<>>
    BY <1>3, <2>1, <2>2 DEF GlobPaths
  <2>4. visit' = [path |-> <<>>, rest |-> rest] /\ visit' # NULL
    <3>1. [path |-> <<>>, rest |-> rest] \in Visits
      <4>1. <<>> \in GlobPaths /\ rest \in Seq(Segments)
        BY <1>3, CompiledPatternTyped DEF GlobPaths
      <4> QED
        BY <4>1 DEF Visits
    <3> QED
      BY <1>1, <2>3, <3>1, GlobAssumption
  <2>5. Under(<<>>, path)
    BY <2>1, UnderDir
  <2>6. Under(visit'.path, path)
    BY <2>4, <2>5
  <2> QED
    BY <2>4, <2>6 DEF Ahead
<1>7. AllAhead'
  <2>1. Head(todo') = pattern
    BY <1>1 DEF pattern
  <2> QED
    BY <1>6, <2>1 DEF AllAhead
<1> QED
  BY <1>5, <1>7

\* glob2 goes on behind a literal segment.
LEMMA NextSegmentKeepsWalk == ASSUME FitInv, NextSegment PROVE WalkFits' /\ AllAhead'
<1> DEFINE pattern == Head(todo)
           n == Len(visit.path) + 1
           name == Literal(Head(visit.rest))
<1>1. /\ pc = "walk" /\ visit # NULL /\ visit.rest # <<>> /\ ~IsMagic(Head(visit.rest))
      /\ visit' = [path |-> Append(visit.path, name), rest |-> Tail(visit.rest)]
      /\ UNCHANGED <<todo, stack, pc, skipped, pathv, offs, pathc, oldpathc>>
  BY DEF NextSegment, list, history
<1>2. visit'.path = Append(visit.path, name) /\ visit'.rest = Tail(visit.rest)
  BY <1>1
<1>3. /\ pattern \in Seq(Segments) /\ visit.path \in GlobPaths /\ visit.rest \in Seq(Segments)
      /\ Part(visit.path, visit.rest, pattern)
  BY <1>1, WalkFacts
<1>4. /\ n \in 1..Len(pattern) /\ pattern[n] \in Segments /\ Head(visit.rest) = Compiled(pattern[n])
      /\ Accepts(name, pattern[n]) => Part(Append(visit.path, name), Tail(visit.rest), pattern)
  BY <1>1, <1>3, PartGrows
<1>5. /\ Accepts(name, pattern[n])
      /\ \A q \in Seq(Characters) : Accepts(q, pattern[n]) => q = name
  BY <1>1, <1>4, LiteralAccepts
<1>6. Part(visit'.path, visit'.rest, pattern)
  BY <1>2, <1>4, <1>5
<1>7. WalkFits'
  BY <1>1, <1>6, WalkFacts DEF WalkFits
<1>8. ASSUME NEW path \in Matching(pattern), Ahead(path, visit, stack)
      PROVE  Ahead(path, visit', stack')
  <2>1. CASE visit # NULL /\ Under(visit.path, path)
    <3>1. /\ path \in GlobPaths /\ path \in Seq(Seq(Characters)) /\ Len(path) = Len(pattern)
          /\ \A j \in 1..Len(path) : Accepts(path[j], pattern[j])
      BY <1>3, MatchingPaths
    <3>2. Accepts(path[n], pattern[n]) /\ path[n] \in Seq(Characters)
      BY <1>4, <3>1
    <3>3. path[n] = name
      BY <1>5, <3>2
    <3>4. Len(visit.path) < Len(path)
      <4>1. Len(visit.path) \in Nat /\ Len(path) \in Nat
        BY <1>3, <3>1 DEF GlobPaths
      <4> QED
        BY <1>4, <3>1, <4>1
    <3>5. Under(Append(visit.path, name), path)
      BY <1>3, <2>1, <3>1, <3>3, <3>4, UnderDir
    <3>6. visit' # NULL
      <4>1. Append(visit.path, name) \in GlobPaths /\ Tail(visit.rest) \in Seq(Segments)
        <5>1. name \in Seq(Characters \cup {MetaCharacter})
          <6>1. Head(visit.rest) \in Segments
            BY <1>1, <1>3
          <6> QED
            BY <6>1, LiteralTyped
        <5>2. Append(visit.path, name) \in GlobPaths
          BY <1>3, <5>1, LongerPath
        <5> QED
          BY <1>1, <1>3, <5>2
      <4>2. visit' \in Visits
        BY <1>1, <4>1 DEF Visits
      <4> QED
        BY <4>2, GlobAssumption
    <3> QED
      BY <1>2, <3>5, <3>6 DEF Ahead
  <2>2. CASE \E i \in 1..Len(stack) : \E f \in stack[i].unread : Under(Append(stack[i].path, f), path)
    BY <1>1, <2>2 DEF Ahead
  <2> QED
    BY <1>8, <2>1, <2>2 DEF Ahead
<1>9. AllAhead'
  BY <1>1, <1>8, WalkFacts DEF AllAhead, Found, NewCells
<1> QED
  BY <1>7, <1>9

\* A path that does not exist is none that is looked for.
LEMMA NoSuchFileKeepsWalk == ASSUME FitInv, NoSuchFile PROVE WalkFits' /\ AllAhead'
<1> DEFINE pattern == Head(todo)
<1>1. /\ pc = "walk" /\ visit # NULL /\ visit.rest = <<>> /\ ~Exists(visit.path) /\ visit' = NULL
      /\ UNCHANGED <<todo, stack, pc, skipped, pathv, offs, pathc, oldpathc>>
  BY DEF NoSuchFile, AtEnd, list, history
<1>2. pattern \in Seq(Segments) /\ visit.path \in GlobPaths /\ Part(visit.path, <<>>, pattern)
  BY <1>1, WalkFacts
<1>3. WalkFits'
  BY <1>1, WalkFacts DEF WalkFits
<1>4. ASSUME NEW path \in Matching(pattern), Ahead(path, visit, stack)
      PROVE  Ahead(path, visit', stack')
  <2>1. ~Under(visit.path, path)
    BY <1>1, <1>2, WalkedPathMatches
  <2> QED
    BY <1>1, <1>4, <2>1 DEF Ahead
<1>5. AllAhead'
  BY <1>1, <1>4, WalkFacts DEF AllAhead, Found, NewCells
<1> QED
  BY <1>3, <1>5

\* A directory that cannot be opened is noted, or is none and has nothing in it.
LEMMA SkipDirKeepsWalk == ASSUME FitInv, SkipDir PROVE WalkFits' /\ AllAhead'
<1> DEFINE pattern == Head(todo)
<1>1. /\ pc = "walk" /\ visit # NULL /\ visit.rest # <<>> /\ visit' = NULL
      /\ skipped' = (skipped \/ visit.path \in DOMAIN Tree)
      /\ UNCHANGED <<todo, stack, pc, pathv, offs, pathc, oldpathc>>
  BY DEF SkipDir, AtMagic, list
<1>2. /\ pattern \in Seq(Segments) /\ visit.path \in GlobPaths /\ visit.rest \in Seq(Segments)
      /\ Part(visit.path, visit.rest, pattern)
  BY <1>1, WalkFacts
<1>3. WalkFits'
  BY <1>1, WalkFacts DEF WalkFits
<1>4. ~skipped' => ~skipped /\ visit.path \notin DOMAIN Tree
  BY <1>1
<1>5. ASSUME visit.path \notin DOMAIN Tree, NEW path \in Matching(pattern), Ahead(path, visit, stack)
      PROVE  Ahead(path, visit', stack')
  <2>1. ~Under(visit.path, path)
    <3>1. path \in Paths /\ Len(path) = Len(pattern)
      BY <1>2, MatchingPaths
    <3> DEFINE n == Len(visit.rest)
    <3>2. n \in Nat /\ n > 0 /\ Len(visit.path) + n = Len(path)
      <4>1. n \in Nat /\ n > 0
        BY <1>1, <1>2
      <4>2. Len(visit.path) + Len(visit.rest) = Len(pattern)
        BY <1>2 DEF Part
      <4> QED
        BY <3>1, <4>1, <4>2
    <3> HIDE DEF n
    <3> QED
      BY <1>2, <1>5, <3>1, <3>2, DirAbovePath
  <2> QED
    BY <1>1, <1>5, <2>1 DEF Ahead
<1>6. AllAhead'
  BY <1>1, <1>4, <1>5, WalkFacts DEF AllAhead, Found, NewCells
<1> QED
  BY <1>3, <1>6

\* What is under the directory is under one of the names that are to be read.
LEMMA OpenDirKeepsWalk == ASSUME FitInv, OpenDir PROVE WalkFits' /\ AllAhead'
<1> DEFINE pattern == Head(todo)
           dir == [path |-> visit.path, unread |-> Tree[visit.path], rest |-> visit.rest]
           l == Len(stack)
<1>1. /\ pc = "walk" /\ visit # NULL /\ visit.rest # <<>> /\ visit' = NULL
      /\ visit.path \in DOMAIN Tree /\ stack' = Append(stack, dir)
      /\ UNCHANGED <<todo, pc, skipped, pathv, offs, pathc, oldpathc>>
  BY DEF OpenDir, AtMagic, list, history
<1>2. /\ pattern \in Seq(Segments) /\ visit.path \in GlobPaths /\ visit.rest \in Seq(Segments)
      /\ Part(visit.path, visit.rest, pattern)
      /\ stack \in Seq(OpenDirs) /\ l \in Nat
  BY <1>1, WalkFacts
<1>3. dir \in OpenDirs
  <2>1. Tree[visit.path] \subseteq Seq(Characters)
    BY <1>1, GlobAssumption
  <2> QED
    BY <1>1, <1>2, <2>1 DEF OpenDirs
<1>4. dir.path = visit.path /\ dir.unread = Tree[visit.path] /\ dir.rest = visit.rest
  OBVIOUS
<1> HIDE DEF dir
<1>5. Len(stack') = l + 1 /\ stack'[l + 1] = dir /\ \A i \in 1..l : stack'[i] = stack[i]
  BY <1>1, <1>2, <1>3
<1>6. /\ l + 1 \in 1..Len(stack') /\ \A i \in 1..l : i \in 1..Len(stack')
      /\ \A i \in 1..Len(stack') : i \in 1..l \/ i = l + 1
  BY <1>2, <1>5
<1> HIDE DEF l
<1>7. WalkFits'
  <2>1. ASSUME NEW i \in 1..Len(stack') PROVE Part(stack'[i].path, stack'[i].rest, pattern)
    <3>1. CASE i = l + 1
      BY <1>2, <1>4, <1>5, <3>1
    <3>2. CASE i \in 1..l
      <4>1. Part(stack[i].path, stack[i].rest, pattern)
        BY <1>1, <3>2, WalkFacts DEF l
      <4> QED
        BY <1>5, <3>2, <4>1
    <3> QED
      BY <1>6, <3>1, <3>2
  <2> QED
    BY <1>1, <2>1 DEF WalkFits
<1>8. ASSUME NEW path \in Matching(pattern), Ahead(path, visit, stack)
      PROVE  Ahead(path, visit', stack')
  <2>1. CASE Under(visit.path, path)
    <3>1. path \in Paths /\ path \in GlobPaths /\ Len(path) = Len(pattern)
      BY <1>2, MatchingPaths
    <3> DEFINE n == Len(visit.rest)
    <3>2. n \in Nat /\ n > 0
      BY <1>1, <1>2
    <3>3. Len(visit.path) + n = Len(path)
      BY <1>2, <3>1 DEF Part
    <3> HIDE DEF n
    <3>4. path[Len(visit.path) + 1] \in Tree[visit.path]
      BY <1>2, <2>1, <3>1, <3>2, <3>3, DirAbovePath
    <3>5. Len(visit.path) < Len(path)
      <4>1. Len(visit.path) \in Nat /\ Len(path) \in Nat
        BY <1>2, <3>1 DEF GlobPaths
      <4> QED
        BY <3>2, <3>3, <4>1
    <3>6. Under(Append(visit.path, path[Len(visit.path) + 1]), path)
      BY <1>2, <2>1, <3>1, <3>5, UnderDir
    <3>7. \E f \in stack'[l + 1].unread : Under(Append(stack'[l + 1].path, f), path)
      BY <1>4, <1>5, <3>4, <3>6
    <3> QED
      BY <1>6, <3>7 DEF Ahead
  <2>2. CASE \E i \in 1..l : \E f \in stack[i].unread : Under(Append(stack[i].path, f), path)
    <3>1. PICK i \in 1..l : \E f \in stack[i].unread : Under(Append(stack[i].path, f), path)
      BY <2>2
    <3>2. \E f \in stack'[i].unread : Under(Append(stack'[i].path, f), path)
      BY <1>5, <3>1
    <3> QED
      BY <1>6, <3>2 DEF Ahead
  <2> QED
    BY <1>8, <2>1, <2>2 DEF Ahead, l
<1>9. AllAhead'
  BY <1>1, <1>8, WalkFacts DEF AllAhead, Found, NewCells
<1> QED
  BY <1>7, <1>9

\* A name that is read is followed if it is accepted; no path that is looked for is
\* under one that is not.
LEMMA ReadDirKeepsWalk == ASSUME FitInv, ReadDir PROVE WalkFits' /\ AllAhead'
<1> DEFINE pattern == Head(todo)
           l == Len(stack)
           dir == stack[l]
           n == Len(dir.path) + 1
           Good(f) == ShowsDots(f, Head(dir.rest)) /\ Match(f, Head(dir.rest))
<1>1. /\ pc = "walk" /\ visit = NULL /\ stack # <<>>
      /\ UNCHANGED <<todo, pc, skipped, pathv, offs, pathc, oldpathc>>
  BY DEF ReadDir, Reading, list, history
<1>2. /\ pattern \in Seq(Segments) /\ stack \in Seq(OpenDirs) /\ l \in Nat
  BY <1>1, WalkFacts
<1>3. l \in 1..l /\ Last(stack) = dir
  BY <1>1, <1>2 DEF Last
<1>4. /\ dir \in OpenDirs /\ dir.path \in GlobPaths /\ dir.unread \in SUBSET Seq(Characters)
      /\ dir.rest \in Seq(Segments) /\ dir.rest # <<>> /\ Part(dir.path, dir.rest, pattern)
  BY <1>1, <1>3, WalkFacts
<1>5. PICK name \in dir.unread :
        /\ stack' = [stack EXCEPT ![l].unread = @ \ {name}]
        /\ visit' = IF Good(name) THEN [path |-> Append(dir.path, name), rest |-> Tail(dir.rest)]
                    ELSE NULL
  BY <1>3 DEF ReadDir
<1>6. name \in Seq(Characters)
  BY <1>4, <1>5
<1>7. /\ n \in 1..Len(pattern) /\ pattern[n] \in Segments /\ Head(dir.rest) = Compiled(pattern[n])
      /\ Accepts(name, pattern[n]) => Part(Append(dir.path, name), Tail(dir.rest), pattern)
  <2> HIDE DEF dir, pattern
  <2>1. /\ Len(dir.path) + 1 \in 1..Len(pattern) /\ pattern[Len(dir.path) + 1] \in Segments
        /\ Head(dir.rest) = Compiled(pattern[Len(dir.path) + 1])
        /\ \A f : Accepts(f, pattern[Len(dir.path) + 1]) =>
                  Part(Append(dir.path, f), Tail(dir.rest), pattern)
    <3> DEFINE path == dir.path
               rest == dir.rest
    <3>1. /\ path \in GlobPaths /\ rest \in Seq(Segments) /\ rest # <<>> /\ pattern \in Seq(Segments)
          /\ Part(path, rest, pattern)
      BY <1>2, <1>4
    <3> HIDE DEF path, rest
    <3>2. /\ Len(path) + 1 \in 1..Len(pattern) /\ pattern[Len(path) + 1] \in Segments
          /\ Head(rest) = Compiled(pattern[Len(path) + 1])
          /\ \A f : Accepts(f, pattern[Len(path) + 1]) => Part(Append(path, f), Tail(rest), pattern)
      BY <3>1, PartGrows
    <3> QED
      BY <3>2 DEF path, rest
  <2> QED
    BY <2>1
<1>8. Good(name) <=> Accepts(name, pattern[n])
  BY <1>6, <1>7, MatchIsAcceptance
<1>9. /\ Len(stack') = l /\ stack'[l].path = dir.path /\ stack'[l].rest = dir.rest
      /\ stack'[l].unread = dir.unread \ {name}
      /\ \A i \in 1..l : i # l => stack'[i] = stack[i]
  <2> DEFINE new == [dir EXCEPT !.unread = @ \ {name}]
  <2>2. new.path = dir.path /\ new.rest = dir.rest /\ new.unread = dir.unread \ {name}
    BY <1>4 DEF OpenDirs
  <2>3. new \in OpenDirs
    BY <1>4 DEF OpenDirs
  <2>1. stack' = [stack EXCEPT ![l] = new]
    BY <1>5
  <2> HIDE DEF new, dir
  <2>4. Len(stack') = l /\ stack'[l] = new /\ \A i \in 1..l : i # l => stack'[i] = stack[i]
    BY <1>2, <1>3, <2>1, <2>3
  <2> QED
    BY <2>2, <2>4
<1> HIDE DEF Good, dir, n
<1>10. visit' # NULL => /\ visit'.path = Append(dir.path, name) /\ visit'.rest = Tail(dir.rest)
                        /\ Accepts(name, pattern[n])
  BY <1>5, <1>8
<1>11. Accepts(name, pattern[n]) => visit' # NULL
  <2>1. Append(dir.path, name) \in GlobPaths
    BY <1>4, <1>6, LongerPath, NamesArePathNames
  <2>2. [path |-> Append(dir.path, name), rest |-> Tail(dir.rest)] \in Visits
    BY <1>4, <2>1 DEF Visits
  <2> QED
    BY <1>5, <1>8, <2>2, GlobAssumption
<1>12. WalkFits'
  <2>1. visit' # NULL => Part(visit'.path, visit'.rest, pattern)
    BY <1>7, <1>10
  <2>2. ASSUME NEW i \in 1..Len(stack') PROVE Part(stack'[i].path, stack'[i].rest, pattern)
    <3>1. i \in 1..l
      BY <1>9
    <3>2. Part(stack[i].path, stack[i].rest, pattern)
      BY <1>1, <3>1, WalkFacts
    <3>3. stack'[i].path = stack[i].path /\ stack'[i].rest = stack[i].rest
      BY <1>9, <3>1 DEF dir
    <3> QED
      BY <3>2, <3>3
  <2> QED
    BY <1>1, <2>1, <2>2 DEF WalkFits
<1>13. ASSUME NEW path \in Matching(pattern), Ahead(path, visit, stack)
      PROVE  Ahead(path, visit', stack')
  <2>1. PICK i \in 1..l : \E f \in stack[i].unread : Under(Append(stack[i].path, f), path)
    BY <1>1, <1>13 DEF Ahead
  <2>2. PICK f \in stack[i].unread : Under(Append(stack[i].path, f), path)
    BY <2>1
  <2>3. CASE i = l /\ f = name
    <3>1. Under(Append(dir.path, name), path)
      BY <2>2, <2>3 DEF dir
    <3>2. /\ path \in GlobPaths /\ path \in Seq(Seq(Characters)) /\ Len(path) = Len(pattern)
          /\ \A j \in 1..Len(path) : Accepts(path[j], pattern[j])
      BY <1>2, MatchingPaths
    <3>3. name = path[n]
      BY <1>4, <3>1, <3>2, UnderDir DEF n
    <3>4. Accepts(name, pattern[n])
      BY <1>7, <3>2, <3>3
    <3> QED
      BY <1>10, <1>11, <3>1, <3>4 DEF Ahead
  <2>4. CASE ~(i = l /\ f = name)
    <3>1. f \in stack'[i].unread /\ stack'[i].path = stack[i].path
      <4>1. CASE i = l
        BY <1>9, <2>2, <2>4, <4>1 DEF dir
      <4>2. CASE i # l
        BY <1>9, <2>2, <4>2
      <4> QED
        BY <4>1, <4>2
    <3>2. i \in 1..Len(stack') /\ Under(Append(stack'[i].path, f), path)
      BY <1>9, <2>2, <3>1
    <3> QED
      BY <3>1, <3>2 DEF Ahead
  <2> QED
    BY <2>3, <2>4
<1>14. AllAhead'
  BY <1>1, <1>13, WalkFacts DEF AllAhead, Found, NewCells
<1> QED
  BY <1>12, <1>14

\* Nothing is left under a directory that is read to its end.
LEMMA CloseDirKeepsWalk == ASSUME FitInv, CloseDir PROVE WalkFits' /\ AllAhead'
<1> DEFINE pattern == Head(todo)
           l == Len(stack)
<1>1. /\ pc = "walk" /\ visit = NULL /\ stack # <<>> /\ Last(stack).unread = {}
      /\ stack' = Front(stack)
      /\ UNCHANGED <<todo, visit, pc, skipped, pathv, offs, pathc, oldpathc>>
  BY DEF CloseDir, Reading, list, history
<1>2. stack \in Seq(OpenDirs) /\ l \in Nat /\ l > 0
  <2>1. stack \in Seq(OpenDirs)
    BY <1>1, WalkFacts
  <2> QED
    BY <1>1, <2>1
<1>3. stack[l].unread = {}
  BY <1>1 DEF Last
<1>4. Len(stack') = l - 1 /\ \A i \in 1..l - 1 : stack'[i] = stack[i]
  <2> DEFINE m == l - 1
  <2>1. m \in 0..Len(stack) /\ stack' = SubSeq(stack, 1, m)
    BY <1>1, <1>2 DEF Front
  <2> HIDE DEF m
  <2>2. Len(stack') = m /\ \A i \in 1..m : stack'[i] = stack[i]
    BY <1>2, <2>1, Prefix
  <2> QED
    BY <2>2 DEF m
<1>5. \A i \in 1..l - 1 : i \in 1..l
  BY <1>2
<1>6. WalkFits'
  BY <1>1, <1>4, <1>5, WalkFacts DEF WalkFits
<1>7. ASSUME NEW path, Ahead(path, visit, stack) PROVE Ahead(path, visit', stack')
  <2>1. PICK i \in 1..l : \E f \in stack[i].unread : Under(Append(stack[i].path, f), path)
    BY <1>1, <1>7 DEF Ahead
  <2>2. i \in 1..l - 1
    BY <1>2, <1>3, <2>1
  <2>3. \E f \in stack'[i].unread : Under(Append(stack'[i].path, f), path)
    BY <1>4, <2>1, <2>2
  <2> QED
    BY <1>4, <2>2, <2>3 DEF Ahead
<1>8. AllAhead'
  BY <1>1, <1>7, WalkFacts DEF AllAhead, Found, NewCells
<1> QED
  BY <1>6, <1>8

\* What globextend adds.
LEMMA AddedCell ==
  ASSUME FitInv, NEW path \in GlobPaths, AddPath(path), pc = "walk",
         UNCHANGED <<offs, oldpathc, calls>>
  PROVE  /\ pathv' # NULL /\ pathc' = pathc + 1
         /\ NewCells' = NewCells \cup {offs + pathc + 1} /\ offs + pathc + 1 \notin NewCells
         /\ pathv'[offs + pathc + 1] = path
         /\ \A j \in NewCells : pathv'[j] = pathv[j]
<1>1. /\ offs \in Nat /\ pathc \in Nat /\ oldpathc \in Nat /\ oldpathc <= pathc
  BY DEF FitInv, ListInv, IInv, Counts
<1>2. pathc' = pathc + 1 /\ pathv' = Stored(Grown, path)
  BY DEF AddPath
<1>3. pathv'[offs + pathc + 1] = path /\ pathv' # NULL
  BY AddingKeepsList DEF FitInv
<1>4. NewCells' = NewCells \cup {offs + pathc + 1} /\ offs + pathc + 1 \notin NewCells
  BY <1>1, <1>2 DEF NewCells
<1>5. ASSUME NEW j \in NewCells PROVE pathv'[j] = pathv[j]
  <2>1. j \in 1..offs + pathc /\ pathc # oldpathc
    BY <1>1 DEF NewCells
  <2>2. pathv # NULL
    BY <2>1 DEF FitInv, ListInv, ArrayTyped
  <2> QED
    BY <1>2, <2>1, <2>2, StoringKeepsTheRest DEF FitInv, ListInv
<1> QED
  BY <1>2, <1>3, <1>4, <1>5

\* A path that is found is ahead no more, but it is found.
LEMMA FileFoundKeepsAhead == ASSUME FitInv, FileFound PROVE AllAhead'
<1> DEFINE pattern == Head(todo)
<1>1. /\ pc = "walk" /\ visit # NULL /\ visit.rest = <<>> /\ visit' = NULL
      /\ AddPath(visit.path) /\ UNCHANGED <<todo, stack, pc, skipped, offs, oldpathc, calls>>
  BY DEF FileFound, AtEnd, history
<1>2. pattern \in Seq(Segments) /\ visit.path \in GlobPaths /\ Part(visit.path, <<>>, pattern)
  BY <1>1, WalkFacts
<1>3. /\ NewCells' = NewCells \cup {offs + pathc + 1} /\ pathv'[offs + pathc + 1] = visit.path
      /\ \A j \in NewCells : pathv'[j] = pathv[j]
  BY <1>1, <1>2, AddedCell
<1>4. ASSUME NEW path \in Matching(pattern), Ahead(path, visit, stack) \/ Found(path)
      PROVE  Ahead(path, visit', stack') \/ Found(path)'
  <2>1. CASE Found(path)
    BY <1>3, <2>1 DEF Found
  <2>2. CASE Under(visit.path, path)
    <3>1. path = visit.path
      BY <1>2, <2>2, WalkedPathMatches
    <3> QED
      BY <1>3, <3>1 DEF Found
  <2>3. CASE Ahead(path, visit, stack) /\ ~Under(visit.path, path)
    BY <1>1, <2>3 DEF Ahead
  <2> QED
    BY <1>4, <2>1, <2>2, <2>3
<1> QED
  BY <1>1, <1>4, WalkFacts DEF AllAhead

-----------------------------------------------------------------------------
(* The alternatives, and the entries                                       *)

\* The alternative that is walked.
LEMMA Walked ==
  ASSUME FitInv, pc # "idle", todo # <<>>
  PROVE  LET patterns == Expand(call.pattern) IN
         /\ patterns \in Seq(Seq(Segments))
         /\ Done + 1 \in DOMAIN patterns /\ Head(todo) = patterns[Done + 1]
<1> DEFINE patterns == Expand(call.pattern)
           m == Len(todo)
<1>1. patterns \in Seq(Seq(Segments))
  BY ExpandTyped DEF FitInv, ListInv, WalkTyped
<1>2. todo \in Seq(Seq(Segments))
  BY DEF FitInv, ListInv, WalkTyped
<1>3. /\ Done \in Nat /\ \A i \in 1..m : todo[i] = patterns[Done + i]
  BY DEF FitInv, TodoFits
<1> HIDE DEF patterns
<1>4. Done = Len(patterns) - m /\ m \in Nat /\ m > 0 /\ Len(patterns) \in Nat
  BY <1>1, <1>2 DEF Done, patterns
<1>5. 1 \in 1..m /\ Head(todo) = todo[1]
  BY <1>2, <1>4
<1>6. Done + 1 \in 1..Len(patterns)
  BY <1>3, <1>4
<1>7. Head(todo) = patterns[Done + 1] /\ Done + 1 \in DOMAIN patterns
  BY <1>1, <1>3, <1>5, <1>6
<1> QED
  BY <1>1, <1>7 DEF patterns

\* A call begins with all of the alternatives, and none is behind it.
LEMMA GlobBeginsTodo == ASSUME FitInv, Glob PROVE TodoFits' /\ MagcharFits'
<1> DEFINE patterns == todo'
<1>1. todo' = Expand(call'.pattern) /\ pc' = "next"
  BY DEF Glob
<1>2. todo' \in Seq(Seq(Segments))
  BY BeginKeepsWalkTyped DEF FitInv, ListInv, WalkTyped
<1>3. Len(todo') \in Nat
  BY <1>2
<1>4. Done' = 0
  BY <1>1, <1>3 DEF Done
<1>5. \A i \in 1..Len(todo') : todo'[i] = Expand(call'.pattern)[0 + i]
  BY <1>1
<1>6. TodoFits'
  BY <1>4, <1>5 DEF TodoFits
<1>7. MagcharFits'
  BY <1>1, <1>4 DEF MagcharFits
<1> QED
  BY <1>6, <1>7

\* glob0 notes a meta character of its alternative.
LEMMA Glob0KeepsTodo == ASSUME FitInv, Glob0 PROVE TodoFits' /\ MagcharFits'
<1>1. /\ UNCHANGED <<call, todo>> /\ pc = "next" /\ pc' = "walk"
      /\ magchar' = (magchar \/ \E j \in DOMAIN Head(todo) : IsMagic(Head(todo)[j]))
  BY DEF Glob0
<1>2. TodoFits'
  BY <1>1 DEF FitInv, TodoFits, Done
<1>3. ~magchar' => ~magchar /\ NoMagic(Head(todo))
  BY <1>1 DEF NoMagic
<1>4. UNCHANGED Done
  BY <1>1 DEF Done
<1>5. ~magchar' => \A i \in 1..Done' : NoMagic(Expand(call'.pattern)[i])
  BY <1>1, <1>3, <1>4 DEF FitInv, MagcharFits
<1>6. ~magchar' => NoMagic(Head(todo'))
  BY <1>1, <1>3
<1> QED
  BY <1>2, <1>5, <1>6 DEF MagcharFits

\* When glob0 returns its alternative is behind the walk, and nothing is open.
LEMMA EndKeepsWalk ==
  ASSUME FitInv, pc = "walk", NEW rv, EndGlob0(rv), UNCHANGED <<call, magchar>>
  PROVE  TodoFits' /\ MagcharFits' /\ WalkFits' /\ AllAhead'
<1> DEFINE patterns == Expand(call.pattern)
           m == Len(todo)
<1>1. todo' = Tail(todo) /\ pc' = "next" /\ stack' = <<>>
  BY DEF EndGlob0
<1>2. WalkFits' /\ AllAhead'
  BY <1>1 DEF WalkFits, AllAhead
<1>3. todo \in Seq(Seq(Segments)) /\ todo # <<>>
  BY DEF FitInv, ListInv, WalkTyped
<1>4. /\ patterns \in Seq(Seq(Segments)) /\ Done + 1 \in DOMAIN patterns /\ Head(todo) = patterns[Done + 1]
  BY <1>3, Walked
<1>5. /\ Done \in Nat /\ \A i \in 1..m : todo[i] = patterns[Done + i]
  BY DEF FitInv, TodoFits
<1> HIDE DEF patterns
<1>6. /\ m \in Nat /\ m > 0 /\ Len(todo') = m - 1 /\ \A i \in 1..m - 1 : todo'[i] = todo[i + 1]
  BY <1>1, <1>3
<1>7. Done' = Done + 1
  <2>1. Done' = Len(patterns) - Len(todo') /\ Done = Len(patterns) - m /\ Len(patterns) \in Nat
    BY <1>4 DEF Done, patterns
  <2> QED
    BY <1>6, <2>1
<1> HIDE DEF m
<1>8. TodoFits'
  <2>1. ASSUME NEW i \in 1..m - 1 PROVE todo'[i] = patterns[(Done + 1) + i]
    <3>1. i + 1 \in 1..m /\ Done + (i + 1) = (Done + 1) + i
      BY <1>5, <1>6
    <3>2. todo[i + 1] = patterns[Done + (i + 1)]
      BY <1>5, <3>1
    <3> QED
      BY <1>6, <3>1, <3>2
  <2>2. \A i \in 1..Len(todo') : todo'[i] = patterns[Done' + i]
    BY <1>6, <1>7, <2>1
  <2>3. Done' \in Nat
    BY <1>5, <1>7
  <2> QED
    BY <2>2, <2>3 DEF TodoFits, patterns
<1>9. MagcharFits'
  <2>1. ASSUME ~magchar, NEW i \in 1..Done + 1 PROVE NoMagic(patterns[i])
    <3>1. CASE i = Done + 1
      BY <1>4, <2>1, <3>1 DEF FitInv, MagcharFits
    <3>2. CASE i # Done + 1
      <4>1. i \in 1..Done
        BY <1>5, <3>2
      <4> QED
        BY <2>1, <4>1 DEF FitInv, MagcharFits, patterns
    <3> QED
      BY <3>1, <3>2
  <2>2. ~magchar' => \A i \in 1..Done' : NoMagic(Expand(call'.pattern)[i])
    BY <1>7, <2>1 DEF patterns
  <2> QED
    BY <1>1, <2>2 DEF MagcharFits
<1> QED
  BY <1>2, <1>8, <1>9

\* The walk itself leaves the alternatives alone.
LEMMA WalkKeepsTodo ==
  ASSUME FitInv, UNCHANGED <<call, todo, magchar, pc>>
  PROVE  TodoFits' /\ MagcharFits'
<1>1. UNCHANGED Done
  BY DEF Done
<1> QED
  BY <1>1 DEF FitInv, TodoFits, MagcharFits

\* The entries still belong to the call with one more that does.
LEMMA AddingKeepsEntries ==
  ASSUME FitInv, NEW path \in GlobPaths, AddPath(path),
         UNCHANGED <<offs, before, oldpathc, calls, call, skipped>>, pc = "walk",
         Belongs(path, call) \/ (skipped /\ StandsIn(path, call))
  PROVE  EntriesFit'
<1>1. /\ pathc' = pathc + 1 /\ pathv' = Stored(Grown, path) /\ UNCHANGED lost
  BY DEF AddPath
<1>2. pathv'[offs + pathc + 1] = path
  BY AddingKeepsList DEF FitInv
<1>3. pathv # NULL => \A j \in 1..offs + pathc : pathv'[j] = pathv[j]
  BY <1>1, StoringKeepsTheRest DEF FitInv, ListInv
<1>4. offs \in Nat /\ pathc \in Nat /\ before \in Nat /\ before <= pathc
  BY DEF FitInv, ListInv, IInv, Counts
<1>5. ASSUME calls > 0, NEW j \in offs + before + 1..offs + pathc + 1, pathv'[j] # Garbage
      PROVE  Belongs(pathv'[j], call) \/ (skipped /\ StandsIn(pathv'[j], call))
  <2>1. CASE j = offs + pathc + 1
    BY <1>2, <2>1
  <2>2. CASE j # offs + pathc + 1
    <3>1. j \in offs + before + 1..offs + pathc /\ j \in 1..offs + pathc /\ j \in offs + 1..offs + pathc
      BY <1>4, <2>2
    <3>2. pathv # NULL
      <4>1. ListWhole' /\ pathv' # NULL /\ UNCHANGED <<offs, calls, lost>>
        BY <1>1, AddingKeepsList DEF FitInv
      <4>2. pathv = NULL => pathc = lost
        BY <1>5 DEF FitInv, ListInv, ListWhole
      <4> QED
        BY <1>5, <3>1, <4>1, <4>2 DEF ListWhole
    <3>3. pathv'[j] = pathv[j]
      BY <1>3, <3>1, <3>2
    <3>4. Belongs(pathv[j], call) \/ (skipped /\ StandsIn(pathv[j], call))
      BY <1>5, <3>1, <3>2, <3>3 DEF FitInv, EntriesFit
    <3> QED
      BY <3>3, <3>4
  <2> QED
    BY <2>1, <2>2
<1>6. offs + (pathc + 1) = offs + pathc + 1
  BY <1>4
<1> QED
  BY <1>1, <1>5, <1>6 DEF EntriesFit

LEMMA FailingKeepsEntries ==
  ASSUME FitInv, CannotAdd, UNCHANGED <<offs, before, calls, call, skipped>>, pc' = "next"
  PROVE  EntriesFit'
<1>1. UNCHANGED pathc
  BY DEF CannotAdd
<1>2. CASE UNCHANGED <<pathv, lost>>
  BY <1>1, <1>2 DEF FitInv, EntriesFit
<1>3. CASE pathv' = NULL
  BY <1>3 DEF EntriesFit
<1>4. CASE pathv' = NotStored(Grown) /\ UNCHANGED lost
  <2>1. offs \in Nat /\ pathc \in Nat /\ before \in Nat /\ before <= pathc
    BY DEF FitInv, ListInv, IInv, Counts
  <2>2. pathv # NULL => \A j \in 1..offs + pathc : pathv'[j] = pathv[j]
    BY <1>4, StoringKeepsTheRest DEF FitInv, ListInv
  <2>3. ASSUME calls > 0, pathv' # NULL, NEW j \in offs + before + 1..offs + pathc,
               pathv'[j] # Garbage
        PROVE  Belongs(pathv'[j], call) \/ (skipped /\ StandsIn(pathv'[j], call))
    <3>1. j \in 1..offs + pathc /\ j \in offs + 1..offs + pathc
      BY <2>1
    <3>2. pathv # NULL
      <4>1. ListWhole'
        BY FailingKeepsList DEF FitInv
      <4>2. pathv = NULL => pathc = lost
        BY <2>3 DEF FitInv, ListInv, ListWhole
      <4> QED
        BY <1>4, <2>3, <3>1, <4>1, <4>2 DEF ListWhole
    <3>3. pathv'[j] = pathv[j]
      BY <2>2, <3>1, <3>2
    <3>4. Belongs(pathv[j], call) \/ (skipped /\ StandsIn(pathv[j], call))
      BY <2>3, <3>2, <3>3 DEF FitInv, EntriesFit
    <3> QED
      BY <3>3, <3>4
  <2> QED
    BY <1>1, <1>4, <2>3 DEF EntriesFit
<1> QED
  BY <1>2, <1>3, <1>4 DEF CannotAdd

LEMMA SortingKeepsEntries ==
  ASSUME FitInv, pc = "walk", pathc # oldpathc, NEW order \in Orders, pathv' = Sorted(order),
         UNCHANGED <<pathc, offs, before, calls, call, skipped, lost>>
  PROVE  EntriesFit'
<1>1. /\ offs \in Nat /\ pathc \in Nat /\ before \in Nat /\ oldpathc \in Nat /\ pathv # NULL
      /\ before <= oldpathc
      /\ \E n \in Nat : n >= offs + pathc + 1 /\ DOMAIN pathv = 1..n
  BY DEF FitInv, ListInv, IInv, Counts, ArrayHasRoom, ArrayTyped
<1>2. \A j \in SortedCells : order[j] \in SortedCells
  BY DEF Orders
<1>3. SortedCells \subseteq offs + before + 1..offs + pathc
  BY <1>1 DEF SortedCells, SortFrom
<1>4. offs + before + 1..offs + pathc \subseteq DOMAIN pathv
  BY <1>1
<1>5. ASSUME calls > 0, NEW j \in offs + before + 1..offs + pathc, pathv'[j] # Garbage
      PROVE  Belongs(pathv'[j], call) \/ (skipped /\ StandsIn(pathv'[j], call))
  <2>1. PICK i \in offs + before + 1..offs + pathc : pathv'[j] = pathv[i]
    <3>1. pathv'[j] = IF j \in SortedCells THEN pathv[order[j]] ELSE pathv[j]
      BY <1>4 DEF Sorted
    <3>2. CASE j \in SortedCells
      BY <1>2, <1>3, <3>1, <3>2
    <3>3. CASE j \notin SortedCells
      BY <3>1, <3>3
    <3> QED
      BY <3>2, <3>3
  <2>2. Belongs(pathv[i], call) \/ (skipped /\ StandsIn(pathv[i], call))
    BY <1>1, <1>5, <2>1 DEF FitInv, EntriesFit
  <2> QED
    BY <2>1, <2>2
<1> QED
  BY <1>5 DEF EntriesFit

\* What is found belongs to the alternative that is walked.
LEMMA FoundBelongs == ASSUME FitInv, AtEnd, Exists(visit.path) PROVE Belongs(visit.path, call)
<1> DEFINE patterns == Expand(call.pattern)
<1>1. pc = "walk" /\ visit # NULL /\ visit.rest = <<>>
  BY DEF AtEnd
<1>2. Head(todo) \in Seq(Segments) /\ visit.path \in GlobPaths /\ Part(visit.path, <<>>, Head(todo))
  BY <1>1, WalkFacts
<1>3. visit.path \in Matching(Head(todo))
  BY <1>2, WalkedPathMatches
<1>4. todo # <<>>
  BY <1>1 DEF FitInv, ListInv, WalkTyped
<1>5. Done + 1 \in DOMAIN patterns /\ Head(todo) = patterns[Done + 1]
  BY <1>1, <1>4, Walked
<1>6. \E k \in DOMAIN patterns : visit.path \in Matching(patterns[k])
  BY <1>3, <1>5
<1> QED
  BY <1>6 DEF Belongs

\* An alternative that stands for itself has no match, unless some were passed over.
LEMMA PatternBelongs ==
  ASSUME FitInv, WalkEnds, pathc = oldpathc, WantsPattern
  PROVE  LET path == AsGiven(Head(todo)) IN
         Belongs(path, call) \/ (skipped /\ StandsIn(path, call))
<1> DEFINE patterns == Expand(call.pattern)
           k == Done + 1
<1>1. pc = "walk" /\ visit = NULL /\ stack = <<>>
  BY DEF WalkEnds
<1>2. todo # <<>>
  BY <1>1 DEF FitInv, ListInv, WalkTyped
<1>3. k \in DOMAIN patterns /\ Head(todo) = patterns[k]
  BY <1>1, <1>2, Walked
<1>4. Itself(call, patterns, k)
  <2>1. CASE "NOCHECK" \in call.flags
    BY <2>1 DEF Itself
  <2>2. CASE "NOMAGIC" \in call.flags /\ ~magchar
    <3>1. /\ \A i \in 1..Done : NoMagic(patterns[i])
          /\ NoMagic(patterns[k]) /\ Done \in Nat
      BY <1>1, <1>3, <2>2 DEF FitInv, MagcharFits, TodoFits
    <3>2. \A i \in 1..k : i \in 1..Done \/ i = k
      BY <3>1
    <3>3. \A i \in 1..k : NoMagic(patterns[i])
      BY <3>1, <3>2
    <3> QED
      BY <2>2, <3>3 DEF Itself
  <2> QED
    BY <2>1, <2>2 DEF WantsPattern
<1>5. CASE skipped
  BY <1>3, <1>4, <1>5 DEF StandsIn
<1>6. CASE ~skipped
  <2>1. \A path \in Matching(Head(todo)) : Ahead(path, visit, stack) \/ Found(path)
    BY <1>1, <1>6, WalkFacts
  <2>2. 1..Len(stack) = {} /\ NewCells = {}
    BY <1>1 DEF NewCells, FitInv, ListInv, IInv, Counts
  <2>3. Matching(patterns[k]) = {}
    BY <1>1, <1>3, <2>1, <2>2 DEF Ahead, Found
  <2> QED
    BY <1>3, <1>4, <2>3 DEF Belongs
<1> QED
  BY <1>5, <1>6

\* Every step keeps what was found in its place and what is looked for ahead.
LEMMA StepKeepsFit == ASSUME FitInv, [Next]_vars PROVE FitInv'
<1>1. ListInv'
  BY StepKeepsList DEF FitInv
<1> SUFFICES TodoFits' /\ MagcharFits' /\ WalkFits' /\ AllAhead' /\ EntriesFit'
  BY <1>1 DEF FitInv
<1> DEFINE Entries == <<pathv, pathc, offs, before, calls, call, lost>>
<1>2. ASSUME UNCHANGED Entries, UNCHANGED skipped \/ skipped' = (skipped \/ visit.path \in DOMAIN Tree)
      PROVE  EntriesFit'
  <2>0. skipped => skipped'
    <3>1. CASE UNCHANGED skipped
      BY <3>1
    <3>2. CASE skipped' = (skipped \/ visit.path \in DOMAIN Tree)
      BY <3>2
    <3> QED
      BY <1>2, <3>1, <3>2
  <2>1. UNCHANGED Entries /\ (skipped => skipped')
    BY <1>2, <2>0
  <2>2. ASSUME calls > 0, pathv # NULL, NEW j \in offs + before + 1..offs + pathc,
               pathv[j] # Garbage
        PROVE  Belongs(pathv[j], call) \/ (skipped' /\ StandsIn(pathv[j], call))
    <3>1. Belongs(pathv[j], call) \/ (skipped /\ StandsIn(pathv[j], call))
      BY <2>2 DEF FitInv, EntriesFit
    <3> QED
      BY <2>1, <3>1
  <2> QED
    BY <2>1, <2>2 DEF EntriesFit
<1>3. CASE Glob
  <2>1. pc = "idle" /\ pc' = "next" /\ UNCHANGED stack /\ before' = pathc'
    BY <1>3 DEF Glob
  <2>2. WalkFits' /\ AllAhead'
    BY <2>1 DEF FitInv, WalkFits, AllAhead
  <2>3. EntriesFit'
    <3>1. offs' \in Nat /\ pathc' \in Nat /\ before' = pathc'
      BY <1>1, <2>1 DEF ListInv, IInv, Counts
    <3>2. \A j : j \notin offs' + before' + 1..offs' + pathc'
      BY <3>1
    <3> QED
      BY <3>2 DEF EntriesFit
  <2> QED
    BY <1>3, <2>2, <2>3, GlobBeginsTodo
<1>4. CASE Glob0
  BY <1>2, <1>4, Glob0KeepsTodo, Glob0KeepsWalk DEF Glob0, list, history
<1>5. CASE Return
  <2>1. pc = "next" /\ pc' = "idle" /\ UNCHANGED <<stack, skipped>> /\ UNCHANGED Entries
    BY <1>5 DEF Return, list, history
  <2>2. TodoFits' /\ MagcharFits'
    BY <2>1 DEF TodoFits, MagcharFits
  <2>3. WalkFits' /\ AllAhead'
    BY <2>1 DEF FitInv, WalkFits, AllAhead
  <2> QED
    BY <1>2, <2>1, <2>2, <2>3
<1>6. CASE NextSegment \/ NoSuchFile \/ OpenDir \/ SkipDir \/ ReadDir \/ CloseDir
  <2>1. WalkFits' /\ AllAhead'
    BY <1>6, NextSegmentKeepsWalk, NoSuchFileKeepsWalk, OpenDirKeepsWalk, SkipDirKeepsWalk,
       ReadDirKeepsWalk, CloseDirKeepsWalk
  <2>2. /\ UNCHANGED <<call, todo, magchar, pc>> /\ UNCHANGED Entries
        /\ UNCHANGED skipped \/ skipped' = (skipped \/ visit.path \in DOMAIN Tree)
    BY <1>6 DEF NextSegment, NoSuchFile, OpenDir, SkipDir, ReadDir, CloseDir, list, history
  <2> QED
    BY <1>2, <2>1, <2>2, WalkKeepsTodo
<1>7. CASE FileFound
  <2>1. /\ AtEnd /\ Exists(visit.path) /\ AddPath(visit.path) /\ visit' = NULL
        /\ UNCHANGED <<offs, before, oldpathc, calls, call, skipped, todo, magchar, pc, stack>>
    BY <1>7 DEF FileFound, history
  <2>2. pc = "walk" /\ visit # NULL
    BY <2>1 DEF AtEnd
  <2>3. visit.path \in GlobPaths
    BY <2>2, WalkFacts
  <2>4. EntriesFit'
    BY <2>1, <2>2, <2>3, FoundBelongs, AddingKeepsEntries
  <2>5. WalkFits'
    BY <2>1, <2>2 DEF FitInv, WalkFits
  <2>6. AllAhead'
    BY <1>7, FileFoundKeepsAhead
  <2> QED
    BY <2>1, <2>4, <2>5, <2>6, WalkKeepsTodo
<1>8. CASE FileNotAdded \/ PatternNotAdded
  <2>1. /\ CannotAdd /\ EndGlob0("NOSPACE") /\ pc = "walk" /\ pc' = "next"
        /\ UNCHANGED <<offs, before, calls, call, skipped, magchar>>
    BY <1>8 DEF FileNotAdded, PatternNotAdded, EndGlob0, AtEnd, WalkEnds, history
  <2> QED
    BY <2>1, EndKeepsWalk, FailingKeepsEntries
<1>9. CASE Abort \/ NoMatch
  <2>1. /\ (EndGlob0("ABORTED") \/ EndGlob0("NOMATCH")) /\ pc = "walk"
        /\ UNCHANGED magchar /\ UNCHANGED skipped /\ UNCHANGED Entries
    BY <1>9 DEF Abort, NoMatch, AtMagic, WalkEnds, list, history
  <2> QED
    BY <1>2, <2>1, EndKeepsWalk
<1>10. CASE Matched
  <2>1. /\ EndGlob0("0") /\ pc = "walk" /\ pathc # oldpathc
        /\ UNCHANGED <<pathc, offs, before, calls, call, skipped, lost, magchar>>
    BY <1>10 DEF Matched, WalkEnds, history
  <2>2. CASE UNCHANGED pathv
    BY <1>2, <2>1, <2>2, EndKeepsWalk
  <2>3. CASE \E order \in Orders : pathv' = Sorted(order)
    BY <2>1, <2>3, EndKeepsWalk, SortingKeepsEntries
  <2> QED
    BY <1>10, <2>2, <2>3 DEF Matched
<1>11. CASE PatternAdded
  <2> DEFINE path == AsGiven(Head(todo))
  <2>1. /\ WalkEnds /\ pathc = oldpathc /\ WantsPattern /\ AddPath(path) /\ EndGlob0("0")
        /\ UNCHANGED <<offs, before, oldpathc, calls, call, skipped, magchar>>
    BY <1>11 DEF PatternAdded, history
  <2>2. pc = "walk"
    BY <2>1 DEF WalkEnds
  <2>3. path \in GlobPaths
    BY <2>2, WalkFacts, AsGivenTyped
  <2>4. Belongs(path, call) \/ (skipped /\ StandsIn(path, call))
    BY <2>1, PatternBelongs
  <2> HIDE DEF path
  <2>5. EntriesFit'
    BY <2>1, <2>2, <2>3, <2>4, AddingKeepsEntries
  <2> QED
    BY <2>1, <2>2, <2>5, EndKeepsWalk
<1>12. CASE GlobFree
  <2>1. pc = "idle" /\ UNCHANGED <<stack, pc>> /\ calls' = 0
    BY <1>12 DEF GlobFree
  <2> QED
    BY <2>1 DEF FitInv, TodoFits, MagcharFits, WalkFits, AllAhead, EntriesFit
<1>13. CASE UNCHANGED vars
  <2>1. UNCHANGED <<todo, magchar, visit, stack, pc, oldpathc, skipped>> /\ UNCHANGED Entries
    BY <1>13 DEF vars
  <2> QED
    BY <1>2, <2>1, WalkKeepsTodo DEF FitInv, WalkFits, AllAhead, Found, NewCells
<1> QED
  BY <1>3, <1>4, <1>5, <1>6, <1>7, <1>8, <1>9, <1>10, <1>11, <1>12, <1>13 DEF Next

LEMMA InitFit == Init => FitInv
<1>1. Init => ListInv
  BY InitListInv
<1>2. Init => TodoFits /\ MagcharFits /\ WalkFits /\ AllAhead /\ EntriesFit
  BY DEF Init, TodoFits, MagcharFits, WalkFits, AllAhead, EntriesFit
<1> QED
  BY <1>1, <1>2 DEF FitInv

\* What belongs to the call is what its alternatives add.
LEMMA FitIsNothingElse == FitInv => NothingElse
<1> SUFFICES ASSUME FitInv, calls > 0, pathv # NULL, NEW path \in Range(New), path # Garbage
             PROVE  LET patterns == Expand(call.pattern) IN
                    \E k \in DOMAIN patterns :
                      \/ path \in Adds(patterns, k)
                      \/ skipped /\ StandsForItself(patterns, k) /\ path = AsGiven(patterns[k])
  BY DEF NothingElse
<1> DEFINE patterns == Expand(call.pattern)
<1>1. offs \in Nat /\ pathc \in Nat /\ before \in Nat /\ pathv \in Seq(Cells)
  BY DEF FitInv, ListInv, IInv, Counts, ArrayTyped
<1>2. PICK j \in offs + before + 1..offs + pathc : path = pathv[j]
  <2>1. Len(pathv) >= offs + pathc + 1
    <3>1. PICK n \in Nat : n >= offs + pathc + 1 /\ DOMAIN pathv = 1..n
      BY DEF FitInv, ListInv, IInv, ArrayHasRoom
    <3>2. n \in 1..Len(pathv) /\ Len(pathv) \in Nat
      BY <1>1, <3>1
    <3> QED
      BY <1>1, <3>1, <3>2
  <2> DEFINE first == offs + before + 1
             last == offs + pathc
  <2>2. first \in Nat /\ first > 0 /\ last \in Nat /\ last <= Len(pathv)
    BY <1>1, <2>1
  <2>3. New = SubSeq(pathv, first, last)
    BY DEF New
  <2> HIDE DEF first, last
  <2>4. \E i \in first..last : path = pathv[i]
    <3>1. PICK i \in DOMAIN New : path = New[i]
      BY DEF Range
    <3>2. DOMAIN New = 1..(last - first + 1) /\ New[i] = pathv[first + i - 1]
      BY <1>1, <2>2, <2>3, <3>1
    <3>3. first + i - 1 \in first..last
      BY <2>2, <3>1, <3>2
    <3> QED
      BY <3>1, <3>2, <3>3
  <2> QED
    BY <2>4 DEF first, last
<1>3. Belongs(path, call) \/ (skipped /\ StandsIn(path, call))
  BY <1>2 DEF FitInv, EntriesFit
<1>4. \A k : Itself(call, patterns, k) => StandsForItself(patterns, k)
  BY DEF Itself, StandsForItself, NoMagic
<1> HIDE DEF patterns
<1>5. CASE Belongs(path, call)
  <2>1. PICK k \in DOMAIN patterns :
          \/ path \in Matching(patterns[k])
          \/ Matching(patterns[k]) = {} /\ Itself(call, patterns, k) /\ path = AsGiven(patterns[k])
    BY <1>5 DEF Belongs, patterns
  <2>2. path \in Adds(patterns, k)
    BY <1>4, <2>1 DEF Adds
  <2> QED
    BY <2>2 DEF patterns
<1>6. CASE skipped /\ StandsIn(path, call)
  <2>1. PICK k \in DOMAIN patterns : Itself(call, patterns, k) /\ path = AsGiven(patterns[k])
    BY <1>6 DEF StandsIn, patterns
  <2> QED
    BY <1>4, <1>6, <2>1 DEF patterns
<1> QED
  BY <1>3, <1>5, <1>6

-----------------------------------------------------------------------------
(* Nothing is found twice                                                  *)

\* A name below the directory is still to be read on the way to the path.
Unread(dir, path) == \E name \in dir.unread : Under(Append(dir.path, name), path)

\* The walk goes down, and comes to no path in two ways.
PlacesDiffer ==
  pc = "walk" =>
    /\ visit # NULL =>
         \A i \in 1..Len(stack) : Len(stack[i].path) < Len(visit.path) /\ ~Unread(stack[i], visit.path)
    /\ \A i, m \in 1..Len(stack) :
         i < m => Len(stack[i].path) < Len(stack[m].path) /\ ~Unread(stack[i], stack[m].path)

\* What was found matches, is ahead no more, and was found once.
FoundOnce ==
  pc = "walk" =>
    /\ \A j \in NewCells : pathv[j] \in Matching(Head(todo)) /\ ~Ahead(pathv[j], visit, stack)
    /\ \A i, j \in NewCells : pathv[i] = pathv[j] => i = j

WalkInv == FitInv /\ PlacesDiffer /\ FoundOnce

\* A path that is not below a name that is to be read has none below it that is.
LEMMA UnreadBelow ==
  ASSUME NEW dir \in OpenDirs, NEW path \in GlobPaths,
         NEW name \in Seq(Characters \cup {MetaCharacter})
  PROVE  /\ Len(Append(path, name)) = Len(path) + 1 /\ Len(path) \in Nat
         /\ Len(dir.path) < Len(path) /\ ~Unread(dir, path) => ~Unread(dir, Append(path, name))
         /\ dir.path = path /\ name \notin dir.unread => ~Unread(dir, Append(path, name))
<1> DEFINE longer == Append(path, name)
           above == dir.path
<1>1. above \in GlobPaths /\ longer \in GlobPaths
  BY LongerPath DEF OpenDirs
<1>2. /\ Len(longer) = Len(path) + 1 /\ Len(path) \in Nat /\ Len(above) \in Nat
      /\ longer[Len(path) + 1] = name /\ \A j \in 1..Len(path) : longer[j] = path[j]
  BY <1>1 DEF GlobPaths
<1>3. /\ \A f : Under(Append(above, f), path) <=>
                  Under(above, path) /\ Len(above) < Len(path) /\ f = path[Len(above) + 1]
      /\ \A f : Under(Append(above, f), longer) <=>
                  Under(above, longer) /\ Len(above) < Len(longer) /\ f = longer[Len(above) + 1]
  <2> HIDE DEF above, longer
  <2> QED
    BY <1>1, UnderDir
<1>4. Unread(dir, longer) <=> \E f \in dir.unread : Under(Append(above, f), longer)
  BY DEF Unread
<1>5. Unread(dir, path) <=> \E f \in dir.unread : Under(Append(above, f), path)
  BY DEF Unread
<1>6. above = path => Len(above) = Len(path)
  OBVIOUS
<1> HIDE DEF longer, above
<1>7. ASSUME Len(above) < Len(path), Unread(dir, longer) PROVE Unread(dir, path)
  <2>1. PICK f \in dir.unread : Under(Append(above, f), longer)
    BY <1>4, <1>7
  <2>2. Under(above, longer) /\ f = longer[Len(above) + 1]
    BY <1>3, <2>1
  <2>3. Len(above) + 1 \in 1..Len(path) /\ \A j \in 1..Len(above) : j \in 1..Len(path)
    BY <1>2, <1>7
  <2>4. f = path[Len(above) + 1] /\ Under(above, path)
    BY <1>2, <1>7, <2>2, <2>3 DEF Under
  <2> QED
    BY <1>3, <1>5, <1>7, <2>1, <2>4
<1>8. ASSUME above = path, Unread(dir, longer) PROVE name \in dir.unread
  <2>1. PICK f \in dir.unread : Under(Append(above, f), longer)
    BY <1>4, <1>8
  <2>2. f = longer[Len(above) + 1]
    BY <1>3, <2>1
  <2> QED
    BY <1>2, <1>6, <1>8, <2>1, <2>2
<1> QED
  BY <1>2, <1>7, <1>8 DEF longer, above

\* What was found stays so as long as nothing is ahead that was not.
LEMMA ShrinkingKeepsFound ==
  ASSUME FoundOnce, UNCHANGED <<pathv, offs, oldpathc, pathc, todo, pc>>,
         pc = "walk" =>
           \A path \in Matching(Head(todo)) : Ahead(path, visit', stack') => Ahead(path, visit, stack)
  PROVE  FoundOnce'
BY DEF FoundOnce, NewCells

LEMMA NextSegmentKeepsFound == ASSUME WalkInv, NextSegment PROVE PlacesDiffer' /\ FoundOnce'
<1> DEFINE name == Literal(Head(visit.rest))
<1>1. /\ pc = "walk" /\ visit # NULL /\ visit.rest # <<>> /\ ~IsMagic(Head(visit.rest))
      /\ visit' = [path |-> Append(visit.path, name), rest |-> Tail(visit.rest)]
      /\ UNCHANGED <<todo, stack, pc, pathv, offs, pathc, oldpathc>>
  BY DEF NextSegment, list, history
<1>2. visit'.path = Append(visit.path, name)
  BY <1>1
<1>3. visit.path \in GlobPaths /\ visit.rest \in Seq(Segments)
  BY <1>1, WalkFacts DEF WalkInv
<1>4. name \in Seq(Characters \cup {MetaCharacter})
  <2>1. Head(visit.rest) \in Segments
    BY <1>1, <1>3
  <2> QED
    BY <2>1, LiteralTyped
<1> HIDE DEF name
<1>5. ASSUME NEW i \in 1..Len(stack)
      PROVE  Len(stack[i].path) < Len(visit'.path) /\ ~Unread(stack[i], visit'.path)
  <2>1. stack[i] \in OpenDirs /\ Len(stack[i].path) \in Nat
    BY <1>1, WalkFacts DEF WalkInv, GlobPaths
  <2>2. Len(stack[i].path) < Len(visit.path) /\ ~Unread(stack[i], visit.path)
    BY <1>1 DEF WalkInv, PlacesDiffer
  <2>3. /\ Len(visit'.path) = Len(visit.path) + 1 /\ Len(visit.path) \in Nat
        /\ ~Unread(stack[i], visit'.path)
    BY <1>2, <1>3, <1>4, <2>1, <2>2, UnreadBelow
  <2> QED
    BY <2>1, <2>2, <2>3
<1>6. PlacesDiffer'
  BY <1>1, <1>5 DEF WalkInv, PlacesDiffer
<1>7. ASSUME NEW path \in Matching(Head(todo)), Ahead(path, visit', stack')
      PROVE  Ahead(path, visit, stack)
  <2>1. path \in GlobPaths
    BY <1>1, WalkFacts, MatchingPaths DEF WalkInv
  <2>2. Under(visit'.path, path) => Under(visit.path, path)
    BY <1>2, <1>3, <2>1, UnderDir
  <2> QED
    BY <1>1, <1>7, <2>2 DEF Ahead
<1>8. FoundOnce'
  BY <1>1, <1>7, ShrinkingKeepsFound DEF WalkInv
<1> QED
  BY <1>6, <1>8

\* A path or a directory that is left alone is ahead no more.
LEMMA LeavingKeepsFound ==
  ASSUME WalkInv, NoSuchFile \/ SkipDir PROVE PlacesDiffer' /\ FoundOnce'
<1>1. pc = "walk" /\ visit' = NULL /\ UNCHANGED <<todo, stack, pc, pathv, offs, pathc, oldpathc>>
  BY DEF NoSuchFile, SkipDir, AtEnd, AtMagic, list, history
<1>2. PlacesDiffer'
  BY <1>1 DEF WalkInv, PlacesDiffer
<1>3. \A path : Ahead(path, visit', stack') => Ahead(path, visit, stack)
  BY <1>1 DEF Ahead
<1> QED
  BY <1>1, <1>2, <1>3, ShrinkingKeepsFound DEF WalkInv

\* What is below the names of a directory is below the directory.
LEMMA OpenDirKeepsFound == ASSUME WalkInv, OpenDir PROVE PlacesDiffer' /\ FoundOnce'
<1> DEFINE dir == [path |-> visit.path, unread |-> Tree[visit.path], rest |-> visit.rest]
           l == Len(stack)
<1>1. /\ pc = "walk" /\ visit # NULL /\ visit.rest # <<>> /\ visit' = NULL
      /\ visit.path \in DOMAIN Tree /\ stack' = Append(stack, dir)
      /\ UNCHANGED <<todo, pc, pathv, offs, pathc, oldpathc>>
  BY DEF OpenDir, AtMagic, list, history
<1>2. /\ visit.path \in GlobPaths /\ visit.rest \in Seq(Segments)
      /\ stack \in Seq(OpenDirs) /\ l \in Nat
  BY <1>1, WalkFacts DEF WalkInv
<1>3. dir \in OpenDirs
  <2>1. Tree[visit.path] \subseteq Seq(Characters)
    BY <1>1, GlobAssumption
  <2> QED
    BY <1>1, <1>2, <2>1 DEF OpenDirs
<1>4. dir.path = visit.path
  OBVIOUS
<1> HIDE DEF dir
<1>5. Len(stack') = l + 1 /\ stack'[l + 1] = dir /\ \A i \in 1..l : stack'[i] = stack[i]
  BY <1>1, <1>2, <1>3
<1>6. \A i \in 1..Len(stack') : i \in 1..l \/ i = l + 1
  BY <1>2, <1>5
<1>7. /\ \A i \in 1..l : Len(stack[i].path) < Len(visit.path) /\ ~Unread(stack[i], visit.path)
      /\ \A i, m \in 1..l :
           i < m => Len(stack[i].path) < Len(stack[m].path) /\ ~Unread(stack[i], stack[m].path)
  BY <1>1 DEF WalkInv, PlacesDiffer
<1> HIDE DEF l
<1>8. ASSUME NEW i \in 1..Len(stack'), NEW m \in 1..Len(stack'), i < m
      PROVE  Len(stack'[i].path) < Len(stack'[m].path) /\ ~Unread(stack'[i], stack'[m].path)
  <2>1. i \in 1..l
    BY <1>2, <1>5, <1>8
  <2>2. CASE m = l + 1
    BY <1>4, <1>5, <1>7, <2>1, <2>2
  <2>3. CASE m \in 1..l
    BY <1>5, <1>7, <1>8, <2>1, <2>3
  <2> QED
    BY <1>6, <2>2, <2>3
<1>9. PlacesDiffer'
  BY <1>1, <1>8 DEF PlacesDiffer
<1>10. ASSUME NEW path \in Matching(Head(todo)), Ahead(path, visit', stack')
       PROVE  Ahead(path, visit, stack)
  <2>1. PICK i \in 1..Len(stack') : \E f \in stack'[i].unread : Under(Append(stack'[i].path, f), path)
    BY <1>1, <1>10 DEF Ahead
  <2>2. CASE i \in 1..l
    <3>1. \E f \in stack[i].unread : Under(Append(stack[i].path, f), path)
      BY <1>5, <2>1, <2>2
    <3> QED
      BY <2>2, <3>1 DEF Ahead, l
  <2>3. CASE i = l + 1
    <3>1. PICK f \in dir.unread : Under(Append(visit.path, f), path)
      BY <1>4, <1>5, <2>1, <2>3
    <3>2. path \in GlobPaths
      BY <1>1, WalkFacts, MatchingPaths DEF WalkInv
    <3>3. Under(visit.path, path)
      BY <1>2, <3>1, <3>2, UnderDir
    <3> QED
      BY <1>1, <3>3 DEF Ahead
  <2> QED
    BY <1>6, <2>2, <2>3
<1>11. FoundOnce'
  BY <1>1, <1>10, ShrinkingKeepsFound DEF WalkInv
<1> QED
  BY <1>9, <1>11

\* A name that was read is behind the walk, or it is where the walk is.
LEMMA ReadDirKeepsFound == ASSUME WalkInv, ReadDir PROVE PlacesDiffer' /\ FoundOnce'
<1> DEFINE l == Len(stack)
           dir == stack[l]
           Good(f) == ShowsDots(f, Head(dir.rest)) /\ Match(f, Head(dir.rest))
<1>1. /\ pc = "walk" /\ visit = NULL /\ stack # <<>>
      /\ UNCHANGED <<todo, pc, pathv, offs, pathc, oldpathc>>
  BY DEF ReadDir, Reading, list, history
<1>2. stack \in Seq(OpenDirs) /\ l \in Nat
  BY <1>1, WalkFacts DEF WalkInv
<1>3. l \in 1..l /\ Last(stack) = dir
  BY <1>1, <1>2 DEF Last
<1>4. dir \in OpenDirs /\ dir.path \in GlobPaths /\ dir.unread \in SUBSET Seq(Characters)
  BY <1>1, <1>3, WalkFacts DEF WalkInv
<1>5. PICK name \in dir.unread :
        /\ stack' = [stack EXCEPT ![l].unread = @ \ {name}]
        /\ visit' = IF Good(name) THEN [path |-> Append(dir.path, name), rest |-> Tail(dir.rest)]
                    ELSE NULL
  BY <1>3 DEF ReadDir
<1>6. name \in Seq(Characters \cup {MetaCharacter})
  BY <1>4, <1>5, NamesArePathNames
<1>7. /\ Len(stack') = l /\ stack'[l] \in OpenDirs /\ stack'[l].path = dir.path
      /\ stack'[l].unread = dir.unread \ {name}
      /\ \A i \in 1..l : i # l => stack'[i] = stack[i]
  <2> DEFINE new == [dir EXCEPT !.unread = @ \ {name}]
  <2>1. new.path = dir.path /\ new.unread = dir.unread \ {name}
    BY <1>4 DEF OpenDirs
  <2>2. new \in OpenDirs
    BY <1>4 DEF OpenDirs
  <2>3. stack' = [stack EXCEPT ![l] = new]
    BY <1>5
  <2> HIDE DEF new, dir
  <2>4. Len(stack') = l /\ stack'[l] = new /\ \A i \in 1..l : i # l => stack'[i] = stack[i]
    BY <1>2, <1>3, <2>2, <2>3
  <2> QED
    BY <2>1, <2>2, <2>4
<1>8. visit' # NULL => visit'.path = Append(dir.path, name)
  BY <1>5
<1>9. \A i, m \in 1..l :
        i < m => Len(stack[i].path) < Len(stack[m].path) /\ ~Unread(stack[i], stack[m].path)
  BY <1>1 DEF WalkInv, PlacesDiffer
<1>10. \A i \in 1..l : stack'[i].path = stack[i].path /\ stack'[i].unread \subseteq stack[i].unread
  BY <1>7
<1> HIDE DEF Good, dir
<1>11. ASSUME NEW i \in 1..l, NEW m \in 1..l, i < m
       PROVE  Len(stack'[i].path) < Len(stack'[m].path) /\ ~Unread(stack'[i], stack'[m].path)
  <2>1. i # l
    BY <1>2, <1>11
  <2> QED
    BY <1>7, <1>9, <1>10, <1>11, <2>1
<1>12. ASSUME visit' # NULL, NEW i \in 1..l
       PROVE  Len(stack'[i].path) < Len(visit'.path) /\ ~Unread(stack'[i], visit'.path)
  <2>1. Len(visit'.path) = Len(dir.path) + 1 /\ Len(dir.path) \in Nat
    BY <1>4, <1>6, <1>8, <1>12, UnreadBelow
  <2>2. CASE i = l
    <3> DEFINE new == stack'[l]
               above == dir.path
    <3>1. new \in OpenDirs /\ above \in GlobPaths /\ new.path = above /\ name \notin new.unread
      BY <1>4, <1>7
    <3> HIDE DEF new, above
    <3>2. ~Unread(new, Append(above, name))
      BY <1>6, <3>1, UnreadBelow
    <3>3. Len(new.path) < Len(visit'.path)
      BY <2>1, <3>1 DEF above
    <3> QED
      BY <1>8, <1>12, <2>2, <3>2, <3>3 DEF new, above
  <2>3. CASE i # l
    <3>1. stack[i] \in OpenDirs /\ i < l /\ stack'[i] = stack[i] /\ Len(stack[i].path) \in Nat
      BY <1>1, <1>2, <1>7, <2>3, WalkFacts DEF WalkInv, GlobPaths
    <3>2. Len(stack[i].path) < Len(dir.path) /\ ~Unread(stack[i], dir.path)
      BY <1>3, <1>9, <3>1 DEF dir
    <3>3. ~Unread(stack[i], Append(dir.path, name))
      BY <1>4, <1>6, <3>1, <3>2, UnreadBelow
    <3>4. Len(stack[i].path) < Len(visit'.path)
      BY <2>1, <3>1, <3>2
    <3> QED
      BY <1>8, <1>12, <3>1, <3>3, <3>4
  <2> QED
    BY <2>2, <2>3
<1>13. PlacesDiffer'
  BY <1>1, <1>7, <1>11, <1>12 DEF PlacesDiffer
<1>14. ASSUME NEW path, Ahead(path, visit', stack') PROVE Ahead(path, visit, stack)
  <2>1. CASE visit' # NULL /\ Under(visit'.path, path)
    <3>1. \E f \in stack[l].unread : Under(Append(stack[l].path, f), path)
      BY <1>5, <1>8, <2>1 DEF dir
    <3> QED
      BY <1>3, <3>1 DEF Ahead
  <2>2. CASE \E i \in 1..l : \E f \in stack'[i].unread : Under(Append(stack'[i].path, f), path)
    <3>1. PICK i \in 1..l : \E f \in stack'[i].unread : Under(Append(stack'[i].path, f), path)
      BY <2>2
    <3>2. \E f \in stack[i].unread : Under(Append(stack[i].path, f), path)
      BY <1>10, <3>1
    <3> QED
      BY <3>2 DEF Ahead
  <2> QED
    BY <1>7, <1>14, <2>1, <2>2 DEF Ahead
<1>15. FoundOnce'
  BY <1>1, <1>14, ShrinkingKeepsFound DEF WalkInv
<1> QED
  BY <1>13, <1>15

LEMMA CloseDirKeepsFound == ASSUME WalkInv, CloseDir PROVE PlacesDiffer' /\ FoundOnce'
<1> DEFINE l == Len(stack)
<1>1. /\ pc = "walk" /\ visit = NULL /\ stack # <<>> /\ stack' = Front(stack)
      /\ UNCHANGED <<todo, visit, pc, pathv, offs, pathc, oldpathc>>
  BY DEF CloseDir, Reading, list, history
<1>2. stack \in Seq(OpenDirs) /\ l \in Nat /\ l > 0
  <2>1. stack \in Seq(OpenDirs)
    BY <1>1, WalkFacts DEF WalkInv
  <2> QED
    BY <1>1, <2>1
<1>3. Len(stack') = l - 1 /\ \A i \in 1..l - 1 : stack'[i] = stack[i]
  <2> DEFINE m == l - 1
  <2>1. m \in 0..Len(stack) /\ stack' = SubSeq(stack, 1, m)
    BY <1>1, <1>2 DEF Front
  <2> HIDE DEF m
  <2>2. Len(stack') = m /\ \A i \in 1..m : stack'[i] = stack[i]
    BY <1>2, <2>1, Prefix
  <2> QED
    BY <2>2 DEF m
<1>4. \A i \in 1..Len(stack') : i \in 1..l /\ stack'[i] = stack[i]
  BY <1>2, <1>3
<1>5. PlacesDiffer'
  BY <1>1, <1>4 DEF WalkInv, PlacesDiffer
<1>6. \A path : Ahead(path, visit', stack') => Ahead(path, visit, stack)
  BY <1>1, <1>4 DEF Ahead
<1> QED
  BY <1>1, <1>5, <1>6, ShrinkingKeepsFound DEF WalkInv

\* What is found was ahead, and so was not found before.
LEMMA FileFoundKeepsFound == ASSUME WalkInv, FileFound PROVE PlacesDiffer' /\ FoundOnce'
<1> DEFINE pattern == Head(todo)
           c == offs + pathc + 1
<1>1. /\ pc = "walk" /\ visit # NULL /\ visit.rest = <<>> /\ visit' = NULL /\ Exists(visit.path)
      /\ AddPath(visit.path) /\ UNCHANGED <<todo, stack, pc, offs, oldpathc, calls>>
  BY DEF FileFound, AtEnd, history
<1>2. pattern \in Seq(Segments) /\ visit.path \in GlobPaths /\ Part(visit.path, <<>>, pattern)
  BY <1>1, WalkFacts DEF WalkInv
<1>3. /\ NewCells' = NewCells \cup {c} /\ c \notin NewCells /\ pathv'[c] = visit.path
      /\ \A j \in NewCells : pathv'[j] = pathv[j]
  BY <1>1, <1>2, AddedCell DEF WalkInv
<1> HIDE DEF c
<1>4. visit.path \in Matching(pattern)
  BY <1>1, <1>2, WalkedPathMatches
<1>5. Ahead(visit.path, visit, stack)
  BY <1>1 DEF Ahead, Under
<1>6. ~Ahead(visit.path, visit', stack')
  <2>1. \A i \in 1..Len(stack) : ~Unread(stack[i], visit.path)
    BY <1>1 DEF WalkInv, PlacesDiffer
  <2> QED
    BY <1>1, <2>1 DEF Ahead, Unread
<1>7. \A path : Ahead(path, visit', stack') => Ahead(path, visit, stack)
  BY <1>1 DEF Ahead
<1>8. /\ \A j \in NewCells : pathv[j] \in Matching(pattern) /\ ~Ahead(pathv[j], visit, stack)
      /\ \A i, j \in NewCells : pathv[i] = pathv[j] => i = j
  BY <1>1 DEF WalkInv, FoundOnce
<1>9. \A j \in NewCells' : pathv'[j] \in Matching(pattern) /\ ~Ahead(pathv'[j], visit', stack')
  BY <1>3, <1>4, <1>6, <1>7, <1>8
<1>10. \A j \in NewCells : pathv'[j] # visit.path
  BY <1>3, <1>5, <1>8
<1>11. \A i, j \in NewCells' : pathv'[i] = pathv'[j] => i = j
  BY <1>3, <1>8, <1>10
<1>12. FoundOnce'
  BY <1>1, <1>9, <1>11 DEF FoundOnce
<1>13. PlacesDiffer'
  BY <1>1 DEF WalkInv, PlacesDiffer
<1> QED
  BY <1>12, <1>13

\* No step of the walk finds anything twice.
LEMMA StepKeepsWalk == ASSUME WalkInv, [Next]_vars PROVE WalkInv'
<1>1. FitInv'
  BY StepKeepsFit DEF WalkInv
<1> SUFFICES PlacesDiffer' /\ FoundOnce'
  BY <1>1 DEF WalkInv
<1>2. CASE NextSegment \/ NoSuchFile \/ SkipDir \/ OpenDir \/ ReadDir \/ CloseDir \/ FileFound
  BY <1>2, NextSegmentKeepsFound, LeavingKeepsFound, OpenDirKeepsFound, ReadDirKeepsFound,
     CloseDirKeepsFound, FileFoundKeepsFound
<1>3. CASE Glob0
  <2>1. /\ pc' = "walk" /\ UNCHANGED <<stack, offs, pathc>> /\ oldpathc' = pathc /\ pc = "next"
    BY <1>3 DEF Glob0, list
  <2>2. 1..Len(stack') = {}
    BY <2>1 DEF WalkInv, FitInv, WalkFits
  <2>3. NewCells' = {}
    BY <2>1 DEF NewCells, WalkInv, FitInv, ListInv, IInv, Counts
  <2> QED
    BY <2>2, <2>3 DEF PlacesDiffer, FoundOnce
<1>4. CASE \/ Glob \/ Return \/ FileNotAdded \/ Abort \/ Matched \/ NoMatch \/ PatternAdded
           \/ PatternNotAdded \/ GlobFree
  <2>1. pc' # "walk"
    BY <1>4 DEF Glob, Return, FileNotAdded, Abort, Matched, NoMatch, PatternAdded, PatternNotAdded,
                GlobFree, EndGlob0
  <2> QED
    BY <2>1 DEF PlacesDiffer, FoundOnce
<1>5. CASE UNCHANGED vars
  BY <1>5 DEF vars, WalkInv, PlacesDiffer, FoundOnce, NewCells
<1> QED
  BY <1>2, <1>3, <1>4, <1>5 DEF Next

-----------------------------------------------------------------------------
(* strcmp, the number of entries, and patterns without a brace             *)

\* A name is followed by the character that ends it.
CharOf(name, end, k) == IF k <= Len(name) THEN name[k] ELSE end

\* Two different names differ first in some character, or where the shorter one ends.
LEMMA FirstDifference ==
  ASSUME NEW a \in Seq(Characters), NEW b \in Seq(Characters), a # b,
         NEW end \in Nat, end \notin Characters
  PROVE  \E k \in Nat :
           /\ k >= 1 /\ k <= Len(a) + 1 /\ k <= Len(b) + 1
           /\ CharOf(a, end, k) \in Nat /\ CharOf(b, end, k) \in Nat
           /\ CharOf(a, end, k) # CharOf(b, end, k)
           /\ \A i \in 1..k - 1 : CharOf(a, end, i) = CharOf(b, end, i)
<1> DEFINE m == Len(a)
           n == Len(b)
           f == [k \in Nat |-> CharOf(a, end, k)]
           g == [k \in Nat |-> CharOf(b, end, k)]
<1>0. /\ \A k \in Nat : f[k] = IF k <= m THEN a[k] ELSE end
      /\ \A k \in Nat : g[k] = IF k <= n THEN b[k] ELSE end
  BY DEF CharOf
<1>9. /\ \A k \in Nat : f[k] = CharOf(a, end, k)
      /\ \A k \in Nat : g[k] = CharOf(b, end, k)
      /\ Characters \subseteq Nat
  BY GlobAssumption
<1>2. m = n => \E k \in 1..m : a[k] # b[k]
  OBVIOUS
<1> DEFINE Parts == {k \in Nat : k >= 1 /\ k <= m + 1 /\ k <= n + 1 /\ f[k] # g[k]}
<1>1. /\ m \in Nat /\ n \in Nat
      /\ \A k \in 1..m : a[k] \in Characters
      /\ \A k \in 1..n : b[k] \in Characters
  OBVIOUS
<1> HIDE DEF m, n, f, g
<1>3. Parts # {}
  <2>1. CASE m < n
    <3> DEFINE k == m + 1
    <3>1. k \in Nat /\ k >= 1 /\ k <= m + 1 /\ k <= n + 1 /\ ~(k <= m) /\ k <= n /\ k \in 1..n
      BY <1>1, <2>1
    <3> HIDE DEF k
    <3>2. f[k] = end /\ g[k] = b[k] /\ b[k] \in Characters
      BY <1>0, <1>1, <3>1
    <3>3. f[k] # g[k]
      BY <3>2
    <3> QED
      BY <3>1, <3>3
  <2>2. CASE n < m
    <3> DEFINE k == n + 1
    <3>1. k \in Nat /\ k >= 1 /\ k <= m + 1 /\ k <= n + 1 /\ ~(k <= n) /\ k <= m /\ k \in 1..m
      BY <1>1, <2>2
    <3> HIDE DEF k
    <3>2. g[k] = end /\ f[k] = a[k] /\ a[k] \in Characters
      BY <1>0, <1>1, <3>1
    <3>3. f[k] # g[k]
      BY <3>2
    <3> QED
      BY <3>1, <3>3
  <2>3. CASE m = n
    <3>1. PICK k \in 1..m : a[k] # b[k]
      BY <1>2, <2>3
    <3>2. k \in Nat /\ k >= 1 /\ k <= m + 1 /\ k <= n + 1 /\ k <= m /\ k <= n
      BY <1>1, <2>3
    <3>3. f[k] # g[k]
      BY <1>0, <3>1, <3>2
    <3> QED
      BY <3>2, <3>3
  <2> QED
    BY <1>1, <2>1, <2>2, <2>3
<1>4. PICK k \in Parts : \A i \in Parts : k <= i
  <2>1. Parts \in SUBSET Nat
    OBVIOUS
  <2> HIDE DEF Parts
  <2> QED
    BY <1>3, <2>1, LeastNumber
<1>5. k \in Nat /\ k >= 1 /\ k <= m + 1 /\ k <= n + 1 /\ f[k] # g[k]
  OBVIOUS
<1>6. ASSUME NEW i \in 1..k - 1, f[i] # g[i] PROVE FALSE
  <2>1. i \in Nat /\ i >= 1 /\ i <= m + 1 /\ i <= n + 1 /\ ~(k <= i)
    BY <1>1, <1>5
  <2>2. i \in Parts
    BY <1>6, <2>1
  <2> HIDE DEF Parts
  <2> QED
    BY <1>4, <2>1, <2>2
<1> HIDE DEF Parts
<1>7. f[k] \in Nat /\ g[k] \in Nat
  <2>1. (k <= m => k \in 1..m) /\ (k <= n => k \in 1..n)
    BY <1>1, <1>5
  <2> QED
    BY <1>0, <1>1, <1>5, <1>9, <2>1
<1> QED
  <2>1. /\ f[k] = CharOf(a, end, k) /\ g[k] = CharOf(b, end, k)
        /\ \A i \in 1..k - 1 : f[i] = CharOf(a, end, i) /\ g[i] = CharOf(b, end, i)
    BY <1>5, <1>9
  <2> QED
    BY <1>5, <1>6, <1>7, <2>1 DEF m, n

\* Of two different paths that are as long strcmp puts one before the other.
LEMMA OneIsBefore ==
  ASSUME NEW p \in Seq(Seq(Characters)), NEW q \in Seq(Seq(Characters)), Len(p) = Len(q), p # q
  PROVE  Before(p, q) \/ Before(q, p)
<1> DEFINE l == Len(p)
           Differ == {j \in 1..l : p[j] # q[j]}
<1>1. l \in Nat /\ DOMAIN p = 1..l /\ DOMAIN q = 1..l /\ Len(q) = l
  OBVIOUS
<1>2. \E j \in 1..l : p[j] # q[j]
  OBVIOUS
<1>3. \A j \in 1..l : p[j] \in Seq(Characters) /\ q[j] \in Seq(Characters)
  OBVIOUS
<1> HIDE DEF l
<1>4. PICK j \in Differ : \A i \in Differ : j <= i
  <2>1. Differ \in SUBSET Nat
    BY <1>1
  <2>2. Differ # {}
    BY <1>2
  <2> HIDE DEF Differ
  <2> QED
    BY <2>1, <2>2, LeastNumber
<1>5. j \in 1..l /\ p[j] # q[j]
  OBVIOUS
<1>6. ASSUME NEW i \in 1..j - 1, p[i] # q[i] PROVE FALSE
  <2>1. i \in 1..l /\ ~(j <= i)
    BY <1>1, <1>5
  <2>2. i \in Differ
    BY <1>6, <2>1
  <2> HIDE DEF Differ
  <2> QED
    BY <1>4, <2>1, <2>2
<1> HIDE DEF Differ
<1> DEFINE end == IF j < l THEN Slash ELSE NUL
           a == p[j]
           b == q[j]
<1>7. end \in Nat /\ end \notin Characters
  BY GlobAssumption DEF NUL
<1>8. a \in Seq(Characters) /\ b \in Seq(Characters) /\ a # b
  BY <1>3, <1>5
<1>9. /\ \A k : CharAt(p, j, k) = CharOf(a, end, k)
      /\ \A k : CharAt(q, j, k) = CharOf(b, end, k)
  BY <1>1 DEF CharAt, CharOf, l
<1>10. Len(a) \in Nat /\ Len(b) \in Nat /\ Len(p[j]) = Len(a) /\ Len(q[j]) = Len(b)
  BY <1>8
<1> HIDE DEF end, a, b
<1>11. PICK k \in Nat :
         /\ k >= 1 /\ k <= Len(a) + 1 /\ k <= Len(b) + 1
         /\ CharOf(a, end, k) \in Nat /\ CharOf(b, end, k) \in Nat
         /\ CharOf(a, end, k) # CharOf(b, end, k)
         /\ \A i \in 1..k - 1 : CharOf(a, end, i) = CharOf(b, end, i)
  BY <1>7, <1>8, FirstDifference
<1>12. j \in DOMAIN p \cap DOMAIN q /\ j \in DOMAIN q \cap DOMAIN p
  BY <1>1, <1>5
<1>13. \A i \in 1..k - 1 : CharAt(p, j, i) = CharAt(q, j, i)
  BY <1>9, <1>11
<1>14. k \in 1..Len(p[j]) + 1 /\ k \in 1..Len(q[j]) + 1
  BY <1>10, <1>11
<1>15. CASE CharAt(p, j, k) < CharAt(q, j, k)
  <2>1. Before(p, q)
    BY <1>6, <1>12, <1>13, <1>14, <1>15 DEF Before
  <2> QED
    BY <2>1
<1>16. CASE CharAt(q, j, k) < CharAt(p, j, k)
  <2>1. Before(q, p)
    BY <1>6, <1>12, <1>13, <1>14, <1>16 DEF Before
  <2> QED
    BY <2>1
<1> QED
  BY <1>9, <1>11, <1>15, <1>16

\* Ends is defined, for each number of sets.
LEMMA EndsExist ==
  ASSUME NEW sets, Len(sets) \in Nat
  PROVE  \E f : f = [k \in 0..Len(sets) |-> IF k = 0 THEN 0 ELSE f[k - 1] + Cardinality(sets[k])]
<1> DEFINE Is(f, m) == f = [k \in 0..m |-> IF k = 0 THEN 0 ELSE f[k - 1] + Cardinality(sets[k])]
           S == {m \in Nat : \E f : Is(f, m)}
<1>1. 0 \in S
  <2> DEFINE f == [k \in 0..0 |-> 0]
  <2>1. \A k \in 0..0 : k = 0
    OBVIOUS
  <2>2. [k \in 0..0 |-> IF k = 0 THEN 0 ELSE f[k - 1] + Cardinality(sets[k])] = f
    BY <2>1
  <2>3. Is(f, 0)
    BY <2>2
  <2> QED
    BY <2>3
<1>2. ASSUME NEW m \in Nat, m \in S PROVE m + 1 \in S
  <2>1. PICK f : Is(f, m)
    BY <1>2
  <2> DEFINE g == [k \in 0..m + 1 |-> IF k = m + 1 THEN f[k - 1] + Cardinality(sets[k]) ELSE f[k]]
  <2>2. ASSUME NEW k \in 0..m + 1
        PROVE  g[k] = IF k = 0 THEN 0 ELSE g[k - 1] + Cardinality(sets[k])
    <3>1. k # 0 => k - 1 \in 0..m + 1 /\ k - 1 # m + 1
      OBVIOUS
    <3>2. k # 0 => g[k - 1] = f[k - 1]
      BY <3>1
    <3>3. CASE k = m + 1
      BY <3>2, <3>3
    <3>4. CASE k # m + 1
      <4>1. k \in 0..m
        BY <3>4
      <4>2. f[k] = IF k = 0 THEN 0 ELSE f[k - 1] + Cardinality(sets[k])
        BY <2>1, <4>1
      <4> QED
        BY <3>2, <3>4, <4>2
    <3> QED
      BY <3>3, <3>4
  <2>3. Is(g, m + 1)
    <3>1. g = [k \in 0..m + 1 |-> g[k]]
      OBVIOUS
    <3> HIDE DEF g
    <3>2. [k \in 0..m + 1 |-> g[k]]
          = [k \in 0..m + 1 |-> IF k = 0 THEN 0 ELSE g[k - 1] + Cardinality(sets[k])]
      BY <2>2
    <3> QED
      BY <3>1, <3>2
  <2> HIDE DEF g
  <2>4. \E h : Is(h, m + 1)
    BY <2>3
  <2> QED
    BY <2>4
<1> DEFINE l == Len(sets)
<1>3. l \in Nat
  OBVIOUS
<1> HIDE DEF S, l
<1>4. \A m \in 0..l - 1 : m \in S => m + 1 \in S
  BY <1>2, <1>3
<1>5. \A m \in 0..l : m \in S
  BY <1>1, <1>3, <1>4, InductionUpTo
<1> QED
  BY <1>3, <1>5 DEF S, l

\* Ends, set by set.
LEMMA EndsSteps ==
  ASSUME NEW sets, Len(sets) \in Nat
  PROVE  /\ Ends(sets)[0] = 0
         /\ \A k \in 1..Len(sets) : Ends(sets)[k] = Ends(sets)[k - 1] + Cardinality(sets[k])
<1> DEFINE Is(f) == f = [k \in 0..Len(sets) |-> IF k = 0 THEN 0 ELSE f[k - 1] + Cardinality(sets[k])]
           end == CHOOSE f : Is(f)
<1>1. Is(end)
  <2>1. \E f : Is(f)
    BY EndsExist
  <2> HIDE DEF Is
  <2> QED
    BY <2>1
<1>2. Ends(sets) = end
  BY DEF Ends
<1> HIDE DEF end
<1>3. end[0] = 0 /\ \A k \in 1..Len(sets) : end[k] = end[k - 1] + Cardinality(sets[k])
  BY <1>1
<1> QED
  BY <1>2, <1>3

\* A pattern in which no brace is closed is one alternative.
LEMMA OneAlternative ==
  ASSUME NEW pattern \in Seq(Elements), ~HasBrace(pattern)
  PROVE  Len(Expand(pattern)) = 1
<1> DEFINE closed == UpToOpenBrace(pattern)
           m == Len(closed)
<1>1. /\ closed \in Seq(Elements) /\ m \in Nat /\ \A j \in 1..m : closed[j].kind # "open"
      /\ \A j \in 1..m : j \in DOMAIN pattern /\ closed[j] = pattern[j]
  BY UpToOpenBraceTyped
<1>2. \A j \in DOMAIN pattern : pattern[j].kind \in {"segment", "brace", "open"}
  <2>1. \A j \in DOMAIN pattern : pattern[j] \in Elements
    OBVIOUS
  <2> QED
    BY <2>1 DEF Elements
<1>3. ASSUME NEW j \in 1..m PROVE closed[j].kind = "segment"
  <2> SUFFICES ASSUME closed[j].kind # "segment" PROVE FALSE
    OBVIOUS
  <2>1. j \in Braces(pattern)
    BY <1>1 DEF Braces
  <2> DEFINE first == FirstBrace(pattern)
  <2>2. first \in Braces(pattern) /\ \A k \in Braces(pattern) : first <= k
    <3>1. Braces(pattern) \in SUBSET Nat
      BY DEF Braces
    <3>2. \E i \in Braces(pattern) : \A k \in Braces(pattern) : i <= k
      BY <2>1, <3>1, LeastNumber
    <3> QED
      BY <3>2 DEF FirstBrace
  <2>3. pattern[first].kind # "brace"
    BY <2>1 DEF HasBrace
  <2>4. first \in DOMAIN pattern /\ pattern[first].kind = "open"
    BY <1>2, <2>2, <2>3 DEF Braces
  <2> HIDE DEF first
  <2>5. first \in 1..m
    <3>1. first \in 1..Len(pattern) /\ first <= j
      BY <2>1, <2>2, <2>4
    <3> QED
      BY <1>1, <3>1
  <2> QED
    BY <1>1, <2>4, <2>5
<1>4. PICK fronts : /\ fronts[0] = <<<<>>>>
                    /\ \A n \in 1..m : fronts[n] = WithNext(fronts[n - 1], closed[n])
                    /\ Expand(pattern) = fronts[m]
  BY <1>1, ExpandSteps
<1> HIDE DEF closed, m
<1> DEFINE S == {n \in 0..m : Len(fronts[n]) = 1}
<1>5. 0 \in S
  <2> DEFINE empty == <<>>
  <2>1. fronts[0] = <<empty>>
    BY <1>4
  <2> HIDE DEF empty
  <2>2. Len(fronts[0]) = 1
    BY <2>1
  <2> QED
    BY <1>1, <2>2
<1>6. ASSUME NEW n \in 0..m - 1, n \in S PROVE n + 1 \in S
  <2>1. n + 1 \in 1..m /\ (n + 1) - 1 = n /\ n + 1 \in 0..m
    BY <1>1
  <2>2. fronts[n + 1] = WithNext(fronts[n], closed[n + 1]) /\ closed[n + 1].kind = "segment"
    BY <1>3, <1>4, <2>1
  <2>3. fronts[n + 1] = [k \in 1..1 |-> Append(fronts[n][k], closed[n + 1].of)]
    BY <1>6, <2>2 DEF WithNext
  <2> DEFINE e == Append(fronts[n][1], closed[n + 1].of)
  <2>4. fronts[n + 1] = [k \in 1..1 |-> e]
    BY <2>3
  <2> HIDE DEF e
  <2>5. Len(fronts[n + 1]) = 1
    BY <2>4
  <2> QED
    BY <2>1, <2>5
<1>7. m \in S
  <2> HIDE DEF S
  <2>1. \A n \in 0..m : n \in S
    BY <1>1, <1>5, <1>6, InductionUpTo
  <2> QED
    BY <1>1, <2>1
<1> QED
  BY <1>4, <1>7

\* What is promised, alternative by alternative.
LEMMA PromisedFor ==
  ASSUME call.pattern \in Seq(Elements)
  PROVE  /\ Len(Promised) = Len(Expand(call.pattern)) /\ Len(Promised) \in Nat
         /\ \A k \in 1..Len(Promised) : Promised[k] = Adds(Expand(call.pattern), k)
<1> DEFINE patterns == Expand(call.pattern)
<1>1. patterns \in Seq(Seq(Segments))
  BY ExpandTyped
<1>2. Promised = [k \in DOMAIN patterns |-> Adds(patterns, k)]
  BY DEF Promised
<1> HIDE DEF patterns
<1>3. DOMAIN patterns = 1..Len(patterns) /\ Len(patterns) \in Nat
  BY <1>1
<1>4. Len(Promised) = Len(patterns)
  <2> DEFINE n == Len(patterns)
             A(k) == Adds(patterns, k)
  <2>1. Promised = [k \in 1..n |-> A(k)] /\ n \in Nat
    BY <1>2, <1>3
  <2> HIDE DEF n, A
  <2>2. Len(Promised) = n
    BY <2>1
  <2> QED
    BY <2>2 DEF n
<1> QED
  BY <1>2, <1>3, <1>4 DEF patterns

LEMMA PromisedStays == ASSUME UNCHANGED call PROVE UNCHANGED Promised
BY DEF Promised, Adds, StandsForItself

-----------------------------------------------------------------------------
(* All is added                                                            *)

\* gl_flags says so only if an alternative so far has a meta character.
MagcharTells ==
  pc # "idle" /\ magchar =>
    \/ \E i \in 1..Done : ~NoMagic(Expand(call.pattern)[i])
    \/ pc = "walk" /\ ~NoMagic(Head(todo))

\* Only a call that has failed loses paths of its own, and without a brace a call
\* that has failed is over, and returns what went wrong.
OutcomeFits ==
  /\ pc = "idle" => todo = <<>>
  /\ calls > 0 /\ ~failed => lost <= before
  /\ calls > 0 /\ failed /\ ~HasBrace(call.pattern) => pc # "walk" /\ todo = <<>> /\ ret # "0"

\* How many entries the first k alternatives add, and where those of the k-th are.
EndAt(k) == Ends(Promised)[k]

Block(k) == offs + before + EndAt(k - 1) + 1..offs + before + EndAt(k)

InOrder(array, cells) == \A i, j \in cells : i < j => Before(array[i], array[j])

BlockFits(k) ==
  /\ Promised[k] = {pathv[j] : j \in Block(k)}
  /\ "NOSORT" \notin call.flags => InOrder(pathv, Block(k))

\* The alternatives behind the walk have added what they stand for.
BlocksFit ==
  calls > 0 /\ ~failed /\ ~skipped =>
    /\ (IF pc = "walk" THEN oldpathc ELSE pathc) = before + EndAt(Done)
    /\ \A k \in 0..Done : EndAt(k) \in Nat /\ EndAt(k) <= EndAt(Done)
    /\ \A k \in 1..Done : BlockFits(k)

AddedInv == WalkInv /\ MagcharTells /\ OutcomeFits /\ BlocksFit

\* When glob0 returns there is one more alternative behind the walk.
LEMMA EndAdvances ==
  ASSUME FitInv, pc = "walk", NEW rv, EndGlob0(rv), UNCHANGED call
  PROVE  /\ Done \in Nat /\ Done' = Done + 1
         /\ Expand(call.pattern) \in Seq(Seq(Segments))
         /\ Done + 1 \in DOMAIN Expand(call.pattern) /\ Head(todo) = Expand(call.pattern)[Done + 1]
         /\ pc' = "next" /\ todo' = Tail(todo) /\ ret' = IF HasBrace(call.pattern) THEN "0" ELSE rv
<1> DEFINE patterns == Expand(call.pattern)
<1>1. todo' = Tail(todo) /\ pc' = "next" /\ ret' = IF HasBrace(call.pattern) THEN "0" ELSE rv
  BY DEF EndGlob0
<1>2. todo \in Seq(Seq(Segments)) /\ todo # <<>>
  BY DEF FitInv, ListInv, WalkTyped
<1>3. /\ patterns \in Seq(Seq(Segments)) /\ Done + 1 \in DOMAIN patterns
      /\ Head(todo) = patterns[Done + 1]
  BY <1>2, Walked
<1>4. Done \in Nat
  BY DEF FitInv, TodoFits
<1> HIDE DEF patterns
<1>5. Len(todo) \in Nat /\ Len(todo') = Len(todo) - 1
  BY <1>1, <1>2
<1>6. Done' = Len(patterns) - Len(todo') /\ Done = Len(patterns) - Len(todo) /\ Len(patterns) \in Nat
  BY <1>3 DEF Done, patterns
<1>7. Done' = Done + 1
  BY <1>5, <1>6
<1> QED
  BY <1>1, <1>3, <1>4, <1>7 DEF patterns

LEMMA EndKeepsMagchar ==
  ASSUME FitInv, MagcharTells, pc = "walk", NEW rv, EndGlob0(rv), UNCHANGED <<call, magchar>>
  PROVE  MagcharTells'
<1> DEFINE patterns == Expand(call.pattern)
<1>1. /\ Done \in Nat /\ Done' = Done + 1 /\ Head(todo) = patterns[Done + 1]
      /\ pc' = "next"
  BY EndAdvances
<1>2. magchar => \/ \E i \in 1..Done : ~NoMagic(patterns[i])
                 \/ ~NoMagic(patterns[Done + 1])
  BY <1>1 DEF MagcharTells
<1>3. Done + 1 \in 1..Done + 1 /\ \A i \in 1..Done : i \in 1..Done + 1
  BY <1>1
<1> HIDE DEF patterns
<1>4. magchar' => \E i \in 1..Done' : ~NoMagic(patterns[i])
  BY <1>1, <1>2, <1>3
<1> QED
  BY <1>4 DEF MagcharTells, patterns

LEMMA StepKeepsMagchar == ASSUME FitInv, MagcharTells, [Next]_vars PROVE MagcharTells'
<1>1. CASE Glob \/ Return \/ GlobFree
  <2>1. pc' = "idle" \/ ~magchar'
    BY <1>1 DEF Glob, Return, GlobFree
  <2> QED
    BY <2>1 DEF MagcharTells
<1>2. CASE Glob0
  <2>1. /\ UNCHANGED <<call, todo>> /\ pc = "next" /\ pc' = "walk"
        /\ magchar' = (magchar \/ \E j \in DOMAIN Head(todo) : IsMagic(Head(todo)[j]))
    BY <1>2 DEF Glob0
  <2>2. UNCHANGED Done
    BY <2>1 DEF Done
  <2>3. magchar' => magchar \/ ~NoMagic(Head(todo))
    BY <2>1 DEF NoMagic
  <2>4. magchar => \E i \in 1..Done : ~NoMagic(Expand(call.pattern)[i])
    BY <2>1 DEF MagcharTells
  <2> QED
    BY <2>1, <2>2, <2>3, <2>4 DEF MagcharTells
<1>3. CASE \/ NextSegment \/ NoSuchFile \/ FileFound \/ OpenDir \/ SkipDir \/ ReadDir \/ CloseDir
           \/ UNCHANGED vars
  <2>1. UNCHANGED <<call, todo, magchar, pc>>
    BY <1>3 DEF NextSegment, NoSuchFile, FileFound, OpenDir, SkipDir, ReadDir, CloseDir, vars
  <2>2. UNCHANGED Done
    BY <2>1 DEF Done
  <2> QED
    BY <2>1, <2>2 DEF MagcharTells
<1>4. CASE FileNotAdded \/ Abort \/ Matched \/ NoMatch \/ PatternAdded \/ PatternNotAdded
  <2>1. pc = "walk" /\ UNCHANGED <<call, magchar>> /\ \E rv : EndGlob0(rv)
    BY <1>4 DEF FileNotAdded, Abort, Matched, NoMatch, PatternAdded, PatternNotAdded, AtEnd, AtMagic,
                WalkEnds
  <2> QED
    BY <2>1, EndKeepsMagchar
<1> QED
  BY <1>1, <1>2, <1>3, <1>4 DEF Next

\* Without a brace there is no alternative behind the one that failed.
LEMMA FailingEndsCall ==
  ASSUME FitInv, pc = "walk", NEW rv, EndGlob0(rv), UNCHANGED call, ~HasBrace(call.pattern)
  PROVE  todo' = <<>> /\ ret' = rv
<1> DEFINE patterns == Expand(call.pattern)
<1>1. Done \in Nat /\ todo' = Tail(todo) /\ ret' = rv
  BY EndAdvances
<1>2. Len(patterns) = 1
  BY OneAlternative DEF FitInv, ListInv, WalkTyped
<1>3. todo \in Seq(Seq(Segments)) /\ todo # <<>>
  BY DEF FitInv, ListInv, WalkTyped
<1>4. Done = 1 - Len(todo) /\ Len(todo) \in Nat /\ Len(todo) > 0
  BY <1>2, <1>3 DEF Done
<1>5. Len(todo) = 1
  <2> DEFINE m == Len(todo)
             n == Done
  <2>1. n = 1 - m /\ n \in Nat /\ m \in Nat /\ m > 0
    BY <1>1, <1>4
  <2> HIDE DEF m, n
  <2>2. m = 1
    BY <2>1
  <2> QED
    BY <2>2 DEF m
<1>6. Tail(todo) = <<>>
  <2>1. Tail(todo) \in Seq(Seq(Segments)) /\ Len(Tail(todo)) = 0
    BY <1>3, <1>5
  <2> DEFINE t == Tail(todo)
  <2> HIDE DEF t
  <2>2. t \in Seq(Seq(Segments)) /\ Len(t) = 0
    BY <2>1 DEF t
  <2>3. t = <<>>
    BY <2>2
  <2> QED
    BY <2>3 DEF t
<1> QED
  BY <1>1, <1>6

LEMMA StepKeepsOutcome == ASSUME FitInv, OutcomeFits, [Next]_vars PROVE OutcomeFits'
<1>1. CASE Glob
  <2>1. pc' = "next" /\ failed' = FALSE /\ before' = pathc'
    BY <1>1 DEF Glob
  <2>2. lost' <= pathc'
    <3>1. pathc \in Nat /\ lost \in Nat /\ (calls > 0 => lost <= pathc)
      BY DEF FitInv, ListInv, IInv, Counts, ArrayTyped, ListWhole
    <3>2. (calls > 0 /\ UNCHANGED <<pathc, lost>>) \/ (pathc' = 0 /\ lost' = 0)
      BY <1>1 DEF Glob
    <3> QED
      BY <3>1, <3>2
  <2> QED
    BY <2>1, <2>2 DEF OutcomeFits
<1>2. CASE GlobFree
  <2>1. UNCHANGED <<pc, todo>> /\ calls' = 0
    BY <1>2 DEF GlobFree
  <2> QED
    BY <2>1 DEF OutcomeFits
<1>3. CASE Glob0 \/ Return
  <2>1. /\ UNCHANGED <<call, todo, ret, calls, before, failed, lost>> /\ (pc' = "idle" => todo = <<>>)
        /\ (pc' = "walk" => todo # <<>>)
    BY <1>3 DEF Glob0, Return, list, history
  <2> QED
    BY <2>1 DEF OutcomeFits
<1>4. CASE \/ NextSegment \/ NoSuchFile \/ FileFound \/ OpenDir \/ SkipDir \/ ReadDir \/ CloseDir
           \/ UNCHANGED vars
  <2>1. UNCHANGED <<call, todo, pc, ret, calls, before, failed, lost>>
    BY <1>4 DEF NextSegment, NoSuchFile, FileFound, OpenDir, SkipDir, ReadDir, CloseDir, AddPath,
                list, history, vars
  <2> QED
    BY <2>1 DEF OutcomeFits
<1>5. CASE FileNotAdded \/ Abort \/ PatternNotAdded
  <2>1. /\ pc = "walk" /\ UNCHANGED <<call, calls>> /\ failed' = TRUE
        /\ EndGlob0("NOSPACE") \/ EndGlob0("ABORTED")
    BY <1>5 DEF FileNotAdded, Abort, PatternNotAdded, CannotAdd, AtEnd, AtMagic, WalkEnds, history
  <2>2. pc' = "next"
    BY <2>1 DEF EndGlob0
  <2>3. ~HasBrace(call.pattern) => todo' = <<>> /\ ret' # "0"
    BY <2>1, FailingEndsCall
  <2> QED
    BY <2>1, <2>2, <2>3 DEF OutcomeFits
<1>6. CASE Matched \/ NoMatch \/ PatternAdded
  <2>1. pc = "walk" /\ UNCHANGED <<call, calls, before, failed, lost>> /\ pc' = "next"
    BY <1>6 DEF Matched, NoMatch, PatternAdded, AddPath, WalkEnds, EndGlob0, list, history
  <2> QED
    BY <2>1 DEF OutcomeFits
<1> QED
  BY <1>1, <1>2, <1>3, <1>4, <1>5, <1>6 DEF Next

\* The cells hold each of the paths, and none of them twice.
HoldOnce(array, cells, paths) ==
  /\ paths = {array[j] : j \in cells}
  /\ \A i, j \in cells : array[i] = array[j] => i = j

\* There are as many paths as cells.
LEMMA CellsCounted ==
  ASSUME NEW a \in Nat, NEW b \in Nat, a <= b, NEW cells, cells = a + 1..b,
         NEW array, NEW paths, HoldOnce(array, cells, paths)
  PROVE  IsFiniteSet(paths) /\ Cardinality(paths) = b - a
<1> DEFINE f == [j \in cells |-> array[j]]
<1>1. IsFiniteSet(cells) /\ Cardinality(cells) = b - a
  <2>1. a + 1 \in Int /\ b \in Int
    OBVIOUS
  <2>2. IsFiniteSet(a + 1..b) /\ Cardinality(a + 1..b) = IF a + 1 > b THEN 0 ELSE b - (a + 1) + 1
    BY <2>1, FS_Interval
  <2> QED
    BY <2>2
<1>2. f \in Bijection(cells, paths)
  <2>1. f \in [cells -> paths] /\ \A j \in cells : f[j] = array[j]
    BY DEF HoldOnce
  <2>2. \A i, j \in cells : f[i] = f[j] => i = j
    BY <2>1 DEF HoldOnce
  <2>3. \A x \in paths : \E j \in cells : f[j] = x
    BY <2>1 DEF HoldOnce
  <2> HIDE DEF f
  <2> QED
    BY <2>1, <2>2, <2>3 DEF Bijection, Injection, Surjection, IsInjective
<1> HIDE DEF f
<1>3. IsFiniteSet(paths) /\ Cardinality(paths) = Cardinality(cells)
  BY <1>1, <1>2, FS_Bijection DEF ExistsBijection
<1> QED
  BY <1>1, <1>3

\* What is sorted without a loss is not doubled.
LEMMA OrdersPermute ==
  ASSUME IInv, NEW order \in Orders
  PROVE  \A i, j \in SortedCells : order[i] = order[j] => i = j
<1>1. order \in [SortedCells -> SortedCells] /\ \A i \in SortedCells : \E j \in SortedCells : order[j] = i
  BY DEF Orders
<1>2. IsFiniteSet(SortedCells)
  <2>1. offs + oldpathc + 1 \in Int /\ offs + pathc \in Int
    BY DEF IInv, Counts
  <2> QED
    BY <2>1, FS_Interval DEF SortedCells, SortFrom
<1>3. order \in Surjection(SortedCells, SortedCells)
  BY <1>1 DEF Surjection
<1>4. order \in Injection(SortedCells, SortedCells)
  BY <1>2, <1>3, FS_SurjSameCardinalityImpliesInj
<1> QED
  BY <1>4 DEF Injection, IsInjective

\* At the end of a walk that has passed over nothing all matches were found, and
\* each of them once.
LEMMA EverythingFound ==
  ASSUME WalkInv, WalkEnds, ~skipped
  PROVE  /\ HoldOnce(pathv, NewCells, Matching(Head(todo)))
         /\ IsFiniteSet(Matching(Head(todo))) /\ Cardinality(Matching(Head(todo))) = pathc - oldpathc
<1> DEFINE matches == Matching(Head(todo))
           a == offs + oldpathc
           b == offs + pathc
<1>1. pc = "walk" /\ visit = NULL /\ stack = <<>>
  BY DEF WalkEnds
<1>2. /\ a \in Nat /\ b \in Nat /\ a <= b /\ b - a = pathc - oldpathc /\ NewCells = a + 1..b
  BY <1>1 DEF NewCells, WalkInv, FitInv, ListInv, IInv, Counts
<1>3. /\ \A j \in NewCells : pathv[j] \in matches
      /\ \A i, j \in NewCells : pathv[i] = pathv[j] => i = j
  BY <1>1 DEF WalkInv, FoundOnce
<1>4. \A path : ~Ahead(path, visit, stack)
  BY <1>1 DEF Ahead
<1>5. \A path \in matches : \E j \in NewCells : pathv[j] = path
  BY <1>1, <1>4, WalkFacts DEF WalkInv, Found
<1> HIDE DEF matches
<1>6. HoldOnce(pathv, NewCells, matches)
  BY <1>3, <1>5 DEF HoldOnce
<1> HIDE DEF a, b
<1>7. IsFiniteSet(matches) /\ Cardinality(matches) = b - a
  BY <1>2, <1>6, CellsCounted
<1> QED
  BY <1>2, <1>6, <1>7 DEF matches

LEMMA DoneIsNumber == ASSUME FitInv, OutcomeFits PROVE Done \in Nat
<1>1. CASE pc # "idle"
  BY <1>1 DEF FitInv, TodoFits
<1>2. CASE pc = "idle"
  <2> DEFINE patterns == Expand(call.pattern)
             empty == <<>>
  <2>1. patterns \in Seq(Seq(Segments)) /\ todo = empty /\ Len(empty) = 0
    BY <1>2, ExpandTyped DEF FitInv, ListInv, WalkTyped, OutcomeFits
  <2> HIDE DEF patterns, empty
  <2>2. Len(patterns) \in Nat /\ Len(patterns) - Len(todo) = Len(patterns)
    BY <2>1
  <2> QED
    BY <2>2 DEF Done, patterns
<1> QED
  BY <1>1, <1>2

\* The blocks of the alternatives behind the walk are before its entries.
LEMMA BlocksBehind ==
  ASSUME AddedInv, calls > 0, ~failed, ~skipped, NEW k \in 1..Done, NEW j \in Block(k)
  PROVE  /\ j \in 1..offs + pathc /\ pathv # NULL
         /\ pc = "walk" => j \in 1..offs + oldpathc
<1> DEFINE l == EndAt(k - 1)
           m == EndAt(k)
           n == EndAt(Done)
           c == IF pc = "walk" THEN oldpathc ELSE pathc
<1>1. /\ offs \in Nat /\ pathc \in Nat /\ before \in Nat /\ oldpathc \in Nat
      /\ pc = "walk" => oldpathc <= pathc
  BY DEF AddedInv, WalkInv, FitInv, ListInv, IInv, Counts
<1>2. k - 1 \in 0..Done /\ k \in 0..Done
  <2> DEFINE d == Done
  <2>1. k \in 1..d /\ d \in Nat
    BY DoneIsNumber DEF AddedInv, WalkInv
  <2> HIDE DEF d
  <2>2. k - 1 \in 0..d /\ k \in 0..d
    BY <2>1
  <2> QED
    BY <2>2 DEF d
<1>3. /\ c = before + n /\ l \in Nat /\ m \in Nat /\ n \in Nat /\ m <= n
  <2>1. /\ c = before + EndAt(Done)
        /\ \A i \in 0..Done : EndAt(i) \in Nat /\ EndAt(i) <= EndAt(Done)
    BY DEF AddedInv, BlocksFit
  <2>2. EndAt(k - 1) \in Nat /\ EndAt(k) \in Nat /\ EndAt(k) <= EndAt(Done)
    BY <1>2, <2>1
  <2>3. EndAt(Done) \in Nat
    <3> DEFINE d == Done
    <3>1. d \in Nat
      BY DoneIsNumber DEF AddedInv, WalkInv
    <3> HIDE DEF d
    <3>2. d \in 0..d
      BY <3>1
    <3> QED
      BY <2>1, <3>2 DEF d
  <2> QED
    BY <2>1, <2>2, <2>3
<1>4. j \in offs + before + l + 1..offs + before + m
  BY DEF Block
<1>5. c <= pathc /\ c \in Nat
  BY <1>1
<1> HIDE DEF l, m, n
<1>6. j \in 1..offs + c /\ j \in 1..offs + pathc /\ pathc > before
  <2> HIDE DEF c
  <2> QED
    BY <1>1, <1>3, <1>4, <1>5
<1>7. lost \in Nat /\ lost <= before
  BY DEF AddedInv, OutcomeFits, WalkInv, FitInv, ListInv, ArrayTyped
<1>8. pathv # NULL
  BY <1>1, <1>6, <1>7 DEF AddedInv, WalkInv, FitInv, ListInv, ListWhole
<1> QED
  BY <1>6, <1>8

\* Whatever a step does to the array, the blocks behind the walk fit if it leaves
\* them alone.
LEMMA BlockKept ==
  ASSUME UNCHANGED <<call, offs, before>>, NEW k \in Nat, BlockFits(k),
         \A j \in Block(k) : pathv'[j] = pathv[j]
  PROVE  BlockFits(k)' /\ UNCHANGED EndAt(k) /\ UNCHANGED Block(k)
<1>1. UNCHANGED Promised
  BY PromisedStays
<1>2. UNCHANGED EndAt(k) /\ UNCHANGED EndAt(k - 1)
  BY <1>1 DEF EndAt
<1>3. UNCHANGED Block(k)
  BY <1>2 DEF Block
<1>4. {pathv'[j] : j \in Block(k)} = {pathv[j] : j \in Block(k)}
  OBVIOUS
<1>5. InOrder(pathv, Block(k)) => InOrder(pathv', Block(k))
  BY DEF InOrder
<1> QED
  BY <1>1, <1>2, <1>3, <1>4, <1>5 DEF BlockFits

\* The blocks fit as long as the array, up to them, and what is behind the walk stay.
LEMMA BlocksKept ==
  ASSUME AddedInv, calls > 0, ~failed, ~skipped, UNCHANGED <<call, offs, before>>,
         \A j \in 1..offs + (IF pc = "walk" THEN oldpathc ELSE pathc) : pathv # NULL => pathv'[j] = pathv[j]
  PROVE  /\ \A k \in 0..Done : /\ UNCHANGED EndAt(k)
                               /\ EndAt(k)' \in Nat /\ EndAt(k)' <= EndAt(Done)
         /\ \A k \in 1..Done : BlockFits(k)'
         /\ (IF pc = "walk" THEN oldpathc ELSE pathc) = before + EndAt(Done)
<1>1. UNCHANGED Promised
  BY PromisedStays
<1>2. \A k : UNCHANGED EndAt(k)
  BY <1>1 DEF EndAt
<1>3. /\ (IF pc = "walk" THEN oldpathc ELSE pathc) = before + EndAt(Done)
      /\ \A k \in 0..Done : EndAt(k) \in Nat /\ EndAt(k) <= EndAt(Done)
      /\ \A k \in 1..Done : BlockFits(k)
  BY DEF AddedInv, BlocksFit
<1>4. ASSUME NEW k \in 1..Done PROVE BlockFits(k)'
  <2>1. \A j \in Block(k) : pathv'[j] = pathv[j]
    <3>1. ASSUME NEW j \in Block(k) PROVE pathv'[j] = pathv[j]
      <4>1. /\ pathv # NULL /\ j \in 1..offs + pathc
            /\ pc = "walk" => j \in 1..offs + oldpathc
        BY BlocksBehind
      <4> QED
        BY <4>1
    <3> QED
      BY <3>1
  <2>2. k \in Nat
    OBVIOUS
  <2> QED
    BY <1>3, <2>1, <2>2, BlockKept
<1> QED
  BY <1>2, <1>3, <1>4

\* A step of the walk, or from one alternative to the next, adds no block.
LEMMA WalkingKeepsBlocks ==
  ASSUME AddedInv, UNCHANGED <<call, offs, before, calls, failed, todo>>, skipped => skipped',
         (IF pc' = "walk" THEN oldpathc' ELSE pathc') = (IF pc = "walk" THEN oldpathc ELSE pathc),
         \A j \in 1..offs + (IF pc = "walk" THEN oldpathc ELSE pathc) : pathv # NULL => pathv'[j] = pathv[j]
  PROVE  BlocksFit'
<1> SUFFICES ASSUME calls > 0, ~failed, ~skipped
             PROVE  /\ (IF pc' = "walk" THEN oldpathc' ELSE pathc') = before + EndAt(Done)'
                    /\ \A k \in 0..Done' : EndAt(k)' \in Nat /\ EndAt(k)' <= EndAt(Done)'
                    /\ \A k \in 1..Done' : BlockFits(k)'
  BY DEF BlocksFit
<1>1. UNCHANGED Done
  BY DEF Done
<1>2. /\ \A k \in 0..Done : /\ UNCHANGED EndAt(k)
                            /\ EndAt(k)' \in Nat /\ EndAt(k)' <= EndAt(Done)
      /\ \A k \in 1..Done : BlockFits(k)'
      /\ (IF pc = "walk" THEN oldpathc ELSE pathc) = before + EndAt(Done)
  BY BlocksKept
<1>3. UNCHANGED EndAt(Done)
  <2>1. UNCHANGED Promised
    BY PromisedStays
  <2> QED
    BY <1>1, <2>1 DEF EndAt
<1> QED
  BY <1>1, <1>2, <1>3

\* The alternative that was walked has its block if it has added what it stands for.
LEMMA BlockAdded ==
  ASSUME AddedInv, pc = "walk", calls > 0, ~failed, ~skipped,
         NEW rv, EndGlob0(rv), UNCHANGED <<call, offs, before>>,
         \A j \in 1..offs + oldpathc : pathv # NULL => pathv'[j] = pathv[j],
         NEW paths, paths = Adds(Expand(call.pattern), Done + 1),
         Cardinality(paths) = pathc' - oldpathc, pathc' \in Nat, oldpathc <= pathc',
         paths = {pathv'[j] : j \in offs + oldpathc + 1..offs + pathc'},
         "NOSORT" \notin call.flags => InOrder(pathv', offs + oldpathc + 1..offs + pathc')
  PROVE  BlocksFit'
<1>0. PICK n \in Nat : n = Done
  BY EndAdvances DEF AddedInv, WalkInv
<1> DEFINE last == EndAt(n + 1)
<1>1. /\ Done' = n + 1 /\ pc' = "next" /\ n + 1 \in DOMAIN Expand(call.pattern)
      /\ Expand(call.pattern) \in Seq(Seq(Segments)) /\ paths = Adds(Expand(call.pattern), n + 1)
  BY <1>0, EndAdvances DEF AddedInv, WalkInv
<1>2. n + 1 \in 1..Len(Promised) /\ Len(Promised) \in Nat /\ Promised[n + 1] = paths
  <2> DEFINE patterns == Expand(call.pattern)
  <2>1. /\ Len(Promised) = Len(patterns) /\ Len(Promised) \in Nat
        /\ \A k \in 1..Len(Promised) : Promised[k] = Adds(patterns, k)
    BY PromisedFor DEF AddedInv, WalkInv, FitInv, ListInv, WalkTyped
  <2>2. patterns \in Seq(Seq(Segments)) /\ n + 1 \in DOMAIN patterns /\ paths = Adds(patterns, n + 1)
    BY <1>1
  <2> HIDE DEF patterns
  <2>3. n + 1 \in 1..Len(Promised)
    BY <2>1, <2>2
  <2> QED
    BY <2>1, <2>2, <2>3
<1>3. last = EndAt(n) + Cardinality(paths)
  <2> DEFINE sets == Promised
  <2>1. \A k \in 1..Len(sets) : Ends(sets)[k] = Ends(sets)[k - 1] + Cardinality(sets[k])
    BY <1>2, EndsSteps
  <2>2. (n + 1) - 1 = n
    BY <1>1
  <2> HIDE DEF sets
  <2>3. Ends(sets)[n + 1] = Ends(sets)[n] + Cardinality(paths)
    BY <1>2, <2>1, <2>2 DEF sets
  <2> QED
    BY <2>3 DEF EndAt, sets
<1>4. /\ \A k \in 0..n : /\ UNCHANGED EndAt(k)
                         /\ EndAt(k)' \in Nat /\ EndAt(k)' <= EndAt(n)
      /\ \A k \in 1..n : BlockFits(k)'
      /\ oldpathc = before + EndAt(n)
  BY <1>0, BlocksKept
<1>5. UNCHANGED Promised /\ \A k : UNCHANGED EndAt(k)
  <2>1. UNCHANGED Promised
    BY PromisedStays
  <2> QED
    BY <2>1 DEF EndAt
<1>6. offs \in Nat /\ before \in Nat /\ oldpathc \in Nat
  BY DEF AddedInv, WalkInv, FitInv, ListInv, IInv, Counts
<1>7. EndAt(n) \in Nat
  <2>1. n \in 0..n
    BY <1>1
  <2> QED
    BY <1>4, <1>5, <2>1
<1> DEFINE m == EndAt(n)
           size == Cardinality(paths)
<1>8. /\ last = m + size /\ m \in Nat /\ size = pathc' - oldpathc /\ oldpathc = before + m
      /\ pathc' \in Nat /\ oldpathc <= pathc'
  BY <1>3, <1>4, <1>7
<1>9. (n + 1) - 1 = n
  BY <1>1
<1>10. UNCHANGED last
  BY <1>5
<1>11. Block(n + 1)' = offs + before + m + 1..offs + before + last
  BY <1>5, <1>9 DEF Block
<1> HIDE DEF m, last, size
<1>12. pathc' = before + last /\ m <= last /\ last \in Nat
  <2> DEFINE c == pathc'
             o == oldpathc
             b == before
  <2>1. /\ last = m + size /\ m \in Nat /\ size = c - o /\ o = b + m /\ c \in Nat /\ o \in Nat
        /\ b \in Nat /\ o <= c
    BY <1>6, <1>8
  <2> HIDE DEF c, o, b
  <2>2. c = b + last /\ m <= last /\ last \in Nat
    BY <2>1
  <2> QED
    BY <2>2 DEF c, b
<1>13. offs + before + m = offs + oldpathc /\ offs + before + last = offs + pathc'
  BY <1>6, <1>8, <1>12
<1>14. BlockFits(n + 1)'
  <2>1. Block(n + 1)' = offs + oldpathc + 1..offs + pathc'
    BY <1>11, <1>13
  <2>2. Promised'[n + 1] = {pathv'[j] : j \in Block(n + 1)'}
    BY <1>2, <1>5, <2>1
  <2>3. "NOSORT" \notin call'.flags => InOrder(pathv', Block(n + 1)')
    BY <2>1
  <2> QED
    BY <2>2, <2>3 DEF BlockFits
<1>15. ASSUME NEW k \in 0..n + 1 PROVE EndAt(k)' \in Nat /\ EndAt(k)' <= last
  <2>1. CASE k = n + 1
    BY <1>10, <1>12, <2>1 DEF last
  <2>2. CASE k # n + 1
    <3>1. k \in 0..n
      BY <1>1, <2>2
    <3>2. EndAt(k)' \in Nat /\ EndAt(k)' <= m
      BY <1>4, <3>1 DEF m
    <3> QED
      BY <1>8, <1>12, <3>2
  <2> QED
    BY <2>1, <2>2
<1>16. ASSUME NEW k \in 1..n + 1 PROVE BlockFits(k)'
  <2>1. k \in 1..n \/ k = n + 1
    BY <1>1
  <2> QED
    BY <1>4, <1>14, <2>1
<1>17. EndAt(Done)' = last
  BY <1>1, <1>10 DEF last
<1>18. /\ \A k \in 0..Done' : EndAt(k)' \in Nat /\ EndAt(k)' <= EndAt(Done)'
       /\ \A k \in 1..Done' : BlockFits(k)'
       /\ pathc' = before' + EndAt(Done)'
  BY <1>1, <1>12, <1>15, <1>16, <1>17
<1> QED
  BY <1>1, <1>18 DEF BlocksFit

\* Nothing that is counted has moved when a path is added.
LEMMA AddingKeepsCells ==
  ASSUME AddedInv, NEW path, AddPath(path)
  PROVE  \A j \in 1..offs + pathc : pathv # NULL => pathv'[j] = pathv[j]
BY StoringKeepsTheRest DEF AddPath, AddedInv, WalkInv, FitInv, ListInv

\* No alternative is behind a call that begins.
LEMMA GlobBeginsBlocks == ASSUME AddedInv, Glob PROVE BlocksFit'
<1>1. todo' = Expand(call'.pattern) /\ pc' = "next" /\ before' = pathc'
  BY DEF Glob
<1>2. todo' \in Seq(Seq(Segments))
  BY BeginKeepsWalkTyped DEF AddedInv, WalkInv, FitInv, ListInv, WalkTyped
<1>3. Len(todo') \in Nat /\ DOMAIN todo' = 1..Len(todo')
  BY <1>2
<1>4. Done' = 0
  BY <1>1, <1>3 DEF Done
<1>5. Len(Promised') \in Nat
  <2> DEFINE n == Len(todo')
             A(k) == Adds(Expand(call.pattern), k)'
  <2>1. Promised' = [k \in 1..n |-> A(k)] /\ n \in Nat
    BY <1>1, <1>3 DEF Promised
  <2> HIDE DEF n, A
  <2>2. Len(Promised') = n
    BY <2>1
  <2> QED
    BY <2>1, <2>2
<1>6. EndAt(0)' = 0
  BY <1>5, EndsSteps DEF EndAt
<1>7. pathc' \in Nat /\ before' \in Nat
  <2>1. WalkInv'
    BY StepKeepsWalk DEF AddedInv, Next
  <2> QED
    BY <2>1 DEF WalkInv, FitInv, ListInv, IInv, Counts
<1>8. \A k \in 0..0 : k = 0
  OBVIOUS
<1>9. /\ \A k \in 0..Done' : EndAt(k)' \in Nat /\ EndAt(k)' <= EndAt(0)'
      /\ \A k \in 1..Done' : BlockFits(k)'
      /\ pathc' = before' + EndAt(0)'
  BY <1>1, <1>4, <1>6, <1>7, <1>8
<1>10. EndAt(Done)' = EndAt(0)'
  BY <1>4 DEF EndAt
<1> QED
  BY <1>1, <1>9, <1>10 DEF BlocksFit

\* The alternative that is walked, and what it adds.
LEMMA WalkedAdds ==
  ASSUME FitInv, pc = "walk"
  PROVE  LET matches == Matching(Head(todo)) IN
         /\ Head(todo) \in Seq(Segments)
         /\ Adds(Expand(call.pattern), Done + 1) =
              IF matches # {} \/ ~StandsForItself(Expand(call.pattern), Done + 1) THEN matches
              ELSE {AsGiven(Head(todo))}
<1>1. todo # <<>>
  BY DEF FitInv, ListInv, WalkTyped
<1>2. Head(todo) = Expand(call.pattern)[Done + 1]
  BY <1>1, Walked
<1>3. Head(todo) \in Seq(Segments)
  BY WalkFacts
<1> QED
  BY <1>2, <1>3 DEF Adds

\* glob0 adds an alternative without a match only if it was asked to.
LEMMA WantsWhatStands ==
  ASSUME FitInv, MagcharTells, pc = "walk"
  PROVE  WantsPattern <=> StandsForItself(Expand(call.pattern), Done + 1)
<1> DEFINE patterns == Expand(call.pattern)
           k == Done + 1
<1>1. todo # <<>>
  BY DEF FitInv, ListInv, WalkTyped
<1>2. Head(todo) = patterns[k]
  BY <1>1, Walked
<1>3. Done \in Nat
  BY DEF FitInv, TodoFits
<1>4. \A i \in 1..k : i \in 1..Done \/ i = k
  BY <1>3
<1>5. k \in 1..k /\ \A i \in 1..Done : i \in 1..k
  BY <1>3
<1> HIDE DEF patterns, k
<1>6. StandsForItself(patterns, k) <=>
        "NOCHECK" \in call.flags \/ ("NOMAGIC" \in call.flags /\ \A i \in 1..k : NoMagic(patterns[i]))
  BY DEF StandsForItself, NoMagic
<1>7. ASSUME magchar PROVE ~\A i \in 1..k : NoMagic(patterns[i])
  <2>1. (\E i \in 1..Done : ~NoMagic(patterns[i])) \/ ~NoMagic(Head(todo))
    BY <1>7 DEF MagcharTells, patterns
  <2> QED
    BY <1>2, <1>5, <2>1
<1>8. ASSUME ~magchar PROVE \A i \in 1..k : NoMagic(patterns[i])
  <2>1. (\A i \in 1..Done : NoMagic(patterns[i])) /\ NoMagic(Head(todo))
    BY <1>8 DEF FitInv, MagcharFits, patterns
  <2> QED
    BY <1>2, <1>4, <2>1
<1>9. WantsPattern <=> StandsForItself(patterns, k)
  <2>1. CASE magchar
    BY <1>6, <1>7, <2>1 DEF WantsPattern
  <2>2. CASE ~magchar
    BY <1>6, <1>8, <2>2 DEF WantsPattern
  <2> QED
    BY <2>1, <2>2
<1> QED
  BY <1>9 DEF patterns, k

\* An alternative with matches has added them, and sorted them if it was asked to.
LEMMA MatchedAddsBlock == ASSUME AddedInv, Matched, calls > 0, ~failed, ~skipped PROVE BlocksFit'
<1> DEFINE matches == Matching(Head(todo))
<1>1. /\ WalkEnds /\ pc = "walk" /\ pathc # oldpathc /\ EndGlob0("0")
      /\ UNCHANGED <<pathc, oldpathc, offs, before, call>>
  BY DEF Matched, WalkEnds, history
<1>2. /\ offs \in Nat /\ pathc \in Nat /\ oldpathc \in Nat /\ before \in Nat
      /\ oldpathc <= pathc /\ before <= oldpathc
      /\ \E n \in Nat : n >= offs + pathc + 1 /\ DOMAIN pathv = 1..n
  BY <1>1 DEF AddedInv, WalkInv, FitInv, ListInv, IInv, Counts, ArrayHasRoom
<1>3. HoldOnce(pathv, NewCells, matches) /\ Cardinality(matches) = pathc - oldpathc
  BY <1>1, EverythingFound DEF AddedInv
<1>4. offs + pathc \in NewCells /\ NewCells \subseteq DOMAIN pathv /\ SortedCells = NewCells
  <2>1. offs + pathc \in NewCells
    BY <1>1, <1>2 DEF NewCells
  <2>2. NewCells \subseteq DOMAIN pathv
    BY <1>2 DEF NewCells
  <2> QED
    BY <2>1, <2>2 DEF NewCells, SortedCells, SortFrom
<1>5. matches # {}
  BY <1>3, <1>4 DEF HoldOnce
<1>6. Adds(Expand(call.pattern), Done + 1) = matches /\ Head(todo) \in Seq(Segments)
  BY <1>1, <1>5, WalkedAdds DEF AddedInv, WalkInv
<1>7. /\ matches = {pathv'[j] : j \in NewCells}
      /\ \A j \in 1..offs + oldpathc : pathv # NULL => pathv'[j] = pathv[j]
      /\ "NOSORT" \notin call.flags => InOrder(pathv', NewCells)
  <2>1. CASE "NOSORT" \in call.flags
    <3>1. UNCHANGED pathv
      BY <2>1 DEF Matched
    <3> QED
      BY <1>3, <2>1, <3>1 DEF HoldOnce
  <2>2. CASE "NOSORT" \notin call.flags
    <3>1. PICK order \in Orders : pathv' = Sorted(order)
      BY <2>2 DEF Matched
    <3>2. /\ order \in [NewCells -> NewCells]
          /\ \A i \in NewCells : \E j \in NewCells : order[j] = i
          /\ \A i, j \in NewCells : i < j => ~Before(pathv[order[j]], pathv[order[i]])
      BY <1>4, <3>1 DEF Orders
    <3>3. \A i, j \in NewCells : order[i] = order[j] => i = j
      BY <1>4, <3>1, OrdersPermute DEF AddedInv, WalkInv, FitInv, ListInv
    <3>4. \A j \in NewCells : pathv'[j] = pathv[order[j]] /\ order[j] \in NewCells
      BY <1>4, <3>1, <3>2 DEF Sorted
    <3>5. matches = {pathv'[j] : j \in NewCells}
      BY <1>3, <3>2, <3>4 DEF HoldOnce
    <3>6. ASSUME NEW i \in NewCells, NEW j \in NewCells, i < j PROVE Before(pathv'[i], pathv'[j])
      <4>1. i # j
        BY <1>2, <3>6 DEF NewCells
      <4>2. pathv'[i] # pathv'[j]
        BY <1>3, <3>3, <3>4, <4>1 DEF HoldOnce
      <4>3. pathv'[i] \in matches /\ pathv'[j] \in matches
        BY <3>5
      <4> DEFINE p == pathv'[i]
                 q == pathv'[j]
      <4>4. ~Before(q, p)
        BY <3>2, <3>4, <3>6
      <4> HIDE DEF p, q
      <4>5. /\ p \in Seq(Seq(Characters)) /\ q \in Seq(Seq(Characters)) /\ Len(p) = Len(q)
        BY <1>6, <4>3, MatchingPaths DEF p, q
      <4>6. Before(p, q)
        BY <4>2, <4>4, <4>5, OneIsBefore DEF p, q
      <4> QED
        BY <4>6 DEF p, q
    <3>7. ASSUME NEW j \in 1..offs + oldpathc PROVE pathv'[j] = pathv[j]
      <4>1. j \in DOMAIN pathv /\ j \notin SortedCells
        BY <1>2 DEF SortedCells, SortFrom
      <4> QED
        BY <3>1, <4>1 DEF Sorted
    <3> QED
      BY <3>5, <3>6, <3>7 DEF InOrder
  <2> QED
    BY <2>1, <2>2
<1> HIDE DEF matches
<1>8. NewCells = offs + oldpathc + 1..offs + pathc'
  BY <1>1 DEF NewCells
<1> QED
  BY <1>1, <1>2, <1>3, <1>6, <1>7, <1>8, BlockAdded

\* An alternative without a match that was not asked for itself adds nothing.
LEMMA NoMatchAddsBlock == ASSUME AddedInv, NoMatch, calls > 0, ~failed, ~skipped PROVE BlocksFit'
<1> DEFINE matches == Matching(Head(todo))
<1>1. /\ WalkEnds /\ pc = "walk" /\ pathc = oldpathc /\ EndGlob0("NOMATCH") /\ ~WantsPattern
      /\ UNCHANGED <<pathv, pathc, oldpathc, offs, before, call>>
  BY DEF NoMatch, WalkEnds, list, history
<1>2. offs \in Nat /\ pathc \in Nat /\ NewCells = {}
  BY <1>1 DEF NewCells, AddedInv, WalkInv, FitInv, ListInv, IInv, Counts
<1>3. HoldOnce(pathv, NewCells, matches) /\ Cardinality(matches) = pathc - oldpathc
  BY <1>1, EverythingFound DEF AddedInv
<1>4. Adds(Expand(call.pattern), Done + 1) = matches
  BY <1>1, WalkedAdds, WantsWhatStands DEF AddedInv, WalkInv
<1> HIDE DEF matches
<1>5. /\ matches = {pathv'[j] : j \in offs + oldpathc + 1..offs + pathc'}
      /\ InOrder(pathv', offs + oldpathc + 1..offs + pathc')
  BY <1>1, <1>2, <1>3 DEF HoldOnce, InOrder, NewCells
<1>6. /\ Cardinality(matches) = pathc' - oldpathc /\ pathc' \in Nat /\ oldpathc <= pathc'
      /\ \A j \in 1..offs + oldpathc : pathv # NULL => pathv'[j] = pathv[j]
      /\ "NOSORT" \notin call.flags => InOrder(pathv', offs + oldpathc + 1..offs + pathc')
  BY <1>1, <1>2, <1>3, <1>5
<1> QED
  BY <1>1, <1>4, <1>5, <1>6, BlockAdded

\* An alternative without a match that was asked for is its own block.
LEMMA PatternAddsBlock == ASSUME AddedInv, PatternAdded, calls > 0, ~failed, ~skipped PROVE BlocksFit'
<1> DEFINE matches == Matching(Head(todo))
           path == AsGiven(Head(todo))
           c == offs + pathc + 1
<1>1. /\ WalkEnds /\ pc = "walk" /\ pathc = oldpathc /\ EndGlob0("0") /\ WantsPattern
      /\ AddPath(path) /\ UNCHANGED <<oldpathc, offs, before, call, calls>>
  BY DEF PatternAdded, WalkEnds, history
<1>2. offs \in Nat /\ pathc \in Nat /\ NewCells = {}
  BY <1>1 DEF NewCells, AddedInv, WalkInv, FitInv, ListInv, IInv, Counts
<1>3. matches = {}
  BY <1>1, <1>2, EverythingFound DEF AddedInv, HoldOnce
<1>4. Head(todo) \in Seq(Segments) /\ Adds(Expand(call.pattern), Done + 1) = {path}
  BY <1>1, <1>3, WalkedAdds, WantsWhatStands DEF AddedInv, WalkInv
<1>5. path \in GlobPaths
  BY <1>4, AsGivenTyped
<1> HIDE DEF path
<1>6. pathv'[c] = path /\ pathc' = pathc + 1
  BY <1>1, <1>5, AddingKeepsList DEF AddPath, AddedInv, WalkInv, FitInv
<1>7. \A j \in 1..offs + oldpathc : pathv # NULL => pathv'[j] = pathv[j]
  BY <1>1, AddingKeepsCells
<1>8. Cardinality({path}) = pathc' - oldpathc /\ pathc' \in Nat /\ oldpathc <= pathc'
  <2>1. Cardinality({path}) = 1
    BY FS_Singleton
  <2> QED
    BY <1>1, <1>2, <1>6, <2>1
<1>9. offs + oldpathc + 1..offs + pathc' = {c}
  BY <1>1, <1>2, <1>6
<1> HIDE DEF c
<1>10. {path} = {pathv'[j] : j \in offs + oldpathc + 1..offs + pathc'}
  BY <1>6, <1>9
<1>11. InOrder(pathv', offs + oldpathc + 1..offs + pathc')
  <2>1. \A i, j \in {c} : ~(i < j)
    BY <1>2 DEF c
  <2> QED
    BY <1>9, <2>1 DEF InOrder
<1> DEFINE paths == {path}
<1> HIDE DEF paths
<1>12. /\ paths = Adds(Expand(call.pattern), Done + 1) /\ Cardinality(paths) = pathc' - oldpathc
       /\ paths = {pathv'[j] : j \in offs + oldpathc + 1..offs + pathc'}
  BY <1>4, <1>8, <1>10 DEF paths
<1> QED
  BY <1>1, <1>7, <1>8, <1>11, <1>12, BlockAdded

\* Every step keeps what the alternatives behind the walk have added.
LEMMA StepKeepsAdded == ASSUME AddedInv, [Next]_vars PROVE AddedInv'
<1>1. WalkInv' /\ MagcharTells' /\ OutcomeFits'
  BY StepKeepsWalk, StepKeepsMagchar, StepKeepsOutcome DEF AddedInv, WalkInv
<1> SUFFICES BlocksFit'
  BY <1>1 DEF AddedInv
<1>2. CASE Glob
  BY <1>2, GlobBeginsBlocks
<1>3. CASE \/ Glob0 \/ Return \/ NextSegment \/ NoSuchFile \/ OpenDir \/ SkipDir \/ ReadDir \/ CloseDir
           \/ UNCHANGED vars
  <2>1. /\ UNCHANGED <<pathv, pathc, call, offs, before, calls, failed, todo>>
        /\ UNCHANGED skipped \/ skipped' = (skipped \/ visit.path \in DOMAIN Tree)
        /\ \/ UNCHANGED <<pc, oldpathc>>
           \/ pc = "next" /\ pc' = "walk" /\ oldpathc' = pathc
           \/ pc = "next" /\ pc' = "idle"
    BY <1>3 DEF Glob0, Return, NextSegment, NoSuchFile, OpenDir, SkipDir, ReadDir, CloseDir, vars, list,
                history
  <2>2. (IF pc' = "walk" THEN oldpathc' ELSE pathc') = (IF pc = "walk" THEN oldpathc ELSE pathc)
    BY <2>1
  <2>3. skipped => skipped'
    <3>1. CASE UNCHANGED skipped
      BY <3>1
    <3>2. CASE skipped' = (skipped \/ visit.path \in DOMAIN Tree)
      BY <3>2
    <3> QED
      BY <2>1, <3>1, <3>2
  <2>4. \A j \in 1..offs + (IF pc = "walk" THEN oldpathc ELSE pathc) : pathv # NULL => pathv'[j] = pathv[j]
    BY <2>1
  <2> QED
    BY <2>1, <2>2, <2>3, <2>4, WalkingKeepsBlocks
<1>4. CASE FileFound
  <2>1. /\ pc = "walk" /\ AddPath(visit.path)
        /\ UNCHANGED <<call, offs, before, calls, failed, todo, pc, oldpathc, skipped>>
    BY <1>4 DEF FileFound, AtEnd, AddPath, history
  <2>2. \A j \in 1..offs + pathc : pathv # NULL => pathv'[j] = pathv[j]
    BY <2>1, AddingKeepsCells
  <2>3. \A j \in 1..offs + oldpathc : j \in 1..offs + pathc
    BY <2>1 DEF AddedInv, WalkInv, FitInv, ListInv, IInv, Counts
  <2>4. \A j \in 1..offs + (IF pc = "walk" THEN oldpathc ELSE pathc) : pathv # NULL => pathv'[j] = pathv[j]
    BY <2>1, <2>2, <2>3
  <2>5. (IF pc' = "walk" THEN oldpathc' ELSE pathc') = (IF pc = "walk" THEN oldpathc ELSE pathc)
    BY <2>1
  <2> QED
    BY <2>1, <2>4, <2>5, WalkingKeepsBlocks
<1>5. CASE FileNotAdded \/ Abort \/ PatternNotAdded
  <2>1. failed' = TRUE
    BY <1>5 DEF FileNotAdded, Abort, PatternNotAdded, CannotAdd
  <2> QED
    BY <2>1 DEF BlocksFit
<1>6. CASE Matched \/ NoMatch \/ PatternAdded
  <2>1. UNCHANGED <<calls, failed, skipped>>
    BY <1>6 DEF Matched, NoMatch, PatternAdded, AddPath, history
  <2>2. CASE calls > 0 /\ ~failed /\ ~skipped
    BY <1>6, <2>2, MatchedAddsBlock, NoMatchAddsBlock, PatternAddsBlock
  <2>3. CASE ~(calls > 0 /\ ~failed /\ ~skipped)
    BY <2>1, <2>3 DEF BlocksFit
  <2> QED
    BY <2>2, <2>3
<1>7. CASE GlobFree
  <2>1. calls' = 0
    BY <1>7 DEF GlobFree
  <2> QED
    BY <2>1 DEF BlocksFit
<1> QED
  BY <1>2, <1>3, <1>4, <1>5, <1>6, <1>7 DEF Next

LEMMA InitAdded == Init => AddedInv
<1>1. Init => FitInv
  BY InitFit
<1>2. Init => PlacesDiffer /\ FoundOnce /\ MagcharTells /\ OutcomeFits /\ BlocksFit
  BY DEF Init, PlacesDiffer, FoundOnce, MagcharTells, OutcomeFits, BlocksFit
<1> QED
  BY <1>1, <1>2 DEF AddedInv, WalkInv

\* When a call returns, all alternatives are behind the walk.
LEMMA AddedIsAllAdded == AddedInv => AllAdded
<1> SUFFICES ASSUME AddedInv, pc = "idle", ret = "0", calls > 0, ~skipped,
                    HasBrace(call.pattern) => ~failed
             PROVE  LET sets == Promised
                        end == Ends(sets)
                    IN /\ pathc = before + end[Len(sets)]
                       /\ \A k \in DOMAIN sets :
                            LET block == offs + before + end[k - 1] + 1..offs + before + end[k]
                            IN /\ sets[k] = {pathv[j] : j \in block}
                               /\ "NOSORT" \notin call.flags =>
                                    \A i, j \in block : i < j => Before(pathv[i], pathv[j])
  BY DEF AllAdded
<1>1. ~failed /\ todo = <<>>
  BY DEF AddedInv, OutcomeFits
<1>2. Done = Len(Promised)
  <2> DEFINE patterns == Expand(call.pattern)
             empty == <<>>
  <2>1. patterns \in Seq(Seq(Segments)) /\ Len(empty) = 0 /\ todo = empty
    BY <1>1, ExpandTyped DEF AddedInv, WalkInv, FitInv, ListInv, WalkTyped
  <2>2. Len(Promised) = Len(patterns)
    BY PromisedFor DEF AddedInv, WalkInv, FitInv, ListInv, WalkTyped
  <2> HIDE DEF patterns, empty
  <2>3. Len(patterns) - Len(todo) = Len(patterns)
    BY <2>1
  <2> QED
    BY <2>2, <2>3 DEF Done, patterns
<1>3. DOMAIN Promised = 1..Len(Promised)
  <2>1. DOMAIN Promised = DOMAIN Expand(call.pattern) /\ Expand(call.pattern) \in Seq(Seq(Segments))
    BY ExpandTyped DEF Promised, AddedInv, WalkInv, FitInv, ListInv, WalkTyped
  <2>2. Len(Promised) = Len(Expand(call.pattern))
    BY PromisedFor DEF AddedInv, WalkInv, FitInv, ListInv, WalkTyped
  <2> QED
    BY <2>1, <2>2
<1>4. /\ pathc = before + EndAt(Len(Promised))
      /\ \A k \in 1..Len(Promised) : BlockFits(k)
  BY <1>1, <1>2 DEF AddedInv, BlocksFit
<1> QED
  BY <1>3, <1>4 DEF BlockFits, Block, EndAt, InOrder

-----------------------------------------------------------------------------
(* What is proved                                                          *)

\* The array never has fewer cells than are written and read, whatever was
\* allocated, failed or appended before.
THEOREM GlobArrayHasRoom == Spec => []ArrayHasRoom
<1>1. IInv => ArrayHasRoom
  BY DEF IInv
<1> QED
  BY <1>1, InitIInv, StepKeepsIInv, PTL DEF Spec

\* What earlier calls have added stays, however the list grows, is sorted or fails
\* to grow.
THEOREM GlobKeepsOldEntries == Spec => OldEntriesStay
<1>1. IInv /\ [Next]_vars => [OldEntriesKept]_vars
  BY StepKeepsIInv
<1> QED
  BY <1>1, InitIInv, StepKeepsIInv, PTL DEF Spec, OldEntriesStay, OldEntriesKept

\* At every time the list is an array of gl_offs NULLs, a cell that was never
\* written for each path that a failed reallocation threw away, the paths added
\* since, and a NULL; and qsort gets only paths.
THEOREM GlobListInvariant == Spec => []ListInvariant
<1>1. ASSUME ListInv PROVE ListInvariant
  <2>1. offs \in Nat /\ pathc \in Nat /\ lost \in Nat
    BY <1>1 DEF ListInv, IInv, Counts, ArrayTyped
  <2>2. ASSUME calls > 0, pathv # NULL
        PROVE  /\ Len(pathv) >= offs + pathc + 1 /\ lost <= pathc
               /\ \A j \in 1..offs + pathc + 1 :
                    /\ pathv[j] = Garbage <=> j \in offs + 1..offs + lost
                    /\ pathv[j] = NULL <=> j \notin offs + 1..offs + pathc
    <3>1. /\ lost <= pathc
          /\ \A j \in 1..offs : pathv[j] = NULL
          /\ \A j \in offs + 1..offs + lost : pathv[j] = Garbage
          /\ \A j \in offs + lost + 1..offs + pathc : pathv[j] \in GlobPaths
          /\ pathv[offs + pathc + 1] = NULL
      BY <1>1, <2>2 DEF ListInv, ListWhole
    <3>2. Len(pathv) >= offs + pathc + 1
      <4>1. PICK k \in Nat : k >= offs + pathc + 1 /\ DOMAIN pathv = 1..k
        BY <1>1, <2>2 DEF ListInv, IInv, ArrayHasRoom
      <4>2. pathv \in Seq(Cells)
        BY <1>1, <2>2 DEF ListInv, ArrayTyped
      <4>3. k \in 1..Len(pathv) /\ Len(pathv) \in Nat
        BY <2>1, <4>1, <4>2
      <4> QED
        BY <2>1, <4>1, <4>3
    <3>3. ASSUME NEW j \in 1..offs + pathc + 1
          PROVE  /\ pathv[j] = Garbage <=> j \in offs + 1..offs + lost
                 /\ pathv[j] = NULL <=> j \notin offs + 1..offs + pathc
      <4>1. CASE j \in offs + 1..offs + lost
        <5>1. pathv[j] = Garbage /\ j \in offs + 1..offs + pathc
          BY <2>1, <3>1, <4>1
        <5> QED
          BY <4>1, <5>1, GlobAssumption
      <4>2. CASE j \in offs + lost + 1..offs + pathc
        <5>1. pathv[j] \in GlobPaths /\ j \notin offs + 1..offs + lost /\ j \in offs + 1..offs + pathc
          BY <2>1, <3>1, <4>2
        <5> QED
          BY <5>1, GlobAssumption
      <4>3. CASE j \notin offs + 1..offs + pathc
        <5>1. (j \in 1..offs \/ j = offs + pathc + 1) /\ j \notin offs + 1..offs + lost
          BY <2>1, <3>1, <4>3
        <5> QED
          BY <3>1, <4>3, <5>1, GlobAssumption
      <4> QED
        BY <2>1, <4>1, <4>2, <4>3
    <3> QED
      BY <3>1, <3>2, <3>3
  <2>3. calls > 0 => (pathv = NULL => pathc = lost) /\ (pc = "walk" => lost <= oldpathc)
    BY <1>1 DEF ListInv, ListWhole
  <2> QED
    BY <2>2, <2>3 DEF ListInvariant
<1>2. ListInv /\ [Next]_vars => ListInv'
  BY StepKeepsList
<1>3. Init => ListInv
  BY InitListInv
<1>4. ListInv => ListInvariant
  BY <1>1
<1> QED
  BY <1>2, <1>3, <1>4, PTL DEF Spec

\* Whatever fails, the entries of a call are paths that an alternative of its
\* pattern stands for, or alternatives that have no match and stand for themselves.
THEOREM GlobNothingElse == Spec => []NothingElse
<1>1. FitInv /\ [Next]_vars => FitInv'
  BY StepKeepsFit
<1> QED
  BY <1>1, InitFit, FitIsNothingElse, PTL DEF Spec

\* A call that returns 0 and has passed over nothing has added, for each of its
\* alternatives in their order, all the paths it stands for, none twice, and sorted
\* if it is asked for.
THEOREM GlobAllAdded == Spec => []AllAdded
<1>1. AddedInv /\ [Next]_vars => AddedInv'
  BY StepKeepsAdded
<1> QED
  BY <1>1, InitAdded, AddedIsAllAdded, PTL DEF Spec

=============================================================================
