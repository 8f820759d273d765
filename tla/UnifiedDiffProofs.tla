--------------------------- MODULE UnifiedDiffProofs ---------------------------
(* UnifiedDiff: what apply_unified_diff makes of a file, for edit scripts and  *)
(* files of any length, and any number of context lines.                       *)
EXTENDS UnifiedDiff, FiniteSetTheorems, SequenceTheorems, WellFoundedInduction, TLAPS

-----------------------------------------------------------------------------
(* Numbers.                                                                 *)

\* A set of naturals that is not empty has a least element.
LEMMA Least ==
    ASSUME NEW T, T \subseteq Nat, T # {}
    PROVE  \E x \in T : \A y \in T : x <= y
<1> DEFINE R == OpToRel(<, Nat)
<1>1. IsWellFoundedOn(R, Nat)
  BY NatLessThanWellFounded
<1>2. R = {ss \in Nat \X Nat : ss[1] < ss[2]}
  BY DEF OpToRel
<1>3. \A x, y \in Nat : y < x => <<y, x>> \in R
  BY <1>2
<1> HIDE DEF R
<1>4. PICK x \in T : \A y \in T : ~ (<<y, x>> \in R)
  BY <1>1, WFMin
<1>5. \A y \in T : x <= y
  <2> TAKE y \in T
  <2>1. x \in Nat /\ y \in Nat
    BY <1>4
  <2>2. ~ (y < x)
    BY <1>3, <1>4, <2>1
  <2> QED BY <2>1, <2>2
<1> QED BY <1>4, <1>5

\* What holds of 0 and of every number after one that it holds of, up to n, holds of n.
\* The property is given as the set of the numbers that have it.
LEMMA Counting ==
    ASSUME NEW P, NEW n \in Nat, 0 \in P, \A k \in 0..(n - 1) : k \in P => k + 1 \in P
    PROVE  \A k \in 0..n : k \in P
<1> DEFINE T == {k \in 0..n : k \notin P}
<1>1. SUFFICES ASSUME T # {} PROVE FALSE
  OBVIOUS
<1>2. T \subseteq Nat
  OBVIOUS
<1> HIDE DEF T
<1>3. PICK k \in T : \A j \in T : k <= j
  BY <1>1, <1>2, Least
<1> USE DEF T
<1>4. k # 0 /\ k - 1 \in 0..(n - 1) /\ k = (k - 1) + 1
  BY <1>3
<1>5. k - 1 \in P
  BY <1>3, <1>4
<1> QED BY <1>3, <1>4, <1>5

\* The last of the first k positions.
LEMMA MaxOfFirst ==
    ASSUME NEW k \in Nat, k > 0
    PROVE  Max(1..k) = k /\ (1..k) \ {k} = 1..(k - 1)
<1>1. \A x \in 1..k : (\A y \in 1..k : x >= y) => x = k
  OBVIOUS
<1>2. k \in 1..k /\ \A y \in 1..k : k >= y
  OBVIOUS
<1> QED BY <1>1, <1>2 DEF Max

\* Max of a set of positions in a sequence is its greatest element.
LEMMA MaxIsGreatest ==
    ASSUME NEW n \in Nat, NEW T, T \subseteq 1..n, T # {}
    PROVE  Max(T) \in T /\ \A y \in T : Max(T) >= y
<1> DEFINE Bounds == {k \in Nat : \A y \in T : y <= k}
<1>1. Bounds \subseteq Nat /\ n \in Bounds
  OBVIOUS
<1>2. PICK m \in Bounds : \A k \in Bounds : m <= k
  BY <1>1, Least
<1>3. m \in T
  <2>1. SUFFICES ASSUME m \notin T PROVE FALSE
    OBVIOUS
  <2>2. \A y \in T : y <= m - 1 /\ y >= 1
    BY <1>2, <2>1
  <2>3. m \in Nat /\ m - 1 \in Nat
    <3>1. PICK y \in T : TRUE
      OBVIOUS
    <3> QED BY <1>2, <2>2, <3>1
  <2>4. m - 1 \in Bounds
    BY <2>2, <2>3
  <2> QED BY <1>2, <2>3, <2>4
<1>4. \E x \in T : \A y \in T : x >= y
  BY <1>2, <1>3
<1> QED BY <1>4 DEF Max

-----------------------------------------------------------------------------
(* Folds.  A step of a fold is given as a function: step[i] maps what the   *)
(* fold has made of the elements before i to what it has made of i, too.    *)

\* The function of the library's MapThenFoldSet, which FoldLeft is made of.
Folding(iter, n, base, step) ==
    iter = [s \in SUBSET (1..n) |->
              IF s = {} THEN base ELSE step[Max(s)][iter[s \ {Max(s)}]]]

\* There is a function as the library's MapThenFoldSet defines it.
LEMMA FoldingExists ==
    ASSUME NEW n \in Nat, NEW S, NEW base \in S, NEW step \in [1..n -> [S -> S]]
    PROVE  \E iter \in [SUBSET (1..n) -> S] : Folding(iter, n, base, step)
<1> DEFINE P == {m \in 0..n : \E iter \in [SUBSET (1..m) -> S] : Folding(iter, m, base, step)}
<1>1. 0 \in P
  <2> DEFINE iter == [s \in SUBSET (1..0) |-> base]
  <2>1. \A s \in SUBSET (1..0) : s = {}
    OBVIOUS
  <2>2. iter \in [SUBSET (1..0) -> S] /\ Folding(iter, 0, base, step)
    BY <2>1 DEF Folding
  <2> QED BY <2>2
<1>2. ASSUME NEW m \in 0..(n - 1), m \in P PROVE m + 1 \in P
  <2>1. PICK f \in [SUBSET (1..m) -> S] : Folding(f, m, base, step)
    BY <1>2
  <2> DEFINE g == [s \in SUBSET (1..(m + 1)) |->
                     IF m + 1 \in s THEN step[m + 1][f[s \ {m + 1}]] ELSE f[s]]
  <2>2. \A s \in SUBSET (1..(m + 1)) :
           /\ s \ {m + 1} \in SUBSET (1..m)
           /\ m + 1 \notin s => s \in SUBSET (1..m)
    BY <1>2
  <2>3. g \in [SUBSET (1..(m + 1)) -> S]
    <3>1. step[m + 1] \in [S -> S]
      BY <1>2
    <3> QED BY <2>1, <2>2, <3>1
  <2>4. \A s \in SUBSET (1..(m + 1)) :
           g[s] = IF s = {} THEN base ELSE step[Max(s)][g[s \ {Max(s)}]]
    <3> TAKE s \in SUBSET (1..(m + 1))
    <3>1. CASE m + 1 \in s
      <4>1. Max(s) = m + 1
        <5>1. m + 1 \in Nat /\ s # {}
          BY <1>2, <3>1
        <5>2. Max(s) \in s /\ Max(s) >= m + 1
          BY <3>1, <5>1, MaxIsGreatest
        <5>3. Max(s) \in 1..(m + 1)
          BY <5>2
        <5> QED BY <5>1, <5>2, <5>3
      <4>2. s \ {m + 1} \in SUBSET (1..(m + 1)) /\ m + 1 \notin s \ {m + 1}
        BY <2>2
      <4>3. g[s \ {m + 1}] = f[s \ {m + 1}]
        BY <4>2
      <4> QED BY <3>1, <4>1, <4>3
    <3>2. CASE m + 1 \notin s
      <4>1. s \in SUBSET (1..m) /\ g[s] = f[s]
        BY <2>2, <3>2
      <4>2. f[s] = IF s = {} THEN base ELSE step[Max(s)][f[s \ {Max(s)}]]
        BY <2>1, <4>1 DEF Folding
      <4>3. g[s \ {Max(s)}] = f[s \ {Max(s)}]
        BY <3>2, <4>1
      <4> QED BY <4>1, <4>2, <4>3
    <3> QED BY <3>1, <3>2
  <2>5. Folding(g, m + 1, base, step)
    BY <2>4 DEF Folding
  <2> HIDE DEF g
  <2>6. m + 1 \in 0..n
    BY <1>2
  <2> QED BY <2>3, <2>5, <2>6
<1>3. n \in P
  <2> HIDE DEF P
  <2>1. \A k \in 0..n : k \in P
    BY <1>1, <1>2, Counting
  <2> QED BY <2>1
<1> QED BY <1>3

\* On the first positions a function makes these steps.
FoldsOver(iter, n, S, base, step) ==
    /\ n \in Nat /\ base \in S /\ step \in [1..n -> [S -> S]]
    /\ iter[{}] = base
    /\ \A k \in 1..n : iter[1..(k - 1)] \in S => iter[1..k] = step[k][iter[1..(k - 1)]]

\* States that begin with the base and go on with the steps.
States(n, S, base, step, st) ==
    st \in [0..n -> S] /\ st[0] = base /\ \A k \in 1..n : st[k] = step[k][st[k - 1]]

\* The values of such a function on the first positions are the states of the fold, one
\* for every element.
LEMMA StatesOfFolding ==
    ASSUME NEW n, NEW S, NEW base, NEW step, NEW iter, FoldsOver(iter, n, S, base, step)
    PROVE  \E st : States(n, S, base, step, st) /\ st[n] = iter[1..n]
<1> USE DEF FoldsOver
<1> DEFINE P == {k \in 0..n : iter[1..k] \in S}
<1>1. 0 \in P
  <2>1. 1..0 = {}
    OBVIOUS
  <2> QED BY <2>1
<1>2. ASSUME NEW k \in 0..(n - 1), k \in P PROVE k + 1 \in P
  <2>1. k + 1 \in 1..n /\ (k + 1) - 1 = k
    BY <1>2
  <2>2. iter[1..(k + 1)] = step[k + 1][iter[1..k]]
    BY <1>2, <2>1
  <2>3. step[k + 1] \in [S -> S] /\ iter[1..k] \in S
    BY <1>2, <2>1
  <2> QED BY <2>1, <2>2, <2>3
<1> HIDE DEF P
<1>3. \A k \in 0..n : k \in P
  BY <1>1, <1>2, Counting
<1> USE DEF P
<1> DEFINE st == [k \in 0..n |-> iter[1..k]]
<1>4. st \in [0..n -> S]
  BY <1>3
<1>5. st[0] = base
  <2>1. 1..0 = {}
    OBVIOUS
  <2> QED BY <2>1
<1>6. \A k \in 1..n : st[k] = step[k][st[k - 1]]
  <2> TAKE k \in 1..n
  <2>1. k - 1 \in 0..n /\ k \in 0..n
    OBVIOUS
  <2> QED BY <1>3, <2>1
<1>7. st[n] = iter[1..n]
  OBVIOUS
<1> QED BY <1>4, <1>5, <1>6, <1>7 DEF States

\* They begin alike, and go on alike.
StepsAlike(n, st, tt) ==
    n \in Nat /\ st[0] = tt[0] /\ \A k \in 1..n : st[k - 1] = tt[k - 1] => st[k] = tt[k]

\* The states of a fold are determined by where it begins and its steps.
LEMMA StatesAreSame ==
    ASSUME NEW n, NEW st, NEW tt, StepsAlike(n, st, tt)
    PROVE  \A k \in 0..n : st[k] = tt[k]
<1> USE DEF StepsAlike
<1> DEFINE P == {k \in 0..n : st[k] = tt[k]}
<1>1. 0 \in P
  OBVIOUS
<1>2. ASSUME NEW k \in 0..(n - 1), k \in P PROVE k + 1 \in P
  <2>1. k + 1 \in 1..n /\ (k + 1) - 1 = k /\ k + 1 \in 0..n
    BY <1>2
  <2> QED BY <1>2, <2>1
<1> HIDE DEF P
<1>3. \A k \in 0..n : k \in P
  BY <1>1, <1>2, Counting
<1> QED BY <1>3 DEF P

-----------------------------------------------------------------------------
(* The sides of a script.                                                   *)

\* A line of an edit script.
Edit == [prefix : {" ", "-", "+"}, text : Lines]

\* One more line of the side.
Longer(side, line, prefixes) ==
    IF line.prefix \in prefixes THEN Append(side, line.text) ELSE side

\* The states of the fold that makes a side.
LEMMA SideStates ==
    ASSUME NEW edits \in Seq(Edit), NEW prefixes
    PROVE  \E st \in [0..Len(edits) -> Seq(Lines)] :
              /\ st[0] = << >> /\ st[Len(edits)] = Side(edits, prefixes)
              /\ \A k \in 1..Len(edits) : st[k] = Longer(st[k - 1], edits[k], prefixes)
<1> DEFINE n == Len(edits)
           S == Seq(Lines)
           step == [k \in 1..n |-> [side \in S |-> Longer(side, edits[k], prefixes)]]
           Recursion(iter) ==
             iter = [s \in SUBSET DOMAIN edits |->
                       IF s = {} THEN << >>
                       ELSE Longer(iter[s \ {Max(s)}], edits[Max(s)], prefixes)]
<1>1. n \in Nat /\ DOMAIN edits = 1..n /\ << >> \in S
  OBVIOUS
<1>2. Side(edits, prefixes) = (CHOOSE iter : Recursion(iter))[DOMAIN edits]
  BY Zenon DEF Side, Longer, FoldLeft, MapThenFoldSet
<1>3. step \in [1..n -> [S -> S]]
  <2>1. ASSUME NEW k \in 1..n, NEW side \in S PROVE Longer(side, edits[k], prefixes) \in S
    <3>1. edits[k] \in Edit
      BY <1>1
    <3>2. edits[k].text \in Lines
      BY <3>1 DEF Edit
    <3> QED BY <3>2 DEF Longer
  <2> QED BY <2>1
<1>4. \E iter : Recursion(iter)
  <2>1. PICK iter \in [SUBSET (1..n) -> S] : Folding(iter, n, << >>, step)
    <3> HIDE DEF step, n, S
    <3> QED BY <1>1, <1>3, FoldingExists
  <2>2. ASSUME NEW s \in SUBSET (1..n), s # {}
        PROVE  step[Max(s)][iter[s \ {Max(s)}]]
               = Longer(iter[s \ {Max(s)}], edits[Max(s)], prefixes)
    <3>1. Max(s) \in 1..n
      BY <1>1, <2>2, MaxIsGreatest
    <3>2. iter[s \ {Max(s)}] \in S
      BY <2>1
    <3> QED BY <3>1, <3>2
  <2>3. Recursion(iter)
    BY <1>1, <2>1, <2>2 DEF Folding
  <2> QED BY <2>3
<1>5. PICK iter : Recursion(iter) /\ Side(edits, prefixes) = iter[1..n]
  BY <1>1, <1>2, <1>4
<1>6. iter[{}] = << >>
  BY <1>5
<1>7. ASSUME NEW k \in 1..n, iter[1..(k - 1)] \in S
      PROVE  iter[1..k] = step[k][iter[1..(k - 1)]]
  <2>1. k \in Nat /\ k > 0 /\ 1..k # {} /\ 1..k \in SUBSET DOMAIN edits
    <3>1. k \in Nat /\ k > 0 /\ k <= n
      BY <1>1
    <3>2. k \in 1..k /\ 1..k \subseteq 1..n
      BY <1>1, <3>1
    <3> QED BY <1>1, <3>1, <3>2
  <2>2. Max(1..k) = k /\ (1..k) \ {k} = 1..(k - 1)
    BY <2>1, MaxOfFirst
  <2>3. iter[1..k] = Longer(iter[1..(k - 1)], edits[k], prefixes)
    BY <1>5, <2>1, <2>2
  <2> QED BY <1>7, <2>3
<1>8. PICK st \in [0..n -> S] :
         /\ st[0] = << >> /\ st[n] = iter[1..n]
         /\ \A k \in 1..n : st[k] = step[k][st[k - 1]]
  <2> HIDE DEF step, S, n
  <2>1. FoldsOver(iter, n, S, << >>, step)
    BY <1>1, <1>3, <1>6, <1>7 DEF FoldsOver
  <2>2. PICK st : States(n, S, << >>, step, st) /\ st[n] = iter[1..n]
    BY <2>1, StatesOfFolding
  <2> QED BY <2>2 DEF States
<1>9. \A k \in 1..n : st[k] = Longer(st[k - 1], edits[k], prefixes)
  <2> TAKE k \in 1..n
  <2>1. st[k - 1] \in S
    BY <1>8
  <2> QED BY <1>8, <2>1
<1> QED BY <1>5, <1>8, <1>9

\* A side begins empty, is a sequence of lines, and grows with the lines of the script.
LEMMA SideOfNone ==
    ASSUME NEW prefixes
    PROVE  Side(<< >>, prefixes) = << >>
<1>1. << >> \in Seq(Edit) /\ Len(<< >>) = 0
  OBVIOUS
<1> QED BY <1>1, SideStates

LEMMA SideType ==
    ASSUME NEW edits \in Seq(Edit), NEW prefixes
    PROVE  Side(edits, prefixes) \in Seq(Lines)
<1>1. Len(edits) \in 0..Len(edits)
  OBVIOUS
<1> QED BY <1>1, SideStates

LEMMA SideAppend ==
    ASSUME NEW edits \in Seq(Edit), NEW line \in Edit, NEW prefixes
    PROVE  Side(Append(edits, line), prefixes) = Longer(Side(edits, prefixes), line, prefixes)
<1> DEFINE n == Len(edits)
           more == Append(edits, line)
<1>1. /\ more \in Seq(Edit) /\ Len(more) = n + 1 /\ n \in Nat /\ more[n + 1] = line
      /\ \A k \in 1..n : more[k] = edits[k]
  OBVIOUS
<1>2. PICK st :
         /\ st \in [0..n -> Seq(Lines)] /\ st[0] = << >> /\ st[n] = Side(edits, prefixes)
         /\ \A k \in 1..n : st[k] = Longer(st[k - 1], edits[k], prefixes)
  BY SideStates
<1>3. PICK tt :
         /\ tt \in [0..(n + 1) -> Seq(Lines)] /\ tt[0] = << >> /\ tt[n + 1] = Side(more, prefixes)
         /\ \A k \in 1..(n + 1) : tt[k] = Longer(tt[k - 1], more[k], prefixes)
  <2> HIDE DEF more
  <2>1. \E tt \in [0..Len(more) -> Seq(Lines)] :
           /\ tt[0] = << >> /\ tt[Len(more)] = Side(more, prefixes)
           /\ \A k \in 1..Len(more) : tt[k] = Longer(tt[k - 1], more[k], prefixes)
    BY <1>1, SideStates
  <2> QED BY <1>1, <2>1
<1> HIDE DEF more, n
<1>4. \A k \in 1..n : st[k - 1] = tt[k - 1] => st[k] = tt[k]
  BY <1>1, <1>2, <1>3
<1>5. st[n] = tt[n]
  <2>1. \A k \in 0..n : st[k] = tt[k]
    <3>1. StepsAlike(n, st, tt)
      BY <1>1, <1>2, <1>3, <1>4 DEF StepsAlike
    <3> QED BY <3>1, StatesAreSame
  <2> QED BY <1>1, <2>1
<1>6. tt[n + 1] = Longer(tt[n], line, prefixes)
  <2>1. n + 1 \in 1..(n + 1) /\ (n + 1) - 1 = n
    BY <1>1
  <2> QED BY <1>1, <1>3, <2>1
<1> QED BY <1>2, <1>3, <1>5, <1>6 DEF more

\* The first k lines of a sequence, and the ones before.
LEMMA FirstLines ==
    ASSUME NEW T, NEW s \in Seq(T)
    PROVE  /\ SubSeq(s, 1, 0) = << >> /\ SubSeq(s, 1, Len(s)) = s
           /\ \A k \in 0..Len(s) : SubSeq(s, 1, k) \in Seq(T) /\ Len(SubSeq(s, 1, k)) = k
           /\ \A k \in 1..Len(s) : SubSeq(s, 1, k) = Append(SubSeq(s, 1, k - 1), s[k])
OBVIOUS

\* A line appended to the second of two sequences.
LEMMA ConcatAppend ==
    ASSUME NEW T, NEW s \in Seq(T), NEW t \in Seq(T), NEW x \in T
    PROVE  s \o Append(t, x) = Append(s \o t, x)
<1>1. <<x>> \in Seq(T) /\ s \o t \in Seq(T)
  OBVIOUS
<1>2. Append(t, x) = t \o <<x>> /\ Append(s \o t, x) = (s \o t) \o <<x>>
  BY <1>1, AppendIsConcat
<1> QED BY <1>1, <1>2, ConcatAssociative

\* The side of two scripts, one after the other.
LEMMA SideConcat ==
    ASSUME NEW s, NEW t, s \in Seq(Edit), t \in Seq(Edit), NEW prefixes
    PROVE  Side(s \o t, prefixes) = Side(s, prefixes) \o Side(t, prefixes)
<1> DEFINE P == {k \in 0..Len(t) :
                   Side(s \o SubSeq(t, 1, k), prefixes)
                   = Side(s, prefixes) \o Side(SubSeq(t, 1, k), prefixes)}
<1>1. 0 \in P
  <2>1. SubSeq(t, 1, 0) = << >> /\ s \o << >> = s
    OBVIOUS
  <2>2. Side(s, prefixes) \o << >> = Side(s, prefixes)
    BY SideType
  <2>3. 0 \in 0..Len(t)
    OBVIOUS
  <2> QED BY <2>1, <2>2, <2>3, SideOfNone
<1>2. ASSUME NEW k, k \in 0..(Len(t) - 1), k \in P PROVE k + 1 \in P
  <2>1. /\ k + 1 \in 1..Len(t) /\ k + 1 \in 0..Len(t) /\ (k + 1) - 1 = k
        /\ t[k + 1] \in Edit /\ k \in 0..Len(t)
    BY <1>2
  <2>2. PICK f, g, x : f = SubSeq(t, 1, k) /\ g = SubSeq(t, 1, k + 1) /\ x = t[k + 1]
    OBVIOUS
  <2>3. g = Append(f, x) /\ f \in Seq(Edit) /\ x \in Edit
    BY <2>1, <2>2, FirstLines
  <2>4. s \o g = Append(s \o f, x) /\ s \o f \in Seq(Edit)
    <3>1. s \o Append(f, x) = Append(s \o f, x)
      BY <2>3, ConcatAppend
    <3>2. s \o f \in Seq(Edit)
      BY <2>3, ConcatProperties
    <3> QED BY <2>3, <3>1, <3>2
  <2>5. Side(s \o g, prefixes) = Longer(Side(s \o f, prefixes), x, prefixes)
    <3>1. PICK u : u = s \o f
      OBVIOUS
    <3>2. Side(Append(u, x), prefixes) = Longer(Side(u, prefixes), x, prefixes)
      BY <2>3, <2>4, <3>1, SideAppend
    <3> QED BY <2>4, <3>1, <3>2
  <2>6. Side(g, prefixes) = Longer(Side(f, prefixes), x, prefixes)
    BY <2>3, SideAppend
  <2>7. PICK a, b : a = Side(s, prefixes) /\ b = Side(f, prefixes)
    OBVIOUS
  <2>8. a \in Seq(Lines) /\ b \in Seq(Lines) /\ x.text \in Lines
    BY <2>3, <2>7, SideType DEF Edit
  <2>9. Longer(a \o b, x, prefixes) = a \o Longer(b, x, prefixes)
    <3>1. PICK y : y = x.text /\ y \in Lines
      BY <2>8
    <3>2. a \o Append(b, y) = Append(a \o b, y)
      BY <2>8, <3>1
    <3>3. a \o Append(b, x.text) = Append(a \o b, x.text)
      BY <3>1, <3>2
    <3> QED BY <3>3 DEF Longer
  <2>10. Side(s \o f, prefixes) = a \o b
    BY <1>2, <2>2, <2>7
  <2> QED BY <2>1, <2>2, <2>5, <2>6, <2>7, <2>9, <2>10
<1> HIDE DEF P
<1>3. \A k \in 0..Len(t) : k \in P
  <2>1. Len(t) \in Nat
    OBVIOUS
  <2> QED BY <1>1, <1>2, <2>1, Counting
<1>4. Len(t) \in P
  <2>1. Len(t) \in 0..Len(t)
    OBVIOUS
  <2> QED BY <1>3, <2>1
<1> QED BY <1>4, FirstLines DEF P

-----------------------------------------------------------------------------
(* The lines of a hunk.                                                     *)

\* What _apply_hunks refuses a diff for, and how far it has got.
Cause == {"none", "mismatch", "overlapping hunks", "unknown hunk line prefix"}
Progress == [at : Nat, out : Seq(Lines), error : Cause]

\* What the lines of a hunk make of a state.
ApplyLines(file, done, body) ==
    FoldLeft(LAMBDA d, line : ApplyLine(file, d, line), done, body)

\* A line of a hunk keeps the type of what is done.
LEMMA LineType ==
    ASSUME NEW file, NEW done, NEW line, done \in Progress, line \in Edit
    PROVE  ApplyLine(file, done, line) \in Progress
<1>1. line.text \in Lines
  BY DEF Edit
<1>2. done.at \in Nat /\ done.out \in Seq(Lines)
  BY DEF Progress
<1>3. done.at + 1 \in Nat /\ Append(done.out, line.text) \in Seq(Lines)
  BY <1>1, <1>2
<1>4. /\ [done EXCEPT !.out = Append(@, line.text)] \in Progress
      /\ [done EXCEPT !.at = @ + 1] \in Progress
      /\ [done EXCEPT !.at = @ + 1, !.out = Append(@, line.text)] \in Progress
      /\ \A cause \in Cause : [done EXCEPT !.error = cause] \in Progress
  BY <1>3 DEF Progress
<1>5. "mismatch" \in Cause /\ "unknown hunk line prefix" \in Cause
  BY DEF Cause
<1> QED BY <1>4, <1>5 DEF ApplyLine, Error

\* The states that the lines of a hunk lead through.
LineFold(file, done, body, st) ==
    /\ st \in [0..Len(body) -> Progress]
    /\ st[0] = done /\ st[Len(body)] = ApplyLines(file, done, body)
    /\ \A k \in 1..Len(body) : st[k] = ApplyLine(file, st[k - 1], body[k])

\* The states of the lines of a hunk, and their last.
LEMMA LineStates ==
    ASSUME NEW file, NEW done, NEW body, done \in Progress, body \in Seq(Edit)
    PROVE  \E st : LineFold(file, done, body, st)
<1> DEFINE n == Len(body)
           S == Progress
           step == [k \in 1..n |-> [d \in S |-> ApplyLine(file, d, body[k])]]
           Recursion(iter) ==
             iter = [s \in SUBSET DOMAIN body |->
                       IF s = {} THEN done
                       ELSE ApplyLine(file, iter[s \ {Max(s)}], body[Max(s)])]
<1>1. n \in Nat /\ DOMAIN body = 1..n /\ done \in S
  OBVIOUS
<1>2. ApplyLines(file, done, body) = (CHOOSE iter : Recursion(iter))[DOMAIN body]
  BY Zenon DEF ApplyLines, FoldLeft, MapThenFoldSet
<1>3. step \in [1..n -> [S -> S]]
  <2>1. ASSUME NEW k \in 1..n, NEW d \in S PROVE ApplyLine(file, d, body[k]) \in S
    <3>1. body[k] \in Edit
      BY <1>1
    <3> QED BY <3>1, LineType
  <2> QED BY <2>1
<1>4. \E iter : Recursion(iter)
  <2>1. PICK iter \in [SUBSET (1..n) -> S] : Folding(iter, n, done, step)
    <3> HIDE DEF step, n, S
    <3> QED BY <1>1, <1>3, FoldingExists
  <2>2. ASSUME NEW s \in SUBSET (1..n), s # {}
        PROVE  step[Max(s)][iter[s \ {Max(s)}]]
               = ApplyLine(file, iter[s \ {Max(s)}], body[Max(s)])
    <3>1. Max(s) \in 1..n
      BY <1>1, <2>2, MaxIsGreatest
    <3>2. iter[s \ {Max(s)}] \in S
      BY <2>1
    <3> QED BY <3>1, <3>2
  <2>3. Recursion(iter)
    BY <1>1, <2>1, <2>2 DEF Folding
  <2> QED BY <2>3
<1>5. PICK iter : Recursion(iter) /\ ApplyLines(file, done, body) = iter[1..n]
  BY <1>1, <1>2, <1>4
<1>6. iter[{}] = done
  BY <1>5
<1>7. ASSUME NEW k \in 1..n, iter[1..(k - 1)] \in S
      PROVE  iter[1..k] = step[k][iter[1..(k - 1)]]
  <2>1. k \in Nat /\ k > 0 /\ 1..k # {} /\ 1..k \in SUBSET DOMAIN body
    <3>1. k \in Nat /\ k > 0 /\ k <= n
      BY <1>1
    <3>2. k \in 1..k /\ 1..k \subseteq 1..n
      BY <1>1, <3>1
    <3> QED BY <1>1, <3>1, <3>2
  <2>2. Max(1..k) = k /\ (1..k) \ {k} = 1..(k - 1)
    BY <2>1, MaxOfFirst
  <2>3. iter[1..k] = ApplyLine(file, iter[1..(k - 1)], body[k])
    BY <1>5, <2>1, <2>2
  <2> QED BY <1>7, <2>3
<1>8. PICK st \in [0..n -> S] :
         /\ st[0] = done /\ st[n] = iter[1..n]
         /\ \A k \in 1..n : st[k] = step[k][st[k - 1]]
  <2> HIDE DEF step, S, n
  <2>1. FoldsOver(iter, n, S, done, step)
    BY <1>1, <1>3, <1>6, <1>7 DEF FoldsOver
  <2>2. PICK st : States(n, S, done, step, st) /\ st[n] = iter[1..n]
    BY <2>1, StatesOfFolding
  <2> QED BY <2>2 DEF States
<1>9. \A k \in 1..n : st[k] = ApplyLine(file, st[k - 1], body[k])
  <2> TAKE k \in 1..n
  <2>1. st[k - 1] \in S
    BY <1>8
  <2>2. st[k] = step[k][st[k - 1]]
    BY <1>8
  <2> QED BY <2>1, <2>2
<1> QED BY <1>5, <1>8, <1>9 DEF LineFold

\* A hunk is applied by its lines.
LEMMA HunkIsLines ==
    ASSUME NEW file, NEW done, NEW hunk
    PROVE  ApplyHunk(file, done, hunk) =
             IF done.error # "none" THEN done
             ELSE IF OldStart(hunk) < done.at THEN Error(done, "overlapping hunks")
             ELSE ApplyLines(file, [done EXCEPT !.at = OldStart(hunk),
                                       !.out = @ \o Gap(file, done.at, OldStart(hunk))], hunk.body)
BY Zenon DEF ApplyHunk, ApplyLines, FoldLeft, MapThenFoldSet

\* The lines of the file after the first at are these.
Matches(file, at, old) ==
    \A j \in 1..Len(old) : at + j <= Len(file) /\ file[at + j] = old[j]

\* A hunk begun at this line, with this output, is at d after lines with these sides.
Reached(file, at, out, d, old, new) ==
    IF Matches(file, at, old)
    THEN d = [at |-> at + Len(old), out |-> out \o new, error |-> "none"]
    ELSE d.error = "mismatch"

\* What the lines before the k-th have made of the file, and the k-th makes of it.
LEMMA LinePasses ==
    ASSUME NEW file, file \in Seq(Lines), NEW at, at \in Nat, NEW out, out \in Seq(Lines),
           NEW old, old \in Seq(Lines), NEW new, new \in Seq(Lines),
           NEW line, line \in Edit, NEW done,
           done = [at |-> at + Len(old), out |-> out \o new, error |-> "none"],
           Matches(file, at, old)
    PROVE  Reached(file, at, out, ApplyLine(file, done, line),
                   Longer(old, line, {" ", "-"}), Longer(new, line, {" ", "+"}))
<1> USE DEF Reached
<1>1. line.prefix \in {" ", "-", "+"} /\ line.text \in Lines
  BY DEF Edit
<1>2. PICK x : x = line.text
  OBVIOUS
<1>3. PICK o : o = Append(old, x)
  OBVIOUS
<1>4. PICK w : w = Append(new, x)
  OBVIOUS
<1>5. out \o w = Append(out \o new, x)
  <2>1. x \in Lines
    BY <1>1, <1>2
  <2>2. out \o Append(new, x) = Append(out \o new, x)
    BY <2>1
  <2> QED BY <1>4, <2>2
<1>6. PICK m : m = Len(old) /\ m \in Nat
  <2>1. Len(old) \in Nat
    BY LenProperties
  <2> QED BY <2>1
<1>7. /\ Len(o) = m + 1 /\ o[m + 1] = x /\ \A j \in 1..m : o[j] = old[j]
  <2>1. x \in Lines
    BY <1>1, <1>2
  <2>2. \A j \in 1..Len(old) : Append(old, x)[j] = old[j]
    BY <2>1
  <2>3. Len(Append(old, x)) = Len(old) + 1 /\ Append(old, x)[Len(old) + 1] = x
    BY <2>1
  <2> QED BY <1>3, <1>6, <2>2, <2>3
<1>8. PICK n : n = Len(file) /\ n \in Nat
  <2>1. Len(file) \in Nat
    OBVIOUS
  <2> QED BY <2>1
<1>9. Matches(file, at, o) <=> at + m < n /\ file[at + m + 1] = x
  <2>1. 1..(m + 1) = (1..m) \cup {m + 1}
    BY <1>6
  <2>2. \A j \in 1..m : at + j <= n /\ file[at + j] = o[j]
    BY <1>6, <1>7, <1>8 DEF Matches
  <2>3. Matches(file, at, o) <=> at + (m + 1) <= n /\ file[at + (m + 1)] = x
    BY <1>6, <1>7, <1>8, <2>1, <2>2 DEF Matches
  <2>4. (at + (m + 1) <= n <=> at + m < n) /\ at + (m + 1) = at + m + 1
    BY <1>6, <1>8
  <2> QED BY <2>3, <2>4
<1>10. done.at = at + m /\ done.out = out \o new /\ done.error = "none"
  BY <1>6
<1>11. PICK c : c = out \o new
  OBVIOUS
<1>12. Expected(file, done, line) <=> at + m < n /\ file[at + m + 1] = x
  BY <1>2, <1>8, <1>10 DEF Expected
<1>13. CASE line.prefix = "+"
  <2>1. ApplyLine(file, done, line) = [done EXCEPT !.out = Append(@, line.text)]
    BY <1>10, <1>13 DEF ApplyLine
  <2>2. Longer(old, line, {" ", "-"}) = old /\ Longer(new, line, {" ", "+"}) = w
    BY <1>2, <1>4, <1>13 DEF Longer
  <2>3. ApplyLine(file, done, line) = [at |-> at + m, out |-> Append(c, x), error |-> "none"]
    BY <1>2, <1>6, <1>11, <2>1
  <2> QED BY <1>5, <1>6, <1>11, <2>2, <2>3
<1>14. CASE line.prefix \in {" ", "-"}
  <2>1. Longer(old, line, {" ", "-"}) = o
    BY <1>2, <1>3, <1>14 DEF Longer
  <2>2. CASE ~ Matches(file, at, o)
    <3>1. ApplyLine(file, done, line) = [done EXCEPT !.error = "mismatch"]
      BY <1>9, <1>10, <1>12, <1>14, <2>2 DEF ApplyLine, Error
    <3> QED BY <2>1, <2>2, <3>1
  <2>3. CASE Matches(file, at, o) /\ line.prefix = "-"
    <3>1. ApplyLine(file, done, line) = [done EXCEPT !.at = @ + 1]
      BY <1>9, <1>10, <1>12, <2>3 DEF ApplyLine
    <3>2. ApplyLine(file, done, line) = [at |-> at + m + 1, out |-> c, error |-> "none"]
      BY <1>6, <1>11, <3>1
    <3>3. Longer(new, line, {" ", "+"}) = new
      BY <2>3 DEF Longer
    <3>4. at + m + 1 = at + Len(o)
      BY <1>6, <1>7
    <3> QED BY <1>11, <2>1, <2>3, <3>2, <3>3, <3>4
  <2>4. CASE Matches(file, at, o) /\ line.prefix = " "
    <3>1. ApplyLine(file, done, line) = [done EXCEPT !.at = @ + 1, !.out = Append(@, line.text)]
      BY <1>9, <1>10, <1>12, <2>4 DEF ApplyLine
    <3>2. ApplyLine(file, done, line) = [at |-> at + m + 1, out |-> Append(c, x), error |-> "none"]
      BY <1>2, <1>6, <1>11, <3>1
    <3>3. Longer(new, line, {" ", "+"}) = w
      BY <1>2, <1>4, <2>4 DEF Longer
    <3>4. at + m + 1 = at + Len(o)
      BY <1>6, <1>7
    <3> QED BY <1>5, <1>11, <2>1, <2>4, <3>2, <3>3, <3>4
  <2> QED BY <1>14, <2>2, <2>3, <2>4
<1> QED BY <1>1, <1>13, <1>14

\* A line after lines that are not in the file does not make them be.
LEMMA StaysUnmatched ==
    ASSUME NEW file, file \in Seq(Lines), NEW at, at \in Nat,
           NEW old, old \in Seq(Lines), NEW line, line \in Edit, NEW prefixes,
           ~ Matches(file, at, old)
    PROVE  ~ Matches(file, at, Longer(old, line, prefixes))
<1>1. line.text \in Lines
  BY DEF Edit
<1>2. PICK o : o = Append(old, line.text)
  OBVIOUS
<1>3. Len(o) = Len(old) + 1 /\ \A j \in 1..Len(old) : o[j] = old[j]
  BY <1>1, <1>2
<1>4. Len(old) \in Nat
  OBVIOUS
<1>5. Len(file) \in Nat
  OBVIOUS
<1>6. ~ Matches(file, at, o)
  BY <1>3, <1>4, <1>5 DEF Matches
<1> QED BY <1>2, <1>6 DEF Longer

\* Started where the file has the old side of a hunk, its lines turn it into the new
\* side; anywhere else they are refused.
LEMMA LinesApply ==
    ASSUME NEW file, file \in Seq(Lines), NEW body, body \in Seq(Edit),
           NEW done, done \in Progress, NEW at, NEW out,
           done.at = at, done.out = out, done.error = "none"
    PROVE  Reached(file, at, out, ApplyLines(file, done, body), OldSide(body), NewSide(body))
<1>1. at \in Nat /\ out \in Seq(Lines) /\ done = [at |-> at, out |-> out, error |-> "none"]
  BY DEF Progress
<1>2. PICK st :
         /\ st \in [0..Len(body) -> Progress]
         /\ st[0] = done /\ st[Len(body)] = ApplyLines(file, done, body)
         /\ \A k \in 1..Len(body) : st[k] = ApplyLine(file, st[k - 1], body[k])
  <2>1. PICK st : LineFold(file, done, body, st)
    BY LineStates
  <2> QED BY <2>1 DEF LineFold
<1> DEFINE P == {k \in 0..Len(body) :
                   Reached(file, at, out, st[k], OldSide(SubSeq(body, 1, k)), NewSide(SubSeq(body, 1, k)))}
<1>3. 0 \in P
  <2>1. SubSeq(body, 1, 0) = << >>
    BY FirstLines
  <2>2. OldSide(<< >>) = << >> /\ NewSide(<< >>) = << >>
    BY SideOfNone DEF OldSide, NewSide
  <2>3. Len(file) \in Nat
    OBVIOUS
  <2>4. Matches(file, at, << >>)
    <3>1. Len(<< >>) = 0 /\ 1..0 = {}
      OBVIOUS
    <3> QED BY <2>3, <3>1 DEF Matches
  <2>5. out \o << >> = out
    BY <1>1
  <2>6. at + Len(<< >>) = at
    BY <1>1
  <2>7. 0 \in 0..Len(body)
    OBVIOUS
  <2> QED BY <1>1, <1>2, <2>1, <2>2, <2>4, <2>5, <2>6, <2>7 DEF Reached
<1>4. ASSUME NEW k, k \in 0..(Len(body) - 1), k \in P PROVE k + 1 \in P
  <2>1. /\ k + 1 \in 1..Len(body) /\ k + 1 \in 0..Len(body) /\ (k + 1) - 1 = k
        /\ body[k + 1] \in Edit /\ k \in 0..Len(body)
    BY <1>4
  <2>2. PICK f, g, line : f = SubSeq(body, 1, k) /\ g = SubSeq(body, 1, k + 1) /\ line = body[k + 1]
    OBVIOUS
  <2>3. g = Append(f, line) /\ f \in Seq(Edit) /\ line \in Edit
    BY <2>1, <2>2, FirstLines
  <2>4. PICK old, new : old = OldSide(f) /\ new = NewSide(f)
    OBVIOUS
  <2>5. old \in Seq(Lines) /\ new \in Seq(Lines)
    BY <2>3, <2>4, SideType DEF OldSide, NewSide
  <2>6. OldSide(g) = Longer(old, line, {" ", "-"}) /\ NewSide(g) = Longer(new, line, {" ", "+"})
    BY <2>3, <2>4, SideAppend DEF OldSide, NewSide
  <2>7. PICK d : d = st[k]
    OBVIOUS
  <2>8. Reached(file, at, out, d, old, new) /\ st[k + 1] = ApplyLine(file, d, line)
    BY <1>2, <1>4, <2>1, <2>2, <2>4, <2>7
  <2>9. CASE Matches(file, at, old)
    <3>1. d = [at |-> at + Len(old), out |-> out \o new, error |-> "none"]
      BY <2>8, <2>9 DEF Reached
    <3>2. Reached(file, at, out, ApplyLine(file, d, line), Longer(old, line, {" ", "-"}),
                  Longer(new, line, {" ", "+"}))
      <4>1. at \in Nat /\ out \in Seq(Lines)
        BY <1>1
      <4> HIDE <1>1
      <4> QED BY <2>3, <2>5, <2>9, <3>1, <4>1, LinePasses
    <3> QED BY <2>1, <2>2, <2>6, <2>8, <3>2
  <2>10. CASE ~ Matches(file, at, old)
    <3>1. d.error = "mismatch" /\ ApplyLine(file, d, line) = d
      BY <2>8, <2>10 DEF Reached, ApplyLine
    <3>2. ~ Matches(file, at, Longer(old, line, {" ", "-"}))
      BY <1>1, <2>3, <2>5, <2>10, StaysUnmatched
    <3>3. ~ Matches(file, at, OldSide(g))
      BY <2>6, <3>2
    <3> QED BY <2>1, <2>2, <2>8, <3>1, <3>3 DEF Reached
  <2> QED BY <2>9, <2>10
<1> HIDE DEF P
<1>5. \A k \in 0..Len(body) : k \in P
  <2>1. Len(body) \in Nat
    OBVIOUS
  <2> QED BY <1>3, <1>4, <2>1, Counting
<1>6. Len(body) \in P
  <2>1. Len(body) \in 0..Len(body)
    OBVIOUS
  <2> QED BY <1>5, <2>1
<1> QED BY <1>2, <1>6, FirstLines DEF P

-----------------------------------------------------------------------------
(* One hunk.                                                                *)

\* A hunk of any diff.
HunkType == [start : Nat, body : Seq(Edit)]

\* The file has the old side of the hunk where the hunk says.
FitsAt(file, hunk) ==
    LET old == OldSide(hunk.body)
    IN  /\ hunk.start >= 1 /\ hunk.start - 1 + Len(old) <= Len(file)
        /\ SubSeq(file, hunk.start, hunk.start - 1 + Len(old)) = old

\* Only a hunk without old lines names the line before the first.
Numbered(hunk) == OldSide(hunk.body) = << >> => hunk.start = 0

\* A part of a file is these lines when each of them is there.
LEMMA SubSeqMatches ==
    ASSUME NEW T, NEW file, file \in Seq(T), NEW start, start \in Nat, start >= 1,
           NEW old, old \in Seq(T), old # << >>
    PROVE  /\ start - 1 + Len(old) <= Len(file)
           /\ SubSeq(file, start, start - 1 + Len(old)) = old
           <=> Matches(file, start - 1, old)
<1>1. PICK m, n : m = Len(old) /\ n = Len(file)
  OBVIOUS
<1>2. m \in Nat /\ n \in Nat /\ m >= 1
  BY <1>1, EmptySeq
<1>3. ASSUME start - 1 + m <= n
      PROVE  /\ SubSeq(file, start, start - 1 + m) \in Seq(T)
             /\ Len(SubSeq(file, start, start - 1 + m)) = m
             /\ \A j \in 1..m : SubSeq(file, start, start - 1 + m)[j] = file[start - 1 + j]
  <2>1. start..(start - 1 + m) \subseteq 1..n
    BY <1>2, <1>3
  <2>2. start \in Int /\ start - 1 + m \in Int
    BY <1>2
  <2> QED BY <1>1, <1>2, <1>3, <2>1, <2>2, SubSeqProperties
<1>4. ASSUME start - 1 + m <= n, SubSeq(file, start, start - 1 + m) = old
      PROVE  Matches(file, start - 1, old)
  BY <1>1, <1>2, <1>3, <1>4 DEF Matches
<1>5. ASSUME Matches(file, start - 1, old)
      PROVE  start - 1 + m <= n /\ SubSeq(file, start, start - 1 + m) = old
  <2>1. start - 1 + m <= n
    BY <1>1, <1>2, <1>5 DEF Matches
  <2>2. PICK s : s = SubSeq(file, start, start - 1 + m)
    OBVIOUS
  <2>3. s \in Seq(T) /\ Len(s) = m /\ \A j \in 1..m : s[j] = old[j]
    BY <1>1, <1>2, <1>3, <1>5, <2>1, <2>2 DEF Matches
  <2>4. s = old
    BY <1>1, <2>3, SeqEqual
  <2> QED BY <2>1, <2>2, <2>4
<1> QED BY <1>1, <1>4, <1>5

\* What is left of the file up to a line that it has.
LEMMA GapUpTo ==
    ASSUME NEW file, file \in Seq(Lines), NEW at, at \in Nat, NEW start, start \in Nat
    PROVE  /\ Gap(file, at, start) \in Seq(Lines)
           /\ start <= Len(file) => Gap(file, at, start) = SubSeq(file, at + 1, start)
<1>1. PICK n : n = Len(file) /\ n \in Nat
  <2>1. Len(file) \in Nat
    OBVIOUS
  <2> QED BY <2>1
<1>2. PICK m : m = IF start < Len(file) THEN start ELSE Len(file)
  OBVIOUS
<1>3. m \in Nat /\ m <= n /\ (start <= n => m = start)
  BY <1>1, <1>2
<1>4. \A i \in (at + 1)..m : file[i] \in Lines
  <2>1. \A i \in (at + 1)..m : i \in 1..Len(file)
    BY <1>1, <1>3
  <2> QED BY <2>1, ElementOfSeq
<1>5. SubSeq(file, at + 1, m) \in Seq(Lines)
  <2>1. at + 1 \in Int /\ m \in Int
    BY <1>3
  <2> QED BY <1>4, <2>1, SubSeqProperties
<1> QED BY <1>1, <1>2, <1>3, <1>5 DEF Gap

\* One sequence after the other, not expanded where only these facts of it are used.
Join(s, t) == s \o t

\* What is known of two sequences, one after the other.
LEMMA JoinType ==
    ASSUME NEW T, NEW s, NEW t, s \in Seq(T), t \in Seq(T)
    PROVE  Join(s, t) \in Seq(T)
BY ConcatProperties DEF Join

LEMMA JoinAssociative ==
    ASSUME NEW T, NEW s, NEW t, NEW u, s \in Seq(T), t \in Seq(T), u \in Seq(T)
    PROVE  Join(Join(s, t), u) = Join(s, Join(t, u))
BY ConcatAssociative DEF Join

\* The output after a hunk.
OutAfter(file, done, hunk) ==
    Join(Join(done.out, SubSeq(file, done.at + 1, hunk.start - 1)), NewSide(hunk.body))

\* The state after a hunk: in its place, or refused.
Passed(file, done, hunk, d) ==
    IF FitsAt(file, hunk)
    THEN d = [at |-> hunk.start - 1 + Len(OldSide(hunk.body)),
              out |-> OutAfter(file, done, hunk),
              error |-> "none"]
    ELSE d.error # "none"

\* A hunk that names a line not yet passed is applied there, when it fits, and refused
\* when it does not.
LEMMA HunkPasses ==
    ASSUME NEW file, file \in Seq(Lines), NEW done, done \in Progress, done.error = "none",
           NEW hunk, hunk \in HunkType, Numbered(hunk),
           hunk.start >= 1 => done.at <= hunk.start - 1
    PROVE  ApplyHunk(file, done, hunk) \in Progress
           /\ Passed(file, done, hunk, ApplyHunk(file, done, hunk))
<1>1. /\ hunk.start \in Nat /\ hunk.body \in Seq(Edit)
      /\ done.at \in Nat /\ done.out \in Seq(Lines)
  BY DEF HunkType, Progress
<1>2. PICK body, start, at, out :
         body = hunk.body /\ start = hunk.start /\ at = done.at /\ out = done.out
  OBVIOUS
<1>3. PICK old, new : old = OldSide(body) /\ new = NewSide(body)
  OBVIOUS
<1>4. old \in Seq(Lines) /\ new \in Seq(Lines)
  BY <1>1, <1>2, <1>3, SideType DEF OldSide, NewSide
<1>5. CASE start = 0
  <2>1. OldStart(hunk) < done.at
    BY <1>1, <1>2, <1>5 DEF OldStart
  <2>2. ApplyHunk(file, done, hunk) = [done EXCEPT !.error = "overlapping hunks"]
    BY <2>1, HunkIsLines DEF Error
  <2>3. ~ FitsAt(file, hunk)
    BY <1>2, <1>5 DEF FitsAt
  <2> QED BY <2>2, <2>3 DEF Passed, Progress, Cause
<1>6. CASE start >= 1
  <2>1. ~ (OldStart(hunk) < done.at) /\ OldStart(hunk) = start - 1 /\ start - 1 \in Nat
    BY <1>1, <1>2, <1>6 DEF OldStart
  <2>2. PICK d : d = [done EXCEPT !.at = OldStart(hunk),
                                  !.out = @ \o Gap(file, done.at, OldStart(hunk))]
    OBVIOUS
  <2>3. ApplyHunk(file, done, hunk) = ApplyLines(file, d, body)
    BY <1>2, <2>1, <2>2, HunkIsLines
  <2>4. PICK gap : gap = Gap(file, at, start - 1)
    OBVIOUS
  <2>5. gap \in Seq(Lines) /\ out \o gap \in Seq(Lines)
    BY <1>1, <1>2, <2>1, <2>4, GapUpTo, ConcatProperties
  <2>6. /\ d \in Progress /\ d.error = "none" /\ d.at = start - 1 /\ d.out = out \o gap
    BY <1>1, <1>2, <2>1, <2>2, <2>4, <2>5 DEF Progress
  <2>7. Reached(file, start - 1, out \o gap, ApplyLines(file, d, body), old, new)
    BY <1>1, <1>2, <1>3, <2>6, LinesApply
  <2>8. ApplyLines(file, d, body) \in Progress
    <3>1. PICK st : LineFold(file, d, body, st)
      BY <1>1, <1>2, <2>6, LineStates
    <3>2. Len(body) \in 0..Len(body)
      BY <1>1, <1>2
    <3> QED BY <3>1, <3>2 DEF LineFold
  <2>9. old # << >>
    BY <1>2, <1>3, <1>6 DEF Numbered
  <2>10. FitsAt(file, hunk) <=> Matches(file, start - 1, old)
    <3>1. start \in Nat
      BY <1>1, <1>2
    <3>2. (start - 1 + Len(old) <= Len(file) /\ SubSeq(file, start, start - 1 + Len(old)) = old)
          <=> Matches(file, start - 1, old)
      BY <1>4, <1>6, <2>9, <3>1, SubSeqMatches
    <3> QED BY <1>2, <1>3, <1>6, <3>2 DEF FitsAt
  <2>11. CASE FitsAt(file, hunk)
    <3>1. start - 1 <= Len(file)
      <4>1. start - 1 + Len(old) <= Len(file) /\ Len(old) \in Nat /\ Len(file) \in Nat
        BY <1>2, <1>3, <1>4, <2>11 DEF FitsAt
      <4> QED BY <2>1, <4>1
    <3>2. gap = SubSeq(file, at + 1, start - 1)
      BY <1>1, <1>2, <2>1, <2>4, <3>1, GapUpTo
    <3>3. ApplyLines(file, d, body)
          = [at |-> start - 1 + Len(old), out |-> (out \o gap) \o new, error |-> "none"]
      BY <2>7, <2>10, <2>11 DEF Reached
    <3> QED BY <1>2, <1>3, <2>3, <2>8, <2>11, <3>2, <3>3 DEF Passed, OutAfter, Join
  <2>12. CASE ~ FitsAt(file, hunk)
    <3>1. ApplyLines(file, d, body).error = "mismatch"
      BY <2>7, <2>10, <2>12 DEF Reached
    <3> QED BY <2>3, <2>8, <2>12, <3>1 DEF Passed
  <2> QED BY <2>11, <2>12
<1> QED BY <1>1, <1>2, <1>5, <1>6

-----------------------------------------------------------------------------
(* Folds of sequences and of hunks.                                         *)

\* There are states that begin with the base and go on with the steps.
LEMMA StatesExist ==
    ASSUME NEW n, NEW S, NEW base, NEW step,
           n \in Nat, base \in S, step \in [1..n -> [S -> S]]
    PROVE  \E st : States(n, S, base, step, st)
<1>1. PICK iter : Folding(iter, n, base, step)
  BY FoldingExists
<1>2. iter[{}] = base
  BY <1>1 DEF Folding
<1>3. ASSUME NEW k \in 1..n PROVE iter[1..k] = step[k][iter[1..(k - 1)]]
  <2>1. k \in Nat /\ k > 0 /\ k <= n
    OBVIOUS
  <2>2. k \in 1..k /\ 1..k \in SUBSET (1..n)
    BY <2>1
  <2>3. Max(1..k) = k /\ (1..k) \ {k} = 1..(k - 1)
    BY <2>1, MaxOfFirst
  <2> QED BY <1>1, <2>2, <2>3 DEF Folding
<1>4. FoldsOver(iter, n, S, base, step)
  BY <1>2, <1>3 DEF FoldsOver
<1> QED BY <1>4, StatesOfFolding

\* Sequences joined one after the other.
FlattenFold(seqs, T, fs) ==
    /\ fs \in [0..Len(seqs) -> Seq(T)]
    /\ fs[0] = << >> /\ fs[Len(seqs)] = FlattenSeq(seqs)
    /\ \A k \in 1..Len(seqs) : fs[k] = Join(fs[k - 1], seqs[k])

\* There are such states.
LEMMA FlattenStates ==
    ASSUME NEW T, NEW seqs, seqs \in Seq(Seq(T))
    PROVE  \E fs : FlattenFold(seqs, T, fs)
<1> DEFINE n == Len(seqs)
           S == Seq(T)
           step == [k \in 1..n |-> [s \in S |-> s \o seqs[k]]]
           Flat(f) == f = [i \in 1..n |-> IF i = 1 THEN seqs[i] ELSE f[i - 1] \o seqs[i]]
<1>1. n \in Nat /\ << >> \in S /\ \A k \in 1..n : seqs[k] \in S
  OBVIOUS
<1>2. CASE n = 0
  <2>1. seqs = << >> /\ FlattenSeq(seqs) = << >>
    BY <1>2, EmptySeq DEF FlattenSeq
  <2>2. PICK fs : fs = [k \in 0..0 |-> << >>]
    OBVIOUS
  <2>3. fs \in [0..0 -> S] /\ fs[0] = << >> /\ 1..0 = {}
    BY <1>1, <2>2
  <2>4. FlattenFold(seqs, T, fs)
    BY <1>2, <2>1, <2>3 DEF FlattenFold
  <2> QED BY <2>4
<1>3. CASE n # 0
  <2>1. FlattenSeq(seqs) = (CHOOSE f : Flat(f))[n]
    BY Zenon, <1>3 DEF FlattenSeq
  <2>2. step \in [1..n -> [S -> S]]
    <3>1. \A k \in 1..n, s \in S : s \o seqs[k] \in S
      BY <1>1, ConcatProperties
    <3> QED BY <3>1
  <2>3. PICK st : st \in [0..n -> S] /\ st[0] = << >> /\ \A k \in 1..n : st[k] = step[k][st[k - 1]]
    <3> HIDE DEF n, S, step
    <3>1. PICK st : States(n, S, << >>, step, st)
      BY <1>1, <2>2, StatesExist
    <3> QED BY <3>1 DEF States
  <2>4. ASSUME NEW k \in 1..n PROVE st[k] = st[k - 1] \o seqs[k]
    <3>1. k - 1 \in 0..n
      BY <1>1
    <3>2. st[k - 1] \in S
      BY <2>3, <3>1
    <3> QED BY <2>3, <3>2
  <2>5. Flat([i \in 1..n |-> st[i]])
    <3>1. ASSUME NEW i \in 1..n
          PROVE  st[i] = IF i = 1 THEN seqs[i] ELSE st[i - 1] \o seqs[i]
      <4>1. CASE i = 1
        <5>1. seqs[i] \in S /\ i - 1 = 0
          BY <1>1, <4>1
        <5>2. st[i] = st[i - 1] \o seqs[i]
          BY <2>4
        <5>3. << >> \o seqs[i] = seqs[i]
          BY <5>1, ConcatEmptySeq
        <5> QED BY <2>3, <4>1, <5>1, <5>2, <5>3
      <4> QED BY <2>4, <4>1
    <3>2. \A i \in 1..n : i # 1 => i - 1 \in 1..n
      BY <1>1
    <3> QED BY <3>1, <3>2
  <2>6. PICK f : Flat(f) /\ FlattenSeq(seqs) = f[n]
    BY <2>1, <2>5
  <2>7. PICK g : g = [k \in 0..n |-> IF k = 0 THEN << >> ELSE f[k]]
    OBVIOUS
  <2>8. \A k \in 1..n : g[k - 1] = st[k - 1] => g[k] = st[k]
    <3> TAKE k \in 1..n
    <3> HAVE g[k - 1] = st[k - 1]
    <3>1. CASE k = 1
      <4>1. f[1] = seqs[1] /\ g[1] = f[1]
        BY <2>6, <2>7, <3>1
      <4>2. seqs[k] \in S /\ k - 1 = 0
        BY <1>1, <3>1
      <4>3. st[k] = st[k - 1] \o seqs[k]
        BY <2>4
      <4>4. << >> \o seqs[k] = seqs[k]
        BY <4>2, ConcatEmptySeq
      <4> QED BY <2>3, <3>1, <4>1, <4>2, <4>3, <4>4
    <3>2. CASE k # 1
      <4>1. k - 1 \in 1..n /\ k - 1 \in 0..n /\ k \in 0..n /\ k # 0 /\ k - 1 # 0
        BY <1>1, <3>2
      <4>2. f[k] = f[k - 1] \o seqs[k]
        BY <2>6, <3>2
      <4>3. g[k] = f[k] /\ g[k - 1] = f[k - 1]
        BY <2>7, <4>1
      <4> QED BY <2>4, <4>2, <4>3
    <3> QED BY <3>1, <3>2
  <2>9. g[0] = st[0]
    BY <1>1, <2>3, <2>7
  <2>10. \A k \in 0..n : g[k] = st[k]
    <3>1. StepsAlike(n, g, st)
      BY <1>1, <2>8, <2>9 DEF StepsAlike
    <3> HIDE DEF n
    <3> QED BY ZenonT(30), <3>1, StatesAreSame
  <2>11. st[n] = FlattenSeq(seqs)
    <3>1. n \in 0..n /\ g[n] = f[n]
      BY <1>1, <1>3, <2>7
    <3> QED BY <2>6, <2>10, <3>1
  <2>12. FlattenFold(seqs, T, st)
    BY <2>3, <2>4, <2>11 DEF FlattenFold, Join
  <2> QED BY <2>12
<1> QED BY <1>2, <1>3

\* A hunk keeps the type of what is done.
LEMMA HunkKeepsType ==
    ASSUME NEW file, file \in Seq(Lines), NEW done, done \in Progress,
           NEW hunk, hunk \in HunkType
    PROVE  ApplyHunk(file, done, hunk) \in Progress
<1>1. /\ hunk.start \in Nat /\ hunk.body \in Seq(Edit)
      /\ done.at \in Nat /\ done.out \in Seq(Lines)
  BY DEF HunkType, Progress
<1>2. CASE done.error # "none"
  BY <1>2, HunkIsLines
<1>3. CASE done.error = "none" /\ OldStart(hunk) < done.at
  <2>1. ApplyHunk(file, done, hunk) = [done EXCEPT !.error = "overlapping hunks"]
    BY <1>3, HunkIsLines DEF Error
  <2> QED BY <2>1 DEF Progress, Cause
<1>4. CASE done.error = "none" /\ ~ (OldStart(hunk) < done.at)
  <2>1. PICK start : start = OldStart(hunk)
    OBVIOUS
  <2>2. start \in Nat
    BY <1>1, <1>4, <2>1 DEF OldStart
  <2>3. PICK d : d = [done EXCEPT !.at = OldStart(hunk),
                                  !.out = @ \o Gap(file, done.at, OldStart(hunk))]
    OBVIOUS
  <2>4. ApplyHunk(file, done, hunk) = ApplyLines(file, d, hunk.body)
    BY <1>4, <2>3, HunkIsLines
  <2>5. PICK out : out = done.out \o Gap(file, done.at, start)
    OBVIOUS
  <2>6. out \in Seq(Lines)
    BY <1>1, <2>2, <2>5, GapUpTo, ConcatProperties
  <2>7. d \in Progress
    BY <2>1, <2>2, <2>3, <2>5, <2>6 DEF Progress
  <2>8. PICK body : body = hunk.body
    OBVIOUS
  <2>9. PICK st : LineFold(file, d, body, st)
    BY <1>1, <2>7, <2>8, LineStates
  <2>10. Len(body) \in 0..Len(body)
    BY <1>1, <2>8
  <2> QED BY <2>4, <2>8, <2>9, <2>10 DEF LineFold
<1> QED BY <1>2, <1>3, <1>4

\* The states that the hunks lead through.
Begun == [at |-> 0, out |-> << >>, error |-> "none"]
ApplyEach(file, hunks) == FoldLeft(LAMBDA d, hunk : ApplyHunk(file, d, hunk), Begun, hunks)

\* What is done after each hunk.
HunkFold(file, hunks, st) ==
    /\ st \in [0..Len(hunks) -> Progress]
    /\ st[0] = Begun /\ st[Len(hunks)] = ApplyEach(file, hunks)
    /\ \A k \in 1..Len(hunks) : st[k] = ApplyHunk(file, st[k - 1], hunks[k])

\* There are such states.
LEMMA HunkStates ==
    ASSUME NEW file, NEW hunks, file \in Seq(Lines), hunks \in Seq(HunkType)
    PROVE  \E st : HunkFold(file, hunks, st)
<1> DEFINE n == Len(hunks)
           S == Progress
           step == [k \in 1..n |-> [d \in S |-> ApplyHunk(file, d, hunks[k])]]
           Recursion(iter) ==
             iter = [s \in SUBSET DOMAIN hunks |->
                       IF s = {} THEN Begun
                       ELSE ApplyHunk(file, iter[s \ {Max(s)}], hunks[Max(s)])]
<1>1. n \in Nat /\ DOMAIN hunks = 1..n /\ Begun \in S
  BY EmptySeq DEF Begun, Progress, Cause
<1>2. ApplyEach(file, hunks) = (CHOOSE iter : Recursion(iter))[DOMAIN hunks]
  BY Zenon DEF ApplyEach, FoldLeft, MapThenFoldSet
<1>3. step \in [1..n -> [S -> S]]
  <2>1. ASSUME NEW k \in 1..n, NEW d \in S PROVE ApplyHunk(file, d, hunks[k]) \in S
    <3>1. hunks[k] \in HunkType
      BY <1>1
    <3> QED BY <3>1, HunkKeepsType
  <2> QED BY <2>1
<1>4. \E iter : Recursion(iter)
  <2>1. PICK iter \in [SUBSET (1..n) -> S] : Folding(iter, n, Begun, step)
    <3> HIDE DEF step, n, S
    <3> QED BY <1>1, <1>3, FoldingExists
  <2>2. ASSUME NEW s \in SUBSET (1..n), s # {}
        PROVE  step[Max(s)][iter[s \ {Max(s)}]]
               = ApplyHunk(file, iter[s \ {Max(s)}], hunks[Max(s)])
    <3>1. Max(s) \in 1..n
      BY <1>1, <2>2, MaxIsGreatest
    <3>2. iter[s \ {Max(s)}] \in S
      BY <2>1
    <3> QED BY <3>1, <3>2
  <2>3. Recursion(iter)
    BY <1>1, <2>1, <2>2 DEF Folding
  <2> QED BY <2>3
<1>5. PICK iter : Recursion(iter) /\ ApplyEach(file, hunks) = iter[1..n]
  BY <1>1, <1>2, <1>4
<1>6. iter[{}] = Begun
  BY <1>5
<1>7. ASSUME NEW k \in 1..n, iter[1..(k - 1)] \in S
      PROVE  iter[1..k] = step[k][iter[1..(k - 1)]]
  <2>1. k \in Nat /\ k > 0 /\ 1..k # {} /\ 1..k \in SUBSET DOMAIN hunks
    <3>1. k \in Nat /\ k > 0 /\ k <= n
      BY <1>1
    <3>2. k \in 1..k /\ 1..k \subseteq 1..n
      BY <1>1, <3>1
    <3> QED BY <1>1, <3>1, <3>2
  <2>2. Max(1..k) = k /\ (1..k) \ {k} = 1..(k - 1)
    BY <2>1, MaxOfFirst
  <2>3. iter[1..k] = ApplyHunk(file, iter[1..(k - 1)], hunks[k])
    BY <1>5, <2>1, <2>2
  <2> QED BY <1>7, <2>3
<1>8. PICK st \in [0..n -> S] :
         /\ st[0] = Begun /\ st[n] = iter[1..n]
         /\ \A k \in 1..n : st[k] = step[k][st[k - 1]]
  <2> HIDE DEF step, S, n
  <2>1. FoldsOver(iter, n, S, Begun, step)
    BY <1>1, <1>3, <1>6, <1>7 DEF FoldsOver
  <2>2. PICK st : States(n, S, Begun, step, st) /\ st[n] = iter[1..n]
    BY <2>1, StatesOfFolding
  <2> QED BY <2>2 DEF States
<1>9. \A k \in 1..n : st[k] = ApplyHunk(file, st[k - 1], hunks[k])
  <2> TAKE k \in 1..n
  <2>1. st[k - 1] \in S
    BY <1>8
  <2> QED BY <1>8, <2>1
<1> QED BY <1>5, <1>8, <1>9 DEF HunkFold

\* The result of the hunks, after the last of them.
LEMMA HunksAreEach ==
    ASSUME NEW file, NEW hunks
    PROVE  ApplyHunks(file, hunks) =
             LET done == ApplyEach(file, hunks)
                 out == done.out \o Gap(file, done.at, Len(file))
             IN  [error |-> done.error, out |-> IF out = << >> /\ file # << >> THEN <<"">> ELSE out]
BY Zenon DEF ApplyHunks, ApplyEach, Begun, FoldLeft, MapThenFoldSet

-----------------------------------------------------------------------------
(* Hunks one after the other.                                               *)

\* The first line after a hunk, 1 before all hunks.
AfterHunk(hunks, i) == IF i = 0 THEN 1 ELSE hunks[i].start + Len(OldSide(hunks[i].body))

\* No hunk begins before the one before it ends.
InOrder(hunks) ==
    /\ \A i \in 1..Len(hunks) : Numbered(hunks[i])
    /\ \A i \in 1..Len(hunks) : i > 1 => AfterHunk(hunks, i - 1) <= hunks[i].start

\* The first hunks all have their old sides where they say.
FirstFit(file, hunks, k) == \A i \in 1..k : FitsAt(file, hunks[i])

\* Hunks end at a line.
LEMMA AfterIsNat ==
    ASSUME NEW hunks, hunks \in Seq(HunkType), NEW i, i \in 0..Len(hunks)
    PROVE  AfterHunk(hunks, i) \in Nat
<1>1. CASE i = 0
  BY <1>1 DEF AfterHunk
<1>2. CASE i # 0
  <2>1. i \in 1..Len(hunks)
    BY <1>2
  <2>2. hunks[i] \in HunkType
    BY <2>1
  <2>3. PICK body : body = hunks[i].body
    OBVIOUS
  <2>4. hunks[i].start \in Nat /\ body \in Seq(Edit)
    BY <2>2, <2>3 DEF HunkType
  <2>5. OldSide(body) \in Seq(Lines)
    BY <2>4, SideType DEF OldSide
  <2>6. Len(OldSide(body)) \in Nat
    BY <2>5, LenProperties
  <2> QED BY <1>2, <2>3, <2>4, <2>6 DEF AfterHunk
<1> QED BY <1>1, <1>2

\* Hunk by hunk: as long as they fit the file is read up to the end of the last, from the
\* first that does not on there is an error.
Passing(file, hunks, st, k) ==
    IF FirstFit(file, hunks, k)
    THEN st[k].error = "none" /\ st[k].at = AfterHunk(hunks, k) - 1
    ELSE st[k].error # "none"

\* The next hunk, when those before it fitted.
LEMMA HunkFollows ==
    ASSUME NEW file, file \in Seq(Lines), NEW hunks, hunks \in Seq(HunkType), InOrder(hunks),
           NEW st, HunkFold(file, hunks, st), NEW k, k \in 1..Len(hunks),
           Passing(file, hunks, st, k - 1), FirstFit(file, hunks, k - 1)
    PROVE  Passed(file, st[k - 1], hunks[k], st[k])
<1>1. PICK hunk, d : hunk = hunks[k] /\ d = st[k - 1]
  OBVIOUS
<1>2. k - 1 \in 0..Len(hunks)
  OBVIOUS
<1>3. hunk \in HunkType /\ d \in Progress /\ st[k] = ApplyHunk(file, d, hunk)
  BY <1>1, <1>2 DEF HunkFold
<1>4. d.error = "none" /\ d.at = AfterHunk(hunks, k - 1) - 1 /\ Numbered(hunk)
  BY <1>1 DEF Passing, InOrder
<1>5. hunk.start >= 1 => d.at <= hunk.start - 1
  <2>1. hunk.start \in Nat /\ AfterHunk(hunks, k - 1) \in Nat
    BY <1>2, <1>3, AfterIsNat DEF HunkType
  <2>2. CASE k = 1
    <3>1. AfterHunk(hunks, k - 1) = 1
      BY <2>2 DEF AfterHunk
    <3> QED BY <1>4, <2>1, <3>1
  <2>3. CASE k # 1
    <3>1. AfterHunk(hunks, k - 1) <= hunk.start
      BY <1>1, <2>3 DEF InOrder
    <3> QED BY <1>4, <2>1, <3>1
  <2> QED BY <2>2, <2>3
<1>6. Passed(file, d, hunk, ApplyHunk(file, d, hunk))
  BY <1>3, <1>4, <1>5, HunkPasses
<1> QED BY <1>1, <1>3, <1>6

\* The hunks pass as long as they fit, and no longer.
LEMMA HunksPass ==
    ASSUME NEW file, file \in Seq(Lines), NEW hunks, hunks \in Seq(HunkType), InOrder(hunks),
           NEW st, HunkFold(file, hunks, st)
    PROVE  \A k \in 0..Len(hunks) : Passing(file, hunks, st, k)
<1> DEFINE P == {k \in 0..Len(hunks) : Passing(file, hunks, st, k)}
<1>1. 0 \in P
  <2>1. st[0] = Begun /\ 0 \in 0..Len(hunks) /\ 1..0 = {}
    BY DEF HunkFold
  <2> QED BY <2>1 DEF Passing, FirstFit, Begun, AfterHunk
<1>2. ASSUME NEW k, k \in 0..(Len(hunks) - 1), k \in P PROVE k + 1 \in P
  <2>1. PICK m : m = k + 1
    OBVIOUS
  <2>2. m \in 1..Len(hunks) /\ m \in 0..Len(hunks) /\ m - 1 = k /\ 1..m = (1..k) \cup {m}
    BY <1>2, <2>1
  <2>3. Passing(file, hunks, st, m - 1)
    BY <1>2, <2>2
  <2>4. FirstFit(file, hunks, m) <=> FirstFit(file, hunks, k) /\ FitsAt(file, hunks[m])
    BY <2>2 DEF FirstFit
  <2>5. CASE FirstFit(file, hunks, k)
    <3>1. Passed(file, st[m - 1], hunks[m], st[m])
      BY <2>2, <2>3, <2>5, HunkFollows
    <3>2. m # 0
      BY <2>2
    <3>3. AfterHunk(hunks, m) - 1 = hunks[m].start - 1 + Len(OldSide(hunks[m].body))
      <4>1. PICK start, len : start = hunks[m].start /\ len = Len(OldSide(hunks[m].body))
        OBVIOUS
      <4>2. hunks[m] \in HunkType
        BY <2>2
      <4>3. start \in Nat
        BY <4>1, <4>2 DEF HunkType
      <4>4. AfterHunk(hunks, m) = start + len
        BY <3>2, <4>1 DEF AfterHunk
      <4>5. len \in Nat
        <5>1. PICK body : body = hunks[m].body
          OBVIOUS
        <5>2. body \in Seq(Edit)
          BY <4>2, <5>1 DEF HunkType
        <5>3. OldSide(body) \in Seq(Lines)
          BY <5>2, SideType DEF OldSide
        <5> QED BY <4>1, <5>1, <5>3, LenProperties
      <4> QED BY <4>1, <4>3, <4>4, <4>5
    <3>4. Passing(file, hunks, st, m)
      BY <2>4, <2>5, <3>1, <3>3 DEF Passing, Passed
    <3> QED BY <2>1, <2>2, <3>4
  <2>6. CASE ~ FirstFit(file, hunks, k)
    <3>1. st[k].error # "none"
      BY <2>2, <2>3, <2>6 DEF Passing
    <3>2. st[m] = ApplyHunk(file, st[k], hunks[m])
      BY <2>2 DEF HunkFold
    <3>3. st[m] = st[k]
      BY <3>1, <3>2, HunkIsLines
    <3>4. Passing(file, hunks, st, m)
      BY <2>4, <2>6, <3>1, <3>3 DEF Passing
    <3> QED BY <2>1, <2>2, <3>4
  <2> QED BY <2>5, <2>6
<1> HIDE DEF P
<1>3. \A k \in 0..Len(hunks) : k \in P
  <2>1. Len(hunks) \in Nat
    OBVIOUS
  <2> QED BY <1>1, <1>2, <2>1, Counting
<1> QED BY <1>3 DEF P

\* What a hunk puts into the output: the file from the hunk before it, and its new side.
Piece(file, hunks, i) ==
    Join(SubSeq(file, AfterHunk(hunks, i - 1), hunks[i].start - 1), NewSide(hunks[i].body))
Pieces(file, hunks) == [i \in 1..Len(hunks) |-> Piece(file, hunks, i)]

\* What hunks mean, in pieces.
LEMMA SplicedPieces ==
    ASSUME NEW file, NEW hunks, hunks \in Seq(HunkType)
    PROVE  Spliced(file, hunks) = FlattenSeq(Pieces(file, hunks))
                                  \o SubSeq(file, AfterHunk(hunks, Len(hunks)), Len(file))
<1>1. DOMAIN hunks = 1..Len(hunks)
  OBVIOUS
<1> QED BY Zenon, <1>1 DEF Spliced, Pieces, Piece, Join, AfterHunk

\* Pieces of a file are sequences of lines.
LEMMA PartType ==
    ASSUME NEW T, NEW file, file \in Seq(T), NEW m, NEW n, m \in Nat, n \in Int, m >= 1, n <= Len(file)
    PROVE  SubSeq(file, m, n) \in Seq(T)
<1>1. \A i \in m..n : i \in 1..Len(file)
  OBVIOUS
<1>2. \A i \in m..n : file[i] \in T
  BY <1>1, ElementOfSeq
<1>3. m \in Int
  OBVIOUS
<1> QED BY <1>2, <1>3, SubSeqProperties

\* The pieces of a file that the hunks fit.
LEMMA FitPiece ==
    ASSUME NEW file, file \in Seq(Lines), NEW hunks, hunks \in Seq(HunkType),
           FirstFit(file, hunks, Len(hunks)), NEW k, k \in 1..Len(hunks)
    PROVE  /\ SubSeq(file, AfterHunk(hunks, k - 1), hunks[k].start - 1) \in Seq(Lines)
           /\ NewSide(hunks[k].body) \in Seq(Lines)
<1>1. /\ hunks[k] \in HunkType /\ k - 1 \in 0..Len(hunks)
      /\ FitsAt(file, hunks[k]) /\ (k - 1 > 0 => FitsAt(file, hunks[k - 1]))
  <2>1. k - 1 > 0 => k - 1 \in 1..Len(hunks)
    OBVIOUS
  <2> QED BY <2>1 DEF FirstFit
<1>2. PICK body, start : body = hunks[k].body /\ start = hunks[k].start
  OBVIOUS
<1>3. body \in Seq(Edit) /\ start \in Nat
  BY <1>1, <1>2 DEF HunkType
<1>4. OldSide(body) \in Seq(Lines) /\ NewSide(body) \in Seq(Lines)
  BY <1>3, SideType DEF OldSide, NewSide
<1>5. AfterHunk(hunks, k - 1) \in Nat /\ AfterHunk(hunks, k - 1) >= 1
  <2>1. AfterHunk(hunks, k - 1) \in Nat
    BY <1>1, AfterIsNat
  <2>2. CASE k - 1 = 0
    BY <2>2 DEF AfterHunk
  <2>3. CASE k - 1 # 0
    <3>1. k - 1 > 0
      BY <1>1, <2>3
    <3>2. PICK prev, len : prev = hunks[k - 1] /\ len = Len(OldSide(prev.body))
      OBVIOUS
    <3>3. prev \in HunkType /\ prev.start >= 1
      <4>1. k - 1 \in 1..Len(hunks)
        BY <3>1
      <4> QED BY <1>1, <3>1, <3>2, <4>1 DEF FitsAt
    <3>4. AfterHunk(hunks, k - 1) = prev.start + len
      BY <2>3, <3>2 DEF AfterHunk
    <3>5. len \in Nat
      <4>1. PICK b : b = prev.body
        OBVIOUS
      <4>2. b \in Seq(Edit)
        BY <3>3, <4>1 DEF HunkType
      <4>3. OldSide(b) \in Seq(Lines)
        BY <4>2, SideType DEF OldSide
      <4> QED BY <3>2, <4>1, <4>3, LenProperties
    <3>6. prev.start \in Nat
      BY <3>3 DEF HunkType
    <3> QED BY <2>1, <3>3, <3>4, <3>5, <3>6
  <2> QED BY <2>1, <2>2, <2>3
<1>6. start - 1 \in Int /\ start - 1 <= Len(file)
  <2>1. PICK old : old = OldSide(body)
    OBVIOUS
  <2>2. start - 1 + Len(old) <= Len(file)
    BY <1>1, <1>2, <2>1 DEF FitsAt
  <2>3. Len(old) \in Nat /\ Len(file) \in Nat
    BY <1>4, <2>1
  <2> QED BY <1>3, <2>2, <2>3
<1>7. SubSeq(file, AfterHunk(hunks, k - 1), start - 1) \in Seq(Lines)
  BY <1>5, <1>6, PartType
<1> QED BY <1>2, <1>4, <1>7

\* As long as the hunks fit, the output is the pieces up to the last.
LEMMA HunksSplice ==
    ASSUME NEW file, file \in Seq(Lines), NEW hunks, hunks \in Seq(HunkType), InOrder(hunks),
           NEW st, HunkFold(file, hunks, st), FirstFit(file, hunks, Len(hunks)),
           NEW fs, FlattenFold(Pieces(file, hunks), Lines, fs)
    PROVE  st[Len(hunks)].out = fs[Len(hunks)]
<1> DEFINE P == {k \in 0..Len(hunks) : st[k].out = fs[k]}
<1>1. Len(Pieces(file, hunks)) = Len(hunks) /\ Len(hunks) \in Nat
  BY DEF Pieces
<1>2. 0 \in P
  BY <1>1 DEF HunkFold, FlattenFold, Begun
<1>3. ASSUME NEW k, k \in 0..(Len(hunks) - 1), k \in P PROVE k + 1 \in P
  <2>1. PICK m : m = k + 1
    OBVIOUS
  <2>2. m \in 1..Len(hunks) /\ m \in 0..Len(hunks) /\ m - 1 = k /\ k \in 0..Len(hunks)
    BY <1>3, <2>1
  <2>3. FirstFit(file, hunks, k) /\ FitsAt(file, hunks[m])
    BY <2>2 DEF FirstFit
  <2>4. Passing(file, hunks, st, m - 1)
    BY <2>2, HunksPass
  <2>5. Passed(file, st[m - 1], hunks[m], st[m])
    BY <2>2, <2>3, <2>4, HunkFollows
  <2>6. st[k].at = AfterHunk(hunks, k) - 1 /\ st[k].out = fs[k]
    BY <1>3, <2>2, <2>3, <2>4 DEF Passing
  <2>7. AfterHunk(hunks, k) \in Nat
    BY <2>2, AfterIsNat
  <2>8. st[k].at + 1 = AfterHunk(hunks, k)
    BY <2>6, <2>7
  <2>9. PICK gap, new : gap = SubSeq(file, AfterHunk(hunks, m - 1), hunks[m].start - 1)
                        /\ new = NewSide(hunks[m].body)
    OBVIOUS
  <2>10. gap \in Seq(Lines) /\ new \in Seq(Lines)
    BY <2>2, <2>9, FitPiece
  <2>11. st[m].out = Join(Join(fs[k], gap), new)
    <3>1. PICK d : d = st[m - 1]
      OBVIOUS
    <3>2. st[m].out = OutAfter(file, d, hunks[m])
      BY <2>3, <2>5, <3>1 DEF Passed
    <3>3. d.out = fs[k] /\ d.at + 1 = AfterHunk(hunks, m - 1)
      BY <2>2, <2>6, <2>8, <3>1
    <3> QED BY <2>9, <3>2, <3>3 DEF OutAfter
  <2>12. fs[m] = Join(fs[k], Join(gap, new))
    BY <1>1, <2>2, <2>9 DEF FlattenFold, Pieces, Piece
  <2>13. fs[k] \in Seq(Lines)
    BY <1>1, <2>2 DEF FlattenFold
  <2>14. Join(Join(fs[k], gap), new) = Join(fs[k], Join(gap, new))
    <3>1. PICK s : s = fs[k] /\ s \in Seq(Lines)
      BY <2>13
    <3>2. Join(Join(s, gap), new) = Join(s, Join(gap, new))
      BY <2>10, <3>1, JoinAssociative
    <3> QED BY <3>1, <3>2
  <2> QED BY <2>1, <2>2, <2>11, <2>12, <2>14
<1> HIDE DEF P
<1>4. \A k \in 0..Len(hunks) : k \in P
  BY <1>1, <1>2, <1>3, Counting
<1>5. Len(hunks) \in 0..Len(hunks)
  BY <1>1
<1> QED BY <1>4, <1>5 DEF P

\* The output of the code: its last newline is there also when it is empty.
Written(file, out) == IF out = << >> /\ file # << >> THEN <<"">> ELSE out

\* Hunks in order are applied to a file exactly when it has all their old sides where
\* they say, and then make of it what the hunks mean.
LEMMA HunksApplied ==
    ASSUME NEW file, file \in Seq(Lines), NEW hunks, hunks \in Seq(HunkType), InOrder(hunks)
    PROVE  /\ ApplyHunks(file, hunks).error = "none" <=> Fits(file, hunks)
           /\ Fits(file, hunks) => ApplyHunks(file, hunks).out = Written(file, Spliced(file, hunks))
<1>1. PICK st : HunkFold(file, hunks, st)
  BY HunkStates
<1>2. PICK n : n = Len(hunks) /\ n \in Nat
  <2>1. Len(hunks) \in Nat
    OBVIOUS
  <2> QED BY <2>1
<1>3. Fits(file, hunks) <=> FirstFit(file, hunks, n)
  <2>1. DOMAIN hunks = 1..n
    BY <1>2
  <2> QED BY <2>1 DEF Fits, FirstFit, FitsAt
<1>4. Passing(file, hunks, st, n) /\ st[n] = ApplyEach(file, hunks) /\ n \in 0..n
  <2>1. n \in 0..n
    BY <1>2
  <2>2. \A k \in 0..Len(hunks) : Passing(file, hunks, st, k)
    BY <1>1, HunksPass
  <2>3. st[Len(hunks)] = ApplyEach(file, hunks)
    BY <1>1 DEF HunkFold
  <2> QED BY <1>2, <2>1, <2>2, <2>3
<1>5. ApplyHunks(file, hunks).error = st[n].error
  BY <1>4, HunksAreEach
<1>6. ASSUME FirstFit(file, hunks, n)
      PROVE  ApplyHunks(file, hunks).out = Written(file, Spliced(file, hunks))
  <2>1. st[n].error = "none" /\ st[n].at = AfterHunk(hunks, n) - 1
    BY <1>4, <1>6 DEF Passing
  <2>2. AfterHunk(hunks, n) \in Nat /\ st[n].at \in Nat
    BY <1>1, <1>2, <1>4, AfterIsNat DEF HunkFold, Progress
  <2>3. st[n].at + 1 = AfterHunk(hunks, n)
    BY <2>1, <2>2
  <2>4. Pieces(file, hunks) \in Seq(Seq(Lines))
    <3>1. ASSUME NEW k, k \in 1..n PROVE Piece(file, hunks, k) \in Seq(Lines)
      <4>1. PICK gap, new : gap = SubSeq(file, AfterHunk(hunks, k - 1), hunks[k].start - 1)
                            /\ new = NewSide(hunks[k].body)
        OBVIOUS
      <4>2. gap \in Seq(Lines) /\ new \in Seq(Lines)
        BY <1>2, <1>6, <3>1, <4>1, FitPiece
      <4>3. Join(gap, new) \in Seq(Lines)
        BY <4>2, JoinType
      <4> QED BY <4>1, <4>3 DEF Piece
    <3>2. Pieces(file, hunks) \in [1..n -> Seq(Lines)]
      BY <1>2, <3>1 DEF Pieces
    <3> QED BY <1>2, <3>2
  <2>5. PICK seqs : seqs = Pieces(file, hunks)
    OBVIOUS
  <2>6. PICK fs : FlattenFold(seqs, Lines, fs)
    BY <2>4, <2>5, FlattenStates
  <2>7. Len(seqs) = n
    BY <1>2, <2>5 DEF Pieces
  <2>8. st[n].out = fs[n] /\ fs[n] = FlattenSeq(seqs)
    <3>1. FirstFit(file, hunks, Len(hunks)) /\ FlattenFold(Pieces(file, hunks), Lines, fs)
      BY <1>2, <1>6, <2>5, <2>6
    <3>2. st[Len(hunks)].out = fs[Len(hunks)]
      BY <1>1, <3>1, HunksSplice
    <3>3. fs[Len(seqs)] = FlattenSeq(seqs)
      BY <2>6 DEF FlattenFold
    <3> QED BY <1>2, <2>7, <3>2, <3>3
  <2>9. PICK gap : gap = Gap(file, st[n].at, Len(file))
    OBVIOUS
  <2>10. gap = SubSeq(file, AfterHunk(hunks, n), Len(file))
    <3>1. PICK at, len : at = st[n].at /\ len = Len(file)
      OBVIOUS
    <3>2. len \in Nat /\ at \in Nat /\ len <= Len(file)
      BY <2>2, <3>1
    <3>3. Gap(file, at, len) = SubSeq(file, at + 1, len)
      BY <3>2, GapUpTo
    <3> QED BY <2>3, <2>9, <3>1, <3>3
  <2>11. Spliced(file, hunks) = st[n].out \o gap
    BY <1>2, <2>5, <2>8, <2>10, SplicedPieces
  <2> QED BY <1>4, <2>9, <2>11, HunksAreEach DEF Written
<1> QED BY <1>3, <1>4, <1>5, <1>6 DEF Passing

\* The elements in the order of their keys.
Increasing(f, n, T, key) ==
    /\ f \in [1..n -> T]
    /\ \A i, j \in 1..n : i < j => key[f[i]] < key[f[j]]

\* The first elements in that order.
FirstElements(f, n, U, T, key) ==
    /\ U \subseteq T /\ IsFiniteSet(U) /\ Cardinality(U) = n
    /\ Increasing(f, n, U, key)
    /\ \A p \in U, q \in T \ U : key[p] < key[q]

\* One more element, the least of those left.
LEMMA NextElement ==
    ASSUME NEW T, IsFiniteSet(T), NEW key, key \in [T -> Nat],
           \A p, q \in T : key[p] = key[q] => p = q,
           NEW n, n \in Nat, n < Cardinality(T), NEW f, NEW U, FirstElements(f, n, U, T, key)
    PROVE  \E g, V : FirstElements(g, n + 1, V, T, key)
<1>1. U # T
  <2>1. Cardinality(U) = n /\ Cardinality(T) \in Nat
    BY FS_CardinalityType DEF FirstElements
  <2> QED BY <2>1
<1>2. PICK q \in T \ U : \A r \in T \ U : key[q] <= key[r]
  <2> DEFINE Keys == {key[r] : r \in T \ U}
  <2>1. Keys \subseteq Nat /\ Keys # {}
    BY <1>1 DEF FirstElements
  <2>2. PICK x \in Keys : \A y \in Keys : x <= y
    <3> HIDE DEF Keys
    <3> QED BY <2>1, Least
  <2> QED BY <2>2
<1>3. PICK V : V = U \cup {q}
  OBVIOUS
<1>4. V \subseteq T /\ IsFiniteSet(V) /\ Cardinality(V) = n + 1
  BY <1>2, <1>3, FS_AddElement DEF FirstElements
<1>5. PICK g : g = [i \in 1..(n + 1) |-> IF i = n + 1 THEN q ELSE f[i]]
  OBVIOUS
<1>6. \A i \in 1..(n + 1) : i # n + 1 => i \in 1..n /\ g[i] = f[i] /\ f[i] \in U
  BY <1>5 DEF FirstElements, Increasing
<1>7. g[n + 1] = q /\ n + 1 \in 1..(n + 1)
  BY <1>5
<1>8. Increasing(g, n + 1, V, key)
  <2>1. g \in [1..(n + 1) -> V]
    BY <1>3, <1>5, <1>6
  <2>2. ASSUME NEW i \in 1..(n + 1), NEW j \in 1..(n + 1), i < j
        PROVE  key[g[i]] < key[g[j]]
    <3>1. i # n + 1
      BY <2>2
    <3>2. CASE j = n + 1
      BY <1>2, <1>6, <1>7, <3>1, <3>2 DEF FirstElements
    <3>3. CASE j # n + 1
      BY <1>6, <2>2, <3>1, <3>3 DEF FirstElements, Increasing
    <3> QED BY <3>2, <3>3
  <2> QED BY <2>1, <2>2 DEF Increasing
<1>9. ASSUME NEW p \in V, NEW r \in T \ V PROVE key[p] < key[r]
  <2>1. r \in T \ U /\ r # q /\ key[q] <= key[r] /\ key[q] # key[r]
    BY <1>2, <1>3
  <2>2. key[q] \in Nat /\ key[r] \in Nat
    BY <1>2, <1>3
  <2> QED BY <1>3, <2>1, <2>2 DEF FirstElements
<1>10. FirstElements(g, n + 1, V, T, key)
  BY <1>4, <1>8, <1>9 DEF FirstElements
<1> QED BY <1>10

\* A finite set whose elements have different keys has its elements in their order.
LEMMA InOrderOfKeys ==
    ASSUME NEW T, IsFiniteSet(T), NEW key, key \in [T -> Nat],
           \A p, q \in T : key[p] = key[q] => p = q
    PROVE  \E f : Increasing(f, Cardinality(T), T, key)
<1>1. PICK n : n = Cardinality(T) /\ n \in Nat
  BY FS_CardinalityType
<1> DEFINE P == {k \in 0..n : \E f, U : FirstElements(f, k, U, T, key)}
<1>2. 0 \in P
  <2>1. PICK f : f = [i \in 1..0 |-> {}]
    OBVIOUS
  <2>2. 1..0 = {} /\ f \in [1..0 -> {}]
    BY <2>1
  <2>3. FirstElements(f, 0, {}, T, key)
    BY <2>2, FS_EmptySet DEF FirstElements, Increasing
  <2> QED BY <1>1, <2>3
<1>3. ASSUME NEW k, k \in 0..(n - 1), k \in P PROVE k + 1 \in P
  <2>1. PICK f, U : FirstElements(f, k, U, T, key)
    BY <1>3
  <2>2. k \in Nat /\ k < Cardinality(T) /\ k + 1 \in 0..n
    BY <1>1, <1>3
  <2>3. \E g, V : FirstElements(g, k + 1, V, T, key)
    BY <2>1, <2>2, NextElement
  <2> QED BY <2>2, <2>3
<1> HIDE DEF P
<1>4. \A k \in 0..n : k \in P
  BY <1>1, <1>2, <1>3, Counting
<1>5. n \in P
  BY <1>1, <1>4
<1>6. PICK f, U : FirstElements(f, n, U, T, key)
  BY <1>5 DEF P
<1>7. Increasing(f, n, T, key)
  BY <1>6 DEF FirstElements, Increasing
<1> QED BY <1>1, <1>7

-----------------------------------------------------------------------------
(* The hunks of a diff.                                                     *)

\* A script is a sequence of edits.
IsScript == script \in Seq(Edit)

\* What makes a span of a hunk.
LEMMA SpansType ==
    ASSUME IsScript, NEW p \in HunkSpans
    PROVE  /\ p[1] \in 1..Len(script) /\ p[2] \in 1..Len(script) /\ p[1] <= p[2]
           /\ \A i \in p[1]..p[2] : Shown(i)
           /\ p[1] > 1 => ~ Shown(p[1] - 1)
           /\ p[2] < Len(script) => ~ Shown(p[2] + 1)
           /\ p = <<p[1], p[2]>>
<1>1. DOMAIN script = 1..Len(script)
  BY DEF IsScript
<1> QED BY <1>1 DEF HunkSpans

\* Between two hunks there is a line that neither shows.
LEMMA SpansApart ==
    ASSUME IsScript, NEW p \in HunkSpans, NEW q \in HunkSpans, p[1] <= q[1]
    PROVE  p = q \/ p[2] + 1 < q[1]
<1>1. PICK a, b, c, d : a = p[1] /\ b = p[2] /\ c = q[1] /\ d = q[2]
  OBVIOUS
<1>2. PICK n : n = Len(script) /\ n \in Nat
  BY DEF IsScript
<1>3. /\ a \in 1..n /\ b \in 1..n /\ a <= b /\ \A i \in a..b : Shown(i)
      /\ b < n => ~ Shown(b + 1)
  BY <1>1, <1>2, SpansType
<1>4. /\ c \in 1..n /\ d \in 1..n /\ c <= d /\ \A i \in c..d : Shown(i)
      /\ (c > 1 => ~ Shown(c - 1)) /\ (d < n => ~ Shown(d + 1))
  BY <1>1, <1>2, SpansType
<1>5. CASE a = c
  <2>1. ~ (b < d)
    BY <1>2, <1>3, <1>4, <1>5
  <2>2. ~ (d < b)
    BY <1>2, <1>3, <1>4, <1>5
  <2>3. b = d
    BY <1>2, <1>3, <1>4, <2>1, <2>2
  <2>4. p = <<a, b>> /\ q = <<c, d>>
    BY <1>1, SpansType
  <2> QED BY <1>5, <2>3, <2>4
<1>6. CASE a < c
  <2>1. ~ (c - 1 <= b)
    BY <1>2, <1>3, <1>4, <1>6
  <2> QED BY <1>1, <1>2, <1>3, <1>4, <2>1
<1>7. a <= c /\ a \in Int /\ c \in Int
  BY <1>1, <1>2, <1>3, <1>4
<1> QED BY <1>5, <1>6, <1>7

\* The spans that Diff takes.
SpansInOrder(f) ==
    /\ f \in [1..Cardinality(HunkSpans) -> HunkSpans]
    /\ \A i, j \in 1..Cardinality(HunkSpans) : i < j => f[i][1] < f[j][1]

\* The hunks of a diff are those of its spans, in order.
LEMMA DiffSpans ==
    ASSUME IsScript
    PROVE  /\ IsFiniteSet(HunkSpans)
           /\ \E f : SpansInOrder(f) /\ Diff = [i \in 1..Cardinality(HunkSpans) |-> Hunk(f[i][1], f[i][2])]
<1>1. IsFiniteSet(HunkSpans)
  <2>1. PICK I : I = 1..Len(script)
    OBVIOUS
  <2>2. IsFiniteSet(I)
    <3>1. Len(script) \in Nat
      BY DEF IsScript
    <3>2. 1 \in Int /\ Len(script) \in Int
      BY <3>1
    <3> QED BY <2>1, <3>2, FS_Interval
  <2>3. IsFiniteSet(I \X I)
    BY <2>2, FS_Product
  <2>4. HunkSpans \in SUBSET (I \X I)
    BY <2>1 DEF HunkSpans, IsScript
  <2> QED BY <2>3, <2>4, FS_Subset
<1>2. PICK T : T = HunkSpans
  OBVIOUS
<1>3. PICK key : key = [p \in T |-> p[1]]
  OBVIOUS
<1>4. key \in [T -> Nat] /\ \A p, q \in T : key[p] = key[q] => p = q
  <2>1. ASSUME NEW p \in T PROVE p[1] \in Nat /\ p[2] + 1 > p[1]
    BY <1>2, SpansType
  <2>2. ASSUME NEW p \in T, NEW q \in T, p[1] = q[1] PROVE p = q
    <3>1. p[1] <= q[1] /\ p[1] \in Nat /\ p[2] + 1 > p[1]
      BY <2>1, <2>2
    <3>2. p[2] \in Nat
      BY <1>2, SpansType
    <3> QED BY <1>2, <2>2, <3>1, <3>2, SpansApart
  <2> QED BY <1>3, <2>1, <2>2
<1>5. PICK f : Increasing(f, Cardinality(T), T, key)
  BY <1>1, <1>2, <1>4, InOrderOfKeys
<1>6. SpansInOrder(f)
  BY <1>2, <1>3, <1>5 DEF Increasing, SpansInOrder
<1> DEFINE Ordered(g) == /\ g \in [1..Cardinality(HunkSpans) -> HunkSpans]
                         /\ \A i, j \in DOMAIN g : i < j => g[i][1] < g[j][1]
<1>7. PICK n : n = Cardinality(HunkSpans)
  OBVIOUS
<1>8. \A g : SpansInOrder(g) <=> Ordered(g)
  BY DEF SpansInOrder
<1>9. PICK d : d = CHOOSE g \in [1..Cardinality(HunkSpans) -> HunkSpans] :
                     \A i, j \in DOMAIN g : i < j => g[i][1] < g[j][1]
  OBVIOUS
<1>10. Ordered(d)
  BY <1>6, <1>8, <1>9
<1>11. Diff = [i \in DOMAIN d |-> Hunk(d[i][1], d[i][2])]
  BY <1>9 DEF Diff
<1>12. SpansInOrder(d) /\ DOMAIN d = 1..Cardinality(HunkSpans)
  BY <1>8, <1>10
<1> QED BY <1>1, <1>11, <1>12

\* The first lines of the script, and how many of them are in the old file.
Begin(k) == SubSeq(script, 1, k)
Before(k) == Len(OldSide(Begin(k)))

\* Lines from the k-th to the m-th of the script.
LEMMA ScriptPart ==
    ASSUME IsScript, NEW k, k \in 0..Len(script), NEW m, m \in k..Len(script)
    PROVE  /\ Begin(k) \in Seq(Edit) /\ Begin(m) \in Seq(Edit)
           /\ SubSeq(script, k + 1, m) \in Seq(Edit)
           /\ Begin(m) = Begin(k) \o SubSeq(script, k + 1, m)
<1>1. PICK n : n = Len(script) /\ n \in Nat
  BY DEF IsScript
<1>2. k \in 0..n /\ m \in 0..n /\ k <= m
  BY <1>1
<1>3. \A i \in 0..n : Begin(i) \in Seq(Edit)
  BY <1>1, FirstLines DEF Begin, IsScript
<1>4. SubSeq(script, k + 1, m) \in Seq(Edit)
  <2>1. k + 1 \in Nat /\ k + 1 >= 1 /\ m \in Int /\ m <= Len(script)
    BY <1>1, <1>2
  <2> QED BY <2>1, PartType DEF IsScript
<1>5. SubSeq(script, 1, k) \o SubSeq(script, k + 1, m) = SubSeq(script, 1, m)
  <2>1. 1 \in 1..(Len(script) + 1) /\ k \in (1 - 1)..Len(script) /\ m \in k..Len(script)
    BY <1>1, <1>2
  <2> QED BY <2>1, ConcatAdjacentSubSeq DEF IsScript
<1> QED BY <1>2, <1>3, <1>4, <1>5 DEF Begin

\* The sides of the first lines and of the lines after them.
LEMMA SidesOfPart ==
    ASSUME IsScript, NEW k, k \in 0..Len(script), NEW m, m \in k..Len(script), NEW prefixes
    PROVE  /\ Side(SubSeq(script, k + 1, m), prefixes) \in Seq(Lines)
           /\ Side(Begin(k), prefixes) \in Seq(Lines)
           /\ Side(Begin(m), prefixes)
              = Join(Side(Begin(k), prefixes), Side(SubSeq(script, k + 1, m), prefixes))
<1>1. PICK s, t : s = Begin(k) /\ t = SubSeq(script, k + 1, m)
  OBVIOUS
<1>2. s \in Seq(Edit) /\ t \in Seq(Edit) /\ Begin(m) = s \o t
  BY <1>1, ScriptPart
<1>3. Side(s \o t, prefixes) = Join(Side(s, prefixes), Side(t, prefixes))
  BY <1>2, SideConcat DEF Join
<1>4. Side(s, prefixes) \in Seq(Lines) /\ Side(t, prefixes) \in Seq(Lines)
  BY <1>2, SideType
<1> QED BY <1>1, <1>2, <1>3, <1>4

\* The length of two sequences, one after the other.
LEMMA JoinLength ==
    ASSUME NEW T, NEW s, NEW t, s \in Seq(T), t \in Seq(T)
    PROVE  Len(Join(s, t)) = Len(s) + Len(t) /\ Len(s) \in Nat /\ Len(t) \in Nat
BY ConcatProperties, LenProperties DEF Join

\* How many old lines there are before a line of the script.
LEMMA BeforeGrows ==
    ASSUME IsScript, NEW k, k \in 0..Len(script), NEW m, m \in k..Len(script)
    PROVE  /\ Before(k) \in Nat /\ Before(m) \in Nat
           /\ Len(OldSide(SubSeq(script, k + 1, m))) \in Nat
           /\ Before(m) = Before(k) + Len(OldSide(SubSeq(script, k + 1, m)))
<1>1. PICK a, b : a = OldSide(Begin(k)) /\ b = OldSide(SubSeq(script, k + 1, m))
  OBVIOUS
<1>2. a \in Seq(Lines) /\ b \in Seq(Lines) /\ OldSide(Begin(m)) = Join(a, b)
  BY <1>1, SidesOfPart DEF OldSide
<1>3. Len(Join(a, b)) = Len(a) + Len(b) /\ Len(a) \in Nat /\ Len(b) \in Nat
  BY <1>2, JoinLength
<1> QED BY <1>1, <1>2, <1>3 DEF Before

\* One line of the script is in the old file or is added.
LEMMA BeforeNext ==
    ASSUME IsScript, NEW k, k \in 1..Len(script)
    PROVE  /\ Before(k - 1) \in Nat
           /\ script[k] \in Edit
           /\ Before(k) = IF script[k].prefix = "+" THEN Before(k - 1) ELSE Before(k - 1) + 1
<1>1. PICK n : n = Len(script) /\ n \in Nat
  BY DEF IsScript
<1>2. k - 1 \in 0..n /\ k \in 0..n /\ k \in (k - 1)..n /\ k \in 1..n /\ k \in Int
  BY <1>1
<1>3. PICK s, line : s = Begin(k - 1) /\ line = script[k]
  OBVIOUS
<1>4. s \in Seq(Edit) /\ line \in Edit /\ Begin(k) = Append(s, line)
  BY <1>1, <1>2, <1>3, FirstLines, ElementOfSeq DEF IsScript, Begin
<1>5. OldSide(Append(s, line)) = Longer(OldSide(s), line, {" ", "-"})
  BY <1>4, SideAppend DEF OldSide
<1>6. PICK old : old = OldSide(s) /\ old \in Seq(Lines)
  BY <1>4, SideType DEF OldSide
<1>7. line.prefix \in {" ", "-", "+"} /\ line.text \in Lines
  BY <1>4 DEF Edit
<1>8. Len(Append(old, line.text)) = Len(old) + 1 /\ Len(old) \in Nat
  BY <1>6, <1>7, AppendProperties, LenProperties
<1>9. Len(Longer(old, line, {" ", "-"})) = IF line.prefix = "+" THEN Len(old) ELSE Len(old) + 1
  BY <1>7, <1>8 DEF Longer
<1> QED BY <1>3, <1>4, <1>5, <1>6, <1>8, <1>9 DEF Before

\* The hunk of a span.
LEMMA HunkOfSpan ==
    ASSUME IsScript, NEW p, p \in HunkSpans, NEW hunk, hunk = Hunk(p[1], p[2])
    PROVE  /\ hunk \in HunkType
           /\ hunk.body = SubSeq(script, p[1], p[2])
           /\ Len(OldSide(hunk.body)) \in Nat
           /\ Before(p[1] - 1) \in Nat
           /\ Before(p[2]) = Before(p[1] - 1) + Len(OldSide(hunk.body))
           /\ hunk.start = IF OldSide(hunk.body) = << >> THEN Before(p[1] - 1) ELSE Before(p[1] - 1) + 1
           /\ OldSide(hunk.body) = << >> => p[1] = 1 /\ Before(p[1] - 1) = 0
<1>1. PICK a, b : a = p[1] /\ b = p[2]
  OBVIOUS
<1>2. PICK n : n = Len(script) /\ n \in Nat
  BY DEF IsScript
<1>3. a \in 1..n /\ b \in 1..n /\ a <= b /\ (a > 1 => ~ Shown(a - 1))
  BY <1>1, <1>2, SpansType
<1>4. a - 1 \in 0..n /\ b \in (a - 1)..n /\ (a - 1) + 1 = a
  BY <1>2, <1>3
<1>5. PICK body : body = SubSeq(script, a, b)
  OBVIOUS
<1>6. body \in Seq(Edit)
  BY <1>2, <1>4, <1>5, ScriptPart
<1>7. /\ Before(a - 1) \in Nat /\ Len(OldSide(body)) \in Nat
      /\ Before(b) = Before(a - 1) + Len(OldSide(body))
  BY <1>2, <1>4, <1>5, BeforeGrows
<1>8. hunk = [start |-> IF OldSide(body) = << >> THEN Before(a - 1) ELSE Before(a - 1) + 1, body |-> body]
  BY <1>1, <1>5 DEF Hunk, Before, Begin
<1>9. hunk.body = body /\ hunk \in HunkType
      /\ hunk.start = IF OldSide(body) = << >> THEN Before(a - 1) ELSE Before(a - 1) + 1
  BY <1>6, <1>7, <1>8 DEF HunkType
<1>10. ASSUME OldSide(body) = << >> PROVE a = 1 /\ Before(a - 1) = 0
  <2>1. Before(b) = Before(a - 1)
    <3>1. Len(OldSide(body)) = 0
      BY <1>10
    <3> QED BY <1>7, <3>1
  <2>2. Before(a) <= Before(b) /\ Before(a) \in Nat
    <3>1. a \in 0..Len(script) /\ b \in a..Len(script)
      BY <1>2, <1>3
    <3>2. Before(a) \in Nat /\ Len(OldSide(SubSeq(script, a + 1, b))) \in Nat
          /\ Before(b) = Before(a) + Len(OldSide(SubSeq(script, a + 1, b)))
      BY <3>1, BeforeGrows
    <3> QED BY <3>2
  <2>3. script[a].prefix = "+"
    <3>1. Before(a) = IF script[a].prefix = "+" THEN Before(a - 1) ELSE Before(a - 1) + 1
      BY <1>2, <1>3, BeforeNext
    <3> QED BY <1>7, <2>1, <2>2, <3>1
  <2>4. a = 1
    <3>1. SUFFICES ASSUME a > 1 PROVE FALSE
      BY <1>3
    <3>2. a \in DOMAIN script
      BY <1>2, <1>3 DEF IsScript
    <3>3. (a - 1) - a <= Context /\ a - (a - 1) <= Context
      BY <1>3, ContextAssumption
    <3>4. Shown(a - 1)
      BY <2>3, <3>2, <3>3 DEF Shown
    <3> QED BY <1>3, <3>1, <3>4
  <2>5. Before(0) = 0
    <3>1. Begin(0) = << >> /\ OldSide(<< >>) = << >> /\ Len(<< >>) = 0
      BY FirstLines, SideOfNone DEF Begin, OldSide, IsScript
    <3> QED BY <3>1 DEF Before
  <2> QED BY <2>4, <2>5
<1> QED BY <1>1, <1>5, <1>7, <1>9, <1>10

\* The hunks of a diff are in order, with a line between them that no hunk shows: there
\* the old file has a line more.
LEMMA DiffInOrder ==
    ASSUME IsScript
    PROVE  /\ Diff \in Seq(HunkType) /\ InOrder(Diff)
           /\ \A i \in 1..Len(Diff) : i > 1 => AfterHunk(Diff, i - 1) < Diff[i].start
<1>1. PICK n : n = Cardinality(HunkSpans) /\ n \in Nat
  BY DiffSpans, FS_CardinalityType
<1>2. PICK f : SpansInOrder(f) /\ Diff = [i \in 1..n |-> Hunk(f[i][1], f[i][2])]
  BY <1>1, DiffSpans
<1>3. PICK hunks : hunks = Diff
  OBVIOUS
<1>4. ASSUME NEW i, i \in 1..n
      PROVE  f[i] \in HunkSpans /\ hunks[i] = Hunk(f[i][1], f[i][2]) /\ hunks[i] \in HunkType
  <2>1. f[i] \in HunkSpans
    BY <1>1, <1>2, <1>4 DEF SpansInOrder
  <2>2. hunks[i] = Hunk(f[i][1], f[i][2])
    BY <1>2, <1>3, <1>4
  <2> QED BY <2>1, <2>2, HunkOfSpan
<1>5. hunks \in Seq(HunkType) /\ Len(hunks) = n
  <2>1. hunks \in [1..n -> HunkType]
    BY <1>2, <1>3, <1>4
  <2>2. hunks \in Seq(HunkType)
    BY <1>1, <2>1
  <2>3. DOMAIN hunks = 1..n /\ DOMAIN hunks = 1..Len(hunks) /\ Len(hunks) \in Nat
    BY <2>1, <2>2, LenProperties
  <2> QED BY <1>1, <2>2, <2>3
<1>6. \A i \in 1..n : Numbered(hunks[i])
  <2> TAKE i \in 1..n
  <2>1. PICK p, hunk : p = f[i] /\ hunk = hunks[i]
    OBVIOUS
  <2>2. p \in HunkSpans /\ hunk = Hunk(p[1], p[2])
    BY <1>4, <2>1
  <2>3. OldSide(hunk.body) = << >> => hunk.start = 0
    BY <2>2, HunkOfSpan
  <2> QED BY <2>1, <2>3 DEF Numbered
<1>7. ASSUME NEW i, i \in 1..n, i > 1 PROVE AfterHunk(hunks, i - 1) < hunks[i].start
  <2>1. i - 1 \in 1..n /\ i - 1 # 0 /\ i - 1 < i
    BY <1>1, <1>7
  <2>2. PICK p, q : p = f[i - 1] /\ q = f[i]
    OBVIOUS
  <2>3. p \in HunkSpans /\ q \in HunkSpans
    BY <1>4, <1>7, <2>1, <2>2
  <2>4. p[1] < q[1]
    BY <1>1, <1>2, <1>7, <2>1, <2>2 DEF SpansInOrder
  <2>5. PICK a, b, c, d : a = p[1] /\ b = p[2] /\ c = q[1] /\ d = q[2]
    OBVIOUS
  <2>6. PICK m : m = Len(script) /\ m \in Nat
    BY DEF IsScript
  <2>7. /\ a \in 1..m /\ b \in 1..m /\ a <= b /\ c \in 1..m /\ d \in 1..m /\ c <= d
        /\ (b < m => ~ Shown(b + 1))
    BY <2>3, <2>5, <2>6, SpansType
  <2>8. b + 1 < c
    BY <2>3, <2>4, <2>5, <2>7, SpansApart
  <2>9. script[b + 1].prefix = " "
    <3>1. b + 1 \in DOMAIN script /\ ~ Shown(b + 1)
      BY <2>6, <2>7, <2>8 DEF IsScript
    <3>2. (b + 1) - (b + 1) <= Context
      BY <2>7, ContextAssumption
    <3> QED BY <3>1, <3>2 DEF Shown
  <2>10. Before(b + 1) = Before(b) + 1 /\ Before(b) \in Nat
    <3>1. b + 1 \in 1..Len(script) /\ (b + 1) - 1 = b
      BY <2>6, <2>7, <2>8
    <3>2. PICK k : k = b + 1 /\ k - 1 = b
      BY <3>1
    <3>3. /\ Before(k - 1) \in Nat
          /\ Before(k) = IF script[k].prefix = "+" THEN Before(k - 1) ELSE Before(k - 1) + 1
      BY <3>1, <3>2, BeforeNext
    <3> QED BY <2>9, <3>2, <3>3
  <2>11. Before(b) + 1 <= Before(c - 1)
    <3>1. PICK k, l : k = b + 1 /\ l = c - 1
      OBVIOUS
    <3>2. k \in 0..Len(script) /\ l \in k..Len(script)
      BY <2>6, <2>7, <2>8, <3>1
    <3>3. /\ Before(k) \in Nat /\ Len(OldSide(SubSeq(script, k + 1, l))) \in Nat
          /\ Before(l) = Before(k) + Len(OldSide(SubSeq(script, k + 1, l)))
      BY <3>2, BeforeGrows
    <3>4. Before(k) <= Before(l)
      BY <3>3
    <3> QED BY <2>10, <3>1, <3>4
  <2>12. PICK g, h : g = hunks[i - 1] /\ h = hunks[i]
    OBVIOUS
  <2>13. g = Hunk(p[1], p[2]) /\ h = Hunk(q[1], q[2])
    BY <1>4, <1>7, <2>1, <2>2, <2>12
  <2>14. h.start = Before(c - 1) + 1 /\ Before(c - 1) \in Nat
    <3>1. c # 1
      BY <2>4, <2>5, <2>7
    <3> QED BY <2>3, <2>5, <2>13, <3>1, HunkOfSpan
  <2>15. PICK len : len = Len(OldSide(g.body))
    OBVIOUS
  <2>16. g.start + len <= Before(b) + 1
    <3>1. len \in Nat /\ Before(a - 1) \in Nat /\ Before(b) = Before(a - 1) + len
      BY <2>3, <2>5, <2>13, <2>15, HunkOfSpan
    <3>2. g.start = Before(a - 1) \/ g.start = Before(a - 1) + 1
      BY <2>3, <2>5, <2>13, HunkOfSpan
    <3> QED BY <3>1, <3>2
  <2>17. AfterHunk(hunks, i - 1) = g.start + len
    BY <2>1, <2>12, <2>15 DEF AfterHunk
  <2>18. g.start \in Nat /\ len \in Nat
    BY <2>3, <2>13, <2>15, HunkOfSpan DEF HunkType
  <2> QED BY <2>10, <2>11, <2>12, <2>14, <2>16, <2>17, <2>18
<1>8. ASSUME NEW i, i \in 1..n, i > 1 PROVE AfterHunk(hunks, i - 1) <= hunks[i].start
  <2>1. i - 1 \in 0..Len(hunks)
    BY <1>1, <1>5, <1>8
  <2>2. AfterHunk(hunks, i - 1) \in Nat
    BY <1>5, <2>1, AfterIsNat
  <2>3. hunks[i].start \in Nat
    BY <1>4, <1>8 DEF HunkType
  <2> QED BY <1>7, <1>8, <2>2, <2>3
<1>9. InOrder(hunks)
  BY <1>5, <1>6, <1>8 DEF InOrder
<1> QED BY <1>3, <1>5, <1>7, <1>9

\* The script is always a sequence of edits.
LEMMA ScriptsAreScripts == DiffSpec => []IsScript
<1>1. DiffInit => IsScript
  BY DEF DiffInit, IsScript
<1>2. IsScript /\ [DiffNext]_script => IsScript'
  <2>1. ASSUME IsScript, DiffNext PROVE IsScript'
    <3>1. PICK prefix \in {" ", "-", "+"}, text \in Lines :
            script' = Append(script, [prefix |-> prefix, text |-> text])
      BY <2>1 DEF DiffNext
    <3>2. PICK line : line = [prefix |-> prefix, text |-> text]
      OBVIOUS
    <3>3. line \in Edit
      BY <3>2 DEF Edit
    <3>4. Append(script, line) \in Seq(Edit)
      BY <2>1, <3>3, AppendProperties DEF IsScript
    <3> QED BY <3>1, <3>2, <3>4 DEF IsScript
  <2>2. CASE UNCHANGED script
    BY <2>2 DEF IsScript
  <2> QED BY <2>1, <2>2
<1> QED BY <1>1, <1>2, PTL DEF DiffSpec

-----------------------------------------------------------------------------
(* Diffs of one file.                                                       *)

\* What is done to the files by the diff of no file, and of one.
NothingDone(files) == [files |-> files, error |-> "none"]

\* The function that applies the first files of a diff.
DoneTo(iter, files, diff, dashed, plussed) ==
    iter = [s \in SUBSET DOMAIN Parsed(diff) |->
              IF s = {} THEN NothingDone(files)
              ELSE ReadAndApply(iter[s \ {Max(s)}], Parsed(diff)[Max(s)], dashed, plussed)]

\* A diff is applied file by file.
LEMMA UnifiedDiffFold ==
    ASSUME NEW files, NEW diff, NEW dashed, NEW plussed
    PROVE  ApplyUnifiedDiff(files, diff, dashed, plussed)
           = (CHOOSE iter : DoneTo(iter, files, diff, dashed, plussed))[DOMAIN Parsed(diff)]
BY Zenon DEF ApplyUnifiedDiff, DoneTo, NothingDone, FoldLeft, MapThenFoldSet

\* A diff of no file does nothing, and one of one file what that file's part does.
LEMMA DiffOfNone ==
    ASSUME NEW files, NEW dashed, NEW plussed
    PROVE  ApplyUnifiedDiff(files, << >>, dashed, plussed) = NothingDone(files)
<1>1. DOMAIN Parsed(<< >>) = {}
  BY DEF Parsed
<1>2. PICK g : g = [s \in SUBSET {} |-> NothingDone(files)]
  OBVIOUS
<1>3. \A s \in SUBSET {} : s = {}
  OBVIOUS
<1>4. DoneTo(g, files, << >>, dashed, plussed)
  BY <1>1, <1>2, <1>3 DEF DoneTo
<1>5. PICK iter : /\ DoneTo(iter, files, << >>, dashed, plussed)
                  /\ ApplyUnifiedDiff(files, << >>, dashed, plussed) = iter[{}]
  BY <1>1, <1>4, UnifiedDiffFold
<1> QED BY <1>1, <1>5 DEF DoneTo

LEMMA DiffOfOne ==
    ASSUME NEW files, NEW file, NEW dashed, NEW plussed
    PROVE  ApplyUnifiedDiff(files, <<file>>, dashed, plussed)
           = ReadAndApply(NothingDone(files), file, dashed, plussed)
<1>1. PICK diff : diff = <<file>>
  OBVIOUS
<1>2. DOMAIN Parsed(diff) = {1} /\ Parsed(diff)[1] = file
  <2>1. DOMAIN diff = {1} /\ Len(diff) = 1 /\ diff[1] = file
    BY <1>1
  <2> QED BY <2>1 DEF Parsed
<1>3. PICK after : after = ReadAndApply(NothingDone(files), file, dashed, plussed)
  OBVIOUS
<1>4. \A s \in SUBSET {1} : s = {} \/ s = {1}
  OBVIOUS
<1>5. Max({1}) = 1 /\ {1} \ {1} = {}
  <2>1. Max(1..1) = 1 /\ 1..1 = {1}
    BY MaxOfFirst
  <2> QED BY <2>1
<1>6. PICK g : g = [s \in SUBSET {1} |-> IF s = {} THEN NothingDone(files) ELSE after]
  OBVIOUS
<1>7. ASSUME NEW s \in SUBSET {1}, s # {}
      PROVE  ReadAndApply(g[s \ {Max(s)}], Parsed(diff)[Max(s)], dashed, plussed) = after
  <2>1. s = {1}
    BY <1>4, <1>7
  <2>2. g[{}] = NothingDone(files)
    BY <1>6
  <2> QED BY <1>2, <1>3, <1>5, <2>1, <2>2
<1>8. DoneTo(g, files, diff, dashed, plussed)
  BY <1>2, <1>6, <1>7 DEF DoneTo
<1>9. PICK iter : /\ DoneTo(iter, files, diff, dashed, plussed)
                  /\ ApplyUnifiedDiff(files, diff, dashed, plussed) = iter[{1}]
  BY <1>2, <1>8, UnifiedDiffFold
<1>10. iter[{}] = NothingDone(files)
  BY <1>2, <1>9 DEF DoneTo
<1>11. {1} \in SUBSET DOMAIN Parsed(diff) /\ {1} # {}
  BY <1>2
<1>12. iter[{1}] = ReadAndApply(iter[{1} \ {Max({1})}], Parsed(diff)[Max({1})], dashed, plussed)
  BY <1>9, <1>11 DEF DoneTo
<1> QED BY <1>1, <1>2, <1>3, <1>5, <1>9, <1>10, <1>12

\* The function that applies the first of the files that are read.
AppliedTo(iter, done, read) ==
    iter = [s \in SUBSET DOMAIN read |->
              IF s = {} THEN done ELSE ApplyFile(iter[s \ {Max(s)}], read[Max(s)])]

\* When one file is read, that file is applied.
LEMMA ReadOfOne ==
    ASSUME NEW done, NEW read, DOMAIN read = {1}
    PROVE  FoldLeft(ApplyFile, done, read) = ApplyFile(done, read[1])
<1>1. FoldLeft(ApplyFile, done, read) = (CHOOSE iter : AppliedTo(iter, done, read))[DOMAIN read]
  BY Zenon DEF AppliedTo, FoldLeft, MapThenFoldSet
<1>2. PICK after : after = ApplyFile(done, read[1])
  OBVIOUS
<1>3. \A s \in SUBSET {1} : s = {} \/ s = {1}
  OBVIOUS
<1>4. Max({1}) = 1 /\ {1} \ {1} = {}
  <2>1. 1 \in Nat /\ 1 > 0 /\ 1..1 = {1}
    OBVIOUS
  <2>2. Max(1..1) = 1
    BY <2>1, MaxOfFirst
  <2> QED BY <2>1, <2>2
<1>5. PICK g : g = [s \in SUBSET {1} |-> IF s = {} THEN done ELSE after]
  OBVIOUS
<1>6. ASSUME NEW s \in SUBSET {1}, s # {}
      PROVE  ApplyFile(g[s \ {Max(s)}], read[Max(s)]) = after
  <2>1. s = {1}
    BY <1>3, <1>6
  <2>2. g[{}] = done
    BY <1>5
  <2> QED BY <1>2, <1>4, <2>1, <2>2
<1>7. AppliedTo(g, done, read)
  BY <1>5, <1>6 DEF AppliedTo
<1>8. PICK iter : AppliedTo(iter, done, read) /\ FoldLeft(ApplyFile, done, read) = iter[{1}]
  BY <1>1, <1>7
<1>9. iter[{}] = done
  BY <1>8 DEF AppliedTo
<1>10. {1} \in SUBSET DOMAIN read /\ {1} # {}
  OBVIOUS
<1>11. iter[{1}] = ApplyFile(iter[{1} \ {Max({1})}], read[Max({1})])
  BY <1>8, <1>10 DEF AppliedTo
<1> QED BY <1>2, <1>4, <1>8, <1>9, <1>11

\* The lines of the hunks that read "--- ".
LEMMA DashesAre ==
    ASSUME NEW hunks, NEW dashed, NEW at
    PROVE  at \in Dashes(hunks, dashed) <=>
             \E i \in DOMAIN hunks : \E j \in DOMAIN hunks[i].body :
                 /\ at = <<i, j>>
                 /\ hunks[i].body[j].prefix = "-" /\ hunks[i].body[j].text \in dashed
BY DEF Dashes

\* Up to the line after the last, the hunks are all there.
LEMMA HunksUpToEnd ==
    ASSUME NEW hunks, hunks \in Seq(HunkType), hunks # << >>
    PROVE  HunksUpTo(hunks, 0, <<Len(hunks), Len(Last(hunks).body) + 1>>) = hunks
<1>1. PICK n : n = Len(hunks) /\ n \in Nat /\ n >= 1 /\ DOMAIN hunks = 1..n
  BY LenProperties, EmptySeq
<1>2. PICK body : body = hunks[n].body
  OBVIOUS
<1>3. \A i \in 1..n : hunks[i] \in HunkType
  BY <1>1, ElementOfSeq
<1>4. n \in 1..n /\ n - 0 = n /\ \A i \in 1..n : 0 + i = i
  BY <1>1
<1>5. body \in Seq(Edit) /\ Len(body) \in Nat /\ Len(body) + 1 - 1 = Len(body)
  BY <1>2, <1>3, <1>4, LenProperties DEF HunkType
<1>6. SubSeq(body, 1, Len(body)) = body
  BY <1>5
<1>7. Last(hunks).body = body
  BY <1>1, <1>2 DEF Last
<1>8. [hunks[n] EXCEPT !.body = SubSeq(@, 1, Len(body) + 1 - 1)] = hunks[n]
  BY <1>2, <1>3, <1>4, <1>5, <1>6 DEF HunkType
<1>9. PICK to : to = <<n, Len(body) + 1>>
  OBVIOUS
<1>10. HunksUpTo(hunks, 0, to) = [i \in 1..n |-> hunks[i]]
  <2>1. to[1] = n /\ to[2] = Len(body) + 1
    BY <1>9
  <2>2. [hunks[n] EXCEPT !.body = SubSeq(@, 1, to[2] - 1)] = hunks[n]
    BY <1>8, <2>1
  <2>3. ASSUME NEW i \in 1..n
        PROVE  (IF 0 + i = to[1] THEN [hunks[0 + i] EXCEPT !.body = SubSeq(@, 1, to[2] - 1)]
                ELSE hunks[0 + i]) = hunks[i]
    <3>1. 0 + i = i
      BY <1>4, <2>3
    <3>2. CASE i = n
      <4>1. 0 + i = n /\ to[1] = n
        BY <2>1, <3>1, <3>2
      <4> QED BY <2>2, <3>2, <4>1, Zenon
    <3>3. CASE i # n
      <4>1. 0 + i # to[1]
        BY <2>1, <3>1, <3>3, Zenon
      <4> QED BY <3>1, <4>1, Zenon
    <3> QED BY <3>2, <3>3
  <2> QED BY <1>4, <2>1, <2>3 DEF HunksUpTo
<1>11. hunks = [i \in 1..n |-> hunks[i]]
  BY <1>1
<1> QED BY <1>1, <1>7, <1>9, <1>10, <1>11

\* A diff with no line that reads "--- " in a hunk is read as its one file.
LEMMA ReadWithoutDashes ==
    ASSUME NEW hunks, hunks \in Seq(HunkType), hunks # << >>, NEW a, NEW b,
           NEW dashed, NEW plussed, Dashes(hunks, dashed) = {}, NEW done
    PROVE  ReadAndApply(done, [old |-> a, new |-> b, hunks |-> hunks], dashed, plussed)
           = ApplyFile(done, [old |-> a, new |-> b, hunks |-> hunks])
<1>1. PICK file : file = [old |-> a, new |-> b, hunks |-> hunks]
  OBVIOUS
<1>2. file.hunks = hunks /\ [file EXCEPT !.hunks = hunks] = file
  BY <1>1
<1>3. PICK order : order = DashOrder(hunks, dashed)
  OBVIOUS
<1>4. PICK end : end = <<Len(hunks), Len(Last(hunks).body) + 1>>
  OBVIOUS
<1>5. PICK ends, headers : ends = Append(order, end) /\ headers = Headers(hunks, order, plussed)
  OBVIOUS
<1>6. FilesRead(file, dashed, plussed)
      = [k \in 1..(Cardinality(headers) + 1) |-> FileRead(file, ends, k)]
  BY <1>2, <1>3, <1>4, <1>5 DEF FilesRead
<1>7. Cardinality({}) = 0 /\ 1..0 = {}
  BY FS_EmptySet
<1>8. order \in [{} -> {}]
  <2>1. PICK none : none = [x \in {} |-> x]
    OBVIOUS
  <2>2. none \in [{} -> {}] /\ DOMAIN none = {}
    BY <2>1
  <2> QED BY <1>3, <1>7, <2>2 DEF DashOrder
<1>9. DOMAIN order = {} /\ headers = {}
  BY <1>5, <1>8 DEF Headers
<1>10. PICK count : count = Cardinality(headers) + 1 /\ 1..count = {1}
  <2>1. Cardinality(headers) + 1 = 1
    BY <1>7, <1>9
  <2>2. 1..1 = {1}
    OBVIOUS
  <2> QED BY <2>1, <2>2
<1>11. ends[1] = end
  <2>1. order \in Seq({}) /\ Len(order) = 0
    <3>1. order \in [1..0 -> {}] /\ 0 \in Nat
      BY <1>7, <1>8
    <3> QED BY <3>1
  <2>2. Append(order, end)[1] = end
    BY <2>1
  <2> QED BY <1>5, <2>2
<1>12. FileRead(file, ends, 1) = file
  <2>1. HunksUpTo(hunks, 0, end) = hunks
    BY <1>4, HunksUpToEnd
  <2> QED BY <1>2, <1>11, <2>1 DEF FileRead
<1>13. PICK read : read = FilesRead(file, dashed, plussed)
  OBVIOUS
<1>14. DOMAIN read = {1} /\ read[1] = file
  <2>1. read = [k \in {1} |-> FileRead(file, ends, k)]
    BY <1>6, <1>10, <1>13
  <2> QED BY <1>12, <2>1
<1>15. FoldLeft(ApplyFile, done, FilesRead(file, dashed, plussed)) = ApplyFile(done, file)
  BY <1>13, <1>14, ReadOfOne
<1>16. ~ \E at \in Dashes(file.hunks, dashed) : ~IsHeader(file.hunks, at, plussed)
  BY <1>2
<1> QED BY <1>1, <1>15, <1>16, Zenon DEF ReadAndApply

\* A header without its second line makes an error.
LEMMA BadHeaderIsRefused ==
    ASSUME NEW done, NEW file, NEW dashed, NEW plussed,
           NEW at \in Dashes(file.hunks, dashed), ~IsHeader(file.hunks, at, plussed)
    PROVE  ReadAndApply(done, file, dashed, plussed).error # "none"
<1>1. PICK applied : applied = FoldLeft(ApplyFile, done, FilesRead(file, dashed, plussed))
  OBVIOUS
<1>2. ReadAndApply(done, file, dashed, plussed)
      = IF applied.error = "none" THEN [error |-> "expected +++ line", files |-> applied.files]
        ELSE applied
  BY <1>1, Zenon DEF ReadAndApply
<1>3. [error |-> "expected +++ line", files |-> applied.files].error # "none"
  OBVIOUS
<1> QED BY <1>2, <1>3

-----------------------------------------------------------------------------
(* Files that are stood in for.                                             *)

\* The old sides of the hunks.
OldSides(hunks) == [i \in 1..Len(hunks) |-> OldSide(hunks[i].body)]

\* The old sides of hunks, one after the other, stand in for a file.
LEMMA OldSidesType ==
    ASSUME NEW hunks, hunks \in Seq(HunkType)
    PROVE  /\ OldSides(hunks) \in Seq(Seq(Lines)) /\ Len(OldSides(hunks)) = Len(hunks)
           /\ OriginalFromHunks(hunks) = FlattenSeq(OldSides(hunks))
<1>1. PICK n : n = Len(hunks) /\ n \in Nat /\ DOMAIN hunks = 1..n
  BY LenProperties
<1>2. ASSUME NEW i, i \in 1..n PROVE OldSide(hunks[i].body) \in Seq(Lines)
  <2>1. PICK body : body = hunks[i].body
    OBVIOUS
  <2>2. hunks[i] \in HunkType
    BY <1>1, <1>2, ElementOfSeq
  <2>3. body \in Seq(Edit)
    BY <2>1, <2>2 DEF HunkType
  <2> QED BY <2>1, <2>3, SideType DEF OldSide
<1>3. OldSides(hunks) \in [1..n -> Seq(Lines)]
  BY <1>1, <1>2 DEF OldSides
<1>4. OldSides(hunks) \in Seq(Seq(Lines)) /\ Len(OldSides(hunks)) = n
  BY <1>1, <1>3
<1>5. OriginalFromHunks(hunks) = FlattenSeq(OldSides(hunks))
  BY <1>1 DEF OriginalFromHunks, OldSides
<1> QED BY <1>1, <1>4, <1>5

\* Of hunks that are apart, the last ends so much further down in the file that the
\* lines between them and before the first have room.
LEMMA HunksNeedRoom ==
    ASSUME NEW hunks, hunks \in Seq(HunkType),
           \A i \in 1..Len(hunks) : i > 1 => AfterHunk(hunks, i - 1) < hunks[i].start,
           NEW fs, FlattenFold(OldSides(hunks), Lines, fs)
    PROVE  \A k \in 1..Len(hunks) :
              AfterHunk(hunks, k) >= hunks[1].start + (k - 1) + Len(fs[k])
<1>1. PICK n : n = Len(hunks) /\ n \in Nat
  BY LenProperties
<1>2. PICK start : start = hunks[1].start
  OBVIOUS
<1> DEFINE P == {k \in 0..n : k # 0 => AfterHunk(hunks, k) >= start + (k - 1) + Len(fs[k])}
<1>3. ASSUME NEW k, k \in 1..n
      PROVE  /\ Len(fs[k]) = Len(fs[k - 1]) + Len(OldSide(hunks[k].body))
             /\ Len(fs[k - 1]) \in Nat /\ Len(OldSide(hunks[k].body)) \in Nat
             /\ hunks[k].start \in Nat
  <2>1. PICK s, t, body : s = fs[k - 1] /\ t = OldSide(body) /\ body = hunks[k].body
    OBVIOUS
  <2>2. k - 1 \in 0..n /\ Len(OldSides(hunks)) = n
    BY <1>1, <1>3, OldSidesType
  <2>3. hunks[k] \in HunkType
    BY <1>1, <1>3, ElementOfSeq
  <2>4. body \in Seq(Edit) /\ hunks[k].start \in Nat
    BY <2>1, <2>3 DEF HunkType
  <2>5. t \in Seq(Lines)
    BY <2>1, <2>4, SideType DEF OldSide
  <2>6. s \in Seq(Lines)
    BY <2>1, <2>2 DEF FlattenFold
  <2>7. fs[k] = Join(s, t)
    BY <1>1, <1>3, <2>1, <2>2 DEF FlattenFold, OldSides
  <2>8. Len(Join(s, t)) = Len(s) + Len(t) /\ Len(s) \in Nat /\ Len(t) \in Nat
    BY <2>5, <2>6, JoinLength
  <2> QED BY <2>1, <2>4, <2>7, <2>8
<1>4. 0 \in P
  BY <1>1
<1>5. ASSUME NEW k, k \in 0..(n - 1), k \in P PROVE k + 1 \in P
  <2>1. PICK m : m = k + 1
    OBVIOUS
  <2>2. m \in 1..n /\ m \in 0..n /\ m # 0 /\ m - 1 = k
    BY <1>1, <1>5, <2>1
  <2>3. PICK len, before, here :
           len = Len(OldSide(hunks[m].body)) /\ before = Len(fs[k]) /\ here = hunks[m].start
    OBVIOUS
  <2>4. Len(fs[m]) = before + len /\ before \in Nat /\ len \in Nat /\ here \in Nat
    BY <1>3, <2>2, <2>3
  <2>5. AfterHunk(hunks, m) = here + len
    BY <2>2, <2>3 DEF AfterHunk
  <2>6. start \in Nat /\ m \in Nat
    <3>1. 1 \in 1..Len(hunks)
      BY <1>1, <2>2
    <3>2. hunks[1] \in HunkType
      BY <3>1, ElementOfSeq
    <3> QED BY <1>1, <1>2, <2>2, <3>2 DEF HunkType
  <2>7. here >= start + (m - 1) + before
    <3>1. CASE k = 0
      <4>1. fs[0] = << >>
        BY DEF FlattenFold
      <4>2. before = 0 /\ m = 1
        BY <2>1, <2>3, <3>1, <4>1
      <4>3. here = start
        BY <1>2, <2>3, <4>2
      <4> QED BY <2>4, <4>2, <4>3
    <3>2. CASE k # 0
      <4>1. AfterHunk(hunks, k) >= start + (k - 1) + before
        BY <1>5, <2>3, <3>2
      <4>2. AfterHunk(hunks, k) < here
        BY <1>1, <2>2, <2>3, <3>2
      <4>3. AfterHunk(hunks, k) \in Nat
        BY <1>1, <1>5, AfterIsNat
      <4>4. k \in Nat
        BY <1>1, <1>5
      <4> QED BY <2>2, <2>4, <2>6, <4>1, <4>2, <4>3, <4>4
    <3> QED BY <3>1, <3>2
  <2>8. AfterHunk(hunks, m) >= start + (m - 1) + Len(fs[m])
    BY <2>4, <2>5, <2>6, <2>7
  <2> QED BY <2>1, <2>2, <2>8
<1> HIDE DEF P
<1>6. \A k \in 0..n : k \in P
  BY <1>1, <1>4, <1>5, Counting
<1>7. \A k \in 1..n : k \in P /\ k # 0
  BY <1>6
<1> QED BY <1>1, <1>2, <1>7 DEF P

\* What the code makes of hunks and the file that it makes up of their old sides.
LEMMA StandIn ==
    ASSUME NEW hunks, hunks \in Seq(HunkType), hunks # << >>, InOrder(hunks),
           \A i \in 1..Len(hunks) : i > 1 => AfterHunk(hunks, i - 1) < hunks[i].start,
           NEW file, file = OriginalFromHunks(hunks)
    PROVE  /\ file \in Seq(Lines)
           /\ Fits(file, hunks) <=> Len(hunks) = 1 /\ hunks[1].start = 1
           /\ Fits(file, hunks) => Spliced(file, hunks) = NewSide(hunks[1].body)
<1>1. PICK n : n = Len(hunks) /\ n \in Nat /\ n >= 1
  BY EmptySeq
<1>2. PICK seqs : seqs = OldSides(hunks) /\ Len(seqs) = n /\ seqs \in Seq(Seq(Lines))
  BY <1>1, OldSidesType
<1>3. PICK fs : FlattenFold(seqs, Lines, fs)
  BY <1>2, FlattenStates
<1>4. file = fs[n] /\ file \in Seq(Lines)
  <2>1. file = FlattenSeq(seqs)
    BY <1>2, OldSidesType
  <2>2. n \in 0..n
    BY <1>1
  <2> QED BY <1>2, <1>3, <2>1, <2>2 DEF FlattenFold
<1>5. PICK body, start : body = hunks[1].body /\ start = hunks[1].start
  OBVIOUS
<1>6. body \in Seq(Edit) /\ start \in Nat
  <2>1. 1 \in 1..Len(hunks)
    BY <1>1
  <2>2. hunks[1] \in HunkType
    BY <2>1, ElementOfSeq
  <2> QED BY <1>5, <2>2 DEF HunkType
<1>7. PICK old, new : old = OldSide(body) /\ new = NewSide(body)
  OBVIOUS
<1>8. old \in Seq(Lines) /\ new \in Seq(Lines) /\ Len(old) \in Nat
  <2>1. old \in Seq(Lines) /\ new \in Seq(Lines)
    BY <1>6, <1>7, SideType DEF OldSide, NewSide
  <2> QED BY <2>1, LenProperties
<1>9. ASSUME Fits(file, hunks) PROVE n = 1 /\ start = 1
  <2>1. DOMAIN hunks = 1..n /\ n \in 1..n /\ 1 \in 1..n
    BY <1>1
  <2>2. FitsAt(file, hunks[n]) /\ FitsAt(file, hunks[1])
    BY <1>9, <2>1 DEF Fits, FitsAt
  <2>3. PICK last, len : last = hunks[n].start /\ len = Len(OldSide(hunks[n].body))
    OBVIOUS
  <2>4. last - 1 + len <= Len(file) /\ start >= 1
    BY <1>5, <2>2, <2>3 DEF FitsAt
  <2>5. AfterHunk(hunks, n) = last + len /\ AfterHunk(hunks, n) \in Nat
    <3>1. n \in 0..Len(hunks) /\ n # 0
      BY <1>1
    <3> QED BY <2>3, <3>1, AfterIsNat DEF AfterHunk
  <2>6. AfterHunk(hunks, n) >= start + (n - 1) + Len(fs[n])
    <3>1. FlattenFold(OldSides(hunks), Lines, fs)
      BY <1>2, <1>3
    <3>2. \A k \in 1..Len(hunks) : AfterHunk(hunks, k) >= hunks[1].start + (k - 1) + Len(fs[k])
      BY <3>1, HunksNeedRoom
    <3> QED BY <1>1, <1>5, <2>1, <3>2
  <2>7. Len(file) \in Nat /\ last \in Nat /\ len \in Nat
    <3>1. hunks[n] \in HunkType
      BY <1>1, <2>1, ElementOfSeq
    <3>2. PICK b : b = hunks[n].body
      OBVIOUS
    <3>3. b \in Seq(Edit) /\ last \in Nat
      BY <2>3, <3>1, <3>2 DEF HunkType
    <3>4. OldSide(b) \in Seq(Lines)
      BY <3>3, SideType DEF OldSide
    <3> QED BY <1>4, <2>3, <3>2, <3>3, <3>4, LenProperties
  <2>8. PICK room : room = Len(file) /\ room = Len(fs[n])
    BY <1>4
  <2>9. last - 1 + len <= room /\ last + len >= start + (n - 1) + room /\ room \in Nat
    BY <2>4, <2>5, <2>6, <2>7, <2>8
  <2> QED BY <1>1, <1>6, <2>4, <2>7, <2>9
<1>10. ASSUME n = 1, start = 1
       PROVE  Fits(file, hunks) /\ Spliced(file, hunks) = new
  <2>1. file = old
    <3>1. 1 \in 1..Len(seqs) /\ seqs[1] = old /\ 1 - 1 = 0
      BY <1>1, <1>2, <1>5, <1>7, <1>10 DEF OldSides
    <3>2. fs[1] = Join(fs[0], old) /\ fs[0] = << >>
      BY <1>3, <3>1 DEF FlattenFold
    <3>3. Join(<< >>, old) = old
      BY <1>8, ConcatEmptySeq DEF Join
    <3> QED BY <1>4, <1>10, <3>2, <3>3
  <2>2. SubSeq(old, 1, Len(old)) = old
    BY <1>8, SubSeqFull
  <2>3. 1 - 1 + Len(old) = Len(old)
    BY <1>8
  <2>4. DOMAIN hunks = {1}
    <3>1. DOMAIN hunks = 1..Len(hunks) /\ 1..1 = {1}
      BY LenProperties
    <3> QED BY <1>1, <1>10, <3>1
  <2>5. Fits(file, hunks)
    <3>1. FitsAt(file, hunks[1])
      BY <1>5, <1>7, <1>8, <1>10, <2>1, <2>2, <2>3 DEF FitsAt
    <3> QED BY <2>4, <3>1 DEF Fits, FitsAt
  <2>6. PICK pieces : pieces = Pieces(file, hunks)
    OBVIOUS
  <2>7. pieces = <<new>>
    <3>1. SubSeq(file, 1, 0) = << >>
      BY <1>4, FirstLines
    <3>2. Join(<< >>, new) = new
      BY <1>8, ConcatEmptySeq DEF Join
    <3>3. AfterHunk(hunks, 1 - 1) = 1 /\ hunks[1].start - 1 = 0
      BY <1>5, <1>10 DEF AfterHunk
    <3>4. Piece(file, hunks, 1) = new
      BY <1>5, <1>7, <3>1, <3>2, <3>3 DEF Piece
    <3>5. 1..Len(hunks) = {1}
      BY <1>1, <1>10
    <3>6. pieces = [i \in {1} |-> new]
      BY <2>6, <3>4, <3>5 DEF Pieces
    <3> QED BY <3>6
  <2>8. FlattenSeq(pieces) = new
    <3>1. pieces \in Seq(Seq(Lines)) /\ Len(pieces) = 1 /\ pieces[1] = new
      BY <1>8, <2>7
    <3>2. PICK gs : FlattenFold(pieces, Lines, gs)
      BY <3>1, FlattenStates
    <3>3. gs[1] = Join(gs[0], new) /\ gs[0] = << >> /\ gs[1] = FlattenSeq(pieces)
      <4>1. 1 \in 1..Len(pieces) /\ 1 - 1 = 0
        BY <3>1
      <4> QED BY <3>1, <3>2, <4>1 DEF FlattenFold
    <3>4. Join(<< >>, new) = new
      BY <1>8, ConcatEmptySeq DEF Join
    <3> QED BY <3>3, <3>4
  <2>9. SubSeq(file, AfterHunk(hunks, Len(hunks)), Len(file)) = << >>
    <3>1. AfterHunk(hunks, Len(hunks)) = 1 + Len(old)
      BY <1>1, <1>5, <1>7, <1>10 DEF AfterHunk
    <3> QED BY <1>8, <2>1, <3>1, SubSeqEmpty
  <2>10. Spliced(file, hunks) = new
    <3>1. new \o << >> = new
      BY <1>8, ConcatEmptySeq
    <3> QED BY <2>6, <2>8, <2>9, <3>1, SplicedPieces
  <2> QED BY <2>5, <2>10
<1> QED BY <1>1, <1>4, <1>5, <1>7, <1>9, <1>10

-----------------------------------------------------------------------------
(* The file that the diff was made of.                                      *)

\* The lines of a diff are the script's that it shows: each is in a hunk.
LEMMA ShownIsSpanned ==
    ASSUME IsScript, NEW i, i \in 1..Len(script), Shown(i)
    PROVE  \E p \in HunkSpans : p[1] <= i /\ i <= p[2]
<1>1. PICK n : n = Len(script) /\ n \in Nat /\ DOMAIN script = 1..n
  BY LenProperties DEF IsScript
<1>2. i \in 1..n /\ i \in Nat
  BY <1>1
<1> DEFINE Firsts == {a \in 1..i : \A j \in a..i : Shown(j)}
           Lasts == {b \in i..n : \A j \in i..b : Shown(j)}
<1>3. PICK a \in Firsts : \A c \in Firsts : a <= c
  <2>1. i..i = {i}
    BY <1>2
  <2>2. i \in Firsts /\ Firsts \subseteq Nat
    BY <1>2, <2>1
  <2> HIDE DEF Firsts
  <2> QED BY <2>2, Least
<1>4. PICK b \in Lasts : \A c \in Lasts : b >= c
  <2>1. i..i = {i}
    BY <1>2
  <2>2. i \in Lasts /\ Lasts \subseteq 1..n
    BY <1>2, <2>1
  <2> HIDE DEF Lasts
  <2>3. Max(Lasts) \in Lasts /\ \A c \in Lasts : Max(Lasts) >= c
    BY <1>1, <2>2, MaxIsGreatest
  <2> QED BY <2>3
<1>5. a \in 1..n /\ b \in 1..n /\ a <= i /\ i <= b /\ a <= b
  BY <1>1, <1>2, <1>3, <1>4
<1>6. \A j \in a..b : Shown(j)
  <2> TAKE j \in a..b
  <2>1. j \in a..i \/ j \in i..b
    BY <1>2, <1>5
  <2> QED BY <1>3, <1>4, <2>1
<1>7. a > 1 => ~ Shown(a - 1)
  <2>1. SUFFICES ASSUME a > 1, Shown(a - 1) PROVE FALSE
    OBVIOUS
  <2>2. a - 1 \in 1..i /\ \A j \in (a - 1)..i : j = a - 1 \/ j \in a..i
    BY <1>2, <1>5, <2>1
  <2>3. a - 1 \in Firsts
    BY <1>3, <2>1, <2>2
  <2> QED BY <1>3, <1>5, <2>3
<1>8. b < n => ~ Shown(b + 1)
  <2>1. SUFFICES ASSUME b < n, Shown(b + 1) PROVE FALSE
    OBVIOUS
  <2>2. b + 1 \in i..n /\ \A j \in i..(b + 1) : j = b + 1 \/ j \in i..b
    BY <1>1, <1>2, <1>5, <2>1
  <2>3. b + 1 \in Lasts
    BY <1>4, <2>1, <2>2
  <2> QED BY <1>4, <1>5, <2>3
<1>9. PICK p : p = <<a, b>>
  OBVIOUS
<1>10. p \in HunkSpans /\ p[1] = a /\ p[2] = b
  BY <1>1, <1>5, <1>6, <1>7, <1>8, <1>9 DEF HunkSpans
<1> QED BY <1>5, <1>10

\* The diff has the hunks of these spans, all of them, one after the other.
DiffFrom(f) ==
    /\ \A i \in 1..Len(Diff) : f[i] \in HunkSpans /\ Diff[i] = Hunk(f[i][1], f[i][2])
    /\ \A i, j \in 1..Len(Diff) : i < j => f[i][2] + 1 < f[j][1]
    /\ \A p \in HunkSpans : \E i \in 1..Len(Diff) : f[i] = p

\* There are such spans.
LEMMA DiffIsFrom ==
    ASSUME IsScript
    PROVE  \E f : DiffFrom(f)
<1>1. PICK n : n = Cardinality(HunkSpans) /\ n \in Nat
  BY DiffSpans, FS_CardinalityType
<1>2. PICK f : SpansInOrder(f) /\ Diff = [i \in 1..n |-> Hunk(f[i][1], f[i][2])]
  BY <1>1, DiffSpans
<1>3. Len(Diff) = n
  <2>1. DOMAIN Diff = 1..n
    BY <1>2
  <2>2. PICK hunks : hunks = Diff
    OBVIOUS
  <2>3. hunks \in Seq(HunkType)
    BY <2>2, DiffInOrder
  <2>4. DOMAIN hunks = 1..Len(hunks) /\ Len(hunks) \in Nat
    BY <2>3, LenProperties
  <2> QED BY <1>1, <2>1, <2>2, <2>4
<1>4. /\ f \in [1..n -> HunkSpans]
      /\ \A i, j \in 1..n : i < j => f[i][1] < f[j][1]
  BY <1>1, <1>2 DEF SpansInOrder
<1>5. \A i \in 1..n : f[i] \in HunkSpans /\ Diff[i] = Hunk(f[i][1], f[i][2])
  BY <1>2, <1>4
<1>6. ASSUME NEW i \in 1..n, NEW j \in 1..n, i < j PROVE f[i][2] + 1 < f[j][1]
  <2>1. PICK p, q : p = f[i] /\ q = f[j]
    OBVIOUS
  <2>2. p \in HunkSpans /\ q \in HunkSpans /\ p[1] < q[1]
    BY <1>4, <1>6, <2>1
  <2>3. p[1] \in Nat /\ q[1] \in Nat
    BY <2>2, SpansType
  <2>4. p = q \/ p[2] + 1 < q[1]
    BY <2>2, <2>3, SpansApart
  <2> QED BY <2>1, <2>2, <2>3, <2>4
<1>7. ASSUME NEW p \in HunkSpans PROVE \E i \in 1..n : f[i] = p
  <2>1. PICK I, T : I = 1..n /\ T = HunkSpans
    OBVIOUS
  <2>2. ASSUME NEW i \in I, NEW j \in I, f[i] = f[j] PROVE i = j
    <3>1. f[i][1] \in Nat
      BY <1>4, <2>1, SpansType
    <3>2. ~ (i < j) /\ ~ (j < i)
      BY <1>4, <2>1, <2>2, <3>1
    <3> QED BY <1>1, <2>1, <3>2
  <2>3. f \in Injection(I, T)
    BY <1>4, <2>1, <2>2 DEF Injection, IsInjective
  <2>4. IsFiniteSet(T) /\ Cardinality(T) = n
    BY <1>1, <2>1, DiffSpans
  <2>5. Cardinality(I) = n
    BY <1>1, <2>1, FS_Interval
  <2>6. f \in Surjection(I, T)
    BY <2>3, <2>4, <2>5, FS_Injection
  <2> QED BY <2>1, <2>6 DEF Surjection
<1>8. DiffFrom(f)
  BY <1>3, <1>5, <1>6, <1>7 DEF DiffFrom
<1> QED BY <1>8

\* Every line is kept.
Kept(edits) == \A i \in 1..Len(edits) : edits[i].prefix = " "

\* Lines that are kept are the same on both sides.
LEMMA KeptLines ==
    ASSUME NEW edits, edits \in Seq(Edit), Kept(edits)
    PROVE  OldSide(edits) = NewSide(edits)
<1>1. PICK n : n = Len(edits) /\ n \in Nat
  BY LenProperties
<1>2. PICK st : /\ st[0] = << >> /\ st[n] = OldSide(edits)
                /\ \A k \in 1..n : st[k] = Longer(st[k - 1], edits[k], {" ", "-"})
  <2>1. \E st \in [0..Len(edits) -> Seq(Lines)] :
              /\ st[0] = << >> /\ st[Len(edits)] = Side(edits, {" ", "-"})
              /\ \A k \in 1..Len(edits) : st[k] = Longer(st[k - 1], edits[k], {" ", "-"})
    BY SideStates
  <2> QED BY <1>1, <2>1 DEF OldSide
<1>3. PICK tt : /\ tt[0] = << >> /\ tt[n] = NewSide(edits)
                /\ \A k \in 1..n : tt[k] = Longer(tt[k - 1], edits[k], {" ", "+"})
  <2>1. \E tt \in [0..Len(edits) -> Seq(Lines)] :
              /\ tt[0] = << >> /\ tt[Len(edits)] = Side(edits, {" ", "+"})
              /\ \A k \in 1..Len(edits) : tt[k] = Longer(tt[k - 1], edits[k], {" ", "+"})
    BY SideStates
  <2> QED BY <1>1, <2>1 DEF NewSide
<1>4. \A k \in 1..n : st[k] = Append(st[k - 1], edits[k].text)
  BY <1>1, <1>2 DEF Longer, Kept
<1>5. \A k \in 1..n : tt[k] = Append(tt[k - 1], edits[k].text)
  BY <1>1, <1>3 DEF Longer, Kept
<1>6. ASSUME NEW k \in 1..n, st[k - 1] = tt[k - 1] PROVE st[k] = tt[k]
  <2>1. st[k] = Append(st[k - 1], edits[k].text) /\ tt[k] = Append(tt[k - 1], edits[k].text)
    BY <1>4, <1>5
  <2> QED BY <1>6, <2>1
<1>7. StepsAlike(n, st, tt)
  BY <1>1, <1>2, <1>3, <1>6 DEF StepsAlike
<1>8. n \in 0..n
  BY <1>1
<1>9. st[n] = tt[n]
  <2>1. \A k \in 0..n : st[k] = tt[k]
    BY <1>7, StatesAreSame
  <2> QED BY <1>8, <2>1
<1> QED BY <1>2, <1>3, <1>9

\* The middle one of three sequences.
LEMMA MiddlePart ==
    ASSUME NEW T, NEW x, NEW y, NEW z, x \in Seq(T), y \in Seq(T), z \in Seq(T),
           NEW w, w = Join(Join(x, y), z)
    PROVE  SubSeq(w, Len(x) + 1, Len(x) + Len(y)) = y
<1>1. PICK a, b, c : a = Len(x) /\ b = Len(y) /\ c = Len(z)
  OBVIOUS
<1>2. a \in Nat /\ b \in Nat /\ c \in Nat
  BY <1>1, LenProperties
<1>3. PICK v : v = Join(x, y)
  OBVIOUS
<1>4. v \in Seq(T) /\ Len(v) = a + b /\ \A i \in 1..b : v[a + i] = y[i]
  <2>1. v = x \o y
    BY <1>3 DEF Join
  <2> QED BY <1>1, <1>2, <2>1, ConcatProperties
<1>5. w \in Seq(T) /\ Len(w) = a + b + c /\ \A i \in 1..(a + b) : w[i] = v[i]
  <2>1. w = v \o z
    BY <1>3 DEF Join
  <2>2. v \o z \in Seq(T) /\ Len(v \o z) = Len(v) + Len(z)
        /\ \A i \in 1..(Len(v) + Len(z)) : (v \o z)[i] = IF i <= Len(v) THEN v[i] ELSE z[i - Len(v)]
    BY <1>4, ConcatProperties
  <2>3. w \in Seq(T) /\ Len(w) = a + b + c
    BY <1>1, <1>2, <1>4, <2>1, <2>2
  <2>4. ASSUME NEW i \in 1..(a + b) PROVE w[i] = v[i]
    <3>1. i \in 1..(Len(v) + Len(z)) /\ i <= Len(v)
      BY <1>1, <1>2, <1>4
    <3> QED BY <2>1, <2>2, <3>1
  <2> QED BY <2>3, <2>4
<1>6. PICK s : s = SubSeq(w, a + 1, a + b)
  OBVIOUS
<1>7. s \in Seq(T) /\ Len(s) = b /\ \A i \in 1..b : s[i] = w[a + i]
  <2>1. \A i \in (a + 1)..(a + b) : w[i] \in T
    <3>1. \A i \in (a + 1)..(a + b) : i \in 1..Len(w)
      BY <1>2, <1>5
    <3> QED BY <1>5, <3>1, ElementOfSeq
  <2>2. a + 1 \in Int /\ a + b \in Int /\ (a + b) - (a + 1) + 1 = b /\ a + 1 <= a + b + 1
    BY <1>2
  <2>3. s \in Seq(T)
    BY <1>6, <2>1, <2>2, SubSeqProperties
  <2>4. Len(s) = b
    BY <1>2, <1>6, <2>1, <2>2, SubSeqProperties
  <2>5. ASSUME NEW i \in 1..b PROVE s[i] = w[a + i]
    <3>1. (a + 1) + i - 1 = a + i /\ i \in 1..((a + b) - (a + 1) + 1)
      BY <1>2
    <3>2. s[i] = w[(a + 1) + i - 1]
      BY <1>2, <1>6, <2>1, <2>2, <3>1, SubSeqProperties
    <3> QED BY <3>1, <3>2
  <2> QED BY <2>3, <2>4, <2>5
<1>8. \A i \in 1..b : s[i] = y[i]
  <2> TAKE i \in 1..b
  <2>1. a + i \in 1..(a + b)
    BY <1>2
  <2> QED BY <1>4, <1>5, <1>7, <2>1
<1>9. s = y
  BY <1>1, <1>7, <1>8, SeqEqual
<1> QED BY <1>1, <1>6, <1>9

\* Lines of the old file are the old side of lines of the script.
LEMMA OldPart ==
    ASSUME IsScript, NEW l, l \in 0..Len(script), NEW m, m \in l..Len(script)
    PROVE  SubSeq(OldSide(script), Before(l) + 1, Before(m)) = OldSide(SubSeq(script, l + 1, m))
<1>1. PICK n : n = Len(script) /\ n \in Nat
  BY LenProperties DEF IsScript
<1>2. PICK x, y, z, w : /\ x = OldSide(Begin(l)) /\ y = OldSide(SubSeq(script, l + 1, m))
                        /\ z = OldSide(SubSeq(script, m + 1, n)) /\ w = OldSide(script)
  OBVIOUS
<1>3. x \in Seq(Lines) /\ y \in Seq(Lines) /\ OldSide(Begin(m)) = Join(x, y)
  BY <1>2, SidesOfPart DEF OldSide
<1>4. z \in Seq(Lines) /\ OldSide(Begin(n)) = Join(OldSide(Begin(m)), z)
  <2>1. m \in 0..Len(script) /\ n \in m..Len(script)
    BY <1>1
  <2> QED BY <1>2, <2>1, SidesOfPart DEF OldSide
<1>5. Begin(n) = script
  BY <1>1, FirstLines DEF Begin, IsScript
<1>6. w = Join(Join(x, y), z)
  BY <1>2, <1>3, <1>4, <1>5
<1>7. Before(l) = Len(x) /\ Before(m) = Len(x) + Len(y)
  BY <1>2, <1>3, JoinLength DEF Before
<1>8. SubSeq(w, Len(x) + 1, Len(x) + Len(y)) = y
  BY <1>3, <1>4, <1>6, MiddlePart
<1> QED BY <1>2, <1>7, <1>8

\* A line that no hunk shows is kept.
LEMMA UnshownIsKept ==
    ASSUME IsScript, NEW l, l \in 0..Len(script), NEW m, m \in l..Len(script),
           \A i \in (l + 1)..m : ~ Shown(i)
    PROVE  Kept(SubSeq(script, l + 1, m))
<1>1. PICK n : n = Len(script) /\ n \in Nat /\ DOMAIN script = 1..n
  BY LenProperties DEF IsScript
<1>2. PICK s : s = SubSeq(script, l + 1, m)
  OBVIOUS
<1>3. Len(s) = m - l /\ \A i \in 1..(m - l) : s[i] = script[l + i]
  <2>1. \A i \in (l + 1)..m : script[i] \in Edit
    <3>1. \A i \in (l + 1)..m : i \in 1..Len(script)
      BY <1>1
    <3> QED BY <3>1, ElementOfSeq DEF IsScript
  <2>2. l + 1 \in Int /\ m \in Int /\ m - (l + 1) + 1 = m - l /\ l + 1 <= m + 1 /\ m - l \in Nat
    BY <1>1
  <2>3. Len(s) = m - l
    BY <1>2, <2>1, <2>2, SubSeqProperties
  <2>4. ASSUME NEW i \in 1..(m - l) PROVE s[i] = script[l + i]
    <3>1. (l + 1) + i - 1 = l + i /\ i \in 1..(m - (l + 1) + 1)
      BY <1>1
    <3>2. s[i] = script[(l + 1) + i - 1]
      BY <1>2, <2>1, <2>2, <3>1, SubSeqProperties
    <3> QED BY <3>1, <3>2
  <2> QED BY <2>3, <2>4
<1>4. ASSUME NEW i \in (l + 1)..m PROVE script[i].prefix = " "
  <2>1. i \in DOMAIN script /\ i - i <= Context
    BY <1>1, ContextAssumption
  <2> QED BY <2>1 DEF Shown
<1>5. ASSUME NEW i \in 1..Len(s) PROVE s[i].prefix = " "
  <2>1. i \in 1..(m - l) /\ l + i \in (l + 1)..m
    BY <1>1, <1>3
  <2>2. s[i] = script[l + i]
    BY <1>3, <2>1
  <2> QED BY <1>4, <2>1, <2>2
<1> QED BY <1>2, <1>5 DEF Kept

\* Where the lines before the k-th hunk begin and end.
EndOf(f, k) == IF k = 0 THEN 0 ELSE f[k][2]
StartOf(f, k) == IF k = Len(Diff) + 1 THEN Len(script) + 1 ELSE f[k][1]

\* No line between two hunks is shown.
LEMMA BetweenHunks ==
    ASSUME IsScript, NEW f, DiffFrom(f), NEW k, k \in 1..(Len(Diff) + 1)
    PROVE  /\ EndOf(f, k - 1) \in 0..Len(script)
           /\ StartOf(f, k) - 1 \in EndOf(f, k - 1)..Len(script)
           /\ \A i \in (EndOf(f, k - 1) + 1)..(StartOf(f, k) - 1) : ~ Shown(i)
<1>1. PICK n, m : n = Len(script) /\ n \in Nat /\ m = Len(Diff) /\ m \in Nat
  <2>1. PICK hunks : hunks = Diff
    OBVIOUS
  <2>2. hunks \in Seq(HunkType)
    BY <2>1, DiffInOrder
  <2> QED BY <2>1, <2>2, LenProperties DEF IsScript
<1>2. ASSUME NEW j, j \in 1..m PROVE f[j] \in HunkSpans /\ f[j][1] \in 1..n /\ f[j][2] \in 1..n /\ f[j][1] <= f[j][2]
  <2>1. f[j] \in HunkSpans
    BY <1>1, <1>2 DEF DiffFrom
  <2> QED BY <1>1, <2>1, SpansType
<1>3. \A i, j \in 1..m : i < j => f[i][2] + 1 < f[j][1]
  BY <1>1 DEF DiffFrom
<1>4. PICK l, r : l = EndOf(f, k - 1) /\ r = StartOf(f, k) - 1
  OBVIOUS
<1>5. l \in 0..n
  <2>1. CASE k = 1
    BY <1>1, <1>4, <2>1 DEF EndOf
  <2>2. CASE k # 1
    <3>1. k - 1 \in 1..m /\ k - 1 # 0
      BY <1>1, <2>2
    <3>2. f[k - 1][2] \in 1..n
      BY <1>2, <3>1
    <3> QED BY <1>1, <1>4, <3>1, <3>2 DEF EndOf
  <2> QED BY <2>1, <2>2
<1>6. r \in l..n
  <2>1. CASE k = m + 1
    <3>1. r = n
      BY <1>1, <1>4, <2>1 DEF StartOf
    <3> QED BY <1>1, <1>5, <3>1
  <2>2. CASE k # m + 1
    <3>1. k \in 1..m /\ r = f[k][1] - 1
      BY <1>1, <1>4, <2>2 DEF StartOf
    <3>2. f[k][1] \in 1..n
      BY <1>2, <3>1
    <3>3. l < f[k][1]
      <4>1. CASE k = 1
        BY <1>4, <3>2, <4>1 DEF EndOf
      <4>2. CASE k # 1
        <5>1. k - 1 \in 1..m /\ k - 1 # 0 /\ k - 1 < k
          BY <1>1, <3>1, <4>2
        <5>2. l = f[k - 1][2] /\ f[k - 1][2] + 1 < f[k][1]
          BY <1>3, <1>4, <3>1, <5>1 DEF EndOf
        <5> QED BY <1>5, <3>2, <5>2
      <4> QED BY <4>1, <4>2
    <3> QED BY <1>1, <1>5, <3>1, <3>2, <3>3
  <2> QED BY <2>1, <2>2
<1>7. ASSUME NEW i, i \in (l + 1)..r, Shown(i) PROVE FALSE
  <2>1. i \in 1..Len(script)
    BY <1>1, <1>5, <1>6, <1>7
  <2>2. PICK p : p \in HunkSpans /\ p[1] <= i /\ i <= p[2]
    BY <1>7, <2>1, ShownIsSpanned
  <2>3. PICK j : j \in 1..m /\ f[j] = p
    BY <1>1, <2>2 DEF DiffFrom
  <2>4. PICK a, b : a = f[j][1] /\ b = f[j][2]
    OBVIOUS
  <2>5. a \in 1..n /\ b \in 1..n /\ a <= b /\ a <= i /\ i <= b
    BY <1>2, <2>2, <2>3, <2>4
  <2>6. CASE j < k
    <3>1. k - 1 \in 1..m /\ k - 1 # 0 /\ (j = k - 1 \/ j < k - 1)
      BY <1>1, <2>3, <2>6
    <3>2. PICK c, d : c = f[k - 1][1] /\ d = f[k - 1][2]
      OBVIOUS
    <3>3. c \in 1..n /\ d \in 1..n /\ c <= d /\ l = d
      BY <1>2, <1>4, <3>1, <3>2 DEF EndOf
    <3>4. j < k - 1 => b + 1 < c
      BY <1>3, <2>3, <2>4, <3>1, <3>2
    <3>5. b <= l
      <4>1. CASE j = k - 1
        <5>1. b = d
          BY <2>4, <3>2, <4>1
        <5> QED BY <2>5, <3>3, <5>1
      <4>2. CASE j < k - 1
        BY <1>1, <2>5, <3>3, <3>4, <4>2
      <4> QED BY <3>1, <4>1, <4>2
    <3> QED BY <1>1, <1>5, <1>7, <2>1, <2>5, <3>5
  <2>7. CASE ~ (j < k)
    <3>1. k \in 1..m /\ (j = k \/ k < j)
      BY <1>1, <2>3, <2>7
    <3>2. PICK c, d : c = f[k][1] /\ d = f[k][2]
      OBVIOUS
    <3>3. c \in 1..n /\ d \in 1..n /\ c <= d
      BY <1>2, <3>1, <3>2
    <3>4. r = c - 1
      BY <1>1, <1>4, <3>1, <3>2 DEF StartOf
    <3>5. k < j => d + 1 < a
      BY <1>3, <2>3, <2>4, <3>1, <3>2
    <3>6. r < a
      <4>1. CASE j = k
        <5>1. a = c
          BY <2>4, <3>2, <4>1
        <5> QED BY <2>5, <3>4, <5>1
      <4>2. CASE k < j
        BY <1>1, <2>5, <3>3, <3>4, <3>5, <4>2
      <4> QED BY <3>1, <4>1, <4>2
    <3> QED BY <1>1, <1>6, <1>7, <2>1, <2>5, <3>6
  <2> QED BY <2>6, <2>7
<1> QED BY <1>1, <1>4, <1>5, <1>6, <1>7

\* A diff is a sequence.
LEMMA DiffLength ==
    ASSUME IsScript
    PROVE  Len(Diff) \in Nat /\ DOMAIN Diff = 1..Len(Diff)
<1>1. PICK hunks : hunks = Diff
  OBVIOUS
<1>2. hunks \in Seq(HunkType)
  BY <1>1, DiffInOrder
<1>3. Len(hunks) \in Nat /\ DOMAIN hunks = 1..Len(hunks)
  BY <1>2, LenProperties
<1> QED BY <1>1, <1>3

\* All lines of the script, and none.
LEMMA WholeBefore ==
    ASSUME IsScript
    PROVE  /\ Len(script) \in Nat /\ Begin(Len(script)) = script /\ Before(0) = 0
           /\ OldSide(script) \in Seq(Lines) /\ Before(Len(script)) = Len(OldSide(script))
<1>1. Len(script) \in Nat
  BY LenProperties DEF IsScript
<1>2. Begin(Len(script)) = script
  BY FirstLines DEF Begin, IsScript
<1>3. Begin(0) = << >> /\ OldSide(<< >>) = << >> /\ Len(<< >>) = 0
  BY FirstLines, SideOfNone DEF Begin, OldSide, IsScript
<1>4. OldSide(script) \in Seq(Lines)
  BY SideType DEF OldSide, IsScript
<1> QED BY <1>1, <1>2, <1>3, <1>4 DEF Before

\* Only in a script without old lines has a hunk no old lines.
LEMMA HunkHasOldLines ==
    ASSUME IsScript, OldSide(script) # << >>,
           NEW p, p \in HunkSpans, NEW hunk, hunk = Hunk(p[1], p[2])
    PROVE  OldSide(hunk.body) # << >>
<1>1. SUFFICES ASSUME OldSide(hunk.body) = << >> PROVE FALSE
  OBVIOUS
<1>2. PICK n, a, b : n = Len(script) /\ n \in Nat /\ a = p[1] /\ b = p[2]
  BY WholeBefore
<1>3. a \in 1..n /\ b \in 1..n /\ a <= b /\ (b < n => ~ Shown(b + 1))
  BY <1>2, SpansType
<1>4. Before(b) = 0
  <2>1. Before(a - 1) = 0 /\ Before(b) = Before(a - 1) + Len(OldSide(hunk.body))
    BY <1>1, <1>2, HunkOfSpan
  <2>2. Len(OldSide(hunk.body)) = 0
    BY <1>1
  <2> QED BY <2>1, <2>2
<1>5. script[b].prefix = "+"
  <2>1. Before(b) = IF script[b].prefix = "+" THEN Before(b - 1) ELSE Before(b - 1) + 1
    BY <1>2, <1>3, BeforeNext
  <2>2. Before(b - 1) \in Nat
    BY <1>2, <1>3, BeforeNext
  <2> QED BY <1>4, <2>1, <2>2
<1>6. b = n
  <2>1. SUFFICES ASSUME b < n PROVE FALSE
    BY <1>2, <1>3
  <2>2. b \in DOMAIN script
    BY <1>2, <1>3 DEF IsScript
  <2>3. (b + 1) - b <= Context /\ b - (b + 1) <= Context
    BY <1>3, ContextAssumption
  <2>4. Shown(b + 1)
    BY <1>5, <2>2, <2>3 DEF Shown
  <2> QED BY <1>3, <2>1, <2>4
<1>7. Len(OldSide(script)) = 0
  BY <1>2, <1>4, <1>6, WholeBefore
<1> QED BY <1>7, WholeBefore, EmptySeq

\* The hunks of a diff of a file that is not empty are where its old lines are.
LEMMA DiffPlaces ==
    ASSUME IsScript, OldSide(script) # << >>,
           NEW f, DiffFrom(f), NEW k, k \in 1..Len(Diff)
    PROVE  /\ Diff[k].start = Before(f[k][1] - 1) + 1
           /\ AfterHunk(Diff, k) = Before(f[k][2]) + 1
           /\ Diff[k].body = SubSeq(script, f[k][1], f[k][2])
           /\ FitsAt(OldSide(script), Diff[k])
<1>1. PICK n : n = Len(script) /\ n \in Nat
  BY WholeBefore
<1>2. PICK p, a, b : p = f[k] /\ a = p[1] /\ b = p[2]
  OBVIOUS
<1>3. PICK hunk, old, len : hunk = Diff[k] /\ old = OldSide(hunk.body) /\ len = Len(old)
  OBVIOUS
<1>4. p \in HunkSpans /\ hunk = Hunk(p[1], p[2])
  BY <1>1, <1>2, <1>3 DEF DiffFrom
<1>5. a \in 1..n /\ b \in 1..n /\ a <= b
  BY <1>1, <1>2, <1>4, SpansType
<1>6. old # << >>
  BY <1>3, <1>4, HunkHasOldLines
<1>7. /\ hunk.body = SubSeq(script, a, b) /\ len \in Nat
      /\ Before(a - 1) \in Nat /\ Before(b) = Before(a - 1) + len
      /\ hunk.start = Before(a - 1) + 1
  BY <1>1, <1>2, <1>3, <1>4, <1>6, HunkOfSpan
<1>8. AfterHunk(Diff, k) = Before(b) + 1
  <2>1. k # 0
    BY DiffLength
  <2>2. AfterHunk(Diff, k) = hunk.start + len
    BY <1>3, <2>1 DEF AfterHunk
  <2> QED BY <1>7, <2>2
<1>9. Before(b) <= Len(OldSide(script))
  <2>1. b \in 0..Len(script) /\ n \in b..Len(script)
    BY <1>1, <1>2, <1>5
  <2>2. /\ Len(OldSide(SubSeq(script, b + 1, n))) \in Nat
        /\ Before(n) = Before(b) + Len(OldSide(SubSeq(script, b + 1, n)))
        /\ Before(b) \in Nat
    BY <2>1, BeforeGrows
  <2> QED BY <1>1, <1>2, <2>2, WholeBefore
<1>10. SubSeq(OldSide(script), Before(a - 1) + 1, Before(b)) = old
  <2>1. PICK l : l = a - 1
    OBVIOUS
  <2>2. l \in 0..Len(script) /\ b \in l..Len(script) /\ l + 1 = a
    BY <1>1, <1>5, <2>1
  <2>3. SubSeq(OldSide(script), Before(l) + 1, Before(b)) = OldSide(SubSeq(script, l + 1, b))
    BY <2>2, OldPart
  <2> QED BY <1>3, <1>7, <2>1, <2>2, <2>3
<1>11. hunk.start - 1 + len = Before(b) /\ hunk.start >= 1
  BY <1>7
<1>12. FitsAt(OldSide(script), hunk)
  BY <1>3, <1>7, <1>9, <1>10, <1>11 DEF FitsAt
<1> QED BY <1>1, <1>2, <1>3, <1>7, <1>8, <1>12

\* Lines that no hunk shows are the same in both versions.
LEMMA GapIsKept ==
    ASSUME IsScript, NEW f, DiffFrom(f), NEW k, k \in 1..(Len(Diff) + 1)
    PROVE  SubSeq(OldSide(script), Before(EndOf(f, k - 1)) + 1, Before(StartOf(f, k) - 1))
           = NewSide(SubSeq(script, EndOf(f, k - 1) + 1, StartOf(f, k) - 1))
<1>1. PICK l, m : l = EndOf(f, k - 1) /\ m = StartOf(f, k) - 1
  OBVIOUS
<1>2. l \in 0..Len(script) /\ m \in l..Len(script) /\ \A i \in (l + 1)..m : ~ Shown(i)
  BY <1>1, BetweenHunks
<1>3. PICK s : s = SubSeq(script, l + 1, m)
  OBVIOUS
<1>4. Kept(s) /\ s \in Seq(Edit)
  BY <1>2, <1>3, UnshownIsKept, ScriptPart
<1>5. OldSide(s) = NewSide(s)
  BY <1>4, KeptLines
<1>6. SubSeq(OldSide(script), Before(l) + 1, Before(m)) = OldSide(SubSeq(script, l + 1, m))
  BY <1>2, OldPart
<1> QED BY <1>1, <1>3, <1>5, <1>6

\* The new side of the lines up to the m-th, made of those before and those after the l-th.
LEMMA NewSideGrows ==
    ASSUME IsScript, NEW l, l \in 0..Len(script), NEW m, m \in l..Len(script)
    PROVE  /\ NewSide(SubSeq(script, l + 1, m)) \in Seq(Lines)
           /\ NewSide(Begin(l)) \in Seq(Lines)
           /\ NewSide(Begin(m)) = Join(NewSide(Begin(l)), NewSide(SubSeq(script, l + 1, m)))
BY SidesOfPart DEF NewSide

\* The lines after a hunk begin, in the old file, where the script's after it do.
LEMMA AfterPlaces ==
    ASSUME IsScript, OldSide(script) # << >>, NEW f, DiffFrom(f), NEW k, k \in 0..Len(Diff)
    PROVE  AfterHunk(Diff, k) = Before(EndOf(f, k)) + 1
<1>1. CASE k = 0
  BY <1>1, WholeBefore DEF AfterHunk, EndOf
<1>2. CASE k # 0
  <2>1. k \in 1..Len(Diff)
    BY <1>2, DiffLength
  <2> QED BY <1>2, <2>1, DiffPlaces DEF EndOf
<1> QED BY <1>1, <1>2

\* A piece is the new side of the lines since the hunk before.
LEMMA PieceOfDiff ==
    ASSUME IsScript, OldSide(script) # << >>, NEW f, DiffFrom(f), NEW k, k \in 1..Len(Diff)
    PROVE  Piece(OldSide(script), Diff, k)
           = Join(NewSide(SubSeq(script, EndOf(f, k - 1) + 1, f[k][1] - 1)),
                  NewSide(SubSeq(script, f[k][1], f[k][2])))
<1>1. StartOf(f, k) = f[k][1] /\ k - 1 \in 0..Len(Diff) /\ k \in 1..(Len(Diff) + 1)
  BY DiffLength DEF StartOf
<1>2. AfterHunk(Diff, k - 1) = Before(EndOf(f, k - 1)) + 1
  <2>1. PICK j : j = k - 1
    OBVIOUS
  <2>2. AfterHunk(Diff, j) = Before(EndOf(f, j)) + 1
    BY <1>1, <2>1, AfterPlaces
  <2> QED BY <2>1, <2>2
<1>3. PICK l : l = f[k][1] - 1
  OBVIOUS
<1>4. l \in 0..Len(script)
  <2>1. f[k] \in HunkSpans
    BY DEF DiffFrom
  <2>2. f[k][1] \in 1..Len(script)
    BY <2>1, SpansType
  <2> QED BY <1>3, <2>2, WholeBefore
<1>5. Before(l) \in Nat
  <2>1. Len(script) \in l..Len(script)
    BY <1>4, WholeBefore
  <2> QED BY <1>4, <2>1, BeforeGrows
<1>6. Diff[k].start = Before(l) + 1 /\ Diff[k].body = SubSeq(script, f[k][1], f[k][2])
  BY <1>3, DiffPlaces
<1>7. Diff[k].start - 1 = Before(l)
  BY <1>5, <1>6
<1>8. SubSeq(OldSide(script), Before(EndOf(f, k - 1)) + 1, Before(l))
      = NewSide(SubSeq(script, EndOf(f, k - 1) + 1, l))
  BY <1>1, <1>3, GapIsKept
<1> QED BY <1>2, <1>3, <1>6, <1>7, <1>8 DEF Piece

\* What the hunks mean of the file that the diff was made of is its other version.
LEMMA DiffSplices ==
    ASSUME IsScript, OldSide(script) # << >>
    PROVE  Spliced(OldSide(script), Diff) = NewSide(script)
<1>1. PICK f : DiffFrom(f)
  BY DiffIsFrom
<1>2. PICK n, old, hunks : /\ n = Len(Diff) /\ n \in Nat /\ old = OldSide(script) /\ hunks = Diff
                           /\ old \in Seq(Lines) /\ hunks \in Seq(HunkType)
  BY DiffLength, DiffInOrder, WholeBefore
<1>3. ASSUME NEW k, k \in 1..n
      PROVE  /\ EndOf(f, k - 1) \in 0..Len(script)
             /\ f[k][1] - 1 \in EndOf(f, k - 1)..Len(script)
             /\ f[k][2] \in (f[k][1] - 1)..Len(script) /\ f[k][1] - 1 \in 0..Len(script)
             /\ EndOf(f, k) = f[k][2]
  <2>1. StartOf(f, k) = f[k][1] /\ k \in 1..(Len(Diff) + 1) /\ EndOf(f, k) = f[k][2]
    BY <1>2, <1>3 DEF StartOf, EndOf
  <2>2. EndOf(f, k - 1) \in 0..Len(script) /\ StartOf(f, k) - 1 \in EndOf(f, k - 1)..Len(script)
    BY <1>1, <2>1, BetweenHunks
  <2>3. f[k] \in HunkSpans
    BY <1>1, <1>2, <1>3 DEF DiffFrom
  <2>4. f[k][1] \in 1..Len(script) /\ f[k][2] \in 1..Len(script) /\ f[k][1] <= f[k][2]
    BY <2>3, SpansType
  <2>5. f[k][2] \in (f[k][1] - 1)..Len(script) /\ f[k][1] - 1 \in 0..Len(script)
    BY <2>4, WholeBefore
  <2> QED BY <2>1, <2>2, <2>5
<1>4. ASSUME NEW k, k \in 1..n, NEW l, l = f[k][1] - 1, NEW j, j = k - 1
       PROVE  \E gap, new : /\ gap \in Seq(Lines) /\ new \in Seq(Lines)
                            /\ Piece(old, hunks, k) = Join(gap, new)
                            /\ NewSide(Begin(l)) = Join(NewSide(Begin(EndOf(f, j))), gap)
                            /\ NewSide(Begin(EndOf(f, k))) = Join(NewSide(Begin(l)), new)
                            /\ NewSide(Begin(EndOf(f, j))) \in Seq(Lines)
  <2>1. PICK a, b : a = EndOf(f, j) /\ b = EndOf(f, k)
    OBVIOUS
  <2>2. /\ a \in 0..Len(script) /\ l \in a..Len(script) /\ b \in l..Len(script)
        /\ l \in 0..Len(script) /\ f[k][2] = b
    BY <1>3, <1>4, <2>1
  <2>3. PICK gap, new : gap = NewSide(SubSeq(script, a + 1, l)) /\ new = NewSide(SubSeq(script, l + 1, b))
    OBVIOUS
  <2>4. /\ gap \in Seq(Lines) /\ NewSide(Begin(a)) \in Seq(Lines)
        /\ NewSide(Begin(l)) = Join(NewSide(Begin(a)), gap)
    BY <2>2, <2>3, NewSideGrows
  <2>5. new \in Seq(Lines) /\ NewSide(Begin(b)) = Join(NewSide(Begin(l)), new)
    BY <2>2, <2>3, NewSideGrows
  <2>6. Piece(OldSide(script), Diff, k)
        = Join(NewSide(SubSeq(script, EndOf(f, k - 1) + 1, f[k][1] - 1)),
               NewSide(SubSeq(script, f[k][1], f[k][2])))
    BY <1>1, <1>2, <1>4, PieceOfDiff
  <2>7. l + 1 = f[k][1]
    <3>1. f[k] \in HunkSpans
      BY <1>1, <1>2, <1>4 DEF DiffFrom
    <3>2. f[k][1] \in 1..Len(script)
      BY <3>1, SpansType
    <3> QED BY <1>4, <3>2, WholeBefore
  <2>8. Piece(old, hunks, k) = Join(gap, new)
    BY <1>2, <1>4, <2>1, <2>2, <2>3, <2>6, <2>7
  <2> QED BY <2>1, <2>4, <2>5, <2>8
<1>5. Pieces(old, hunks) \in Seq(Seq(Lines)) /\ Len(Pieces(old, hunks)) = n
  <2>1. ASSUME NEW k, k \in 1..n PROVE Piece(old, hunks, k) \in Seq(Lines)
    <3>1. PICK gap, new : /\ gap \in Seq(Lines) /\ new \in Seq(Lines)
                          /\ Piece(old, hunks, k) = Join(gap, new)
      BY <1>4, <2>1
    <3>2. Join(gap, new) \in Seq(Lines)
      BY <3>1, JoinType
    <3> QED BY <3>1, <3>2
  <2>2. Pieces(old, hunks) \in [1..n -> Seq(Lines)]
    BY <1>2, <2>1 DEF Pieces
  <2> QED BY <1>2, <2>2
<1>6. PICK fs : FlattenFold(Pieces(old, hunks), Lines, fs)
  BY <1>5, FlattenStates
<1>7. \A k \in 0..n : fs[k] = NewSide(Begin(EndOf(f, k)))
  <2> DEFINE P == {k \in 0..n : fs[k] = NewSide(Begin(EndOf(f, k)))}
  <2>1. 0 \in P
    <3>1. NewSide(Begin(0)) = << >>
      BY FirstLines, SideOfNone DEF Begin, NewSide, IsScript
    <3> QED BY <1>2, <1>6, <3>1 DEF FlattenFold, EndOf
  <2>2. ASSUME NEW j, j \in 0..(n - 1), j \in P PROVE j + 1 \in P
    <3>1. PICK k : k = j + 1
      OBVIOUS
    <3>2. k \in 1..n /\ k \in 0..n /\ j = k - 1
      BY <1>2, <2>2, <3>1
    <3>3. PICK l : l = f[k][1] - 1
      OBVIOUS
    <3>4. PICK gap, new : /\ gap \in Seq(Lines) /\ new \in Seq(Lines)
                          /\ Piece(old, hunks, k) = Join(gap, new)
                          /\ NewSide(Begin(l)) = Join(NewSide(Begin(EndOf(f, j))), gap)
                          /\ NewSide(Begin(EndOf(f, k))) = Join(NewSide(Begin(l)), new)
                          /\ NewSide(Begin(EndOf(f, j))) \in Seq(Lines)
      BY <1>4, <3>2, <3>3
    <3>5. fs[k] = Join(fs[j], Join(gap, new))
      <4>1. Pieces(old, hunks)[k] = Piece(old, hunks, k)
        BY <1>2, <3>2 DEF Pieces
      <4>2. fs[k] = Join(fs[k - 1], Pieces(old, hunks)[k])
        BY <1>5, <1>6, <3>2 DEF FlattenFold
      <4> QED BY <3>2, <3>4, <4>1, <4>2
    <3>6. PICK x : x = NewSide(Begin(EndOf(f, j))) /\ x = fs[j] /\ x \in Seq(Lines)
      BY <2>2, <3>4
    <3>7. Join(Join(x, gap), new) = Join(x, Join(gap, new))
      BY <3>4, <3>6, JoinAssociative
    <3>8. fs[k] = NewSide(Begin(EndOf(f, k)))
      BY <3>4, <3>5, <3>6, <3>7
    <3> QED BY <3>1, <3>2, <3>8
  <2> HIDE DEF P
  <2>3. \A k \in 0..n : k \in P
    BY <1>2, <2>1, <2>2, Counting
  <2> QED BY <2>3 DEF P
<1>8. SubSeq(old, AfterHunk(hunks, n), Len(old)) = NewSide(SubSeq(script, EndOf(f, n) + 1, Len(script)))
  <2>1. n + 1 \in 1..(Len(Diff) + 1) /\ (n + 1) - 1 = n /\ n \in 0..Len(Diff)
    BY <1>2
  <2>2. PICK m : m = n + 1
    OBVIOUS
  <2>3. StartOf(f, m) - 1 = Len(script) /\ EndOf(f, m - 1) = EndOf(f, n)
    BY <1>2, <2>1, <2>2, WholeBefore DEF StartOf
  <2>4. SubSeq(OldSide(script), Before(EndOf(f, m - 1)) + 1, Before(StartOf(f, m) - 1))
        = NewSide(SubSeq(script, EndOf(f, m - 1) + 1, StartOf(f, m) - 1))
    BY <1>1, <2>1, <2>2, GapIsKept
  <2>5. AfterHunk(Diff, n) = Before(EndOf(f, n)) + 1
    BY <1>1, <2>1, AfterPlaces
  <2> QED BY <1>2, <2>3, <2>4, <2>5, WholeBefore
<1>9. Spliced(old, hunks) = Join(NewSide(Begin(EndOf(f, n))), NewSide(SubSeq(script, EndOf(f, n) + 1, Len(script))))
  <2>1. Spliced(old, hunks) = Join(FlattenSeq(Pieces(old, hunks)), SubSeq(old, AfterHunk(hunks, n), Len(old)))
    BY <1>2, SplicedPieces DEF Join
  <2>2. fs[n] = FlattenSeq(Pieces(old, hunks))
    BY <1>5, <1>6 DEF FlattenFold
  <2>3. fs[n] = NewSide(Begin(EndOf(f, n)))
    <3>1. n \in 0..n
      BY <1>2
    <3> QED BY <1>7, <3>1
  <2> QED BY <1>8, <2>1, <2>2, <2>3
<1>10. NewSide(script) = Join(NewSide(Begin(EndOf(f, n))), NewSide(SubSeq(script, EndOf(f, n) + 1, Len(script))))
  <2>1. n + 1 \in 1..(Len(Diff) + 1) /\ (n + 1) - 1 = n
    BY <1>2
  <2>2. PICK m : m = n + 1
    OBVIOUS
  <2>3. EndOf(f, m - 1) \in 0..Len(script)
    BY <1>1, <2>1, <2>2, BetweenHunks
  <2>4. PICK l : l = EndOf(f, n)
    OBVIOUS
  <2>5. l \in 0..Len(script) /\ Len(script) \in l..Len(script)
    BY <2>1, <2>2, <2>3, <2>4, WholeBefore
  <2>6. NewSide(Begin(Len(script))) = Join(NewSide(Begin(l)), NewSide(SubSeq(script, l + 1, Len(script))))
    BY <2>5, NewSideGrows
  <2> QED BY <2>4, <2>6, WholeBefore
<1> QED BY <1>2, <1>9, <1>10

\* The diff of a file that is not empty makes the other version of it.
LEMMA DiffApplies ==
    ASSUME IsScript, OldSide(script) # << >>
    PROVE  /\ ApplyHunks(OldSide(script), Diff).error = "none"
           /\ ApplyHunks(OldSide(script), Diff).out
              = IF NewSide(script) = << >> THEN <<"">> ELSE NewSide(script)
<1>1. PICK old, hunks : /\ old = OldSide(script) /\ hunks = Diff
                        /\ old \in Seq(Lines) /\ hunks \in Seq(HunkType) /\ InOrder(hunks)
  BY DiffInOrder, WholeBefore
<1>2. PICK f : DiffFrom(f)
  BY DiffIsFrom
<1>3. \A k \in DOMAIN hunks : FitsAt(old, hunks[k])
  <2> TAKE k \in DOMAIN hunks
  <2>1. k \in 1..Len(Diff)
    BY <1>1, DiffLength
  <2> QED BY <1>1, <1>2, <2>1, DiffPlaces
<1>4. Fits(old, hunks)
  BY <1>3 DEF Fits, FitsAt
<1>5. ApplyHunks(old, hunks).error = "none" /\ ApplyHunks(old, hunks).out = Written(old, Spliced(old, hunks))
  BY <1>1, <1>4, HunksApplied
<1>6. Spliced(old, hunks) = NewSide(script)
  BY <1>1, DiffSplices
<1> QED BY <1>1, <1>5, <1>6 DEF Written

\* The diff of a new file begins before its first line, which "overlaps".
LEMMA NewFileOverlaps ==
    ASSUME IsScript, OldSide(script) = << >>, Diff # << >>, NEW file, file \in Seq(Lines)
    PROVE  ApplyHunks(file, Diff).error = "overlapping hunks"
<1>1. PICK n, hunks : /\ n = Len(Diff) /\ hunks = Diff /\ n \in Nat /\ n = Len(hunks)
                      /\ hunks \in Seq(HunkType)
  BY DiffInOrder, DiffLength
<1>2. PICK f : DiffFrom(f)
  BY DiffIsFrom
<1>3. n # 0
  BY <1>1, EmptySeq
<1>4. ASSUME NEW k, k \in 1..n PROVE hunks[k].start = 0
  <2>1. PICK p, hunk : p = f[k] /\ hunk = hunks[k]
    OBVIOUS
  <2>2. p \in HunkSpans /\ hunk = Hunk(p[1], p[2])
    BY <1>1, <1>2, <1>4, <2>1 DEF DiffFrom
  <2>3. Before(p[2]) = 0
    <3>1. PICK b : b = p[2]
      OBVIOUS
    <3>2. b \in 0..Len(script) /\ Len(script) \in b..Len(script)
      <4>1. p[2] \in 1..Len(script)
        BY <2>2, SpansType
      <4> QED BY <3>1, <4>1, WholeBefore
    <3>3. /\ Before(b) \in Nat /\ Len(OldSide(SubSeq(script, b + 1, Len(script)))) \in Nat
          /\ Before(Len(script)) = Before(b) + Len(OldSide(SubSeq(script, b + 1, Len(script))))
      BY <3>2, BeforeGrows
    <3>4. Before(Len(script)) = 0
      <4>1. Len(OldSide(script)) = 0
        OBVIOUS
      <4> QED BY <4>1, WholeBefore
    <3> QED BY <3>1, <3>3, <3>4
  <2>4. /\ Before(p[1] - 1) \in Nat /\ Len(OldSide(hunk.body)) \in Nat
        /\ Before(p[2]) = Before(p[1] - 1) + Len(OldSide(hunk.body))
        /\ hunk \in HunkType
    BY <2>2, HunkOfSpan
  <2>5. Len(OldSide(hunk.body)) = 0
    BY <2>3, <2>4
  <2>6. OldSide(hunk.body) = << >>
    <3>1. hunk.body \in Seq(Edit)
      BY <2>4 DEF HunkType
    <3>2. OldSide(hunk.body) \in Seq(Lines)
      BY <3>1, SideType DEF OldSide
    <3> QED BY <2>5, <3>2, EmptySeq
  <2>7. hunk.start = 0
    BY <2>2, <2>6, HunkOfSpan
  <2> QED BY <2>1, <2>7
<1>5. PICK st : HunkFold(file, hunks, st)
  BY <1>1, HunkStates
<1>6. n \in Nat
  BY <1>1
<1> DEFINE P == {k \in 0..n : k # 0 => st[k].error = "overlapping hunks"}
<1>7. 0 \in P
  BY <1>1
<1>8. ASSUME NEW j, j \in 0..(n - 1), j \in P PROVE j + 1 \in P
  <2>1. PICK k : k = j + 1
    OBVIOUS
  <2>2. j \in 0..(n - 1)
    BY <1>8
  <2>3. k \in 1..n /\ k \in 0..n /\ j = k - 1
    BY <1>6, <2>2, <2>1
  <2>4. st[k] = ApplyHunk(file, st[j], hunks[k])
    BY <1>1, <1>5, <2>3 DEF HunkFold
  <2>5. st[k].error = "overlapping hunks"
    <3>1. CASE j = 0
      <4>1. st[j] = Begun
        BY <1>5, <3>1 DEF HunkFold
      <4>2. OldStart(hunks[k]) < Begun.at
        <5>1. hunks[k].start = 0
          BY <1>4, <2>3
        <5> QED BY <5>1 DEF OldStart, Begun
      <4>3. Begun.error = "none" /\ Error(Begun, "overlapping hunks").error = "overlapping hunks"
        BY DEF Begun, Error
      <4>4. ApplyHunk(file, Begun, hunks[k]) = Error(Begun, "overlapping hunks")
        BY <4>2, <4>3 DEF ApplyHunk
      <4> QED BY <2>4, <4>1, <4>3, <4>4
    <3>2. CASE j # 0
      <4>1. st[j].error = "overlapping hunks"
        BY <1>8, <3>2
      <4> QED BY <2>4, <4>1 DEF ApplyHunk
    <3> QED BY <3>1, <3>2
  <2> QED BY <2>1, <2>3, <2>5
<1> HIDE DEF P
<1>9. \A k \in 0..n : k \in P
  BY <1>1, <1>7, <1>8, Counting
<1>10. n \in 0..n
  BY <1>1
<1>11. st[n].error = "overlapping hunks"
  BY <1>3, <1>9, <1>10 DEF P
<1>12. st[n] = ApplyEach(file, hunks)
  BY <1>1, <1>5 DEF HunkFold
<1>13. ApplyHunks(file, hunks).error = st[n].error
  BY <1>12, HunksAreEach
<1> QED BY <1>1, <1>11, <1>13

\* The lines of a part of the script.
LEMMA PartLines ==
    ASSUME IsScript, NEW a \in 1..Len(script), NEW b \in 1..Len(script), a <= b,
           NEW s, s = SubSeq(script, a, b)
    PROVE  /\ DOMAIN s = 1..(b - a + 1) /\ Len(s) = b - a + 1
           /\ \A j \in 1..(b - a + 1) : s[j] = script[a + j - 1]
<1>1. \A i \in a..b : script[i] \in Edit
  <2>1. \A i \in a..b : i \in 1..Len(script)
    BY WholeBefore
  <2> QED BY <2>1, ElementOfSeq DEF IsScript
<1>2. a \in Int /\ b \in Int
  OBVIOUS
<1>3. s \in Seq(Edit) /\ Len(s) = b - a + 1 /\ \A j \in 1..(b - a + 1) : s[j] = script[a + j - 1]
  BY <1>1, <1>2, SubSeqProperties
<1>4. DOMAIN s = 1..(b - a + 1)
  BY <1>3, LenProperties
<1> QED BY <1>3, <1>4

\* The lines of a hunk are the script's.
IsPart(body, a, b) ==
    /\ a \in 1..Len(script) /\ b \in 1..Len(script) /\ a <= b
    /\ DOMAIN body = 1..(b - a + 1) /\ Len(body) = b - a + 1
    /\ \A j \in 1..(b - a + 1) : body[j] = script[a + j - 1]

LEMMA HunkLines ==
    ASSUME IsScript, NEW f, DiffFrom(f), NEW k, k \in 1..Len(Diff)
    PROVE  IsPart(Diff[k].body, f[k][1], f[k][2])
<1>1. PICK a, b, body : a = f[k][1] /\ b = f[k][2] /\ body = Diff[k].body
  OBVIOUS
<1>2. f[k] \in HunkSpans /\ Diff[k] = Hunk(f[k][1], f[k][2])
  BY DEF DiffFrom
<1>3. a \in 1..Len(script) /\ b \in 1..Len(script) /\ a <= b
  BY <1>1, <1>2, SpansType
<1>4. body = SubSeq(script, a, b)
  BY <1>1, <1>2, HunkOfSpan
<1>5. IsPart(body, a, b)
  BY <1>3, <1>4, PartLines DEF IsPart
<1> QED BY <1>1, <1>5

\* A removed line of the script that begins with "-- " is in a hunk, ...
LEMMA DashIsShown ==
    ASSUME IsScript, NEW f, DiffFrom(f), NEW dashed, NEW i \in DashedLines(dashed)
    PROVE  \E k \in DOMAIN Diff : \E j \in DOMAIN Diff[k].body :
               /\ i = f[k][1] + j - 1 /\ Diff[k].body[j] = script[i]
               /\ k \in 1..Len(Diff) /\ j \in 1..Len(Diff[k].body)
<1>1. PICK n, hunks : /\ n = Len(script) /\ n \in Nat /\ hunks = Diff
  BY WholeBefore
<1>2. DOMAIN script = 1..n /\ DOMAIN Diff = 1..Len(Diff)
  BY <1>1, DiffLength, LenProperties DEF IsScript
<1>3. i \in 1..n /\ script[i].prefix = "-" /\ script[i].text \in dashed
  BY <1>2 DEF DashedLines
<1>4. Shown(i)
  <2>1. i - i <= Context
    BY <1>3, ContextAssumption
  <2> QED BY <1>2, <1>3, <2>1 DEF Shown
<1>5. PICK p : p \in HunkSpans /\ p[1] <= i /\ i <= p[2]
  BY <1>1, <1>3, <1>4, ShownIsSpanned
<1>6. PICK k : k \in 1..Len(Diff) /\ f[k] = p
  BY <1>5 DEF DiffFrom
<1>7. PICK a, b : a = f[k][1] /\ b = f[k][2]
  OBVIOUS
<1>8. PICK body : body = Diff[k].body
  OBVIOUS
<1>9. /\ a \in 1..n /\ b \in 1..n /\ a <= i /\ i <= b
      /\ DOMAIN body = 1..(b - a + 1) /\ Len(body) = b - a + 1
      /\ \A j \in 1..(b - a + 1) : body[j] = script[a + j - 1]
  <2>1. /\ a \in 1..Len(script) /\ b \in 1..Len(script) /\ a <= b
        /\ DOMAIN body = 1..(b - a + 1) /\ Len(body) = b - a + 1
        /\ \A j \in 1..(b - a + 1) : body[j] = script[a + j - 1]
    <3>1. IsPart(Diff[k].body, f[k][1], f[k][2])
      BY <1>6, HunkLines
    <3>2. IsPart(body, a, b)
      BY <1>7, <1>8, <3>1
    <3> QED BY <3>2 DEF IsPart
  <2> QED BY <1>1, <1>5, <1>6, <1>7, <2>1
<1>10. PICK j : j = i - a + 1 /\ j \in 1..(b - a + 1) /\ i = a + j - 1
  BY <1>3, <1>9
<1>11. body[j] = script[i] /\ j \in DOMAIN body /\ j \in 1..Len(body)
  BY <1>9, <1>10
<1> QED BY <1>2, <1>6, <1>7, <1>8, <1>10, <1>11

\* ... so that the hunks have such a line when the script has one, ...
LEMMA DashedInDiff ==
    ASSUME IsScript, NEW dashed
    PROVE  Dashes(Diff, dashed) = {} <=> DashedLines(dashed) = {}
<1>1. PICK f : DiffFrom(f)
  BY DiffIsFrom
<1>2. PICK n : n = Len(script) /\ n \in Nat
  BY WholeBefore
<1>3. DOMAIN script = 1..n /\ DOMAIN Diff = 1..Len(Diff)
  BY <1>2, DiffLength, LenProperties DEF IsScript
<1>4. ASSUME NEW at \in Dashes(Diff, dashed) PROVE DashedLines(dashed) # {}
  <2>1. PICK k \in DOMAIN Diff : \E j \in DOMAIN Diff[k].body :
              Diff[k].body[j].prefix = "-" /\ Diff[k].body[j].text \in dashed
    BY DashesAre
  <2>2. PICK j \in DOMAIN Diff[k].body :
              Diff[k].body[j].prefix = "-" /\ Diff[k].body[j].text \in dashed
    BY <2>1
  <2>3. PICK a, b, body : a = f[k][1] /\ b = f[k][2] /\ body = Diff[k].body
    OBVIOUS
  <2>4. /\ a \in 1..n /\ b \in 1..n /\ a <= b /\ DOMAIN body = 1..(b - a + 1)
        /\ \A l \in 1..(b - a + 1) : body[l] = script[a + l - 1]
    <3>1. IsPart(Diff[k].body, f[k][1], f[k][2])
      BY <1>1, <1>3, HunkLines
    <3>2. IsPart(body, a, b)
      BY <2>3, <3>1
    <3> QED BY <1>2, <3>2 DEF IsPart
  <2>5. j \in 1..(b - a + 1) /\ body[j] = script[a + j - 1]
    BY <2>3, <2>4
  <2>6. a + j - 1 \in 1..n
    BY <2>4, <2>5, <1>2
  <2> QED BY <1>3, <2>2, <2>3, <2>5, <2>6 DEF DashedLines
<1>5. ASSUME NEW i \in DashedLines(dashed) PROVE Dashes(Diff, dashed) # {}
  <2>1. PICK k \in DOMAIN Diff : \E j \in DOMAIN Diff[k].body : Diff[k].body[j] = script[i]
    BY <1>1, <1>5, DashIsShown
  <2>2. PICK j \in DOMAIN Diff[k].body : Diff[k].body[j] = script[i]
    BY <2>1
  <2>3. script[i].prefix = "-" /\ script[i].text \in dashed
    BY DEF DashedLines
  <2>4. <<k, j>> \in Dashes(Diff, dashed)
    BY <2>2, <2>3, DashesAre
  <2> QED BY <2>4
<1> QED BY <1>4, <1>5

\* ... which is no header there when none of it is in the script.
LEMMA BadHeaderInDiff ==
    ASSUME IsScript, NEW dashed, NEW plussed, NEW i \in DashedLines(dashed), ~ Heads(i, plussed)
    PROVE  \E at \in Dashes(Diff, dashed) : ~ IsHeader(Diff, at, plussed)
<1>1. PICK f : DiffFrom(f)
  BY DiffIsFrom
<1>2. PICK k \in DOMAIN Diff : \E j \in DOMAIN Diff[k].body :
            /\ i = f[k][1] + j - 1 /\ Diff[k].body[j] = script[i]
            /\ k \in 1..Len(Diff) /\ j \in 1..Len(Diff[k].body)
  BY <1>1, DashIsShown
<1>3. PICK j \in DOMAIN Diff[k].body :
            /\ i = f[k][1] + j - 1 /\ Diff[k].body[j] = script[i]
            /\ k \in 1..Len(Diff) /\ j \in 1..Len(Diff[k].body)
  BY <1>2
<1>4. script[i].prefix = "-" /\ script[i].text \in dashed
  BY DEF DashedLines
<1>5. PICK at : at = <<k, j>>
  OBVIOUS
<1>6. at \in Dashes(Diff, dashed)
  BY <1>3, <1>4, <1>5, DashesAre
<1>7. ASSUME IsHeader(Diff, at, plussed) PROVE FALSE
  <2>1. PICK a, b, body : a = f[k][1] /\ b = f[k][2] /\ body = Diff[k].body
    OBVIOUS
  <2>2. /\ a \in 1..Len(script) /\ b \in 1..Len(script) /\ a <= b /\ Len(body) = b - a + 1
        /\ \A l \in 1..(b - a + 1) : body[l] = script[a + l - 1]
    <3>1. IsPart(Diff[k].body, f[k][1], f[k][2])
      BY <1>1, <1>3, HunkLines
    <3>2. IsPart(body, a, b)
      BY <2>1, <3>1
    <3> QED BY <3>2 DEF IsPart
  <2>0. at[1] = k /\ at[2] = j
    BY <1>5
  <2>3. /\ j < Len(body)
        /\ body[j + 1].prefix = "+" /\ body[j + 1].text \in plussed
    BY <1>7, <2>0, <2>1 DEF IsHeader
  <2>4. Len(script) \in Nat
    BY WholeBefore
  <2>5. j \in 1..(b - a + 1) /\ i = a + j - 1
    BY <1>3, <2>1, <2>2
  <2>6. j + 1 \in 1..(b - a + 1) /\ a + (j + 1) - 1 = i + 1 /\ i < Len(script)
    BY <2>2, <2>3, <2>4, <2>5
  <2>7. body[j + 1] = script[i + 1]
    BY <2>2, <2>6
  <2> QED BY <2>3, <2>6, <2>7 DEF Heads
<1> QED BY <1>6, <1>7

\* A removed line makes a diff, and is an old line.
LEMMA RemovedIsOld ==
    ASSUME IsScript, NEW i, i \in DOMAIN script, script[i].prefix = "-"
    PROVE  Diff # << >> /\ OldSide(script) # << >>
<1>1. PICK n : n = Len(script) /\ n \in Nat /\ DOMAIN script = 1..n
  BY WholeBefore, LenProperties DEF IsScript
<1>2. i \in 1..n
  BY <1>1
<1>3. Diff # << >>
  <2>1. Shown(i)
    <3>1. i - i <= Context
      BY <1>2, ContextAssumption
    <3> QED BY <3>1 DEF Shown
  <2>2. PICK p : p \in HunkSpans
    BY <1>1, <1>2, <2>1, ShownIsSpanned
  <2>3. PICK f : DiffFrom(f)
    BY DiffIsFrom
  <2>4. PICK k : k \in 1..Len(Diff)
    BY <2>2, <2>3 DEF DiffFrom
  <2>5. Len(Diff) # 0
    BY <2>4
  <2> QED BY <2>5, EmptySeq
<1>4. OldSide(script) # << >>
  <2>1. Before(i - 1) \in Nat /\ Before(i) = Before(i - 1) + 1
    BY <1>1, <1>2, BeforeNext
  <2>2. i \in 0..Len(script) /\ Len(script) \in i..Len(script)
    BY <1>1, <1>2
  <2>3. /\ Len(OldSide(SubSeq(script, i + 1, Len(script)))) \in Nat
        /\ Before(Len(script)) = Before(i) + Len(OldSide(SubSeq(script, i + 1, Len(script))))
    BY <2>2, BeforeGrows
  <2>4. Len(OldSide(script)) # 0
    BY <2>1, <2>3, WholeBefore
  <2> QED BY <2>4, EmptySeq
<1> QED BY <1>3, <1>4

-----------------------------------------------------------------------------
(* What becomes of the files.                                               *)

\* A file that is removed again.
LEMMA WithoutWith ==
    ASSUME NEW files, NEW path, NEW lines, path \notin DOMAIN files, files = [p \in DOMAIN files |-> files[p]]
    PROVE  Without(With(files, path, lines), path) = files
<1>1. PICK more : more = With(files, path, lines)
  OBVIOUS
<1>2. DOMAIN more = DOMAIN files \cup {path} /\ \A p \in DOMAIN files : more[p] = files[p]
  BY <1>1 DEF With
<1>3. DOMAIN more \ {path} = DOMAIN files
  BY <1>2
<1>4. Without(more, path) = [p \in DOMAIN files |-> more[p]]
  BY <1>3 DEF Without, Restrict
<1> QED BY <1>1, <1>2, <1>4

\* A fix's commands leave alone the file of the setup, and make the spec's files the
\* fixed ones.
LEMMA OverlayWith ==
    ASSUME NEW before, NEW after, NEW path, NEW lines, path \notin DOMAIN before, path \notin DOMAIN after
    PROVE  Overlay(With(before, path, lines), before, after) = With(after, path, lines)
<1>1. PICK changed, removed, workspace :
        /\ changed = {p \in DOMAIN after : p \in DOMAIN before => before[p] # after[p]}
        /\ removed = DOMAIN before \ DOMAIN after
        /\ workspace = With(before, path, lines)
  OBVIOUS
<1>2. /\ DOMAIN workspace = DOMAIN before \cup {path} /\ workspace[path] = lines
      /\ \A p \in DOMAIN before : workspace[p] = before[p]
  BY <1>1 DEF With
<1>3. changed \cup (DOMAIN workspace \ removed) = DOMAIN after \cup {path}
  BY <1>1, <1>2
<1>4. \A p \in DOMAIN after \cup {path} :
        (IF p \in changed THEN after[p] ELSE workspace[p]) = IF p = path THEN lines ELSE after[p]
  BY <1>1, <1>2
<1>5. Overlay(workspace, before, after)
      = [p \in DOMAIN after \cup {path} |-> IF p \in changed THEN after[p] ELSE workspace[p]]
  BY <1>1, <1>3 DEF Overlay
<1> QED BY <1>1, <1>4, <1>5 DEF With

\* The diff of one file is applied to that file, when no line of it reads "--- ".
DoneBy(names, dashed, plussed) ==
    ApplyUnifiedDiff(BeforeDiff(names), FileDiff(names[1], names[2]), dashed, plussed)

LEMMA DiffOfFile ==
    ASSUME IsScript, Diff # << >>, NEW names, NEW dashed, NEW plussed, DashedLines(dashed) = {}
    PROVE  \E file : /\ file.old = names[1] /\ file.new = names[2] /\ file.hunks = Diff
                     /\ DoneBy(names, dashed, plussed)
                        = ApplyFile(NothingDone(BeforeDiff(names)), file)
<1>1. PICK hunks, done : hunks = Diff /\ done = NothingDone(BeforeDiff(names))
  OBVIOUS
<1>2. PICK a, b : a = names[1] /\ b = names[2]
  OBVIOUS
<1>3. PICK file : file = [old |-> a, new |-> b, hunks |-> hunks]
  OBVIOUS
<1>4. FileDiff(names[1], names[2]) = <<file>>
  BY <1>1, <1>2, <1>3 DEF FileDiff
<1>5. DoneBy(names, dashed, plussed) = ReadAndApply(done, file, dashed, plussed)
  BY <1>1, <1>4, DiffOfOne DEF DoneBy
<1>6. hunks \in Seq(HunkType) /\ hunks # << >>
  BY <1>1, DiffInOrder
<1>7. Dashes(hunks, dashed) = {}
  BY <1>1, DashedInDiff
<1>8. ReadAndApply(done, file, dashed, plussed) = ApplyFile(done, file)
  BY <1>3, <1>6, <1>7, ReadWithoutDashes
<1>9. file.old = names[1] /\ file.new = names[2] /\ file.hunks = Diff
  BY <1>1, <1>2, <1>3
<1> QED BY <1>1, <1>5, <1>8, <1>9

\* What stands in for a file is a file.
LEMMA StandInType ==
    ASSUME IsScript
    PROVE  OriginalFromHunks(Diff) \in Seq(Lines)
<1>1. PICK hunks, seqs : hunks = Diff /\ hunks \in Seq(HunkType) /\ seqs = OldSides(hunks)
  BY DiffInOrder
<1>2. seqs \in Seq(Seq(Lines)) /\ OriginalFromHunks(hunks) = FlattenSeq(seqs)
  BY <1>1, OldSidesType
<1>3. PICK fs : FlattenFold(seqs, Lines, fs)
  BY <1>2, FlattenStates
<1>4. Len(seqs) \in 0..Len(seqs)
  BY <1>2, LenProperties
<1>5. FlattenSeq(seqs) \in Seq(Lines)
  BY <1>3, <1>4 DEF FlattenFold
<1> QED BY <1>1, <1>2, <1>5

\* The names that two versions have.
LEMMA NamesOfDiff ==
    ASSUME NEW names, names \in Names
    PROVE  \/ names[1] = "a" /\ names[2] = "a"
           \/ names[1] = "a" /\ names[2] = "b"
           \/ names[1] = DevNull /\ names[2] = "a" /\ OldSide(script) = << >>
           \/ names[1] = "a" /\ names[2] = DevNull /\ NewSide(script) = << >>
BY DEF Names

\* Where the first version is, and that no file of the setup is in the way.
LEMMA FilesOfDiff ==
    ASSUME NEW names, names \in Names
    PROVE  /\ names[1] # DevNull => BeforeDiff(names)["a"] = OldSide(script) /\ "a" \in DOMAIN BeforeDiff(names)
                                    /\ Without(BeforeDiff(names), "a") = Other
           /\ names[1] = DevNull => "a" \notin DOMAIN BeforeDiff(names)
           /\ "s" \notin DOMAIN BeforeDiff(names) /\ "s" \notin DOMAIN AfterDiff(names)
<1>1. DOMAIN Other = {"c"} /\ Other = [p \in DOMAIN Other |-> Other[p]]
  BY DEF Other
<1>2. \A path, lines : DOMAIN With(Other, path, lines) = {"c", path} /\ With(Other, path, lines)[path] = lines
  BY <1>1 DEF With
<1>3. Without(With(Other, "a", OldSide(script)), "a") = Other
  BY <1>1, WithoutWith
<1>4. \/ names[1] = "a" /\ names[2] \in {"a", "b", DevNull}
      \/ names[1] = DevNull /\ names[2] = "a"
  BY NamesOfDiff
<1>5. DevNull = "/dev/null"
  BY DEF DevNull
<1>6. CASE names[1] = "a" /\ names[2] \in {"a", "b", DevNull}
  <2>1. BeforeDiff(names) = With(Other, "a", OldSide(script))
    BY <1>5, <1>6 DEF BeforeDiff
  <2>2. BeforeDiff(names)["a"] = OldSide(script) /\ DOMAIN BeforeDiff(names) = {"c", "a"}
    BY <1>2, <2>1
  <2>3. "s" \notin DOMAIN AfterDiff(names)
    <3>1. CASE names[2] = DevNull
      BY <1>1, <3>1 DEF AfterDiff
    <3>2. CASE names[2] # DevNull
      <4>1. PICK lines : lines = IF NewSide(script) = << >> THEN <<"">> ELSE NewSide(script)
        OBVIOUS
      <4>2. AfterDiff(names) = With(Other, names[2], lines)
        BY <3>2, <4>1 DEF AfterDiff
      <4>3. DOMAIN AfterDiff(names) = {"c", names[2]}
        BY <1>2, <4>2
      <4> QED BY <1>6, <3>2, <4>3
    <3> QED BY <3>1, <3>2
  <2> QED BY <1>3, <1>5, <1>6, <2>1, <2>2, <2>3
<1>7. CASE names[1] = DevNull /\ names[2] = "a"
  <2>1. BeforeDiff(names) = Other
    BY <1>7 DEF BeforeDiff
  <2>2. DOMAIN AfterDiff(names) = {"c", "a"}
    BY <1>2, <1>5, <1>7 DEF AfterDiff
  <2> QED BY <1>1, <1>7, <2>1, <2>2
<1> QED BY <1>4, <1>6, <1>7

\* What the property says of two versions that differ.
LEMMA DashedIsRefused ==
    ASSUME IsScript, Diff # << >>, NEW names, NEW dashed, NEW plussed,
           NEW i \in DashedLines(dashed), ~ Heads(i, plussed)
    PROVE  DoneBy(names, dashed, plussed).error # "none"
<1>1. PICK file : file = [old |-> names[1], new |-> names[2], hunks |-> Diff]
  OBVIOUS
<1>2. FileDiff(names[1], names[2]) = <<file>>
  BY <1>1 DEF FileDiff
<1>3. PICK done : done = NothingDone(BeforeDiff(names))
  OBVIOUS
<1>4. DoneBy(names, dashed, plussed) = ReadAndApply(done, file, dashed, plussed)
  BY <1>2, <1>3, DiffOfOne DEF DoneBy
<1>5. PICK at \in Dashes(file.hunks, dashed) : ~ IsHeader(file.hunks, at, plussed)
  <2>1. file.hunks = Diff
    BY <1>1
  <2> QED BY <2>1, BadHeaderInDiff
<1> QED BY <1>4, <1>5, BadHeaderIsRefused

\* The new file of a diff is refused.
LEMMA NewFileIsRefused ==
    ASSUME IsScript, Diff # << >>, NEW names, names \in Names, NEW dashed, NEW plussed,
           DashedLines(dashed) = {},
           names[2] # DevNull, OldSide(script) = << >>
    PROVE  DoneBy(names, dashed, plussed).error = "overlapping hunks"
<1>1. PICK before : before = BeforeDiff(names)
  OBVIOUS
<1>2. PICK file : /\ file.old = names[1] /\ file.new = names[2] /\ file.hunks = Diff
                  /\ DoneBy(names, dashed, plussed) = ApplyFile(NothingDone(before), file)
  BY <1>1, DiffOfFile
<1>4. NothingDone(before).error = "none" /\ NothingDone(before).files = before
  BY DEF NothingDone
<1>5. PICK source : source = IF file.old = DevNull THEN file.new ELSE file.old
  OBVIOUS
<1>6. PICK original : original = IF source \in DOMAIN before THEN before[source]
                                 ELSE OriginalFromHunks(Diff)
  OBVIOUS
<1>7. original \in Seq(Lines)
  <2>1. source = "a"
    <3>1. "a" # DevNull
      BY DEF DevNull
    <3>2. names[1] = "a" \/ (names[1] = DevNull /\ names[2] = "a")
      BY NamesOfDiff
    <3> QED BY <1>2, <1>5, <3>1, <3>2
  <2>2. names[1] # DevNull \/ names[1] = DevNull
    OBVIOUS
  <2>3. original = OldSide(script) \/ original = OriginalFromHunks(Diff)
    BY <1>1, <1>6, <2>1, FilesOfDiff
  <2> QED BY <2>3, StandInType, WholeBefore
<1>8. ApplyHunks(original, Diff).error = "overlapping hunks"
  BY <1>7, NewFileOverlaps
<1>9. PICK after : after = With(Without(before, source), file.new, ApplyHunks(original, Diff).out)
  OBVIOUS
<1>10. ApplyFile(NothingDone(before), file)
       = [error |-> ApplyHunks(original, Diff).error, files |-> after]
  BY <1>2, <1>4, <1>5, <1>6, <1>9 DEF ApplyFile
<1>11. PICK cause : cause = ApplyHunks(original, Diff).error
  OBVIOUS
<1>12. DoneBy(names, dashed, plussed) = [error |-> cause, files |-> after]
  BY <1>2, <1>10, <1>11
<1>13. DoneBy(names, dashed, plussed).error = cause
  BY <1>12
<1> QED BY <1>8, <1>11, <1>13

\* Any other diff makes the second version.
LEMMA OtherIsPatched ==
    ASSUME IsScript, Diff # << >>, NEW names, names \in Names, NEW dashed, NEW plussed,
           DashedLines(dashed) = {},
           names[2] = DevNull \/ OldSide(script) # << >>
    PROVE  /\ DoneBy(names, dashed, plussed) = [error |-> "none", files |-> AfterDiff(names)]
           /\ Overlay(With(BeforeDiff(names), "s", <<"setup">>), BeforeDiff(names), DoneBy(names, dashed, plussed).files)
              = With(AfterDiff(names), "s", <<"setup">>)
<1>1. PICK before : before = BeforeDiff(names)
  OBVIOUS
<1>2. PICK file : /\ file.old = names[1] /\ file.new = names[2] /\ file.hunks = Diff
                  /\ DoneBy(names, dashed, plussed) = ApplyFile(NothingDone(before), file)
  BY <1>1, DiffOfFile
<1>4. NothingDone(before).error = "none" /\ NothingDone(before).files = before
  BY DEF NothingDone
<1>5. names[1] = "a" /\ "a" # DevNull
  <2>1. "a" # DevNull
    BY DEF DevNull
  <2> QED BY <2>1, NamesOfDiff
<1>6. before["a"] = OldSide(script) /\ "a" \in DOMAIN before /\ Without(before, "a") = Other
  BY <1>1, <1>5, FilesOfDiff
<1>7. DoneBy(names, dashed, plussed) = [error |-> "none", files |-> AfterDiff(names)]
  <2>1. CASE names[2] = DevNull
    <3>1. ApplyFile(NothingDone(before), file)
          = [NothingDone(before) EXCEPT !.files = Without(@, file.old)]
      BY <1>2, <1>4, <2>1 DEF ApplyFile
    <3>2. @ = [error |-> "none", files |-> Other]
      BY <1>2, <1>5, <1>6 DEF NothingDone
    <3>3. AfterDiff(names) = Other
      BY <2>1 DEF AfterDiff
    <3> QED BY <1>2, <3>1, <3>2, <3>3
  <2>2. CASE names[2] # DevNull
    <3>1. PICK patched : patched = ApplyHunks(OldSide(script), Diff)
      OBVIOUS
    <3>2. patched.error = "none" /\ patched.out = IF NewSide(script) = << >> THEN <<"">> ELSE NewSide(script)
      BY <2>2, <3>1, DiffApplies
    <3>3. ApplyFile(NothingDone(before), file)
          = [error |-> patched.error, files |-> With(Without(before, "a"), file.new, patched.out)]
      BY <1>2, <1>4, <1>5, <1>6, <2>2, <3>1 DEF ApplyFile
    <3>4. AfterDiff(names) = With(Other, names[2], patched.out)
      BY <2>2, <3>2 DEF AfterDiff
    <3> QED BY <1>2, <1>6, <3>2, <3>3, <3>4
  <2> QED BY <2>1, <2>2
<1>8. PICK after : after = AfterDiff(names) /\ after = DoneBy(names, dashed, plussed).files
  BY <1>7
<1>9. "s" \notin DOMAIN before /\ "s" \notin DOMAIN after
  BY <1>1, <1>8, FilesOfDiff
<1>10. Overlay(With(before, "s", <<"setup">>), before, after) = With(after, "s", <<"setup">>)
  BY <1>9, OverlayWith
<1> QED BY <1>1, <1>7, <1>8, <1>10

-----------------------------------------------------------------------------
(* Theorems.                                                                *)

\* On a file that it was not made for, git's diff is applied by _apply_hunks only when every
\* hunk's old side is at the line that the hunk names, and then makes exactly what the hunks
\* say there: no hunk is moved, and no line that differs is overwritten.
THEOREM DiffNeverMisapplied == DiffSpec => []NeverMisapplied
<1>1. IsScript => NeverMisapplied
  <2>1. SUFFICES ASSUME IsScript, NEW n \in 1..MaxOther, NEW file \in [1..n -> Lines]
                 PROVE  /\ ApplyHunks(file, Diff).error = "none" <=> Fits(file, Diff)
                        /\ ApplyHunks(file, Diff).error = "none" /\ Spliced(file, Diff) # << >>
                             => ApplyHunks(file, Diff).out = Spliced(file, Diff)
    BY Zenon DEF NeverMisapplied
  <2>2. file \in Seq(Lines)
    OBVIOUS
  <2>3. PICK hunks, other : hunks = Diff /\ other = file
    OBVIOUS
  <2>4. hunks \in Seq(HunkType) /\ InOrder(hunks)
    BY <2>1, <2>3, DiffInOrder
  <2>5. /\ ApplyHunks(other, hunks).error = "none" <=> Fits(other, hunks)
        /\ Fits(other, hunks) => ApplyHunks(other, hunks).out = Written(other, Spliced(other, hunks))
    BY <2>2, <2>3, <2>4, HunksApplied
  <2> QED BY <2>3, <2>5 DEF Written
<1> QED BY <1>1, ScriptsAreScripts, PTL

\* A file that the sandbox spec does not have is made up by _original_from_hunks from the
\* old sides of its hunks: the diff then applies only when it has one hunk that starts at
\* line 1, and makes that hunk's new side; any other is refused.
THEOREM DiffStandsInFromLineOne == DiffSpec => []StandInOnlyFromLineOne
<1>1. IsScript => StandInOnlyFromLineOne
  <2>1. SUFFICES ASSUME IsScript, Diff # << >>, NEW done,
                        done = ApplyUnifiedDiff(<< >>, FileDiff("a", "a"), {}, {})
                 PROVE  /\ done.error = "none" <=> Len(Diff) = 1 /\ Diff[1].start = 1
                        /\ done.error = "none" /\ NewSide(Diff[1].body) # << >>
                             => done.files["a"] = NewSide(Diff[1].body)
    BY DEF StandInOnlyFromLineOne
  <2>2. PICK hunks : hunks = Diff
    OBVIOUS
  <2>3. /\ hunks \in Seq(HunkType) /\ hunks # << >> /\ InOrder(hunks)
        /\ \A i \in 1..Len(hunks) : i > 1 => AfterHunk(hunks, i - 1) < hunks[i].start
    BY <2>1, <2>2, DiffInOrder
  <2>4. PICK file : file = OriginalFromHunks(hunks)
    OBVIOUS
  <2>5. /\ file \in Seq(Lines)
        /\ Fits(file, hunks) <=> Len(hunks) = 1 /\ hunks[1].start = 1
        /\ Fits(file, hunks) => Spliced(file, hunks) = NewSide(hunks[1].body)
    BY <2>3, <2>4, StandIn
  <2>6. /\ ApplyHunks(file, hunks).error = "none" <=> Fits(file, hunks)
        /\ Fits(file, hunks) => ApplyHunks(file, hunks).out = Written(file, Spliced(file, hunks))
    BY <2>3, <2>5, HunksApplied
  <2>7. PICK of : of = [old |-> "a", new |-> "a", hunks |-> hunks]
    OBVIOUS
  <2>8. FileDiff("a", "a") = <<of>>
    BY <2>1, <2>2, <2>7 DEF FileDiff
  <2>9. done = ApplyFile(NothingDone(<< >>), of)
    <3>1. Dashes(hunks, {}) = {}
      BY DashesAre
    <3>2. done = ReadAndApply(NothingDone(<< >>), of, {}, {})
      BY <2>1, <2>8, DiffOfOne
    <3> QED BY <2>3, <2>7, <3>1, <3>2, ReadWithoutDashes
  <2>10. PICK patched : patched = ApplyHunks(file, hunks)
    OBVIOUS
  <2>11. done = [error |-> patched.error,
                 files |-> With(Without(<< >>, "a"), "a", patched.out)]
    <3>2. of.old = "a" /\ of.new = "a" /\ of.hunks = hunks /\ "a" # DevNull
      BY <2>7 DEF DevNull
    <3>3. "a" \notin DOMAIN NothingDone(<< >>).files
      BY DEF NothingDone
    <3>4. NothingDone(<< >>).error = "none" /\ NothingDone(<< >>).files = << >>
      BY DEF NothingDone
    <3> QED BY <2>4, <2>9, <2>10, <3>2, <3>3, <3>4 DEF ApplyFile
  <2>12. done.files["a"] = patched.out
    BY <2>11 DEF With
  <2> QED BY <2>2, <2>5, <2>6, <2>10, <2>11, <2>12 DEF Written
<1> QED BY <1>1, ScriptsAreScripts, PTL

\* git's diff of two versions turns the first into the second in apply_unified_diff, and the
\* overlay commands put the result in the sandbox and leave alone all other files, when no
\* removed line begins with "-- "; but a new file is refused, an empty result is one empty
\* line, and a file only moved stays.  When a removed line begins with "-- " and no added
\* line that begins with "++ " is directly after it, the diff is refused.
THEOREM DiffPatchesItsOriginal == DiffSpec => []PatchesItsOriginal
<1>1. ASSUME IsScript, NEW names, names \in Names, NEW dashed, NEW plussed
      PROVE  CASE Diff = << >> ->
                     DoneBy(names, dashed, plussed) = [error |-> "none", files |-> BeforeDiff(names)]
               [] \E i \in DashedLines(dashed) : ~ Heads(i, plussed) ->
                     DoneBy(names, dashed, plussed).error # "none"
               [] /\ Diff # << >> /\ DashedLines(dashed) = {}
                  /\ names[2] # DevNull /\ OldSide(script) = << >> ->
                     DoneBy(names, dashed, plussed).error = "overlapping hunks"
               [] /\ Diff # << >> /\ DashedLines(dashed) = {}
                  /\ names[2] = DevNull \/ OldSide(script) # << >> ->
                     /\ DoneBy(names, dashed, plussed) = [error |-> "none", files |-> AfterDiff(names)]
                     /\ Overlay(With(BeforeDiff(names), "s", <<"setup">>), BeforeDiff(names),
                                DoneBy(names, dashed, plussed).files)
                        = With(AfterDiff(names), "s", <<"setup">>)
               [] OTHER -> TRUE
  <2>1. CASE Diff = << >>
    <3>1. FileDiff(names[1], names[2]) = << >>
      BY <2>1 DEF FileDiff
    <3>2. DoneBy(names, dashed, plussed) = NothingDone(BeforeDiff(names))
      BY <3>1, DiffOfNone DEF DoneBy
    <3>3. DashedLines(dashed) = {}
      BY <1>1, <2>1, RemovedIsOld DEF DashedLines
    <3> QED BY <2>1, <3>2, <3>3 DEF NothingDone
  <2>2. CASE Diff # << >> /\ \E i \in DashedLines(dashed) : ~ Heads(i, plussed)
    <3>1. DoneBy(names, dashed, plussed).error # "none"
      BY <1>1, <2>2, DashedIsRefused
    <3>2. DashedLines(dashed) # {}
      BY <2>2
    <3> QED BY <2>2, <3>1, <3>2
  <2>3. CASE Diff # << >> /\ DashedLines(dashed) = {} /\ names[2] # DevNull /\ OldSide(script) = << >>
    <3>1. DoneBy(names, dashed, plussed).error = "overlapping hunks"
      BY <1>1, <2>3, NewFileIsRefused
    <3> QED BY <2>3, <3>1
  <2>4. CASE Diff # << >> /\ DashedLines(dashed) = {} /\ (names[2] = DevNull \/ OldSide(script) # << >>)
    <3>1. /\ DoneBy(names, dashed, plussed) = [error |-> "none", files |-> AfterDiff(names)]
          /\ Overlay(With(BeforeDiff(names), "s", <<"setup">>), BeforeDiff(names),
                     DoneBy(names, dashed, plussed).files)
             = With(AfterDiff(names), "s", <<"setup">>)
      BY <1>1, <2>4, OtherIsPatched
    <3> QED BY <2>4, <3>1
  <2>5. CASE Diff # << >> /\ DashedLines(dashed) # {} /\ ~ \E i \in DashedLines(dashed) : ~ Heads(i, plussed)
    BY <2>5
  <2> QED BY <2>1, <2>2, <2>3, <2>4, <2>5
<1>2. IsScript => PatchesItsOriginal
  BY <1>1 DEF PatchesItsOriginal, DoneBy
<1> QED BY <1>2, ScriptsAreScripts, PTL
=============================================================================
