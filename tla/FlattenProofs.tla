----------------------------- MODULE FlattenProofs -----------------------------
(***************************************************************************)
(* What Flatten does with a column, for every column of cells of one type, *)
(* however deep: what unflatten() makes of the flat columns.               *)
(*                                                                         *)
(* The cells and the schema nodes that describe them come in levels, and   *)
(* each fact is proved of a level from the levels below.                   *)
(***************************************************************************)
EXTENDS Flatten, NatRecursion, FiniteSetTheorems

(* A finite set of naturals has a largest element. *)
LEMMA Largest ==
  ASSUME NEW S, IsFiniteSet(S), S # {}, S \subseteq Nat
  PROVE  Max(S) \in S /\ \A x \in S : x <= Max(S)
<1>1. PICK n \in Nat : ExistsBijection(1 .. n, S)
  BY FS_CardinalityType
<1>2. PICK f \in [1 .. n -> S] : \A x \in S : \E i \in 1 .. n : f[i] = x
  BY <1>1 DEF ExistsBijection, Bijection, Surjection
<1> DEFINE T == {r \in 1 .. n : \E i \in 1 .. r : \A j \in 1 .. r : f[j] <= f[i]}
<1>3. n > 0
  <2>1. PICK x \in S : TRUE
    OBVIOUS
  <2>2. PICK i \in 1 .. n : f[i] = x
    BY <1>2
  <2> QED
    BY <2>2
<1>4. \A i \in 1 .. n : f[i] \in Nat
  BY <1>2
<1>5. 1 \in T
  <2>1. \A i \in 1 .. 1 : i = 1
    OBVIOUS
  <2>2. f[1] <= f[1]
    BY <1>3, <1>4
  <2> QED
    BY <1>3, <2>1, <2>2
<1>6. ASSUME NEW r \in 1 .. n - 1, r \in T PROVE r + 1 \in T
  <2>1. PICK i \in 1 .. r : \A j \in 1 .. r : f[j] <= f[i]
    BY <1>6
  <2>2. /\ r + 1 \in 1 .. n /\ i \in 1 .. r + 1 /\ r + 1 \in 1 .. r + 1
        /\ \A j \in 1 .. r + 1 : j = r + 1 \/ j \in 1 .. r
        /\ f[i] \in Nat /\ f[r + 1] \in Nat
    BY <1>4
  <2>3. CASE f[r + 1] <= f[i]
    BY <2>1, <2>2, <2>3
  <2>4. CASE f[i] <= f[r + 1]
    <3>1. ASSUME NEW j \in 1 .. r PROVE f[j] <= f[r + 1]
      <4>1. f[j] \in Nat /\ f[j] <= f[i]
        BY <1>4, <2>1
      <4> QED
        BY <2>2, <2>4, <4>1
    <3>2. f[r + 1] <= f[r + 1]
      BY <2>2
    <3> QED
      BY <2>2, <3>1, <3>2
  <2> QED
    BY <2>2, <2>3, <2>4
<1> HIDE DEF T
<1>7. n \in T
  <2>1. \A r \in 1 .. n : r \in T
    BY <1>5, <1>6, InductionAlong
  <2>2. n \in 1 .. n
    BY <1>3
  <2> QED
    BY <2>1, <2>2
<1>8. PICK i \in 1 .. n : \A j \in 1 .. n : f[j] <= f[i]
  BY <1>7 DEF T
<1>9. f[i] \in S /\ \A x \in S : x <= f[i]
  BY <1>2, <1>8
<1> QED
  BY <1>9 DEF Max

(* What is taken of a sequence, place by place. *)
LEMMA TakenBy ==
  ASSUME NEW V, NEW s \in Seq(V), NEW places
  PROVE  \E taken \in [0 .. Len(s) -> Seq(V)] :
            /\ At(s, places) = taken[Len(s)]
            /\ taken[0] = <<>>
            /\ \A i \in 1 .. Len(s) :
                  taken[i] = IF i \in places THEN Append(taken[i - 1], s[i]) ELSE taken[i - 1]
<1> DEFINE n == Len(s)
           Body(f) == [i \in 0 .. n |->
                         IF i = 0 THEN <<>>
                         ELSE IF i \in places THEN Append(f[i - 1], s[i]) ELSE f[i - 1]]
           taken == CHOOSE f : f = Body(f)
           step == [p \in Nat \X Seq(V) |->
                      IF p[1] + 1 \in places /\ p[1] + 1 \in 1 .. n
                      THEN Append(p[2], s[p[1] + 1]) ELSE p[2]]
<1>1. n \in Nat /\ \A i \in 1 .. n : s[i] \in V
  OBVIOUS
<1>2. At(s, places) = taken[n]
  BY DEF At
<1>3. step \in [Nat \X Seq(V) -> Seq(V)]
  <2>1. ASSUME NEW i \in 1 .. n, NEW v \in Seq(V) PROVE Append(v, s[i]) \in Seq(V)
    BY <1>1
  <2> HIDE DEF n
  <2> QED
    BY <2>1
<1>4. \A i \in Nat, v \in Seq(V) :
         step[<<i, v>>] = IF i + 1 \in places /\ i + 1 \in 1 .. n THEN Append(v, s[i + 1]) ELSE v
  OBVIOUS
<1> HIDE DEF step, n
<1>5. PICK g \in [Nat -> Seq(V)] : Follows(g, <<>>, step)
  <2>1. <<>> \in Seq(V)
    OBVIOUS
  <2> QED
    BY <1>3, <2>1, Recursion
<1> DEFINE t == [i \in 0 .. n |-> g[i]]
<1>6. t \in [0 .. n -> Seq(V)] /\ t[0] = <<>>
  BY <1>1, <1>5 DEF Follows
<1>7. ASSUME NEW i \in 1 .. n
      PROVE  t[i] = IF i \in places THEN Append(t[i - 1], s[i]) ELSE t[i - 1]
  <2>1. i - 1 \in Nat /\ (i - 1) + 1 = i /\ i \in 0 .. n /\ i - 1 \in 0 .. n
    BY <1>1
  <2>2. g[(i - 1) + 1] = step[<<i - 1, g[i - 1]>>] /\ g[i - 1] \in Seq(V)
    BY <1>5, <2>1 DEF Follows
  <2> QED
    BY <1>4, <2>1, <2>2
<1>8. t = Body(t)
  <2>1. ASSUME NEW i \in 0 .. n, i # 0 PROVE i \in 1 .. n
    BY <1>1, <2>1
  <2>2. ASSUME NEW i \in 0 .. n
        PROVE  t[i] = IF i = 0 THEN <<>>
                      ELSE IF i \in places THEN Append(t[i - 1], s[i]) ELSE t[i - 1]
    <3>1. CASE i = 0
      BY <1>6, <3>1
    <3>2. CASE i # 0
      BY <1>7, <2>1, <3>2
    <3> QED
      BY <3>1, <3>2
  <2>3. t = [i \in 0 .. n |-> t[i]]
    OBVIOUS
  <2> HIDE DEF t
  <2> QED
    BY <2>2, <2>3
<1>9. taken = Body(taken)
  BY <1>8
<1> HIDE DEF taken, t
<1>10. /\ taken[0] = <<>>
       /\ \A i \in 1 .. n : taken[i] = IF i \in places THEN Append(taken[i - 1], s[i])
                                       ELSE taken[i - 1]
  <2>1. 0 \in 0 .. n /\ \A i \in 1 .. n : i \in 0 .. n /\ i # 0
    BY <1>1
  <2> QED
    BY <1>9, <2>1
<1>11. \A i \in 0 .. n : taken[i] = t[i]
  <2> DEFINE T == {r \in 1 .. n + 1 : taken[r - 1] = t[r - 1]}
  <2>1. 1 \in T
    <3>1. 1 - 1 = 0 /\ 1 \in 1 .. n + 1
      BY <1>1
    <3> QED
      BY <1>6, <1>10, <3>1
  <2>2. ASSUME NEW r \in 1 .. (n + 1) - 1, r \in T PROVE r + 1 \in T
    <3>1. r \in 1 .. n /\ r + 1 \in 1 .. n + 1 /\ (r + 1) - 1 = r
      BY <1>1
    <3>2. taken[r - 1] = t[r - 1]
      BY <2>2
    <3>3. taken[r] = t[r]
      BY <1>7, <1>10, <3>1, <3>2
    <3> QED
      BY <3>1, <3>3
  <2>3. n + 1 \in Nat /\ n + 1 > 0
    BY <1>1
  <2> HIDE DEF T
  <2>4. \A r \in 1 .. n + 1 : r \in T
    BY <2>1, <2>2, <2>3, InductionAlong
  <2>5. \A i \in 0 .. n : i + 1 \in 1 .. n + 1 /\ (i + 1) - 1 = i
    BY <1>1
  <2> QED
    BY <2>4, <2>5 DEF T
<1>12. taken = t
  BY <1>6, <1>8, <1>9, <1>11
<1> QED
  BY <1>2, <1>6, <1>10, <1>12 DEF n

(* What is taken is of the sequence and no longer than it.                  *)
LEMMA AtOf ==
  ASSUME NEW V, NEW s \in Seq(V), NEW places
  PROVE  /\ At(s, places) \in Seq(V)
         /\ Len(At(s, places)) <= Len(s)
         /\ \A j \in DOMAIN At(s, places) :
               \E i \in DOMAIN s : i \in places /\ At(s, places)[j] = s[i]
<1> DEFINE n == Len(s)
           Good(v, i) == /\ Len(v) <= i
                         /\ \A j \in 1 .. Len(v) :
                               \E q \in 1 .. n : q \in places /\ v[j] = s[q]
<1>1. n \in Nat /\ DOMAIN s = 1 .. n
  OBVIOUS
<1>2. PICK taken \in [0 .. n -> Seq(V)] :
         /\ At(s, places) = taken[n]
         /\ taken[0] = <<>>
         /\ \A i \in 1 .. n :
               taken[i] = IF i \in places THEN Append(taken[i - 1], s[i]) ELSE taken[i - 1]
  BY TakenBy
<1> DEFINE T == {r \in 1 .. n + 1 : Good(taken[r - 1], r - 1)}
<1>3. 1 \in T
  <2>1. 1 - 1 = 0 /\ 1 \in 1 .. n + 1 /\ Len(<<>>) = 0 /\ 1 .. 0 = {}
    BY <1>1
  <2> QED
    BY <1>2, <2>1
<1>4. ASSUME NEW r \in 1 .. (n + 1) - 1, r \in T PROVE r + 1 \in T
  <2> DEFINE v == taken[r - 1]
  <2>1. r \in 1 .. n /\ r + 1 \in 1 .. n + 1 /\ (r + 1) - 1 = r /\ r - 1 \in 0 .. n
    BY <1>1
  <2>2. v \in Seq(V) /\ Good(v, r - 1)
    BY <1>2, <1>4, <2>1
  <2>3. taken[r] = IF r \in places THEN Append(v, s[r]) ELSE v
    BY <1>2, <2>1
  <2> HIDE DEF v
  <2>4. CASE r \in places
    <3> DEFINE w == Append(v, s[r])
    <3>1. s[r] \in V /\ Len(v) \in Nat
      BY <2>1, <2>2
    <3>2. /\ Len(w) = Len(v) + 1 /\ w[Len(v) + 1] = s[r]
          /\ \A j \in 1 .. Len(v) : w[j] = v[j]
      BY <2>2, <3>1
    <3>3. \A j \in 1 .. Len(v) + 1 : j = Len(v) + 1 \/ j \in 1 .. Len(v)
      BY <3>1
    <3> HIDE DEF w
    <3>4. Good(w, r)
      BY <2>1, <2>2, <2>4, <3>1, <3>2, <3>3
    <3> QED
      BY <2>1, <2>3, <2>4, <3>4 DEF w
  <2>5. CASE r \notin places
    <3>1. Len(v) <= r
      BY <2>1, <2>2
    <3> QED
      BY <2>1, <2>2, <2>3, <2>5, <3>1
  <2> QED
    BY <2>4, <2>5
<1>5. n + 1 \in Nat /\ n + 1 > 0 /\ n + 1 \in 1 .. n + 1 /\ (n + 1) - 1 = n /\ n \in 0 .. n
  BY <1>1
<1> HIDE DEF T
<1>6. \A r \in 1 .. n + 1 : r \in T
  BY <1>3, <1>4, <1>5, InductionAlong
<1>7. Good(taken[n], n) /\ taken[n] \in Seq(V)
  <2>1. n + 1 \in T
    BY <1>5, <1>6
  <2> HIDE DEF Good
  <2>2. Good(taken[(n + 1) - 1], (n + 1) - 1)
    BY <2>1 DEF T
  <2> QED
    BY <1>2, <1>5, <2>2
<1>8. DOMAIN taken[n] = 1 .. Len(taken[n])
  BY <1>7
<1> QED
  BY <1>1, <1>2, <1>7, <1>8

(* The first places make the beginning of the sequence.                     *)
LEMMA AtFirst ==
  ASSUME NEW V, NEW s \in Seq(V), NEW m \in 0 .. Len(s), NEW places,
         \A i \in 1 .. Len(s) : i \in places <=> i <= m
  PROVE  At(s, places) = [i \in 1 .. m |-> s[i]]
<1> DEFINE n == Len(s)
           First(i) == [j \in 1 .. i |-> s[j]]
           Up(i) == IF i <= m THEN i ELSE m
<1>1. n \in Nat /\ m \in Nat /\ m <= n /\ \A i \in 1 .. n : s[i] \in V
  OBVIOUS
<1>2. PICK taken \in [0 .. n -> Seq(V)] :
         /\ At(s, places) = taken[n]
         /\ taken[0] = <<>>
         /\ \A i \in 1 .. n :
               taken[i] = IF i \in places THEN Append(taken[i - 1], s[i]) ELSE taken[i - 1]
  BY TakenBy
<1> DEFINE T == {r \in 1 .. n + 1 : taken[r - 1] = First(Up(r - 1))}
<1>3. 1 \in T
  <2>1. 1 - 1 = 0 /\ 1 \in 1 .. n + 1 /\ Up(0) = 0 /\ First(0) = <<>>
    BY <1>1
  <2> HIDE DEF First, Up
  <2> QED
    BY <1>2, <2>1
<1>4. ASSUME NEW r \in 1 .. (n + 1) - 1, r \in T PROVE r + 1 \in T
  <2>1. r \in 1 .. n /\ r + 1 \in 1 .. n + 1 /\ (r + 1) - 1 = r /\ r - 1 \in 0 .. n
    BY <1>1
  <2>2. taken[r - 1] = First(Up(r - 1))
    BY <1>4
  <2>3. taken[r] = IF r \in places THEN Append(taken[r - 1], s[r]) ELSE taken[r - 1]
    BY <1>2, <2>1
  <2>4. CASE r <= m
    <3>1. Up(r - 1) = r - 1 /\ Up(r) = r
      BY <1>1, <2>1, <2>4
    <3>2. Append(First(r - 1), s[r]) = First(r)
      <4>1. First(r - 1) \in Seq(V) /\ Len(First(r - 1)) = r - 1
        <5>1. \A j \in 1 .. r - 1 : j \in 1 .. n
          BY <1>1, <2>1
        <5>2. \A j \in 1 .. r - 1 : s[j] \in V
          BY <1>1, <5>1
        <5>3. r - 1 \in Nat
          BY <2>1
        <5> QED
          BY <5>2, <5>3
      <4>2. s[r] \in V
        BY <1>1, <2>1
      <4>3. (r - 1) + 1 = r /\ \A j \in 1 .. r : j = r \/ j \in 1 .. r - 1
        BY <2>1
      <4>4. \A j \in 1 .. r - 1 : First(r - 1)[j] = s[j]
        OBVIOUS
      <4> DEFINE v == First(r - 1)
      <4> HIDE DEF v
      <4>5. /\ Append(v, s[r]) \in Seq(V)
            /\ Len(Append(v, s[r])) = r
            /\ Append(v, s[r])[r] = s[r]
            /\ \A j \in 1 .. r - 1 : Append(v, s[r])[j] = v[j]
        BY <4>1, <4>2, <4>3 DEF v
      <4> DEFINE w == Append(v, s[r])
      <4> HIDE DEF w
      <4>6. w = [j \in 1 .. r |-> s[j]]
        <5>1. w = [j \in 1 .. r |-> w[j]]
          BY <4>5 DEF w
        <5>2. \A j \in 1 .. r : w[j] = s[j]
          BY <4>3, <4>4, <4>5 DEF w, v
        <5> QED
          BY <5>1, <5>2
      <4> QED
        BY <4>6 DEF w, v
    <3> QED
      BY <2>1, <2>2, <2>3, <2>4, <3>1, <3>2
  <2>5. CASE ~(r <= m)
    <3>1. Up(r - 1) = m /\ Up(r) = m
      BY <1>1, <2>1, <2>5
    <3> QED
      BY <2>1, <2>2, <2>3, <2>5, <3>1
  <2> QED
    BY <2>4, <2>5
<1>5. n + 1 \in Nat /\ n + 1 > 0 /\ n + 1 \in 1 .. n + 1 /\ (n + 1) - 1 = n
  BY <1>1
<1> HIDE DEF T
<1>6. \A r \in 1 .. n + 1 : r \in T
  BY <1>3, <1>4, <1>5, InductionAlong
<1>7. taken[n] = First(Up(n))
  BY <1>5, <1>6 DEF T
<1>8. Up(n) = m
  BY <1>1
<1> QED
  BY <1>2, <1>7, <1>8
-----------------------------------------------------------------------------

(* Each method calls itself. *)
FlattenRecursion ==
    /\ \A S : InferPandasBelow(S) = InferPandas(S)
    /\ \A S, type : InferArrowBelow(S, type) = InferArrow(S, type)
    /\ \A c : RenderedBelow(c) = Rendered(c)
    /\ \A b, cells, node, name :
          FlattenCellsBelow(b, cells, node, name) = FlattenCells(b, cells, node, name)
    /\ \A c, node : ConformedBelow(c, node) = Conformed(c, node)
    /\ \A b, flat, node, name, r :
          CellOfBelow(b, flat, node, name, r) = CellOf(b, flat, node, name, r)
    /\ \A c, d : ReturnedBelow(c, d) = Returned(c, d)
    /\ \A S : WholeBelow(S) = Whole(S)
    /\ \A b, d, S : FitsBelow(b, d, S) = Fits(b, d, S)
    /\ \A b, cells, node, name :
          NamesApartBelow(b, cells, node, name) = NamesApart(b, cells, node, name)

(* A schema node describes a set of cells when its kind is theirs and its   *)
(* children or its element describe what is inside of them.  The pairs of  *)
(* cells and nodes come in levels, those of the parts below.               *)

(* The keys of a dictionary are texts. *)
Texts(Tokens, keys) == \A key \in keys : Spelled(key) \in Seq(Tokens)

(* Cells of dictionaries, some of them null.                                *)
DictShape(Tokens, levels, n, S, node) ==
    /\ node.k = "dict"
    /\ Texts(Tokens, DOMAIN node.children)
    /\ \A c \in S : \/ c = Null
                    \/ c.k = "dict" /\ c = Dict([key \in DOMAIN c.f |-> c.f[key]])
    /\ Keys(S) = IF Dicts(S) = {} THEN {} ELSE DOMAIN node.children
    /\ \A key \in DOMAIN node.children :
          <<{Get(c, key) : c \in S}, node.children[key]>> \in Below(levels, n)

(* The element of an Arrow list describes the places that are filled up too. *)
Inside(b, S) == Elements(S) \cup IF b = "arrow" THEN {Null} ELSE {}

(* Cells of lists, some of them null.                                       *)
ArrayShape(b, levels, n, S, node) ==
    /\ node.k = "array"
    /\ \A c \in S : \/ c = Null
                    \/ /\ c.k = "list" /\ c = List(c.s) /\ c.s \in Seq(Elements(S))
                       /\ Len(c.s) <= node.max
    /\ node.max \in Nat /\ node.max = MaxLen(S)
    /\ b = "pandas" => (node.nullable_elements <=> Null \in Elements(S))
    /\ node.nullable_array => Null \in S
    /\ <<Inside(b, S), node.element>> \in Below(levels, n)

(* Cells of neither.                                                        *)
LeafShape(S, node) ==
    /\ node.k \notin {"dict", "array"}
    /\ \A c \in S : c.k \notin {"dict", "list"}

(* The tokens of names that come from the code. *)
Marks == {".", "_is_null", "[", "]", "__"} \cup Nat

(* Every pair of every level is of one of these.                            *)
Shapes(b, Tokens, levels) ==
    /\ Marks \subseteq Tokens
    /\ b \in {"pandas", "arrow"}
    /\ \A n \in Nat : \A p \in levels[n] :
          \/ DictShape(Tokens, levels, n, p[1], p[2])
          \/ ArrayShape(b, levels, n, p[1], p[2])
          \/ LeafShape(p[1], p[2])

(* What is put behind a name. *)
LEMMA Longer ==
  ASSUME NEW Tokens, NEW name \in Seq(Tokens), NEW tail \in Seq(Tokens), Len(tail) >= 2
  PROVE  /\ (name \o tail)[Len(name) + 1] = tail[1]
         /\ (name \o tail)[Len(name) + 2] = tail[2]
OBVIOUS

(* The name of what is under a key. *)
LEMMA ChildName ==
  ASSUME NEW Tokens, NEW name \in Seq(Tokens), NEW key, Spelled(key) \in Seq(Tokens),
         Marks \subseteq Tokens
  PROVE  Child(name, key) \in Seq(Tokens)
<1> DEFINE text == Spelled(key)
           dot == <<".">>
<1>1. dot \in Seq(Tokens) /\ text \in Seq(Tokens)
  BY DEF Marks
<1>2. Child(name, key) = name \o dot \o text
  BY DEF Child
<1> HIDE DEF text, dot
<1>3. name \o dot \in Seq(Tokens)
  BY <1>1
<1> QED
  BY <1>1, <1>2, <1>3

(* The name of the column that says which lists are null. *)
LEMMA FlagNameIs ==
  ASSUME NEW Tokens, NEW name \in Seq(Tokens), Marks \subseteq Tokens
  PROVE  FlagName(name)[Len(name) + 1] = "."
<1> DEFINE tail == <<".", "_is_null">>
<1>1. tail \in Seq(Tokens) /\ Len(tail) >= 2 /\ tail[1] = "."
  BY DEF Marks
<1> HIDE DEF tail
<1>2. FlagName(name) = name \o tail
  BY DEF FlagName, tail
<1> QED
  BY <1>1, <1>2, Longer

(* The name of the column of the elements at one place. *)
LEMMA ElementName ==
  ASSUME NEW Tokens, NEW name \in Seq(Tokens), NEW b, NEW i \in Nat, Marks \subseteq Tokens
  PROVE  /\ Element(b, name, i)[Len(name) + 1] \in {"[", "__"}
         /\ Element(b, name, i)[Len(name) + 2] = i
<1> DEFINE bracket == <<"[", i, "]">>
           mark == <<"__", i>>
<1>1. /\ bracket \in Seq(Tokens) /\ Len(bracket) >= 2 /\ bracket[1] = "[" /\ bracket[2] = i
      /\ mark \in Seq(Tokens) /\ Len(mark) >= 2 /\ mark[1] = "__" /\ mark[2] = i
  BY DEF Marks
<1> HIDE DEF bracket, mark
<1>2. Element(b, name, i) = name \o bracket \/ Element(b, name, i) = name \o mark
  BY DEF Element, bracket, mark
<1>3. CASE Element(b, name, i) = name \o bracket
  BY <1>1, <1>3, Longer
<1>4. CASE Element(b, name, i) = name \o mark
  BY <1>1, <1>4, Longer
<1> QED
  BY <1>2, <1>3, <1>4

-----------------------------------------------------------------------------
(* flatten() *)

(* The cells that a dictionary column has under a key. *)
Under(cells, key) == [r \in DOMAIN cells |-> Get(cells[r], key)]

(* The flat columns of each key of a dictionary column. *)
ByKey(b, cells, node, name) ==
    [key \in DOMAIN node.children |->
       FlattenCells(b, Under(cells, key), node.children[key], Child(name, key))]

(* The flat columns of a dictionary column are those of its keys. *)
LEMMA FlattenDict ==
  ASSUME FlattenRecursion, NEW b, NEW cells, NEW node, NEW name, node.k = "dict"
  PROVE  FlattenCells(b, cells, node, name) = Joined(ByKey(b, cells, node, name))
<1>1. ByKey(b, cells, node, name) =
        [key \in DOMAIN node.children |->
           FlattenCellsBelow(b, [r \in DOMAIN cells |-> Get(cells[r], key)],
                             node.children[key], Child(name, key))]
  BY DEF FlattenRecursion, Under, ByKey
<1> QED
  BY <1>1 DEF FlattenCells

(* What the keys of a dictionary column have, one by one, is apart too. *)
LEMMA NamesUnder ==
  ASSUME FlattenRecursion, NEW b, NEW cells, NEW node, NEW name, node.k = "dict",
         NamesApart(b, cells, node, name), NEW key \in DOMAIN node.children
  PROVE  /\ NamesApart(b, Under(cells, key), node.children[key], Child(name, key))
         /\ \A other \in DOMAIN node.children : key # other =>
               DOMAIN ByKey(b, cells, node, name)[key]
                 \cap DOMAIN ByKey(b, cells, node, name)[other] = {}
<1> DEFINE names(k) == DOMAIN FlattenCellsBelow(b, [r \in DOMAIN cells |-> Get(cells[r], k)],
                                                node.children[k], Child(name, k))
<1>1. /\ \A k, other \in DOMAIN node.children : k # other => names(k) \cap names(other) = {}
      /\ \A k \in DOMAIN node.children :
            NamesApartBelow(b, [r \in DOMAIN cells |-> Get(cells[r], k)],
                            node.children[k], Child(name, k))
  BY DEF NamesApart
<1>2. NamesApart(b, Under(cells, key), node.children[key], Child(name, key))
  BY <1>1 DEF FlattenRecursion, Under
<1>3. \A k \in DOMAIN node.children : names(k) = DOMAIN ByKey(b, cells, node, name)[k]
  BY DEF FlattenRecursion, Under, ByKey
<1> HIDE DEF names
<1> QED
  BY <1>1, <1>2, <1>3

(* flat has, in its row r, for each flat column one of the cells of that    *)
(* column: Taken from any row, or Taken from this one.                     *)
TakenFrom(rows, flat, r, columns) ==
    \A long \in DOMAIN columns : \E q \in rows : flat[long][r] = columns[long][q]

(* So has it for what is under a key. *)
LEMMA UnderKey ==
  ASSUME FlattenRecursion, NEW b, NEW node, node.k = "dict", NEW name, NEW cells,
         NamesApart(b, cells, node, name), NEW rows, NEW flat, NEW r,
         TakenFrom(rows, flat, r, FlattenCells(b, cells, node, name)),
         NEW key \in DOMAIN node.children
  PROVE  TakenFrom(rows, flat, r,
                   FlattenCells(b, Under(cells, key), node.children[key], Child(name, key)))
<1> DEFINE of == ByKey(b, cells, node, name)
           all == FlattenCells(b, cells, node, name)
<1>1. all = Joined(of)
  BY FlattenDict
<1>2. \A other \in DOMAIN node.children : key # other => DOMAIN of[key] \cap DOMAIN of[other] = {}
  BY NamesUnder
<1> HIDE DEF of
<1>3. DOMAIN of = DOMAIN node.children
  BY DEF of, ByKey
<1>4. ASSUME NEW long \in DOMAIN of[key]
      PROVE  long \in DOMAIN all /\ all[long] = of[key][long]
  <2>1. long \in DOMAIN all
    BY <1>1, <1>3 DEF Joined
  <2>2. (CHOOSE k \in DOMAIN of : long \in DOMAIN of[k]) = key
    BY <1>2, <1>3
  <2> QED
    BY <1>1, <2>1, <2>2 DEF Joined
<1>5. of[key] = FlattenCells(b, Under(cells, key), node.children[key], Child(name, key))
  BY DEF of, ByKey
<1> QED
  BY <1>4, <1>5 DEF TakenFrom

(* Those of all places, and the one of the nulls. *)
ListColumns(b, node, name, cells, columns) ==
    /\ \A i \in 0 .. node.max - 1 :
          /\ Element(b, name, i) \in DOMAIN columns
          /\ columns[Element(b, name, i)] = ElementCells(cells, i)
    /\ node.nullable_array =>
          FlagName(name) \in DOMAIN columns /\ columns[FlagName(name)] = NullFlags(cells)

(* A list column has a flat column for each place and one for its nulls.    *)
LEMMA ArrayColumns ==
  ASSUME NEW b, NEW Tokens, Marks \subseteq Tokens, NEW name \in Seq(Tokens),
         NEW cells, NEW node, node.k = "array", node.max \in Nat
  PROVE  ListColumns(b, node, name, cells, FlattenCells(b, cells, node, name))
<1> DEFINE places == 0 .. node.max - 1
           elements == {Element(b, name, i) : i \in places}
           flags == IF node.nullable_array THEN {FlagName(name)} ELSE {}
           cellsOf(flatName) == ElementCells(cells, CHOOSE i \in places : Element(b, name, i) = flatName)
<1>1. FlattenCells(b, cells, node, name) =
        [flatName \in elements \cup flags |->
           IF flatName \in flags THEN NullFlags(cells) ELSE cellsOf(flatName)]
  BY DEF FlattenCells
<1>2. ASSUME NEW i \in places
      PROVE  /\ Element(b, name, i) \notin flags
             /\ (CHOOSE j \in places : Element(b, name, j) = Element(b, name, i)) = i
  <2>1. \A j \in places : j \in Nat
    OBVIOUS
  <2>2. \A j \in places : /\ Element(b, name, j)[Len(name) + 1] \in {"[", "__"}
                          /\ Element(b, name, j)[Len(name) + 2] = j
    BY <2>1, ElementName
  <2>3. FlagName(name)[Len(name) + 1] = "."
    BY FlagNameIs
  <2> HIDE DEF places
  <2>4. Element(b, name, i) # FlagName(name)
    BY <2>2, <2>3
  <2> QED
    BY <2>2, <2>4
<1>3. ASSUME NEW i \in places
      PROVE  /\ Element(b, name, i) \in elements \cup flags
             /\ cellsOf(Element(b, name, i)) = ElementCells(cells, i)
  BY <1>2
<1> HIDE DEF cellsOf, elements
<1> QED
  BY <1>1, <1>2, <1>3 DEF ListColumns

-----------------------------------------------------------------------------
(* unflatten() *)

(* Making the inside of a list conform makes no null, and none of a null. *)
LEMMA ConformedNull ==
  ASSUME NEW c, NEW node
  PROVE  Conformed(c, node) = Null <=> c = Null
BY DEF Conformed, Null, Dict, List

(* What conforms to its schema has the shape of the cells it is one of.     *)
LEMMA ConformedFits ==
  ASSUME FlattenRecursion, NEW b, NEW Tokens, NEW levels, Shapes(b, Tokens, levels)
  PROVE  \A n \in Nat : \A p \in levels[n] : \A c \in p[1] : Fits(b, Conformed(c, p[2]), p[1])
<1> DEFINE Good(p) == \A c \in p[1] : Fits(b, Conformed(c, p[2]), p[1])
           U == {n \in Nat : \A p \in levels[n] : Good(p)}
<1>1. ASSUME NEW n \in Nat, \A m \in 0 .. n - 1 : m \in U, NEW p \in levels[n], NEW c \in p[1]
      PROVE  Fits(b, Conformed(c, p[2]), p[1])
  <2> DEFINE S == p[1]
             node == p[2]
             d == Conformed(c, node)
  <2>1. \A q \in Below(levels, n) : Good(q)
    BY <1>1 DEF Below
  <2>2. CASE d.k \notin {"dict", "list"}
    <3>1. d = c
      BY <2>2 DEF Conformed, Dict, List
    <3> QED
      BY <2>2, <3>1 DEF Fits
  <2>3. CASE DictShape(Tokens, levels, n, S, node) /\ d.k \in {"dict", "list"}
    <3>1. node.k = "dict" /\ c.k = "dict"
      <4>1. node.k = "dict" /\ (c = Null \/ c.k = "dict")
        BY <2>3 DEF DictShape
      <4>2. c # Null
        BY <2>3, ConformedNull DEF Null
      <4> QED
        BY <4>1, <4>2
    <3>2. d = Dict([key \in DOMAIN node.children |-> Conformed(Get(c, key), node.children[key])])
      <4>1. d = Dict([key \in DOMAIN node.children |-> ConformedBelow(Get(c, key), node.children[key])])
        BY <3>1 DEF Conformed
      <4> QED
        BY <4>1 DEF FlattenRecursion
    <3>3. d.k = "dict" /\ DOMAIN d.f = DOMAIN node.children
      BY <3>2 DEF Dict
    <3>4. ASSUME NEW key \in DOMAIN node.children
          PROVE  Fits(b, d.f[key], {Get(e, key) : e \in S})
      <4> DEFINE q == <<{Get(e, key) : e \in S}, node.children[key]>>
      <4>1. q \in Below(levels, n)
        BY <2>3 DEF DictShape
      <4>2. d.f[key] = Conformed(Get(c, key), node.children[key])
        BY <3>2 DEF Dict
      <4>3. Get(c, key) \in q[1]
        OBVIOUS
      <4>4. Fits(b, Conformed(Get(c, key), q[2]), q[1])
        BY <2>1, <4>1, <4>3
      <4> QED
        BY <4>2, <4>4
    <3>5. Keys(S) \in {{}, DOMAIN node.children}
      BY <2>3 DEF DictShape
    <3> HIDE DEF d, S, node
    <3>6. /\ Keys(S) \in {{}, DOMAIN d.f}
          /\ \A key \in DOMAIN d.f : FitsBelow(b, d.f[key], {Get(e, key) : e \in S})
      BY <3>3, <3>4, <3>5 DEF FlattenRecursion
    <3>7. Fits(b, d, S)
      BY <3>3, <3>6 DEF Fits
    <3> QED
      BY <3>7 DEF d, S, node
  <2>4. CASE ArrayShape(b, levels, n, S, node) /\ d.k \in {"dict", "list"}
    <3>1. node.k = "array" /\ c.k = "list"
      BY <2>4 DEF ArrayShape, Conformed, Null
    <3>2. d = List([i \in DOMAIN c.s |-> Conformed(c.s[i], node.element)])
      BY <3>1 DEF Conformed, FlattenRecursion
    <3>3. c.s \in Seq(Elements(S)) /\ Len(c.s) <= MaxLen(S)
      BY <2>4, <3>1 DEF ArrayShape, Null
    <3>4. d.k = "list" /\ DOMAIN d.s = DOMAIN c.s /\ Len(d.s) = Len(c.s)
      BY <3>2, <3>3 DEF List
    <3>5. ASSUME NEW i \in DOMAIN d.s
          PROVE  Fits(b, d.s[i], Inside(b, S))
      <4> DEFINE q == <<Inside(b, S), node.element>>
      <4>1. q \in Below(levels, n)
        BY <2>4 DEF ArrayShape
      <4>2. c.s[i] \in q[1]
        BY <3>3, <3>4 DEF Inside
      <4>3. Fits(b, Conformed(c.s[i], q[2]), q[1])
        BY <2>1, <4>1, <4>2
      <4>4. d.s[i] = Conformed(c.s[i], node.element)
        BY <3>2, <3>4 DEF List
      <4> QED
        BY <4>3, <4>4
    <3> HIDE DEF d, S, node
    <3>6. /\ Len(d.s) <= MaxLen(S)
          /\ \A i \in DOMAIN d.s : FitsBelow(b, d.s[i], Elements(S) \cup IF b = "arrow" THEN {Null} ELSE {})
      BY <3>3, <3>4, <3>5 DEF FlattenRecursion, Inside
    <3>7. Fits(b, d, S)
      BY <3>4, <3>6 DEF Fits
    <3> QED
      BY <3>7 DEF d, S, node
  <2>5. CASE LeafShape(S, node)
    BY <2>2, <2>5 DEF LeafShape, Conformed
  <2> QED
    BY <2>2, <2>3, <2>4, <2>5 DEF Shapes
<1>2. \A n \in Nat : (\A m \in 0 .. n - 1 : m \in U) => n \in U
  BY <1>1
<1> HIDE DEF U
<1>3. \A n \in Nat : n \in U
  BY <1>2, StrongInduction
<1> QED
  BY <1>3 DEF U

(* The elements of a list in a row, before nulls are dropped.               *)
Items(b, flat, node, name, r) ==
    [i \in 1 .. node.max |-> Conformed(flat[Element(b, name, i - 1)][r], node.element)]

(* What is kept of a list is of the list, and null only where the schema    *)
(* has nulls or an Arrow list is filled up.                                *)
LEMMA KeptItems ==
  ASSUME NEW b, NEW node, NEW V, NEW items \in Seq(V)
  PROVE  /\ Kept(b, node, items) \in Seq(V)
         /\ Len(Kept(b, node, items)) <= Len(items)
         /\ \A j \in DOMAIN Kept(b, node, items) :
               \E i \in DOMAIN items :
                  /\ Kept(b, node, items)[j] = items[i]
                  /\ items[i] # Null \/ b = "arrow" \/ node.nullable_elements
<1>1. CASE b = "arrow" \/ node.nullable_elements
  <2>1. Kept(b, node, items) = items
    BY <1>1 DEF Kept
  <2> QED
    BY <1>1, <2>1
<1>2. CASE ~(b = "arrow" \/ node.nullable_elements)
  <2> DEFINE places == {i \in DOMAIN items : items[i] # Null}
  <2>1. Kept(b, node, items) = At(items, places)
    BY <1>2 DEF Kept
  <2> HIDE DEF places
  <2>2. /\ At(items, places) \in Seq(V)
        /\ Len(At(items, places)) <= Len(items)
        /\ \A j \in DOMAIN At(items, places) :
              \E i \in DOMAIN items : i \in places /\ At(items, places)[j] = items[i]
    BY AtOf
  <2> QED
    BY <1>2, <2>1, <2>2 DEF places
<1> QED
  BY <1>1, <1>2

(* A list column in a row of flat cells: null, or a list of elements, each  *)
(* taken from the same place of a list.                                    *)
LEMMA ListCell ==
  ASSUME FlattenRecursion, NEW b, NEW Tokens, NEW levels, Shapes(b, Tokens, levels),
         NEW n \in Nat, NEW S, NEW node, ArrayShape(b, levels, n, S, node),
         NEW name \in Seq(Tokens), NEW cells, NEW rows, NEW flat, NEW r,
         TakenFrom(rows, flat, r, FlattenCells(b, cells, node, name)),
         rows \subseteq DOMAIN cells
  PROVE  /\ CellOf(b, flat, node, name, r) =
              IF node.nullable_array /\ flat[FlagName(name)][r].on THEN Null
              ELSE List(Kept(b, node, Items(b, flat, node, name, r)))
         /\ node.nullable_array =>
              \E q \in rows : flat[FlagName(name)][r] = Flag(cells[q] = Null)
         /\ \A i \in 1 .. node.max :
              \E q \in rows : flat[Element(b, name, i - 1)][r] =
                 IF cells[q].k = "list" /\ i - 1 < Len(cells[q].s) THEN cells[q].s[i] ELSE Null
<1> DEFINE all == FlattenCells(b, cells, node, name)
<1>1. node.k = "array" /\ node.max \in Nat /\ Marks \subseteq Tokens
  BY DEF ArrayShape, Shapes
<1>2. /\ \A i \in 0 .. node.max - 1 :
            /\ Element(b, name, i) \in DOMAIN all
            /\ all[Element(b, name, i)] = ElementCells(cells, i)
      /\ node.nullable_array =>
            /\ FlagName(name) \in DOMAIN all
            /\ all[FlagName(name)] = NullFlags(cells)
  <2>1. ListColumns(b, node, name, cells, all)
    BY <1>1, ArrayColumns
  <2> HIDE DEF all
  <2> QED
    BY <2>1 DEF ListColumns
<1> HIDE DEF all
<1>3. \A long \in DOMAIN all : \E q \in rows : flat[long][r] = all[long][q]
  BY DEF TakenFrom, all
<1>4. CellOf(b, flat, node, name, r) =
        IF node.nullable_array /\ flat[FlagName(name)][r].on THEN Null
        ELSE List(Kept(b, node, Items(b, flat, node, name, r)))
  BY <1>1 DEF CellOf, ListOf, Items
<1>5. ASSUME node.nullable_array
      PROVE  \E q \in rows : flat[FlagName(name)][r] = Flag(cells[q] = Null)
  <2>1. PICK q \in rows : flat[FlagName(name)][r] = NullFlags(cells)[q]
    BY <1>2, <1>3, <1>5
  <2> QED
    BY <2>1 DEF NullFlags
<1>6. ASSUME NEW i \in 1 .. node.max
      PROVE  \E q \in rows : flat[Element(b, name, i - 1)][r] =
                IF cells[q].k = "list" /\ i - 1 < Len(cells[q].s) THEN cells[q].s[i] ELSE Null
  <2>1. i - 1 \in 0 .. node.max - 1 /\ (i - 1) + 1 = i
    BY <1>1
  <2>2. PICK q \in rows : flat[Element(b, name, i - 1)][r] = ElementCells(cells, i - 1)[q]
    BY <1>2, <1>3, <2>1
  <2> QED
    BY <2>1, <2>2 DEF ElementCells
<1> QED
  BY <1>4, <1>5, <1>6

(* Of whatever rows the flat cells come, the cells that are put together    *)
(* have the shape and the values of the column.                            *)
FittingCells(b, Tokens, levels, rows, flat, r) ==
    \A n \in Nat : \A p \in levels[n] : \A name \in Seq(Tokens) : \A cells :
       /\ DOMAIN cells = rows
       /\ {cells[q] : q \in rows} = p[1]
       /\ NamesApart(b, cells, p[2], name)
       /\ TakenFrom(rows, flat, r, FlattenCells(b, cells, p[2], name))
       => Fits(b, CellOf(b, flat, p[2], name, r), p[1])

(* A cell that is put together of flat cells from any rows has the shape of *)
(* the column's cells, and their values.                                   *)
LEMMA CellFits ==
  ASSUME FlattenRecursion, NEW b, NEW Tokens, NEW levels, Shapes(b, Tokens, levels),
         NEW rows, NEW flat, NEW r
  PROVE  FittingCells(b, Tokens, levels, rows, flat, r)
<1> DEFINE Good(p) ==
             \A name \in Seq(Tokens) : \A cells :
                /\ DOMAIN cells = rows
                /\ {cells[q] : q \in rows} = p[1]
                /\ NamesApart(b, cells, p[2], name)
                /\ TakenFrom(rows, flat, r, FlattenCells(b, cells, p[2], name))
                => Fits(b, CellOf(b, flat, p[2], name, r), p[1])
           U == {n \in Nat : \A p \in levels[n] : Good(p)}
<1>1. ASSUME NEW n \in Nat, \A m \in 0 .. n - 1 : m \in U, NEW p \in levels[n],
             NEW name \in Seq(Tokens), NEW cells, DOMAIN cells = rows,
             {cells[q] : q \in rows} = p[1],
             NamesApart(b, cells, p[2], name),
             TakenFrom(rows, flat, r, FlattenCells(b, cells, p[2], name))
      PROVE  Fits(b, CellOf(b, flat, p[2], name, r), p[1])
  <2> DEFINE S == p[1]
             node == p[2]
             d == CellOf(b, flat, node, name, r)
  <2>1. \A q \in Below(levels, n) : Good(q)
    BY <1>1 DEF Below
  <2>2. Marks \subseteq Tokens /\ \A q \in rows : cells[q] \in S
    BY <1>1 DEF Shapes
  <2>3. CASE DictShape(Tokens, levels, n, S, node)
    <3>1. /\ node.k = "dict" /\ Texts(Tokens, DOMAIN node.children)
          /\ Keys(S) \in {{}, DOMAIN node.children}
      BY <2>3 DEF DictShape
    <3>2. d = Dict([key \in DOMAIN node.children |->
                      CellOf(b, flat, node.children[key], Child(name, key), r)])
      <4>1. d = Dict([key \in DOMAIN node.children |->
                        CellOfBelow(b, flat, node.children[key], Child(name, key), r)])
        BY <3>1 DEF CellOf
      <4> QED
        BY <4>1 DEF FlattenRecursion
    <3>3. /\ d.k = "dict" /\ DOMAIN d.f = DOMAIN node.children
          /\ \A key \in DOMAIN node.children :
                d.f[key] = CellOf(b, flat, node.children[key], Child(name, key), r)
      BY <3>2 DEF Dict
    <3>4. ASSUME NEW key \in DOMAIN node.children
          PROVE  Fits(b, d.f[key], {Get(e, key) : e \in S})
      <4> DEFINE q == <<{Get(e, key) : e \in S}, node.children[key]>>
                 under == Under(cells, key)
      <4>1. q \in Below(levels, n) /\ Good(q)
        BY <2>1, <2>3 DEF DictShape
      <4>2. Child(name, key) \in Seq(Tokens)
        <5>1. Spelled(key) \in Seq(Tokens)
          BY <3>1 DEF Texts
        <5> QED
          BY <2>2, <5>1, ChildName
      <4>3. DOMAIN under = rows /\ {under[i] : i \in rows} = q[1]
        BY <1>1 DEF Under
      <4>4. TakenFrom(rows, flat, r, FlattenCells(b, under, q[2], Child(name, key)))
        BY <1>1, <3>1, UnderKey
      <4>6. NamesApart(b, under, q[2], Child(name, key))
        BY <1>1, <3>1, NamesUnder
      <4> HIDE DEF q, under
      <4>5. Fits(b, CellOf(b, flat, q[2], Child(name, key), r), q[1])
        BY <4>1, <4>2, <4>3, <4>4, <4>6
      <4> QED
        BY <3>3, <4>5 DEF q
    <3> HIDE DEF d, S, node
    <3>6. /\ Keys(S) \in {{}, DOMAIN d.f}
          /\ \A key \in DOMAIN d.f : FitsBelow(b, d.f[key], {Get(e, key) : e \in S})
      BY <3>1, <3>3, <3>4 DEF FlattenRecursion
    <3>7. Fits(b, d, S)
      BY <3>3, <3>6 DEF Fits
    <3> QED
      BY <3>7 DEF d, S, node
  <2>4. CASE ArrayShape(b, levels, n, S, node)
    <3> DEFINE items == Items(b, flat, node, name, r)
               kept == Kept(b, node, items)
               V == {Conformed(flat[Element(b, name, i - 1)][r], node.element) : i \in 1 .. node.max}
    <3>1. /\ d = IF node.nullable_array /\ flat[FlagName(name)][r].on THEN Null ELSE List(kept)
          /\ node.nullable_array =>
               \E q \in rows : flat[FlagName(name)][r] = Flag(cells[q] = Null)
          /\ \A i \in 1 .. node.max :
               \E q \in rows : flat[Element(b, name, i - 1)][r] =
                  IF cells[q].k = "list" /\ i - 1 < Len(cells[q].s) THEN cells[q].s[i] ELSE Null
      BY <1>1, <2>4, ListCell
    <3>2. /\ node.max \in Nat /\ node.max = MaxLen(S)
          /\ b = "pandas" => (node.nullable_elements <=> Null \in Elements(S))
          /\ node.nullable_array => Null \in S
          /\ <<Inside(b, S), node.element>> \in Below(levels, n)
          /\ \A c \in S : c = Null \/ (c.k = "list" /\ c.s \in Seq(Elements(S)))
      BY <2>4 DEF ArrayShape
    <3>3. CASE d = Null
      <4>1. Null \in S
        <5>1. CASE node.nullable_array
          BY <3>2, <5>1
        <5>2. CASE ~node.nullable_array
          BY <3>1, <3>3, <5>2 DEF Null, List
        <5> QED
          BY <5>1, <5>2
      <4> HIDE DEF d
      <4>2. Fits(b, d, S)
        BY <3>3, <4>1 DEF Fits, Null
      <4> QED
        BY <4>2 DEF d
    <3>4. CASE d = List(kept)
      <4>1. items \in Seq(V) /\ Len(items) = node.max
        <5>1. items = [i \in 1 .. node.max |-> Conformed(flat[Element(b, name, i - 1)][r], node.element)]
          BY DEF Items
        <5>2. \A i \in 1 .. node.max : items[i] \in V
          BY <5>1
        <5> HIDE DEF V, items, node
        <5>3. items \in [1 .. node.max -> V]
          BY <5>1, <5>2
        <5>4. node.max \in Nat
          BY <3>2
        <5> DEFINE max == node.max
        <5>5. items \in [1 .. max -> V] /\ max \in Nat
          BY <5>3, <5>4
        <5> HIDE DEF max
        <5>6. items \in Seq(V) /\ Len(items) = max
          BY <5>5
        <5> QED
          BY <5>6 DEF max
      <4>2. /\ kept \in Seq(V) /\ Len(kept) <= Len(items)
            /\ \A j \in DOMAIN kept :
                  \E i \in DOMAIN items :
                     /\ kept[j] = items[i]
                     /\ items[i] # Null \/ b = "arrow" \/ node.nullable_elements
        <5> HIDE DEF items, V, S, node
        <5> QED
          BY <4>1, KeptItems
      <4>3. d.k = "list" /\ d.s = kept
        BY <3>4 DEF List
      <4>4. ASSUME NEW j \in DOMAIN kept PROVE Fits(b, kept[j], Inside(b, S))
        <5>1. PICK i \in DOMAIN items :
                 /\ kept[j] = items[i]
                 /\ items[i] # Null \/ b = "arrow" \/ node.nullable_elements
          BY <4>2
        <5> DEFINE e == flat[Element(b, name, i - 1)][r]
        <5>2. i \in 1 .. node.max /\ items[i] = Conformed(e, node.element)
          <6>1. DOMAIN items = 1 .. node.max
            BY DEF Items
          <6> QED
            BY <6>1 DEF Items
        <5>3. PICK q \in rows : e = IF cells[q].k = "list" /\ i - 1 < Len(cells[q].s)
                                    THEN cells[q].s[i] ELSE Null
          BY <3>1, <5>2
        <5> HIDE DEF e, items
        <5>4. e \in Elements(S) \/ e = Null
          <6>1. CASE cells[q].k = "list" /\ i - 1 < Len(cells[q].s)
            <7>1. cells[q] \in S /\ cells[q].s \in Seq(Elements(S))
              BY <2>2, <3>2, <6>1 DEF Null
            <7>2. i \in 1 .. Len(cells[q].s)
              BY <3>2, <5>2, <6>1, <7>1
            <7> QED
              BY <5>3, <6>1, <7>1, <7>2
          <6> QED
            BY <5>3, <6>1
        <5>5. e \in Inside(b, S)
          <6>1. CASE b = "arrow"
            BY <5>4, <6>1 DEF Inside
          <6>2. CASE b # "arrow"
            <7>1. b = "pandas"
              BY <6>2 DEF Shapes
            <7>2. e = Null => Null \in Elements(S)
              BY <3>2, <5>1, <5>2, <7>1, ConformedNull
            <7> QED
              BY <5>4, <7>2 DEF Inside
          <6> QED
            BY <6>1, <6>2
        <5>6. Fits(b, Conformed(e, node.element), Inside(b, S))
          <6> DEFINE q0 == <<Inside(b, S), node.element>>
          <6>1. PICK m \in 0 .. n - 1 : q0 \in levels[m]
            BY <3>2 DEF Below
          <6>2. m \in Nat /\ e \in q0[1]
            BY <5>5
          <6> HIDE DEF q0
          <6>3. Fits(b, Conformed(e, q0[2]), q0[1])
            BY <6>1, <6>2, ConformedFits
          <6> QED
            BY <6>3 DEF q0
        <5> QED
          BY <5>1, <5>2, <5>6
      <4> HIDE DEF d, S, node, kept, items
      <4>5. /\ Len(d.s) <= MaxLen(S)
            /\ \A i \in DOMAIN d.s : FitsBelow(b, d.s[i], Elements(S) \cup IF b = "arrow" THEN {Null} ELSE {})
        BY <3>2, <4>1, <4>2, <4>3, <4>4 DEF FlattenRecursion, Inside
      <4>6. Fits(b, d, S)
        BY <4>3, <4>5 DEF Fits
      <4> QED
        BY <4>6 DEF d, S, node
    <3> QED
      BY <3>1, <3>3, <3>4
  <2>5. CASE LeafShape(S, node)
    <3>1. node.k \notin {"dict", "array"} /\ \A c \in S : c.k \notin {"dict", "list"}
      BY <2>5 DEF LeafShape
    <3>2. d = flat[name][r]
      BY <3>1 DEF CellOf
    <3>3. FlattenCells(b, cells, node, name) = [flatName \in {name} |-> cells]
      <4>1. node.k \notin {"dict", "array"}
        BY <3>1
      <4> HIDE DEF node
      <4> QED
        BY <4>1 DEF FlattenCells
    <3>4. PICK q \in rows : flat[name][r] = cells[q]
      BY <1>1, <3>3 DEF TakenFrom
    <3> HIDE DEF d
    <3>5. d \in S /\ d.k \notin {"dict", "list"}
      BY <2>2, <3>1, <3>2, <3>4
    <3>6. Fits(b, d, S)
      BY <3>5 DEF Fits
    <3> QED
      BY <3>6 DEF d
  <2> QED
    BY <2>3, <2>4, <2>5 DEF Shapes
<1>2. \A n \in Nat : (\A m \in 0 .. n - 1 : m \in U) => n \in U
  BY <1>1
<1> HIDE DEF U
<1>3. \A n \in Nat : n \in U
  BY <1>2, StrongInduction
<1> QED
  BY <1>3 DEF U, FittingCells

(* A list where something is kept, nulls behind it apart, is its beginning. *)
LEMMA KeptFirst ==
  ASSUME NEW b, NEW node, NEW V, NEW items \in Seq(V), NEW m \in 0 .. Len(items),
         ~(b = "arrow" \/ node.nullable_elements),
         \A i \in 1 .. Len(items) : items[i] # Null <=> i <= m
  PROVE  Kept(b, node, items) = [i \in 1 .. m |-> items[i]]
<1> DEFINE places == {i \in DOMAIN items : items[i] # Null}
<1>1. Kept(b, node, items) = At(items, places)
  BY DEF Kept
<1>2. \A i \in 1 .. Len(items) : i \in places <=> i <= m
  OBVIOUS
<1> HIDE DEF places
<1>3. At(items, places) = [i \in 1 .. m |-> items[i]]
  BY <1>2, AtFirst
<1> QED
  BY <1>1, <1>3

(* What conforms to its schema is what it was, with nulls added at most.    *)
LEMMA ConformedReturned ==
  ASSUME FlattenRecursion, NEW b, NEW Tokens, NEW levels, Shapes(b, Tokens, levels)
  PROVE  \A n \in Nat : \A p \in levels[n] : \A c \in p[1] : Returned(c, Conformed(c, p[2]))
<1> DEFINE Good(p) == \A c \in p[1] : Returned(c, Conformed(c, p[2]))
           U == {n \in Nat : \A p \in levels[n] : Good(p)}
<1>1. ASSUME NEW n \in Nat, \A m \in 0 .. n - 1 : m \in U, NEW p \in levels[n], NEW c \in p[1]
      PROVE  Returned(c, Conformed(c, p[2]))
  <2> DEFINE S == p[1]
             node == p[2]
             d == Conformed(c, node)
  <2>1. \A q \in Below(levels, n) : Good(q)
    BY <1>1 DEF Below
  <2>2. CASE d.k \notin {"dict", "list"}
    <3>1. d = c
      BY <2>2 DEF Conformed, Dict, List
    <3> QED
      BY <2>2, <3>1 DEF Returned
  <2>3. CASE DictShape(Tokens, levels, n, S, node) /\ d.k \in {"dict", "list"}
    <3>1. node.k = "dict" /\ c.k = "dict"
      <4>1. node.k = "dict" /\ (c = Null \/ c.k = "dict")
        BY <2>3 DEF DictShape
      <4>2. c # Null
        BY <2>3, ConformedNull DEF Null
      <4> QED
        BY <4>1, <4>2
    <3>2. d = Dict([key \in DOMAIN node.children |-> Conformed(Get(c, key), node.children[key])])
      <4>1. d = Dict([key \in DOMAIN node.children |-> ConformedBelow(Get(c, key), node.children[key])])
        BY <3>1 DEF Conformed
      <4> QED
        BY <4>1 DEF FlattenRecursion
    <3>3. d.k = "dict" /\ DOMAIN d.f = DOMAIN node.children
      BY <3>2 DEF Dict
    <3>4. ASSUME NEW key \in DOMAIN node.children
          PROVE  Returned(Get(c, key), d.f[key])
      <4> DEFINE q == <<{Get(e, key) : e \in S}, node.children[key]>>
      <4>1. q \in Below(levels, n)
        BY <2>3 DEF DictShape
      <4>2. d.f[key] = Conformed(Get(c, key), node.children[key])
        BY <3>2 DEF Dict
      <4>3. Get(c, key) \in q[1]
        OBVIOUS
      <4>4. Returned(Get(c, key), Conformed(Get(c, key), q[2]))
        BY <2>1, <4>1, <4>3
      <4> QED
        BY <4>2, <4>4
    <3>5. DOMAIN c.f \subseteq DOMAIN node.children
      <4>1. Keys(S) \in {{}, DOMAIN node.children}
        BY <2>3 DEF DictShape
      <4>2. DOMAIN c.f \subseteq Keys(S)
        BY <3>1 DEF Keys, Dicts
      <4> QED
        BY <4>1, <4>2
    <3> HIDE DEF d, S, node
    <3>6. \A key \in DOMAIN d.f : ReturnedBelow(Get(c, key), d.f[key])
      BY <3>3, <3>4 DEF FlattenRecursion
    <3>7. Returned(c, d)
      BY <3>1, <3>3, <3>5, <3>6 DEF Returned
    <3> QED
      BY <3>7 DEF d, node
  <2>4. CASE ArrayShape(b, levels, n, S, node) /\ d.k \in {"dict", "list"}
    <3>1. node.k = "array" /\ c.k = "list"
      BY <2>4 DEF ArrayShape, Conformed, Null
    <3>2. d = List([i \in DOMAIN c.s |-> Conformed(c.s[i], node.element)])
      BY <3>1 DEF Conformed, FlattenRecursion
    <3>3. c.s \in Seq(Elements(S))
      BY <2>4, <3>1 DEF ArrayShape, Null
    <3>4. d.k = "list" /\ DOMAIN d.s = DOMAIN c.s /\ Len(d.s) = Len(c.s)
      BY <3>2, <3>3 DEF List
    <3>5. ASSUME NEW i \in DOMAIN d.s
          PROVE  Returned(c.s[i], d.s[i])
      <4> DEFINE q == <<Inside(b, S), node.element>>
      <4>1. q \in Below(levels, n)
        BY <2>4 DEF ArrayShape
      <4>2. c.s[i] \in q[1]
        BY <3>3, <3>4 DEF Inside
      <4>3. Returned(c.s[i], Conformed(c.s[i], q[2]))
        BY <2>1, <4>1, <4>2
      <4>4. d.s[i] = Conformed(c.s[i], node.element)
        BY <3>2, <3>4 DEF List
      <4> QED
        BY <4>3, <4>4
    <3> HIDE DEF d, S, node
    <3>6. \A i \in DOMAIN d.s : i <= Len(c.s) /\ Len(c.s) <= Len(d.s)
      BY <3>3, <3>4
    <3>7. Len(c.s) <= Len(d.s)
      BY <3>3, <3>4
    <3> DEFINE old == IF c.k = "list" THEN c.s ELSE <<>>
    <3>8. old = c.s
      BY <3>1
    <3>9. \A i \in DOMAIN d.s : ReturnedBelow(IF i <= Len(old) THEN old[i] ELSE Null, d.s[i])
      BY <3>5, <3>6, <3>8 DEF FlattenRecursion
    <3>10. Len(old) <= Len(d.s)
      BY <3>7, <3>8
    <3>11. Returned(c, d)
      BY <3>1, <3>4, <3>9, <3>10 DEF Returned
    <3> QED
      BY <3>11 DEF d, node
  <2>5. CASE LeafShape(S, node)
    BY <2>2, <2>5 DEF LeafShape, Conformed
  <2> QED
    BY <2>2, <2>3, <2>4, <2>5 DEF Shapes
<1>2. \A n \in Nat : (\A m \in 0 .. n - 1 : m \in U) => n \in U
  BY <1>1
<1> HIDE DEF U
<1>3. \A n \in Nat : n \in U
  BY <1>2, StrongInduction
<1> QED
  BY <1>3 DEF U

(* What a list has, and nothing for a null. *)
Had(c) == IF c.k = "list" THEN c.s ELSE <<>>

(* What a list column has in its own row: its elements, and nulls behind    *)
(* them only if none are dropped.                                          *)
LEMMA OwnItems ==
  ASSUME FlattenRecursion, NEW b, NEW Tokens, NEW levels, Shapes(b, Tokens, levels),
         NEW n \in Nat, NEW S, NEW node, ArrayShape(b, levels, n, S, node),
         NEW name \in Seq(Tokens), NEW cells, NEW flat, NEW r \in DOMAIN cells, cells[r] \in S,
         TakenFrom({r}, flat, r, FlattenCells(b, cells, node, name))
  PROVE  /\ CellOf(b, flat, node, name, r) =
              IF node.nullable_array /\ cells[r] = Null THEN Null
              ELSE List(Kept(b, node, Items(b, flat, node, name, r)))
         /\ Had(cells[r]) \in Seq(Elements(S)) /\ Len(Had(cells[r])) <= node.max
         /\ b = "arrow" \/ node.nullable_elements =>
               Kept(b, node, Items(b, flat, node, name, r)) =
                  [i \in 1 .. node.max |->
                     IF i <= Len(Had(cells[r])) THEN Conformed(Had(cells[r])[i], node.element)
                     ELSE Null]
         /\ ~(b = "arrow" \/ node.nullable_elements) =>
               Kept(b, node, Items(b, flat, node, name, r)) =
                  [i \in 1 .. Len(Had(cells[r])) |-> Conformed(Had(cells[r])[i], node.element)]
<1> DEFINE items == Items(b, flat, node, name, r)
           old == Had(cells[r])
           V == {Conformed(flat[Element(b, name, i - 1)][r], node.element) : i \in 1 .. node.max}
           wanted(i) == IF i <= Len(old) THEN Conformed(old[i], node.element) ELSE Null
<1>1. /\ CellOf(b, flat, node, name, r) =
            IF node.nullable_array /\ flat[FlagName(name)][r].on THEN Null ELSE List(Kept(b, node, items))
      /\ node.nullable_array => \E q \in {r} : flat[FlagName(name)][r] = Flag(cells[q] = Null)
      /\ \A i \in 1 .. node.max :
            \E q \in {r} : flat[Element(b, name, i - 1)][r] =
               IF cells[q].k = "list" /\ i - 1 < Len(cells[q].s) THEN cells[q].s[i] ELSE Null
  <2> DEFINE rows == {r}
  <2>1. rows \subseteq DOMAIN cells /\ TakenFrom(rows, flat, r, FlattenCells(b, cells, node, name))
    OBVIOUS
  <2> HIDE DEF rows, items
  <2>2. /\ CellOf(b, flat, node, name, r) =
              IF node.nullable_array /\ flat[FlagName(name)][r].on THEN Null
              ELSE List(Kept(b, node, Items(b, flat, node, name, r)))
        /\ node.nullable_array =>
             \E q \in rows : flat[FlagName(name)][r] = Flag(cells[q] = Null)
        /\ \A i \in 1 .. node.max :
             \E q \in rows : flat[Element(b, name, i - 1)][r] =
                IF cells[q].k = "list" /\ i - 1 < Len(cells[q].s) THEN cells[q].s[i] ELSE Null
    BY <2>1, ListCell, SMTT(60)
  <2> QED
    BY <2>2 DEF rows, items
<1>2. /\ node.max \in Nat
      /\ b = "pandas" => (node.nullable_elements <=> Null \in Elements(S))
      /\ \A c \in S : c = Null \/ (c.k = "list" /\ c.s \in Seq(Elements(S)) /\ Len(c.s) <= node.max)
  BY DEF ArrayShape
<1>3. old \in Seq(Elements(S)) /\ Len(old) <= node.max
  <2>1. CASE cells[r] = Null
    <3>1. old = <<>>
      BY <2>1 DEF Had, Null
    <3>2. <<>> \in Seq(Elements(S)) /\ Len(<<>>) = 0
      OBVIOUS
    <3> QED
      BY <1>2, <3>1, <3>2
  <2>2. CASE cells[r] # Null
    <3>1. cells[r].k = "list" /\ cells[r].s \in Seq(Elements(S)) /\ Len(cells[r].s) <= node.max
      BY <1>2, <2>2
    <3> QED
      BY <3>1 DEF Had
  <2> QED
    BY <2>1, <2>2
<1>4. CellOf(b, flat, node, name, r) =
        IF node.nullable_array /\ cells[r] = Null THEN Null ELSE List(Kept(b, node, items))
  <2>1. node.nullable_array => (flat[FlagName(name)][r].on <=> cells[r] = Null)
    <3>1. \A on : Flag(on).on = on
      BY DEF Flag
    <3>2. node.nullable_array => flat[FlagName(name)][r] = Flag(cells[r] = Null)
      BY <1>1
    <3> QED
      BY <3>1, <3>2, Zenon
  <2> QED
    BY <1>1, <2>1
<1>5. ASSUME NEW i \in 1 .. node.max
      PROVE  flat[Element(b, name, i - 1)][r] = IF i <= Len(old) THEN old[i] ELSE Null
  <2>1. flat[Element(b, name, i - 1)][r] =
          IF cells[r].k = "list" /\ i - 1 < Len(cells[r].s) THEN cells[r].s[i] ELSE Null
    BY <1>1
  <2>2. CASE cells[r].k = "list"
    <3>1. old = cells[r].s /\ Len(old) \in Nat
      BY <1>3, <2>2 DEF Had
    <3>2. i - 1 < Len(old) <=> i <= Len(old)
      BY <1>2, <3>1
    <3> QED
      BY <2>1, <2>2, <3>1, <3>2
  <2>3. CASE cells[r].k # "list"
    <3>1. old = <<>> /\ Len(old) = 0
      BY <2>3 DEF Had
    <3>2. ~(i <= 0)
      BY <1>2
    <3> QED
      BY <2>1, <2>3, <3>1, <3>2
  <2> QED
    BY <2>2, <2>3
<1>6. items = [i \in 1 .. node.max |-> wanted(i)]
  <2>1. \A i \in 1 .. node.max :
           Conformed(flat[Element(b, name, i - 1)][r], node.element) = wanted(i)
    <3>1. Conformed(Null, node.element) = Null
      BY ConformedNull
    <3> HIDE DEF old
    <3> QED
      BY <1>5, <3>1
  <2> QED
    BY <2>1 DEF Items
<1>7. items \in Seq(V) /\ Len(items) = node.max
  <2>1. \A i \in 1 .. node.max : items[i] \in V
    BY DEF Items
  <2> HIDE DEF V
  <2>2. items \in [1 .. node.max -> V]
    <3>1. items = [i \in 1 .. node.max |-> items[i]]
      BY DEF Items
    <3> HIDE DEF items
    <3> QED
      BY <2>1, <3>1
  <2>3. node.max \in Nat
    BY <1>2
  <2> HIDE DEF items
  <2>4. items \in Seq(V)
    BY <2>2, <2>3
  <2>5. Len(items) = node.max
    BY <2>2, <2>3
  <2> QED
    BY <2>4, <2>5
<1>8. ASSUME b = "arrow" \/ node.nullable_elements PROVE Kept(b, node, items) = items
  BY <1>8 DEF Kept
<1>9. ASSUME ~(b = "arrow" \/ node.nullable_elements)
      PROVE  Kept(b, node, items) = [i \in 1 .. Len(old) |-> Conformed(old[i], node.element)]
  <2>1. Null \notin Elements(S)
    BY <1>2, <1>9 DEF Shapes
  <2>2. Len(old) \in 0 .. Len(items)
    <3> HIDE DEF old, items
    <3> QED
      BY <1>2, <1>3, <1>7
  <2>3. ASSUME NEW i \in 1 .. Len(items) PROVE items[i] # Null <=> i <= Len(old)
    <3>1. items[i] = wanted(i)
      BY <1>6, <1>7
    <3>2. i <= Len(old) => old[i] # Null
      <4> HIDE DEF old, items
      <4>1. i <= Len(old) => i \in 1 .. Len(old)
        BY <1>2, <1>3, <1>7
      <4>2. \A j \in 1 .. Len(old) : old[j] \in Elements(S)
        BY <1>3
      <4> QED
        BY <2>1, <4>1, <4>2
    <3> HIDE DEF old, items
    <3> QED
      BY <3>1, <3>2, ConformedNull
  <2> DEFINE m == Len(old)
  <2> HIDE DEF items, old, V
  <2>4. Kept(b, node, items) = [i \in 1 .. Len(old) |-> items[i]]
    <3>1. m \in 0 .. Len(items) /\ \A i \in 1 .. Len(items) : items[i] # Null <=> i <= m
      BY <2>2, <2>3
    <3> HIDE DEF m
    <3>2. Kept(b, node, items) = [i \in 1 .. m |-> items[i]]
      BY <1>7, <1>9, <3>1, KeptFirst
    <3> QED
      BY <3>2 DEF m
  <2>5. \A i \in 1 .. Len(old) : items[i] = Conformed(old[i], node.element)
    <3>1. \A i \in 1 .. Len(old) : i \in 1 .. node.max /\ i <= Len(old)
      BY <1>2, <1>3
    <3> QED
      BY <1>6, <3>1
  <2> QED
    BY <2>4, <2>5
<1> QED
  BY <1>3, <1>4, <1>6, <1>8, <1>9

(* A cell that is put together of the flat cells of its own row is the cell *)
(* of the column, with nulls added at most.                                *)
LEMMA CellReturned ==
  ASSUME FlattenRecursion, NEW b, NEW Tokens, NEW levels, Shapes(b, Tokens, levels),
         NEW flat, NEW r
  PROVE  \A n \in Nat : \A p \in levels[n] : \A name \in Seq(Tokens) : \A cells :
            /\ r \in DOMAIN cells
            /\ cells[r] \in p[1]
            /\ NamesApart(b, cells, p[2], name)
            /\ TakenFrom({r}, flat, r, FlattenCells(b, cells, p[2], name))
            => Returned(cells[r], CellOf(b, flat, p[2], name, r))
<1> DEFINE Good(p) ==
             \A name \in Seq(Tokens) : \A cells :
                /\ r \in DOMAIN cells
                /\ cells[r] \in p[1]
                /\ NamesApart(b, cells, p[2], name)
                /\ TakenFrom({r}, flat, r, FlattenCells(b, cells, p[2], name))
                => Returned(cells[r], CellOf(b, flat, p[2], name, r))
           U == {n \in Nat : \A p \in levels[n] : Good(p)}
<1>1. ASSUME NEW n \in Nat, \A m \in 0 .. n - 1 : m \in U, NEW p \in levels[n],
             NEW name \in Seq(Tokens), NEW cells, r \in DOMAIN cells, cells[r] \in p[1],
             NamesApart(b, cells, p[2], name),
             TakenFrom({r}, flat, r, FlattenCells(b, cells, p[2], name))
      PROVE  Returned(cells[r], CellOf(b, flat, p[2], name, r))
  <2> DEFINE S == p[1]
             node == p[2]
             c == cells[r]
             d == CellOf(b, flat, node, name, r)
  <2>1. \A q \in Below(levels, n) : Good(q)
    BY <1>1 DEF Below
  <2>2. Marks \subseteq Tokens
    BY DEF Shapes
  <2>3. CASE DictShape(Tokens, levels, n, S, node)
    <3>1. /\ node.k = "dict" /\ Texts(Tokens, DOMAIN node.children)
          /\ Keys(S) \in {{}, DOMAIN node.children}
          /\ c = Null \/ c.k = "dict"
      BY <1>1, <2>3 DEF DictShape
    <3>2. d = Dict([key \in DOMAIN node.children |->
                      CellOf(b, flat, node.children[key], Child(name, key), r)])
      <4>1. d = Dict([key \in DOMAIN node.children |->
                        CellOfBelow(b, flat, node.children[key], Child(name, key), r)])
        BY <3>1 DEF CellOf
      <4> QED
        BY <4>1 DEF FlattenRecursion
    <3>3. /\ d.k = "dict" /\ DOMAIN d.f = DOMAIN node.children
          /\ \A key \in DOMAIN node.children :
                d.f[key] = CellOf(b, flat, node.children[key], Child(name, key), r)
      BY <3>2 DEF Dict
    <3>4. ASSUME NEW key \in DOMAIN node.children
          PROVE  Returned(Get(c, key), d.f[key])
      <4> DEFINE q == <<{Get(e, key) : e \in S}, node.children[key]>>
                 under == Under(cells, key)
      <4>1. q \in Below(levels, n) /\ Good(q)
        BY <2>1, <2>3 DEF DictShape
      <4>2. Child(name, key) \in Seq(Tokens)
        <5>1. Spelled(key) \in Seq(Tokens)
          BY <3>1 DEF Texts
        <5> QED
          BY <2>2, <5>1, ChildName
      <4>3. r \in DOMAIN under /\ under[r] = Get(c, key) /\ under[r] \in q[1]
        BY <1>1 DEF Under
      <4>4. TakenFrom({r}, flat, r, FlattenCells(b, under, q[2], Child(name, key)))
        <5> DEFINE rows == {r}
        <5>1. /\ TakenFrom(rows, flat, r, FlattenCells(b, cells, node, name))
              /\ NamesApart(b, cells, node, name)
          BY <1>1
        <5> HIDE DEF rows, node, S
        <5>2. TakenFrom(rows, flat, r,
                        FlattenCells(b, Under(cells, key), node.children[key], Child(name, key)))
          BY <3>1, <5>1, UnderKey
        <5> QED
          BY <5>2 DEF rows
      <4>6. NamesApart(b, under, q[2], Child(name, key))
        BY <1>1, <3>1, NamesUnder
      <4> HIDE DEF q, under
      <4>5. Returned(under[r], CellOf(b, flat, q[2], Child(name, key), r))
        BY <4>1, <4>2, <4>3, <4>4, <4>6
      <4> QED
        BY <3>3, <4>3, <4>5 DEF q
    <3>5. c.k = "dict" => DOMAIN c.f \subseteq DOMAIN node.children
      <4>1. c.k = "dict" => DOMAIN c.f \subseteq Keys(S)
        BY <1>1 DEF Keys, Dicts
      <4> QED
        BY <3>1, <4>1
    <3>6. \A key \in DOMAIN d.f : ReturnedBelow(Get(c, key), d.f[key])
      BY <3>3, <3>4 DEF FlattenRecursion
    <3>7. c.k \in {"dict", "null"}
      BY <3>1 DEF Null
    <3> HIDE DEF d, S, node, c
    <3>8. Returned(c, d)
      BY <3>3, <3>5, <3>6, <3>7 DEF Returned
    <3> QED
      BY <3>8 DEF d, node, c
  <2>4. CASE ArrayShape(b, levels, n, S, node)
    <3> DEFINE kept == Kept(b, node, Items(b, flat, node, name, r))
               old == Had(c)
               all == b = "arrow" \/ node.nullable_elements
    <3>1. /\ d = IF node.nullable_array /\ c = Null THEN Null ELSE List(kept)
          /\ old \in Seq(Elements(S)) /\ Len(old) <= node.max
          /\ all => kept = [i \in 1 .. node.max |->
                              IF i <= Len(old) THEN Conformed(old[i], node.element) ELSE Null]
          /\ ~all => kept = [i \in 1 .. Len(old) |-> Conformed(old[i], node.element)]
      <4>1. cells[r] \in S /\ TakenFrom({r}, flat, r, FlattenCells(b, cells, node, name))
        BY <1>1
      <4> HIDE DEF node, S
      <4> QED
        BY <1>1, <2>4, <4>1, OwnItems, SMTT(60)
    <3>2. node.max \in Nat /\ (c = Null \/ c.k = "list") /\ <<Inside(b, S), node.element>> \in Below(levels, n)
      BY <1>1, <2>4 DEF ArrayShape
    <3>3. CASE d = Null
      <4>1. c = Null
        <5>1. List(kept) # Null
          BY DEF List, Null
        <5> QED
          BY <3>1, <3>3, <5>1
      <4> HIDE DEF c, d
      <4>2. Returned(c, d)
        BY <3>3, <4>1 DEF Returned, Null
      <4> QED
        BY <4>2 DEF c, d
    <3>4. CASE d = List(kept)
      <4> DEFINE top == IF all THEN node.max ELSE Len(old)
                 new(i) == IF i <= Len(old) THEN Conformed(old[i], node.element) ELSE Null
      <4>1. d.k = "list" /\ d.s = kept
        BY <3>4 DEF List
      <4>2. Len(old) \in Nat /\ top \in Nat /\ Len(old) <= top
        <5> HIDE DEF old, all, node
        <5> QED
          BY <3>1, <3>2
      <4>3. kept = [i \in 1 .. top |-> new(i)]
        <5>1. CASE all
          BY <3>1, <5>1
        <5>2. CASE ~all
          <6>1. \A i \in 1 .. Len(old) : i <= Len(old)
            <7> HIDE DEF old
            <7> QED
              BY <4>2
          <6>2. [i \in 1 .. Len(old) |-> new(i)] = [i \in 1 .. Len(old) |-> Conformed(old[i], node.element)]
            BY <6>1
          <6> QED
            BY <3>1, <5>2, <6>2
        <5> QED
          BY <5>1, <5>2
      <4>4. ASSUME NEW i \in 1 .. top
            PROVE  Returned(IF i <= Len(old) THEN old[i] ELSE Null, new(i))
        <5>1. CASE i <= Len(old)
          <6> DEFINE q == <<Inside(b, S), node.element>>
          <6>1. PICK m \in 0 .. n - 1 : q \in levels[m]
            BY <3>2 DEF Below
          <6>2. old[i] \in q[1]
            <7>1. i \in 1 .. Len(old)
              <8> HIDE DEF old, top
              <8> QED
                BY <4>2, <5>1
            <7> QED
              BY <3>1, <7>1 DEF Inside
          <6>3. m \in Nat
            OBVIOUS
          <6> HIDE DEF q, old
          <6>4. Returned(old[i], Conformed(old[i], q[2]))
            BY <6>1, <6>2, <6>3, ConformedReturned
          <6> QED
            BY <5>1, <6>4 DEF q
        <5>2. CASE ~(i <= Len(old))
          BY <5>2 DEF Returned, Null
        <5> QED
          BY <5>1, <5>2
      <4>5. Len(kept) = top /\ DOMAIN kept = 1 .. top
        <5> HIDE DEF new, top, kept
        <5> QED
          BY <4>2, <4>3
      <4>6. \A i \in DOMAIN kept : kept[i] = new(i)
        <5> HIDE DEF new, top, kept
        <5> QED
          BY <4>3, <4>5
      <4>7. old = IF c.k = "list" THEN c.s ELSE <<>>
        BY DEF Had
      <4>8. c.k \in {"list", "null"}
        BY <3>2 DEF Null
      <4>9. \A i \in DOMAIN d.s : ReturnedBelow(IF i <= Len(old) THEN old[i] ELSE Null, d.s[i])
        <5> HIDE DEF new, top, kept, old, d
        <5> QED
          BY <4>1, <4>4, <4>5, <4>6 DEF FlattenRecursion
      <4>10. Len(old) <= Len(d.s)
        <5> HIDE DEF top, kept, old, d
        <5> QED
          BY <4>1, <4>2, <4>5
      <4> HIDE DEF c, d, old
      <4>11. Returned(c, d)
        BY <4>1, <4>7, <4>8, <4>9, <4>10 DEF Returned
      <4> QED
        BY <4>11 DEF c, d
    <3> QED
      BY <3>1, <3>3, <3>4
  <2>5. CASE LeafShape(S, node)
    <3>1. node.k \notin {"dict", "array"} /\ c.k \notin {"dict", "list"}
      BY <1>1, <2>5 DEF LeafShape
    <3>2. d = flat[name][r]
      BY <3>1 DEF CellOf
    <3>3. FlattenCells(b, cells, node, name) = [flatName \in {name} |-> cells]
      <4>1. node.k \notin {"dict", "array"}
        BY <3>1
      <4> HIDE DEF node
      <4> QED
        BY <4>1 DEF FlattenCells
    <3>4. flat[name][r] = cells[r]
      BY <1>1, <3>3 DEF TakenFrom
    <3> HIDE DEF d, c
    <3>5. d = c
      BY <3>2, <3>4 DEF c
    <3>6. Returned(c, d)
      BY <3>1, <3>5 DEF Returned
    <3> QED
      BY <3>6 DEF d, c
  <2> QED
    BY <2>3, <2>4, <2>5 DEF Shapes
<1>2. \A n \in Nat : (\A m \in 0 .. n - 1 : m \in U) => n \in U
  BY <1>1
<1> HIDE DEF U
<1>3. \A n \in Nat : n \in U
  BY <1>2, StrongInduction
<1> QED
  BY <1>3 DEF U
-----------------------------------------------------------------------------
(* Data frames without nulls. *)

(* What is inside of dictionaries without nulls is without nulls.           *)
LEMMA WholeDict ==
  ASSUME FlattenRecursion, NEW Tokens, NEW levels, NEW n, NEW S, NEW node, Whole(S),
         DictShape(Tokens, levels, n, S, node)
  PROVE  /\ \A c \in S : /\ c.k = "dict" /\ c = Dict([key \in DOMAIN c.f |-> c.f[key]])
                         /\ DOMAIN c.f = DOMAIN node.children
         /\ \A key \in DOMAIN node.children : S # {} => Whole({Get(c, key) : c \in S})
<1>1. /\ Null \notin S
      /\ \A c \in Dicts(S) : DOMAIN c.f = Keys(S)
      /\ \A key \in Keys(S) : Whole({Get(c, key) : c \in Dicts(S)})
  BY DEF Whole, FlattenRecursion
<1>2. \A c \in S : c.k = "dict" /\ c = Dict([key \in DOMAIN c.f |-> c.f[key]])
  BY <1>1 DEF DictShape
<1>3. Dicts(S) = S
  BY <1>2 DEF Dicts
<1>4. S # {} => Keys(S) = DOMAIN node.children
  BY <1>3 DEF DictShape
<1> QED
  BY <1>1, <1>2, <1>3, <1>4

(* So is what is inside of lists. *)
LEMMA WholeList ==
  ASSUME FlattenRecursion, NEW levels, NEW n, NEW S, NEW node, Whole(S),
         ArrayShape("pandas", levels, n, S, node)
  PROVE  /\ \A c \in S : c.k = "list" /\ c = List(c.s) /\ c.s \in Seq(Elements(S))
         /\ ~node.nullable_array
         /\ S # {} => Whole(Elements(S)) /\ ~node.nullable_elements
<1>1. Null \notin S /\ (Lists(S) # {} => Whole(Elements(S)))
  BY DEF Whole, FlattenRecursion
<1>2. \A c \in S : c.k = "list" /\ c = List(c.s) /\ c.s \in Seq(Elements(S))
  BY <1>1 DEF ArrayShape
<1>3. Lists(S) = S
  BY <1>2 DEF Lists
<1>4. S # {} => Whole(Elements(S)) /\ Null \notin Elements(S)
  BY <1>1, <1>3 DEF Whole
<1>5. (node.nullable_array => Null \in S) /\ (node.nullable_elements <=> Null \in Elements(S))
  BY DEF ArrayShape
<1> QED
  BY <1>1, <1>2, <1>4, <1>5

(* What conforms to a schema of cells without nulls is what it was.         *)
LEMMA ConformedSame ==
  ASSUME FlattenRecursion, NEW Tokens, NEW levels, Shapes("pandas", Tokens, levels)
  PROVE  \A n \in Nat : \A p \in levels[n] : \A c \in p[1] :
            Whole(p[1]) => Conformed(c, p[2]) = c
<1> DEFINE Good(p) == \A c \in p[1] : Whole(p[1]) => Conformed(c, p[2]) = c
           U == {n \in Nat : \A p \in levels[n] : Good(p)}
<1>1. ASSUME NEW n \in Nat, \A m \in 0 .. n - 1 : m \in U, NEW p \in levels[n],
             NEW c \in p[1], Whole(p[1])
      PROVE  Conformed(c, p[2]) = c
  <2> DEFINE S == p[1]
             node == p[2]
  <2>1. \A q \in Below(levels, n) : Good(q)
    BY <1>1 DEF Below
  <2>2. CASE DictShape(Tokens, levels, n, S, node)
    <3>1. /\ c.k = "dict" /\ c = Dict([key \in DOMAIN c.f |-> c.f[key]])
          /\ DOMAIN c.f = DOMAIN node.children
          /\ \A key \in DOMAIN node.children : S # {} => Whole({Get(e, key) : e \in S})
      <4>1. c \in S /\ Whole(S)
        BY <1>1
      <4> HIDE DEF S, node
      <4> QED
        BY <2>2, <4>1, WholeDict
    <3>2. ASSUME NEW key \in DOMAIN node.children
          PROVE  Conformed(Get(c, key), node.children[key]) = c.f[key]
      <4> DEFINE q == <<{Get(e, key) : e \in S}, node.children[key]>>
      <4>1. q \in Below(levels, n)
        BY <2>2 DEF DictShape
      <4>2. Get(c, key) \in q[1] /\ Whole(q[1])
        BY <3>1
      <4>3. Conformed(Get(c, key), q[2]) = Get(c, key)
        BY <2>1, <4>1, <4>2
      <4> QED
        BY <3>1, <4>3 DEF Get
    <3>3. node.k = "dict"
      BY <2>2 DEF DictShape
    <3>4. Conformed(c, node) = Dict([key \in DOMAIN node.children |-> Conformed(Get(c, key), node.children[key])])
      <4>1. Conformed(c, node) = Dict([key \in DOMAIN node.children |-> ConformedBelow(Get(c, key), node.children[key])])
        BY <3>1, <3>3 DEF Conformed
      <4> QED
        BY <4>1 DEF FlattenRecursion
    <3>5. [key \in DOMAIN node.children |-> Conformed(Get(c, key), node.children[key])] =
            [key \in DOMAIN c.f |-> c.f[key]]
      BY <3>1, <3>2
    <3> QED
      BY <3>1, <3>4, <3>5
  <2>3. CASE ArrayShape("pandas", levels, n, S, node)
    <3>1. /\ c.k = "list" /\ c = List(c.s) /\ c.s \in Seq(Elements(S))
          /\ Whole(Elements(S))
      <4>1. c \in S /\ Whole(S)
        BY <1>1
      <4> HIDE DEF S, node
      <4> QED
        BY <2>3, <4>1, WholeList
    <3>2. ASSUME NEW i \in DOMAIN c.s PROVE Conformed(c.s[i], node.element) = c.s[i]
      <4> DEFINE q == <<Inside("pandas", S), node.element>>
      <4>1. q \in Below(levels, n)
        BY <2>3 DEF ArrayShape
      <4>2. q[1] = Elements(S) /\ c.s[i] \in q[1]
        BY <3>1 DEF Inside
      <4>3. Conformed(c.s[i], q[2]) = c.s[i]
        BY <2>1, <3>1, <4>1, <4>2
      <4> QED
        BY <4>3
    <3>3. Conformed(c, node) = List([i \in DOMAIN c.s |-> Conformed(c.s[i], node.element)])
      <4>1. node.k = "array"
        BY <2>3 DEF ArrayShape
      <4>2. Conformed(c, node) = List([i \in DOMAIN c.s |-> ConformedBelow(c.s[i], node.element)])
        BY <3>1, <4>1 DEF Conformed
      <4>3. \A i : ConformedBelow(c.s[i], node.element) = Conformed(c.s[i], node.element)
        BY DEF FlattenRecursion
      <4> QED
        BY <4>2, <4>3
    <3>4. [i \in DOMAIN c.s |-> Conformed(c.s[i], node.element)] = c.s
      <4>1. [i \in DOMAIN c.s |-> Conformed(c.s[i], node.element)] = [i \in DOMAIN c.s |-> c.s[i]]
        BY <3>2
      <4>2. c.s = [i \in DOMAIN c.s |-> c.s[i]]
        BY <3>1
      <4> QED
        BY <4>1, <4>2
    <3> QED
      BY <3>1, <3>3, <3>4
  <2>4. CASE LeafShape(S, node)
    BY <2>4 DEF LeafShape, Conformed
  <2> QED
    BY <2>2, <2>3, <2>4 DEF Shapes
<1>2. \A n \in Nat : (\A m \in 0 .. n - 1 : m \in U) => n \in U
  BY <1>1
<1> HIDE DEF U
<1>3. \A n \in Nat : n \in U
  BY <1>2, StrongInduction
<1> QED
  BY <1>3 DEF U

(* The cells of row r of columns without nulls are put together as they    *)
(* were.                                                                   *)
SameCells(Tokens, levels, flat, r) ==
    \A n \in Nat : \A p \in levels[n] : \A name \in Seq(Tokens) : \A cells :
       /\ Whole(p[1])
       /\ r \in DOMAIN cells
       /\ cells[r] \in p[1]
       /\ NamesApart("pandas", cells, p[2], name)
       /\ TakenFrom({r}, flat, r, FlattenCells("pandas", cells, p[2], name))
       => CellOf("pandas", flat, p[2], name, r) = cells[r]

(* A frame's cell that is put together of the flat cells of its own row is  *)
(* the cell of the column, when the column has no nulls.                   *)
LEMMA CellSame ==
  ASSUME FlattenRecursion, NEW Tokens, NEW levels, Shapes("pandas", Tokens, levels),
         NEW flat, NEW r
  PROVE  SameCells(Tokens, levels, flat, r)
<1> DEFINE Good(p) ==
             \A name \in Seq(Tokens) : \A cells :
                /\ Whole(p[1])
                /\ r \in DOMAIN cells
                /\ cells[r] \in p[1]
                /\ NamesApart("pandas", cells, p[2], name)
                /\ TakenFrom({r}, flat, r, FlattenCells("pandas", cells, p[2], name))
                => CellOf("pandas", flat, p[2], name, r) = cells[r]
           U == {n \in Nat : \A p \in levels[n] : Good(p)}
<1>1. ASSUME NEW n \in Nat, \A m \in 0 .. n - 1 : m \in U, NEW p \in levels[n],
             NEW name \in Seq(Tokens), NEW cells, r \in DOMAIN cells, cells[r] \in p[1],
             Whole(p[1]),
             NamesApart("pandas", cells, p[2], name),
             TakenFrom({r}, flat, r, FlattenCells("pandas", cells, p[2], name))
      PROVE  CellOf("pandas", flat, p[2], name, r) = cells[r]
  <2> DEFINE S == p[1]
             node == p[2]
             c == cells[r]
             d == CellOf("pandas", flat, node, name, r)
  <2>1. \A q \in Below(levels, n) : Good(q)
    BY <1>1 DEF Below
  <2>2. Marks \subseteq Tokens /\ c \in S /\ Whole(S) /\ S # {}
    BY <1>1 DEF Shapes
  <2>3. CASE DictShape(Tokens, levels, n, S, node)
    <3>1. node.k = "dict" /\ Texts(Tokens, DOMAIN node.children)
      BY <2>3 DEF DictShape
    <3>2. /\ c.k = "dict" /\ c = Dict([key \in DOMAIN c.f |-> c.f[key]])
          /\ DOMAIN c.f = DOMAIN node.children
          /\ \A key \in DOMAIN node.children : Whole({Get(e, key) : e \in S})
      <4> HIDE DEF S, node, c
      <4> QED
        BY <2>2, <2>3, WholeDict
    <3>3. d = Dict([key \in DOMAIN node.children |->
                      CellOf("pandas", flat, node.children[key], Child(name, key), r)])
      <4>1. d = Dict([key \in DOMAIN node.children |->
                        CellOfBelow("pandas", flat, node.children[key], Child(name, key), r)])
        BY <3>1 DEF CellOf
      <4> QED
        BY <4>1 DEF FlattenRecursion
    <3>4. ASSUME NEW key \in DOMAIN node.children
          PROVE  CellOf("pandas", flat, node.children[key], Child(name, key), r) = c.f[key]
      <4> DEFINE q == <<{Get(e, key) : e \in S}, node.children[key]>>
                 under == Under(cells, key)
      <4>1. q \in Below(levels, n) /\ Good(q)
        BY <2>1, <2>3 DEF DictShape
      <4>2. Child(name, key) \in Seq(Tokens)
        <5>1. Spelled(key) \in Seq(Tokens)
          BY <3>1 DEF Texts
        <5> QED
          BY <2>2, <5>1, ChildName
      <4>3. r \in DOMAIN under /\ under[r] = Get(c, key) /\ under[r] \in q[1] /\ Whole(q[1])
        BY <1>1, <3>2 DEF Under
      <4>4. TakenFrom({r}, flat, r, FlattenCells("pandas", under, q[2], Child(name, key)))
        <5> DEFINE rows == {r}
                   b == "pandas"
        <5>1. /\ TakenFrom(rows, flat, r, FlattenCells(b, cells, node, name))
              /\ NamesApart(b, cells, node, name)
          BY <1>1
        <5> HIDE DEF rows, node, S, b
        <5>2. TakenFrom(rows, flat, r,
                        FlattenCells(b, Under(cells, key), node.children[key], Child(name, key)))
          BY <3>1, <5>1, UnderKey
        <5> QED
          BY <5>2 DEF rows, b
      <4>6. NamesApart("pandas", under, q[2], Child(name, key))
        BY <1>1, <3>1, NamesUnder
      <4> HIDE DEF q, under
      <4>5. CellOf("pandas", flat, q[2], Child(name, key), r) = under[r]
        BY <4>1, <4>2, <4>3, <4>4, <4>6
      <4> QED
        BY <3>2, <4>3, <4>5 DEF q, Get
    <3>5. [key \in DOMAIN node.children |->
             CellOf("pandas", flat, node.children[key], Child(name, key), r)] =
          [key \in DOMAIN c.f |-> c.f[key]]
      BY <3>2, <3>4
    <3> HIDE DEF c, d
    <3>6. d = c
      BY <3>2, <3>3, <3>5
    <3> QED
      BY <3>6 DEF c, d
  <2>4. CASE ArrayShape("pandas", levels, n, S, node)
    <3> DEFINE b == "pandas"
               kept == Kept(b, node, Items(b, flat, node, name, r))
               old == Had(c)
    <3>1. /\ c.k = "list" /\ c = List(c.s) /\ c.s \in Seq(Elements(S))
          /\ ~node.nullable_array /\ ~node.nullable_elements /\ Whole(Elements(S))
      <4> HIDE DEF S, node, c
      <4> QED
        BY <2>2, <2>4, WholeList
    <3>2. d = List(kept) /\ kept = [i \in 1 .. Len(old) |-> Conformed(old[i], node.element)]
      <4>1. cells[r] \in S /\ TakenFrom({r}, flat, r, FlattenCells(b, cells, node, name))
            /\ Shapes(b, Tokens, levels) /\ ArrayShape(b, levels, n, S, node)
        BY <1>1, <2>4
      <4>2. b # "arrow"
        OBVIOUS
      <4> HIDE DEF node, S, b
      <4>3. /\ CellOf(b, flat, node, name, r) =
                 IF node.nullable_array /\ cells[r] = Null THEN Null ELSE List(kept)
            /\ ~(b = "arrow" \/ node.nullable_elements) =>
                 kept = [i \in 1 .. Len(old) |-> Conformed(old[i], node.element)]
        BY <1>1, <4>1, OwnItems, SMTT(60)
      <4> QED
        BY <3>1, <4>2, <4>3 DEF b
    <3>3. old = c.s
      BY <3>1 DEF Had
    <3>4. ASSUME NEW i \in 1 .. Len(c.s) PROVE Conformed(c.s[i], node.element) = c.s[i]
      <4> DEFINE q == <<Inside(b, S), node.element>>
      <4>1. PICK m \in 0 .. n - 1 : q \in levels[m]
        BY <2>4 DEF ArrayShape, Below
      <4>2. m \in Nat /\ c.s[i] \in q[1] /\ Whole(q[1])
        BY <3>1 DEF Inside
      <4> HIDE DEF q, c
      <4>3. Conformed(c.s[i], q[2]) = c.s[i]
        BY <4>1, <4>2, ConformedSame
      <4> QED
        BY <4>3 DEF q
    <3>5. [i \in 1 .. Len(c.s) |-> Conformed(c.s[i], node.element)] = c.s
      <4>1. [i \in 1 .. Len(c.s) |-> Conformed(c.s[i], node.element)] = [i \in 1 .. Len(c.s) |-> c.s[i]]
        BY <3>4
      <4>2. c.s = [i \in 1 .. Len(c.s) |-> c.s[i]]
        BY <3>1
      <4> QED
        BY <4>1, <4>2
    <3> HIDE DEF c, d, kept, old
    <3>6. d = c
      BY <3>1, <3>2, <3>3, <3>5
    <3> QED
      BY <3>6 DEF c, d
  <2>5. CASE LeafShape(S, node)
    <3>1. node.k \notin {"dict", "array"}
      BY <2>5 DEF LeafShape
    <3>2. d = flat[name][r]
      BY <3>1 DEF CellOf
    <3>3. FlattenCells("pandas", cells, node, name) = [flatName \in {name} |-> cells]
      <4> HIDE DEF node
      <4> QED
        BY <3>1 DEF FlattenCells
    <3>4. flat[name][r] = cells[r]
      BY <1>1, <3>3 DEF TakenFrom
    <3> QED
      BY <3>2, <3>4
  <2> QED
    BY <2>3, <2>4, <2>5 DEF Shapes
<1>2. \A n \in Nat : (\A m \in 0 .. n - 1 : m \in U) => n \in U
  BY <1>1
<1> HIDE DEF U
<1>3. \A n \in Nat : n \in U
  BY <1>2, StrongInduction
<1> QED
  BY <1>3 DEF U, SameCells

-----------------------------------------------------------------------------
(* Rows. *)

(* Columns of n cells. *)
Long(n, columns) ==
    \A name \in DOMAIN columns : columns[name] = [r \in 1 .. n |-> columns[name][r]]

(* Each flat column has as many cells as the column.                        *)
LEMMA FlatLong ==
  ASSUME FlattenRecursion, NEW b, NEW Tokens, NEW levels, Shapes(b, Tokens, levels),
         NEW count \in Nat
  PROVE  \A n \in Nat : \A p \in levels[n] : \A name : \A cells :
            cells = [r \in 1 .. count |-> cells[r]] => Long(count, FlattenCells(b, cells, p[2], name))
<1> DEFINE Good(p) ==
             \A name : \A cells :
                cells = [r \in 1 .. count |-> cells[r]]
                => Long(count, FlattenCells(b, cells, p[2], name))
           U == {n \in Nat : \A p \in levels[n] : Good(p)}
<1>1. ASSUME NEW n \in Nat, \A m \in 0 .. n - 1 : m \in U, NEW p \in levels[n],
             NEW name, NEW cells, cells = [r \in 1 .. count |-> cells[r]]
      PROVE  Long(count, FlattenCells(b, cells, p[2], name))
  <2> DEFINE S == p[1]
             node == p[2]
             all == FlattenCells(b, cells, node, name)
  <2>1. \A q \in Below(levels, n) : Good(q)
    BY <1>1 DEF Below
  <2>2. DOMAIN cells = 1 .. count
    BY <1>1
  <2>3. CASE DictShape(Tokens, levels, n, S, node)
    <3> DEFINE of == ByKey(b, cells, node, name)
    <3>1. node.k = "dict"
      BY <2>3 DEF DictShape
    <3>2. all = Joined(of)
      <4> HIDE DEF node
      <4> QED
        BY <3>1, FlattenDict
    <3>3. DOMAIN of = DOMAIN node.children
      BY DEF ByKey
    <3>4. ASSUME NEW key \in DOMAIN of PROVE Long(count, of[key])
      <4> DEFINE q == <<{Get(e, key) : e \in S}, node.children[key]>>
                 under == Under(cells, key)
      <4>1. q \in Below(levels, n) /\ Good(q)
        BY <2>1, <2>3, <3>3 DEF DictShape
      <4>2. under = [r \in 1 .. count |-> under[r]]
        BY <2>2 DEF Under
      <4>3. of[key] = FlattenCells(b, under, q[2], Child(name, key))
        BY <3>3 DEF ByKey
      <4> HIDE DEF q, under, of
      <4> QED
        BY <4>1, <4>2, <4>3
    <3> HIDE DEF of
    <3>5. ASSUME NEW long \in DOMAIN Joined(of)
          PROVE  Joined(of)[long] = [r \in 1 .. count |-> Joined(of)[long][r]]
      <4>1. \E key \in DOMAIN of : long \in DOMAIN of[key]
        BY DEF Joined
      <4>2. PICK key \in DOMAIN of : long \in DOMAIN of[key] /\ Joined(of)[long] = of[key][long]
        BY <4>1 DEF Joined
      <4> QED
        BY <3>4, <4>2 DEF Long
    <3> HIDE DEF all
    <3>6. Long(count, all)
      BY <3>2, <3>5 DEF Long
    <3> QED
      BY <3>6 DEF all
  <2>4. CASE ArrayShape(b, levels, n, S, node)
    <3>1. node.k = "array" /\ node.max \in Nat
      BY <2>4 DEF ArrayShape
    <3>2. \A long \in DOMAIN all : all[long] = NullFlags(cells) \/ \E i : all[long] = ElementCells(cells, i)
      <4> HIDE DEF node
      <4> QED
        BY <3>1 DEF FlattenCells
    <3>3. NullFlags(cells) = [r \in 1 .. count |-> NullFlags(cells)[r]]
      BY <2>2 DEF NullFlags
    <3>4. \A i : ElementCells(cells, i) = [r \in 1 .. count |-> ElementCells(cells, i)[r]]
      BY <2>2 DEF ElementCells
    <3> HIDE DEF all
    <3>5. Long(count, all)
      BY <3>2, <3>3, <3>4 DEF Long
    <3> QED
      BY <3>5 DEF all
  <2>5. CASE LeafShape(S, node)
    <3>1. node.k \notin {"dict", "array"}
      BY <2>5 DEF LeafShape
    <3>2. all = [flatName \in {name} |-> cells]
      <4> HIDE DEF node
      <4> QED
        BY <3>1 DEF FlattenCells
    <3> QED
      BY <1>1, <3>2 DEF Long
  <2> QED
    BY <2>3, <2>4, <2>5 DEF Shapes
<1>2. \A n \in Nat : (\A m \in 0 .. n - 1 : m \in U) => n \in U
  BY <1>1
<1> HIDE DEF U
<1>3. \A n \in Nat : n \in U
  BY <1>2, StrongInduction
<1> QED
  BY <1>3 DEF U
-----------------------------------------------------------------------------
(* Columns of a type. *)

(* The cells of each type, Of[type], with the types in levels: a list has   *)
(* cells of the type of its elements, a dictionary those of its fields, of *)
(* which a data frame's need not have all.  Any cell may be null.          *)
StructCells(b, Tokens, types, Of, n, type) ==
    /\ type.t = "struct"
    /\ Texts(Tokens, DOMAIN type.fields)
    /\ \A key \in DOMAIN type.fields : type.fields[key] \in Below(types, n)
    /\ \A c \in Of[type] :
          \/ c = Null
          \/ /\ c.k = "dict" /\ c = Dict([key \in DOMAIN c.f |-> c.f[key]])
             /\ DOMAIN c.f \subseteq DOMAIN type.fields
             /\ b = "arrow" => DOMAIN c.f = DOMAIN type.fields
             /\ \A key \in DOMAIN c.f : c.f[key] \in Of[type.fields[key]]

(* The cells of a type of lists. *)
ListCellsOf(types, Of, n, type) ==
    /\ type.t = "list"
    /\ type.element \in Below(types, n)
    /\ \A c \in Of[type] :
          \/ c = Null
          \/ c.k = "list" /\ c = List(c.s) /\ c.s \in Seq(Of[type.element])

(* The cells of any other type. *)
PlainCells(Of, type) ==
    /\ type.t \notin {"struct", "list"}
    /\ \A c \in Of[type] : c.k \notin {"dict", "list"}

(* The types of every level, each with its cells. *)
CellTypes(b, Tokens, types, Of) ==
    /\ Marks \subseteq Tokens
    /\ b \in {"pandas", "arrow"}
    /\ \A n \in Nat : \A type \in types[n] :
          /\ Null \in Of[type]
          /\ \/ StructCells(b, Tokens, types, Of, n, type)
             \/ ListCellsOf(types, Of, n, type)
             \/ PlainCells(Of, type)

(* Some of the cells of a type, and perhaps a null. *)
Parts(Of, type) == {P \in SUBSET Of[type] : IsFiniteSet(P)}

(* What InferPandas is asked for cells of each type, and its answer. *)
FrameLevels(types, Of) ==
    [n \in Nat |->
       UNION {{<<P \cup N, InferPandas(P)>> : P \in Parts(Of, type), N \in {{}, {Null}}} :
                type \in types[n]}]

(* Cells with their timestamps made texts. *)
RenderedAll(S) == {Rendered(c) : c \in S}

(* What InferArrow is asked for cells of each type, and its answer: it sees *)
(* the cells before their timestamps become texts.                         *)
ArrowPair(P, N, type) == <<RenderedAll(P \cup N), InferArrow(P, type)>>

(* The pairs of one level. *)
ArrowLevel(types, Of, n) ==
    UNION {{ArrowPair(P, N, type) : P \in Parts(Of, type), N \in {{}, {Null}}} : type \in types[n]}

(* Besides, a list without items says nothing of its elements. *)
ArrowLevels(types, Of) == [n \in Nat |-> {<<{Null}, Scalar>>} \cup ArrowLevel(types, Of, n)]

(* What a function has on finitely many arguments is finite. *)
LEMMA FiniteRange ==
  ASSUME NEW S, IsFiniteSet(S), NEW f, f = [x \in S |-> f[x]]
  PROVE  IsFiniteSet({f[x] : x \in S})
<1> DEFINE T == {f[x] : x \in S}
<1>1. f \in Surjection(S, T)
  <2>1. f \in [S -> T]
    OBVIOUS
  <2> QED
    BY <2>1 DEF Surjection
<1> HIDE DEF T
<1>2. IsFiniteSet(T)
  BY <1>1, FS_Surjection
<1> QED
  BY <1>2 DEF T

(* So is what finitely many cells have inside. *)
LEMMA FiniteInside ==
  ASSUME NEW P, IsFiniteSet(P)
  PROVE  /\ \A key : IsFiniteSet({Get(c, key) : c \in P})
         /\ \A key : IsFiniteSet(FieldCells(P, key))
         /\ IsFiniteSet({Len(c.s) : c \in Lists(P)})
         /\ (\A c \in Lists(P) : \E V : c.s \in Seq(V)) => IsFiniteSet(Elements(P))
<1>1. ASSUME NEW key PROVE IsFiniteSet({Get(c, key) : c \in P})
  <2> DEFINE f == [c \in P |-> Get(c, key)]
  <2>1. f = [c \in P |-> f[c]] /\ {f[c] : c \in P} = {Get(c, key) : c \in P}
    OBVIOUS
  <2> HIDE DEF f
  <2>2. IsFiniteSet({f[c] : c \in P})
    BY <2>1, FiniteRange
  <2> QED
    BY <2>1, <2>2
<1>2. IsFiniteSet(Lists(P))
  BY FS_Subset DEF Lists
<1>3. ASSUME NEW key PROVE IsFiniteSet(FieldCells(P, key))
  <2> DEFINE D == {d \in Dicts(P) : key \in DOMAIN d.f}
             f == [c \in D |-> c.f[key]]
  <2>1. IsFiniteSet(D)
    <3>1. D \in SUBSET P
      BY DEF Dicts
    <3> HIDE DEF D
    <3> QED
      BY <3>1, FS_Subset
  <2> HIDE DEF D
  <2>2. f = [c \in D |-> f[c]] /\ {f[c] : c \in D} = {c.f[key] : c \in D}
    OBVIOUS
  <2> HIDE DEF f
  <2>3. IsFiniteSet({f[c] : c \in D})
    BY <2>1, <2>2, FiniteRange
  <2> QED
    BY <2>2, <2>3 DEF D, FieldCells
<1>4. IsFiniteSet({Len(c.s) : c \in Lists(P)})
  <2> DEFINE L == Lists(P)
             f == [c \in L |-> Len(c.s)]
  <2> HIDE DEF L
  <2>1. f = [c \in L |-> f[c]] /\ {f[c] : c \in L} = {Len(c.s) : c \in L}
    OBVIOUS
  <2> HIDE DEF f
  <2>2. IsFiniteSet({f[c] : c \in L})
    BY <1>2, <2>1, FiniteRange DEF L
  <2> QED
    BY <2>1, <2>2 DEF L
<1>5. ASSUME \A c \in Lists(P) : \E V : c.s \in Seq(V)
      PROVE  IsFiniteSet(Elements(P))
  <2> DEFINE L == Lists(P)
             f == [c \in L |-> Range(c.s)]
             T == {f[c] : c \in L}
  <2> HIDE DEF L
  <2>1. f = [c \in L |-> f[c]] /\ T = {Range(c.s) : c \in L}
    OBVIOUS
  <2>2. IsFiniteSet(T)
    <3> HIDE DEF f
    <3> QED
      BY <1>2, <2>1, FiniteRange DEF L
  <2>3. ASSUME NEW c \in L PROVE IsFiniteSet(Range(c.s))
    <3>1. PICK V : c.s \in Seq(V)
      BY <1>5 DEF L
    <3> DEFINE D == 1 .. Len(c.s)
               g == [i \in D |-> c.s[i]]
    <3>2. IsFiniteSet(D)
      <4>1. Len(c.s) \in Int /\ 1 \in Int
        BY <3>1
      <4> QED
        BY <4>1, FS_Interval
    <3>3. DOMAIN c.s = D
      BY <3>1
    <3>4. g = [i \in D |-> g[i]] /\ Range(c.s) = {g[i] : i \in D}
      BY <3>3 DEF Range
    <3> HIDE DEF g, D
    <3> QED
      BY <3>2, <3>4, FiniteRange
  <2>4. \A t \in T : IsFiniteSet(t)
    BY <2>1, <2>3
  <2>5. Elements(P) = UNION T
    BY <2>1 DEF Elements, L
  <2> HIDE DEF T
  <2> QED
    BY <2>2, <2>4, <2>5, FS_UNION
<1> QED
  BY <1>1, <1>3, <1>4, <1>5

(* A length that no list exceeds. *)
LEMMA MaxLenBounds ==
  ASSUME NEW P, IsFiniteSet(P), \A c \in Lists(P) : \E V : c.s \in Seq(V)
  PROVE  MaxLen(P) \in Nat /\ \A c \in Lists(P) : Len(c.s) <= MaxLen(P)
<1> DEFINE T == {Len(c.s) : c \in Lists(P)}
           U == {0} \cup T
<1>1. IsFiniteSet(T)
  BY FiniteInside
<1>2. T \subseteq Nat
  OBVIOUS
<1> HIDE DEF T
<1>3. IsFiniteSet({0})
  BY FS_Singleton
<1>4. IsFiniteSet(U) /\ U # {} /\ U \subseteq Nat
  <2> DEFINE Z == {0}
  <2>1. Z # {} /\ Z \subseteq Nat /\ U = Z \cup T /\ IsFiniteSet(Z)
    BY <1>3
  <2> HIDE DEF Z, U
  <2>2. IsFiniteSet(Z \cup T)
    BY <1>1, <2>1, FS_Union
  <2> QED
    BY <1>2, <2>1, <2>2
<1> HIDE DEF U
<1>5. Max(U) \in U /\ \A x \in U : x <= Max(U)
  BY <1>4, Largest
<1>6. MaxLen(P) = Max(U)
  BY DEF MaxLen, U, T
<1> QED
  BY <1>4, <1>5, <1>6 DEF U, T

(* The schema of a data frame describes its cells.                          *)
LEMMA FrameShapes ==
  ASSUME FlattenRecursion, NEW Tokens, NEW types, NEW Of, CellTypes("pandas", Tokens, types, Of)
  PROVE  Shapes("pandas", Tokens, FrameLevels(types, Of))
<1> DEFINE levels == FrameLevels(types, Of)
<1>1. \A n \in Nat : \A type \in types[n] : \A P \in Parts(Of, type) : \A N \in {{}, {Null}} :
         <<P \cup N, InferPandas(P)>> \in levels[n]
  BY DEF FrameLevels
<1>2. ASSUME NEW n \in Nat, NEW p \in levels[n]
      PROVE  \E type \in types[n] : \E P \in Parts(Of, type) : \E N \in {{}, {Null}} :
                p = <<P \cup N, InferPandas(P)>>
  BY <1>2 DEF FrameLevels
<1> HIDE DEF levels
<1>3. ASSUME NEW n \in Nat, NEW type \in types[n], NEW P \in Parts(Of, type), NEW N \in {{}, {Null}}
      PROVE  \/ DictShape(Tokens, levels, n, P \cup N, InferPandas(P))
             \/ ArrayShape("pandas", levels, n, P \cup N, InferPandas(P))
             \/ LeafShape(P \cup N, InferPandas(P))
  <2> DEFINE T == P \cup N
             node == InferPandas(P)
  <2>1. /\ P \subseteq Of[type] /\ IsFiniteSet(P) /\ Null \in Of[type] /\ T \subseteq Of[type]
        /\ \/ StructCells("pandas", Tokens, types, Of, n, type)
           \/ ListCellsOf(types, Of, n, type)
           \/ PlainCells(Of, type)
    BY DEF Parts, CellTypes
  <2>2. Dicts(T) = Dicts(P) /\ Lists(T) = Lists(P)
    <3>1. \A c \in N : c.k = "null"
      BY DEF Null
    <3> QED
      BY <3>1 DEF Dicts, Lists
  <2>3. CASE Dicts(P) = {} /\ Lists(P) = {}
    <3>1. node = Scalar
      BY <2>3 DEF InferPandas
    <3>2. LeafShape(T, node)
      <4>1. \A c \in T : c.k \notin {"dict", "list"}
        BY <2>2, <2>3 DEF Dicts, Lists
      <4>2. node.k = "scalar"
        BY <3>1 DEF Scalar, ScalarNode
      <4> QED
        BY <4>1, <4>2 DEF LeafShape
    <3> QED
      BY <3>2
  <2>4. CASE Dicts(P) # {}
    <3>1. StructCells("pandas", Tokens, types, Of, n, type)
      <4>1. PICK c \in P : c.k = "dict"
        BY <2>4 DEF Dicts
      <4>2. c \in Of[type] /\ c # Null /\ c.k # "list"
        BY <2>1, <4>1 DEF Null
      <4> HIDE DEF T, node
      <4>3. ~ListCellsOf(types, Of, n, type)
        BY <4>2 DEF ListCellsOf
      <4>4. ~PlainCells(Of, type)
        BY <4>1, <4>2 DEF PlainCells
      <4> QED
        BY <2>1, <4>3, <4>4
    <3>2. node = [k |-> "dict", children |-> [key \in Keys(P) |-> InferPandas(FieldCells(P, key))]]
      <4>1. Lists(P) = {}
        <5>1. \A c \in P : c = Null \/ c.k = "dict"
          BY <2>1, <3>1 DEF StructCells
        <5> QED
          BY <5>1 DEF Lists, Null
      <4>2. node = [k |-> "dict", children |-> [key \in Keys(P) |-> InferPandasBelow(FieldCells(P, key))]]
        BY <2>4, <4>1 DEF InferPandas
      <4> QED
        BY <4>2 DEF FlattenRecursion
    <3>3. /\ node.k = "dict" /\ DOMAIN node.children = Keys(P)
          /\ \A key \in Keys(P) : node.children[key] = InferPandas(FieldCells(P, key))
      BY <3>2
    <3>4. \A c \in T : c = Null \/ (c.k = "dict" /\ c = Dict([key \in DOMAIN c.f |-> c.f[key]]))
      BY <2>1, <3>1 DEF StructCells
    <3>5. Keys(P) \subseteq DOMAIN type.fields /\ Texts(Tokens, DOMAIN type.fields)
      <4>1. \A c \in Dicts(P) : DOMAIN c.f \subseteq DOMAIN type.fields
        <5>1. \A c \in Dicts(P) : c \in Of[type] /\ c # Null
          BY <2>1 DEF Dicts, Null
        <5> QED
          BY <3>1, <5>1 DEF StructCells
      <4>2. Keys(P) \subseteq DOMAIN type.fields
        BY <4>1 DEF Keys
      <4>3. Texts(Tokens, DOMAIN type.fields)
        BY <3>1 DEF StructCells
      <4> QED
        BY <4>2, <4>3
    <3>6. Keys(T) = Keys(P) /\ Dicts(T) # {}
      BY <2>2, <2>4 DEF Keys
    <3>7. ASSUME NEW key \in Keys(P)
          PROVE  <<{Get(c, key) : c \in T}, InferPandas(FieldCells(P, key))>> \in Below(levels, n)
      <4>1. PICK m \in 0 .. n - 1 : type.fields[key] \in types[m]
        BY <3>1, <3>5 DEF StructCells, Below
      <4>2. FieldCells(P, key) \in Parts(Of, type.fields[key])
        <5>1. IsFiniteSet(FieldCells(P, key))
          BY <2>1, FiniteInside
        <5>2. FieldCells(P, key) \subseteq Of[type.fields[key]]
          <6>1. \A c \in Dicts(P) : c \in Of[type] /\ c # Null
            BY <2>1 DEF Dicts, Null
          <6>2. \A c \in Dicts(P) : \A k \in DOMAIN c.f : c.f[k] \in Of[type.fields[k]]
            BY <3>1, <6>1 DEF StructCells
          <6> QED
            BY <6>2 DEF FieldCells
        <5> QED
          BY <5>1, <5>2 DEF Parts
      <4>3. PICK M \in {{}, {Null}} : {Get(c, key) : c \in T} = FieldCells(P, key) \cup M
        <5>1. FieldCells(P, key) \subseteq {Get(c, key) : c \in T}
          BY DEF Get, Dicts, FieldCells
        <5>2. {Get(c, key) : c \in T} \subseteq FieldCells(P, key) \cup {Null}
          <6>1. ASSUME NEW c \in T PROVE Get(c, key) \in FieldCells(P, key) \cup {Null}
            <7>1. CASE c.k = "dict" /\ key \in DOMAIN c.f
              <8>1. c \in Dicts(P)
                BY <2>2, <7>1 DEF Dicts
              <8> QED
                BY <7>1, <8>1 DEF Get, FieldCells
            <7>2. CASE ~(c.k = "dict" /\ key \in DOMAIN c.f)
              BY <7>2 DEF Get
            <7> QED
              BY <7>1, <7>2
          <6> QED
            BY <6>1
        <5> HIDE DEF T
        <5>3. \/ {Get(c, key) : c \in T} = FieldCells(P, key) \cup {}
              \/ {Get(c, key) : c \in T} = FieldCells(P, key) \cup {Null}
          BY <5>1, <5>2
        <5> QED
          BY <5>3
      <4>4. m \in Nat
        OBVIOUS
      <4> HIDE DEF T
      <4>5. <<FieldCells(P, key) \cup M, InferPandas(FieldCells(P, key))>> \in levels[m]
        BY <1>1, <4>1, <4>2, <4>4
      <4> QED
        BY <4>3, <4>5 DEF Below
    <3> HIDE DEF node, T
    <3>8. \A key \in DOMAIN node.children :
             <<{Get(c, key) : c \in T}, node.children[key]>> \in Below(levels, n)
      BY <3>3, <3>7
    <3>9. DictShape(Tokens, levels, n, T, node)
      BY <3>3, <3>4, <3>5, <3>6, <3>8 DEF DictShape, Texts
    <3> QED
      BY <3>9 DEF node, T
  <2>5. CASE Dicts(P) = {} /\ Lists(P) # {}
    <3> DEFINE present == Elements(P) \ {Null}
    <3>1. ListCellsOf(types, Of, n, type)
      <4>1. PICK c \in P : c.k = "list"
        BY <2>5 DEF Lists
      <4>2. c \in Of[type] /\ c # Null /\ c.k # "dict"
        BY <2>1, <4>1 DEF Null
      <4> HIDE DEF T, node
      <4>3. ~StructCells("pandas", Tokens, types, Of, n, type)
        BY <4>2 DEF StructCells
      <4>4. ~PlainCells(Of, type)
        BY <4>1, <4>2 DEF PlainCells
      <4> QED
        BY <2>1, <4>3, <4>4
    <3>2. /\ node.k = "array" /\ node.max = MaxLen(P)
          /\ node.element = InferPandas(present)
          /\ node.nullable_elements = (Null \in Elements(P))
          /\ node.nullable_array = (Null \in P)
      BY <2>5 DEF InferPandas, FlattenRecursion
    <3>3. \A c \in T : \/ c = Null
                       \/ c.k = "list" /\ c = List(c.s) /\ c.s \in Seq(Of[type.element])
      BY <2>1, <3>1 DEF ListCellsOf
    <3>4. Elements(T) = Elements(P) /\ MaxLen(T) = MaxLen(P)
      BY <2>2 DEF Elements, MaxLen
    <3>5. \A c \in Lists(P) : c \in T /\ c.s \in Seq(Of[type.element])
      BY <3>3 DEF Lists, Null
    <3>6. MaxLen(P) \in Nat /\ \A c \in Lists(P) : Len(c.s) <= MaxLen(P)
      BY <2>1, <3>5, MaxLenBounds
    <3>7. ASSUME NEW c \in T, c # Null
          PROVE  c.k = "list" /\ c = List(c.s) /\ c.s \in Seq(Elements(T)) /\ Len(c.s) <= node.max
      <4>1. c.k = "list" /\ c = List(c.s) /\ c.s \in Seq(Of[type.element])
        BY <3>3, <3>7
      <4>2. c \in Lists(T)
        BY <4>1 DEF Lists
      <4>3. \A i \in DOMAIN c.s : c.s[i] \in Elements(T)
        BY <4>2 DEF Elements, Range
      <4> HIDE DEF T, node
      <4>4. c.s \in Seq(Elements(T))
        BY <4>1, <4>3
      <4> QED
        BY <2>2, <3>2, <3>6, <4>1, <4>2, <4>4
    <3>8. PICK m \in 0 .. n - 1 : type.element \in types[m]
      BY <3>1 DEF ListCellsOf, Below
    <3>9. present \in Parts(Of, type.element)
      <4>1. IsFiniteSet(Elements(P))
        BY <2>1, <3>5, FiniteInside
      <4>2. Elements(P) \subseteq Of[type.element]
        BY <3>5 DEF Elements, Range
      <4>3. IsFiniteSet(present)
        BY <4>1, FS_Subset
      <4> QED
        BY <4>2, <4>3 DEF Parts
    <3>10. <<Inside("pandas", T), node.element>> \in Below(levels, n)
      <4>1. PICK M \in {{}, {Null}} : Elements(P) = present \cup M
        <5>1. \/ Elements(P) = present \cup {}
              \/ Elements(P) = present \cup {Null}
          OBVIOUS
        <5> QED
          BY <5>1
      <4>2. m \in Nat
        OBVIOUS
      <4>3. Inside("pandas", T) = Elements(P)
        BY <3>4 DEF Inside
      <4> HIDE DEF present, T, node
      <4>4. <<present \cup M, InferPandas(present)>> \in levels[m]
        BY <1>1, <3>8, <3>9, <4>2
      <4> QED
        BY <3>2, <4>1, <4>3, <4>4 DEF Below
    <3>11. (node.nullable_array => Null \in T) /\ (node.nullable_elements <=> Null \in Elements(T))
      BY <3>2, <3>4
    <3>12. node.max \in Nat /\ node.max = MaxLen(T)
      BY <3>2, <3>4, <3>6
    <3> HIDE DEF node, T, present
    <3>13. ArrayShape("pandas", levels, n, T, node)
      BY <3>2, <3>7, <3>10, <3>11, <3>12 DEF ArrayShape
    <3> QED
      BY <3>13 DEF node, T
  <2> QED
    BY <2>3, <2>4, <2>5
<1>4. ASSUME NEW n \in Nat, NEW p \in levels[n]
      PROVE  \/ DictShape(Tokens, levels, n, p[1], p[2])
             \/ ArrayShape("pandas", levels, n, p[1], p[2])
             \/ LeafShape(p[1], p[2])
  <2>0. PICK type \in types[n] : \E P \in Parts(Of, type) : \E N \in {{}, {Null}} :
           p = <<P \cup N, InferPandas(P)>>
    BY <1>2
  <2>1. PICK P \in Parts(Of, type), N \in {{}, {Null}} : p = <<P \cup N, InferPandas(P)>>
    BY <2>0
  <2>2. p[1] = P \cup N /\ p[2] = InferPandas(P)
    BY <2>1
  <2> QED
    BY <1>3, <2>2
<1>5. Marks \subseteq Tokens
  BY DEF CellTypes
<1>6. Shapes("pandas", Tokens, levels)
  BY <1>4, <1>5 DEF Shapes
<1> QED
  BY <1>6 DEF levels

(* Rendering keeps the shape of a cell. *)
LEMMA RenderedShape ==
  ASSUME FlattenRecursion, NEW c
  PROVE  /\ Rendered(Null) = Null
         /\ c.k = "dict" => /\ Rendered(c).k = "dict" /\ DOMAIN Rendered(c).f = DOMAIN c.f
                            /\ \A key \in DOMAIN c.f : Rendered(c).f[key] = Rendered(c.f[key])
                            /\ Rendered(c) = Dict([key \in DOMAIN Rendered(c).f |-> Rendered(c).f[key]])
         /\ c.k = "list" => /\ Rendered(c).k = "list" /\ Rendered(c) = List(Rendered(c).s)
                            /\ Rendered(c).s = [i \in DOMAIN c.s |-> Rendered(c.s[i])]
         /\ c.k \notin {"dict", "list"} => Rendered(c).k \notin {"dict", "list"}
         /\ \A key : Get(Rendered(c), key) = Rendered(Get(c, key))
<1>1. Rendered(Null) = Null
  BY DEF Rendered, Null
<1>2. ASSUME c.k = "dict"
      PROVE  /\ Rendered(c).k = "dict" /\ DOMAIN Rendered(c).f = DOMAIN c.f
             /\ \A key \in DOMAIN c.f : Rendered(c).f[key] = Rendered(c.f[key])
             /\ Rendered(c) = Dict([key \in DOMAIN Rendered(c).f |-> Rendered(c).f[key]])
  <2>1. Rendered(c) = Dict([key \in DOMAIN c.f |-> RenderedBelow(c.f[key])])
    BY <1>2 DEF Rendered
  <2>2. Rendered(c) = Dict([key \in DOMAIN c.f |-> Rendered(c.f[key])])
    BY <2>1 DEF FlattenRecursion
  <2> QED
    BY <2>2 DEF Dict
<1>3. ASSUME c.k = "list"
      PROVE  /\ Rendered(c).k = "list" /\ Rendered(c) = List(Rendered(c).s)
             /\ Rendered(c).s = [i \in DOMAIN c.s |-> Rendered(c.s[i])]
  <2>1. Rendered(c) = List([i \in DOMAIN c.s |-> RenderedBelow(c.s[i])])
    BY <1>3 DEF Rendered
  <2>2. Rendered(c) = List([i \in DOMAIN c.s |-> Rendered(c.s[i])])
    BY <2>1 DEF FlattenRecursion
  <2> QED
    BY <2>2 DEF List
<1>4. c.k \notin {"dict", "list"} => Rendered(c).k \notin {"dict", "list"}
  BY DEF Rendered, Text
<1>5. ASSUME NEW key PROVE Get(Rendered(c), key) = Rendered(Get(c, key))
  <2>1. CASE c.k = "dict"
    BY <1>1, <1>2, <2>1 DEF Get
  <2>2. CASE c.k # "dict"
    <3>1. Rendered(c).k # "dict"
      BY <1>3, <1>4, <2>2
    <3> QED
      BY <1>1, <2>2, <3>1 DEF Get
  <2> QED
    BY <2>1, <2>2
<1> QED
  BY <1>1, <1>2, <1>3, <1>4, <1>5

(* The schema of an Arrow table describes its cells.                        *)
LEMMA ArrowShapes ==
  ASSUME FlattenRecursion, NEW Tokens, NEW types, NEW Of, CellTypes("arrow", Tokens, types, Of)
  PROVE  Shapes("arrow", Tokens, ArrowLevels(types, Of))
<1> DEFINE levels == ArrowLevels(types, Of)
<1>0. \A n \in Nat : levels[n] = {<<{Null}, Scalar>>} \cup ArrowLevel(types, Of, n)
  BY DEF ArrowLevels
<1> HIDE DEF levels
<1>1. /\ \A n \in Nat : \A type \in types[n] : \A P \in Parts(Of, type) : \A N \in {{}, {Null}} :
            <<RenderedAll(P \cup N), InferArrow(P, type)>> \in levels[n]
      /\ \A n \in Nat : <<{Null}, Scalar>> \in levels[n]
  <2>1. \A n \in Nat : \A type \in types[n] : \A P \in Parts(Of, type) : \A N \in {{}, {Null}} :
           ArrowPair(P, N, type) \in ArrowLevel(types, Of, n)
    BY DEF ArrowLevel
  <2> QED
    BY <1>0, <2>1 DEF ArrowPair
<1>2. ASSUME NEW n \in Nat, NEW p \in levels[n]
      PROVE  \/ p = <<{Null}, Scalar>>
             \/ \E type \in types[n] : \E P \in Parts(Of, type) : \E N \in {{}, {Null}} :
                   p = <<RenderedAll(P \cup N), InferArrow(P, type)>>
  <2>1. \/ p = <<{Null}, Scalar>>
        \/ p \in ArrowLevel(types, Of, n)
    BY <1>0, <1>2
  <2>2. p \in ArrowLevel(types, Of, n) =>
           \E type \in types[n] : \E P \in Parts(Of, type) : \E N \in {{}, {Null}} : p = ArrowPair(P, N, type)
    BY DEF ArrowLevel
  <2> QED
    BY <2>1, <2>2 DEF ArrowPair
<1>3. ASSUME NEW n \in Nat, NEW type \in types[n], NEW P \in Parts(Of, type), NEW N \in {{}, {Null}}
      PROVE  \/ DictShape(Tokens, levels, n, RenderedAll(P \cup N), InferArrow(P, type))
             \/ ArrayShape("arrow", levels, n, RenderedAll(P \cup N), InferArrow(P, type))
             \/ LeafShape(RenderedAll(P \cup N), InferArrow(P, type))
  <2> DEFINE T == P \cup N
             S == RenderedAll(T)
             node == InferArrow(P, type)
  <2>1. /\ P \subseteq Of[type] /\ IsFiniteSet(P) /\ Null \in Of[type] /\ T \subseteq Of[type]
        /\ \/ StructCells("arrow", Tokens, types, Of, n, type)
           \/ ListCellsOf(types, Of, n, type)
           \/ PlainCells(Of, type)
    BY DEF Parts, CellTypes
  <2>2. \A c \in N : c = Null
    OBVIOUS
  <2>3. \A d \in S : \E c \in T : d = Rendered(c)
    BY DEF RenderedAll
  <2>4. \A c \in T : Rendered(c) \in S
    BY DEF RenderedAll
  <2>5. CASE PlainCells(Of, type)
    <3>1. node = ScalarNode(Dtype(type.of))
      BY <2>5 DEF InferArrow, PlainCells
    <3>2. LeafShape(S, node)
      <4>1. \A c \in T : c.k \notin {"dict", "list"}
        BY <2>1, <2>5 DEF PlainCells
      <4>2. \A d \in S : d.k \notin {"dict", "list"}
        BY <2>3, <4>1, RenderedShape
      <4>3. node.k = "scalar"
        BY <3>1 DEF ScalarNode
      <4> QED
        BY <4>2, <4>3 DEF LeafShape
    <3> QED
      BY <3>2
  <2>6. CASE StructCells("arrow", Tokens, types, Of, n, type)
    <3> DEFINE under(key) == {Get(c, key) : c \in P}
    <3>1. node = [k |-> "dict", children |->
                    [key \in DOMAIN type.fields |-> InferArrow(under(key), type.fields[key])]]
      <4>1. node = [k |-> "dict", children |->
                      [key \in DOMAIN type.fields |-> InferArrowBelow(under(key), type.fields[key])]]
        BY <2>6 DEF StructCells, InferArrow
      <4>2. \A key : InferArrowBelow(under(key), type.fields[key]) = InferArrow(under(key), type.fields[key])
        BY DEF FlattenRecursion
      <4> HIDE DEF node, under
      <4> QED
        BY <4>1, <4>2
    <3>2. /\ node.k = "dict" /\ DOMAIN node.children = DOMAIN type.fields
          /\ \A key \in DOMAIN type.fields : node.children[key] = InferArrow(under(key), type.fields[key])
      BY <3>1
    <3>3. \A c \in T : \/ c = Null
                       \/ /\ c.k = "dict" /\ DOMAIN c.f = DOMAIN type.fields
                          /\ \A key \in DOMAIN c.f : c.f[key] \in Of[type.fields[key]]
      BY <2>1, <2>6 DEF StructCells
    <3>4. \A d \in S : \/ d = Null
                       \/ /\ d.k = "dict" /\ DOMAIN d.f = DOMAIN type.fields
                          /\ d = Dict([key \in DOMAIN d.f |-> d.f[key]])
      <4>1. ASSUME NEW d \in S, d # Null
            PROVE  /\ d.k = "dict" /\ DOMAIN d.f = DOMAIN type.fields
                   /\ d = Dict([key \in DOMAIN d.f |-> d.f[key]])
        <5>1. PICK c \in T : d = Rendered(c)
          BY <2>3
        <5>2. c # Null
          BY <4>1, <5>1, RenderedShape
        <5>3. c.k = "dict" /\ DOMAIN c.f = DOMAIN type.fields
          BY <3>3, <5>2
        <5> HIDE DEF T, S
        <5> QED
          BY <5>1, <5>3, RenderedShape
      <4> QED
        BY <4>1
    <3>5. Keys(S) = IF Dicts(S) = {} THEN {} ELSE DOMAIN node.children
      <4>1. \A d \in Dicts(S) : DOMAIN d.f = DOMAIN type.fields
        <5>1. \A d \in Dicts(S) : d \in S /\ d # Null
          BY DEF Dicts, Null
        <5> HIDE DEF S
        <5> QED
          BY <3>4, <5>1
      <4> HIDE DEF node, S
      <4> QED
        BY <3>2, <4>1 DEF Keys
    <3>6. ASSUME NEW key \in DOMAIN type.fields
          PROVE  <<{Get(d, key) : d \in S}, InferArrow(under(key), type.fields[key])>> \in Below(levels, n)
      <4>1. PICK m \in 0 .. n - 1 : type.fields[key] \in types[m]
        BY <2>6 DEF StructCells, Below
      <4>2. under(key) \in Parts(Of, type.fields[key])
        <5>1. IsFiniteSet(under(key))
          BY <2>1, FiniteInside
        <5>2. Null \in Of[type.fields[key]]
          <6>1. m \in Nat
            OBVIOUS
          <6> QED
            BY <4>1, <6>1 DEF CellTypes
        <5>3. \A c \in P : Get(c, key) \in Of[type.fields[key]]
          <6>1. \A c \in P : c = Null \/ (c.k = "dict" /\ (key \in DOMAIN c.f => c.f[key] \in Of[type.fields[key]]))
            BY <3>3
          <6> QED
            BY <5>2, <6>1 DEF Get, Null
        <5> QED
          BY <5>1, <5>3 DEF Parts
      <4>3. PICK M \in {{}, {Null}} : {Get(c, key) : c \in T} = under(key) \cup M
        <5>1. under(key) \subseteq {Get(c, key) : c \in T}
          OBVIOUS
        <5>2. \A c \in N : Get(c, key) = Null
          BY <2>2 DEF Get, Null
        <5>3. {Get(c, key) : c \in T} \subseteq under(key) \cup {Null}
          BY <5>2
        <5> HIDE DEF under, T
        <5>4. \/ {Get(c, key) : c \in T} = under(key) \cup {}
              \/ {Get(c, key) : c \in T} = under(key) \cup {Null}
          BY <5>1, <5>3
        <5> QED
          BY <5>4
      <4>4. {Get(d, key) : d \in S} = RenderedAll({Get(c, key) : c \in T})
        <5>1. \A c : Get(Rendered(c), key) = Rendered(Get(c, key))
          BY RenderedShape
        <5> HIDE DEF T
        <5> QED
          BY <5>1 DEF RenderedAll
      <4>5. m \in Nat
        OBVIOUS
      <4> HIDE DEF under, T, S
      <4>6. <<RenderedAll(under(key) \cup M), InferArrow(under(key), type.fields[key])>> \in levels[m]
        BY <1>1, <4>1, <4>2, <4>5
      <4> QED
        BY <4>3, <4>4, <4>6 DEF Below
    <3>7. Texts(Tokens, DOMAIN type.fields)
      BY <2>6 DEF StructCells
    <3> HIDE DEF node, S, under
    <3>8. \A key \in DOMAIN node.children :
             <<{Get(d, key) : d \in S}, node.children[key]>> \in Below(levels, n)
      BY <3>2, <3>6
    <3>9. DictShape(Tokens, levels, n, S, node)
      BY <3>2, <3>4, <3>5, <3>7, <3>8 DEF DictShape
    <3> QED
      BY <3>9 DEF node, S
  <2>7. CASE ListCellsOf(types, Of, n, type)
    <3> DEFINE present == Elements(P) \ {Null}
    <3>1. /\ node.k = "array" /\ node.max = MaxLen(P)
          /\ node.element = IF present = {} THEN Scalar ELSE InferArrow(present, type.element)
          /\ node.nullable_array = FALSE
      BY <2>7 DEF ListCellsOf, InferArrow, FlattenRecursion
    <3>2. \A c \in T : c = Null \/ (c.k = "list" /\ c.s \in Seq(Of[type.element]))
      BY <2>1, <2>7 DEF ListCellsOf
    <3>3. Lists(T) = Lists(P)
      <4>1. \A c \in N : c.k # "list"
        BY <2>2 DEF Null
      <4> QED
        BY <4>1 DEF Lists
    <3>4. \A c \in Lists(P) : c \in T /\ c.k = "list" /\ c.s \in Seq(Of[type.element])
      BY <3>2 DEF Lists, Null
    <3>5. MaxLen(P) \in Nat /\ \A c \in Lists(P) : Len(c.s) <= MaxLen(P)
      BY <2>1, <3>4, MaxLenBounds
    <3>6. /\ \A c \in Lists(P) : /\ Rendered(c) \in Lists(S)
                                 /\ DOMAIN Rendered(c).s = DOMAIN c.s
                                 /\ Len(Rendered(c).s) = Len(c.s)
                                 /\ \A i \in DOMAIN c.s : Rendered(c).s[i] = Rendered(c.s[i])
          /\ \A d \in Lists(S) : \E c \in Lists(P) : d = Rendered(c)
      <4>1. ASSUME NEW c \in Lists(P)
            PROVE  /\ Rendered(c) \in Lists(S)
                   /\ DOMAIN Rendered(c).s = DOMAIN c.s
                   /\ Len(Rendered(c).s) = Len(c.s)
                   /\ \A i \in DOMAIN c.s : Rendered(c).s[i] = Rendered(c.s[i])
        <5>1. c.k = "list" /\ c \in T /\ c.s \in Seq(Of[type.element])
          BY <3>4
        <5>2. Rendered(c).k = "list" /\ Rendered(c).s = [i \in DOMAIN c.s |-> Rendered(c.s[i])]
          BY <5>1, RenderedShape
        <5>3. Rendered(c) \in Lists(S)
          BY <2>4, <5>1, <5>2 DEF Lists
        <5>4. Len(Rendered(c).s) = Len(c.s)
          BY <5>1, <5>2
        <5> QED
          BY <5>2, <5>3, <5>4
      <4>2. ASSUME NEW d \in Lists(S) PROVE \E c \in Lists(P) : d = Rendered(c)
        <5>1. PICK c \in T : d = Rendered(c)
          BY <2>3 DEF Lists
        <5>2. d.k = "list"
          BY DEF Lists
        <5>3. c # Null
          BY <5>1, <5>2, RenderedShape DEF Null
        <5>4. c \in Lists(T)
          BY <3>2, <5>3 DEF Lists
        <5> QED
          BY <3>3, <5>1, <5>4
      <4> QED
        BY <4>1, <4>2
    <3>7. MaxLen(S) = MaxLen(P)
      <4>1. {Len(d.s) : d \in Lists(S)} = {Len(c.s) : c \in Lists(P)}
        <5> HIDE DEF S, T
        <5> QED
          BY <3>6
      <4> QED
        BY <4>1 DEF MaxLen
    <3>8. Elements(S) = RenderedAll(Elements(P))
      <4>1. ASSUME NEW e \in Elements(S) PROVE e \in RenderedAll(Elements(P))
        <5>1. PICK d \in Lists(S) : e \in Range(d.s)
          BY DEF Elements
        <5>2. PICK c \in Lists(P) : d = Rendered(c)
          BY <3>6
        <5>3. PICK i \in DOMAIN c.s : e = Rendered(c.s[i])
          BY <3>6, <5>1, <5>2 DEF Range
        <5>4. c.s[i] \in Elements(P)
          BY DEF Elements, Range
        <5> QED
          BY <5>3, <5>4 DEF RenderedAll
      <4>2. ASSUME NEW e \in RenderedAll(Elements(P)) PROVE e \in Elements(S)
        <5>1. PICK g \in Elements(P) : e = Rendered(g)
          BY DEF RenderedAll
        <5>2. PICK c \in Lists(P) : g \in Range(c.s)
          BY DEF Elements
        <5>3. PICK i \in DOMAIN c.s : g = c.s[i]
          BY <5>2 DEF Range
        <5>4. Rendered(c) \in Lists(S) /\ e = Rendered(c).s[i] /\ i \in DOMAIN Rendered(c).s
          BY <3>6, <5>1, <5>3
        <5> HIDE DEF S
        <5> QED
          BY <5>4 DEF Elements, Range
      <4> QED
        BY <4>1, <4>2
    <3>9. ASSUME NEW d \in S, d # Null
          PROVE  d.k = "list" /\ d = List(d.s) /\ d.s \in Seq(Elements(S)) /\ Len(d.s) <= node.max
      <4>1. PICK c \in T : d = Rendered(c)
        BY <2>3
      <4>2. c # Null
        BY <3>9, <4>1, RenderedShape
      <4>3. c.k = "list" /\ c.s \in Seq(Of[type.element])
        BY <3>2, <4>2
      <4>4. c \in Lists(P)
        BY <3>3, <4>3 DEF Lists
      <4>5. d.k = "list" /\ d = List(d.s) /\ d.s = [i \in DOMAIN c.s |-> Rendered(c.s[i])]
        BY <4>1, <4>3, RenderedShape
      <4>6. d \in Lists(S) /\ Len(d.s) = Len(c.s) /\ Len(c.s) \in Nat /\ DOMAIN c.s = 1 .. Len(c.s)
        <5>1. d \in Lists(S) /\ Len(d.s) = Len(c.s)
          BY <3>6, <4>1, <4>4
        <5> QED
          BY <4>3, <5>1
      <4>7. \A i \in DOMAIN d.s : d.s[i] \in Elements(S)
        <5> HIDE DEF S
        <5> QED
          BY <4>6 DEF Elements, Range
      <4>8. d.s \in Seq(Elements(S))
        <5>1. DOMAIN d.s = 1 .. Len(c.s)
          BY <4>5, <4>6
        <5> DEFINE E == Elements(S)
        <5>2. \A i \in 1 .. Len(c.s) : d.s[i] \in E
          BY <4>7, <5>1
        <5>3. d.s = [i \in 1 .. Len(c.s) |-> d.s[i]]
          BY <4>5, <4>6
        <5> HIDE DEF E
        <5>4. d.s \in [1 .. Len(c.s) -> E]
          BY <5>2, <5>3
        <5>5. d.s \in Seq(E)
          BY <4>6, <5>4
        <5> QED
          BY <5>5 DEF E
      <4> HIDE DEF S, T, node
      <4> QED
        BY <3>1, <3>5, <4>4, <4>5, <4>6, <4>8
    <3>10. PICK m \in 0 .. n - 1 : type.element \in types[m]
      BY <2>7 DEF ListCellsOf, Below
    <3>11. present \in Parts(Of, type.element)
      <4>1. IsFiniteSet(Elements(P))
        BY <2>1, <3>4, FiniteInside
      <4>2. Elements(P) \subseteq Of[type.element]
        BY <3>4 DEF Elements, Range
      <4>3. IsFiniteSet(present)
        BY <4>1, FS_Subset
      <4> QED
        BY <4>2, <4>3 DEF Parts
    <3>12. Inside("arrow", S) = RenderedAll(present \cup {Null})
      <4>1. Rendered(Null) = Null
        BY RenderedShape
      <4>2. Inside("arrow", S) = Elements(S) \cup {Null}
        BY DEF Inside
      <4> HIDE DEF S
      <4> QED
        BY <3>8, <4>1, <4>2 DEF RenderedAll
    <3>13. <<Inside("arrow", S), node.element>> \in Below(levels, n)
      <4>1. m \in Nat
        OBVIOUS
      <4>2. CASE present = {}
        <5>1. RenderedAll(present \cup {Null}) = {Null}
          <6>1. Rendered(Null) = Null
            BY RenderedShape
          <6> HIDE DEF present
          <6>2. present \cup {Null} = {Null}
            BY <4>2
          <6> QED
            BY <6>1, <6>2 DEF RenderedAll
        <5>2. node.element = Scalar
          BY <3>1, <4>2
        <5>3. <<{Null}, Scalar>> \in levels[m]
          BY <1>1, <4>1
        <5> HIDE DEF node, S, present
        <5> QED
          BY <3>12, <5>1, <5>2, <5>3 DEF Below
      <4>3. CASE present # {}
        <5>1. node.element = InferArrow(present, type.element)
          BY <3>1, <4>3
        <5> HIDE DEF present, node, S
        <5>2. <<RenderedAll(present \cup {Null}), InferArrow(present, type.element)>> \in levels[m]
          BY <1>1, <3>10, <3>11, <4>1
        <5> QED
          BY <3>12, <5>1, <5>2 DEF Below
      <4> QED
        BY <4>2, <4>3
    <3>14. ~node.nullable_array /\ node.max \in Nat /\ node.max = MaxLen(S)
      BY <3>1, <3>5, <3>7
    <3> HIDE DEF node, S, present
    <3>15. ArrayShape("arrow", levels, n, S, node)
      BY <3>1, <3>9, <3>13, <3>14 DEF ArrayShape
    <3> QED
      BY <3>15 DEF node, S
  <2> QED
    BY <2>1, <2>5, <2>6, <2>7
<1>4. ASSUME NEW n \in Nat, NEW p \in levels[n]
      PROVE  \/ DictShape(Tokens, levels, n, p[1], p[2])
             \/ ArrayShape("arrow", levels, n, p[1], p[2])
             \/ LeafShape(p[1], p[2])
  <2>1. CASE p = <<{Null}, Scalar>>
    BY <2>1 DEF LeafShape, Scalar, ScalarNode, Null
  <2>2. CASE p # <<{Null}, Scalar>>
    <3>1. PICK type \in types[n] : \E P \in Parts(Of, type) : \E N \in {{}, {Null}} :
             p = <<RenderedAll(P \cup N), InferArrow(P, type)>>
      BY <1>2, <2>2
    <3>2. PICK P \in Parts(Of, type), N \in {{}, {Null}} : p = <<RenderedAll(P \cup N), InferArrow(P, type)>>
      BY <3>1
    <3>3. p[1] = RenderedAll(P \cup N) /\ p[2] = InferArrow(P, type)
      BY <3>2
    <3> QED
      BY <1>3, <3>3
  <2> QED
    BY <2>1, <2>2
<1>5. Marks \subseteq Tokens
  BY DEF CellTypes
<1>6. Shapes("arrow", Tokens, levels)
  BY <1>4, <1>5 DEF Shapes
<1> QED
  BY <1>6 DEF levels
-----------------------------------------------------------------------------
(* Columns. *)

(* A column of cells of one type, which an Arrow column says itself. *)
ColumnOf(b, Tokens, types, Of, column) ==
    /\ column.name \in Seq(Tokens)
    /\ \E n \in Nat : \E type \in types[n] :
          /\ column.cells \in Seq(Of[type])
          /\ b = "arrow" => column.type = type

(* The pairs of a data frame or an Arrow table. *)
Levels(b, types, Of) == IF b = "pandas" THEN FrameLevels(types, Of) ELSE ArrowLevels(types, Of)

(* Some level has the cells of a column with their schema. *)
LEMMA ColumnShape ==
  ASSUME FlattenRecursion, NEW b, NEW Tokens, NEW types, NEW Of, CellTypes(b, Tokens, types, Of),
         NEW column, ColumnOf(b, Tokens, types, Of, column)
  PROVE  /\ Shapes(b, Tokens, Levels(b, types, Of))
         /\ DOMAIN Values(b, column.cells) = 1 .. Len(column.cells)
         /\ Len(column.cells) \in Nat
         /\ Values(b, column.cells) = [r \in 1 .. Len(column.cells) |-> Values(b, column.cells)[r]]
         /\ \E n \in Nat : <<Range(Values(b, column.cells)), Node(b, column)>> \in Levels(b, types, Of)[n]
<1> DEFINE cells == column.cells
           P == Range(cells)
<1>1. PICK n \in Nat : \E type \in types[n] : /\ cells \in Seq(Of[type])
                                              /\ b = "arrow" => column.type = type
  BY DEF ColumnOf
<1>2. PICK type \in types[n] : cells \in Seq(Of[type]) /\ (b = "arrow" => column.type = type)
  BY <1>1
<1>3. Len(cells) \in Nat /\ DOMAIN cells = 1 .. Len(cells) /\ cells = [r \in 1 .. Len(cells) |-> cells[r]]
  BY <1>2
<1>4. P \in Parts(Of, type)
  <2>1. IsFiniteSet(1 .. Len(cells))
    BY <1>3, FS_Interval
  <2> DEFINE D == 1 .. Len(cells)
  <2>2. P = {cells[r] : r \in D} /\ IsFiniteSet(D) /\ cells = [r \in D |-> cells[r]]
    BY <1>3, <2>1 DEF Range
  <2>3. P \subseteq Of[type]
    BY <1>2, <1>3 DEF Range
  <2> HIDE DEF cells, D
  <2>4. IsFiniteSet({cells[r] : r \in D})
    BY <2>2, FiniteRange
  <2> HIDE DEF P
  <2> QED
    BY <2>2, <2>3, <2>4 DEF Parts
<1>5. P \cup {} = P
  OBVIOUS
<1> HIDE DEF P
<1>6. CASE b = "pandas"
  <2>1. Shapes(b, Tokens, FrameLevels(types, Of))
    BY <1>6, FrameShapes
  <2>2. Values(b, cells) = cells /\ Node(b, column) = InferPandas(P)
    BY <1>6 DEF Values, Node, P
  <2>3. <<P, InferPandas(P)>> \in FrameLevels(types, Of)[n]
    <3>1. <<P \cup {}, InferPandas(P)>> \in FrameLevels(types, Of)[n]
      BY <1>4 DEF FrameLevels
    <3> QED
      BY <1>5, <3>1
  <2>4. Range(Values(b, cells)) = P
    BY <2>2 DEF P
  <2> HIDE DEF cells
  <2>5. /\ Shapes(b, Tokens, Levels(b, types, Of))
        /\ DOMAIN Values(b, cells) = 1 .. Len(cells) /\ Len(cells) \in Nat
        /\ Values(b, cells) = [r \in 1 .. Len(cells) |-> Values(b, cells)[r]]
        /\ \E m \in Nat : <<Range(Values(b, cells)), Node(b, column)>> \in Levels(b, types, Of)[m]
    BY <1>3, <1>6, <2>1, <2>2, <2>3, <2>4 DEF Levels
  <2> QED
    BY <2>5 DEF cells
<1>7. CASE b = "arrow"
  <2>1. Shapes(b, Tokens, ArrowLevels(types, Of))
    BY <1>7, ArrowShapes
  <2>2. /\ Values(b, cells) = [r \in DOMAIN cells |-> Rendered(cells[r])]
        /\ Node(b, column) = InferArrow(P, type)
    BY <1>2, <1>7 DEF Values, Node, P
  <2>3. <<RenderedAll(P), InferArrow(P, type)>> \in ArrowLevels(types, Of)[n]
    <3>1. ArrowPair(P, {}, type) \in ArrowLevel(types, Of, n)
      BY <1>4 DEF ArrowLevel
    <3>2. ArrowPair(P, {}, type) \in ArrowLevels(types, Of)[n]
      BY <3>1 DEF ArrowLevels
    <3> QED
      BY <1>5, <3>2 DEF ArrowPair
  <2>4. Range(Values(b, cells)) = RenderedAll(P)
    BY <2>2 DEF P, Range, RenderedAll
  <2> HIDE DEF cells
  <2>5. /\ Shapes(b, Tokens, Levels(b, types, Of))
        /\ DOMAIN Values(b, cells) = 1 .. Len(cells) /\ Len(cells) \in Nat
        /\ Values(b, cells) = [r \in 1 .. Len(cells) |-> Values(b, cells)[r]]
        /\ \E m \in Nat : <<Range(Values(b, cells)), Node(b, column)>> \in Levels(b, types, Of)[m]
    BY <1>3, <1>7, <2>1, <2>2, <2>3, <2>4 DEF Levels
  <2> QED
    BY <2>5 DEF cells
<1> QED
  BY <1>6, <1>7 DEF CellTypes

(* unflatten() undoes flatten(), cell by cell: where no keys of a column    *)
(* meet at a flat name, its cell comes back of the flat cells of its row,  *)
(* with nulls added at most.                                               *)
THEOREM ColumnReturned ==
  ASSUME FlattenRecursion, NEW b, NEW Tokens, NEW types, NEW Of, CellTypes(b, Tokens, types, Of),
         NEW column, ColumnOf(b, Tokens, types, Of, column),
         NEW flat, NEW r \in 1 .. Len(column.cells),
         NamesApart(b, Values(b, column.cells), Node(b, column), column.name),
         TakenFrom({r}, flat, r, FlattenColumn(b, column))
  PROVE  Returned(Values(b, column.cells)[r], CellOf(b, flat, Node(b, column), column.name, r))
<1> DEFINE cells == Values(b, column.cells)
           levels == Levels(b, types, Of)
           p == <<Range(cells), Node(b, column)>>
<1>1. Shapes(b, Tokens, levels) /\ DOMAIN cells = 1 .. Len(column.cells)
  BY ColumnShape
<1>2. PICK n \in Nat : p \in levels[n]
  BY ColumnShape
<1>3. r \in DOMAIN cells /\ cells[r] \in p[1] /\ p[2] = Node(b, column)
  BY <1>1 DEF Range
<1>4. column.name \in Seq(Tokens)
  BY DEF ColumnOf
<1>5. /\ TakenFrom({r}, flat, r, FlattenCells(b, cells, p[2], column.name))
      /\ NamesApart(b, cells, p[2], column.name)
  BY DEF FlattenColumn
<1> HIDE DEF cells, levels, p
<1>6. Returned(cells[r], CellOf(b, flat, p[2], column.name, r))
  BY <1>1, <1>2, <1>3, <1>4, <1>5, CellReturned
<1> QED
  BY <1>3, <1>6 DEF cells

(* A column of a data frame that has no nulls, and no keys that meet, comes *)
(* back as it was.                                                         *)
THEOREM ColumnSame ==
  ASSUME FlattenRecursion, NEW Tokens, NEW types, NEW Of, CellTypes("pandas", Tokens, types, Of),
         NEW column, ColumnOf("pandas", Tokens, types, Of, column), Whole(Range(column.cells)),
         NEW flat, NEW r \in 1 .. Len(column.cells),
         NamesApart("pandas", Values("pandas", column.cells), Node("pandas", column), column.name),
         TakenFrom({r}, flat, r, FlattenColumn("pandas", column))
  PROVE  CellOf("pandas", flat, Node("pandas", column), column.name, r) = column.cells[r]
<1> DEFINE cells == Values("pandas", column.cells)
           levels == Levels("pandas", types, Of)
           p == <<Range(cells), Node("pandas", column)>>
<1>0. cells = column.cells
  BY DEF Values
<1>1. Shapes("pandas", Tokens, levels) /\ DOMAIN cells = 1 .. Len(column.cells)
  BY ColumnShape
<1>2. PICK n \in Nat : p \in levels[n]
  BY ColumnShape
<1>3. r \in DOMAIN cells /\ cells[r] \in p[1] /\ p[2] = Node("pandas", column) /\ Whole(p[1])
  BY <1>0, <1>1 DEF Range
<1>4. column.name \in Seq(Tokens)
  BY DEF ColumnOf
<1>5. /\ TakenFrom({r}, flat, r, FlattenCells("pandas", cells, p[2], column.name))
      /\ NamesApart("pandas", cells, p[2], column.name)
  BY DEF FlattenColumn
<1> HIDE DEF cells, levels, p
<1>6. CellOf("pandas", flat, p[2], column.name, r) = cells[r]
  <2>1. SameCells(Tokens, levels, flat, r)
    BY <1>1, CellSame
  <2> QED
    BY <1>2, <1>3, <1>4, <1>5, <2>1 DEF SameCells
<1> QED
  BY <1>0, <1>3, <1>6

(* Whatever rows the flat cells of a column come from, the cell that is put *)
(* together of them has the shape and the values of the column, where no   *)
(* keys of it meet.                                                        *)
THEOREM ColumnFits ==
  ASSUME FlattenRecursion, NEW b, NEW Tokens, NEW types, NEW Of, CellTypes(b, Tokens, types, Of),
         NEW column, ColumnOf(b, Tokens, types, Of, column),
         NEW flat, NEW r,
         NamesApart(b, Values(b, column.cells), Node(b, column), column.name),
         TakenFrom(1 .. Len(column.cells), flat, r, FlattenColumn(b, column))
  PROVE  Fits(b, CellOf(b, flat, Node(b, column), column.name, r), Range(Values(b, column.cells)))
<1> DEFINE cells == Values(b, column.cells)
           levels == Levels(b, types, Of)
           p == <<Range(cells), Node(b, column)>>
           rows == 1 .. Len(column.cells)
<1>1. Shapes(b, Tokens, levels) /\ DOMAIN cells = rows
  BY ColumnShape
<1>2. PICK n \in Nat : p \in levels[n]
  BY ColumnShape
<1>3. {cells[q] : q \in rows} = p[1] /\ p[1] = Range(cells) /\ p[2] = Node(b, column)
  BY <1>1 DEF Range
<1>4. column.name \in Seq(Tokens)
  BY DEF ColumnOf
<1>5. /\ TakenFrom(rows, flat, r, FlattenCells(b, cells, p[2], column.name))
      /\ NamesApart(b, cells, p[2], column.name)
  BY DEF FlattenColumn
<1> HIDE DEF cells, levels, p, rows
<1>6. Fits(b, CellOf(b, flat, p[2], column.name, r), p[1])
  <2>1. FittingCells(b, Tokens, levels, rows, flat, r)
    BY <1>1, CellFits
  <2> QED
    BY <1>1, <1>2, <1>3, <1>4, <1>5, <2>1 DEF FittingCells
<1> QED
  BY <1>3, <1>6 DEF cells

(* Each flat column is as long as the column. *)
LEMMA ColumnLong ==
  ASSUME FlattenRecursion, NEW b, NEW Tokens, NEW types, NEW Of, CellTypes(b, Tokens, types, Of),
         NEW column, ColumnOf(b, Tokens, types, Of, column)
  PROVE  Long(Len(column.cells), FlattenColumn(b, column))
<1> DEFINE cells == Values(b, column.cells)
           levels == Levels(b, types, Of)
           p == <<Range(cells), Node(b, column)>>
           count == Len(column.cells)
<1>1. Shapes(b, Tokens, levels) /\ count \in Nat /\ cells = [r \in 1 .. count |-> cells[r]]
  BY ColumnShape
<1>2. PICK n \in Nat : p \in levels[n]
  BY ColumnShape
<1>3. FlattenColumn(b, column) = FlattenCells(b, cells, p[2], column.name)
  BY DEF FlattenColumn
<1> HIDE DEF cells, levels, p, count
<1>4. Long(count, FlattenCells(b, cells, p[2], column.name))
  BY <1>1, <1>2, FlatLong
<1> QED
  BY <1>3, <1>4 DEF count
-----------------------------------------------------------------------------
(* Tables. *)

(* A table of columns that are as long as each other. *)
TableOf(b, Tokens, types, Of, table) ==
    /\ Len(table) \in Nat /\ table = [i \in 1 .. Len(table) |-> table[i]]
    /\ \A i \in DOMAIN table : /\ ColumnOf(b, Tokens, types, Of, table[i])
                               /\ Len(table[i].cells) = Len(table[1].cells)

(* A flat column of the table is one of some column. *)
LEMMA FlatOfColumn ==
  ASSUME NEW b, NEW table, Len(table) \in Nat, table = [i \in 1 .. Len(table) |-> table[i]]
  PROVE  /\ \A long \in DOMAIN FlattenTable(b, table) : \E i \in DOMAIN table :
               /\ long \in DOMAIN FlattenColumn(b, table[i])
               /\ FlattenTable(b, table)[long] = FlattenColumn(b, table[i])[long]
         /\ \A i \in DOMAIN table : DOMAIN FlattenColumn(b, table[i]) \subseteq DOMAIN FlattenTable(b, table)
<1> DEFINE of == [i \in DOMAIN table |-> FlattenColumn(b, table[i])]
           columns(long) == {i \in DOMAIN of : long \in DOMAIN of[i]}
           flat == FlattenTable(b, table)
<1>1. flat = [long \in UNION {DOMAIN of[i] : i \in DOMAIN of} |-> of[Max(columns(long))][long]]
  BY DEF FlattenTable
<1>2. DOMAIN table = 1 .. Len(table) /\ DOMAIN of = DOMAIN table
  OBVIOUS
<1>3. \A i \in DOMAIN table : of[i] = FlattenColumn(b, table[i])
  OBVIOUS
<1>4. ASSUME NEW long \in DOMAIN flat
      PROVE  Max(columns(long)) \in columns(long)
  <2>1. columns(long) # {} /\ columns(long) \subseteq 1 .. Len(table)
    BY <1>1, <1>2
  <2>2. IsFiniteSet(1 .. Len(table))
    <3> HIDE DEF of, columns, flat
    <3> QED
      BY FS_Interval
  <2>3. IsFiniteSet(columns(long))
    BY <2>1, <2>2, FS_Subset
  <2>4. columns(long) \subseteq Nat
    BY <2>1
  <2> HIDE DEF columns
  <2> QED
    BY <2>1, <2>3, <2>4, Largest
<1> HIDE DEF of, flat
<1>5. ASSUME NEW long \in DOMAIN flat
      PROVE  \E i \in DOMAIN table : /\ long \in DOMAIN FlattenColumn(b, table[i])
                                     /\ flat[long] = FlattenColumn(b, table[i])[long]
  <2> DEFINE i == Max(columns(long))
  <2>1. i \in DOMAIN of /\ long \in DOMAIN of[i]
    BY <1>4
  <2>2. flat[long] = of[i][long]
    BY <1>1
  <2> HIDE DEF i
  <2> QED
    BY <1>2, <1>3, <2>1, <2>2
<1>6. \A i \in DOMAIN table : DOMAIN FlattenColumn(b, table[i]) \subseteq DOMAIN flat
  BY <1>1, <1>2, <1>3
<1> QED
  BY <1>5, <1>6 DEF flat

(* As long as names do not meet, a column keeps its flat columns. *)
LEMMA FlatApart ==
  ASSUME NEW b, NEW table, Len(table) \in Nat, table = [i \in 1 .. Len(table) |-> table[i]],
         ColumnsApart(b, table), NEW i \in DOMAIN table,
         NEW long \in DOMAIN FlattenColumn(b, table[i])
  PROVE  /\ long \in DOMAIN FlattenTable(b, table)
         /\ FlattenTable(b, table)[long] = FlattenColumn(b, table[i])[long]
<1>1. long \in DOMAIN FlattenTable(b, table)
  BY FlatOfColumn
<1>2. PICK j \in DOMAIN table : /\ long \in DOMAIN FlattenColumn(b, table[j])
                                /\ FlattenTable(b, table)[long] = FlattenColumn(b, table[j])[long]
  BY <1>1, FlatOfColumn
<1>3. i = j
  BY <1>2 DEF ColumnsApart
<1> QED
  BY <1>1, <1>2, <1>3

(* Every flat column has as many cells as the table has rows. *)
LEMMA TableLong ==
  ASSUME FlattenRecursion, NEW b, NEW Tokens, NEW types, NEW Of, CellTypes(b, Tokens, types, Of),
         NEW table, TableOf(b, Tokens, types, Of, table)
  PROVE  Long(Len(table[1].cells), FlattenTable(b, table))
<1>1. ASSUME NEW long \in DOMAIN FlattenTable(b, table)
      PROVE  FlattenTable(b, table)[long] =
               [r \in 1 .. Len(table[1].cells) |-> FlattenTable(b, table)[long][r]]
  <2>1. PICK i \in DOMAIN table : /\ long \in DOMAIN FlattenColumn(b, table[i])
                                  /\ FlattenTable(b, table)[long] = FlattenColumn(b, table[i])[long]
    BY FlatOfColumn DEF TableOf
  <2>2. ColumnOf(b, Tokens, types, Of, table[i]) /\ Len(table[i].cells) = Len(table[1].cells)
    BY DEF TableOf
  <2>3. Long(Len(table[i].cells), FlattenColumn(b, table[i]))
    BY <2>2, ColumnLong
  <2> QED
    BY <2>1, <2>2, <2>3 DEF Long
<1> QED
  BY <1>1 DEF Long
==============================================================================
