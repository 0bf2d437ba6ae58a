---------------------------- MODULE AvroCellProofs ----------------------------
(***************************************************************************)
(* What ListArrays computes, for all lists: every item is found again in   *)
(* its own list at its own place.  What AvroCells makes of a value, for    *)
(* every value, every type of column and every clock.  What both make of a *)
(* column of AvroToArrow, however deep its type.                           *)
(***************************************************************************)
EXTENDS AvroToArrow, NatRecursion

(* Running sums do not decrease. *)
LEMMA SumsGrow ==
  ASSUME NEW n \in Nat, NEW len \in [1 .. n -> Nat], NEW sum \in [1 .. n + 1 -> Nat],
         \A r \in 1 .. n : sum[r + 1] = sum[r] + len[r]
  PROVE  \A r \in 1 .. n + 1 : \A q \in 1 .. r : sum[q] <= sum[r]
<1> DEFINE T == {r \in 1 .. n + 1 : \A q \in 1 .. r : sum[q] <= sum[r]}
<1>1. 1 \in T
  OBVIOUS
<1>2. ASSUME NEW r \in 1 .. n, r \in T PROVE r + 1 \in T
  <2>1. r \in 1 .. n + 1 /\ r + 1 \in 1 .. n + 1 /\ len[r] \in Nat /\ sum[r] \in Nat
    OBVIOUS
  <2>2. sum[r + 1] \in Nat /\ sum[r] <= sum[r + 1]
    BY <2>1
  <2>3. ASSUME NEW q \in 1 .. r + 1 PROVE sum[q] <= sum[r + 1]
    <3>1. CASE q = r + 1
      BY <2>2, <3>1
    <3>2. CASE q # r + 1
      <4>1. q \in 1 .. r /\ q \in 1 .. n + 1
        BY <2>1, <3>2
      <4>2. sum[q] <= sum[r] /\ sum[q] \in Nat /\ sum[r] \in Nat
        BY <1>2, <2>1, <4>1
      <4>3. \A a, b, c \in Nat : a <= b /\ b <= c => a <= c
        OBVIOUS
      <4> QED
        BY ONLY <2>2, <4>2, <4>3
    <3> QED
      BY <3>1, <3>2
  <2> QED
    BY <2>1, <2>3
<1>3. n + 1 \in Nat /\ (n + 1) - 1 = n /\ n + 1 > 0
  OBVIOUS
<1> HIDE DEF T
<1>4. \A r \in 1 .. n + 1 : r \in T
  BY <1>1, <1>2, <1>3, InductionAlong
<1> QED
  BY <1>4 DEF T

(* Items before and behind a seam. *)
LEMMA Appended ==
  ASSUME NEW S, NEW s \in Seq(S), NEW t \in Seq(S)
  PROVE  /\ s \o t \in Seq(S)
         /\ Len(s \o t) = Len(s) + Len(t)
         /\ \A i \in 1 .. Len(s) : (s \o t)[i] = s[i]
         /\ \A i \in 1 .. Len(t) : (s \o t)[Len(s) + i] = t[i]
OBVIOUS

(* Each sum is the one before and the length of its list. *)
Sums(sum, lists, n) ==
    sum[1] = 0 /\ \A q \in 1 .. n : sum[q + 1] = sum[q] + Len(lists[q])

(* What the loop has when the first r lists are done. *)
InPlace(all, sum, lists, r) ==
    /\ Len(all) = sum[r + 1]
    /\ \A q \in 1 .. r : \A i \in 1 .. Len(lists[q]) :
          sum[q] + i \in 1 .. Len(all) /\ all[sum[q] + i] = lists[q][i]

(* One turn of the loop keeps the items of the lists before where they are *)
(* and puts those of its own list behind them.                             *)
LEMMA OneMore ==
  ASSUME NEW S, NEW n \in Nat, NEW r \in 1 .. n - 1, NEW lists \in [1 .. n -> Seq(S)],
         NEW sum \in [1 .. n + 1 -> Nat], Sums(sum, lists, n),
         NEW all \in Seq(S), InPlace(all, sum, lists, r)
  PROVE  InPlace(all \o lists[r + 1], sum, lists, r + 1)
<1> DEFINE last == lists[r + 1]
<1>1. r + 1 \in 1 .. n /\ r + 1 \in 1 .. n + 1 /\ (r + 1) + 1 \in 1 .. n + 1
  OBVIOUS
<1>2. last \in Seq(S) /\ sum[r + 1] \in Nat /\ Len(all) \in Nat
  BY <1>1
<1>3. Len(all) = sum[r + 1] /\ sum[(r + 1) + 1] = sum[r + 1] + Len(last)
  BY <1>1 DEF InPlace, Sums
<1> HIDE DEF last
<1>4. Len(last) \in Nat
  BY <1>2
<1>5. /\ Len(all \o last) = Len(all) + Len(last)
      /\ \A i \in 1 .. Len(all) : (all \o last)[i] = all[i]
      /\ \A i \in 1 .. Len(last) : (all \o last)[Len(all) + i] = last[i]
  BY <1>2, Appended
<1>6. ASSUME NEW q \in 1 .. r, NEW i \in 1 .. Len(lists[q])
      PROVE  /\ sum[q] + i \in 1 .. Len(all \o last)
             /\ (all \o last)[sum[q] + i] = lists[q][i]
  <2>1. sum[q] + i \in 1 .. Len(all) /\ all[sum[q] + i] = lists[q][i]
    BY DEF InPlace
  <2>2. (all \o last)[sum[q] + i] = all[sum[q] + i]
    BY <1>5, <2>1
  <2>3. sum[q] + i \in 1 .. Len(all \o last)
    <3> DEFINE place == sum[q] + i
    <3>1. place \in 1 .. Len(all)
      BY <2>1
    <3> HIDE DEF place
    <3>2. place \in 1 .. Len(all) + Len(last)
      BY <1>2, <1>4, <3>1
    <3> QED
      BY <1>5, <3>2 DEF place
  <2> QED
    BY <2>1, <2>2, <2>3
<1>7. ASSUME NEW i \in 1 .. Len(last)
      PROVE  /\ sum[r + 1] + i \in 1 .. Len(all \o last)
             /\ (all \o last)[sum[r + 1] + i] = last[i]
  <2>1. \A a, b \in Nat : \A j \in 1 .. b : a + j \in 1 .. a + b
    OBVIOUS
  <2>2. Len(all) + i \in 1 .. Len(all \o last)
    BY <1>2, <1>4, <1>5, <2>1
  <2> QED
    BY <1>3, <1>5, <2>2
<1>8. \A q \in 1 .. r + 1 : q \in 1 .. r \/ q = r + 1
  OBVIOUS
<1> QED
  BY <1>1, <1>3, <1>5, <1>6, <1>7, <1>8 DEF InPlace, last

(* The offsets are the sums of the lengths. *)
LEMMA OffsetsAre ==
  ASSUME NEW S, NEW lists \in Seq(Seq(S))
  PROVE  /\ Offsets(lists) \in [1 .. Len(lists) + 1 -> Nat]
         /\ Sums(Offsets(lists), lists, Len(lists))
<1> DEFINE n == Len(lists)
           o == Offsets(lists)
           Body(f) == [r \in 1 .. n + 1 |-> IF r = 1 THEN 0 ELSE f[r - 1] + Len(lists[r - 1])]
           step == [p \in Nat \X Nat |-> IF p[1] \in 1 .. n THEN p[2] + Len(lists[p[1]]) ELSE p[2]]
<1>1. n \in Nat /\ \A r \in 1 .. n : Len(lists[r]) \in Nat
  OBVIOUS
<1>2. o = CHOOSE f : f = Body(f)
  BY DEF Offsets
<1>3. \E f : f = Body(f)
  <2>1. step \in [Nat \X Nat -> Nat]
    BY <1>1
  <2>2. \A r \in 1 .. n, v \in Nat : step[<<r, v>>] = v + Len(lists[r])
    BY <1>1
  <2> HIDE DEF step, n
  <2>3. n + 1 \in Nat /\ (n + 1) - 1 = n /\ n + 1 > 0 /\ 0 \in Nat
    BY <1>1
  <2>4. PICK g \in [1 .. n + 1 -> Nat] : FollowsAlong(g, n + 1, 0, step)
    BY <2>1, <2>3, RecursionAlong
  <2>5. g[1] = 0 /\ \A r \in 1 .. n : g[r + 1] = g[r] + Len(lists[r])
    <3>1. \A r \in 1 .. n : g[r] \in Nat
      BY <1>1, <2>4
    <3> QED
      BY <2>2, <2>3, <2>4, <3>1 DEF FollowsAlong
  <2>6. ASSUME NEW r \in 1 .. n + 1, r # 1 PROVE g[r] = g[r - 1] + Len(lists[r - 1])
    <3>1. r - 1 \in 1 .. n /\ (r - 1) + 1 = r
      BY <1>1, <2>6
    <3> QED
      BY <2>5, <3>1
  <2>7. g = Body(g)
    BY <1>1, <2>4, <2>5, <2>6
  <2> QED
    BY <2>7
<1>4. o = Body(o)
  BY <1>2, <1>3
<1> HIDE DEF o
<1>5. o[1] = 0 /\ \A r \in 1 .. n : o[r + 1] = o[r] + Len(lists[r])
  <2>1. o[1] = 0
    BY <1>1, <1>4
  <2>2. ASSUME NEW r \in 1 .. n PROVE o[r + 1] = o[r] + Len(lists[r])
    <3>1. r + 1 \in 1 .. n + 1 /\ r + 1 # 1 /\ (r + 1) - 1 = r
      BY <1>1
    <3> QED
      BY <1>4, <3>1
  <2> QED
    BY <2>1, <2>2
<1>6. \A r \in 1 .. n + 1 : o[r] \in Nat
  <2> DEFINE T == {r \in 1 .. n + 1 : o[r] \in Nat}
  <2>1. 1 \in T
    BY <1>1, <1>5
  <2>2. ASSUME NEW r \in 1 .. n, r \in T PROVE r + 1 \in T
    <3>1. r + 1 \in 1 .. n + 1 /\ o[r] \in Nat /\ Len(lists[r]) \in Nat
      BY <1>1, <2>2
    <3>2. o[r + 1] \in Nat
      BY <1>5, <3>1
    <3> QED
      BY <3>1, <3>2
  <2>3. n + 1 \in Nat /\ (n + 1) - 1 = n /\ n + 1 > 0
    BY <1>1
  <2> HIDE DEF T, n
  <2>4. \A r \in 1 .. n + 1 : r \in T
    BY <2>1, <2>2, <2>3, InductionAlong
  <2> QED
    BY <2>4 DEF T
<1> QED
  BY <1>1, <1>4, <1>5, <1>6 DEF o, Sums

(* The items of the lists, gathered list by list. *)
LEMMA ItemsAre ==
  ASSUME NEW S, NEW lists \in Seq(Seq(S)), Len(lists) > 0
  PROVE  \E all \in [1 .. Len(lists) -> Seq(S)] :
            /\ AllItems(lists) = all[Len(lists)]
            /\ all[1] = lists[1]
            /\ \A r \in 1 .. Len(lists) - 1 : all[r + 1] = all[r] \o lists[r + 1]
<1> DEFINE n == Len(lists)
           Body(f) == [r \in 1 .. n |-> IF r = 1 THEN lists[r] ELSE f[r - 1] \o lists[r]]
           all == CHOOSE f : f = Body(f)
           step == [p \in Nat \X Seq(S) |->
                      IF p[1] \in 1 .. n - 1 THEN p[2] \o lists[p[1] + 1] ELSE p[2]]
<1>1. n \in Nat /\ n > 0 /\ \A r \in 1 .. n : lists[r] \in Seq(S)
  OBVIOUS
<1>2. AllItems(lists) = all[n]
  BY <1>1 DEF AllItems, FlattenSeq
<1>3. PICK g \in [1 .. n -> Seq(S)] : FollowsAlong(g, n, lists[1], step)
  <2>1. lists[1] \in Seq(S)
    BY <1>1
  <2>2. step \in [Nat \X Seq(S) -> Seq(S)]
    <3>1. ASSUME NEW r \in 1 .. n - 1, NEW v \in Seq(S) PROVE v \o lists[r + 1] \in Seq(S)
      <4>1. lists[r + 1] \in Seq(S)
        BY <1>1
      <4> QED
        BY <4>1, Appended
    <3> QED
      BY <3>1
  <2> HIDE DEF step, n
  <2> QED
    BY <1>1, <2>1, <2>2, RecursionAlong
<1>4. \A r \in 1 .. n - 1 : g[r + 1] = g[r] \o lists[r + 1]
  <2>1. ASSUME NEW r \in 1 .. n - 1, NEW v \in Seq(S)
        PROVE  step[<<r, v>>] = v \o lists[r + 1]
    <3>1. <<r, v>> \in Nat \X Seq(S)
      BY <1>1
    <3> QED
      BY <3>1
  <2> HIDE DEF step, n
  <2>2. ASSUME NEW r \in 1 .. n - 1 PROVE g[r + 1] = g[r] \o lists[r + 1]
    <3>1. r \in 1 .. n
      BY <1>1
    <3>2. g[r] \in Seq(S)
      BY <3>1
    <3>3. g[r + 1] = step[<<r, g[r]>>]
      BY <1>3 DEF FollowsAlong
    <3> QED
      BY <2>1, <3>2, <3>3
  <2> QED
    BY <2>2
<1>5. g = Body(g)
  <2>1. g[1] = lists[1]
    BY <1>1, <1>3 DEF FollowsAlong
  <2>2. ASSUME NEW r \in 1 .. n, r # 1 PROVE g[r] = g[r - 1] \o lists[r]
    <3>1. r - 1 \in 1 .. n - 1 /\ (r - 1) + 1 = r
      BY <1>1, <2>2
    <3> QED
      BY <1>4, <3>1
  <2> QED
    BY <1>1, <2>1, <2>2
<1>6. all = Body(all)
  BY <1>5
<1> HIDE DEF all
<1>7. all[1] = lists[1] /\ \A r \in 1 .. n - 1 : all[r + 1] = all[r] \o lists[r + 1]
  <2>1. ASSUME NEW r \in 1 .. n - 1 PROVE all[r + 1] = all[r] \o lists[r + 1]
    <3>1. r + 1 \in 1 .. n /\ r + 1 # 1 /\ (r + 1) - 1 = r
      BY <1>1
    <3> QED
      BY <1>6, <3>1
  <2>2. 1 \in 1 .. n
    BY <1>1
  <2>3. all[1] = lists[1]
    BY <1>6, <2>2
  <2> QED
    BY <2>1, <2>3
<1>8. \A r \in 1 .. n : all[r] \in Seq(S)
  <2> DEFINE T == {r \in 1 .. n : all[r] \in Seq(S)}
  <2>1. 1 \in T
    BY <1>1, <1>7
  <2>2. ASSUME NEW r \in 1 .. n - 1, r \in T PROVE r + 1 \in T
    <3>1. r + 1 \in 1 .. n /\ all[r] \in Seq(S)
      BY <1>1, <2>2
    <3>2. lists[r + 1] \in Seq(S)
      BY <1>1, <3>1
    <3>3. all[r] \o lists[r + 1] \in Seq(S)
      BY <3>1, <3>2, Appended
    <3>4. all[r + 1] = all[r] \o lists[r + 1]
      BY <1>7
    <3> QED
      BY <3>1, <3>3, <3>4
  <2> HIDE DEF T, n
  <2>3. \A r \in 1 .. n : r \in T
    BY <1>1, <2>1, <2>2, InductionAlong
  <2> QED
    BY <2>3 DEF T
<1> QED
  BY <1>1, <1>2, <1>6, <1>7, <1>8

-----------------------------------------------------------------------------

(* The offsets lead to the items: that of place i in list q is the i-th     *)
(* behind the offset of q, and there are no others (l.232-240).            *)
THEOREM ItemsInPlace ==
  ASSUME NEW S, NEW lists \in Seq(Seq(S))
  PROVE  /\ AllItems(lists) \in Seq(S)
         /\ InPlace(AllItems(lists), Offsets(lists), lists, Len(lists))
<1> DEFINE n == Len(lists)
           o == Offsets(lists)
<1>1. n \in Nat /\ \A r \in 1 .. n : lists[r] \in Seq(S)
  OBVIOUS
<1>2. o \in [1 .. n + 1 -> Nat] /\ Sums(o, lists, n)
  BY OffsetsAre
<1>3. CASE n = 0
  <2>1. lists = <<>>
    BY <1>3
  <2>2. AllItems(lists) = <<>>
    BY <1>3, <2>1 DEF AllItems, FlattenSeq
  <2> HIDE DEF o
  <2>3. o[1] = 0
    BY <1>2 DEF Sums
  <2> QED
    BY <1>3, <2>2, <2>3 DEF InPlace, o
<1>4. CASE n > 0
  <2>1. PICK all \in [1 .. n -> Seq(S)] :
           /\ AllItems(lists) = all[n]
           /\ all[1] = lists[1]
           /\ \A r \in 1 .. n - 1 : all[r + 1] = all[r] \o lists[r + 1]
    BY <1>4, ItemsAre
  <2> DEFINE T == {r \in 1 .. n : InPlace(all[r], o, lists, r)}
  <2> HIDE DEF o
  <2>2. 1 \in T
    <3>1. 1 \in 1 .. n /\ o[1] = 0 /\ o[1 + 1] = o[1] + Len(lists[1]) /\ Len(lists[1]) \in Nat
      BY <1>1, <1>2, <1>4 DEF Sums
    <3>2. \A q \in 1 .. 1 : q = 1
      OBVIOUS
    <3> QED
      BY <2>1, <3>1, <3>2 DEF InPlace
  <2>3. ASSUME NEW r \in 1 .. n - 1, r \in T PROVE r + 1 \in T
    <3>1. r \in 1 .. n /\ r + 1 \in 1 .. n
      BY <1>1
    <3>2. all[r] \in Seq(S) /\ all[r + 1] = all[r] \o lists[r + 1] /\ InPlace(all[r], o, lists, r)
      BY <2>1, <2>3, <3>1
    <3>3. lists \in [1 .. n -> Seq(S)]
      BY <1>1
    <3> HIDE DEF n
    <3>4. InPlace(all[r] \o lists[r + 1], o, lists, r + 1)
      BY <1>1, <1>2, <3>2, <3>3, OneMore
    <3> QED
      BY <3>1, <3>2, <3>4
  <2> HIDE DEF T, n
  <2>4. \A r \in 1 .. n : r \in T
    BY <1>1, <2>2, <2>3, InductionAlong
  <2>5. n \in 1 .. n
    BY <1>1, <1>4
  <2>6. InPlace(all[n], o, lists, n) /\ all[n] \in Seq(S)
    BY <2>1, <2>4, <2>5 DEF T
  <2> QED
    BY <2>1, <2>6 DEF n, o
<1> QED
  BY <1>1, <1>3, <1>4

(* Whatever sequence of as many items is cut at the offsets, there are as   *)
(* many lists as before, each as long as before, and place i of list q has *)
(* what the sequence has where that item was (l.241-258).                  *)
THEOREM CutsFit ==
  ASSUME NEW S, NEW lists \in Seq(Seq(S)),
         NEW V, NEW items \in Seq(V), Len(items) = Len(AllItems(lists))
  PROVE  FromArrays(Offsets(lists), items) =
           [q \in 1 .. Len(lists) |->
              [i \in 1 .. Len(lists[q]) |-> items[Offsets(lists)[q] + i]]]
<1> DEFINE n == Len(lists)
           o == Offsets(lists)
<1>1. n \in Nat /\ \A q \in 1 .. n : lists[q] \in Seq(S) /\ Len(lists[q]) \in Nat
  OBVIOUS
<1>2. o \in [1 .. n + 1 -> Nat] /\ Sums(o, lists, n)
  BY OffsetsAre
<1>3. Len(items) = o[n + 1]
  BY ItemsInPlace DEF InPlace
<1> HIDE DEF o, n
<1>4. Len(o) = n + 1 /\ (n + 1) - 1 = n
  BY <1>1, <1>2
<1>5. \A r \in 1 .. n + 1 : o[r] <= o[n + 1]
  <2> DEFINE len == [q \in 1 .. n |-> Len(lists[q])]
  <2>1. len \in [1 .. n -> Nat] /\ \A q \in 1 .. n : o[q + 1] = o[q] + len[q]
    BY <1>1, <1>2 DEF Sums
  <2> HIDE DEF len
  <2>2. \A r \in 1 .. n + 1 : \A q \in 1 .. r : o[q] <= o[r]
    BY <1>1, <1>2, <2>1, SumsGrow
  <2>3. n + 1 \in 1 .. n + 1
    BY <1>1
  <2> QED
    BY <2>2, <2>3
<1>6. ASSUME NEW q \in 1 .. n
      PROVE  SubSeq(items, o[q] + 1, o[q + 1]) = [i \in 1 .. Len(lists[q]) |-> items[o[q] + i]]
  <2> DEFINE length == Len(lists[q])
  <2>1. q \in 1 .. n + 1 /\ q + 1 \in 1 .. n + 1
    BY <1>1
  <2>2. length \in Nat /\ o[q] \in Nat /\ o[q + 1] = o[q] + length /\ o[q + 1] <= Len(items)
    BY <1>1, <1>2, <1>3, <1>5, <2>1 DEF Sums
  <2> HIDE DEF length
  <2>3. SubSeq(items, o[q] + 1, o[q] + length) = [i \in 1 .. length |-> items[o[q] + i]]
    <3> DEFINE at == o[q]
    <3>1. at \in Nat /\ at + length <= Len(items) /\ length \in Nat
      BY <2>2
    <3> HIDE DEF at
    <3>2. SubSeq(items, at + 1, at + length) = [i \in 1 .. length |-> items[at + i]]
      BY <3>1
    <3> QED
      BY <3>2 DEF at
  <2> QED
    BY <2>2, <2>3 DEF length
<1> QED
  BY <1>4, <1>6 DEF FromArrays, o, n

(* Each item of a list converted by itself, and that of every list. *)
EachItem(convert, list) == [j \in DOMAIN list |-> convert[list[j]]]
(* The same, list by list. *)
EachList(convert, lists) == [q \in DOMAIN lists |-> EachItem(convert, lists[q])]

(* Lists whose items are converted one by one, all at once, come out as if  *)
(* each list had been converted by itself (l.229-258).                     *)
THEOREM ListsComeBack ==
  ASSUME NEW S, NEW lists \in Seq(Seq(S)), NEW V, NEW convert \in [S -> V]
  PROVE  FromArrays(Offsets(lists), EachItem(convert, AllItems(lists))) = EachList(convert, lists)
<1> DEFINE n == Len(lists)
           o == Offsets(lists)
           all == AllItems(lists)
           items == EachItem(convert, all)
<1>1. /\ DOMAIN lists = 1 .. n
      /\ \A q \in 1 .. n : lists[q] \in Seq(S) /\ DOMAIN lists[q] = 1 .. Len(lists[q])
                            /\ Len(lists[q]) \in Nat
  OBVIOUS
<1>2. all \in Seq(S) /\ InPlace(all, o, lists, n)
  BY ItemsInPlace
<1>3. o \in [1 .. n + 1 -> Nat]
  BY OffsetsAre
<1> HIDE DEF all
<1>4. items \in Seq(V) /\ Len(items) = Len(all)
  BY <1>2 DEF EachItem
<1>5. FromArrays(o, items) =
        [q \in 1 .. n |-> [i \in 1 .. Len(lists[q]) |-> items[o[q] + i]]]
  <2> HIDE DEF items
  <2> QED
    BY <1>4, CutsFit DEF all
<1> HIDE DEF o, n
<1>6. ASSUME NEW q \in 1 .. n, NEW i \in 1 .. Len(lists[q])
      PROVE  items[o[q] + i] = convert[lists[q][i]]
  <2>1. o[q] + i \in 1 .. Len(all) /\ all[o[q] + i] = lists[q][i]
    BY <1>2 DEF InPlace
  <2>2. o[q] + i \in DOMAIN all
    BY <1>2, <2>1
  <2> QED
    BY <2>1, <2>2 DEF EachItem
<1>7. [q \in 1 .. n |-> [i \in 1 .. Len(lists[q]) |-> items[o[q] + i]]]
        = [q \in 1 .. n |-> [i \in 1 .. Len(lists[q]) |-> convert[lists[q][i]]]]
  <2> HIDE DEF items
  <2> QED
    BY <1>6
<1>8. [q \in 1 .. n |-> [i \in 1 .. Len(lists[q]) |-> convert[lists[q][i]]]]
        = [q \in DOMAIN lists |-> [i \in DOMAIN lists[q] |-> convert[lists[q][i]]]]
  BY <1>1
<1> QED
  BY <1>5, <1>7, <1>8 DEF o, n, all, EachItem, EachList
-----------------------------------------------------------------------------
(* Offsets are given in hours and minutes. *)
Offset == {o \in Int : o % Second = 0}

(* What fastavro reads where the schema has no record, array or map.  What *)
(* a text or a number of another kind says is immaterial.                  *)
AvroValues ==
    {Null}
    \cup [k : {"stamp"}, local : Int, offset : Offset]
    \cup [k : {"naive"}, local : Int]
    \cup [k : {"day"}, d : Int]
    \cup [k : {"num"}, v : Int]
    \cup [k : {"digits", "text", "uuid"}, v : Int]
    \cup [k : {"flag"}, on : BOOLEAN]
    \cup [k : {"datetime"}, at : Int]
    \cup [k : {"date"}, d : Int]

(* _clean_avro_records, then _build_array, of a value that is no record or list. *)
Cell(value, of) == PrimitiveCell(Sanitized(value, of), of)

-----------------------------------------------------------------------------

(* Whole seconds stay whole seconds when others are taken away. *)
LEMMA WholeSeconds ==
  ASSUME NEW a \in Int, NEW b \in Int, a % Second = 0, b % Second = 0
  PROVE  (a - b) % Second = 0
<1>1. Second \in Nat \ {0}
  BY ClockAssumption
<1>2. \A c \in Int : c % Second = 0 => \E i \in Int : c = Second * i
  BY <1>1
<1>3. PICK i \in Int : a = Second * i
  BY <1>2
<1>4. PICK j \in Int : b = Second * j
  BY <1>2
<1>5. a - b = Second * (i - j)
  BY <1>1, <1>3, <1>4
<1>6. \A m \in Int : (Second * m) % Second = 0
  BY <1>1
<1>7. i - j \in Int
  BY <1>3, <1>4
<1> QED
  BY <1>5, <1>6, <1>7

(* The fraction of a second, of whatever sign the time is. *)
LEMMA Fraction ==
  ASSUME NEW a \in Int
  PROVE  a % Second \in Nat /\ a % Second < Second
BY ClockAssumption

(* Clamping keeps the order, and what is between the bounds. *)
LEMMA Clamping ==
  /\ \A a \in Int : Clamped(a) \in NsMin .. NsMax
  /\ \A a \in NsMin .. NsMax : Clamped(a) = a
  /\ \A a, b \in Int : a <= b => Clamped(a) <= Clamped(b)
BY ClockAssumption DEF Clamped

-----------------------------------------------------------------------------

(* A point in time is never early, and late by less than a second: only the *)
(* fraction of its second is counted twice, and whole seconds are exact    *)
(* (l.186-204).                                                            *)
THEOREM LessThanASecondLate ==
  ASSUME NEW local \in Int, NEW offset \in Int
  PROVE  /\ Clamped(local - offset) <= EpochNs(Stamp(local, offset))
         /\ EpochNs(Stamp(local, offset)) <= Clamped(local - offset + Second - 1)
         /\ (local - offset) % Second = 0
              => EpochNs(Stamp(local, offset)) = Clamped(local - offset)
<1> DEFINE delta == local - offset
           fraction == delta % Second
<1>1. Second \in Nat \ {0} /\ delta \in Int
  BY ClockAssumption
<1>2. fraction \in Nat /\ fraction < Second
  BY <1>1, Fraction
<1>3. EpochNs(Stamp(local, offset)) = Clamped(delta + fraction)
  BY DEF EpochNs, Stamp
<1> HIDE DEF fraction, delta
<1>4. delta <= delta + fraction /\ delta + fraction <= delta + Second - 1
      /\ delta + fraction \in Int /\ delta + Second - 1 \in Int
  BY <1>1, <1>2
<1>5. Clamped(delta) <= Clamped(delta + fraction)
      /\ Clamped(delta + fraction) <= Clamped(delta + Second - 1)
  BY <1>1, <1>4, Clamping
<1>6. fraction = 0 => Clamped(delta + fraction) = Clamped(delta)
  BY <1>1
<1> QED
  BY <1>3, <1>5, <1>6 DEF delta, fraction

(* Whatever a record has, its column of points in time gets a null or one   *)
(* that an Arrow timestamp can hold (l.284-319).                           *)
THEOREM TimesFit ==
  ASSUME NEW value \in AvroValues
  PROVE  \/ Cell(value, "timestamp") = Null
         \/ \E at \in NsMin .. NsMax : Cell(value, "timestamp") = Time(at)
<1> DEFINE clean == Sanitized(value, "timestamp")
<1>1. Cell(value, "timestamp") = TimestampCell(clean)
  BY DEF Cell, PrimitiveCell
<1>2. CASE clean.k = "num" /\ clean.v \in Int
  <2>1. TimestampCell(clean) = Time(Clamped(clean.v)) /\ Clamped(clean.v) \in NsMin .. NsMax
    BY <1>2, Clamping DEF TimestampCell
  <2> QED
    BY <1>1, <2>1
<1>3. CASE clean.k = "stamp" /\ clean.local \in Int /\ clean.offset \in Int
  <2> DEFINE delta == clean.local - clean.offset
  <2>1. delta \in Int /\ delta + (delta % Second) \in Int
    <3>1. delta \in Int
      BY <1>3
    <3> HIDE DEF delta
    <3> QED
      BY <3>1, Fraction
  <2>2. EpochNs(clean) = Clamped(delta + (delta % Second))
    BY DEF EpochNs
  <2> HIDE DEF delta
  <2>3. EpochNs(clean) \in NsMin .. NsMax
    BY <2>1, <2>2, Clamping
  <2>4. TimestampCell(clean) = Time(EpochNs(clean))
    BY <1>3 DEF TimestampCell
  <2> QED
    BY <1>1, <2>3, <2>4
<1>4. CASE clean.k \in {"text", "day"}
  <2>1. TimestampCell(clean) = Time(NsMin) /\ NsMin \in NsMin .. NsMax
    BY <1>4, ClockAssumption DEF TimestampCell
  <2> QED
    BY <1>1, <2>1
<1>5. CASE clean.k \notin {"num", "stamp", "text", "day"}
  BY <1>1, <1>5 DEF TimestampCell
<1>6. \/ clean.k = "num" /\ clean.v \in Int
      \/ clean.k = "stamp" /\ clean.local \in Int /\ clean.offset \in Int
      \/ clean.k \in {"text", "day"}
      \/ clean.k \notin {"num", "stamp", "text", "day"}
  BY ClockAssumption DEF AvroValues, Offset, Sanitized, Stamp, Bytes, Null
<1> QED
  BY <1>2, <1>3, <1>4, <1>5, <1>6

(* Only columns of dates and of counters make the conversion raise: any    *)
(* other takes whatever value a record has (l.104-163, 284-336).           *)
THEOREM OthersNeverRaise ==
  ASSUME NEW value \in AvroValues, NEW of, of \notin {"date", "uint64"}
  PROVE  Cell(value, of) # Raised
<1>1. CASE of = "timestamp"
  BY <1>1, TimesFit DEF Null, Time, Raised
<1>2. CASE of # "timestamp"
  <2> DEFINE clean == Sanitized(value, of)
  <2>1. clean = value \/ clean = Bytes(value.v)
    BY <1>2 DEF Sanitized
  <2>2. value # Raised /\ Bytes(value.v) # Raised /\ Text(0) # Raised
    BY DEF AvroValues, Null, Raised, Bytes, Text
  <2>3. Cell(value, of) = Text(0) \/ Cell(value, of) = clean
    BY <1>2 DEF Cell, PrimitiveCell
  <2> QED
    BY <2>1, <2>2, <2>3
<1> QED
  BY <1>1, <1>2

(* Every value comes to its cell as RecordsLoaded wants it of the leaves of *)
(* a record, or the conversion raises: nulls, whole seconds with and       *)
(* without an offset, days, counters and plain values (l.104-163, 284-336). *)
THEOREM ValuesCarried ==
  ASSUME NEW value \in AvroValues, NEW of
  PROVE  Cell(value, of) = Raised \/ CarriesScalar(value, of, Cell(value, of))
<1>1. CASE value = Null
  BY <1>1 DEF Cell, PrimitiveCell, Sanitized, TimestampCell, DateCell, CarriesScalar, Null
<1>2. CASE value \in [k : {"stamp"}, local : Int, offset : Offset]
  <2>1. CASE of = "timestamp"
    <3>1. Cell(value, of) = Time(EpochNs(value))
      BY <1>2, <2>1 DEF Cell, PrimitiveCell, Sanitized, TimestampCell
    <3>2. ASSUME value.local % Second = 0 PROVE EpochNs(value) = Clamped(Instant(value))
      <4>1. value = Stamp(value.local, value.offset) /\ value.local \in Int /\ value.offset \in Int
            /\ value.offset % Second = 0
        BY <1>2 DEF Stamp, Offset
      <4>2. (value.local - value.offset) % Second = 0
        BY <3>2, <4>1, WholeSeconds
      <4>3. EpochNs(value) = Clamped(value.local - value.offset)
        BY <4>1, <4>2, LessThanASecondLate
      <4>4. Instant(value) = value.local - value.offset
        BY <1>2 DEF Instant
      <4> QED
        BY <4>3, <4>4
    <3> QED
      BY <1>2, <2>1, <3>1, <3>2 DEF CarriesScalar, Null
  <2>2. CASE of # "timestamp"
    BY <1>2, <2>2 DEF Cell, PrimitiveCell, Sanitized, DateCell, CarriesScalar, Null, Day, Date
  <2> QED
    BY <2>1, <2>2
<1>3. CASE value \in [k : {"naive"}, local : Int]
  <2>1. CASE of = "timestamp"
    <3>1. Cell(value, of) = Time(EpochNs(Stamp(value.local, MoscowOffset)))
      BY <1>3, <2>1 DEF Cell, PrimitiveCell, Sanitized, TimestampCell, Stamp
    <3>2. ASSUME value.local % Second = 0
          PROVE  EpochNs(Stamp(value.local, MoscowOffset)) = Clamped(Instant(value))
      <4>1. value.local \in Int /\ MoscowOffset \in Int /\ MoscowOffset % Second = 0
        BY <1>3, ClockAssumption
      <4>2. (value.local - MoscowOffset) % Second = 0
        BY <3>2, <4>1, WholeSeconds
      <4>3. EpochNs(Stamp(value.local, MoscowOffset)) = Clamped(value.local - MoscowOffset)
        BY <4>1, <4>2, LessThanASecondLate
      <4>4. Instant(value) = value.local - MoscowOffset
        BY <1>3 DEF Instant
      <4> QED
        BY <4>3, <4>4
    <3> QED
      BY <1>3, <2>1, <3>1, <3>2 DEF CarriesScalar, Null
  <2>2. CASE of # "timestamp"
    BY <1>3, <2>2 DEF Cell, PrimitiveCell, Sanitized, DateCell, CarriesScalar, Null, Day, Date
  <2> QED
    BY <2>1, <2>2
<1>4. CASE value \in [k : {"digits", "text", "uuid"}, v : Int]
  <2>1. CASE value.k = "digits"
    BY <2>1 DEF Cell, PrimitiveCell, Sanitized, CarriesScalar, Null, Num
  <2>2. CASE value.k = "text"
    BY <2>2 DEF Cell, PrimitiveCell, Sanitized, CarriesScalar, Null, Raised
  <2>3. CASE value.k = "uuid"
    BY <2>3 DEF CarriesScalar, Null
  <2> QED
    BY <1>4, <2>1, <2>2, <2>3
<1>5. CASE \/ value \in [k : {"num"}, v : Int]
           \/ value \in [k : {"flag"}, on : BOOLEAN]
  <2>1. CASE value.k = "num"
    BY <2>1 DEF Cell, PrimitiveCell, Sanitized, CarriesScalar, Null, Raised
  <2>2. CASE value.k = "flag"
    BY <2>2 DEF Cell, PrimitiveCell, Sanitized, CarriesScalar, Null, Raised
  <2> QED
    BY <1>5, <2>1, <2>2
<1>6. CASE \/ value \in [k : {"day"}, d : Int]
           \/ value \in [k : {"datetime"}, at : Int]
           \/ value \in [k : {"date"}, d : Int]
  BY <1>6 DEF CarriesScalar, Null
<1> QED
  BY <1>1, <1>2, <1>3, <1>4, <1>5, <1>6 DEF AvroValues

(* A column of lists of values, converted at one go: as many lists as      *)
(* before, each as long as before, and each value comes to its own place   *)
(* as RecordsLoaded wants it, or the conversion raises (l.229-336).        *)
THEOREM ListsCarried ==
  ASSUME NEW lists \in Seq(Seq(AvroValues)), NEW of
  PROVE  LET all == AllItems(lists)
             rows == FromArrays(Offsets(lists), [j \in DOMAIN all |-> Cell(all[j], of)])
         IN /\ DOMAIN rows = DOMAIN lists
            /\ \A q \in DOMAIN lists :
                  /\ DOMAIN rows[q] = DOMAIN lists[q]
                  /\ \A i \in DOMAIN lists[q] :
                        \/ rows[q][i] = Raised
                        \/ CarriesScalar(lists[q][i], of, rows[q][i])
<1> DEFINE all == AllItems(lists)
           convert == [value \in AvroValues |-> Cell(value, of)]
           rows == FromArrays(Offsets(lists), EachItem(convert, all))
           V == {Cell(value, of) : value \in AvroValues}
<1>1. convert \in [AvroValues -> V]
  OBVIOUS
<1>2. \A value \in AvroValues : convert[value] = Cell(value, of)
  OBVIOUS
<1>3. all \in Seq(AvroValues)
  <2> HIDE DEF AvroValues
  <2> QED
    BY ItemsInPlace
<1>4. \A j \in DOMAIN all : all[j] \in AvroValues
  BY <1>3
<1> HIDE DEF convert, all, V
<1>5. rows = [q \in DOMAIN lists |-> [i \in DOMAIN lists[q] |-> convert[lists[q][i]]]]
  <2>1. rows = EachList(convert, lists)
    BY <1>1, ListsComeBack DEF all
  <2> QED
    BY <2>1 DEF EachList, EachItem
<1>6. EachItem(convert, all) = [j \in DOMAIN all |-> Cell(all[j], of)]
  BY <1>2, <1>4 DEF EachItem
<1> HIDE DEF rows
<1>7. DOMAIN rows = DOMAIN lists
  BY <1>5
<1>8. ASSUME NEW q \in DOMAIN lists
      PROVE  /\ DOMAIN rows[q] = DOMAIN lists[q]
             /\ \A i \in DOMAIN lists[q] :
                   \/ rows[q][i] = Raised
                   \/ CarriesScalar(lists[q][i], of, rows[q][i])
  <2>1. rows[q] = [i \in DOMAIN lists[q] |-> convert[lists[q][i]]]
    BY <1>5
  <2>2. lists[q] \in Seq(AvroValues)
    OBVIOUS
  <2>3. ASSUME NEW i \in DOMAIN lists[q]
        PROVE  rows[q][i] = Raised \/ CarriesScalar(lists[q][i], of, rows[q][i])
    <3>1. lists[q][i] \in AvroValues
      BY <2>2
    <3>2. rows[q][i] = Cell(lists[q][i], of)
      BY <1>2, <2>1, <3>1
    <3> QED
      BY <3>1, <3>2, ValuesCarried
  <2> QED
    BY <2>1, <2>3
<1>9. rows = FromArrays(Offsets(lists), [j \in DOMAIN all |-> Cell(all[j], of)])
  BY <1>6 DEF rows
<1> QED
  BY <1>7, <1>8, <1>9 DEF all
-----------------------------------------------------------------------------
(* Columns of every type: lists and records of any depth. *)

(* Each method calls itself. *)
ConversionRecursion ==
    /\ \A c : RaisesBelow(c) = Raises(c)
    /\ \A values, type : BuildArrayBelow(values, type) = BuildArray(values, type)
    /\ \A value, type, cell : CarriesBelow(value, type, cell) = Carries(value, type, cell)

(* The values of a file, by the type of their column: the types come in     *)
(* levels, and a value has its parts in the types of the parts.            *)
ValuesOf(types, In) ==
    \A n \in Nat : \A type \in types[n] :
       \/ /\ type.t = "list"
          /\ type.element \in Below(types, n)
          /\ \A v \in In[type] : v.k = "list" => v.s \in Seq(In[type.element])
       \/ /\ type.t = "struct"
          /\ \A key \in DOMAIN type.fields :
                /\ type.fields[key] \in Below(types, n)
                /\ \A v \in In[type] : Get(v, key) \in In[type.fields[key]]
       \/ type.t \notin {"list", "struct"} /\ In[type] \subseteq AvroValues

(* A column has a cell for each value, which carries it or raises. *)
ColumnCarried(values, type) ==
    /\ BuildArray(values, type) = [r \in 1 .. Len(values) |-> BuildArray(values, type)[r]]
    /\ \A r \in 1 .. Len(values) :
          \/ Raises(BuildArray(values, type)[r])
          \/ Carries(values[r], type, BuildArray(values, type)[r])

(* All columns of a type do. *)
TypeCarried(type, In) == \A values \in Seq(In[type]) : ColumnCarried(values, type)

(* A column of plain values is converted value by value. *)
LEMMA LeavesCarried ==
  ASSUME NEW type, type.t \notin {"list", "struct"}, NEW values \in Seq(AvroValues)
  PROVE  ColumnCarried(values, type)
<1>1. BuildArray(values, type) = [r \in 1 .. Len(values) |-> Cell(values[r], type.of)]
  <2>1. BuildArray(values, type) = [r \in DOMAIN values |-> Cell(values[r], type.of)]
    BY DEF BuildArray, Cell
  <2>2. DOMAIN values = 1 .. Len(values)
    <3> HIDE DEF AvroValues
    <3> QED
      OBVIOUS
  <2> QED
    BY <2>1, <2>2
<1>2. ASSUME NEW r \in 1 .. Len(values)
      PROVE  \/ Raises(Cell(values[r], type.of))
             \/ Carries(values[r], type, Cell(values[r], type.of))
  <2>1. values[r] \in AvroValues
    <3> HIDE DEF AvroValues
    <3> QED
      OBVIOUS
  <2>2. CASE Cell(values[r], type.of) = Raised
    BY <2>2 DEF Raises, Raised
  <2>3. CASE CarriesScalar(values[r], type.of, Cell(values[r], type.of))
    BY <2>3 DEF Carries
  <2> QED
    BY <2>1, <2>2, <2>3, ValuesCarried
<1> QED
  BY <1>1, <1>2 DEF ColumnCarried

(* A column of records carries them if it does so key by key. *)
LEMMA StructsCarried ==
  ASSUME ConversionRecursion, NEW In, NEW type, type.t = "struct",
         NEW S, NEW values \in Seq(S),
         \A key \in DOMAIN type.fields :
            /\ \A v \in S : Get(v, key) \in In[type.fields[key]]
            /\ TypeCarried(type.fields[key], In)
  PROVE  ColumnCarried(values, type)
<1> DEFINE n == Len(values)
           of(key) == [r \in DOMAIN values |-> Get(values[r], key)]
           built(key) == BuildArray(of(key), type.fields[key])
           cell(r) == Dict([key \in DOMAIN type.fields |-> built(key)[r]])
<1>1. n \in Nat /\ DOMAIN values = 1 .. n /\ \A r \in 1 .. n : values[r] \in S
  OBVIOUS
<1>2. BuildArray(values, type) = [r \in 1 .. n |-> cell(r)]
  <2>1. BuildArray(values, type) =
          LET column == [name \in DOMAIN type.fields |->
                             BuildArrayBelow([r \in DOMAIN values |-> Get(values[r], name)],
                                        type.fields[name])]
          IN [r \in DOMAIN values |-> Dict([name \in DOMAIN column |-> column[name][r]])]
    BY DEF BuildArray
  <2>2. \A key \in DOMAIN type.fields :
          BuildArrayBelow([r \in DOMAIN values |-> Get(values[r], key)], type.fields[key]) = built(key)
    BY DEF ConversionRecursion
  <2> QED
    BY <1>1, <2>1, <2>2
<1>3. ASSUME NEW key \in DOMAIN type.fields
      PROVE  /\ Len(of(key)) = n
             /\ ColumnCarried(of(key), type.fields[key])
  <2>1. of(key) \in Seq(In[type.fields[key]]) /\ Len(of(key)) = n
    BY <1>1
  <2> HIDE DEF of
  <2> QED
    BY <2>1 DEF TypeCarried
<1> HIDE DEF n, built, of
<1>4. ASSUME NEW r \in 1 .. n, ~Raises(cell(r))
      PROVE  Carries(values[r], type, cell(r))
  <2>1. cell(r).k = "dict" /\ cell(r).f = [key \in DOMAIN type.fields |-> built(key)[r]]
    BY DEF Dict
  <2> HIDE DEF cell
  <2>2. ASSUME NEW key \in DOMAIN type.fields
        PROVE  CarriesBelow(Get(values[r], key), type.fields[key], cell(r).f[key])
    <3>1. ~RaisesBelow(cell(r).f[key])
      BY <1>4, <2>1 DEF Raises
    <3>2. ~Raises(built(key)[r])
      BY <2>1, <3>1 DEF ConversionRecursion
    <3>3. Carries(of(key)[r], type.fields[key], built(key)[r])
      BY <1>3, <3>2 DEF ColumnCarried, built
    <3>4. of(key)[r] = Get(values[r], key)
      BY <1>1 DEF of
    <3> QED
      BY <2>1, <3>3, <3>4 DEF ConversionRecursion
  <2> QED
    BY <2>1, <2>2 DEF Carries
<1> HIDE DEF cell
<1>5. n = Len(values)
  BY DEF n
<1> QED
  BY <1>2, <1>4, <1>5 DEF ColumnCarried

(* A column of lists carries them if all their items in a row are carried. *)
LEMMA ListsOfListsCarried ==
  ASSUME ConversionRecursion, NEW In, NEW type, type.t = "list",
         NEW S, NEW values \in Seq(S),
         \A v \in S : v.k = "list" => v.s \in Seq(In[type.element]),
         TypeCarried(type.element, In)
  PROVE  ColumnCarried(values, type)
<1> DEFINE n == Len(values)
           E == In[type.element]
           lists == [r \in DOMAIN values |-> IF values[r].k = "list" THEN values[r].s ELSE <<>>]
           all == AllItems(lists)
           o == Offsets(lists)
           items == BuildArray(all, type.element)
           rows == FromArrays(o, items)
<1>1. n \in Nat /\ DOMAIN values = 1 .. n /\ \A r \in 1 .. n : values[r] \in S
  OBVIOUS
<1>2. lists \in Seq(Seq(E)) /\ Len(lists) = n
  <2>1. \A r \in 1 .. n : (IF values[r].k = "list" THEN values[r].s ELSE <<>>) \in Seq(E)
    <3>1. \A v \in S : v.k = "list" => v.s \in Seq(E)
      OBVIOUS
    <3>2. <<>> \in Seq(E)
      OBVIOUS
    <3> HIDE DEF E
    <3> QED
      BY <1>1, <3>1, <3>2
  <2> HIDE DEF n, E
  <2> QED
    BY <1>1, <2>1
<1>3. \A r \in 1 .. n : lists[r] = IF values[r].k = "list" THEN values[r].s ELSE <<>>
  BY <1>1
<1>4. BuildArray(values, type) = [r \in 1 .. n |-> List(rows[r])]
  <2>1. BuildArray(values, type) =
          [r \in DOMAIN values |-> List(FromArrays(o, BuildArrayBelow(all, type.element))[r])]
    BY DEF BuildArray
  <2>2. BuildArrayBelow(all, type.element) = items
    BY DEF ConversionRecursion
  <2> HIDE DEF lists, all, o, items
  <2> QED
    BY <1>1, <2>1, <2>2
<1> HIDE DEF n, lists, E
<1>5. all \in Seq(E) /\ InPlace(all, o, lists, n)
  BY <1>2, ItemsInPlace
<1>6. ColumnCarried(all, type.element)
  BY <1>5 DEF TypeCarried, E
<1> DEFINE V == {items[j] : j \in 1 .. Len(all)}
<1> HIDE DEF all, o
<1>7. items \in Seq(V) /\ Len(items) = Len(all)
  <2>1. items = [j \in 1 .. Len(all) |-> items[j]] /\ Len(all) \in Nat
    BY <1>5, <1>6 DEF ColumnCarried
  <2> HIDE DEF items
  <2> QED
    BY <2>1
<1> HIDE DEF items, V
<1>8. rows = [q \in 1 .. n |-> [i \in 1 .. Len(lists[q]) |-> items[o[q] + i]]]
  BY <1>2, <1>7, CutsFit DEF o, all
<1> HIDE DEF rows
<1>9. ASSUME NEW r \in 1 .. n, ~Raises(List(rows[r]))
      PROVE  Carries(values[r], type, List(rows[r]))
  <2> DEFINE cell == List(rows[r])
  <2>1. cell.k = "list" /\ cell.s = rows[r] /\ lists[r] \in Seq(E) /\ Len(lists[r]) \in Nat
    BY <1>2 DEF List
  <2>2. rows[r] = [i \in 1 .. Len(lists[r]) |-> items[o[r] + i]]
    BY <1>8
  <2>3. Len(rows[r]) = Len(lists[r]) /\ DOMAIN rows[r] = 1 .. Len(lists[r]) /\ DOMAIN lists[r] = 1 .. Len(lists[r])
    BY <2>1, <2>2
  <2> HIDE DEF cell
  <2>4. ASSUME NEW i \in 1 .. Len(lists[r])
        PROVE  CarriesBelow(lists[r][i], type.element, cell.s[i])
    <3>1. o[r] + i \in 1 .. Len(all) /\ all[o[r] + i] = lists[r][i] /\ rows[r][i] = items[o[r] + i]
      BY <1>5, <2>2 DEF InPlace
    <3>2. ~Raises(rows[r][i])
      <4>1. ~RaisesBelow(cell.s[i])
        BY <1>9, <2>1, <2>3 DEF Raises, cell
      <4> QED
        BY <2>1, <4>1 DEF ConversionRecursion
    <3>3. Carries(lists[r][i], type.element, rows[r][i])
      BY <1>6, <3>1, <3>2 DEF ColumnCarried, items
    <3> QED
      BY <2>1, <3>3 DEF ConversionRecursion
  <2> QED
    BY <1>3, <2>1, <2>3, <2>4 DEF Carries, cell
<1>10. n = Len(values)
  BY DEF n
<1> QED
  BY <1>4, <1>9, <1>10 DEF ColumnCarried

(* Whatever lists and records a type is made of, the column that the       *)
(* conversion builds has a cell for each value, and the cell carries the   *)
(* value, or the column raises (avro_to_arrow.py l.206-336).               *)
THEOREM AllCarried ==
  ASSUME ConversionRecursion, NEW types, NEW In, ValuesOf(types, In)
  PROVE  \A n \in Nat : \A type \in types[n] : TypeCarried(type, In)
<1> DEFINE T == {n \in Nat : \A type \in types[n] : TypeCarried(type, In)}
<1>1. ASSUME NEW n \in Nat, \A m \in 0 .. n - 1 : m \in T
      PROVE  n \in T
  <2>1. \A type \in Below(types, n) : TypeCarried(type, In)
    BY <1>1 DEF Below
  <2>2. ASSUME NEW type \in types[n], NEW values \in Seq(In[type])
        PROVE  ColumnCarried(values, type)
    <3>1. CASE /\ type.t = "list"
               /\ type.element \in Below(types, n)
               /\ \A v \in In[type] : v.k = "list" => v.s \in Seq(In[type.element])
      BY <2>1, <3>1, ListsOfListsCarried
    <3>2. CASE /\ type.t = "struct"
               /\ \A key \in DOMAIN type.fields :
                     /\ type.fields[key] \in Below(types, n)
                     /\ \A v \in In[type] : Get(v, key) \in In[type.fields[key]]
      BY <2>1, <3>2, StructsCarried
    <3>3. CASE type.t \notin {"list", "struct"} /\ In[type] \subseteq AvroValues
      <4>1. values \in Seq(AvroValues)
        <5> HIDE DEF AvroValues
        <5> QED
          BY <3>3
      <4> QED
        BY <3>3, <4>1, LeavesCarried
    <3> QED
      BY <3>1, <3>2, <3>3 DEF ValuesOf
  <2> QED
    BY <2>2 DEF TypeCarried
<1> HIDE DEF T
<1>2. \A n \in Nat : n \in T
  BY <1>1, StrongInduction
<1> QED
  BY <1>2 DEF T
==============================================================================
