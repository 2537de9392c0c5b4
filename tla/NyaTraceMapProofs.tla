------------------------- MODULE NyaTraceMapProofs -------------------------
(***************************************************************************)
(* That clearMap empties the line, whatever it goes through.  A coordinate *)
(* is removed by its value, the last one that is equal: a line that comes  *)
(* back to a city loses the points of that city in another order than the  *)
(* loop reads them, and still all of them.                                 *)
(***************************************************************************)
EXTENDS NyaTraceMap, Rounds, SequenceTheorems, TLAPS

LEMMA Removed ==
  ASSUME NEW S, NEW path \in Seq(S), NEW i \in 1 .. Len(path)
  PROVE  /\ RemoveAt(path, i) \in Seq(S)
         /\ Len(RemoveAt(path, i)) = Len(path) - 1
         /\ \A k \in 1 .. Len(path) - 1 :
              RemoveAt(path, i)[k] = IF k < i THEN path[k] ELSE path[k + 1]
<1> DEFINE head == SubSeq(path, 1, i - 1)
           tail == SubSeq(path, i + 1, Len(path))
<1>1. /\ head \in Seq(S) /\ Len(head) = i - 1
      /\ \A k \in 1 .. i - 1 : head[k] = path[k]
  OBVIOUS
<1>2. /\ tail \in Seq(S) /\ Len(tail) = Len(path) - i
      /\ \A k \in 1 .. Len(path) - i : tail[k] = path[k + i]
  OBVIOUS
<1>3. RemoveAt(path, i) = head \o tail
  BY DEF RemoveAt
<1> HIDE DEF head, tail
<1>4. /\ head \o tail \in Seq(S)
      /\ Len(head \o tail) = Len(head) + Len(tail)
      /\ \A k \in 1 .. Len(head) + Len(tail) :
           (head \o tail)[k] = IF k <= Len(head) THEN head[k] ELSE tail[k - Len(head)]
  BY <1>1, <1>2, ConcatProperties
<1>6. Len(head) + Len(tail) = Len(path) - 1 /\ \A k \in Nat : k <= i - 1 <=> k < i
  BY <1>1, <1>2
<1>5. ASSUME NEW k \in 1 .. Len(path) - 1, ~(k < i)
      PROVE  tail[k - (i - 1)] = path[k + 1]
  BY <1>2, <1>5
<1> HIDE DEF head, tail
<1>7. ASSUME NEW k \in 1 .. Len(path) - 1
      PROVE  (head \o tail)[k] = IF k < i THEN path[k] ELSE path[k + 1]
  <2>1. k \in 1 .. Len(head) + Len(tail) /\ (k <= Len(head) <=> k < i)
    BY <1>1, <1>6, <1>7
  <2>2. k < i => head[k] = path[k]
    BY <1>1, <1>7
  <2>3. ~(k < i) => tail[k - Len(head)] = path[k + 1]
    BY <1>1, <1>5, <1>7
  <2> QED BY <1>4, <2>1, <2>2, <2>3
<1> QED BY <1>3, <1>4, <1>6, <1>7

\* What is removed of a path that goes through the city.
LEMMA LastHit ==
  ASSUME NEW S, NEW path \in Seq(S), NEW city,
         \E i \in 1 .. Len(path) : City(path[i].place) = city
  PROVE  \E i \in 1 .. Len(path) :
           City(path[i].place) = city /\ WithoutLast(path, city) = RemoveAt(path, i)
<1> DEFINE hits == {i \in DOMAIN path : City(path[i].place) = city}
<1>1. hits \subseteq 1 .. Len(path) /\ hits # {} /\ Len(path) \in Nat
  OBVIOUS
<1>5. \A i \in hits : i \in 1 .. Len(path) /\ City(path[i].place) = city
  OBVIOUS
<1>6. WithoutLast(path, city) = RemoveAt(path, CHOOSE i \in hits : \A j \in hits : j <= i)
  BY <1>1 DEF WithoutLast
<1> HIDE DEF hits
<1>2. \E i \in hits : \A j \in hits : j <= i
  BY <1>1, GreatestElement
<1>3. (CHOOSE i \in hits : \A j \in hits : j <= i) \in hits
  BY <1>2
<1> QED BY <1>3, <1>5, <1>6

LEMMA CutTyped ==
  ASSUME NEW S, NEW path, NEW left \in Seq(S), NEW i \in Nat
  PROVE  CutOnce(path, left, i) \in Seq(S)
<1>1. ASSUME NEW city PROVE WithoutLast(left, city) \in Seq(S)
  <2>1. CASE \E k \in 1 .. Len(left) : City(left[k].place) = city
    BY <2>1, LastHit, Removed
  <2>2. CASE ~ \E k \in 1 .. Len(left) : City(left[k].place) = city
    BY <2>2 DEF WithoutLast
  <2> QED BY <2>1, <2>2
<1> QED BY <1>1 DEF CutOnce

\* The rounds of clearMap.
LEMMA CutRounds ==
  ASSUME NEW S, NEW path \in Seq(S)
  PROVE  \E f \in [0 .. Len(path) -> Seq(S)] :
           /\ f[0] = path
           /\ \A i \in 1 .. Len(path) : f[i] = CutOnce(path, f[i - 1], i)
           /\ CutPath(path) = f[Len(path)]
<1> DEFINE body == [i \in Nat |-> [p \in Seq(S) |-> CutOnce(path, p, i)]]
<1>1. body \in Bodies(Seq(S))
  BY CutTyped DEF Bodies
<1>2. \A p \in Seq(S), i \in Nat : body[i][p] = CutOnce(path, p, i)
  OBVIOUS
<1> HIDE DEF body
<1>3. PICK f \in [0 .. Len(path) -> Seq(S)] :
        f[0] = path /\ \A i \in 1 .. Len(path) : f[i] = body[i][f[i - 1]]
  <2>1. Len(path) \in Nat
    BY LenProperties
  <2>2. RoundsOf(Seq(S), path, body, Len(path)) # {}
    BY <1>1, <2>1, Rounds
  <2> QED BY <2>2 DEF RoundsOf
<1>4. \A i \in 1 .. Len(path) : f[i] = CutOnce(path, f[i - 1], i)
  BY <1>2, <1>3, SMTT(30)
<1>5. f = [i \in 0 .. Len(path) |-> IF i = 0 THEN path ELSE CutOnce(path, f[i - 1], i)]
  BY <1>3, <1>4
<1> DEFINE left[i \in 0 .. Len(path)] ==
             IF i = 0 THEN path ELSE CutOnce(path, left[i - 1], i)
<1>6. left = [i \in 0 .. Len(path) |-> IF i = 0 THEN path ELSE CutOnce(path, left[i - 1], i)]
  BY <1>5, Zenon
<1>7. CutPath(path) = left[Len(path)]
  BY DEF CutPath
<1> HIDE DEF left
<1>8. \A i \in 0 .. Len(path) : left[i] = IF i = 0 THEN path ELSE CutOnce(path, left[i - 1], i)
  BY <1>6
<1> DEFINE T == {i \in Nat : i <= Len(path) => left[i] = f[i]}
<1>9. 0 \in T
  BY <1>3, <1>8
<1>10. ASSUME NEW i \in Nat, i \in T PROVE i + 1 \in T
  <2>1. CASE i + 1 <= Len(path)
    <3>1. i + 1 \in 1 .. Len(path) /\ (i + 1) - 1 = i /\ i <= Len(path)
      BY <2>1
    <3>2. left[i + 1] = CutOnce(path, left[i], i + 1)
      BY <1>8, <3>1
    <3>3. f[i + 1] = CutOnce(path, f[i], i + 1)
      BY <1>4, <3>1
    <3> QED BY <1>10, <3>1, <3>2, <3>3
  <2>2. CASE ~(i + 1 <= Len(path))
    BY <2>2
  <2> QED BY <2>1, <2>2
<1> HIDE DEF T
<1>11. Len(path) \in T
  BY <1>9, <1>10, SetInduction, LenProperties
<1>12. left[Len(path)] = f[Len(path)]
  BY <1>11 DEF T
<1> QED BY <1>3, <1>4, <1>7, <1>12

-----------------------------------------------------------------------------
\* After i rounds every point of the path that is still to be read has a
\* point of its own, in the same city, among those that are left.
Matched(path, left, i) ==
  /\ Len(left) = Len(path) - i
  /\ \E h \in [i + 1 .. Len(path) -> 1 .. Len(left)] :
       /\ \A v \in i + 1 .. Len(path) : City(left[h[v]].place) = City(path[v].place)
       /\ \A u, v \in i + 1 .. Len(path) : h[u] = h[v] => u = v

LEMMA StillMatched ==
  ASSUME NEW S, NEW path \in Seq(S), NEW left \in Seq(S), NEW i \in Nat, i < Len(path),
         PathIsCopy, Matched(path, left, i)
  PROVE  Matched(path, CutOnce(path, left, i + 1), i + 1)
<1>1. PICK n \in Nat, l \in Nat : n = Len(path) /\ l = Len(left)
  BY LenProperties
<1>2. PICK h \in [i + 1 .. n -> 1 .. l] :
        /\ \A v \in i + 1 .. n : City(left[h[v]].place) = City(path[v].place)
        /\ \A u, v \in i + 1 .. n : h[u] = h[v] => u = v
  BY <1>1 DEF Matched
<1>3. l = n - i /\ i < n
  BY <1>1 DEF Matched
<1>4. i + 1 \in i + 1 .. n /\ h[i + 1] \in 1 .. l
  BY <1>2, <1>3
<1> DEFINE city == City(path[i + 1].place)
           next == CutOnce(path, left, i + 1)
<1>5. next = WithoutLast(left, city)
  BY DEF CutOnce
<1>6. City(left[h[i + 1]].place) = city
  BY <1>2, <1>4
<1> HIDE DEF city, next
<1>7. PICK m \in 1 .. l : City(left[m].place) = city /\ next = RemoveAt(left, m)
  BY <1>1, <1>4, <1>5, <1>6, LastHit
<1>8. /\ Len(next) = l - 1
      /\ \A k \in 1 .. l - 1 : next[k] = IF k < m THEN left[k] ELSE left[k + 1]
  BY <1>1, <1>7, Removed
\* The point that was matched with the removed one takes over the one that
\* was matched with the point just read.
<1> DEFINE w == [v \in i + 2 .. n |-> IF h[v] = m THEN h[i + 1] ELSE h[v]]
           g == [v \in i + 2 .. n |-> IF w[v] < m THEN w[v] ELSE w[v] - 1]
<1>9. \A v \in i + 2 .. n : v \in i + 1 .. n /\ v # i + 1
  OBVIOUS
<1>10. \A v \in i + 2 .. n :
         w[v] \in 1 .. l /\ w[v] # m /\ City(left[w[v]].place) = City(path[v].place)
  BY <1>2, <1>4, <1>6, <1>7, <1>9
<1>11. \A u, v \in i + 2 .. n : w[u] = w[v] => u = v
  BY <1>2, <1>4, <1>9
<1>12. \A v \in i + 2 .. n : g[v] = IF w[v] < m THEN w[v] ELSE w[v] - 1
  OBVIOUS
<1>13. DOMAIN g = i + 2 .. n /\ g = [v \in i + 2 .. n |-> g[v]]
  OBVIOUS
<1> HIDE DEF w, g
<1>14. \A a \in 1 .. l, b \in Int :
         a # m /\ b = (IF a < m THEN a ELSE a - 1) => b \in 1 .. l - 1 /\ next[b] = left[a]
  <2>1. SUFFICES ASSUME NEW a \in 1 .. l, NEW b \in Int,
                        a # m, b = IF a < m THEN a ELSE a - 1
                 PROVE  b \in 1 .. l - 1 /\ next[b] = left[a]
    OBVIOUS
  <2>2. b \in 1 .. l - 1 /\ (IF b < m THEN a = b ELSE a = b + 1)
    BY <2>1
  <2> QED BY <1>8, <2>2
<1>15. ASSUME NEW v \in i + 2 .. n
       PROVE  g[v] \in 1 .. l - 1 /\ next[g[v]] = left[w[v]]
  <2>1. g[v] \in Int
    BY <1>10, <1>12
  <2> QED BY <1>10, <1>12, <1>14, <2>1
<1>16. ASSUME NEW u \in i + 2 .. n, NEW v \in i + 2 .. n, g[u] = g[v]
       PROVE  u = v
  <2>1. \A a, b \in 1 .. l : a # m /\ b # m
          /\ (IF a < m THEN a ELSE a - 1) = (IF b < m THEN b ELSE b - 1) => a = b
    OBVIOUS
  <2>2. PICK a \in 1 .. l, b \in 1 .. l : a = w[u] /\ b = w[v] /\ a # m /\ b # m
    BY <1>10
  <2>3. (IF a < m THEN a ELSE a - 1) = (IF b < m THEN b ELSE b - 1)
    BY <1>12, <1>16, <2>2
  <2>4. w[u] = w[v]
    BY <2>1, <2>2, <2>3
  <2> QED BY <1>11, <2>4
<1>17. (i + 1) + 1 = i + 2 /\ l - 1 = n - (i + 1)
  BY <1>3
<1>18. g \in [(i + 1) + 1 .. n -> 1 .. Len(next)]
  BY <1>8, <1>13, <1>15, <1>17
<1>19. \A v \in (i + 1) + 1 .. n : City(next[g[v]].place) = City(path[v].place)
  BY <1>10, <1>15, <1>17
<1>20. \A u, v \in (i + 1) + 1 .. n : g[u] = g[v] => u = v
  BY <1>16, <1>17
<1>21. Matched(path, next, i + 1)
  BY <1>1, <1>8, <1>17, <1>18, <1>19, <1>20 DEF Matched
<1> QED BY <1>21 DEF next

(* clearMap leaves no point of the line, also when the hops of a trace lie *)
(* in one city or come back to one, if the loop runs over a copy.          *)
THEOREM LineIsEmptied ==
  ASSUME PathIsCopy, NEW S, NEW path \in Seq(S)
  PROVE  CutPath(path) = <<>>
<1>1. PICK n \in Nat : n = Len(path)
  BY LenProperties
<1>2. PICK f \in [0 .. n -> Seq(S)] :
        /\ f[0] = path
        /\ \A i \in 1 .. n : f[i] = CutOnce(path, f[i - 1], i)
        /\ CutPath(path) = f[n]
  BY <1>1, CutRounds
<1> DEFINE T == {i \in Nat : i <= n => Matched(path, f[i], i)}
<1>3. 0 \in T
  <2> DEFINE h == [v \in 1 .. n |-> v]
  <2>1. h \in [1 .. n -> 1 .. n] /\ \A v \in 1 .. n : h[v] = v
    OBVIOUS
  <2> HIDE DEF h
  <2>2. Matched(path, path, 0)
    BY <1>1, <2>1 DEF Matched
  <2> QED BY <1>2, <2>2
<1>4. ASSUME NEW i \in Nat, i \in T PROVE i + 1 \in T
  <2>1. SUFFICES ASSUME i + 1 <= n PROVE Matched(path, f[i + 1], i + 1)
    OBVIOUS
  <2>2. i < n /\ i \in 0 .. n /\ i + 1 \in 1 .. n /\ (i + 1) - 1 = i
    BY <2>1
  <2>3. f[i + 1] = CutOnce(path, f[i], i + 1)
    BY <1>2, <2>2
  <2>4. Matched(path, f[i], i) /\ f[i] \in Seq(S)
    BY <1>2, <1>4, <2>2
  <2> QED BY <1>1, <2>2, <2>3, <2>4, StillMatched
<1> HIDE DEF T
<1>5. n \in T
  BY <1>3, <1>4, SetInduction
<1>6. Len(f[n]) = n - n /\ f[n] \in Seq(S)
  BY <1>1, <1>2, <1>5 DEF T, Matched
<1> QED BY <1>2, <1>6, EmptySeq
=============================================================================
