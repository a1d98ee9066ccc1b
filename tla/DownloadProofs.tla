----------------------------- MODULE DownloadProofs -----------------------------
(***************************************************************************)
(* Proofs about HistoricalDownload. What the code reads out of the archive *)
(* is a recursion over its lines; ScanUnfolds and ReadingUnfolds show that *)
(* the recursions are well defined, by a least line at which they would    *)
(* not be, and ScanOfLines and ReadingOfLines say what they compute.       *)
(***************************************************************************)
EXTENDS HistoricalDownload, Numbers, SequenceTheorems, TLAPS

-----------------------------------------------------------------------------
(* Numbers                                                                 *)

\* An interval in the order of the tape.
LEMMA InOrderOfInterval ==
  ASSUME NEW u \in Nat \ {0}, NEW v \in Nat, u <= v + 1
  PROVE  InOrder(u..v) = [n \in 1..(v - u + 1) |-> u + n - 1]
<1> DEFINE S == u..v
           Nth(n) == CHOOSE i \in S : Cardinality({j \in S : j < i}) = n - 1
<1>1. ASSUME NEW n \in 1..(v - u + 1) PROVE Nth(n) = u + n - 1
  <2>1. ASSUME NEW i \in S PROVE Cardinality({j \in S : j < i}) = i - u
    <3>1. {j \in S : j < i} = u..(i - 1)
      OBVIOUS
    <3>2. i - 1 \in Nat /\ u <= (i - 1) + 1
      OBVIOUS
    <3>3. Cardinality(u..(i - 1)) = (i - 1) - u + 1
      BY <3>2, IntervalSize
    <3>4. (i - 1) - u + 1 = i - u
      OBVIOUS
    <3> QED BY <3>1, <3>3, <3>4, Zenon
  <2>2. u + n - 1 \in S /\ (u + n - 1) - u = n - 1
    OBVIOUS
  <2>3. Cardinality({j \in S : j < u + n - 1}) = n - 1
    BY <2>1, <2>2
  <2>4. \A i \in S : Cardinality({j \in S : j < i}) = n - 1 => i = u + n - 1
    BY <2>1
  <2> HIDE DEF S
  <2> QED BY <2>2, <2>3, <2>4
<1>2. Cardinality(S) = v - u + 1
  BY IntervalSize
<1> HIDE DEF Nth
<1>3. InOrder(S) = [n \in 1..Cardinality(S) |-> Nth(n)]
  BY DEF InOrder, Nth
<1> QED BY <1>1, <1>2, <1>3

\* Counting on.
LEMMA CountOn ==
  ASSUME NEW l \in Nat, NEW d \in Nat
  PROVE  [i \in 1..(l + d) |-> i] = [i \in 1..l |-> i] \o [n \in 1..d |-> l + n]
<1> DEFINE f == [i \in 1..l |-> i]
           g == [n \in 1..d |-> l + n]
<1>1. /\ f \in Seq(Nat) /\ Len(f) = l /\ \A i \in 1..l : f[i] = i
      /\ g \in Seq(Nat) /\ Len(g) = d /\ \A n \in 1..d : g[n] = l + n
  OBVIOUS
<1> DEFINE h == [i \in 1..(l + d) |-> i]
<1>2. h \in Seq(Nat) /\ Len(h) = l + d /\ \A i \in 1..(l + d) : h[i] = i
  OBVIOUS
<1> HIDE DEF f, g, h
<1>3. f \o g \in Seq(Nat) /\ Len(f \o g) = l + d
  BY <1>1, ConcatProperties
<1>4. ASSUME NEW i \in 1..(l + d) PROVE (f \o g)[i] = h[i]
  <2>1. (f \o g)[i] = IF i <= Len(f) THEN f[i] ELSE g[i - Len(f)]
    BY <1>1, ConcatProperties
  <2>2. CASE i <= l
    BY <1>1, <1>2, <2>1, <2>2
  <2>3. CASE ~(i <= l)
    <3>1. i - l \in 1..d /\ l + (i - l) = i
      BY <2>3
    <3> QED BY <3>1, <1>1, <1>2, <2>1, <2>3
  <2> QED BY <2>2, <2>3
<1>5. h = f \o g
  BY <1>2, <1>3, <1>4, SeqEqual
<1> QED BY <1>5 DEF f, g, h

-----------------------------------------------------------------------------
(* The tape and what the lines say of it                                   *)

Sorted == \A i, j \in DOMAIN tape : i <= j => tape[i] <= tape[j]

\* A page begins with the first trade that is not before its cursor, and goes past it.
Opens(m, cursor) == m \in Nat \ {0} /\ \A i \in DOMAIN tape : tape[i] < cursor <=> i < m

Follows(p, cursor) ==
  /\ p \in Nat \X Nat
  /\ p[1] <= p[2] /\ p[2] \in DOMAIN tape /\ tape[p[2]] > cursor
  /\ Opens(p[1], cursor)

LineType == [index : Nat, cursor : Nat, trades : Nat \X Nat, at : Nat]

\* A line that a download wrote: nobody asks for trades after the cutoff.
Genuine(r) == r \in LineType /\ ~Complete(r.cursor) /\ Follows(r.trades, r.cursor)

\* Everything that Kraken and the archive hold.
Evidence ==
  /\ tape \in Seq(Nat) /\ Sorted
  /\ file \in Seq(LineType \cup {Torn})
  /\ \A n \in DOMAIN file : file[n] = Torn \/ Genuine(file[n])

\* What the first n lines amount to, whoever wrote them.
LastAt(n)   == IF n = 0 THEN 0 ELSE file[n].trades[2]
CursorAt(n) == IF n = 0 THEN 0 ELSE tape[file[n].trades[2]]
TimeAt(n)   == IF n = 0 THEN 0 ELSE file[n].at

Arch(n) ==
  [count |-> n, cursor |-> CursorAt(n), included |-> Cardinality(Early(1..LastAt(n))),
   complete |-> Complete(CursorAt(n)), at |-> TimeAt(n), last |-> LastAt(n),
   digest |-> SubSeq(file, 1, n)]

\* Line n continues the lines before it, and the inspection accepts it.
Linked(n) == Chained(Arch(n - 1), file[n])
Links(n)  == Linked(n) /\ ~Complete(CursorAt(n - 1)) /\ TimeAt(n - 1) <= file[n].at

\* The early ones among the first trades are the first early ones.
LEMMA EarlyPrefix ==
  ASSUME tape \in Seq(Nat), Sorted, NEW n \in 0..Len(tape)
  PROVE  \E k \in 0..n : /\ Early(1..n) = 1..k
                         /\ IsFiniteSet(Early(1..n)) /\ Cardinality(Early(1..n)) = k
                         /\ \A i \in 1..n : Complete(tape[i]) <=> k < i
<1>1. Cutoff \in Nat \ {0} /\ n \in Nat /\ n <= Len(tape) /\ DOMAIN tape = 1..Len(tape)
  BY DownloadAssumption
<1>2. ASSUME NEW k \in 0..n, \A i \in 1..n : Complete(tape[i]) <=> k < i
      PROVE  /\ Early(1..n) = 1..k
             /\ IsFiniteSet(Early(1..n)) /\ Cardinality(Early(1..n)) = k
  <2>1. Early(1..n) = 1..k
    <3>1. \A i \in 1..n : tape[i] \in Nat
      BY <1>1
    <3>2. \A i \in 1..n : tape[i] < Cutoff <=> i <= k
      BY <3>1, <1>1, <1>2 DEF Complete
    <3> QED BY <3>2, <1>1 DEF Early
  <2>2. k \in Nat /\ IsFiniteSet(1..k) /\ Cardinality(1..k) = k
    BY FirstNumbers
  <2> QED BY <2>1, <2>2, Zenon
<1> DEFINE L == {i \in 1..n : Complete(tape[i])}
<1>3. CASE L = {}
  <2>1. \A i \in 1..n : Complete(tape[i]) <=> n < i
    BY <1>3, <1>1
  <2> QED BY <2>1, <1>1, <1>2
<1>4. CASE L # {}
  <2>1. PICK m \in L : \A i \in L : m <= i
    <3>1. L \subseteq Nat
      OBVIOUS
    <3> HIDE DEF L
    <3> QED BY <1>4, <3>1, LeastNumber
  <2>2. m - 1 \in 0..n
    BY <1>1
  <2>3. \A i \in 1..n : Complete(tape[i]) <=> m - 1 < i
    <3> SUFFICES ASSUME NEW i \in 1..n PROVE Complete(tape[i]) <=> m - 1 < i
      OBVIOUS
    <3>1. CASE i < m
      BY <2>1, <3>1
    <3>2. CASE m <= i
      <4> HIDE DEF L
      <4>1. m \in 1..n /\ m \in DOMAIN tape /\ i \in DOMAIN tape
        BY <1>1 DEF L
      <4>2. tape[m] <= tape[i] /\ tape[m] \in Nat /\ tape[i] \in Nat
        BY <3>2, <4>1 DEF Sorted
      <4>3. Complete(tape[m])
        BY DEF L
      <4>4. Cutoff \in Nat /\ m \in Nat /\ i \in Nat
        BY <1>1, <4>1
      <4>5. Complete(tape[i])
        BY <4>2, <4>3, <4>4 DEF Complete
      <4>6. m - 1 < i
        BY <3>2, <4>4
      <4> QED BY <4>5, <4>6
    <3> QED BY <3>1, <3>2, <1>1
  <2> QED BY <2>2, <2>3, <1>2
<1> QED BY <1>3, <1>4

\* How many trades are before a cursor.
LEMMA PageOpens ==
  ASSUME tape \in Seq(Nat), Sorted, NEW c \in Nat
  PROVE  LET m == 1 + Cardinality({i \in DOMAIN tape : tape[i] < c})
         IN  Opens(m, c) /\ m <= Len(tape) + 1
<1> DEFINE B == {i \in DOMAIN tape : tape[i] < c}
           L == {i \in DOMAIN tape : tape[i] >= c}
<1>1. DOMAIN tape = 1..Len(tape) /\ Len(tape) \in Nat /\ \A i \in DOMAIN tape : tape[i] \in Nat
  OBVIOUS
<1>2. ASSUME NEW k \in 0..Len(tape), B = 1..k
      PROVE  Opens(1 + Cardinality(B), c) /\ 1 + Cardinality(B) <= Len(tape) + 1
  <2>1. \A i \in DOMAIN tape : tape[i] < c <=> i < 1 + k
    BY <1>1, <1>2
  <2>2. k \in Nat /\ Cardinality(1..k) = k
    BY FirstNumbers
  <2> HIDE DEF B
  <2>3. Cardinality(B) = k
    BY <2>2, <1>2, Zenon
  <2>4. Opens(1 + k, c) /\ 1 + k <= Len(tape) + 1
    BY <2>1, <1>1 DEF Opens
  <2> QED BY <2>3, <2>4, Zenon
<1>3. CASE L = {}
  <2>1. B = 1..Len(tape)
    BY <1>3, <1>1
  <2> QED BY <2>1, <1>1, <1>2
<1>4. CASE L # {}
  <2>1. PICK m \in L : \A i \in L : m <= i
    <3>1. L \subseteq Nat
      BY <1>1
    <3> QED BY <1>4, <3>1, LeastNumber
  <2>2. B = 1..(m - 1)
    <3>1. ASSUME NEW i \in DOMAIN tape PROVE tape[i] < c <=> i < m
      <4>1. CASE i < m
        BY <2>1, <4>1, <1>1
      <4>2. CASE m <= i
        BY <4>2, <1>1 DEF Sorted
      <4> QED BY <4>1, <4>2, <1>1
    <3> QED BY <3>1, <1>1
  <2>3. m - 1 \in 0..Len(tape)
    BY <1>1
  <2> QED BY <2>2, <2>3, <1>2
<1> QED BY <1>3, <1>4

\* A page that follows the trades up to l and does not contradict them brings
\* exactly the next ones.
LEMMA PageExtends ==
  ASSUME tape \in Seq(Nat), Sorted, NEW l \in 0..Len(tape), NEW p,
         Follows(p, IF l = 0 THEN 0 ELSE tape[l]), ~Conflict(p, l)
  PROVE  NewTrades(p, l) = (l + 1)..p[2] /\ l < p[2] /\ p[2] \in DOMAIN tape
<1>1. DOMAIN tape = 1..Len(tape) /\ Len(tape) \in Nat /\ \A i \in DOMAIN tape : tape[i] \in Nat
  OBVIOUS
<1>2. /\ p[1] \in Nat \ {0} /\ p[2] \in DOMAIN tape /\ p[1] <= p[2]
  BY DEF Follows, Opens
<1>3. CASE l = 0
  <2>1. Opens(p[1], 0)
    BY <1>3 DEF Follows
  <2>2. 1 \in DOMAIN tape /\ ~(tape[1] < 0)
    BY <1>1, <1>2
  <2>3. p[1] = 1
    BY <2>1, <2>2, <1>2 DEF Opens
  <2> QED BY <2>3, <1>1, <1>2, <1>3 DEF NewTrades
<1>4. CASE l # 0
  <2>1. l \in DOMAIN tape /\ Opens(p[1], tape[l]) /\ tape[p[2]] > tape[l]
    BY <1>4, <1>1 DEF Follows
  <2>2. p[1] <= l
    BY <2>1, <1>1, <1>2 DEF Opens
  <2>3. l < p[2]
    <3>1. p[2] <= l => tape[p[2]] <= tape[l]
      BY <2>1, <1>2 DEF Sorted
    <3>2. tape[p[2]] \in Nat /\ tape[l] \in Nat /\ p[2] \in Nat /\ l \in Nat
      BY <2>1, <1>1, <1>2
    <3> QED BY <2>1, <3>1, <3>2
  <2>4. p[1] = l
    BY <2>2, <2>3, <1>1, <1>2, <1>4 DEF Conflict
  <2> QED BY <2>3, <2>4, <1>2, <1>4 DEF NewTrades
<1> QED BY <1>3, <1>4

\* The early trades among the next ones come after the early ones so far.
LEMMA EarlyExtends ==
  ASSUME tape \in Seq(Nat), Sorted, NEW l \in Nat, NEW m \in 0..Len(tape), l < m
  PROVE  /\ Cardinality(Early(1..m)) =
              Cardinality(Early(1..l)) + Cardinality(Early((l + 1)..m))
         /\ [i \in Early(1..m) |-> i] =
              [i \in Early(1..l) |-> i] \o InOrder(Early((l + 1)..m))
<1>1. l \in 0..Len(tape) /\ m \in Nat
  OBVIOUS
<1>2. PICK k \in 0..l : /\ Early(1..l) = 1..k /\ Cardinality(Early(1..l)) = k
                        /\ \A i \in 1..l : Complete(tape[i]) <=> k < i
  BY <1>1, EarlyPrefix
<1>3. PICK j \in 0..m : /\ Early(1..m) = 1..j /\ Cardinality(Early(1..m)) = j
                        /\ \A i \in 1..m : Complete(tape[i]) <=> j < i
  BY <1>1, EarlyPrefix
<1>4. \A i \in (l + 1)..m : i \in Early((l + 1)..m) <=> i <= j
  <2>1. \A i \in (l + 1)..m : i \in 1..m
    OBVIOUS
  <2>2. \A i \in 1..m : i \in Early(1..m) <=> i <= j
    BY <1>3
  <2> QED BY <2>1, <2>2 DEF Early
<1>5. Early((l + 1)..m) \subseteq (l + 1)..m
  BY DEF Early
<1>6. CASE j <= l
  <2>1. Early((l + 1)..m) = {}
    BY <1>4, <1>5, <1>6
  <2>2. k = j
    <3>1. ASSUME k < j PROVE FALSE
      <4>1. k + 1 \in 1..l /\ k + 1 \in 1..m /\ k < k + 1 /\ ~(j < k + 1)
        BY <3>1, <1>6
      <4> QED BY <4>1, <1>2, <1>3
    <3>2. ASSUME j < k PROVE FALSE
      <4>1. j + 1 \in 1..l /\ j + 1 \in 1..m /\ j < j + 1 /\ ~(k < j + 1)
        BY <3>2
      <4> QED BY <4>1, <1>2, <1>3
    <3> QED BY <3>1, <3>2
  <2>3. Cardinality({}) = 0 /\ InOrder({}) = <<>>
    BY FS_EmptySet DEF InOrder
  <2>4. [i \in 1..k |-> i] = [i \in 1..k |-> i] \o <<>>
    <3>1. [i \in 1..k |-> i] \in Seq(Nat)
      OBVIOUS
    <3> HIDE DEF InOrder
    <3> QED BY <3>1
  <2>5. j = k + 0
    BY <2>2
  <2> QED BY <1>2, <1>3, <2>1, <2>2, <2>3, <2>4, <2>5
<1>7. CASE l < j
  <2>1. Early((l + 1)..m) = (l + 1)..j
    <3>1. \A i \in (l + 1)..j : i \in (l + 1)..m /\ i <= j
      BY <1>7
    <3>2. \A i \in (l + 1)..m : i <= j => i \in (l + 1)..j
      OBVIOUS
    <3> QED BY <1>4, <1>5, <3>1, <3>2
  <2>2. k = l
    <3>1. ASSUME k < l PROVE FALSE
      <4>1. k + 1 \in 1..l /\ k + 1 \in 1..m /\ k < k + 1 /\ ~(j < k + 1)
        BY <3>1, <1>7
      <4> QED BY <4>1, <1>2, <1>3
    <3> QED BY <3>1
  <2>3. Cardinality((l + 1)..j) = j - l
    <3>1. Cardinality((l + 1)..j) = j - (l + 1) + 1
      BY <1>7, IntervalSize
    <3>2. j - (l + 1) + 1 = j - l
      OBVIOUS
    <3> QED BY <3>1, <3>2
  <2>4. InOrder((l + 1)..j) = [n \in 1..(j - l) |-> l + n]
    <3>1. InOrder((l + 1)..j) = [n \in 1..(j - (l + 1) + 1) |-> (l + 1) + n - 1]
      BY <1>7, InOrderOfInterval
    <3>2. j - (l + 1) + 1 = j - l /\ \A n \in 1..(j - l) : (l + 1) + n - 1 = l + n
      OBVIOUS
    <3> QED BY <3>1, <3>2
  <2>5. [i \in 1..j |-> i] = [i \in 1..l |-> i] \o [n \in 1..(j - l) |-> l + n]
    <3>1. j - l \in Nat /\ l + (j - l) = j
      BY <1>7
    <3>2. [i \in 1..(l + (j - l)) |-> i] = [i \in 1..l |-> i] \o [n \in 1..(j - l) |-> l + n]
      BY <3>1, CountOn
    <3> QED BY <3>1, <3>2, Zenon
  <2>6. j = l + (j - l)
    OBVIOUS
  <2> QED BY <1>2, <1>3, <2>1, <2>2, <2>3, <2>4, <2>5, <2>6
<1>8. j <= l \/ l < j
  OBVIOUS
<1> QED BY <1>6, <1>7, <1>8, Zenon

-----------------------------------------------------------------------------
(* What the recursions over the lines compute                              *)

ScanLine(S, n) ==
  {Extend(a, file[n]) :
     a \in {b \in S : Chained(b, file[n]) /\ ~b.complete /\ b.at <= file[n].at}}

ReadLine(S, n) ==
  {[archive |-> Extend(y.archive, file[n]),
    trades  |-> y.trades \o InOrder(Early(NewTrades(file[n].trades, y.archive.last)))] :
      y \in {z \in S : Chained(z.archive, file[n])}}

NothingRead == [archive |-> Empty, trades |-> <<>>]

\* The inspection is defined for every file.
LEMMA ScanUnfolds ==
  ASSUME Len(file) \in Nat
  PROVE  Scan = [n \in 0..Len(file) |-> IF n = 0 THEN {Empty} ELSE ScanLine(Scan[n - 1], n)]
<1> DEFINE Good(r, m) ==
             r = [n \in 0..m |-> IF n = 0 THEN {Empty} ELSE ScanLine(r[n - 1], n)]
           S == {m \in Nat : \E r : Good(r, m)}
<1>1. 0 \in S
  <2> DEFINE r == [n \in 0..0 |-> {Empty}]
  <2>1. Good(r, 0)
    OBVIOUS
  <2> QED BY <2>1
<1>2. ASSUME NEW m \in Nat, m \in S PROVE m + 1 \in S
  <2>1. PICK r : Good(r, m)
    BY <1>2
  <2>2. \A n \in 0..m : r[n] = IF n = 0 THEN {Empty} ELSE ScanLine(r[n - 1], n)
    BY <2>1
  <2> DEFINE q == [n \in 0..(m + 1) |-> IF n <= m THEN r[n] ELSE ScanLine(r[m], n)]
  <2>3. ASSUME NEW n \in 0..(m + 1)
        PROVE  q[n] = IF n = 0 THEN {Empty} ELSE ScanLine(q[n - 1], n)
    <3>1. CASE n = 0
      BY <3>1, <2>2
    <3>2. CASE n # 0 /\ n <= m
      <4>1. q[n] = r[n] /\ q[n - 1] = r[n - 1]
        BY <3>2
      <4>2. r[n] = ScanLine(r[n - 1], n)
        BY <3>2, <2>2
      <4> QED BY <4>1, <4>2, <3>2, Zenon
    <3>3. CASE n = m + 1
      <4>1. q[n - 1] = r[m] /\ q[n] = ScanLine(r[m], n) /\ n # 0
        BY <3>3
      <4> QED BY <4>1, Zenon
    <3> QED BY <3>1, <3>2, <3>3
  <2>4. Good(q, m + 1)
    <3>1. q = [n \in 0..(m + 1) |-> q[n]]
      OBVIOUS
    <3> HIDE DEF q
    <3>2. q = [n \in 0..(m + 1) |-> IF n = 0 THEN {Empty} ELSE ScanLine(q[n - 1], n)]
      BY <2>3, <3>1
    <3> QED BY <3>2
  <2> HIDE DEF Good, q
  <2> QED BY <2>4
<1>3. Len(file) \in S
  <2> HIDE DEF S
  <2> QED BY AllNumbers, <1>1, <1>2
<1>4. PICK r : Good(r, Len(file))
  BY <1>3
<1>5. Scan = CHOOSE f : Good(f, Len(file))
  BY Zenon DEF Scan, ScanLine
<1>6. Good(Scan, Len(file))
  <2> HIDE DEF Good
  <2> QED BY <1>4, <1>5, Zenon
<1> QED BY <1>6

\* So is the reading for every file.
LEMMA ReadingUnfolds ==
  ASSUME Len(file) \in Nat
  PROVE  Reading = [n \in 0..Len(file) |-> IF n = 0 THEN {NothingRead} ELSE ReadLine(Reading[n - 1], n)]
<1> DEFINE Good(r, m) ==
             r = [n \in 0..m |-> IF n = 0 THEN {NothingRead} ELSE ReadLine(r[n - 1], n)]
           S == {m \in Nat : \E r : Good(r, m)}
<1>1. 0 \in S
  <2> DEFINE r == [n \in 0..0 |-> {NothingRead}]
  <2>1. Good(r, 0)
    OBVIOUS
  <2> QED BY <2>1
<1>2. ASSUME NEW m \in Nat, m \in S PROVE m + 1 \in S
  <2>1. PICK r : Good(r, m)
    BY <1>2
  <2>2. \A n \in 0..m : r[n] = IF n = 0 THEN {NothingRead} ELSE ReadLine(r[n - 1], n)
    BY <2>1
  <2> DEFINE q == [n \in 0..(m + 1) |-> IF n <= m THEN r[n] ELSE ReadLine(r[m], n)]
  <2>3. ASSUME NEW n \in 0..(m + 1)
        PROVE  q[n] = IF n = 0 THEN {NothingRead} ELSE ReadLine(q[n - 1], n)
    <3>1. CASE n = 0
      BY <3>1, <2>2
    <3>2. CASE n # 0 /\ n <= m
      <4>1. q[n] = r[n] /\ q[n - 1] = r[n - 1]
        BY <3>2
      <4>2. r[n] = ReadLine(r[n - 1], n)
        BY <3>2, <2>2
      <4> QED BY <4>1, <4>2, <3>2, Zenon
    <3>3. CASE n = m + 1
      <4>1. q[n - 1] = r[m] /\ q[n] = ReadLine(r[m], n) /\ n # 0
        BY <3>3
      <4> QED BY <4>1, Zenon
    <3> QED BY <3>1, <3>2, <3>3
  <2>4. Good(q, m + 1)
    <3>1. q = [n \in 0..(m + 1) |-> q[n]]
      OBVIOUS
    <3> HIDE DEF q
    <3>2. q = [n \in 0..(m + 1) |-> IF n = 0 THEN {NothingRead} ELSE ReadLine(q[n - 1], n)]
      BY <2>3, <3>1
    <3> QED BY <3>2
  <2> HIDE DEF Good, q
  <2> QED BY <2>4
<1>3. Len(file) \in S
  <2> HIDE DEF S
  <2> QED BY AllNumbers, <1>1, <1>2
<1>4. PICK r : Good(r, Len(file))
  BY <1>3
<1>5. Reading = CHOOSE f : Good(f, Len(file))
  BY Zenon DEF Reading, ReadLine, NothingRead
<1>6. Good(Reading, Len(file))
  <2> HIDE DEF Good
  <2> QED BY <1>4, <1>5, Zenon
<1> QED BY <1>6

LEMMA NothingIsArch ==
  ASSUME Evidence
  PROVE  Empty = Arch(0) /\ [i \in Early(1..LastAt(0)) |-> i] = <<>>
<1>1. Early(1..0) = {} /\ Cardinality({}) = 0
  BY FS_EmptySet DEF Early
<1>2. SubSeq(file, 1, 0) = <<>>
  BY SubSeqEmpty
<1>3. Complete(0) = FALSE
  BY DownloadAssumption DEF Complete
<1>4. LastAt(0) = 0 /\ CursorAt(0) = 0 /\ TimeAt(0) = 0
  BY DEF LastAt, CursorAt, TimeAt
<1>5. Empty = Arch(0)
  BY <1>1, <1>2, <1>3, <1>4, Zenon DEF Empty, Arch
<1>6. [i \in {} |-> i] = <<>>
  OBVIOUS
<1> QED BY <1>1, <1>4, <1>5, <1>6, Zenon

\* A line that continues lines which continue each other makes an archive of
\* them with one more page, and its trades are the next ones of the tape.
LEMMA ArchGrows ==
  ASSUME Evidence, NEW n \in 1..Len(file), \A k \in 1..n : Linked(k)
  PROVE  /\ Extend(Arch(n - 1), file[n]) = Arch(n)
         /\ [i \in Early(1..LastAt(n)) |-> i] =
              [i \in Early(1..LastAt(n - 1)) |-> i]
                \o InOrder(Early(NewTrades(file[n].trades, LastAt(n - 1))))
<1>1. Len(file) \in Nat /\ DOMAIN file = 1..Len(file) /\ n # 0 /\ n - 1 \in Nat
  BY DEF Evidence
<1>2. \A k \in 1..n : Genuine(file[k])
  <2>1. \A k \in 1..n : k \in DOMAIN file /\ file[k] # Torn
    BY <1>1 DEF Linked, Chained
  <2> QED BY <2>1 DEF Evidence
<1>3. /\ LastAt(n - 1) \in 0..Len(tape)
      /\ CursorAt(n - 1) = IF LastAt(n - 1) = 0 THEN 0 ELSE tape[LastAt(n - 1)]
  <2>1. CASE n - 1 = 0
    BY <2>1 DEF LastAt, CursorAt, Evidence
  <2>2. CASE n - 1 # 0
    <3>1. n - 1 \in 1..n
      BY <2>2
    <3>2. file[n - 1].trades[2] \in DOMAIN tape
      BY <3>1, <1>2 DEF Genuine, Follows
    <3>3. DOMAIN tape = 1..Len(tape) /\ Len(tape) \in Nat
      BY DEF Evidence
    <3> QED BY <2>2, <3>2, <3>3 DEF LastAt, CursorAt
  <2> QED BY <2>1, <2>2
<1> DEFINE p == file[n].trades
           l == LastAt(n - 1)
<1>4. /\ Follows(p, IF l = 0 THEN 0 ELSE tape[l]) /\ ~Conflict(p, l)
  <2>1. n \in 1..n
    OBVIOUS
  <2>2. file[n].cursor = CursorAt(n - 1) /\ ~Conflict(p, l)
    BY <2>1 DEF Linked, Chained, Arch
  <2>3. Follows(p, file[n].cursor)
    BY <2>1, <1>2 DEF Genuine
  <2> QED BY <1>3, <2>2, <2>3, Zenon
<1>5. NewTrades(p, l) = (l + 1)..p[2] /\ l < p[2] /\ p[2] \in DOMAIN tape
  BY <1>3, <1>4, PageExtends DEF Evidence
<1>6. l \in Nat /\ p[2] \in 0..Len(tape) /\ LastAt(n) = p[2] /\ CursorAt(n) = tape[p[2]]
  BY <1>1, <1>3, <1>5 DEF LastAt, CursorAt, Evidence
<1>7. /\ Cardinality(Early(1..p[2])) = Cardinality(Early(1..l)) + Cardinality(Early((l + 1)..p[2]))
      /\ [i \in Early(1..p[2]) |-> i] =
           [i \in Early(1..l) |-> i] \o InOrder(Early((l + 1)..p[2]))
  BY <1>5, <1>6, EarlyExtends DEF Evidence
<1>8. Append(SubSeq(file, 1, n - 1), file[n]) = SubSeq(file, 1, n)
  <2>1. file \in Seq(LineType \cup {Torn}) /\ \A i \in 1..Len(file) : file[i] \in LineType \cup {Torn}
    BY DEF Evidence
  <2> DEFINE s == SubSeq(file, 1, n - 1)
  <2>2. s \in Seq(LineType \cup {Torn})
    <3>1. \A i \in 1..(n - 1) : file[i] \in LineType \cup {Torn}
      BY <2>1, <1>1
    <3> QED BY <3>1, SubSeqProperties
  <2>3. SubSeq(file, 1, n) = s \o <<file[n]>>
    BY <2>1, SubSeqRecursiveSecond
  <2> HIDE DEF s
  <2>4. Append(s, file[n]) = s \o <<file[n]>>
    BY <2>1, <2>2, AppendIsConcat
  <2> QED BY <2>3, <2>4 DEF s
<1>9. (n - 1) + 1 = n /\ TimeAt(n) = file[n].at
  BY <1>1 DEF TimeAt
<1>10. Arch(n) = [count |-> n, cursor |-> tape[p[2]], included |-> Cardinality(Early(1..p[2])),
                  complete |-> Complete(tape[p[2]]), at |-> file[n].at, last |-> p[2],
                  digest |-> SubSeq(file, 1, n)]
  BY <1>6, <1>9, Zenon DEF Arch
<1>11. Extend(Arch(n - 1), file[n]) =
         [count    |-> (n - 1) + 1,
          cursor   |-> tape[p[2]],
          included |-> Cardinality(Early(1..l)) + Cardinality(Early(NewTrades(p, l))),
          complete |-> Complete(tape[p[2]]),
          at       |-> file[n].at,
          last     |-> p[2],
          digest   |-> Append(SubSeq(file, 1, n - 1), file[n])]
  BY DEF Extend, Arch
<1> HIDE DEF p, l
<1>12. Extend(Arch(n - 1), file[n]) = Arch(n)
  BY <1>5, <1>7, <1>8, <1>9, <1>10, <1>11, Zenon
<1>13. [i \in Early(1..LastAt(n)) |-> i] =
         [i \in Early(1..l) |-> i] \o InOrder(Early(NewTrades(p, l)))
  BY <1>5, <1>6, <1>7, Zenon
<1> QED BY <1>12, <1>13 DEF p, l

\* The inspection of the first n lines finds nothing, or what they amount to.
LEMMA ScanOfLines ==
  ASSUME Evidence, NEW n \in 0..Len(file)
  PROVE  Scan[n] = IF \A k \in 1..n : Links(k) THEN {Arch(n)} ELSE {}
<1> DEFINE Found(m) == IF \A k \in 1..m : Links(k) THEN {Arch(m)} ELSE {}
           S == {m \in Nat : m <= Len(file) => Scan[m] = Found(m)}
<1>1. Len(file) \in Nat
  BY DEF Evidence
<1>2. \A m \in 0..Len(file) : Scan[m] = IF m = 0 THEN {Empty} ELSE ScanLine(Scan[m - 1], m)
  BY <1>1, ScanUnfolds
<1>3. 0 \in S
  <2>1. Scan[0] = {Arch(0)}
    BY <1>1, <1>2, NothingIsArch
  <2>2. Found(0) = {Arch(0)}
    <3>1. \A k \in 1..0 : Links(k)
      OBVIOUS
    <3> QED BY <3>1, Zenon
  <2> HIDE DEF Found
  <2> QED BY <2>1, <2>2
<1>4. ASSUME NEW m \in Nat, m \in S PROVE m + 1 \in S
  <2> SUFFICES ASSUME m + 1 <= Len(file) PROVE Scan[m + 1] = Found(m + 1)
    OBVIOUS
  <2>1. m + 1 \in 0..Len(file) /\ m + 1 # 0 /\ (m + 1) - 1 = m /\ m <= Len(file)
    BY <1>1
  <2>2. Scan[m + 1] = ScanLine(Found(m), m + 1)
    BY <1>2, <1>4, <2>1
  <2>3. (\A k \in 1..(m + 1) : Links(k)) <=> (\A k \in 1..m : Links(k)) /\ Links(m + 1)
    <3>1. \A k \in 1..(m + 1) : k \in 1..m \/ k = m + 1
      OBVIOUS
    <3>2. m + 1 \in 1..(m + 1) /\ \A k \in 1..m : k \in 1..(m + 1)
      OBVIOUS
    <3> QED BY <3>1, <3>2, Zenon
  <2>4. Links(m + 1) <=> /\ Chained(Arch(m), file[m + 1]) /\ ~Arch(m).complete
                         /\ Arch(m).at <= file[m + 1].at
    BY <2>1 DEF Links, Linked, Arch
  <2>5. CASE \A k \in 1..(m + 1) : Links(k)
    <3>1. Found(m) = {Arch(m)} /\ Found(m + 1) = {Arch(m + 1)}
      BY <2>3, <2>5
    <3>2. ScanLine({Arch(m)}, m + 1) = {Extend(Arch(m), file[m + 1])}
      BY <2>3, <2>4, <2>5, Zenon DEF ScanLine
    <3>3. m + 1 \in 1..Len(file) /\ \A k \in 1..(m + 1) : Linked(k)
      BY <2>1, <2>5 DEF Links
    <3>4. Extend(Arch(m), file[m + 1]) = Arch(m + 1)
      BY <2>1, <3>3, ArchGrows
    <3> QED BY <2>2, <3>1, <3>2, <3>4, Zenon
  <2>6. CASE ~\A k \in 1..(m + 1) : Links(k)
    <3>1. Found(m + 1) = {}
      BY <2>6
    <3>2. CASE Links(m + 1)
      <4>1. Found(m) = {}
        BY <2>3, <2>6, <3>2
      <4>2. ScanLine({}, m + 1) = {}
        BY DEF ScanLine
      <4> QED BY <2>2, <3>1, <4>1, <4>2, Zenon
    <3>3. CASE ~Links(m + 1)
      <4>1. Found(m) \subseteq {Arch(m)}
        OBVIOUS
      <4> HIDE DEF Found
      <4>2. ScanLine(Found(m), m + 1) = {}
        BY <2>4, <3>3, <4>1, Zenon DEF ScanLine
      <4> QED BY <2>2, <3>1, <4>2, Zenon
    <3> QED BY <3>2, <3>3
  <2> QED BY <2>5, <2>6
<1>5. n \in S
  <2> HIDE DEF S
  <2>1. Nat \subseteq S
    BY AllNumbers, <1>3, <1>4
  <2> QED BY <2>1, <1>1
<1> QED BY <1>5, <1>1

\* What is read of the first n lines, if each continues the one before it, are
\* the first early trades of the tape.
LEMMA ReadingOfLines ==
  ASSUME Evidence, NEW n \in 0..Len(file)
  PROVE  Reading[n] = IF \A k \in 1..n : Linked(k)
                      THEN {[archive |-> Arch(n), trades |-> [i \in Early(1..LastAt(n)) |-> i]]}
                      ELSE {}
<1> DEFINE Was(m) == [archive |-> Arch(m), trades |-> [i \in Early(1..LastAt(m)) |-> i]]
           Found(m) == IF \A k \in 1..m : Linked(k) THEN {Was(m)} ELSE {}
           S == {m \in Nat : m <= Len(file) => Reading[m] = Found(m)}
<1>1. Len(file) \in Nat
  BY DEF Evidence
<1>2. \A m \in 0..Len(file) :
        Reading[m] = IF m = 0 THEN {NothingRead} ELSE ReadLine(Reading[m - 1], m)
  BY <1>1, ReadingUnfolds
<1>3. 0 \in S
  <2>1. NothingRead = Was(0)
    BY NothingIsArch, Zenon DEF NothingRead
  <2> HIDE DEF Was
  <2>2. Reading[0] = {NothingRead}
    BY <1>1, <1>2
  <2>3. Reading[0] = {Was(0)}
    BY <2>1, <2>2, Zenon
  <2>4. Found(0) = {Was(0)}
    OBVIOUS
  <2> HIDE DEF Found
  <2> QED BY <2>3, <2>4
<1>4. ASSUME NEW m \in Nat, m \in S PROVE m + 1 \in S
  <2> SUFFICES ASSUME m + 1 <= Len(file) PROVE Reading[m + 1] = Found(m + 1)
    OBVIOUS
  <2>1. m + 1 \in 0..Len(file) /\ m + 1 # 0 /\ (m + 1) - 1 = m /\ m <= Len(file)
    BY <1>1
  <2>2. Reading[m + 1] = ReadLine(Found(m), m + 1)
    <3>1. Reading[m] = Found(m)
      BY <1>4, <2>1
    <3> HIDE DEF Found
    <3> QED BY <1>2, <2>1, <3>1
  <2>3. (\A k \in 1..(m + 1) : Linked(k)) <=> (\A k \in 1..m : Linked(k)) /\ Linked(m + 1)
    <3>1. \A k \in 1..(m + 1) : k \in 1..m \/ k = m + 1
      OBVIOUS
    <3>2. m + 1 \in 1..(m + 1) /\ \A k \in 1..m : k \in 1..(m + 1)
      OBVIOUS
    <3> QED BY <3>1, <3>2, Zenon
  <2>4. Linked(m + 1) <=> Chained(Was(m).archive, file[m + 1])
    BY <2>1 DEF Linked
  <2>5. CASE \A k \in 1..(m + 1) : Linked(k)
    <3>1. m + 1 \in 1..Len(file)
      BY <2>1
    <3>2. /\ Extend(Arch(m), file[m + 1]) = Arch(m + 1)
          /\ [i \in Early(1..LastAt(m + 1)) |-> i] =
               [i \in Early(1..LastAt(m)) |-> i]
                 \o InOrder(Early(NewTrades(file[m + 1].trades, LastAt(m))))
      BY <2>1, <2>5, <3>1, ArchGrows
    <3>3. Was(m).archive.last = LastAt(m)
      BY DEF Arch
    <3>4. Was(m).archive = Arch(m) /\ Was(m).trades = [i \in Early(1..LastAt(m)) |-> i]
      OBVIOUS
    <3>5. Was(m + 1) =
            [archive |-> Extend(Was(m).archive, file[m + 1]),
             trades  |-> Was(m).trades
               \o InOrder(Early(NewTrades(file[m + 1].trades, Was(m).archive.last)))]
      BY <3>2, <3>3, <3>4, Zenon
    <3> HIDE DEF Was
    <3>6. Found(m) = {Was(m)} /\ Found(m + 1) = {Was(m + 1)}
      BY <2>3, <2>5
    <3>7. ReadLine({Was(m)}, m + 1) = {Was(m + 1)}
      BY <2>3, <2>4, <2>5, <3>5, Zenon DEF ReadLine
    <3> QED BY <2>2, <3>6, <3>7, Zenon
  <2>6. CASE ~\A k \in 1..(m + 1) : Linked(k)
    <3> HIDE DEF Was
    <3>1. Found(m + 1) = {}
      BY <2>6
    <3>2. CASE Linked(m + 1)
      <4>1. Found(m) = {}
        BY <2>3, <2>6, <3>2
      <4>2. ReadLine({}, m + 1) = {}
        BY DEF ReadLine
      <4> QED BY <2>2, <3>1, <4>1, <4>2, Zenon
    <3>3. CASE ~Linked(m + 1)
      <4>1. Found(m) \subseteq {Was(m)}
        OBVIOUS
      <4> HIDE DEF Found
      <4>2. ReadLine(Found(m), m + 1) = {}
        BY <2>4, <3>3, <4>1, Zenon DEF ReadLine
      <4> QED BY <2>2, <3>1, <4>2, Zenon
    <3> QED BY <3>2, <3>3
  <2> QED BY <2>5, <2>6
<1>5. n \in S
  <2> HIDE DEF S
  <2>1. Nat \subseteq S
    BY AllNumbers, <1>3, <1>4
  <2> QED BY <2>1, <1>1
<1> QED BY <1>5, <1>1

-----------------------------------------------------------------------------
(* The inductive invariant                                                 *)

Line == LineType \cup {Torn}

ArchiveType ==
  [count : Nat, cursor : Nat, included : Nat, complete : BOOLEAN, at : Nat, last : Nat,
   digest : Seq(Line)]

Label == {"rehash", "request", "append", "save", "verify", "read", "manifest"} \cup Stopped

\* What a process knows of the archive is true of the tape.
Sound(a) ==
  /\ a.last \in 0..Len(tape)
  /\ a.cursor = IF a.last = 0 THEN 0 ELSE tape[a.last]
  /\ a.included = Cardinality(Early(1..a.last))
  /\ a.complete = Complete(a.cursor)

ProcsTyped ==
  /\ pc \in [Procs -> Label] /\ attempt \in [Procs -> 0..MaxAttempts]
  /\ archive \in [Procs -> ArchiveType] /\ page \in [Procs -> Nat \X Nat]

\* A line that takes the archive past the cutoff.
Ends(r) == r # Torn /\ Complete(tape[r.trades[2]])

Run(p) ==
  /\ Sound(archive[p])
  /\ pc[p] \in {"rehash", "request", "append"} => ~archive[p].complete
  /\ pc[p] = "append" => /\ Follows(page[p], archive[p].cursor)
                         /\ ~Conflict(page[p], archive[p].last)
  /\ pc[p] \in {"verify", "read", "manifest"} => archive[p].complete
  /\ pc[p] = "read" => \E n \in DOMAIN file : Ends(file[n])

Runs == \A p \in Procs : Run(p)

AtMostOne(S) == \E x : S \subseteq {x}

\* What is published was made of a tape that had passed the cutoff.
Past == \E i \in DOMAIN tape : Complete(tape[i])

Written ==
  /\ AtMostOne(state) /\ AtMostOne(csv) /\ AtMostOne(manifest)
  /\ csv # {} \/ manifest # {} => Past
  /\ \A d \in csv : d = [i \in Early(DOMAIN tape) |-> i]
  /\ \A m \in manifest : m.included = Cardinality(Early(DOMAIN tape))

DownloadInv == Evidence /\ ProcsTyped /\ Runs /\ Written

\* One run at a time goes on where the file ends, whatever was killed before.
Alone == \A p, q \in Procs : pc[p] \notin Stopped /\ pc[q] \notin Stopped => p = q

AllLink == \A n \in DOMAIN file : Links(n)

StateKnown == \A s \in state : \E n \in 0..Len(file) : s = Stored(Arch(n))

Knows(p) == pc[p] \in {"rehash", "request", "append", "save"} => archive[p] = Arch(Len(file))

Resumable ==
  ~shared /\ Intact => Alone /\ AllLink /\ StateKnown /\ \A p \in Procs : Knows(p)

LEMMA EmptyIsSound ==
  ASSUME tape \in Seq(Nat)
  PROVE  Empty \in ArchiveType /\ Sound(Empty) /\ Empty.complete = FALSE
<1>1. Early(1..0) = {} /\ Cardinality({}) = 0
  BY FS_EmptySet DEF Early
<1>2. Complete(0) = FALSE
  BY DownloadAssumption DEF Complete
<1>3. <<>> \in Seq(Line)
  OBVIOUS
<1>4. Empty \in ArchiveType
  BY <1>3 DEF Empty, ArchiveType
<1>5. /\ Empty.last = 0 /\ Empty.cursor = 0 /\ Empty.included = 0 /\ Empty.complete = FALSE
      /\ 0 \in 0..Len(tape)
  BY DEF Empty
<1>6. Sound(Empty)
  BY <1>1, <1>2, <1>5, Zenon DEF Sound
<1> QED BY <1>4, <1>5, <1>6

\* A line that follows another in its archive.
LEMMA LinkedIsGenuine ==
  ASSUME Evidence, NEW k \in 1..Len(file), Linked(k)
  PROVE  Genuine(file[k]) /\ file[k] # Torn
<1>1. k \in DOMAIN file /\ file[k] # Torn
  BY DEF Evidence, Linked, Chained
<1> QED BY <1>1 DEF Evidence

LEMMA ArchIsSound ==
  ASSUME Evidence, NEW n \in 0..Len(file), \A k \in 1..n : Linked(k)
  PROVE  Arch(n) \in ArchiveType /\ Sound(Arch(n))
<1>1. Len(file) \in Nat /\ Len(tape) \in Nat /\ DOMAIN tape = 1..Len(tape)
      /\ \A i \in DOMAIN tape : tape[i] \in Nat
  BY DEF Evidence
<1>2. /\ LastAt(n) \in 0..Len(tape) /\ TimeAt(n) \in Nat /\ CursorAt(n) \in Nat
      /\ CursorAt(n) = IF LastAt(n) = 0 THEN 0 ELSE tape[LastAt(n)]
  <2>1. CASE n = 0
    BY <2>1, <1>1 DEF LastAt, CursorAt, TimeAt
  <2>2. CASE n # 0
    <3>1. n \in 1..n /\ n \in 1..Len(file)
      BY <2>2, <1>1
    <3>2. file[n].trades[2] \in DOMAIN tape /\ file[n].at \in Nat
      BY <3>1, LinkedIsGenuine DEF Genuine, Follows, LineType
    <3> QED BY <2>2, <3>2, <1>1 DEF LastAt, CursorAt, TimeAt
  <2> QED BY <2>1, <2>2
<1>3. Cardinality(Early(1..LastAt(n))) \in Nat
  <2>1. PICK k \in 0..LastAt(n) : Cardinality(Early(1..LastAt(n))) = k
    BY <1>2, EarlyPrefix DEF Evidence
  <2>2. k \in Nat
    BY <1>2
  <2> QED BY <2>1, <2>2
<1>4. SubSeq(file, 1, n) \in Seq(Line)
  <2>1. \A i \in 1..n : file[i] \in Line
    BY <1>1 DEF Evidence, Line
  <2> QED BY <2>1, SubSeqProperties, <1>1
<1>5. Complete(CursorAt(n)) \in BOOLEAN
  BY DEF Complete
<1>6. n \in Nat
  BY <1>1
<1>7. Arch(n) \in ArchiveType
  BY <1>2, <1>3, <1>4, <1>5, <1>6 DEF Arch, ArchiveType
<1> QED BY <1>2, <1>7 DEF Arch, Sound

\* What the inspection finds is what the whole file amounts to.
LEMMA InspectFinds ==
  ASSUME Evidence, NEW a \in Inspect
  PROVE  a = Arch(Len(file)) /\ \A k \in 1..Len(file) : Links(k) /\ Linked(k)
<1>1. Len(file) \in 0..Len(file)
  BY DEF Evidence
<1>2. a \in Scan[Len(file)]
  BY DEF Inspect
<1>3. Scan[Len(file)] = IF \A k \in 1..Len(file) : Links(k) THEN {Arch(Len(file))} ELSE {}
  BY <1>1, ScanOfLines
<1>4. \A k \in 1..Len(file) : Links(k)
  BY <1>2, <1>3
<1>5. a = Arch(Len(file))
  BY <1>2, <1>3, <1>4
<1> QED BY <1>4, <1>5 DEF Links

-----------------------------------------------------------------------------
(* Its initial states and its steps                                        *)

LEMMA InitDownload == Init => DownloadInv /\ Resumable
<1> SUFFICES ASSUME Init PROVE DownloadInv /\ Resumable
  OBVIOUS
<1>1. tape \in Seq(Nat) /\ Sorted /\ Evidence
  BY DEF Init, Sorted, Evidence
<1>2. Empty \in ArchiveType /\ Sound(Empty) /\ Empty.complete = FALSE
  BY <1>1, EmptyIsSound
<1>3. \A p \in Procs : archive[p] = Empty /\ pc[p] = "stopped"
  BY DEF Init
<1>4. ProcsTyped
  BY <1>2, DownloadAssumption DEF Init, ProcsTyped, Label, Stopped, NoPage
<1>5. Runs
  BY <1>2, <1>3 DEF Runs, Run
<1>6. Written
  BY DEF Init, Written, AtMostOne
<1>7. Resumable
  BY <1>3 DEF Init, Resumable, Stopped, Alone, AllLink, StateKnown, Knows
<1> QED BY <1>1, <1>4, <1>5, <1>6, <1>7 DEF DownloadInv

\* A process that ends knows nothing, and the others what they knew.
LEMMA LeaveKeeps ==
  ASSUME Evidence, ProcsTyped, NEW p \in Procs, NEW from, NEW result \in Stopped,
         Leave(p, from, result)
  PROVE  /\ ProcsTyped'
         /\ pc'[p] = result /\ archive'[p] = Empty
         /\ \A q \in Procs \ {p} : /\ pc'[q] = pc[q] /\ archive'[q] = archive[q]
                                   /\ page'[q] = page[q]
<1>1. Empty \in ArchiveType
  BY EmptyIsSound DEF Evidence
<1>2. /\ pc' = [pc EXCEPT ![p] = result] /\ archive' = [archive EXCEPT ![p] = Empty]
      /\ page' = [page EXCEPT ![p] = NoPage] /\ attempt' = [attempt EXCEPT ![p] = 0]
  BY DEF Leave, Goto
<1>3. NoPage \in Nat \X Nat /\ 0 \in 0..MaxAttempts /\ result \in Label
  BY DownloadAssumption DEF NoPage, Label
<1> QED BY <1>1, <1>2, <1>3 DEF ProcsTyped

\* What holds of the lines, of the runs and of what is published depends on the
\* tape, and goes on to hold while it stays as it is.
LEMMA SameTape ==
  ASSUME Evidence, Written, tape' = tape
  PROVE  /\ Sorted' /\ \A a : Sound(a) => Sound(a)'
         /\ \A r : Genuine(r) => Genuine(r)'
         /\ (file' = file => Evidence')
         /\ (UNCHANGED <<state, csv, manifest>> => Written')
<1>1. Sorted'
  BY DEF Evidence, Sorted
<1>2. \A a : Sound(a) => Sound(a)'
  BY DEF Sound, Early, Complete
<1>3. \A r : Genuine(r) => Genuine(r)'
  BY DEF Genuine, Complete, Follows, Opens
<1>4. file' = file => Evidence'
  BY <1>1, <1>3 DEF Evidence
<1>5. UNCHANGED <<state, csv, manifest>> => Written'
  BY DEF Written, Early, Past, Complete
<1> QED BY <1>1, <1>2, <1>3, <1>4, <1>5

Grows == file' = file \/ \E r : file' = Append(file, r)

\* A run goes on while others write.
LEMMA OtherRun ==
  ASSUME Evidence, tape' = tape, Grows, NEW p \in Procs, Run(p),
         pc'[p] = pc[p], archive'[p] = archive[p], page'[p] = page[p]
  PROVE  Run(p)'
<1>1. Sound(archive[p])'
  BY DEF Run, Sound, Early, Complete
<1>2. pc'[p] = "append" => /\ Follows(page[p], archive[p].cursor)'
                           /\ ~Conflict(page[p], archive[p].last)'
  BY DEF Run, Follows, Opens, Conflict
<1>3. ASSUME NEW n \in DOMAIN file, Ends(file[n])
      PROVE  n \in DOMAIN file' /\ Ends(file[n])' 
  <2>1. file \in Seq(LineType \cup {Torn})
    BY DEF Evidence
  <2>2. n \in DOMAIN file' /\ file'[n] = file[n]
    BY <2>1 DEF Grows
  <2>3. tape'[file'[n].trades[2]] = tape[file[n].trades[2]]
    BY <2>2
  <2> QED BY <1>3, <2>2, <2>3 DEF Ends, Complete
<1> QED BY <1>1, <1>2, <1>3 DEF Run

\* A run that ends has nothing to be wrong about.
LEMMA EndedRun ==
  ASSUME Evidence, tape' = tape, NEW p \in Procs, pc'[p] \in Stopped, archive'[p] = Empty
  PROVE  Run(p)'
<1>1. Sound(Empty)'
  <2>1. Sound(Empty)
    BY EmptyIsSound DEF Evidence
  <2> QED BY <2>1 DEF Sound, Early, Complete
<1> QED BY <1>1 DEF Run, Stopped

OthersWait(p) ==
  \A q \in Procs \ {p} : pc'[q] = pc[q] /\ archive'[q] = archive[q] /\ page'[q] = page[q]

LEMMA RunsTogether ==
  ASSUME DownloadInv, tape' = tape, Grows, NEW p \in Procs, Run(p)', OthersWait(p)
  PROVE  Runs'
<1>1. ASSUME NEW q \in Procs \ {p} PROVE Run(q)'
  <2>1. Run(q) /\ Evidence
    BY DEF DownloadInv, Runs
  <2>2. pc'[q] = pc[q] /\ archive'[q] = archive[q] /\ page'[q] = page[q]
    BY DEF OthersWait
  <2> QED BY <2>1, <2>2, OtherRun
<1> QED BY <1>1 DEF Runs

\* The step of a run that ends and writes nothing.
LEMMA LeaveInv ==
  ASSUME DownloadInv, NEW p \in Procs, NEW from, NEW result \in Stopped,
         Leave(p, from, result), UNCHANGED <<tape, disk>>
  PROVE  DownloadInv'
<1>1. /\ ProcsTyped' /\ pc'[p] = result /\ archive'[p] = Empty /\ OthersWait(p)
  BY LeaveKeeps DEF DownloadInv, OthersWait
<1>2. Run(p)'
  BY <1>1, EndedRun DEF DownloadInv
<1>3. Runs'
  BY <1>1, <1>2, RunsTogether DEF Grows, disk
<1> QED BY <1>1, <1>3, SameTape DEF DownloadInv, disk

LEMMA BeginInv ==
  ASSUME DownloadInv, NEW p \in Procs, Begin(p)
  PROVE  DownloadInv'
<1>1. UNCHANGED <<tape, disk>>
  BY DEF Begin
<1>2. CASE Leave(p, pc[p], "failed")
  BY <1>1, <1>2, LeaveInv DEF Stopped
<1>3. ASSUME NEW a \in Inspect,
             archive' = [archive EXCEPT ![p] = a],
             Goto(p, pc[p], IF a.complete THEN "save" ELSE "rehash"),
             UNCHANGED <<page, attempt>>
      PROVE  DownloadInv'
  <2>1. a \in ArchiveType /\ Sound(a)
    <3>1. a = Arch(Len(file)) /\ \A k \in 1..Len(file) : Linked(k)
      BY InspectFinds DEF DownloadInv
    <3>2. Len(file) \in 0..Len(file)
      BY DEF DownloadInv, Evidence
    <3> QED BY <3>1, <3>2, ArchIsSound DEF DownloadInv
  <2>2. ProcsTyped'
    BY <1>3, <2>1 DEF DownloadInv, ProcsTyped, Goto, Label
  <2>3. /\ archive'[p] = a /\ pc'[p] = IF a.complete THEN "save" ELSE "rehash"
        /\ OthersWait(p)
    BY <1>3 DEF DownloadInv, ProcsTyped, Goto, OthersWait
  <2>4. Sound(a)'
    BY <1>1, <2>1, SameTape DEF DownloadInv
  <2>5. Run(p)'
    BY <2>3, <2>4 DEF Run
  <2>6. Runs'
    BY <1>1, <2>3, <2>5, RunsTogether DEF Grows, disk
  <2> QED BY <1>1, <2>2, <2>6, SameTape DEF DownloadInv, disk
<1> QED BY <1>2, <1>3 DEF Begin

LEMMA RehashInv ==
  ASSUME DownloadInv, NEW p \in Procs, Rehash(p)
  PROVE  DownloadInv'
<1>1. UNCHANGED <<tape, disk>> /\ pc[p] = "rehash"
  BY DEF Rehash, Goto
<1>2. archive[p] \in ArchiveType /\ file \in Seq(Line)
  BY DEF DownloadInv, ProcsTyped, Evidence, Line
<1>3. ProcsTyped'
  <2>1. [archive[p] EXCEPT !.digest = file] \in ArchiveType
    BY <1>2 DEF ArchiveType
  <2>2. archive' = [archive EXCEPT ![p] = [archive[p] EXCEPT !.digest = file]]
    BY DEF Rehash
  <2> HIDE DEF ArchiveType
  <2> QED BY <2>1, <2>2 DEF DownloadInv, ProcsTyped, Rehash, Goto, Label
<1>4. /\ pc'[p] = "request" /\ OthersWait(p)
      /\ archive'[p].last = archive[p].last /\ archive'[p].cursor = archive[p].cursor
      /\ archive'[p].included = archive[p].included
      /\ archive'[p].complete = archive[p].complete
  BY <1>2 DEF DownloadInv, ProcsTyped, Rehash, Goto, OthersWait, ArchiveType
<1>5. Sound(archive[p])' /\ ~archive'[p].complete
  BY <1>1, <1>4 DEF DownloadInv, Runs, Run, Sound, Early, Complete
<1>6. Run(p)'
  BY <1>4, <1>5 DEF Run
<1>7. Runs'
  BY <1>1, <1>4, <1>6, RunsTogether DEF Grows, disk
<1> QED BY <1>1, <1>3, <1>7, SameTape DEF DownloadInv, disk

\* Kraken's answer is a page of the tape that follows the archive.
LEMMA AnswerFollows ==
  ASSUME tape \in Seq(Nat), Sorted, NEW c \in Nat, Advances(PageSince(c), c)
  PROVE  Follows(PageSince(c), c)
<1> DEFINE first == 1 + Cardinality({i \in DOMAIN tape : tape[i] < c})
           end == first + PageSize - 1
           last == IF end < Len(tape) THEN end ELSE Len(tape)
<1>1. PageSince(c) = <<first, last>>
  BY DEF PageSince
<1>2. Opens(first, c) /\ first <= Len(tape) + 1
  BY PageOpens
<1>3. first \in Nat \ {0}
  BY <1>2 DEF Opens
<1> HIDE DEF first
<1>4. first <= last /\ tape[last] > c
  BY <1>1 DEF Advances
<1>5. last \in DOMAIN tape /\ last \in Nat
  BY <1>3, <1>4, DownloadAssumption
<1> HIDE DEF last
<1> QED BY <1>1, <1>2, <1>3, <1>4, <1>5 DEF Follows

LEMMA AnswerInv ==
  ASSUME DownloadInv, NEW p \in Procs, Answer(p)
  PROVE  DownloadInv'
<1> DEFINE answer == PageSince(archive[p].cursor)
<1>1. UNCHANGED <<tape, disk>> /\ pc[p] = "request"
  BY DEF Answer, Goto, Leave
<1>2. CASE Leave(p, "request", "failed")
  BY <1>1, <1>2, LeaveInv DEF Stopped
<1>3. CASE /\ Advances(answer, archive[p].cursor) /\ ~Conflict(answer, archive[p].last)
           /\ Goto(p, "request", "append")
           /\ page' = [page EXCEPT ![p] = answer]
           /\ attempt' = [attempt EXCEPT ![p] = 0]
           /\ UNCHANGED archive
  <2>1. archive[p].cursor \in Nat
    BY DEF DownloadInv, ProcsTyped, ArchiveType
  <2>2. Follows(answer, archive[p].cursor)
    BY <1>3, <2>1, AnswerFollows DEF DownloadInv, Evidence
  <2>3. answer \in Nat \X Nat
    BY <2>2 DEF Follows
  <2> HIDE DEF answer
  <2>4. ProcsTyped'
    BY <1>3, <2>3, DownloadAssumption DEF DownloadInv, ProcsTyped, Goto, Label
  <2>5. /\ pc'[p] = "append" /\ page'[p] = answer /\ archive'[p] = archive[p]
        /\ OthersWait(p)
    BY <1>3 DEF DownloadInv, ProcsTyped, Goto, OthersWait
  <2>6. Sound(archive[p])' /\ ~archive'[p].complete
    BY <1>1, <2>5 DEF DownloadInv, Runs, Run, Sound, Early, Complete
  <2>7. Follows(page[p], archive[p].cursor)' /\ ~Conflict(page[p], archive[p].last)'
    BY <1>1, <1>3, <2>2, <2>5 DEF Follows, Opens, Conflict
  <2>8. Run(p)'
    BY <2>5, <2>6, <2>7 DEF Run
  <2>9. Runs'
    BY <1>1, <2>5, <2>8, RunsTogether DEF Grows, disk
  <2> QED BY <1>1, <2>4, <2>9, SameTape DEF DownloadInv, disk
<1> QED BY <1>2, <1>3 DEF Answer

LEMMA RequestFailsInv ==
  ASSUME DownloadInv, NEW p \in Procs, RequestFails(p)
  PROVE  DownloadInv'
<1>1. UNCHANGED <<tape, disk>>
  BY DEF RequestFails
<1>2. CASE Leave(p, "request", "failed")
  BY <1>1, <1>2, LeaveInv DEF Stopped
<1>3. CASE /\ attempt[p] + 1 < MaxAttempts
           /\ Goto(p, "request", "request")
           /\ attempt' = [attempt EXCEPT ![p] = @ + 1]
           /\ UNCHANGED <<archive, page>>
  <2>1. attempt[p] + 1 \in 0..MaxAttempts
    BY <1>3, DownloadAssumption DEF DownloadInv, ProcsTyped
  <2>2. ProcsTyped'
    BY <1>3, <2>1 DEF DownloadInv, ProcsTyped, Goto, Label
  <2>3. pc'[p] = pc[p] /\ page'[p] = page[p] /\ archive'[p] = archive[p] /\ OthersWait(p)
    BY <1>3 DEF DownloadInv, ProcsTyped, Goto, OthersWait
  <2>4. Run(p)'
    BY <1>1, <2>3, OtherRun DEF DownloadInv, Runs, Grows, disk
  <2>5. Runs'
    BY <1>1, <2>3, <2>4, RunsTogether DEF Grows, disk
  <2> QED BY <1>1, <2>2, <2>5, SameTape DEF DownloadInv, disk
<1> QED BY <1>2, <1>3 DEF RequestFails

\* The line of a page that follows the archive can be written.
LEMMA LineToAppend ==
  ASSUME DownloadInv, NEW p \in Procs, pc[p] = "append", NEW at \in Clocks
  PROVE  Genuine(Record(archive[p], page[p], at))
<1> DEFINE r == Record(archive[p], page[p], at)
<1>1. /\ r.index = archive[p].count /\ r.cursor = archive[p].cursor /\ r.trades = page[p]
      /\ r.at = at
  BY DEF Record
<1>2. archive[p].count \in Nat /\ archive[p].cursor \in Nat /\ page[p] \in Nat \X Nat /\ at \in Nat
  BY DownloadAssumption DEF DownloadInv, ProcsTyped, ArchiveType
<1>3. r \in LineType
  BY <1>2 DEF Record, LineType
<1>4. /\ ~archive[p].complete /\ archive[p].complete = Complete(archive[p].cursor)
      /\ Follows(page[p], archive[p].cursor)
  BY DEF DownloadInv, Runs, Run, Sound
<1> HIDE DEF r
<1> QED BY <1>1, <1>3, <1>4, Zenon DEF Genuine, r

LEMMA LineAppended ==
  ASSUME Evidence, tape' = tape, NEW r, r = Torn \/ Genuine(r), file' = Append(file, r)
  PROVE  Evidence'
<1>1. tape' \in Seq(Nat) /\ Sorted'
  BY DEF Evidence, Sorted
<1>2. r \in LineType \cup {Torn} /\ file \in Seq(LineType \cup {Torn})
  BY DEF Genuine, Evidence
<1>3. file' \in Seq(LineType \cup {Torn})
  BY <1>2
<1>4. \A n \in DOMAIN file' : file'[n] = r \/ (n \in DOMAIN file /\ file'[n] = file[n])
  BY <1>2
<1>5. \A n \in DOMAIN file' : file'[n] = Torn \/ Genuine(file'[n])
  BY <1>4 DEF Evidence
<1>6. \A x : Genuine(x) => Genuine(x)'
  BY DEF Genuine, Complete, Follows, Opens
<1>7. \A n \in DOMAIN file' : file'[n] = Torn \/ Genuine(file[n])'
  BY <1>4, <1>5 DEF Genuine, Complete, Follows, Opens
<1> QED BY <1>1, <1>3, <1>7 DEF Evidence

\* One more page, and what the run knows of the archive is true of it again.
LEMMA ExtendIsSound ==
  ASSUME DownloadInv, NEW p \in Procs, pc[p] = "append", NEW at \in Clocks
  PROVE  LET a == Extend(archive[p], Record(archive[p], page[p], at))
         IN  a \in ArchiveType /\ Sound(a)
<1> DEFINE r == Record(archive[p], page[p], at)
           a == Extend(archive[p], r)
           l == archive[p].last
           m == page[p][2]
<1>1. tape \in Seq(Nat) /\ Sorted /\ Len(tape) \in Nat /\ DOMAIN tape = 1..Len(tape)
      /\ \A i \in DOMAIN tape : tape[i] \in Nat
  BY DEF DownloadInv, Evidence
<1>2. archive[p] \in ArchiveType /\ Sound(archive[p])
  BY DEF DownloadInv, ProcsTyped, Runs, Run
<1>3. l \in 0..Len(tape) /\ archive[p].cursor = (IF l = 0 THEN 0 ELSE tape[l])
      /\ archive[p].included = Cardinality(Early(1..l))
  BY <1>2 DEF Sound
<1>4. Follows(page[p], archive[p].cursor) /\ ~Conflict(page[p], l)
  BY DEF DownloadInv, Runs, Run
<1> HIDE DEF l
<1>5. NewTrades(page[p], l) = (l + 1)..m /\ l < m /\ m \in DOMAIN tape
  <2>1. Follows(page[p], IF l = 0 THEN 0 ELSE tape[l])
    BY <1>3, <1>4, Zenon
  <2> QED BY <1>1, <1>3, <1>4, <2>1, PageExtends
<1>6. l \in Nat /\ m \in 0..Len(tape) /\ m \in Nat /\ m # 0 /\ tape[m] \in Nat
  BY <1>1, <1>3, <1>5
<1>7. Cardinality(Early(1..m)) = Cardinality(Early(1..l)) + Cardinality(Early((l + 1)..m))
  BY <1>1, <1>5, <1>6, EarlyExtends
<1>8. PICK k \in 0..m : Cardinality(Early(1..m)) = k
  BY <1>1, <1>6, EarlyPrefix
<1>9. r.trades = page[p] /\ r.at = at /\ at \in Nat
  BY DownloadAssumption DEF Record
<1>10. r \in Line
  BY LineToAppend DEF Genuine, Line
<1> HIDE DEF r
<1>11. a = [count |-> archive[p].count + 1, cursor |-> tape[m],
            included |-> Cardinality(Early(1..l)) + Cardinality(Early(NewTrades(page[p], l))),
            complete |-> Complete(tape[m]), at |-> at, last |-> m,
            digest |-> Append(archive[p].digest, r)]
  BY <1>3, <1>9, Zenon DEF Extend, l
<1> HIDE DEF a, m
<1>12. a.last = m /\ a.cursor = tape[m] /\ a.complete = Complete(tape[m])
       /\ a.included = Cardinality(Early(1..l)) + Cardinality(Early(NewTrades(page[p], l)))
  BY <1>11
<1>13. a.included = Cardinality(Early(1..m))
  BY <1>5, <1>7, <1>12, Zenon
<1>14. Sound(a)
  BY <1>6, <1>12, <1>13, Zenon DEF Sound
<1>15. archive[p].count + 1 \in Nat /\ Append(archive[p].digest, r) \in Seq(Line)
  BY <1>2, <1>10 DEF ArchiveType
<1>16. a.included \in Nat /\ Complete(tape[m]) \in BOOLEAN
  BY <1>8, <1>13 DEF Complete
<1>17. a.count = archive[p].count + 1 /\ a.digest = Append(archive[p].digest, r) /\ a.at = at
       /\ a = [count |-> a.count, cursor |-> a.cursor, included |-> a.included,
               complete |-> a.complete, at |-> a.at, last |-> a.last, digest |-> a.digest]
  BY <1>11
<1>18. a \in ArchiveType
  <2>1. /\ a.count \in Nat /\ a.cursor \in Nat /\ a.included \in Nat /\ a.complete \in BOOLEAN
        /\ a.at \in Nat /\ a.last \in Nat /\ a.digest \in Seq(Line)
    BY <1>6, <1>9, <1>12, <1>15, <1>16, <1>17, Zenon
  <2> QED BY <1>17, <2>1 DEF ArchiveType
<1> QED BY <1>14, <1>18 DEF a, r

LEMMA AppendPageInv ==
  ASSUME DownloadInv, NEW p \in Procs, AppendPage(p)
  PROVE  DownloadInv'
<1>1. /\ UNCHANGED <<tape, state, csv, manifest, attempt>>
      /\ pc[p] = "append" /\ pc' = [pc EXCEPT ![p] = "save"]
      /\ page' = [page EXCEPT ![p] = NoPage]
  BY DEF AppendPage, Goto
<1>2. PICK at \in Clocks :
        /\ file' = Append(file, Record(archive[p], page[p], at))
        /\ archive' = [archive EXCEPT ![p] =
                         Extend(archive[p], Record(archive[p], page[p], at))]
  BY DEF AppendPage
<1>3. /\ Genuine(Record(archive[p], page[p], at))
      /\ Extend(archive[p], Record(archive[p], page[p], at)) \in ArchiveType
      /\ Sound(Extend(archive[p], Record(archive[p], page[p], at)))
  BY <1>1, LineToAppend, ExtendIsSound
<1>4. PICK r, a : /\ Genuine(r) /\ a \in ArchiveType /\ Sound(a)
                  /\ file' = Append(file, r) /\ archive' = [archive EXCEPT ![p] = a]
  BY <1>2, <1>3, Zenon
<1>5. Evidence'
  BY <1>1, <1>4, LineAppended DEF DownloadInv
<1>6. NoPage \in Nat \X Nat
  BY DEF NoPage
<1>7. ProcsTyped'
  BY <1>1, <1>4, <1>6 DEF DownloadInv, ProcsTyped, Label
<1>8. pc'[p] = "save" /\ archive'[p] = a /\ OthersWait(p)
  BY <1>1, <1>4 DEF DownloadInv, ProcsTyped, OthersWait
<1>9. Sound(a)'
  BY <1>1, <1>4 DEF Sound, Early, Complete
<1>10. Run(p)'
  BY <1>8, <1>9 DEF Run
<1>11. Runs'
  BY <1>1, <1>4, <1>8, <1>10, RunsTogether DEF Grows
<1>12. Written'
  BY <1>1, SameTape DEF DownloadInv
<1> QED BY <1>5, <1>7, <1>11, <1>12 DEF DownloadInv

LEMMA SaveStateInv ==
  ASSUME DownloadInv, NEW p \in Procs, SaveState(p)
  PROVE  DownloadInv'
<1>1. UNCHANGED <<tape, file, csv, manifest>> /\ state' = {Stored(archive[p])}
  BY DEF SaveState
<1>2. Evidence' /\ Written'
  <2>1. Evidence'
    BY <1>1, SameTape DEF DownloadInv
  <2>2. AtMostOne(state)'
    BY <1>1 DEF AtMostOne
  <2>3. (csv' # {} \/ manifest' # {} => Past') /\ AtMostOne(csv)' /\ AtMostOne(manifest)'
    BY <1>1 DEF DownloadInv, Written, Past, Complete, AtMostOne
  <2>4. /\ \A d \in csv' : d = [i \in Early(DOMAIN tape)' |-> i]
        /\ \A m \in manifest' : m.included = Cardinality(Early(DOMAIN tape)')
    BY <1>1 DEF DownloadInv, Written, Early
  <2> QED BY <2>1, <2>2, <2>3, <2>4 DEF Written
<1>3. CASE Leave(p, "save", "saved")
  <2>1. /\ ProcsTyped' /\ pc'[p] = "saved" /\ archive'[p] = Empty /\ OthersWait(p)
    BY <1>3, LeaveKeeps DEF DownloadInv, OthersWait, Stopped
  <2>2. Run(p)'
    BY <1>1, <2>1, EndedRun DEF DownloadInv, Stopped
  <2>3. Runs'
    BY <1>1, <2>1, <2>2, RunsTogether DEF Grows
  <2> QED BY <1>2, <2>1, <2>3 DEF DownloadInv
<1>4. CASE /\ Goto(p, "save", IF archive[p].complete THEN "verify" ELSE "request")
           /\ UNCHANGED <<archive, page, attempt>>
  <2>1. ProcsTyped'
    BY <1>4 DEF DownloadInv, ProcsTyped, Goto, Label
  <2>2. /\ pc'[p] = IF archive[p].complete THEN "verify" ELSE "request"
        /\ archive'[p] = archive[p] /\ OthersWait(p)
    BY <1>4 DEF DownloadInv, ProcsTyped, Goto, OthersWait
  <2>3. Sound(archive[p])'
    BY <1>1, <2>2 DEF DownloadInv, Runs, Run, Sound, Early, Complete
  <2>4. archive[p].complete \in BOOLEAN
    BY DEF DownloadInv, ProcsTyped, ArchiveType
  <2>5. Run(p)'
    BY <2>2, <2>3, <2>4 DEF Run
  <2>6. Runs'
    BY <1>1, <2>2, <2>5, RunsTogether DEF Grows
  <2> QED BY <1>2, <2>1, <2>6 DEF DownloadInv
<1> QED BY <1>3, <1>4 DEF SaveState

LEMMA VerifyInv ==
  ASSUME DownloadInv, NEW p \in Procs, Verify(p)
  PROVE  DownloadInv'
<1>1. UNCHANGED <<tape, disk>>
  BY DEF Verify
<1>2. CASE Leave(p, "verify", "failed")
  BY <1>1, <1>2, LeaveInv DEF Stopped
<1>3. ASSUME NEW a \in Inspect, a.complete,
             Goto(p, "verify", "read"), UNCHANGED <<archive, page, attempt>>
      PROVE  DownloadInv'
  <2>1. a = Arch(Len(file)) /\ \A k \in 1..Len(file) : Linked(k)
    BY InspectFinds DEF DownloadInv
  <2>2. Complete(CursorAt(Len(file)))
    BY <1>3, <2>1 DEF Arch
  <2>3. Len(file) # 0
    <3>1. ASSUME Len(file) = 0 PROVE FALSE
      <4>1. Complete(0)
        BY <2>2, <3>1 DEF CursorAt
      <4> QED BY <4>1, DownloadAssumption DEF Complete
    <3> QED BY <3>1
  <2>4. Len(file) \in DOMAIN file /\ Len(file) \in 1..Len(file)
    BY <2>3 DEF DownloadInv, Evidence
  <2>5. Ends(file[Len(file)])
    BY <2>1, <2>2, <2>3, <2>4 DEF Ends, CursorAt, Linked, Chained
  <2>6. ProcsTyped'
    BY <1>3 DEF DownloadInv, ProcsTyped, Goto, Label
  <2>7. /\ pc'[p] = "read" /\ archive'[p] = archive[p] /\ OthersWait(p)
        /\ archive[p].complete
    BY <1>3 DEF DownloadInv, ProcsTyped, Runs, Run, Goto, OthersWait
  <2>8. Sound(archive[p])'
    BY <1>1, <2>7 DEF DownloadInv, Runs, Run, Sound, Early, Complete
  <2>9. \E n \in DOMAIN file' : Ends(file[n])'
    BY <1>1, <2>4, <2>5 DEF Ends, Complete, disk
  <2>10. Run(p)'
    BY <2>7, <2>8, <2>9 DEF Run
  <2>11. Runs'
    BY <1>1, <2>7, <2>10, RunsTogether DEF Grows, disk
  <2> QED BY <1>1, <2>6, <2>11, SameTape DEF DownloadInv, disk
<1> QED BY <1>2, <1>3 DEF Verify

\* Past the cutoff there is no early trade.
LEMMA EarlyEnds ==
  ASSUME tape \in Seq(Nat), Sorted, NEW l \in DOMAIN tape, Complete(tape[l])
  PROVE  Past /\ Early(1..l) = Early(DOMAIN tape)
<1>1. DOMAIN tape = 1..Len(tape) /\ Len(tape) \in Nat
  OBVIOUS
<1>2. \A i \in DOMAIN tape : tape[i] < Cutoff => i \in 1..l
  <2> SUFFICES ASSUME NEW i \in DOMAIN tape, l < i PROVE ~(tape[i] < Cutoff)
    BY <1>1
  <2>1. tape[l] <= tape[i] /\ tape[i] \in Nat /\ tape[l] \in Nat
    BY <1>1 DEF Sorted
  <2> QED BY <2>1, DownloadAssumption DEF Complete
<1>3. \A i \in 1..l : i \in DOMAIN tape
  BY <1>1
<1> QED BY <1>2, <1>3 DEF Early, Past

\* No line follows one that takes the archive past the cutoff, and the early
\* trades up to there are all early trades.
LEMMA ReadToTheEnd ==
  ASSUME Evidence, NEW n \in DOMAIN file, Ends(file[n]), NEW d \in Yielded
  PROVE  Past /\ d = [i \in Early(DOMAIN tape) |-> i]
<1>1. /\ Len(file) \in Nat /\ DOMAIN file = 1..Len(file) /\ tape \in Seq(Nat)
      /\ DOMAIN tape = 1..Len(tape) /\ Len(tape) \in Nat /\ Sorted
  BY DEF Evidence
<1>2. PICK y \in Reading[Len(file)] : d = y.trades
  BY DEF Yielded
<1> DEFINE N == Len(file)
<1>3. /\ \A k \in 1..N : Linked(k)
      /\ y = [archive |-> Arch(N), trades |-> [i \in Early(1..LastAt(N)) |-> i]]
  <2>1. N \in 0..N
    BY <1>1
  <2>2. Reading[N] = IF \A k \in 1..N : Linked(k)
                     THEN {[archive |-> Arch(N), trades |-> [i \in Early(1..LastAt(N)) |-> i]]}
                     ELSE {}
    BY <2>1, ReadingOfLines
  <2> QED BY <1>2, <2>2
<1>4. d = [i \in Early(1..LastAt(N)) |-> i]
  BY <1>2, <1>3
<1>5. n = N
  <2>1. ASSUME n < N PROVE FALSE
    <3>1. n + 1 \in 1..N /\ n + 1 \in DOMAIN file /\ (n + 1) - 1 = n /\ n # 0
      BY <1>1, <2>1
    <3>2. file[n + 1] # Torn /\ file[n + 1].cursor = CursorAt(n)
      BY <1>3, <3>1 DEF Linked, Chained, Arch
    <3>3. Genuine(file[n + 1])
      BY <3>1, <3>2 DEF Evidence
    <3>4. Complete(CursorAt(n))
      BY <3>1 DEF Ends, CursorAt
    <3> QED BY <3>2, <3>3, <3>4 DEF Genuine
  <2> QED BY <2>1, <1>1
<1>6. N # 0 /\ LastAt(N) = file[n].trades[2] /\ Complete(tape[LastAt(N)])
  BY <1>1, <1>5 DEF LastAt, Ends
<1>7. LastAt(N) \in DOMAIN tape
  BY <1>6 DEF Evidence, Ends, Genuine, Follows
<1> HIDE DEF N
<1>8. Past /\ Early(1..LastAt(N)) = Early(DOMAIN tape)
  BY <1>1, <1>6, <1>7, EarlyEnds
<1> QED BY <1>4, <1>8, Zenon
LEMMA WriteCsvInv ==
  ASSUME DownloadInv, NEW p \in Procs, WriteCsv(p)
  PROVE  DownloadInv'
<1>1. UNCHANGED <<tape, file, state, manifest>> /\ pc[p] = "read"
  BY DEF WriteCsv, Goto, Leave
<1>2. CASE Leave(p, "read", "failed") /\ UNCHANGED csv
  BY <1>1, <1>2, LeaveInv DEF Stopped, disk
<1>3. CASE /\ Yielded \ {<<>>} # {}
           /\ Goto(p, "read", "manifest")
           /\ csv' = Yielded \ {<<>>}
           /\ UNCHANGED <<archive, page, attempt>>
  <2>1. PICK n \in DOMAIN file : Ends(file[n])
    BY <1>1 DEF DownloadInv, Runs, Run
  <2>2. \A d \in Yielded : Past /\ d = [i \in Early(DOMAIN tape) |-> i]
    BY <2>1, ReadToTheEnd DEF DownloadInv
  <2>3. Past /\ csv' \subseteq {[i \in Early(DOMAIN tape) |-> i]}
    BY <1>3, <2>2
  <2>4. Past' /\ Early(DOMAIN tape)' = Early(DOMAIN tape)
    BY <1>1, <2>3 DEF Past, Complete, Early
  <2>5. Written'
    <3>1. AtMostOne(csv)' /\ AtMostOne(state)' /\ AtMostOne(manifest)'
      BY <1>1, <2>3 DEF AtMostOne, DownloadInv, Written
    <3>2. \A d \in csv' : d = [i \in Early(DOMAIN tape)' |-> i]
      BY <2>3, <2>4
    <3>3. \A m \in manifest' : m.included = Cardinality(Early(DOMAIN tape)')
      BY <1>1, <2>4 DEF DownloadInv, Written
    <3> QED BY <2>4, <3>1, <3>2, <3>3 DEF Written
  <2>6. ProcsTyped'
    BY <1>3 DEF DownloadInv, ProcsTyped, Goto, Label
  <2>7. /\ pc'[p] = "manifest" /\ archive'[p] = archive[p] /\ OthersWait(p)
        /\ archive[p].complete
    BY <1>3 DEF DownloadInv, ProcsTyped, Runs, Run, Goto, OthersWait
  <2>8. Sound(archive[p])'
    BY <1>1, <2>7 DEF DownloadInv, Runs, Run, Sound, Early, Complete
  <2>9. Run(p)'
    BY <2>7, <2>8 DEF Run
  <2>10. Runs'
    BY <1>1, <2>7, <2>9, RunsTogether DEF Grows
  <2>11. Evidence'
    BY <1>1, SameTape DEF DownloadInv
  <2> QED BY <2>5, <2>6, <2>10, <2>11 DEF DownloadInv
<1> QED BY <1>2, <1>3 DEF WriteCsv

LEMMA WriteManifestInv ==
  ASSUME DownloadInv, NEW p \in Procs, WriteManifest(p)
  PROVE  DownloadInv'
<1>1. /\ UNCHANGED <<tape, file, state, csv>> /\ Leave(p, "manifest", "done")
      /\ manifest' = {[included |-> archive[p].included, raw |-> archive[p].digest]}
  BY DEF WriteManifest
<1> DEFINE l == archive[p].last
<1>2. /\ l \in 0..Len(tape) /\ archive[p].included = Cardinality(Early(1..l))
      /\ archive[p].cursor = (IF l = 0 THEN 0 ELSE tape[l]) /\ Complete(archive[p].cursor)
  BY <1>1 DEF DownloadInv, Runs, Run, Sound, Leave, Goto
<1>3. l # 0
  BY <1>2, DownloadAssumption DEF Complete
<1>4. l \in DOMAIN tape /\ Complete(tape[l])
  BY <1>2, <1>3 DEF DownloadInv, Evidence
<1>5. Past /\ Early(1..l) = Early(DOMAIN tape)
  BY <1>4, EarlyEnds DEF DownloadInv, Evidence
<1>6. archive[p].included = Cardinality(Early(DOMAIN tape))
  BY <1>2, <1>5, Zenon
<1>7. Past' /\ Early(DOMAIN tape)' = Early(DOMAIN tape)
  BY <1>1, <1>5 DEF Past, Complete, Early
<1>8. Written'
  <2>1. AtMostOne(csv)' /\ AtMostOne(state)' /\ AtMostOne(manifest)'
    BY <1>1 DEF AtMostOne, DownloadInv, Written
  <2>2. \A d \in csv' : d = [i \in Early(DOMAIN tape)' |-> i]
    BY <1>1, <1>7 DEF DownloadInv, Written
  <2>3. \A m \in manifest' : m.included = Cardinality(Early(DOMAIN tape)')
    BY <1>1, <1>6, <1>7
  <2> QED BY <1>7, <2>1, <2>2, <2>3 DEF Written
<1>9. /\ ProcsTyped' /\ pc'[p] = "done" /\ archive'[p] = Empty /\ OthersWait(p)
  BY <1>1, LeaveKeeps DEF DownloadInv, OthersWait, Stopped
<1>10. Run(p)'
  BY <1>1, <1>9, EndedRun DEF DownloadInv, Stopped
<1>11. Runs'
  BY <1>1, <1>9, <1>10, RunsTogether DEF Grows
<1>12. Evidence'
  BY <1>1, SameTape DEF DownloadInv
<1> QED BY <1>8, <1>9, <1>11, <1>12 DEF DownloadInv

LEMMA CrashInv ==
  ASSUME DownloadInv, NEW p \in Procs, Crash(p)
  PROVE  DownloadInv'
<1>1. UNCHANGED <<tape, state, csv, manifest>> /\ Leave(p, pc[p], "stopped")
  BY DEF Crash
<1>2. /\ ProcsTyped' /\ pc'[p] = "stopped" /\ archive'[p] = Empty /\ OthersWait(p)
  BY <1>1, LeaveKeeps DEF DownloadInv, OthersWait, Stopped
<1>3. Run(p)'
  BY <1>1, <1>2, EndedRun DEF DownloadInv, Stopped
<1>4. Written'
  BY <1>1, SameTape DEF DownloadInv
<1>5. CASE UNCHANGED file
  BY <1>1, <1>2, <1>3, <1>4, <1>5, SameTape, RunsTogether DEF DownloadInv, Grows
<1>6. CASE /\ pc[p] = "append"
           /\ \E at \in Clocks : file' \in {Append(file, Torn),
                                            Append(file, Record(archive[p], page[p], at))}
  <2>1. PICK r : (r = Torn \/ Genuine(r)) /\ file' = Append(file, r)
    BY <1>6, LineToAppend
  <2>2. Evidence'
    BY <1>1, <2>1, LineAppended DEF DownloadInv
  <2>3. Runs'
    BY <1>1, <1>2, <1>3, <2>1, RunsTogether DEF Grows
  <2> QED BY <1>2, <1>4, <2>2, <2>3 DEF DownloadInv
<1> QED BY <1>5, <1>6 DEF Crash

LEMMA TradeInv ==
  ASSUME DownloadInv, Trade
  PROVE  DownloadInv'
<1>1. UNCHANGED <<disk, pc, archive, page, attempt>>
  BY DEF Trade
<1>2. PICK t : /\ t \in {IF tape = <<>> THEN 1 ELSE tape[Len(tape)],
                         (IF tape = <<>> THEN 1 ELSE tape[Len(tape)]) + 1}
               /\ tape' = Append(tape, t)
  BY DEF Trade
<1>3. tape \in Seq(Nat) /\ Sorted /\ DOMAIN tape = 1..Len(tape) /\ Len(tape) \in Nat
      /\ \A i \in DOMAIN tape : tape[i] \in Nat
  BY DEF DownloadInv, Evidence
<1>4. t \in Nat /\ \A i \in DOMAIN tape : tape[i] <= t
  <2>1. CASE tape = <<>>
    BY <1>2, <2>1
  <2>2. CASE tape # <<>>
    <3>1. Len(tape) \in DOMAIN tape
      BY <1>3, <2>2, EmptySeq
    <3>2. \A i \in DOMAIN tape : tape[i] <= tape[Len(tape)]
      BY <1>3, <3>1 DEF Sorted
    <3> QED BY <1>2, <1>3, <2>2, <3>1, <3>2
  <2> QED BY <2>1, <2>2
<1>5. /\ tape' \in Seq(Nat) /\ Len(tape') = Len(tape) + 1 /\ DOMAIN tape' = 1..(Len(tape) + 1)
      /\ tape'[Len(tape) + 1] = t /\ \A i \in DOMAIN tape : tape'[i] = tape[i]
  BY <1>2, <1>3, <1>4
<1>6. \A i \in DOMAIN tape' : i \in DOMAIN tape \/ i = Len(tape) + 1
  BY <1>3, <1>5
<1>7. Sorted'
  <2> SUFFICES ASSUME NEW i \in DOMAIN tape', NEW j \in DOMAIN tape', i <= j
               PROVE  tape'[i] <= tape'[j]
    BY DEF Sorted
  <2>1. CASE j \in DOMAIN tape
    BY <2>1, <1>3, <1>5 DEF Sorted
  <2>2. CASE j = Len(tape) + 1
    BY <2>2, <1>4, <1>5, <1>6
  <2> QED BY <2>1, <2>2, <1>6
<1>8. \A S \in SUBSET DOMAIN tape : Early(S)' = Early(S)
  BY <1>5 DEF Early
<1>9. \A a : Sound(a) => Sound(a)'
  <2> SUFFICES ASSUME NEW a, Sound(a) PROVE Sound(a)'
    OBVIOUS
  <2>1. a.last \in 0..Len(tape) /\ a.last \in 0..Len(tape') /\ (a.last # 0 => a.last \in DOMAIN tape)
        /\ 1..a.last \in SUBSET DOMAIN tape
    BY <1>3, <1>5 DEF Sound
  <2>2. a.cursor = IF a.last = 0 THEN 0 ELSE tape'[a.last]
    BY <2>1, <1>5 DEF Sound
  <2>3. a.included = Cardinality(Early(1..a.last)')
    BY <2>1, <1>8 DEF Sound
  <2>4. a.complete = Complete(a.cursor)
    BY DEF Sound
  <2> QED BY <2>1, <2>2, <2>3, <2>4 DEF Sound, Complete
<1>10. ASSUME NEW p, NEW c \in Nat, Follows(p, c) PROVE Follows(p, c)'
  <2>1. /\ p \in Nat \X Nat /\ p[1] <= p[2] /\ p[2] \in DOMAIN tape /\ tape[p[2]] > c
        /\ p[1] \in Nat \ {0} /\ \A i \in DOMAIN tape : tape[i] < c <=> i < p[1]
    BY <1>10 DEF Follows, Opens
  <2>2. tape[p[2]] \in Nat /\ tape[p[2]] <= t /\ p[2] <= Len(tape) /\ p[2] \in Nat
    BY <2>1, <1>3, <1>4
  <2>3. ~(t < c) /\ ~(Len(tape) + 1 < p[1])
    BY <2>1, <2>2, <1>3, <1>4
  <2>4. \A i \in DOMAIN tape' : tape'[i] < c <=> i < p[1]
    BY <2>1, <2>3, <1>5, <1>6
  <2>5. p[2] \in DOMAIN tape' /\ tape'[p[2]] > c
    BY <2>1, <1>3, <1>5
  <2> QED BY <2>1, <2>4, <2>5 DEF Follows, Opens
<1>11. \A r : Genuine(r) => Genuine(r)'
  <2> SUFFICES ASSUME NEW r, Genuine(r) PROVE Genuine(r)'
    OBVIOUS
  <2>1. r \in LineType /\ ~Complete(r.cursor) /\ Follows(r.trades, r.cursor) /\ r.cursor \in Nat
    BY DEF Genuine, LineType
  <2>2. Follows(r.trades, r.cursor)'
    BY <2>1, <1>10
  <2> QED BY <2>1, <2>2 DEF Genuine, Complete
<1>12. Evidence'
  BY <1>1, <1>5, <1>7, <1>11 DEF DownloadInv, Evidence, disk
<1>13. ProcsTyped'
  BY <1>1 DEF DownloadInv, ProcsTyped
<1>14. Runs'
  <2> SUFFICES ASSUME NEW p \in Procs PROVE Run(p)'
    BY DEF Runs
  <2>1. Run(p) /\ archive[p].cursor \in Nat
    BY DEF DownloadInv, Runs, ProcsTyped, ArchiveType
  <2>2. Sound(archive[p])'
    BY <2>1, <1>1, <1>9 DEF Run
  <2>3. pc[p] = "append" => /\ Follows(page[p], archive[p].cursor)'
                            /\ ~Conflict(page[p], archive[p].last)'
    BY <2>1, <1>1, <1>10 DEF Run, Conflict
  <2>4. ASSUME NEW n \in DOMAIN file, Ends(file[n]) PROVE Ends(file[n])'
    <3>1. file[n] # Torn /\ Genuine(file[n]) /\ Complete(tape[file[n].trades[2]])
      BY <2>4 DEF Ends, DownloadInv, Evidence
    <3>2. tape'[file[n].trades[2]] = tape[file[n].trades[2]]
      BY <3>1, <1>5 DEF Genuine, Follows
    <3> QED BY <3>1, <3>2, <1>1 DEF Ends, Complete, disk
  <2> QED BY <2>1, <2>2, <2>3, <2>4, <1>1 DEF Run, disk
<1>15. ASSUME Past PROVE Past' /\ Early(DOMAIN tape)' = Early(DOMAIN tape)
  <2>1. PICK i \in DOMAIN tape : Complete(tape[i])
    BY <1>15 DEF Past
  <2>2. Complete(t)
    BY <2>1, <1>3, <1>4, DownloadAssumption DEF Complete
  <2>3. Past'
    <3>1. Len(tape) + 1 \in DOMAIN tape' /\ Complete(tape'[Len(tape) + 1])
      BY <2>2, <1>3, <1>5
    <3> QED BY <3>1 DEF Past, Complete
  <2>4. ~(t < Cutoff)
    BY <2>2, <1>4, DownloadAssumption DEF Complete
  <2> QED BY <2>3, <2>4, <1>3, <1>5, <1>6 DEF Early
<1>16. Written'
  <2>1. AtMostOne(csv)' /\ AtMostOne(state)' /\ AtMostOne(manifest)'
    BY <1>1 DEF AtMostOne, DownloadInv, Written, disk
  <2>2. CASE csv # {} \/ manifest # {}
    <3>1. Past' /\ Early(DOMAIN tape)' = Early(DOMAIN tape)
      BY <2>2, <1>15 DEF DownloadInv, Written
    <3> QED BY <1>1, <2>1, <3>1 DEF DownloadInv, Written, disk
  <2>3. CASE csv = {} /\ manifest = {}
    BY <1>1, <2>1, <2>3 DEF Written, disk
  <2> QED BY <2>2, <2>3
<1> QED BY <1>12, <1>13, <1>14, <1>16 DEF DownloadInv

LEMMA InvStep == DownloadInv /\ [Next]_vars => DownloadInv'
<1> SUFFICES ASSUME DownloadInv, [Next]_vars PROVE DownloadInv'
  OBVIOUS
<1>1. CASE UNCHANGED vars
  <2>1. Evidence' /\ Written'
    BY <1>1, SameTape DEF DownloadInv, vars, disk
  <2>2. ProcsTyped'
    BY <1>1 DEF DownloadInv, ProcsTyped, vars
  <2>3. Runs'
    BY <1>1, OtherRun DEF DownloadInv, Runs, vars, disk, Grows
  <2> QED BY <2>1, <2>2, <2>3 DEF DownloadInv
<1>2. CASE Trade
  BY <1>2, TradeInv
<1>3. ASSUME NEW p \in Procs, Begin(p) \/ Step(p) \/ Crash(p) PROVE DownloadInv'
  BY <1>3, BeginInv, RehashInv, AnswerInv, RequestFailsInv, AppendPageInv, SaveStateInv,
     VerifyInv, WriteCsvInv, WriteManifestInv, CrashInv DEF Step
<1> QED BY <1>1, <1>2, <1>3 DEF Next

\* The tape and the archive, the runs and what is published fit each other.
THEOREM DownloadInvariant == Spec => []DownloadInv
<1>1. Init => DownloadInv
  BY InitDownload
<1> QED BY <1>1, InvStep, PTL DEF Spec

\* Whatever is written as the dataset is Kraken's tape up to the cutoff, and its
\* manifest counts it, for any number of runs and pages of any size.
THEOREM PublishedIsTheTape == Spec => []DatasetIsTheTape
<1>1. DownloadInv => DatasetIsTheTape
  <2> SUFFICES ASSUME DownloadInv, NEW d \in csv PROVE
                 /\ d = [i \in Early(DOMAIN tape) |-> i]
                 /\ \A m \in manifest : m.included = Len(d)
    BY DEF DatasetIsTheTape
  <2>1. /\ d = [i \in Early(DOMAIN tape) |-> i]
        /\ \A m \in manifest : m.included = Cardinality(Early(DOMAIN tape))
    BY DEF DownloadInv, Written
  <2>2. Len(tape) \in 0..Len(tape) /\ DOMAIN tape = 1..Len(tape)
    BY DEF DownloadInv, Evidence
  <2>3. PICK k \in 0..Len(tape) : /\ Early(1..Len(tape)) = 1..k
                                  /\ Cardinality(Early(1..Len(tape))) = k
    BY <2>2, EarlyPrefix DEF DownloadInv, Evidence
  <2>4. Early(DOMAIN tape) = 1..k /\ Cardinality(Early(DOMAIN tape)) = k
    BY <2>2, <2>3, Zenon
  <2>5. d = [i \in 1..k |-> i]
    BY <2>1, <2>4, Zenon
  <2>6. k \in Nat /\ Len(d) = k
    BY <2>5
  <2> QED BY <2>1, <2>4, <2>6, Zenon
<1> QED BY <1>1, DownloadInvariant, PTL

\* The types, and one state file, dataset and manifest at most.
THEOREM DownloadTypes == Spec => []TypeOK
<1>1. DownloadInv => TypeOK
  <2> SUFFICES ASSUME DownloadInv PROVE TypeOK
    OBVIOUS
  <2>1. ASSUME NEW S, AtMostOne(S) PROVE Cardinality(S) <= 1
    <3>1. PICK x : S \subseteq {x}
      BY <2>1 DEF AtMostOne
    <3>2. IsFiniteSet({x}) /\ Cardinality({x}) = 1
      BY FS_Singleton
    <3> QED BY <3>1, <3>2, FS_Subset
  <2>2. Cardinality(state) <= 1 /\ Cardinality(csv) <= 1 /\ Cardinality(manifest) <= 1
    BY <2>1 DEF DownloadInv, Written
  <2>3. ASSUME NEW p \in Procs
        PROVE  archive[p].included <= Cardinality(Early(DOMAIN tape))
    <3> DEFINE l == archive[p].last
    <3>1. /\ tape \in Seq(Nat) /\ Sorted /\ Len(tape) \in Nat /\ DOMAIN tape = 1..Len(tape)
          /\ l \in 0..Len(tape) /\ archive[p].included = Cardinality(Early(1..l))
      BY DEF DownloadInv, Evidence, Runs, Run, Sound
    <3> HIDE DEF l
    <3>2. IsFiniteSet(Early(1..Len(tape)))
      <4>1. Len(tape) \in 0..Len(tape)
        BY <3>1
      <4> QED BY <3>1, <4>1, EarlyPrefix
    <3>3. Early(1..l) \subseteq Early(1..Len(tape))
      BY <3>1 DEF Early
    <3>4. Cardinality(Early(1..l)) <= Cardinality(Early(1..Len(tape)))
      BY <3>2, <3>3, FS_Subset
    <3> QED BY <3>1, <3>4
  <2> QED BY <2>2, <2>3 DEF DownloadInv, ProcsTyped, Evidence, TypeOK, Label
<1> QED BY <1>1, DownloadInvariant, PTL

-----------------------------------------------------------------------------
(* Runs are resumed                                                        *)

Later == DOMAIN tape \subseteq DOMAIN tape' /\ \A i \in DOMAIN tape : tape'[i] = tape[i]

\* Growing files and tapes change nothing about the lines that are there.
LEMMA SameLines ==
  ASSUME Evidence, Torn \notin Lines, Later, Grows, NEW n \in 0..Len(file)
  PROVE  /\ n \in 0..Len(file') /\ Arch(n)' = Arch(n)
         /\ n # 0 => file'[n] = file[n] /\ Links(n)' = Links(n)
<1>1. /\ Len(file) \in Nat /\ DOMAIN file = 1..Len(file)
      /\ Len(file') \in Nat /\ Len(file) <= Len(file')
      /\ \A k \in 1..Len(file) : file'[k] = file[k]
  <2>1. file \in Seq(Line)
    BY DEF Evidence, Line
  <2>2. CASE file' = file
    BY <2>1, <2>2
  <2>3. ASSUME NEW r, file' = Append(file, r)
        PROVE  /\ Len(file') = Len(file) + 1
               /\ \A k \in 1..Len(file) : file'[k] = file[k]
    <3>1. file \in Seq(Line \cup {r})
      BY <2>1
    <3> QED BY <3>1, <2>3
  <2>4. Len(file) \in Nat /\ DOMAIN file = 1..Len(file)
    BY <2>1
  <2> QED BY <2>2, <2>3, <2>4 DEF Grows
<1>2. n \in Nat /\ n \in 0..Len(file')
  BY <1>1
<1>3. ASSUME NEW m \in 0..Len(file)
      PROVE  /\ LastAt(m) \in 0..Len(tape) /\ LastAt(m)' = LastAt(m)
             /\ CursorAt(m)' = CursorAt(m) /\ TimeAt(m)' = TimeAt(m)
  <2>1. CASE m = 0
    BY <2>1 DEF LastAt, CursorAt, TimeAt, Evidence
  <2>2. CASE m # 0
    <3>1. m \in DOMAIN file /\ file'[m] = file[m]
      BY <1>1, <2>2
    <3>2. Genuine(file[m])
      BY <3>1 DEF Evidence, Lines
    <3>3. file[m].trades[2] \in DOMAIN tape
      BY <3>2 DEF Genuine, Follows
    <3>4. tape'[file[m].trades[2]] = tape[file[m].trades[2]]
      BY <3>3 DEF Later
    <3> QED BY <2>2, <3>1, <3>3, <3>4 DEF LastAt, CursorAt, TimeAt, Evidence
  <2> QED BY <2>1, <2>2
<1>4. ASSUME NEW m \in 0..Len(file) PROVE Arch(m)' = Arch(m)
  <2>1. Early(1..LastAt(m))' = Early(1..LastAt(m))
    <3>1. 1..LastAt(m) \subseteq DOMAIN tape
      BY <1>3 DEF Evidence
    <3>2. \A i \in 1..LastAt(m) : tape'[i] = tape[i]
      BY <3>1 DEF Later
    <3> QED BY <1>3, <3>2 DEF Early
  <2>2. SubSeq(file', 1, m) = SubSeq(file, 1, m)
    <3>1. m \in Nat /\ \A k \in 1..m : file'[k] = file[k]
      BY <1>1
    <3> QED BY <3>1, <1>1
  <2>3. /\ LastAt(m)' = LastAt(m)
        /\ CursorAt(m)' = CursorAt(m) /\ TimeAt(m)' = TimeAt(m)
    BY <1>3
  <2> QED BY <2>1, <2>2, <2>3 DEF Arch, Complete
<1>5. ASSUME n # 0 PROVE file'[n] = file[n] /\ Links(n)' = Links(n)
  <2>1. n - 1 \in 0..Len(file) /\ n \in 1..Len(file)
    BY <1>5, <1>2
  <2>2. file'[n] = file[n]
    BY <2>1, <1>1
  <2>3. /\ Arch(n - 1)' = Arch(n - 1)
        /\ CursorAt(n - 1)' = CursorAt(n - 1) /\ TimeAt(n - 1)' = TimeAt(n - 1)
    BY <2>1, <1>3, <1>4
  <2> QED BY <2>2, <2>3 DEF Links, Linked, Complete, Chained, Conflict
<1> QED BY <1>2, <1>4, <1>5

Growth ==
  \A n \in 1..Len(file) : (\A k \in 1..n : Linked(k)) => Extend(Arch(n - 1), file[n]) = Arch(n)

\* ArchGrows of the next state.
LEMMA NextArchGrows == Evidence' => Growth'
<1>1. Evidence => Growth
  BY ArchGrows DEF Growth
<1> QED BY <1>1, PTL

\* A broken line is never mended.
LEMMA IntactBefore == Evidence /\ Grows /\ Intact' => Intact
<1> SUFFICES ASSUME Evidence, Grows, Intact' PROVE Intact
  OBVIOUS
<1>1. /\ DOMAIN file \subseteq DOMAIN file' /\ \A k \in DOMAIN file : file'[k] = file[k]
  BY DEF Evidence, Grows
<1> QED BY <1>1 DEF Intact, Lines

\* What is said of the lines and of the state file, while neither is written.
LEMMA RestStays ==
  ASSUME Evidence, Intact, AllLink, StateKnown, Later, UNCHANGED <<file, state>>
  PROVE  /\ AllLink' /\ StateKnown'
         /\ \A p \in Procs : Knows(p) /\ pc'[p] = pc[p] /\ archive'[p] = archive[p] => Knows(p)'
<1>1. Torn \notin Lines /\ Grows /\ Len(file) \in Nat /\ DOMAIN file = 1..Len(file)
  BY DEF Intact, Grows, Evidence
<1>2. \A n \in 0..Len(file) : Arch(n)' = Arch(n) /\ (n # 0 => Links(n)' = Links(n))
  BY <1>1, SameLines
<1>3. AllLink'
  <2>1. \A n \in DOMAIN file : n \in 0..Len(file) /\ n # 0
    BY <1>1
  <2> QED BY <2>1, <1>2 DEF AllLink
<1>4. StateKnown'
  <2>1. \A n \in 0..Len(file) : Stored(Arch(n))' = Stored(Arch(n))
    BY <1>2 DEF Stored
  <2> QED BY <2>1 DEF StateKnown
<1>5. Arch(Len(file))' = Arch(Len(file))
  <2>1. Len(file) \in 0..Len(file)
    BY <1>1
  <2> QED BY <2>1, <1>2
<1> QED BY <1>3, <1>4, <1>5 DEF Knows

\* The line of the run that knows where the file ends continues it.
LEMMA PageLinks ==
  ASSUME DownloadInv, DownloadInv', Intact, Intact', AllLink, StateKnown,
         NEW p \in Procs, Knows(p), pc[p] = "append", NEW r,
         r = Record(archive[p], page[p], r.at), file' = Append(file, r),
         UNCHANGED <<tape, state>>
  PROVE  AllLink' /\ StateKnown' /\ Arch(Len(file))' = Extend(archive[p], r)
<1>0. PICK N : N = Len(file)
  OBVIOUS
<1>1. /\ Torn \notin Lines /\ Grows /\ Later /\ N \in Nat /\ DOMAIN file = 1..N
  BY <1>0 DEF Intact, Grows, Later, DownloadInv, Evidence
<1>2. \A n \in 0..N : Arch(n)' = Arch(n) /\ (n # 0 => Links(n)' = Links(n))
  BY <1>0, <1>1, SameLines DEF DownloadInv
<1>3. Len(file') = N + 1 /\ file'[N + 1] = r /\ DOMAIN file' = 1..(N + 1)
      /\ \A k \in 1..N : file'[k] = file[k]
  <2>1. file \in Seq(Line \cup {r})
    BY DEF DownloadInv, Evidence, Line
  <2> QED BY <1>0, <2>1
<1>4. archive[p] = Arch(N)
  BY <1>0 DEF Knows
<1>5. /\ r.index = archive[p].count /\ r.cursor = archive[p].cursor /\ r.trades = page[p]
  BY DEF Record
<1>6. r # Torn
  BY <1>1, <1>3 DEF Intact, Lines
<1>7. Chained(Arch(N), r)
  BY <1>4, <1>5, <1>6 DEF Chained, DownloadInv, Runs, Run
<1>8. ~Complete(CursorAt(N))
  <2>1. ~archive[p].complete
    BY DEF DownloadInv, Runs, Run
  <2> QED BY <1>4, <2>1 DEF Arch
<1>9. TimeAt(N) <= r.at
  <2>1. CASE N = 0
    <3>1. Genuine(r)'
      BY <1>3, <1>6 DEF DownloadInv, Evidence
    <3>2. r.at \in Nat
      BY <3>1 DEF Genuine, LineType
    <3> QED BY <2>1, <3>2 DEF TimeAt
  <2>2. CASE N # 0
    <3>1. N \in DOMAIN file' /\ N + 1 \in DOMAIN file' /\ N < N + 1 /\ file'[N] = file[N]
      BY <2>2, <1>1, <1>3
    <3>2. file'[N].at <= file'[N + 1].at
      BY <3>1 DEF Intact
    <3> QED BY <2>2, <3>1, <3>2, <1>3 DEF TimeAt
  <2> QED BY <2>1, <2>2
<1>10. Arch(N)' = Arch(N) /\ TimeAt(N)' = TimeAt(N) /\ CursorAt(N)' = CursorAt(N)
  <2>1. N \in 0..N
    BY <1>1
  <2>2. Arch(N)' = Arch(N)
    BY <2>1, <1>2
  <2>3. Arch(N).at = TimeAt(N) /\ Arch(N).cursor = CursorAt(N)
        /\ Arch(N).at' = TimeAt(N)' /\ Arch(N).cursor' = CursorAt(N)'
    BY DEF Arch
  <2> QED BY <2>2, <2>3
<1>11. N + 1 # 0 /\ (N + 1) - 1 = N
  BY <1>1
<1>12. Links(N + 1)'
  BY <1>3, <1>7, <1>8, <1>9, <1>10, <1>11 DEF Links, Linked, Chained, Conflict, Complete
<1>13. AllLink'
  <2>1. \A n \in DOMAIN file' : n = N + 1 \/ (n \in 0..N /\ n # 0 /\ n \in DOMAIN file)
    BY <1>1, <1>3
  <2> QED BY <2>1, <1>2, <1>12 DEF AllLink
<1>14. StateKnown'
  <2>1. \A n \in 0..N : n \in 0..Len(file') /\ Stored(Arch(n))' = Stored(Arch(n))
    BY <1>1, <1>2, <1>3 DEF Stored
  <2> QED BY <2>1, <1>0 DEF StateKnown
<1>15. Arch(N + 1)' = Extend(Arch(N), r)
  <2>1. Evidence'
    BY DEF DownloadInv
  <2>2. Growth'
    BY <2>1, NextArchGrows
  <2>3. N + 1 \in 1..Len(file') /\ \A k \in 1..(N + 1) : k \in DOMAIN file'
    BY <1>1, <1>3
  <2>4. \A k \in 1..(N + 1) : Linked(k)'
    BY <2>3, <1>13 DEF AllLink, Links
  <2>5. Extend(Arch((N + 1) - 1), file[N + 1])' = Arch(N + 1)'
    BY <2>2, <2>3, <2>4 DEF Growth
  <2>6. Extend(Arch((N + 1) - 1), file[N + 1])' = Extend(Arch(N), r)
    BY <1>3, <1>10, <1>11 DEF Extend, Early, Complete
  <2> QED BY <2>5, <2>6
<1> QED BY <1>3, <1>4, <1>13, <1>14, <1>15

\* All that a step of another kind than AppendPage leaves to show.
Quiet == UNCHANGED <<tape, file, state>> /\ shared' = shared

LEMMA QuietStep ==
  ASSUME DownloadInv, Intact, ~shared, Alone, AllLink, StateKnown,
         NEW p \in Procs, OthersWait(p), UNCHANGED <<tape, file>>, pc[p] \notin Stopped,
         \A q \in Procs : Knows(q)
  PROVE  /\ Alone' /\ AllLink' /\ (UNCHANGED state => StateKnown')
         /\ Arch(Len(file))' = Arch(Len(file)) /\ \A q \in Procs \ {p} : Knows(q)'
<1>1. Torn \notin Lines /\ Grows /\ Later /\ Len(file) \in 0..Len(file)
      /\ \A n \in DOMAIN file : n \in 0..Len(file) /\ n # 0
  BY DEF Intact, Grows, Later, DownloadInv, Evidence
<1>2. \A n \in 0..Len(file) : Arch(n)' = Arch(n) /\ (n # 0 => Links(n)' = Links(n))
  BY <1>1, SameLines DEF DownloadInv
<1>3. AllLink'
  BY <1>1, <1>2 DEF AllLink
<1>4. ASSUME UNCHANGED state PROVE StateKnown'
  <2>1. \A n \in 0..Len(file) : Stored(Arch(n))' = Stored(Arch(n))
    BY <1>2 DEF Stored
  <2> QED BY <2>1, <1>4 DEF StateKnown
<1>5. Alone' /\ \A q \in Procs \ {p} : pc'[q] \in Stopped
  BY DEF Alone, OthersWait
<1>6. \A q \in Procs \ {p} : Knows(q)'
  BY <1>5 DEF Knows, Stopped
<1> QED BY <1>1, <1>2, <1>3, <1>4, <1>5, <1>6

LEMMA ResumableStep ==
  DownloadInv /\ DownloadInv' /\ Resumable /\ [Next]_vars => Resumable'
<1> SUFFICES ASSUME DownloadInv, DownloadInv', Resumable, [Next]_vars, ~shared', Intact'
             PROVE  Alone' /\ AllLink' /\ StateKnown' /\ \A q \in Procs : Knows(q)'
  BY DEF Resumable
<1> USE DEF Resumable
<1>1. ASSUME UNCHANGED <<file, state, pc, archive, shared>>, Later
      PROVE  Alone' /\ AllLink' /\ StateKnown' /\ \A q \in Procs : Knows(q)'
  <2>1. Intact /\ ~shared /\ Alone /\ AllLink /\ StateKnown /\ \A q \in Procs : Knows(q)
    BY <1>1 DEF Intact, Lines
  <2>2. Alone'
    BY <1>1, <2>1 DEF Alone
  <2> QED BY <1>1, <2>1, <2>2, RestStays DEF DownloadInv
<1>2. CASE UNCHANGED vars
  BY <1>1, <1>2 DEF vars, disk, Later
<1>3. CASE Trade
  <2>1. PICK t : tape' = Append(tape, t)
    BY <1>3 DEF Trade
  <2>2. Later
    <3>1. tape \in Seq(Nat \cup {t})
      BY DEF DownloadInv, Evidence
    <3>2. /\ DOMAIN tape \subseteq DOMAIN Append(tape, t)
          /\ \A i \in DOMAIN tape : Append(tape, t)[i] = tape[i]
      <4> HIDE DEF Resumable
      <4> QED BY <3>1
    <3> QED BY <2>1, <3>2, Zenon DEF Later
  <2> QED BY <1>1, <1>3, <2>2 DEF Trade, disk
<1>4. ASSUME NEW p \in Procs, Begin(p)
      PROVE  Alone' /\ AllLink' /\ StateKnown' /\ \A q \in Procs : Knows(q)'
  <2>1. UNCHANGED <<tape, file, state>> /\ ~shared
        /\ \A q \in Procs \ {p} : pc[q] \in Stopped
    BY <1>4 DEF Begin, disk
  <2>2. Intact /\ Alone /\ AllLink /\ StateKnown /\ Later
    BY <2>1 DEF Intact, Lines, Later
  <2>3. AllLink' /\ StateKnown' /\ Arch(Len(file))' = Arch(Len(file))
    <3>1. Torn \notin Lines /\ Grows /\ Len(file) \in 0..Len(file)
      BY <2>1, <2>2 DEF Intact, Grows, DownloadInv, Evidence
    <3>2. Arch(Len(file))' = Arch(Len(file))
      BY <2>1, <2>2, <3>1, SameLines DEF DownloadInv
    <3> QED BY <2>1, <2>2, <3>2, RestStays DEF DownloadInv
  <2>4. \A q \in Procs \ {p} : pc'[q] = pc[q]
    BY <1>4 DEF Begin, Goto, Leave, DownloadInv, ProcsTyped
  <2>5. Alone'
    BY <2>1, <2>4 DEF Alone
  <2>6. \A q \in Procs \ {p} : Knows(q)'
    BY <2>1, <2>4 DEF Knows, Stopped
  <2>7. CASE Leave(p, pc[p], "failed")
    <3>1. pc'[p] = "failed"
      BY <2>7 DEF Leave, Goto, DownloadInv, ProcsTyped
    <3> QED BY <2>3, <2>5, <2>6, <3>1 DEF Knows
  <2>8. ASSUME NEW a \in Inspect, archive' = [archive EXCEPT ![p] = a]
        PROVE  Knows(p)'
    <3>1. archive'[p] = a
      BY <2>8 DEF DownloadInv, ProcsTyped
    <3>2. a = Arch(Len(file))
      BY <2>8, InspectFinds DEF DownloadInv
    <3> QED BY <2>3, <3>1, <3>2 DEF Knows
  <2> QED BY <1>4, <2>3, <2>5, <2>6, <2>7, <2>8 DEF Begin
<1>5. ASSUME NEW p \in Procs, pc[p] \notin Stopped, shared' = shared, OthersWait(p),
             UNCHANGED <<tape, file, state>>,
             pc'[p] \in {"rehash", "request", "append", "save"} =>
               /\ pc[p] \in {"rehash", "request", "append", "save"}
               /\ archive'[p] = archive[p]
      PROVE  Alone' /\ AllLink' /\ StateKnown' /\ \A q \in Procs : Knows(q)'
  <2>1. Intact /\ ~shared /\ Alone /\ AllLink /\ StateKnown /\ \A q \in Procs : Knows(q)
    BY <1>5 DEF Intact, Lines
  <2>2. /\ Alone' /\ AllLink' /\ StateKnown' /\ Arch(Len(file))' = Arch(Len(file))
        /\ \A q \in Procs \ {p} : Knows(q)'
    BY <1>5, <2>1, QuietStep
  <2>3. Knows(p)'
    BY <1>5, <2>1, <2>2 DEF Knows
  <2> QED BY <2>2, <2>3
<1>6. ASSUME NEW p \in Procs, NEW from, from \notin Stopped, NEW result \in Stopped,
             Leave(p, from, result), UNCHANGED <<tape, file, state, shared>>
      PROVE  Alone' /\ AllLink' /\ StateKnown' /\ \A q \in Procs : Knows(q)'
  <2>1. pc'[p] = result /\ OthersWait(p)
    BY <1>6, LeaveKeeps DEF DownloadInv, OthersWait
  <2>2. pc[p] = from
    BY <1>6 DEF Leave, Goto
  <2> QED BY <1>5, <1>6, <2>1, <2>2 DEF Stopped
<1> HIDE DEF Resumable
<1>7. ASSUME NEW p \in Procs, Rehash(p)
      PROVE  Alone' /\ AllLink' /\ StateKnown' /\ \A q \in Procs : Knows(q)'
  <2>1. UNCHANGED <<tape, file, state, shared>> /\ pc[p] = "rehash" /\ OthersWait(p)
    BY <1>7 DEF Rehash, Goto, disk, OthersWait, DownloadInv, ProcsTyped
  <2>2. archive[p] = Arch(Len(file))
    BY <2>1 DEF Resumable, Intact, Lines, Knows
  <2>3. file \in Seq(Line)
    BY DEF DownloadInv, Evidence, Line
  <2>4. SubSeq(file, 1, Len(file)) = file
    BY <2>3, SubSeqFull
  <2>5. archive[p] \in ArchiveType /\ archive[p].digest = file
    <3>1. Arch(Len(file)).digest = SubSeq(file, 1, Len(file))
      BY DEF Arch
    <3>2. archive[p].digest = file
      BY <2>2, <2>4, <3>1, Zenon
    <3> QED BY <3>2 DEF DownloadInv, ProcsTyped
  <2>6. archive'[p] = archive[p]
    <3>1. archive'[p] = [archive[p] EXCEPT !.digest = file]
      BY <1>7 DEF Rehash, DownloadInv, ProcsTyped
    <3>2. [archive[p] EXCEPT !.digest = archive[p].digest] = archive[p]
      BY <2>5 DEF ArchiveType
    <3> QED BY <2>5, <3>1, <3>2, Zenon
  <2> QED BY <1>5, <2>1, <2>6 DEF Stopped
<1>8. ASSUME NEW p \in Procs, Answer(p) \/ RequestFails(p) \/ Verify(p)
      PROVE  Alone' /\ AllLink' /\ StateKnown' /\ \A q \in Procs : Knows(q)'
  <2>1. UNCHANGED <<tape, file, state, shared>> /\ pc[p] \in {"request", "verify"}
    BY <1>8 DEF Answer, RequestFails, Verify, Goto, Leave, disk
  <2>2. CASE Leave(p, pc[p], "failed")
    BY <1>6, <2>1, <2>2 DEF Stopped
  <2>3. CASE /\ archive' = archive
             /\ \/ Goto(p, "request", "append") /\ page' = [page EXCEPT ![p] = PageSince(archive[p].cursor)]
                \/ Goto(p, "request", "request") /\ page' = page
                \/ Goto(p, "verify", "read") /\ page' = page
    <3>1. OthersWait(p) /\ archive'[p] = archive[p] /\ (pc'[p] = "read" \/ pc[p] = "request")
      BY <2>3 DEF Goto, OthersWait, DownloadInv, ProcsTyped
    <3> QED BY <1>5, <2>1, <3>1 DEF Stopped
  <2> QED BY <1>8, <2>1, <2>2, <2>3 DEF Answer, RequestFails, Verify, Leave, Goto
<1>9. ASSUME NEW p \in Procs, WriteCsv(p) \/ WriteManifest(p)
      PROVE  Alone' /\ AllLink' /\ StateKnown' /\ \A q \in Procs : Knows(q)'
  <2>1. UNCHANGED <<tape, file, state, shared>> /\ pc[p] \in {"read", "manifest"}
    BY <1>9 DEF WriteCsv, WriteManifest, Goto, Leave
  <2>2. CASE Leave(p, "read", "failed") \/ Leave(p, "manifest", "done")
    BY <1>6, <2>1, <2>2 DEF Stopped
  <2>3. CASE Goto(p, "read", "manifest") /\ UNCHANGED <<archive, page>>
    <3>1. OthersWait(p) /\ archive'[p] = archive[p] /\ pc'[p] = "manifest"
      BY <2>3 DEF Goto, OthersWait, DownloadInv, ProcsTyped
    <3> QED BY <1>5, <2>1, <3>1 DEF Stopped
  <2> QED BY <1>9, <2>2, <2>3 DEF WriteCsv, WriteManifest
<1>10. ASSUME NEW p \in Procs, SaveState(p)
       PROVE  Alone' /\ AllLink' /\ StateKnown' /\ \A q \in Procs : Knows(q)'
  <2>1. UNCHANGED <<tape, file, shared>> /\ pc[p] = "save" /\ state' = {Stored(archive[p])}
    BY <1>10 DEF SaveState, Goto, Leave
  <2>2. Intact /\ ~shared /\ Alone /\ AllLink /\ StateKnown /\ \A q \in Procs : Knows(q)
    BY <2>1 DEF Intact, Lines, Resumable
  <2>3. /\ OthersWait(p)
        /\ pc'[p] \in {"rehash", "request", "append", "save"} => archive'[p] = archive[p]
    <3>1. CASE Leave(p, "save", "saved")
      <4>1. pc'[p] = "saved" /\ OthersWait(p)
        BY <3>1, LeaveKeeps DEF DownloadInv, OthersWait, Stopped
      <4> QED BY <4>1
    <3>2. CASE /\ Goto(p, "save", IF archive[p].complete THEN "verify" ELSE "request")
               /\ UNCHANGED <<archive, page, attempt>>
      BY <3>2 DEF Goto, OthersWait, DownloadInv, ProcsTyped
    <3> QED BY <1>10, <3>1, <3>2 DEF SaveState
  <2>4. /\ Alone' /\ AllLink' /\ Arch(Len(file))' = Arch(Len(file))
        /\ \A q \in Procs \ {p} : Knows(q)'
    BY <2>1, <2>2, <2>3, QuietStep DEF Stopped
  <2>5. archive[p] = Arch(Len(file))
    BY <2>1, <2>2 DEF Knows
  <2>6. Knows(p)'
    BY <2>3, <2>4, <2>5 DEF Knows
  <2>7. StateKnown'
    <3>1. state' = {Stored(Arch(Len(file)))'}
      BY <2>1, <2>4, <2>5 DEF Stored
    <3>2. Len(file') \in 0..Len(file')
      BY DEF DownloadInv, Evidence
    <3> QED BY <3>1, <3>2 DEF StateKnown
  <2> QED BY <2>4, <2>6, <2>7
<1>11. ASSUME NEW p \in Procs, pc[p] = "append", NEW at \in Clocks,
              file' = Append(file, Record(archive[p], page[p], at)),
              UNCHANGED <<tape, state, shared>>, OthersWait(p)
       PROVE  /\ Alone' /\ AllLink' /\ StateKnown' /\ \A q \in Procs \ {p} : Knows(q)'
              /\ Arch(Len(file))' = Extend(archive[p], Record(archive[p], page[p], at))
  <2>1. Grows
    BY <1>11 DEF Grows
  <2>2. Intact
    BY <2>1, IntactBefore DEF DownloadInv
  <2>3. ~shared /\ Alone /\ AllLink /\ StateKnown /\ Knows(p)
    BY <1>11, <2>2 DEF Resumable
  <2>4. PICK r : r = Record(archive[p], page[p], at)
    OBVIOUS
  <2>5. r = Record(archive[p], page[p], r.at) /\ file' = Append(file, r)
    BY <1>11, <2>4 DEF Record
  <2>6. AllLink' /\ StateKnown' /\ Arch(Len(file))' = Extend(archive[p], r)
    BY <1>11, <2>2, <2>3, <2>5, PageLinks
  <2>7. Alone' /\ \A q \in Procs \ {p} : pc'[q] \in Stopped
    BY <1>11, <2>3 DEF Alone, OthersWait, Stopped
  <2>8. \A q \in Procs \ {p} : Knows(q)'
    BY <2>7 DEF Knows, Stopped
  <2> QED BY <2>4, <2>6, <2>7, <2>8
<1>12. ASSUME NEW p \in Procs, AppendPage(p)
       PROVE  Alone' /\ AllLink' /\ StateKnown' /\ \A q \in Procs : Knows(q)'
  <2>1. UNCHANGED <<tape, state, shared>> /\ pc[p] = "append" /\ OthersWait(p)
    BY <1>12 DEF AppendPage, Goto, OthersWait, DownloadInv, ProcsTyped
  <2>2. PICK at \in Clocks :
          /\ file' = Append(file, Record(archive[p], page[p], at))
          /\ archive' = [archive EXCEPT ![p] =
                           Extend(archive[p], Record(archive[p], page[p], at))]
    BY <1>12 DEF AppendPage
  <2>3. archive'[p] = Extend(archive[p], Record(archive[p], page[p], at))
    BY <2>2 DEF DownloadInv, ProcsTyped
  <2>4. /\ Alone' /\ AllLink' /\ StateKnown' /\ \A q \in Procs \ {p} : Knows(q)'
        /\ Arch(Len(file))' = Extend(archive[p], Record(archive[p], page[p], at))
    BY <1>11, <2>1, <2>2
  <2> QED BY <2>3, <2>4 DEF Knows
<1>13. ASSUME NEW p \in Procs, Crash(p)
       PROVE  Alone' /\ AllLink' /\ StateKnown' /\ \A q \in Procs : Knows(q)'
  <2>1. /\ UNCHANGED <<tape, state, shared>> /\ pc[p] \notin Stopped
        /\ Leave(p, pc[p], "stopped") /\ "stopped" \in Stopped
    BY <1>13 DEF Crash, Stopped
  <2>2. pc'[p] = "stopped" /\ OthersWait(p)
    BY <2>1, LeaveKeeps DEF DownloadInv, OthersWait
  <2>3. CASE UNCHANGED file
    BY <1>6, <2>1, <2>3
  <2>4. CASE /\ pc[p] = "append"
             /\ \E at \in Clocks : file' \in {Append(file, Torn),
                                              Append(file, Record(archive[p], page[p], at))}
    <3>1. ASSUME file' = Append(file, Torn) PROVE FALSE
      <4>1. file \in Seq(Line) /\ Torn \in Line
        BY DEF DownloadInv, Evidence, Line
      <4>2. Len(file) + 1 \in DOMAIN file' /\ file'[Len(file) + 1] = Torn
        BY <3>1, <4>1
      <4>3. Torn \in Lines'
        BY <4>2 DEF Lines
      <4> QED BY <4>3 DEF Intact
    <3>2. PICK at \in Clocks : file' = Append(file, Record(archive[p], page[p], at))
      BY <2>4, <3>1
    <3>3. Alone' /\ AllLink' /\ StateKnown' /\ \A q \in Procs \ {p} : Knows(q)'
      BY <1>11, <2>1, <2>2, <2>4, <3>2
    <3>4. Knows(p)'
      BY <2>2 DEF Knows
    <3> QED BY <3>3, <3>4
  <2> QED BY <1>13, <2>3, <2>4 DEF Crash
<1> QED BY <1>2, <1>3, <1>4, <1>7, <1>8, <1>9, <1>10, <1>12, <1>13 DEF Next, Step

\* One run at a time always goes on where the file ends: the archive that a run
\* knows, the state file and the lines stay of one piece, whatever was killed.
THEOREM RunsGoOn == Spec => []Resumable
<1>1. Init => DownloadInv /\ Resumable
  BY InitDownload
<1> QED BY <1>1, InvStep, ResumableStep, PTL DEF Spec

\* A rerun gets as far as the last page whose line is whole, whatever was killed
\* between the archive and its state file.
THEOREM CrashesAreResumed == Spec => []CrashLeavesResumable
<1>1. DownloadInv /\ Resumable => CrashLeavesResumable
  <2> SUFFICES ASSUME DownloadInv, Resumable, ~shared, Intact
               PROVE  \E a \in Inspect : a.count = Len(file)
    BY DEF CrashLeavesResumable
  <2>1. AllLink /\ StateKnown /\ Len(file) \in 0..Len(file) /\ DOMAIN file = 1..Len(file)
        /\ Len(file) \in Nat
    BY DEF Resumable, DownloadInv, Evidence
  <2>2. \A n \in 0..Len(file) : Scan[n] = {Arch(n)}
    <3> SUFFICES ASSUME NEW n \in 0..Len(file) PROVE Scan[n] = {Arch(n)}
      OBVIOUS
    <3>1. \A k \in 1..n : Links(k)
      BY <2>1 DEF AllLink
    <3> QED BY <3>1, ScanOfLines DEF DownloadInv
  <2>3. \A n \in 0..Len(file) : Arch(n).count = n /\ Stored(Arch(n)).count = n
    BY DEF Arch, Stored
  <2>4. ASSUME NEW s \in state
        PROVE  s.count <= Len(file) /\ \A b \in Scan[s.count] : s = Stored(b)
    <3>1. PICK n \in 0..Len(file) : s = Stored(Arch(n))
      BY <2>1, <2>4 DEF StateKnown
    <3>2. s.count = n /\ n <= Len(file)
      BY <2>1, <2>3, <3>1
    <3> QED BY <2>2, <3>1, <3>2
  <2>5. Arch(Len(file)) \in Inspect
    BY <2>1, <2>2, <2>4 DEF Inspect
  <2> QED BY <2>1, <2>3, <2>5
<1> QED BY <1>1, DownloadInvariant, RunsGoOn, PTL

=============================================================================
