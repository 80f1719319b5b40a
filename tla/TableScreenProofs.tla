------------------------- MODULE TableScreenProofs --------------------------
(***************************************************************************)
(* Proofs about Cart and TableScreen: for any menu, prices, catalogues and *)
(* limits, the cart is a bag of menu ids, an order is what was sent at the *)
(* prices of that moment, and every key acts on what is shown.             *)
(***************************************************************************)
EXTENDS TableScreen, TLAPS, FiniteSetTheorems, SequenceTheorems, WellFoundedInduction

-----------------------------------------------------------------------------
(* Numbers, and functions defined by recursion *)

\* A set of numbers that is not empty has a least one.
LEMMA Least ==
    ASSUME NEW T \in SUBSET Nat, T # {}
    PROVE  \E n \in T : \A k \in T : n <= k
<1> DEFINE R == OpToRel(<, Nat)
<1>1. IsWellFoundedOn(R, Nat)
  BY NatLessThanWellFounded
<1>2. PICK n \in T : \A k \in T : ~ (<<k, n>> \in R)
  <2> HIDE DEF R
  <2> QED BY <1>1, WFMin
<1>3. \A k \in T : ~ (k < n)
  BY <1>2 DEF OpToRel
<1>4. \A k \in T : k \in Nat /\ n \in Nat
  OBVIOUS
<1> QED BY <1>3, <1>4

\* A set that has 0, and n + 1 with every n, has every number.
LEMMA OneAfterAnother ==
    ASSUME NEW G, 0 \in G, \A n \in Nat : n \in G => n + 1 \in G
    PROVE  \A n \in Nat : n \in G
<1> DEFINE T == {n \in Nat : n \notin G}
<1> SUFFICES ASSUME T # {} PROVE FALSE
  OBVIOUS
<1>1. PICK n \in T : \A k \in T : n <= k
  <2>1. T \in SUBSET Nat
    OBVIOUS
  <2> HIDE DEF T
  <2> QED BY <2>1, Least
<1>2. n \in Nat /\ n # 0
  OBVIOUS
<1>3. n - 1 \in Nat /\ ~ (n <= n - 1) /\ n - 1 + 1 = n
  BY <1>2
<1>4. n - 1 \in G
  BY <1>1, <1>3
<1> QED BY <1>3, <1>4

\* A recursion: on a set D whose elements have sizes, each value is made by step
\* from the value of a smaller element, and a is that of the elements of size 0.
Descends(D, V, a, N, size, prev, step) ==
    /\ a \in V /\ N \in Nat
    /\ size \in [D -> 0 .. N] /\ prev \in [D -> D]
    /\ \A d \in D : size[d] > 0 => size[prev[d]] < size[d]
    /\ step \in [D -> [V -> V]]

\* Some function is what a recursion says.
LEMMA Recursion ==
    ASSUME NEW D, NEW V, NEW a, NEW N, NEW size, NEW prev, NEW step,
           Descends(D, V, a, N, size, prev, step)
    PROVE  \E g \in [D -> V] : \A d \in D :
               g[d] = IF size[d] = 0 THEN a ELSE step[d][g[prev[d]]]
<1> USE DEF Descends
<1> DEFINE Solves(g, n) == \A d \in D : size[d] <= n =>
               g[d] = IF size[d] = 0 THEN a ELSE step[d][g[prev[d]]]
           G == {n \in Nat : \E g \in [D -> V] : Solves(g, n)}
<1>1. 0 \in G
  <2> DEFINE g == [d \in D |-> a]
  <2>1. g \in [D -> V] /\ Solves(g, 0)
    OBVIOUS
  <2> QED BY <2>1
<1>2. ASSUME NEW n \in Nat, n \in G PROVE n + 1 \in G
  <2>1. PICK g \in [D -> V] : Solves(g, n)
    BY <1>2
  <2> DEFINE h == [d \in D |-> IF size[d] = 0 THEN a ELSE step[d][g[prev[d]]]]
  <2>2. h \in [D -> V]
    OBVIOUS
  <2>3. ASSUME NEW d \in D, size[d] <= n + 1, size[d] # 0
        PROVE  h[d] = step[d][h[prev[d]]]
    <3>1. prev[d] \in D /\ size[prev[d]] <= n
      <4>1. size[d] \in 0 .. N /\ prev[d] \in D /\ size[prev[d]] \in 0 .. N
        BY <2>3
      <4>2. size[prev[d]] < size[d]
        BY <2>3, <4>1
      <4> QED BY <2>3, <4>1, <4>2, <1>2
    <3>2. h[prev[d]] = g[prev[d]]
      BY <2>1, <3>1
    <3> QED BY <2>3, <3>2
  <2>4. Solves(h, n + 1)
    BY <2>3
  <2> HIDE DEF Solves, h
  <2> QED BY <2>2, <2>4
<1>3. N \in G
  <2> HIDE DEF G
  <2> QED BY <1>1, <1>2, OneAfterAnother
<1>4. PICK g \in [D -> V] : Solves(g, N)
  BY <1>3
<1>5. \A d \in D : size[d] <= N
  OBVIOUS
<1> QED BY <1>4, <1>5

-----------------------------------------------------------------------------
(* The cart of order.c *)

AnyLine == [menu_id : MenuIds, price : Nat, qty : Nat]

\* No id has two lines.
OneLineEach(c) == \A i, j \in DOMAIN c : c[i].menu_id = c[j].menu_id => i = j

\* The loop of order.c finds the line of an id.
LEMMA TheLineFound ==
    ASSUME NEW c \in Seq(AnyLine), NEW id, HasLine(c, id)
    PROVE  LineAt(c, id) \in 1 .. Len(c) /\ c[LineAt(c, id)].menu_id = id
<1> DEFINE T == {i \in 1 .. Len(c) : c[i].menu_id = id}
<1>1. T \in SUBSET Nat /\ T # {}
  BY DEF HasLine
<1>2. PICK n \in T : \A k \in T : n <= k
  <2> HIDE DEF T
  <2> QED BY <1>1, Least
<1>3. n \in DOMAIN c /\ c[n].menu_id = id /\ \A j \in 1 .. (n - 1) : c[j].menu_id # id
  <2>1. ASSUME NEW j \in 1 .. (n - 1), c[j].menu_id = id PROVE FALSE
    <3>1. j \in T /\ ~ (n <= j)
      BY <2>1
    <3> QED BY <1>2, <3>1
  <2> QED BY <2>1
<1> HIDE DEF T
<1> QED BY <1>3 DEF LineAt

\* It is the only one.
LEMMA TheOnlyLine ==
    ASSUME NEW c \in Seq(AnyLine), OneLineEach(c), NEW i \in DOMAIN c
    PROVE  HasLine(c, c[i].menu_id) /\ LineAt(c, c[i].menu_id) = i
<1>1. HasLine(c, c[i].menu_id)
  BY DEF HasLine
<1> QED BY <1>1, TheLineFound DEF OneLineEach

\* A cart without its i-th line.
LEMMA RemoveAtFacts ==
    ASSUME NEW S, NEW c \in Seq(S), NEW i \in 1 .. Len(c)
    PROVE  /\ RemoveAt(c, i) \in Seq(S)
           /\ Len(RemoveAt(c, i)) = Len(c) - 1
           /\ \A j \in 1 .. Len(c) - 1 :
                  RemoveAt(c, i)[j] = IF j < i THEN c[j] ELSE c[j + 1]
<1> DEFINE s == SubSeq(c, 1, i - 1)
           t == SubSeq(c, i + 1, Len(c))
<1>1. Len(c) \in Nat /\ i \in Int /\ i - 1 \in Int /\ i + 1 \in Int /\ Len(c) \in Int
  OBVIOUS
<1>2. s \in Seq(S) /\ Len(s) = i - 1 /\ \A j \in 1 .. i - 1 : s[j] = c[j]
  BY <1>1, SubSeqProperties
<1>3. t \in Seq(S) /\ Len(t) = Len(c) - i /\ \A j \in 1 .. Len(c) - i : t[j] = c[i + j]
  <2>1. /\ t \in Seq(S)
        /\ Len(t) = IF i + 1 <= Len(c) THEN Len(c) - (i + 1) + 1 ELSE 0
        /\ \A j \in 1 .. Len(c) - (i + 1) + 1 : t[j] = c[(i + 1) + j - 1]
    BY <1>1, SubSeqProperties
  <2> QED BY <1>1, <2>1
<1> HIDE DEF s, t
<1>4. /\ s \o t \in Seq(S)
      /\ Len(s \o t) = Len(c) - 1
      /\ \A j \in 1 .. Len(c) - 1 :
             (s \o t)[j] = IF j <= i - 1 THEN s[j] ELSE t[j - (i - 1)]
  <2>1. /\ s \o t \in Seq(S)
        /\ Len(s \o t) = Len(s) + Len(t)
        /\ \A j \in 1 .. Len(s) + Len(t) :
               (s \o t)[j] = IF j <= Len(s) THEN s[j] ELSE t[j - Len(s)]
    BY <1>2, <1>3, ConcatProperties
  <2>2. Len(s) + Len(t) = Len(c) - 1 /\ Len(s) = i - 1
    BY <1>1, <1>2, <1>3
  <2> QED BY <2>1, <2>2
<1>5. ASSUME NEW j \in 1 .. Len(c) - 1
      PROVE  (s \o t)[j] = IF j < i THEN c[j] ELSE c[j + 1]
  <2>1. CASE j < i
    BY <1>1, <1>2, <1>4, <2>1
  <2>2. CASE ~ (j < i)
    <3>1. j - (i - 1) \in 1 .. Len(c) - i /\ i + (j - (i - 1)) = j + 1 /\ ~ (j <= i - 1)
      BY <1>1, <2>2
    <3> QED BY <1>3, <1>4, <2>2, <3>1
  <2> QED BY <2>1, <2>2
<1>6. RemoveAt(c, i) = s \o t
  BY DEF RemoveAt, s, t
<1> QED BY <1>4, <1>5, <1>6

\* What cart_add does: one more of the only line with the id, or a new line.
LEMMA CartAddFacts ==
    ASSUME NEW c \in Seq(AnyLine), NEW line \in AnyLine, CanAdd(c, line)
    PROVE  \/ \E i \in 1 .. Len(c) :
                  /\ c[i].menu_id = line.menu_id /\ i = LineAt(c, line.menu_id)
                  /\ cart_add(c, line) = [c EXCEPT ![i].qty = @ + line.qty]
           \/ /\ ~ HasLine(c, line.menu_id) /\ Len(c) < MAX_ORDER_ITEMS
              /\ cart_add(c, line) = Append(c, line)
<1>1. CASE HasLine(c, line.menu_id)
  BY <1>1, TheLineFound DEF cart_add
<1>2. CASE ~ HasLine(c, line.menu_id)
  BY <1>2 DEF cart_add, CanAdd
<1> QED BY <1>1, <1>2

\* A cart stays a list of lines.
LEMMA CartAddType ==
    ASSUME NEW c \in Seq(AnyLine), NEW line \in AnyLine
    PROVE  cart_add(c, line) \in Seq(AnyLine)
<1>1. CASE ~ CanAdd(c, line)
  BY <1>1 DEF cart_add
<1>2. ASSUME NEW i \in 1 .. Len(c), cart_add(c, line) = [c EXCEPT ![i].qty = @ + line.qty]
      PROVE  cart_add(c, line) \in Seq(AnyLine)
  <2>0. c[i] \in AnyLine
    OBVIOUS
  <2>1. c[i] \in AnyLine /\ c[i].qty + line.qty \in Nat
    BY <2>0 DEF AnyLine
  <2>2. [c[i] EXCEPT !.qty = @ + line.qty] \in AnyLine
    BY <2>1 DEF AnyLine
  <2>3. cart_add(c, line) = [c EXCEPT ![i] = [c[i] EXCEPT !.qty = @ + line.qty]]
    BY <1>2
  <2> QED BY <2>2, <2>3
<1>3. CASE cart_add(c, line) = Append(c, line)
  BY <1>3
<1> QED BY <1>1, <1>2, <1>3, CartAddFacts

\* How Quantity adds up the lines, one after another.
AddsUp(c, g) == g = [n \in 0 .. Len(c) |->
                        IF n = 0 THEN [id \in MenuIds |-> 0]
                        ELSE [g[n - 1] EXCEPT ![c[n].menu_id] = @ + c[n].qty]]

\* With one line each, the quantities after n lines are those of these lines.
LEMMA AddsUpTo ==
    ASSUME NEW c \in Seq(AnyLine), OneLineEach(c), NEW g, AddsUp(c, g), NEW n \in 0 .. Len(c)
    PROVE  /\ g[n] \in [MenuIds -> Nat]
           /\ \A i \in 1 .. n : g[n][c[i].menu_id] = c[i].qty
           /\ \A id \in MenuIds : (\A i \in 1 .. n : c[i].menu_id # id) => g[n][id] = 0
<1> DEFINE Right(m) == /\ g[m] \in [MenuIds -> Nat]
                       /\ \A i \in 1 .. m : g[m][c[i].menu_id] = c[i].qty
                       /\ \A id \in MenuIds : (\A i \in 1 .. m : c[i].menu_id # id) => g[m][id] = 0
           G == {m \in Nat : m <= Len(c) => Right(m)}
<1>0. Len(c) \in Nat
  OBVIOUS
<1>1. 0 \in G
  <2>1. g[0] = [id \in MenuIds |-> 0]
    BY <1>0 DEF AddsUp
  <2> QED BY <2>1
<1>2. ASSUME NEW m \in Nat, m \in G PROVE m + 1 \in G
  <2> SUFFICES ASSUME m + 1 <= Len(c) PROVE Right(m + 1)
    <3> HIDE DEF Right
    <3> QED OBVIOUS
  <2>1. Right(m) /\ m + 1 \in 1 .. Len(c) /\ m \in 0 .. Len(c)
    BY <1>0, <1>2
  <2>2. c[m + 1] \in AnyLine
    BY <2>1
  <2> DEFINE x == c[m + 1].menu_id
             q == c[m + 1].qty
  <2>3. x \in MenuIds /\ q \in Nat
    BY <2>2 DEF AnyLine
  <2>4. g[m + 1] = [g[m] EXCEPT ![x] = @ + q]
    <3>1. m + 1 \in 0 .. Len(c) /\ m + 1 # 0 /\ (m + 1) - 1 = m
      BY <2>1, <1>0, <1>2
    <3> QED BY <3>1 DEF AddsUp
  <2>5. \A i \in 1 .. m : c[i].menu_id # x
    <3>1. \A i \in 1 .. m : i \in DOMAIN c /\ m + 1 \in DOMAIN c /\ i # m + 1
      BY <2>1, <1>0
    <3> QED BY <3>1 DEF OneLineEach
  <2>6. g[m][x] = 0
    BY <2>1, <2>3, <2>5
  <2> HIDE DEF x, q
  <2>7. g[m + 1] \in [MenuIds -> Nat] /\ g[m + 1][x] = q
        /\ \A id \in MenuIds : id # x => g[m + 1][id] = g[m][id]
    BY <2>1, <2>3, <2>4, <2>6
  <2>8. ASSUME NEW i \in 1 .. m + 1 PROVE g[m + 1][c[i].menu_id] = c[i].qty
    <3>1. CASE i = m + 1
      BY <3>1, <2>7 DEF x, q
    <3>2. CASE i # m + 1
      <4>1. i \in 1 .. m /\ i \in DOMAIN c
        BY <3>2, <2>1, <1>0
      <4>2. c[i] \in AnyLine
        BY <4>1
      <4>3. c[i].menu_id \in MenuIds /\ c[i].menu_id # x
        BY <4>1, <4>2, <2>5 DEF AnyLine
      <4> QED BY <4>1, <4>3, <2>1, <2>7
    <3> QED BY <3>1, <3>2
  <2>9. ASSUME NEW id \in MenuIds, \A i \in 1 .. m + 1 : c[i].menu_id # id
        PROVE  g[m + 1][id] = 0
    <3>1. id # x /\ \A i \in 1 .. m : c[i].menu_id # id
      <4>1. m + 1 \in 1 .. m + 1 /\ \A i \in 1 .. m : i \in 1 .. m + 1
        BY <1>2
      <4> QED BY <2>9, <4>1 DEF x
    <3> QED BY <3>1, <2>1, <2>7
  <2> QED BY <2>7, <2>8, <2>9
<1>3. n \in G
  <2>1. n \in Nat
    BY <1>0
  <2> HIDE DEF G
  <2> QED BY <1>1, <1>2, <2>1, OneAfterAnother
<1>4. Right(n)
  BY <1>0, <1>3
<1> QED BY <1>4

\* The quantities of a list with one line each: those of its lines, and none of
\* any other id.
LEMMA QuantityFacts ==
    ASSUME NEW c \in Seq(AnyLine), OneLineEach(c)
    PROVE  /\ Quantity(c) \in [MenuIds -> Nat]
           /\ \A i \in DOMAIN c : Quantity(c)[c[i].menu_id] = c[i].qty
           /\ \A id \in MenuIds : ~ HasLine(c, id) => Quantity(c)[id] = 0
<1> DEFINE N == Len(c)
           Zero == [id \in MenuIds |-> 0]
           V == [MenuIds -> Nat]
           size == [n \in 0 .. N |-> n]
           prev == [n \in 0 .. N |-> IF n = 0 THEN 0 ELSE n - 1]
           step == [n \in 0 .. N |-> [w \in V |->
                       IF n = 0 THEN w
                       ELSE [w EXCEPT ![c[n].menu_id] = @ + c[n].qty]]]
<1>0. N \in Nat
  OBVIOUS
<1>1. \E g : AddsUp(c, g)
  <2>1. Zero \in V
    OBVIOUS
  <2>2. size \in [0 .. N -> 0 .. N] /\ prev \in [0 .. N -> 0 .. N]
    BY <1>0
  <2>3. \A n \in 0 .. N : size[n] > 0 => size[prev[n]] < size[n]
    BY <1>0
  <2>4. step \in [0 .. N -> [V -> V]]
    <3>1. ASSUME NEW n \in 0 .. N, n # 0, NEW w \in V
          PROVE  [w EXCEPT ![c[n].menu_id] = @ + c[n].qty] \in V
      <4>1. n \in 1 .. Len(c)
        BY <3>1, <1>0
      <4>2. c[n].menu_id \in MenuIds /\ c[n].qty \in Nat
        <5>1. c[n] \in AnyLine
          BY <4>1
        <5> QED BY <5>1 DEF AnyLine
      <4> QED BY <4>2
    <3> HIDE DEF V, N
    <3> QED BY <3>1
  <2>5. PICK g \in [0 .. N -> V] : \A n \in 0 .. N :
            g[n] = IF size[n] = 0 THEN Zero ELSE step[n][g[prev[n]]]
    <3> DEFINE D == 0 .. N
    <3> HIDE DEF size, prev, step, V, N, Zero
    <3>1. Descends(D, V, Zero, N, size, prev, step)
      BY <1>0, <2>1, <2>2, <2>3, <2>4 DEF Descends
    <3> HIDE DEF D
    <3>2. \E g \in [D -> V] : \A n \in D :
              g[n] = IF size[n] = 0 THEN Zero ELSE step[n][g[prev[n]]]
      BY <3>1, Recursion
    <3> QED BY <3>2 DEF D
  <2>6. ASSUME NEW n \in 0 .. N
        PROVE  g[n] = IF n = 0 THEN Zero ELSE [g[n - 1] EXCEPT ![c[n].menu_id] = @ + c[n].qty]
    <3>1. CASE n = 0
      BY <2>5, <3>1
    <3>2. CASE n # 0
      <4>1. prev[n] = n - 1 /\ n - 1 \in 0 .. N /\ size[n] = n
        BY <3>2, <1>0
      <4>2. g[n - 1] \in V
        BY <4>1, <2>5
      <4>3. g[n] = step[n][g[n - 1]]
        <5> HIDE DEF step, size, prev, V, N
        <5> QED BY <2>5, <4>1, <3>2
      <4>4. step[n][g[n - 1]] = [g[n - 1] EXCEPT ![c[n].menu_id] = @ + c[n].qty]
        <5> HIDE DEF V, N
        <5> QED BY <4>2, <3>2
      <4> QED BY <3>2, <4>3, <4>4
    <3> QED BY <3>1, <3>2
  <2>7. AddsUp(c, g)
    BY <2>5, <2>6 DEF AddsUp
  <2> QED BY <2>7
<1> DEFINE f == CHOOSE g : AddsUp(c, g)
<1>2. AddsUp(c, f)
  BY <1>1
<1>3. Quantity(c) = f[N]
  BY DEF Quantity, AddsUp
<1> HIDE DEF f
<1>4. N \in 0 .. Len(c) /\ DOMAIN c = 1 .. N
  OBVIOUS
<1> QED BY SMTT(20), <1>2, <1>3, <1>4, AddsUpTo DEF HasLine

\* So they are known from the lines.
LEMMA QuantityIs ==
    ASSUME NEW c \in Seq(AnyLine), OneLineEach(c), NEW w \in [MenuIds -> Nat],
           \A i \in DOMAIN c : w[c[i].menu_id] = c[i].qty,
           \A id \in MenuIds : ~ HasLine(c, id) => w[id] = 0
    PROVE  Quantity(c) = w
<1>1. ASSUME NEW id \in MenuIds PROVE Quantity(c)[id] = w[id]
  <2>1. CASE HasLine(c, id)
    BY <2>1, QuantityFacts DEF HasLine
  <2>2. CASE ~ HasLine(c, id)
    BY <2>2, QuantityFacts
  <2> QED BY <2>1, <2>2
<1>2. Quantity(c) \in [MenuIds -> Nat]
  BY QuantityFacts
<1> QED BY <1>1, <1>2

\* A line for another id.
LEMMA LineAdded ==
    ASSUME NEW c \in Seq(AnyLine), OneLineEach(c), NEW line \in AnyLine,
           ~ HasLine(c, line.menu_id)
    PROVE  /\ Append(c, line) \in Seq(AnyLine) /\ Len(Append(c, line)) = Len(c) + 1
           /\ OneLineEach(Append(c, line))
           /\ Quantity(Append(c, line)) = [Quantity(c) EXCEPT ![line.menu_id] = line.qty]
<1> DEFINE d == Append(c, line)
           w == [Quantity(c) EXCEPT ![line.menu_id] = line.qty]
<1>1. /\ d \in Seq(AnyLine) /\ Len(d) = Len(c) + 1 /\ Len(c) \in Nat
      /\ \A i \in 1 .. Len(c) : d[i] = c[i]
      /\ d[Len(c) + 1] = line
  BY AppendProperties
<1>2. \A i \in DOMAIN d : i \in 1 .. Len(c) \/ i = Len(c) + 1
  BY <1>1
<1>3. \A i \in 1 .. Len(c) : i \in DOMAIN c /\ i \in DOMAIN d /\ c[i].menu_id # line.menu_id
  BY <1>1 DEF HasLine
<1> HIDE DEF d
<1>4. OneLineEach(d)
  BY <1>1, <1>2, <1>3 DEF OneLineEach
<1>5. Quantity(c) \in [MenuIds -> Nat] /\ line.menu_id \in MenuIds /\ line.qty \in Nat
  BY QuantityFacts DEF AnyLine
<1>6. ASSUME NEW i \in DOMAIN d PROVE w[d[i].menu_id] = d[i].qty
  <2>1. CASE i \in 1 .. Len(c)
    <3>1. Quantity(c)[c[i].menu_id] = c[i].qty /\ c[i] \in AnyLine
      BY <1>3, <2>1, QuantityFacts
    <3>2. c[i].menu_id \in MenuIds
      BY <3>1 DEF AnyLine
    <3> QED BY <1>1, <1>3, <1>5, <2>1, <3>1, <3>2
  <2>2. CASE i = Len(c) + 1
    BY <1>1, <1>5, <2>2
  <2> QED BY <1>2, <2>1, <2>2
<1>7. ASSUME NEW id \in MenuIds, ~ HasLine(d, id) PROVE w[id] = 0
  <2>1. Len(c) + 1 \in DOMAIN d /\ \A i \in 1 .. Len(c) : i \in DOMAIN d
    BY <1>1
  <2>2. id # line.menu_id /\ ~ HasLine(c, id)
    BY <1>1, <1>7, <2>1 DEF HasLine
  <2>3. Quantity(c)[id] = 0
    BY <2>2, QuantityFacts
  <2> QED BY <1>5, <2>2, <2>3
<1>8. w \in [MenuIds -> Nat]
  BY <1>5
<1>9. Quantity(d) = w
  <2> HIDE DEF w
  <2> QED BY <1>1, <1>4, <1>6, <1>7, <1>8, QuantityIs
<1> QED BY <1>1, <1>4, <1>9 DEF d

\* Another quantity on a line.
WithQty(c, i, q) == [c EXCEPT ![i].qty = q]

\* It is the quantity of the line's id.
LEMMA LineChanged ==
    ASSUME NEW c \in Seq(AnyLine), OneLineEach(c), NEW i \in DOMAIN c, NEW q \in Nat
    PROVE  /\ WithQty(c, i, q) \in Seq(AnyLine) /\ Len(WithQty(c, i, q)) = Len(c)
           /\ OneLineEach(WithQty(c, i, q))
           /\ Quantity(WithQty(c, i, q)) = [Quantity(c) EXCEPT ![c[i].menu_id] = q]
<1> DEFINE d == WithQty(c, i, q)
           w == [Quantity(c) EXCEPT ![c[i].menu_id] = q]
           new == [c[i] EXCEPT !.qty = q]
<1>1. c[i] \in AnyLine /\ \A j \in DOMAIN c : c[j] \in AnyLine /\ c[j].menu_id \in MenuIds
  <2>1. \A j \in DOMAIN c : c[j] \in AnyLine
    OBVIOUS
  <2> QED BY <2>1 DEF AnyLine
<1>2. new \in AnyLine /\ new.menu_id = c[i].menu_id /\ new.qty = q
  BY <1>1 DEF AnyLine
<1>3. d = [c EXCEPT ![i] = new]
  BY DEF WithQty
<1> HIDE DEF new, d
<1>4. d \in Seq(AnyLine) /\ Len(d) = Len(c) /\ DOMAIN d = DOMAIN c
  BY <1>2, <1>3
<1>5. d[i] = new /\ \A j \in DOMAIN c : j # i => d[j] = c[j]
  BY <1>3
<1>6. \A j \in DOMAIN c : d[j].menu_id = c[j].menu_id
  BY <1>2, <1>5
<1>7. OneLineEach(d)
  BY <1>4, <1>6 DEF OneLineEach
<1>8. Quantity(c) \in [MenuIds -> Nat] /\ w \in [MenuIds -> Nat]
  BY QuantityFacts
<1>9. ASSUME NEW j \in DOMAIN d PROVE w[d[j].menu_id] = d[j].qty
  <2>1. CASE j = i
    BY <1>1, <1>2, <1>5, <1>8, <2>1
  <2>2. CASE j # i
    <3>1. d[j] = c[j] /\ c[j].menu_id # c[i].menu_id /\ Quantity(c)[c[j].menu_id] = c[j].qty
      BY <1>4, <1>5, <2>2, QuantityFacts DEF OneLineEach
    <3> QED BY <1>8, <3>1, <1>1, <1>4
  <2> QED BY <2>1, <2>2
<1>10. ASSUME NEW id \in MenuIds, ~ HasLine(d, id) PROVE w[id] = 0
  <2>1. ~ HasLine(c, id) /\ id # c[i].menu_id
    BY <1>4, <1>6, <1>10 DEF HasLine
  <2>2. Quantity(c)[id] = 0
    BY <2>1, QuantityFacts
  <2> QED BY <1>8, <2>1, <2>2
<1>11. Quantity(d) = w
  <2> HIDE DEF w
  <2> QED BY <1>4, <1>7, <1>8, <1>9, <1>10, QuantityIs
<1> QED BY <1>4, <1>7, <1>11 DEF d

\* A line less.
LEMMA LineRemoved ==
    ASSUME NEW c \in Seq(AnyLine), OneLineEach(c), NEW i \in DOMAIN c
    PROVE  /\ RemoveAt(c, i) \in Seq(AnyLine) /\ Len(RemoveAt(c, i)) = Len(c) - 1
           /\ OneLineEach(RemoveAt(c, i))
           /\ Quantity(RemoveAt(c, i)) = [Quantity(c) EXCEPT ![c[i].menu_id] = 0]
<1> DEFINE d == RemoveAt(c, i)
           w == [Quantity(c) EXCEPT ![c[i].menu_id] = 0]
           from(j) == IF j < i THEN j ELSE j + 1
<1>0. i \in 1 .. Len(c) /\ Len(c) \in Nat /\ DOMAIN c = 1 .. Len(c)
  OBVIOUS
<1>1. /\ d \in Seq(AnyLine) /\ Len(d) = Len(c) - 1
      /\ \A j \in 1 .. Len(c) - 1 : d[j] = IF j < i THEN c[j] ELSE c[j + 1]
  BY <1>0, RemoveAtFacts
<1>2. DOMAIN d = 1 .. Len(c) - 1
  BY <1>1
<1>3. ASSUME NEW j \in DOMAIN d
      PROVE  from(j) \in DOMAIN c /\ from(j) # i /\ d[j] = c[from(j)]
  BY <1>0, <1>1, <1>2
<1>4. ASSUME NEW j \in DOMAIN d, NEW k \in DOMAIN d, j # k PROVE from(j) # from(k)
  <2>1. j \in Int /\ k \in Int /\ i \in Int
    BY <1>0, <1>2, <1>4
  <2> QED BY <1>4, <2>1
<1>5. ASSUME NEW k \in DOMAIN c, k # i PROVE \E j \in DOMAIN d : from(j) = k
  <2>1. CASE k < i
    BY <1>0, <1>2, <2>1
  <2>2. CASE ~ (k < i)
    <3>1. k - 1 \in DOMAIN d /\ from(k - 1) = k
      BY <1>0, <1>2, <1>5, <2>2
    <3> QED BY <3>1
  <2> QED BY <2>1, <2>2
<1> HIDE DEF d, from
<1>6. OneLineEach(d)
  BY <1>3, <1>4 DEF OneLineEach
<1>7. \A j \in DOMAIN c : c[j].menu_id \in MenuIds
  <2>1. \A j \in DOMAIN c : c[j] \in AnyLine
    OBVIOUS
  <2> QED BY <2>1 DEF AnyLine
<1>8. Quantity(c) \in [MenuIds -> Nat] /\ w \in [MenuIds -> Nat]
  BY QuantityFacts
<1>9. ASSUME NEW j \in DOMAIN d PROVE w[d[j].menu_id] = d[j].qty
  <2>1. d[j] = c[from(j)] /\ c[from(j)].menu_id # c[i].menu_id
        /\ Quantity(c)[c[from(j)].menu_id] = c[from(j)].qty
    BY <1>3, QuantityFacts DEF OneLineEach
  <2> QED BY <1>3, <1>7, <1>8, <2>1
<1>10. ASSUME NEW id \in MenuIds, ~ HasLine(d, id) PROVE w[id] = 0
  <2>1. CASE id = c[i].menu_id
    BY <1>8, <2>1
  <2>2. CASE id # c[i].menu_id
    <3>1. ~ HasLine(c, id)
      BY <1>3, <1>5, <1>10, <2>2 DEF HasLine
    <3> QED BY <1>8, <2>2, <3>1, QuantityFacts
  <2> QED BY <2>1, <2>2
<1>11. Quantity(d) = w
  <2> HIDE DEF w
  <2> QED BY <1>1, <1>6, <1>8, <1>9, <1>10, QuantityIs
<1> QED BY <1>1, <1>6, <1>11 DEF d

\* No list with one line each has more ids than lines.
LEMMA NoMoreIdsThanLines ==
    ASSUME NEW c \in Seq(AnyLine), OneLineEach(c)
    PROVE  Cardinality({id \in MenuIds : Quantity(c)[id] > 0}) <= Len(c)
<1> DEFINE S == {id \in MenuIds : Quantity(c)[id] > 0}
<1>1. IsFiniteSet(1 .. Len(c)) /\ Cardinality(1 .. Len(c)) = Len(c)
  <2>1. Len(c) \in Nat /\ 1 \in Int /\ Len(c) \in Int
    OBVIOUS
  <2> QED BY <2>1, FS_Interval
<1>2. \A id \in S : LineAt(c, id) \in 1 .. Len(c) /\ c[LineAt(c, id)].menu_id = id
  <2>1. \A id \in S : HasLine(c, id)
    BY QuantityFacts
  <2> QED BY <2>1, TheLineFound
<1> DEFINE f == [id \in S |-> LineAt(c, id)]
<1>3. f \in Injection(S, 1 .. Len(c))
  BY <1>2 DEF Injection, IsInjective
<1> HIDE DEF S, f
<1>4. Cardinality(S) <= Cardinality(1 .. Len(c))
  BY <1>1, <1>3, FS_Injection
<1> QED BY <1>1, <1>4 DEF S

-----------------------------------------------------------------------------
(* The server's cart *)

\* How Rebuilt puts a request together: the line with the last number of a set
\* is added to the cart of the others.
PutsTogether(c, g) ==
    g = [s \in SUBSET (DOMAIN c) |->
            IF s = {} THEN << >> ELSE LET i == Max(s) IN cart_add(g[s \ {i}], c[i])]

\* The last of some line numbers.
LEMMA LastOf ==
    ASSUME NEW N \in Nat, NEW s \in SUBSET (1 .. N), s # {}
    PROVE  Max(s) \in s /\ \A i \in s : i <= Max(s)
<1> DEFINE T == {n \in Nat : \A i \in s : i <= n}
<1>1. T \in SUBSET Nat /\ T # {}
  <2>1. N \in T
    OBVIOUS
  <2> QED BY <2>1
<1>2. PICK n \in T : \A k \in T : n <= k
  <2> HIDE DEF T
  <2> QED BY <1>1, Least
<1>3. n \in Nat /\ \A i \in s : i <= n /\ i \in Nat /\ i > 0
  OBVIOUS
<1>4. n \in s
  <2> SUFFICES ASSUME n \notin s PROVE FALSE
    OBVIOUS
  <2>1. n > 0
    <3>1. PICK i \in s : TRUE
      OBVIOUS
    <3>2. i \in Nat /\ i > 0 /\ i <= n
      BY <1>3, <3>1
    <3> QED BY <1>3, <3>2
  <2>2. n - 1 \in T
    BY <1>3, <2>1
  <2> QED BY <1>2, <1>3, <2>2
<1> HIDE DEF T
<1>5. \A i \in s : n >= i
  BY <1>3
<1> QED BY <1>3, <1>4, <1>5 DEF Max

\* Such a function there is.
LEMMA PutsTogetherExists ==
    ASSUME NEW c \in Seq(AnyLine)
    PROVE  \E g : PutsTogether(c, g)
<1> DEFINE N == Len(c)
           D == SUBSET (1 .. N)
           V == Seq(AnyLine)
           size == [s \in D |-> Cardinality(s)]
           prev == [s \in D |-> IF s = {} THEN {} ELSE s \ {Max(s)}]
           step == [s \in D |-> [v \in V |-> IF s = {} THEN v ELSE cart_add(v, c[Max(s)])]]
<1>0. N \in Nat /\ DOMAIN c = 1 .. N
  OBVIOUS
<1>1. IsFiniteSet(1 .. N) /\ Cardinality(1 .. N) = N
  <2>1. 1 \in Int /\ N \in Int
    BY <1>0
  <2> HIDE DEF N
  <2> QED BY <1>0, <2>1, FS_Interval
<1>2. \A s \in D : IsFiniteSet(s) /\ Cardinality(s) \in 0 .. N /\ (Cardinality(s) = 0 <=> s = {})
  <2> SUFFICES ASSUME NEW s \in D
               PROVE IsFiniteSet(s) /\ Cardinality(s) \in 0 .. N /\ (Cardinality(s) = 0 <=> s = {})
    OBVIOUS
  <2>1. IsFiniteSet(s) /\ Cardinality(s) <= N
    <3> HIDE DEF N
    <3> QED BY <1>1, FS_Subset
  <2>2. Cardinality(s) \in Nat
    BY <2>1, FS_CardinalityType
  <2>3. Cardinality(s) = 0 <=> s = {}
    BY <2>1, FS_EmptySet
  <2>4. Cardinality(s) \in 0 .. N
    BY <1>0, <2>1, <2>2
  <2> QED BY <2>1, <2>3, <2>4
<1>3. \A s \in D : s # {} => Max(s) \in s
  <2> HIDE DEF N
  <2> QED BY <1>0, LastOf
<1>4. Descends(D, V, << >>, N, size, prev, step)
  <2>1. size \in [D -> 0 .. N] /\ prev \in [D -> D] /\ << >> \in V
    BY <1>2
  <2>2. ASSUME NEW s \in D, size[s] > 0 PROVE size[prev[s]] < size[s]
    <3>1. size[s] = Cardinality(s) /\ IsFiniteSet(s) /\ s # {}
      BY <1>2, <2>2
    <3>2. Max(s) \in s
      BY <1>3, <3>1
    <3>3. prev[s] = s \ {Max(s)} /\ s \ {Max(s)} \in D
      BY <2>2, <3>1
    <3>4. size[prev[s]] = Cardinality(s \ {Max(s)})
      BY <3>3
    <3>5. Cardinality(s \ {Max(s)}) = Cardinality(s) - 1
      BY <3>1, <3>2, FS_RemoveElement
    <3>6. Cardinality(s) \in Nat
      BY <3>1, FS_CardinalityType
    <3> HIDE DEF size, prev, D
    <3> QED BY <3>1, <3>4, <3>5, <3>6
  <2>3. step \in [D -> [V -> V]]
    <3>1. ASSUME NEW s \in D, s # {}, NEW v \in V PROVE cart_add(v, c[Max(s)]) \in V
      <4>1. Max(s) \in 1 .. Len(c)
        BY <1>3, <3>1
      <4>2. c[Max(s)] \in AnyLine
        BY <4>1
      <4> QED BY <4>2, CartAddType
    <3> HIDE DEF D, V
    <3> QED BY <3>1
  <2> HIDE DEF size, prev, step, V, D
  <2> QED BY <1>0, <2>1, <2>2, <2>3 DEF Descends
<1>5. PICK g \in [D -> V] : \A s \in D :
          g[s] = IF size[s] = 0 THEN << >> ELSE step[s][g[prev[s]]]
  <2> HIDE DEF size, prev, step, V, D
  <2> QED BY <1>4, Recursion
<1>6. ASSUME NEW s \in D, s # {} PROVE g[s] = cart_add(g[s \ {Max(s)}], c[Max(s)])
  <2>1. size[s] # 0 /\ prev[s] = s \ {Max(s)} /\ prev[s] \in D
    BY <1>2, <1>6
  <2>2. g[prev[s]] \in V /\ g[s] = step[s][g[prev[s]]]
    <3> HIDE DEF size, prev, step, V, D
    <3> QED BY <1>5, <2>1, <1>6
  <2>3. step[s][g[prev[s]]] = cart_add(g[prev[s]], c[Max(s)])
    <3> HIDE DEF size, prev, V, D
    <3> QED BY <2>2, <1>6
  <2> QED BY <2>1, <2>2, <2>3
<1>7. g[{}] = << >>
  <2>1. {} \in D /\ size[{}] = 0
    BY <1>2
  <2> HIDE DEF size, prev, step, V, D
  <2> QED BY <1>5, <2>1
<1>8. g = [s \in D |-> IF s = {} THEN << >> ELSE LET i == Max(s) IN cart_add(g[s \ {i}], c[i])]
  <2> DEFINE h == [s \in D |-> IF s = {} THEN << >> ELSE LET i == Max(s) IN cart_add(g[s \ {i}], c[i])]
  <2> HIDE DEF D
  <2>1. ASSUME NEW s \in D PROVE g[s] = h[s]
    <3>1. CASE s = {}
      BY <1>7, <3>1
    <3>2. CASE s # {}
      BY <1>6, <3>2
    <3> QED BY <3>1, <3>2
  <2>2. g = [s \in D |-> g[s]] /\ h = [s \in D |-> h[s]]
    BY <1>5
  <2> HIDE DEF h
  <2>3. g = h
    BY <2>1, <2>2
  <2> QED BY <2>3 DEF h
<1>9. PutsTogether(c, g)
  BY <1>0, <1>8 DEF PutsTogether
<1> QED BY <1>9

\* The server's cart is the request, line by line: none is empty, none has an
\* id that another has, and there is room for all.
LEMMA RebuiltIsSent ==
    ASSUME NEW c \in Seq(AnyLine), OneLineEach(c), Len(c) <= MAX_ORDER_ITEMS,
           \A i \in DOMAIN c : c[i].qty > 0
    PROVE  Rebuilt(c) = c
<1> DEFINE f == CHOOSE g : PutsTogether(c, g)
           N == Len(c)
           G == {n \in Nat : n <= N => f[1 .. n] = SubSeq(c, 1, n)}
<1>0. N \in Nat /\ DOMAIN c = 1 .. N /\ MAX_ORDER_ITEMS \in Nat
  BY CartAssumption
<1>1. PutsTogether(c, f)
  BY PutsTogetherExists
<1>2. Rebuilt(c) = f[DOMAIN c]
  BY DEF Rebuilt, FoldLeft, MapThenFoldSet, PutsTogether
<1> HIDE DEF f
<1>3. 0 \in G
  <2>1. 1 .. 0 = {} /\ SubSeq(c, 1, 0) = << >>
    BY SubSeqEmpty
  <2>2. {} \in SUBSET (DOMAIN c)
    OBVIOUS
  <2>3. f[{}] = << >>
    BY <1>1, <2>2 DEF PutsTogether
  <2> QED BY <2>1, <2>3
<1>4. ASSUME NEW n \in Nat, n \in G PROVE n + 1 \in G
  <2> SUFFICES ASSUME n + 1 <= N PROVE f[1 .. n + 1] = SubSeq(c, 1, n + 1)
    OBVIOUS
  <2> DEFINE s == 1 .. n + 1
             d == SubSeq(c, 1, n)
             line == c[n + 1]
  <2>1. n + 1 \in 1 .. N /\ n \in 0 .. N /\ n < N
    BY <1>0, <1>4
  <2>2. s \in SUBSET (1 .. N) /\ s # {} /\ n + 1 \in s /\ \A i \in s : i <= n + 1
    BY <1>0, <2>1
  <2>3. Max(s) = n + 1 /\ s \ {n + 1} = 1 .. n
    <3>1. Max(s) \in s /\ \A i \in s : i <= Max(s)
      <4> HIDE DEF s, N
      <4> QED BY <1>0, <2>2, LastOf
    <3>2. n + 1 <= Max(s) /\ Max(s) <= n + 1 /\ Max(s) \in Int
      <4>1. Max(s) \in Int
        BY <3>1
      <4> QED BY <3>1, <2>2, <4>1
    <3> QED BY <3>2
  <2>4. f[s] = cart_add(f[s \ {Max(s)}], c[Max(s)])
    <3> HIDE DEF s
    <3> QED BY <1>0, <1>1, <2>2 DEF PutsTogether
  <2>5. f[1 .. n] = d
    BY <1>4, <2>1, <1>0
  <2>6. f[s] = cart_add(d, line)
    <3> HIDE DEF s, d, line
    <3> QED BY <2>3, <2>4, <2>5 DEF line
  <2>7. d \in Seq(AnyLine) /\ Len(d) = n /\ \A i \in 1 .. n : d[i] = c[i]
    <3>1. 1 \in Int /\ n \in Int /\ \A i \in 1 .. n : c[i] \in AnyLine
      BY <2>1, <1>0
    <3>2. /\ d \in Seq(AnyLine) /\ Len(d) = (IF 1 <= n THEN n - 1 + 1 ELSE 0)
          /\ \A i \in 1 .. n - 1 + 1 : d[i] = c[1 + i - 1]
      BY <3>1, SubSeqProperties
    <3> QED BY <3>2, <1>4
  <2>8. line \in AnyLine /\ line.qty > 0 /\ line.menu_id \notin {c[i].menu_id : i \in 1 .. n}
    <3>1. n + 1 \in DOMAIN c /\ \A i \in 1 .. n : i \in DOMAIN c /\ i # n + 1
      BY <1>0, <2>1
    <3> QED BY <3>1 DEF OneLineEach
  <2>9. ~ HasLine(d, line.menu_id) /\ CanAdd(d, line)
    <3>1. DOMAIN d = 1 .. n /\ n < MAX_ORDER_ITEMS
      BY <2>7, <2>1, <1>0
    <3> HIDE DEF d, line
    <3> QED BY <2>7, <2>8, <3>1 DEF HasLine, CanAdd
  <2>10. f[s] = Append(d, line)
    <3> HIDE DEF s, d, line
    <3> QED BY <2>6, <2>9 DEF cart_add
  <2>11. SubSeq(c, 1, n + 1) = Append(d, line)
    <3>1. 1 \in Int /\ n + 1 \in Int /\ \A i \in 1 .. n + 1 : c[i] \in AnyLine
      BY <2>1, <1>0
    <3>2. /\ SubSeq(c, 1, n + 1) \in Seq(AnyLine)
          /\ Len(SubSeq(c, 1, n + 1)) = (IF 1 <= n + 1 THEN n + 1 - 1 + 1 ELSE 0)
          /\ \A i \in 1 .. n + 1 - 1 + 1 : SubSeq(c, 1, n + 1)[i] = c[1 + i - 1]
      BY <3>1, SubSeqProperties
    <3>3. /\ Append(d, line) \in Seq(AnyLine) /\ Len(Append(d, line)) = n + 1
          /\ \A i \in 1 .. n : Append(d, line)[i] = d[i]
          /\ Append(d, line)[n + 1] = line
      <4> HIDE DEF d, line
      <4> QED BY <2>7, <2>8, AppendProperties
    <3> DEFINE u == SubSeq(c, 1, n + 1)
               v == Append(d, line)
    <3>4. Len(u) = n + 1 /\ Len(v) = n + 1 /\ \A i \in 1 .. n + 1 : u[i] = v[i]
      <4>1. ASSUME NEW i \in 1 .. n + 1 PROVE u[i] = v[i]
        <5>1. u[i] = c[i]
          BY <3>2, <1>4
        <5>2. i \in 1 .. n \/ i = n + 1
          BY <1>4
        <5> HIDE DEF u
        <5> QED BY <5>1, <5>2, <3>3, <2>7
      <4> QED BY <3>2, <3>3, <4>1, <1>4
    <3> HIDE DEF u, v
    <3>5. u \in Seq(AnyLine) /\ v \in Seq(AnyLine)
      BY <3>2, <3>3 DEF u, v
    <3>6. u = v
      BY <3>4, <3>5
    <3> QED BY <3>6 DEF u, v
  <2> QED BY <2>10, <2>11
<1>5. N \in G
  <2> HIDE DEF G
  <2> QED BY <1>0, <1>3, <1>4, OneAfterAnother
<1>6. SubSeq(c, 1, N) = c
  BY SubSeqFull
<1> QED BY <1>0, <1>2, <1>5, <1>6

-----------------------------------------------------------------------------
(* Totals *)

Some(s) == CHOOSE x \in s : TRUE

\* g is how a fold adds up the values v over the subsets of S.
SumsOf(v, S, g) ==
    g = [s \in SUBSET S |-> IF s = {} THEN 0 ELSE v[Some(s)] + g[s \ {Some(s)}]]

\* The sums are those of numbers over a finite set.
Adds(v, S, g) == IsFiniteSet(S) /\ v \in [S -> Nat] /\ SumsOf(v, S, g)

\* The parts of a finite set are finite, and smaller without an element.
LEMMA SmallerParts ==
    ASSUME NEW S, IsFiniteSet(S), NEW s \in SUBSET S
    PROVE  /\ Cardinality(s) \in 0 .. Cardinality(S)
           /\ Cardinality(s) = 0 <=> s = {}
           /\ \A x \in s : Cardinality(s \ {x}) = Cardinality(s) - 1
<1>1. IsFiniteSet(s) /\ Cardinality(s) <= Cardinality(S)
  BY FS_Subset
<1>2. Cardinality(s) \in Nat /\ Cardinality(S) \in Nat
  BY <1>1, FS_CardinalityType
<1>3. Cardinality(s) = 0 <=> s = {}
  BY <1>1, FS_EmptySet
<1>4. \A x \in s : Cardinality(s \ {x}) = Cardinality(s) - 1
  BY <1>1, FS_RemoveElement
<1> QED BY <1>1, <1>2, <1>3, <1>4

\* Values can be added up.
LEMMA SumsExist ==
    ASSUME NEW S, IsFiniteSet(S), NEW v \in [S -> Nat]
    PROVE  \E g : SumsOf(v, S, g)
<1> DEFINE N == Cardinality(S)
           D == SUBSET S
           size == [s \in D |-> Cardinality(s)]
           prev == [s \in D |-> IF s = {} THEN {} ELSE s \ {Some(s)}]
           step == [s \in D |-> [w \in Nat |-> IF s = {} THEN w ELSE v[Some(s)] + w]]
<1>1. \A s \in D : s # {} => Some(s) \in s /\ Some(s) \in S
  BY DEF Some
<1>2. Descends(D, Nat, 0, N, size, prev, step)
  <2>1. N \in Nat
    BY FS_CardinalityType
  <2>2. size \in [D -> 0 .. N]
    BY SmallerParts
  <2>3. prev \in [D -> D]
    OBVIOUS
  <2>4. ASSUME NEW s \in D, size[s] > 0 PROVE size[prev[s]] < size[s]
    <3>1. size[s] = Cardinality(s) /\ Cardinality(s) \in 0 .. N
      BY SmallerParts
    <3>2. s # {}
      BY <2>4, <3>1, SmallerParts
    <3>3. prev[s] = s \ {Some(s)} /\ s \ {Some(s)} \in D
      BY <3>2
    <3>4. size[prev[s]] = Cardinality(s \ {Some(s)})
      BY <3>3
    <3>5. Cardinality(s \ {Some(s)}) = Cardinality(s) - 1
      BY <1>1, <3>2, SmallerParts
    <3> HIDE DEF size, prev, D
    <3> QED BY <2>1, <3>1, <3>4, <3>5
  <2>5. step \in [D -> [Nat -> Nat]]
    BY <1>1
  <2> HIDE DEF size, prev, step, D, N
  <2> QED BY <2>1, <2>2, <2>3, <2>4, <2>5 DEF Descends
<1>3. PICK g \in [D -> Nat] : \A s \in D :
          g[s] = IF size[s] = 0 THEN 0 ELSE step[s][g[prev[s]]]
  <2> HIDE DEF size, prev, step, D, N
  <2> QED BY <1>2, Recursion
<1> DEFINE h == [s \in D |-> IF s = {} THEN 0 ELSE v[Some(s)] + g[s \ {Some(s)}]]
<1>4. ASSUME NEW s \in D PROVE g[s] = h[s]
  <2>1. CASE s = {}
    <3>1. size[s] = 0
      BY <2>1, FS_EmptySet
    <3> QED BY <1>3, <2>1, <3>1
  <2>2. CASE s # {}
    <3>1. size[s] # 0 /\ prev[s] = s \ {Some(s)} /\ prev[s] \in D
      BY <2>2, SmallerParts
    <3>2. g[prev[s]] \in Nat /\ g[s] = step[s][g[prev[s]]]
      <4> HIDE DEF size, prev, step, D
      <4> QED BY <1>3, <1>4, <3>1
    <3>3. step[s][g[prev[s]]] = v[Some(s)] + g[prev[s]]
      <4> HIDE DEF size, prev, D
      <4> QED BY <2>2, <3>2, <1>4
    <3> QED BY <2>2, <3>1, <3>2, <3>3
  <2> QED BY <2>1, <2>2
<1>5. g = [s \in D |-> g[s]] /\ h = [s \in D |-> h[s]]
  BY <1>3
<1>6. g = h
  <2> HIDE DEF h
  <2> QED BY <1>4, <1>5
<1> QED BY <1>6 DEF SumsOf

\* The order in which a fold takes the values does not matter.
LEMMA AnyOrder ==
    ASSUME NEW S, NEW v, NEW g, Adds(v, S, g), NEW t \in SUBSET S
    PROVE  /\ g[t] \in Nat
           /\ t = {} => g[t] = 0
           /\ \A x \in t : g[t] = v[x] + g[t \ {x}]
<1> USE DEF Adds
<1> DEFINE Fine(s) == g[s] \in Nat /\ \A x \in s : g[s] = v[x] + g[s \ {x}]
           G == {n \in Nat : \A s \in SUBSET S : Cardinality(s) <= n => Fine(s)}
<1>1. g[{}] = 0
  BY DEF SumsOf
<1>2. 0 \in G
  <2>1. ASSUME NEW s \in SUBSET S, Cardinality(s) <= 0 PROVE Fine(s)
    <3>1. Cardinality(s) = 0
      BY <2>1, SmallerParts
    <3>2. s = {}
      BY <3>1, SmallerParts
    <3> QED BY <1>1, <3>2
  <2> HIDE DEF Fine
  <2> QED BY <2>1
<1>3. ASSUME NEW n \in Nat, n \in G PROVE n + 1 \in G
  <2>1. ASSUME NEW s \in SUBSET S, Cardinality(s) <= n + 1, s # {} PROVE Fine(s)
    <3> DEFINE c == Some(s)
    <3>1. s # {}
      BY <2>1
    <3>2. c \in s
      BY <3>1 DEF Some
    <3>3. g[s] = v[c] + g[s \ {c}]
      BY <2>1, <3>1 DEF SumsOf
    <3> HIDE DEF c
    <3>4. \A r \in SUBSET S : r \subseteq s /\ r # s => Fine(r)
      <4> SUFFICES ASSUME NEW r \in SUBSET S, r \subseteq s, r # s PROVE Fine(r)
        OBVIOUS
      <4>1. PICK x \in s : x \notin r
        OBVIOUS
      <4>2. IsFiniteSet(s \ {x}) /\ r \in SUBSET (s \ {x}) /\ s \ {x} \in SUBSET S
        BY <4>1, FS_Subset
      <4>3. Cardinality(r) <= Cardinality(s \ {x}) /\ Cardinality(s \ {x}) = Cardinality(s) - 1
        BY <4>1, <4>2, FS_Subset, SmallerParts
      <4>4. Cardinality(r) \in Nat /\ Cardinality(s) \in Nat
        BY SmallerParts
      <4>5. Cardinality(r) <= n
        BY <2>1, <4>3, <4>4, <1>3
      <4> HIDE DEF Fine
      <4> QED BY <1>3, <4>5
    <3>5. \A x \in s : s \ {x} \in SUBSET S /\ Fine(s \ {x})
      <4> HIDE DEF Fine
      <4> QED BY <3>4
    <3>6. v[c] \in Nat /\ g[s] \in Nat
      <4>1. v[c] \in Nat /\ g[s \ {c}] \in Nat
        BY <3>2, <3>5, <2>1
      <4> QED BY <3>3, <4>1
    <3>7. ASSUME NEW x \in s, x # c PROVE g[s] = v[x] + g[s \ {x}]
      <4>1. c \in s \ {x} /\ x \in s \ {c} /\ (s \ {x}) \ {c} = (s \ {c}) \ {x}
        BY <3>2, <3>7
      <4>2. g[s \ {x}] = v[c] + g[(s \ {x}) \ {c}]
        BY <3>5, <3>7, <4>1
      <4>3. g[s \ {c}] = v[x] + g[(s \ {c}) \ {x}]
        BY <3>5, <3>2, <4>1
      <4>4. Fine((s \ {x}) \ {c})
        <5>1. (s \ {x}) \ {c} \in SUBSET S /\ (s \ {x}) \ {c} # s
          BY <3>2
        <5> HIDE DEF Fine
        <5> QED BY <3>4, <5>1
      <4>5. g[(s \ {x}) \ {c}] \in Nat /\ v[x] \in Nat
        BY <4>4, <3>7, <2>1
      <4> DEFINE r == g[(s \ {x}) \ {c}]
      <4>6. g[s \ {c}] = v[x] + r /\ g[s \ {x}] = v[c] + r
        BY <4>1, <4>2, <4>3
      <4>7. r \in Nat /\ v[x] \in Nat /\ v[c] \in Nat
        BY <4>5, <3>6
      <4> HIDE DEF r
      <4> QED BY <3>3, <4>6, <4>7
    <3> QED BY <3>3, <3>6, <3>7
  <2>2. Fine({})
    BY <1>1
  <2> HIDE DEF Fine
  <2> QED BY <2>1, <2>2, <1>3
<1>4. Cardinality(t) \in G
  <2>1. Cardinality(t) \in Nat
    BY SmallerParts
  <2> HIDE DEF G
  <2> QED BY <1>2, <1>3, <2>1, OneAfterAnother
<1>5. Fine(t)
  <2>1. Cardinality(t) <= Cardinality(t)
    BY SmallerParts
  <2> HIDE DEF Fine
  <2> QED BY <1>4, <2>1
<1> QED BY <1>1, <1>5

\* What has no value does not change a sum.
LEMMA NothingMore ==
    ASSUME NEW S, NEW v, NEW g, Adds(v, S, g),
           NEW U \in SUBSET S, \A x \in S \ U : v[x] = 0
    PROVE  g[S] = g[U]
<1> DEFINE Same(s) == U \subseteq s => g[s] = g[U]
           G == {n \in Nat : \A s \in SUBSET S : Cardinality(s) = n => Same(s)}
<1>0. IsFiniteSet(S)
  BY DEF Adds
<1>1. ASSUME NEW s \in SUBSET S, U \subseteq s, s # U,
             \A x \in s : Same(s \ {x})
      PROVE  g[s] = g[U]
  <2>1. PICK x \in s : x \notin U
    BY <1>1
  <2>2. g[s] = v[x] + g[s \ {x}]
    BY <2>1, AnyOrder
  <2>3. v[x] = 0
    BY <2>1
  <2>4. g[s \ {x}] = g[U] /\ g[U] \in Nat
    BY <1>1, <2>1, AnyOrder
  <2> QED BY <2>2, <2>3, <2>4
<1>2. 0 \in G
  <2>1. ASSUME NEW s \in SUBSET S, Cardinality(s) = 0, U \subseteq s PROVE g[s] = g[U]
    <3>1. s = {}
      BY <2>1, <1>0, SmallerParts
    <3>2. s = U
      BY <2>1, <3>1
    <3> QED BY <3>2
  <2> QED BY <2>1
<1>3. ASSUME NEW n \in Nat, n \in G PROVE n + 1 \in G
  <2>1. ASSUME NEW s \in SUBSET S, Cardinality(s) = n + 1, U \subseteq s PROVE g[s] = g[U]
    <3>1. \A x \in s : s \ {x} \in SUBSET S /\ Cardinality(s \ {x}) = n
      <4>1. \A x \in s : Cardinality(s \ {x}) = Cardinality(s) - 1
        BY <1>0, SmallerParts
      <4> QED BY <4>1, <2>1, <1>3
    <3>2. \A x \in s : Same(s \ {x})
      <4> HIDE DEF Same
      <4> QED BY <3>1, <1>3
    <3>3. CASE s = U
      BY <3>3
    <3>4. CASE s # U
      <4> HIDE DEF Same
      <4> QED BY <1>1, <2>1, <3>2, <3>4
    <3> QED BY <3>3, <3>4
  <2>2. \A s \in SUBSET S : Cardinality(s) = n + 1 => Same(s)
    BY <2>1
  <2> HIDE DEF Same
  <2> QED BY <2>2, <1>3
<1>4. Cardinality(S) \in G
  <2>1. Cardinality(S) \in Nat
    BY FS_CardinalityType DEF Adds
  <2> HIDE DEF G
  <2> QED BY <1>2, <1>3, <2>1, OneAfterAnother
<1>5. Same(S)
  <2>1. S \in SUBSET S
    OBVIOUS
  <2> HIDE DEF Same
  <2> QED BY <1>4, <2>1
<1> QED BY <1>5

\* Each of the places 1 to N has the value of what is at it, nothing is at two
\* places, and what is at none has no value.
SameValues(N, v, M, w, at) ==
    /\ at \in [1 .. N -> M]
    /\ \A i, j \in 1 .. N : at[i] = at[j] => i = j
    /\ \A i \in 1 .. N : w[at[i]] = v[i]
    /\ \A x \in M : (\A i \in 1 .. N : at[i] # x) => w[x] = 0

\* Adding up by places is adding up by what is at the places.
LEMMA SameTotal ==
    ASSUME NEW N \in Nat, NEW v, NEW g, Adds(v, 1 .. N, g), NEW M, NEW w, NEW h, Adds(w, M, h),
           NEW at, SameValues(N, v, M, w, at)
    PROVE  g[1 .. N] = h[M]
<1> USE DEF SameValues
<1> DEFINE Upto(n) == {at[i] : i \in 1 .. n}
           G == {n \in Nat : n <= N => g[1 .. n] = h[Upto(n)]}
<1>1. 0 \in G
  <2>1. 1 .. 0 = {} /\ Upto(0) = {}
    OBVIOUS
  <2>2. g[{}] = 0 /\ h[{}] = 0
    BY DEF Adds, SumsOf
  <2> QED BY <2>1, <2>2
<1>2. ASSUME NEW n \in Nat, n \in G PROVE n + 1 \in G
  <2> SUFFICES ASSUME n + 1 <= N PROVE g[1 .. n + 1] = h[Upto(n + 1)]
    OBVIOUS
  <2> DEFINE s == 1 .. n + 1
             t == Upto(n + 1)
             x == at[n + 1]
  <2>1. n + 1 \in 1 .. N /\ n + 1 \in s /\ s \in SUBSET (1 .. N) /\ s \ {n + 1} = 1 .. n
    BY <1>2
  <2>2. t \in SUBSET M /\ x \in t
    BY <2>1
  <2>3. t \ {x} = Upto(n)
    <3>1. \A i \in 1 .. n : i \in 1 .. N /\ i # n + 1 /\ i \in s
      BY <1>2
    <3>2. \A i \in 1 .. n : at[i] # x
      BY <2>1, <3>1
    <3>3. \A i \in s : i = n + 1 \/ i \in 1 .. n
      BY <1>2
    <3> QED BY <3>1, <3>2, <3>3
  <2>4. g[1 .. n] = h[Upto(n)]
    BY <1>2
  <2>5. g[s] = v[n + 1] + g[s \ {n + 1}]
    <3> DEFINE all == 1 .. N
    <3>1. Adds(v, all, g) /\ s \in SUBSET all
      BY <2>1
    <3> HIDE DEF s, all
    <3>2. \A i \in s : g[s] = v[i] + g[s \ {i}]
      BY <3>1, AnyOrder
    <3> QED BY <2>1, <3>2
  <2>6. h[t] = w[x] + h[t \ {x}]
    <3> HIDE DEF t, x
    <3> QED BY <2>2, AnyOrder
  <2>7. w[x] = v[n + 1]
    BY <2>1
  <2> HIDE DEF s, t, x, Upto
  <2>8. g[s] = h[t]
    BY <2>1, <2>3, <2>4, <2>5, <2>6, <2>7
  <2> QED BY <2>8 DEF s, t
<1>3. N \in G
  <2> HIDE DEF G
  <2> QED BY <1>1, <1>2, OneAfterAnother
<1>4. g[1 .. N] = h[Upto(N)]
  BY <1>3
<1>5. Upto(N) \in SUBSET M /\ \A x \in M \ Upto(N) : w[x] = 0
  OBVIOUS
<1>6. h[M] = h[Upto(N)]
  <2> HIDE DEF Upto
  <2> QED BY <1>5, NothingMore
<1> QED BY <1>4, <1>6

\* The total of a list with one line each, for the same price of an id on every
\* line: the sum over all ids of quantity times price.
LEMMA TotalIsSum ==
    ASSUME NEW c \in Seq(AnyLine), OneLineEach(c), NEW w \in [MenuIds -> Nat],
           \A i \in DOMAIN c : w[c[i].menu_id] = c[i].qty * c[i].price,
           \A id \in MenuIds : ~ HasLine(c, id) => w[id] = 0
    PROVE  cart_total(c) = Sum(w)
<1> DEFINE N == Len(c)
           v == [i \in 1 .. N |-> c[i].price * c[i].qty]
           at == [i \in 1 .. N |-> c[i].menu_id]
           CartSum(g) == g = [s \in SUBSET (DOMAIN c) |-> IF s = {} THEN 0
                                 ELSE LET x == CHOOSE x \in s : TRUE
                                      IN  c[x].price * c[x].qty + g[s \ {x}]]
           BagSum(h) == h = [s \in SUBSET (DOMAIN w) |-> IF s = {} THEN 0
                                 ELSE LET x == CHOOSE x \in s : TRUE
                                      IN  w[x] + h[s \ {x}]]
           g0 == CHOOSE g : CartSum(g)
           h0 == CHOOSE h : BagSum(h)
<1>0. N \in Nat /\ DOMAIN c = 1 .. N /\ DOMAIN w = MenuIds /\ IsFiniteSet(MenuIds)
  BY CartAssumption
<1>1. IsFiniteSet(1 .. N)
  <2>1. 1 \in Int /\ N \in Int
    BY <1>0
  <2> HIDE DEF N
  <2> QED BY <2>1, FS_Interval
<1>2. \A i \in 1 .. N : /\ c[i].menu_id \in MenuIds /\ c[i].price \in Nat /\ c[i].qty \in Nat
                        /\ c[i].price * c[i].qty \in Nat
                        /\ c[i].price * c[i].qty = c[i].qty * c[i].price
  <2> SUFFICES ASSUME NEW i \in 1 .. N
               PROVE  /\ c[i].menu_id \in MenuIds /\ c[i].price \in Nat /\ c[i].qty \in Nat
                      /\ c[i].price * c[i].qty \in Nat
                      /\ c[i].price * c[i].qty = c[i].qty * c[i].price
    OBVIOUS
  <2>1. c[i] \in AnyLine
    OBVIOUS
  <2>2. c[i].menu_id \in MenuIds /\ c[i].price \in Nat /\ c[i].qty \in Nat
    BY <2>1 DEF AnyLine
  <2>3. \A a, b \in Nat : a * b \in Nat /\ a * b = b * a
    OBVIOUS
  <2> QED BY <2>2, <2>3
<1>3. v \in [1 .. N -> Nat] /\ at \in [1 .. N -> MenuIds]
  BY <1>2
<1>4. \A g : CartSum(g) <=> SumsOf(v, 1 .. N, g)
  <2> SUFFICES ASSUME NEW g PROVE CartSum(g) <=> SumsOf(v, 1 .. N, g)
    OBVIOUS
  <2>1. \A s \in SUBSET (1 .. N) : s # {} => v[Some(s)] = c[Some(s)].price * c[Some(s)].qty
    BY DEF Some
  <2> DEFINE left == [s \in SUBSET (1 .. N) |-> IF s = {} THEN 0
                         ELSE c[Some(s)].price * c[Some(s)].qty + g[s \ {Some(s)}]]
             right == [s \in SUBSET (1 .. N) |-> IF s = {} THEN 0
                         ELSE v[Some(s)] + g[s \ {Some(s)}]]
  <2>2. left = right
    <3> HIDE DEF v, N
    <3> QED BY <2>1
  <2>3. CartSum(g) <=> g = left
    <3> HIDE DEF N
    <3> QED BY <1>0 DEF Some
  <2> HIDE DEF left
  <2> QED BY <2>2, <2>3 DEF SumsOf
<1>5. \A h : BagSum(h) <=> SumsOf(w, MenuIds, h)
  BY <1>0 DEF SumsOf, Some
<1>6. SumsOf(v, 1 .. N, g0)
  <2>1. \E g : SumsOf(v, 1 .. N, g)
    <3> HIDE DEF v, N
    <3> QED BY <1>1, <1>3, SumsExist
  <2>2. \E g : CartSum(g)
    <3> HIDE DEF CartSum, v, N
    <3> QED BY <1>4, <2>1
  <2>3. CartSum(g0)
    <3> HIDE DEF CartSum
    <3> QED BY <2>2
  <2> HIDE DEF CartSum, v, N, g0
  <2> QED BY <1>4, <2>3
<1>7. SumsOf(w, MenuIds, h0)
  <2>1. \E h : SumsOf(w, MenuIds, h)
    BY <1>0, SumsExist
  <2>2. \E h : BagSum(h)
    <3> HIDE DEF BagSum
    <3> QED BY <1>5, <2>1
  <2>3. BagSum(h0)
    <3> HIDE DEF BagSum
    <3> QED BY <2>2
  <2> HIDE DEF BagSum, h0
  <2> QED BY <1>5, <2>3
<1>8. cart_total(c) = g0[DOMAIN c]
  BY DEF cart_total, FoldSeq, FoldFunction, FoldFunctionOnSet, MapThenFoldSet
<1>9. Sum(w) = h0[DOMAIN w]
  BY DEF Sum, FoldFunction, FoldFunctionOnSet, MapThenFoldSet
<1>10. \A i, j \in 1 .. N : at[i] = at[j] => i = j
  BY <1>0 DEF OneLineEach
<1>11. \A i \in 1 .. N : w[at[i]] = v[i]
  BY <1>0, <1>2
<1>12. ASSUME NEW x \in MenuIds, \A i \in 1 .. N : at[i] # x PROVE w[x] = 0
  <2>1. ~ HasLine(c, x)
    BY <1>0, <1>12 DEF HasLine
  <2> QED BY <2>1
<1>13. SameValues(N, v, MenuIds, w, at)
  <2> HIDE DEF v, at, N
  <2> QED BY <1>3, <1>10, <1>11, <1>12 DEF SameValues
<1>14. Adds(v, 1 .. N, g0) /\ Adds(w, MenuIds, h0)
  BY <1>0, <1>1, <1>3, <1>6, <1>7 DEF Adds
<1>15. g0[1 .. N] = h0[MenuIds]
  <2> HIDE DEF v, at, N, g0, h0
  <2> QED BY <1>0, <1>13, <1>14, SameTotal
<1> QED BY <1>0, <1>8, <1>9, <1>15

-----------------------------------------------------------------------------
(* What a key leaves selected on the menu screen *)

\* The smallest of some indices.
LEMMA LeastIs ==
    ASSUME NEW T \in SUBSET Nat, T # {}
    PROVE  Min(T) \in T /\ \A k \in T : Min(T) <= k
<1>1. PICK n \in T : \A k \in T : n <= k
  BY Least
<1>2. n \in T /\ \A y \in T : n =< y
  BY <1>1
<1> QED BY <1>2 DEF Min

\* The menus are lists of items.
LEMMA CardsAreIndices ==
    ASSUME NEW c \in Catalogues, NEW k
    PROVE  /\ Len(c) \in Nat /\ Indices(c) \in SUBSET Nat
           /\ Visible(c, k) \in SUBSET Indices(c)
           /\ ForSaleIn(c, k) \in SUBSET Visible(c, k)
           /\ \A i \in Indices(c) : c[i + 1] \in MenuItem
<1>1. c \in Seq(MenuItem)
  BY TableScreenAssumption
<1>2. \A i \in Indices(c) : i + 1 \in 1 .. Len(c) /\ i \in Nat
  BY <1>1 DEF Indices
<1>3. \A i \in Indices(c) : c[i + 1] \in MenuItem
  BY <1>1, <1>2
<1> QED BY <1>1, <1>2, <1>3 DEF Visible, ForSaleIn

\* What is found is a card for sale, if it is another than before.
LEMMA FoundIs ==
    ASSUME NEW c \in Catalogues, NEW k, NEW start, NEW step, NEW s
    PROVE  Found(c, k, start, step, s) = s \/ Found(c, k, start, step, s) \in ForSaleIn(c, k)
<1> DEFINE At(n) == {i \in ForSaleIn(c, k) : VisiblePos(c, k, i) = start + n * step}
           hits  == {n \in Indices(c) : At(n) # {}}
<1>1. CASE hits = {}
  BY <1>1 DEF Found
<1>2. CASE hits # {}
  <2>1. Min(hits) \in hits
    <3>1. hits \in SUBSET Nat
      BY CardsAreIndices
    <3> HIDE DEF hits
    <3> QED BY <1>2, <3>1, LeastIs
  <2>2. At(Min(hits)) # {}
    BY <2>1
  <2> DEFINE f == CHOOSE i \in At(Min(hits)) : TRUE
  <2>3. f \in At(Min(hits))
    <3> HIDE DEF At, hits
    <3> QED BY <2>2
  <2>4. f \in ForSaleIn(c, k)
    <3> HIDE DEF f, hits
    <3> QED BY <2>3
  <2>5. Found(c, k, start, step, s) = f
    BY <1>2 DEF Found
  <2> QED BY <2>4, <2>5
<1> QED BY <1>1, <1>2

\* An index, and that of a card of the category if one is for sale.
LEMMA NormalizedIs ==
    ASSUME NEW c \in Catalogues, NEW k, NEW s \in Nat
    PROVE  /\ Normalized(c, k, s) \in Nat
           /\ Normalized(c, k, s) \in Visible(c, k) \/ ForSaleIn(c, k) = {}
<1> DEFINE shown == IF s \in Visible(c, k) THEN s
                    ELSE ui_menu_first_selectable_in_category(c, k)
           v == visible_sel(c, k, shown)
           before == Found(c, k, v - 1, -1, shown)
           after == Found(c, k, v + 1, 1, before)
<1>1. /\ ForSaleIn(c, k) \subseteq Visible(c, k) /\ Visible(c, k) \subseteq Nat
      /\ ForSaleIn(c, k) \in SUBSET Nat
  BY CardsAreIndices
<1>2. shown \in Nat /\ (shown \in Visible(c, k) \/ ForSaleIn(c, k) = {})
  <2>1. ForSaleIn(c, k) # {} => Min(ForSaleIn(c, k)) \in ForSaleIn(c, k)
    BY <1>1, LeastIs
  <2> QED BY <1>1, <2>1 DEF ui_menu_first_selectable_in_category
<1> HIDE DEF shown, v
<1>3. before = shown \/ before \in ForSaleIn(c, k)
  BY FoundIs
<1>4. after = before \/ after \in ForSaleIn(c, k)
  <2> HIDE DEF before
  <2> QED BY FoundIs
<1>5. Normalized(c, k, s) \in {shown, after} \/ (Normalized(c, k, s) = 0 /\ Visible(c, k) = {})
  BY DEF Normalized, shown, v
<1> HIDE DEF before, after
<1> QED BY <1>1, <1>2, <1>3, <1>4, <1>5

-----------------------------------------------------------------------------
(* The lists of lines *)

\* A list as the cart, a request and an order are.
ListOK(c) == c \in Seq(Line) /\ Len(c) <= MAX_ORDER_ITEMS /\ OneLineEach(c)

\* Every price is a number.
LEMMA PricesAreNumbers == AllPrices \subseteq Nat
<1>1. \A id \in MenuIds : Prices[id] \subseteq Nat \cup {NotForSale}
  BY CartAssumption
<1>2. ASSUME NEW p \in AllPrices PROVE p \in Nat
  <2>1. PICK id \in MenuIds : p \in Prices[id]
    BY DEF AllPrices
  <2>2. p # NotForSale
    BY DEF AllPrices
  <2> QED BY <1>1, <2>1, <2>2
<1> QED BY <1>2

\* Lines of the carts are lines.
LEMMA LinesAreLines == Line \subseteq AnyLine /\ Seq(Line) \subseteq Seq(AnyLine)
<1>1. 1 .. MAX_QTY \subseteq Nat /\ AllPrices \cup {0} \subseteq Nat
  BY CartAssumption, PricesAreNumbers
<1>2. Line \subseteq AnyLine
  BY <1>1 DEF Line, AnyLine
<1> HIDE DEF Line
<1> QED BY <1>2

\* No lines.
LEMMA NoLines == ListOK(<< >>) /\ Quantity(<< >>) = [id \in MenuIds |-> 0]
<1>1. ListOK(<< >>)
  BY CartAssumption DEF ListOK, OneLineEach
<1>2. << >> \in Seq(AnyLine) /\ OneLineEach(<< >>) /\ DOMAIN << >> = {}
  BY DEF OneLineEach
<1> DEFINE w == [id \in MenuIds |-> 0]
<1>3. w \in [MenuIds -> Nat] /\ \A id \in MenuIds : w[id] = 0
  OBVIOUS
<1>4. Quantity(<< >>) = w
  <2> HIDE DEF w
  <2> QED BY <1>2, <1>3, QuantityIs
<1> QED BY <1>1, <1>4

\* cart_add with one of an id, when the bound on quantities leaves room.
LEMMA OneMore ==
    ASSUME NEW c, ListOK(c), NEW line \in Line, line.qty = 1,
           HasLine(c, line.menu_id) => c[LineAt(c, line.menu_id)].qty < MAX_QTY
    PROVE  /\ ListOK(cart_add(c, line))
           /\ \/ cart_add(c, line) = c
              \/ Quantity(cart_add(c, line)) = [Quantity(c) EXCEPT ![line.menu_id] = @ + 1]
<1>1. c \in Seq(AnyLine) /\ OneLineEach(c) /\ line \in AnyLine /\ c \in Seq(Line)
  BY LinesAreLines DEF ListOK
<1>2. MAX_ORDER_ITEMS \in Nat /\ Len(c) \in Nat /\ Len(c) <= MAX_ORDER_ITEMS
  BY CartAssumption, <1>1 DEF ListOK
<1>3. Quantity(c) \in [MenuIds -> Nat] /\ line.menu_id \in MenuIds
  BY <1>1, QuantityFacts DEF AnyLine
<1>4. CASE ~ CanAdd(c, line)
  BY <1>4 DEF cart_add
<1>5. CASE CanAdd(c, line) /\ HasLine(c, line.menu_id)
  <2> DEFINE i == LineAt(c, line.menu_id)
             q == c[i].qty + 1
  <2>1. i \in DOMAIN c /\ c[i].menu_id = line.menu_id /\ c[i] \in Line
    <3>1. i \in 1 .. Len(c) /\ c[i].menu_id = line.menu_id
      BY <1>1, <1>5, TheLineFound
    <3> HIDE DEF i
    <3> QED BY <1>1, <3>1
  <2>2. q \in 1 .. MAX_QTY
    <3>1. c[i].qty \in 1 .. MAX_QTY /\ c[i].qty < MAX_QTY /\ MAX_QTY \in Nat
      BY <1>5, <2>1, CartAssumption DEF Line
    <3> QED BY <3>1
  <2>3. cart_add(c, line) = [c EXCEPT ![i].qty = q]
    BY <1>5 DEF cart_add
  <2> HIDE DEF i, q
  <2>4. Len(cart_add(c, line)) = Len(c) /\ OneLineEach(cart_add(c, line))
        /\ Quantity(cart_add(c, line)) = [Quantity(c) EXCEPT ![c[i].menu_id] = q]
    <3>1. cart_add(c, line) = WithQty(c, i, q) /\ q \in Nat
      BY <2>2, <2>3 DEF WithQty
    <3> QED BY <1>1, <2>1, <3>1, LineChanged
  <2>5. cart_add(c, line) \in Seq(Line)
    <3>1. [c[i] EXCEPT !.qty = q] \in Line
      BY <2>1, <2>2 DEF Line
    <3>2. cart_add(c, line) = [c EXCEPT ![i] = [c[i] EXCEPT !.qty = q]]
      BY <2>3
    <3> HIDE DEF Line
    <3> QED BY <1>1, <2>1, <3>1, <3>2
  <2>6. Quantity(c)[line.menu_id] = c[i].qty
    BY <1>1, <2>1, QuantityFacts
  <2>7. Quantity(cart_add(c, line)) = [Quantity(c) EXCEPT ![line.menu_id] = @ + 1]
    BY <2>1, <2>4, <2>6 DEF q
  <2> QED BY <1>2, <2>4, <2>5, <2>7 DEF ListOK
<1>6. CASE CanAdd(c, line) /\ ~ HasLine(c, line.menu_id)
  <2>1. cart_add(c, line) = Append(c, line) /\ Len(c) < MAX_ORDER_ITEMS
    BY <1>6 DEF cart_add, CanAdd
  <2>2. /\ Len(Append(c, line)) = Len(c) + 1 /\ OneLineEach(Append(c, line))
        /\ Quantity(Append(c, line)) = [Quantity(c) EXCEPT ![line.menu_id] = line.qty]
    BY <1>1, <1>6, LineAdded
  <2>3. Append(c, line) \in Seq(Line)
    <3> HIDE DEF Line
    <3> QED BY <1>1
  <2>4. Quantity(c)[line.menu_id] = 0
    BY <1>1, <1>3, <1>6, QuantityFacts
  <2>5. Quantity(Append(c, line)) = [Quantity(c) EXCEPT ![line.menu_id] = @ + 1]
    BY <2>2, <2>4
  <2>6. ListOK(Append(c, line))
    BY <1>2, <2>1, <2>2, <2>3 DEF ListOK
  <2> QED BY <2>1, <2>5, <2>6
<1> QED BY <1>4, <1>5, <1>6

\* cart_remove_line on the i-th line removes that line.
LEMMA LineGoes ==
    ASSUME NEW c, ListOK(c), NEW i \in DOMAIN c
    PROVE  /\ ListOK(cart_remove_line(c, c[i].menu_id))
           /\ Quantity(cart_remove_line(c, c[i].menu_id)) = [Quantity(c) EXCEPT ![c[i].menu_id] = 0]
<1>1. c \in Seq(AnyLine) /\ OneLineEach(c) /\ c \in Seq(Line)
  BY LinesAreLines DEF ListOK
<1>2. cart_remove_line(c, c[i].menu_id) = RemoveAt(c, i)
  BY <1>1, TheOnlyLine DEF cart_remove_line
<1>3. /\ Len(RemoveAt(c, i)) = Len(c) - 1 /\ OneLineEach(RemoveAt(c, i))
      /\ Quantity(RemoveAt(c, i)) = [Quantity(c) EXCEPT ![c[i].menu_id] = 0]
  BY <1>1, LineRemoved
<1>4. RemoveAt(c, i) \in Seq(Line)
  <2>1. i \in 1 .. Len(c)
    BY <1>1
  <2> HIDE DEF Line
  <2> QED BY <1>1, <2>1, RemoveAtFacts
<1>5. Len(c) \in Nat /\ MAX_ORDER_ITEMS \in Nat /\ Len(c) <= MAX_ORDER_ITEMS
  BY <1>1, CartAssumption DEF ListOK
<1> QED BY <1>2, <1>3, <1>4, <1>5 DEF ListOK

\* cart_set_qty on the i-th line sets its quantity, or removes it.
LEMMA QuantitySet ==
    ASSUME NEW c, ListOK(c), NEW i \in DOMAIN c, NEW q \in 0 .. MAX_QTY
    PROVE  /\ ListOK(cart_set_qty(c, c[i].menu_id, q))
           /\ Quantity(cart_set_qty(c, c[i].menu_id, q)) = [Quantity(c) EXCEPT ![c[i].menu_id] = q]
           /\ q > 0 => Len(cart_set_qty(c, c[i].menu_id, q)) = Len(c)
<1>1. c \in Seq(AnyLine) /\ OneLineEach(c) /\ c \in Seq(Line)
  BY LinesAreLines DEF ListOK
<1>2. HasLine(c, c[i].menu_id) /\ LineAt(c, c[i].menu_id) = i
  BY <1>1, TheOnlyLine
<1>3. q \in Nat /\ MAX_QTY \in Nat
  BY CartAssumption
<1>4. CASE q = 0
  <2>1. cart_set_qty(c, c[i].menu_id, q) = cart_remove_line(c, c[i].menu_id)
    BY <1>4 DEF cart_set_qty
  <2> QED BY <1>4, <2>1, LineGoes
<1>5. CASE q > 0
  <2> DEFINE d == cart_set_qty(c, c[i].menu_id, q)
  <2>1. d = [c EXCEPT ![i].qty = q]
    BY <1>2, <1>3, <1>5 DEF cart_set_qty
  <2> HIDE DEF d
  <2>2. Len(d) = Len(c) /\ OneLineEach(d) /\ Quantity(d) = [Quantity(c) EXCEPT ![c[i].menu_id] = q]
    <3>1. d = WithQty(c, i, q)
      BY <2>1 DEF WithQty
    <3> QED BY <1>1, <1>3, <3>1, LineChanged
  <2>3. d \in Seq(Line)
    <3>1. c[i] \in Line
      <4> HIDE DEF Line
      <4> QED BY <1>1
    <3>2. q \in 1 .. MAX_QTY
      BY <1>5, <1>3
    <3>3. [c[i] EXCEPT !.qty = q] \in Line
      BY <3>1, <3>2 DEF Line
    <3>4. d = [c EXCEPT ![i] = [c[i] EXCEPT !.qty = q]]
      BY <2>1
    <3> HIDE DEF Line
    <3> QED BY <1>1, <3>3, <3>4
  <2> QED BY <2>2, <2>3 DEF ListOK, d
<1> QED BY <1>3, <1>4, <1>5

\* ... and on any id leaves a list.
LEMMA AnyQuantitySet ==
    ASSUME NEW c, ListOK(c), NEW id, NEW q \in 0 .. MAX_QTY
    PROVE  ListOK(cart_set_qty(c, id, q))
<1>1. c \in Seq(AnyLine)
  BY LinesAreLines DEF ListOK
<1>2. CASE HasLine(c, id)
  <2>1. LineAt(c, id) \in DOMAIN c /\ c[LineAt(c, id)].menu_id = id
    BY <1>1, <1>2, TheLineFound
  <2> QED BY <2>1, QuantitySet
<1>3. CASE ~ HasLine(c, id)
  BY <1>3 DEF cart_set_qty, cart_remove_line
<1> QED BY <1>2, <1>3

\* The request is the cart without its prices.
LEMMA RequestIs ==
    ASSUME NEW c, ListOK(c),
           NEW d, d = [i \in DOMAIN c |-> [menu_id |-> c[i].menu_id, price |-> 0, qty |-> c[i].qty]]
    PROVE  ListOK(d)
<1>1. c \in Seq(Line) /\ Len(c) \in Nat /\ DOMAIN c = 1 .. Len(c) /\ OneLineEach(c)
      /\ Len(c) <= MAX_ORDER_ITEMS
  BY DEF ListOK
<1>2. \A i \in DOMAIN c : [menu_id |-> c[i].menu_id, price |-> 0, qty |-> c[i].qty] \in Line
  <2>1. \A i \in DOMAIN c : c[i] \in Line
    <3> HIDE DEF Line
    <3> QED BY <1>1
  <2> QED BY <2>1 DEF Line
<1>3. d \in Seq(Line) /\ Len(d) = Len(c) /\ DOMAIN d = DOMAIN c
  <2> HIDE DEF Line
  <2> QED BY <1>1, <1>2
<1>4. \A i \in DOMAIN d : d[i].menu_id = c[i].menu_id
  BY <1>3
<1> QED BY <1>1, <1>3, <1>4 DEF ListOK, OneLineEach

\* The order that the server makes of a request: the lines of the request, each
\* with the menu's price.
LEMMA OrderIs ==
    ASSUME NEW c, ListOK(c), ForSale(c),
           menu \in [MenuIds -> AllPrices \cup {NotForSale}]
    PROVE  /\ Rebuilt(Priced(c)) = Priced(c) /\ ListOK(Priced(c))
           /\ Len(Priced(c)) = Len(c)
           /\ \A i \in DOMAIN c : /\ Priced(c)[i].menu_id = c[i].menu_id
                                  /\ Priced(c)[i].qty = c[i].qty
                                  /\ Priced(c)[i].price = menu[c[i].menu_id]
<1> DEFINE d == Priced(c)
<1>1. c \in Seq(Line) /\ Len(c) \in Nat /\ DOMAIN c = 1 .. Len(c) /\ OneLineEach(c)
      /\ Len(c) <= MAX_ORDER_ITEMS
  BY DEF ListOK
<1>2. d = [i \in DOMAIN c |-> [c[i] EXCEPT !.price = menu[c[i].menu_id]]]
  BY DEF Priced
<1>3. \A i \in DOMAIN c : c[i] \in Line
  <2> HIDE DEF Line
  <2> QED BY <1>1
<1> HIDE DEF d
<1>4. ASSUME NEW i \in DOMAIN c
      PROVE  /\ d[i] \in Line /\ d[i].menu_id = c[i].menu_id /\ d[i].qty = c[i].qty
             /\ d[i].price = menu[c[i].menu_id] /\ d[i].qty > 0
  <2>1. d[i] = [c[i] EXCEPT !.price = menu[c[i].menu_id]]
    BY <1>2
  <2>2. menu[c[i].menu_id] \in AllPrices
    BY <1>3 DEF ForSale, Line
  <2> QED BY <1>3, <2>1, <2>2 DEF Line
<1>5. d \in Seq(Line) /\ Len(d) = Len(c) /\ DOMAIN d = DOMAIN c
  <2>1. d = [i \in DOMAIN c |-> d[i]]
    BY <1>2
  <2> HIDE DEF Line
  <2> QED BY <1>1, <1>4, <2>1
<1>6. ListOK(d)
  BY <1>1, <1>4, <1>5 DEF ListOK, OneLineEach
<1>7. Rebuilt(d) = d
  <2>1. d \in Seq(AnyLine) /\ OneLineEach(d) /\ Len(d) <= MAX_ORDER_ITEMS
        /\ \A i \in DOMAIN d : d[i].qty > 0
    BY <1>4, <1>5, <1>6, LinesAreLines DEF ListOK
  <2> QED BY <2>1, RebuiltIsSent
<1> QED BY <1>4, <1>5, <1>6, <1>7 DEF d

-----------------------------------------------------------------------------
(* The inductive invariant *)

\* No list ever has an id twice.
OneLines == \A lines \in {cart, request, order} : OneLineEach(lines)

\* The cart is opened from the sidebar, where the focus then stays.
FocusLeft == scr = "cart" => focus = "sidebar"

\* A selection that a key left on the menu screen is a card of the category.
CardSelected ==
    scr = "menu" /\ focus = "menu" /\ ~ loose =>
        sel \in Visible(cat, category) \/ ForSaleIn(cat, category) = {}

TInv == TableTypeOK /\ OneLines /\ FocusLeft /\ CardSelected /\ CartKeysActOnALine

\* What the invariant says of the lists of lines and the server's menu.
Lists ==
    /\ menu \in [MenuIds -> AllPrices \cup {NotForSale}]
    /\ ListOK(cart) /\ ListOK(request) /\ ListOK(order)

\* The invariant has the lists and the screen.
LEMMA ListsAre == Lists <=> CartTypeOK /\ OneLines
BY DEF Lists, CartTypeOK, OneLines, ListOK

\* The step of the cart as a bag.
BagStep == [Bag!Next]_(Quantity(cart))

\* One more of an id, when there is room for as many ids.
LEMMA BagMore ==
    ASSUME NEW id \in MenuIds, Quantity(cart') = [Quantity(cart) EXCEPT ![id] = @ + 1],
           Cardinality({x \in MenuIds : Quantity(cart')[x] > 0}) <= MAX_ORDER_ITEMS
    PROVE  BagStep
<1>1. Quantity(cart)' = Quantity(cart')
  BY DEF Quantity
<1>2. \A S : Bag!Cardinality(S) = Cardinality(S)
  BY DEF Cardinality, Bag!Cardinality
<1>3. Bag!More(id)
  BY <1>1, <1>2 DEF Bag!More, Bag!Chosen
<1> QED BY <1>3 DEF BagStep, Bag!Next

\* One less, all of an id gone, everything gone, and nothing done.
LEMMA BagOthers ==
    /\ \A id \in MenuIds :
           /\ Quantity(cart)[id] > 0 /\ Quantity(cart') = [Quantity(cart) EXCEPT ![id] = @ - 1]
                => BagStep
           /\ Quantity(cart') = [Quantity(cart) EXCEPT ![id] = 0] => BagStep
    /\ Quantity(cart') = [id \in MenuIds |-> 0] => BagStep
    /\ Quantity(cart') = Quantity(cart) => BagStep
<1>1. Quantity(cart)' = Quantity(cart')
  BY DEF Quantity
<1> QED BY <1>1 DEF BagStep, Bag!Next, Bag!Less, Bag!Drop, Bag!Clear

\* A list has room for its ids.
LEMMA Room ==
    ASSUME NEW c, ListOK(c)
    PROVE  Cardinality({x \in MenuIds : Quantity(c)[x] > 0}) <= MAX_ORDER_ITEMS
<1> DEFINE S == {x \in MenuIds : Quantity(c)[x] > 0}
<1>1. c \in Seq(AnyLine) /\ OneLineEach(c) /\ Len(c) \in Nat /\ Len(c) <= MAX_ORDER_ITEMS
  BY LinesAreLines DEF ListOK
<1>2. Cardinality(S) <= Len(c)
  BY <1>1, NoMoreIdsThanLines
<1>3. Cardinality(S) \in Nat
  <2>1. IsFiniteSet(S)
    BY CartAssumption, FS_Subset
  <2> HIDE DEF S
  <2> QED BY <2>1, FS_CardinalityType
<1> HIDE DEF S
<1>4. Cardinality(S) <= MAX_ORDER_ITEMS
  BY <1>1, <1>2, <1>3, CartAssumption
<1> QED BY <1>4 DEF S

\* ui_add puts in one of the id, or the cart is full.
LEMMA AddStep ==
    ASSUME Lists, NEW id \in MenuIds, NEW price \in AllPrices, ui_add(id, price)
    PROVE  Lists' /\ BagStep
<1> DEFINE line == [menu_id |-> id, price |-> price, qty |-> 1]
<1>1. line \in Line /\ line.qty = 1 /\ line.menu_id = id
  BY CartAssumption DEF Line
<1>2. cart' = cart_add(cart, line) /\ UNCHANGED <<menu, request, order>>
  BY DEF ui_add
<1>3. HasLine(cart, line.menu_id) => cart[LineAt(cart, line.menu_id)].qty < MAX_QTY
  BY DEF ui_add
<1> HIDE DEF line
<1>4. /\ ListOK(cart')
      /\ cart' = cart \/ Quantity(cart') = [Quantity(cart) EXCEPT ![id] = @ + 1]
  BY <1>1, <1>2, <1>3, OneMore DEF Lists
<1>5. Lists'
  BY <1>2, <1>4 DEF Lists
<1>6. CASE cart' = cart
  <2>1. Quantity(cart') = Quantity(cart)
    BY <1>6
  <2> QED BY <1>5, <2>1, BagOthers
<1>7. CASE Quantity(cart') = [Quantity(cart) EXCEPT ![id] = @ + 1]
  BY <1>4, <1>5, <1>7, Room, BagMore
<1> QED BY <1>4, <1>6, <1>7

\* The quantity of a line is that of its id.
LEMMA OfTheLine ==
    ASSUME Lists, NEW i \in DOMAIN cart
    PROVE  /\ cart[i] \in Line /\ cart[i].menu_id \in MenuIds
           /\ cart[i].qty \in 1 .. MAX_QTY /\ MAX_QTY \in Nat
           /\ Quantity(cart)[cart[i].menu_id] = cart[i].qty
<1>1. cart \in Seq(AnyLine) /\ OneLineEach(cart) /\ cart \in Seq(Line)
  BY LinesAreLines DEF Lists, ListOK
<1>2. cart[i] \in Line
  <2> HIDE DEF Line
  <2> QED BY <1>1
<1> QED BY <1>1, <1>2, CartAssumption, QuantityFacts DEF Line

\* + on a line is one more of its id.
LEMMA PlusStep ==
    ASSUME Lists, NEW i \in DOMAIN cart, ui_plus(i)
    PROVE  Lists' /\ BagStep /\ Len(cart') = Len(cart)
<1> DEFINE id == cart[i].menu_id
           q == cart[i].qty + 1
<1>1. cart' = cart_set_qty(cart, id, q) /\ UNCHANGED <<menu, request, order>>
  BY DEF ui_plus
<1>2. q \in 0 .. MAX_QTY /\ q > 0 /\ id \in MenuIds /\ Quantity(cart)[id] + 1 = q
  BY OfTheLine DEF ui_plus
<1> HIDE DEF q
<1>3. ListOK(cart') /\ Quantity(cart') = [Quantity(cart) EXCEPT ![id] = q] /\ Len(cart') = Len(cart)
  BY <1>1, <1>2, QuantitySet DEF Lists
<1>4. Lists'
  BY <1>1, <1>3 DEF Lists
<1> HIDE DEF id
<1>5. Quantity(cart') = [Quantity(cart) EXCEPT ![id] = @ + 1]
  BY <1>2, <1>3
<1> QED BY <1>2, <1>3, <1>4, <1>5, Room, BagMore

\* - on a line is one less of its id.
LEMMA MinusStep ==
    ASSUME Lists, NEW i \in DOMAIN cart, ui_minus(i)
    PROVE  Lists' /\ BagStep
<1> DEFINE id == cart[i].menu_id
           q == cart[i].qty - 1
<1>1. cart' = cart_set_qty(cart, id, q) /\ UNCHANGED <<menu, request, order>>
  BY DEF ui_minus
<1>2. q \in 0 .. MAX_QTY /\ id \in MenuIds /\ Quantity(cart)[id] - 1 = q /\ Quantity(cart)[id] > 0
  BY OfTheLine
<1> HIDE DEF q
<1>3. ListOK(cart') /\ Quantity(cart') = [Quantity(cart) EXCEPT ![id] = q]
  BY <1>1, <1>2, QuantitySet DEF Lists
<1>4. Lists'
  BY <1>1, <1>3 DEF Lists
<1> HIDE DEF id
<1>5. Quantity(cart') = [Quantity(cart) EXCEPT ![id] = @ - 1]
  BY <1>2, <1>3
<1> QED BY <1>2, <1>4, <1>5, BagOthers

\* r on a line is none of its id.
LEMMA RemoveStep ==
    ASSUME Lists, NEW i \in DOMAIN cart, ui_remove(i)
    PROVE  Lists' /\ BagStep
<1>1. cart' = cart_remove_line(cart, cart[i].menu_id) /\ UNCHANGED <<menu, request, order>>
  BY DEF ui_remove
<1>2. ListOK(cart') /\ Quantity(cart') = [Quantity(cart) EXCEPT ![cart[i].menu_id] = 0]
  BY <1>1, LineGoes DEF Lists
<1>3. Lists'
  BY <1>1, <1>2 DEF Lists
<1> QED BY <1>2, <1>3, OfTheLine, BagOthers

\* A cart that is sent is empty after.
LEMMA SubmitStep ==
    ASSUME Lists, ui_submit_cart_order
    PROVE  Lists' /\ BagStep
<1>1. /\ request' = [i \in DOMAIN cart |->
                        [menu_id |-> cart[i].menu_id, price |-> 0, qty |-> cart[i].qty]]
      /\ cart' = << >> /\ UNCHANGED <<menu, order>>
  BY DEF ui_submit_cart_order
<1>2. ListOK(request')
  BY <1>1, RequestIs DEF Lists
<1>3. Quantity(cart') = [id \in MenuIds |-> 0]
  BY <1>1, NoLines
<1>4. Lists'
  BY <1>1, <1>2, NoLines DEF Lists
<1> QED BY <1>3, <1>4, BagOthers

\* The server's steps leave lists of lines, and the cart.
LEMMA ServerKeepsLists ==
    ASSUME Lists, ServerStep
    PROVE  Lists' /\ cart' = cart
<1>1. CASE TakeOrder
  <2>1. ListOK(Rebuilt(Priced(request)))
    BY <1>1, OrderIs DEF Lists, TakeOrder
  <2>2. order' = Rebuilt(Priced(request)) /\ request' = << >> /\ UNCHANGED <<menu, cart>>
    BY <1>1 DEF TakeOrder
  <2> QED BY <2>1, <2>2, NoLines DEF Lists
<1>2. CASE RefuseOrder
  <2>1. request' = << >> /\ UNCHANGED <<menu, cart, order>>
    BY <1>2 DEF RefuseOrder
  <2> QED BY <2>1, NoLines DEF Lists
<1>3. CASE Answer
  <2>1. order' = << >> /\ UNCHANGED <<menu, cart, request>>
    BY <1>3 DEF Answer
  <2> QED BY <2>1, NoLines DEF Lists
<1>4. ASSUME NEW id \in MenuIds, EditMenu(id) PROVE Lists' /\ cart' = cart
  <2>1. PICK p \in Prices[id] : menu' = [menu EXCEPT ![id] = p]
    BY <1>4 DEF EditMenu
  <2>2. p \in AllPrices \cup {NotForSale}
    BY <2>1 DEF AllPrices
  <2>3. UNCHANGED <<cart, request, order>>
    BY <1>4 DEF EditMenu
  <2>4. menu' \in [MenuIds -> AllPrices \cup {NotForSale}]
    BY <2>1, <2>2 DEF Lists
  <2> QED BY <2>3, <2>4 DEF Lists
<1> QED BY <1>1, <1>2, <1>3, <1>4 DEF ServerStep

-----------------------------------------------------------------------------
(* Every key *)

\* What the invariant says of the screen.
ScreenOK ==
    /\ cat \in Catalogues
    /\ scr \in {"menu", "cart", "status"}
    /\ focus \in {"menu", "sidebar"}
    /\ category \in Categories
    /\ sel \in Nat
    /\ popup => scr = "cart" /\ cart # << >>
    /\ loose \in BOOLEAN
    /\ FocusLeft /\ CardSelected /\ CartKeysActOnALine

\* The invariant is that of the lists and that of the screen.
LEMMA TInvIs == TInv <=> Lists /\ ScreenOK
BY ListsAre DEF TInv, ScreenOK, TableTypeOK

\* What every step keeps and does.
StepOK ==
    /\ Lists' /\ ScreenOK'
    /\ scr # "cart" \/ popup \/ OnALine => BagStep
    /\ scr = "menu" /\ cart' # cart =>
           sel \in Visible(cat, category) \/ loose \/ ForSaleIn(cat, category) = {}

\* A step that leaves the cart and the rest of Cart has only the screen to keep.
LEMMA CartStays ==
    ASSUME Lists, UNCHANGED vars
    PROVE  Lists' /\ BagStep /\ cart' = cart
<1>1. Quantity(cart') = Quantity(cart)
  BY DEF vars
<1>2. UNCHANGED <<menu, cart, request, order>>
  BY DEF vars
<1> QED BY <1>1, <1>2, BagOthers DEF Lists

\* What is selected on the menu screen after a key.
LEMMA MenuKeyStep ==
    ASSUME ScreenOK, NEW f \in {"menu", "sidebar"}, NEW k \in Categories, NEW s \in Nat,
           MenuKey(f, k, s)
    PROVE  ScreenOK' /\ scr = "menu" /\ ~ popup
<1>1. /\ scr = "menu" /\ scr' = "menu" /\ focus' = f /\ category' = k
      /\ sel' = Normalized(cat, k, s) /\ loose' = FALSE /\ cat' = cat /\ popup' = popup
  BY DEF MenuKey
<1>2. cat \in Catalogues /\ ~ popup
  BY <1>1 DEF ScreenOK
<1>3. sel' \in Nat /\ (sel' \in Visible(cat, k) \/ ForSaleIn(cat, k) = {})
  BY <1>1, <1>2, NormalizedIs
<1>4. CardSelected' /\ FocusLeft' /\ CartKeysActOnALine'
  BY <1>1, <1>3 DEF CardSelected, FocusLeft, CartKeysActOnALine
<1> QED BY <1>1, <1>2, <1>3, <1>4 DEF ScreenOK

\* The keys of the menu screen that do not touch the cart.
LEMMA MenuScreenStep ==
    ASSUME Lists, ScreenOK, Arrow \/ ChooseCategory \/ OtherKey
    PROVE  StepOK
<1>0. cat \in Catalogues /\ sel \in Nat /\ focus \in {"menu", "sidebar"} /\ category \in Categories
  BY DEF ScreenOK
<1>1. UNCHANGED vars
  BY DEF Arrow, ChooseCategory, OtherKey
<1>2. \E f \in {"menu", "sidebar"}, k \in Categories, s \in Nat : MenuKey(f, k, s)
  <2>1. CASE Arrow
    <3>1. \A start, step : Found(cat, category, start, step, sel) \in Nat
      <4>1. ForSaleIn(cat, category) \subseteq Nat
        BY <1>0, CardsAreIndices
      <4> QED BY <1>0, <4>1, FoundIs
    <3> DEFINE v == visible_sel(cat, category, sel)
    <3>2. \/ \E step : MenuKey(focus, category, Found(cat, category, v + step, step, sel))
          \/ MenuKey("sidebar", category, sel)
          \/ MenuKey("menu", category, sel)
      BY <2>1 DEF Arrow
    <3> HIDE DEF v
    <3> QED BY <1>0, <3>1, <3>2
  <2>2. CASE ChooseCategory
    <3>1. \A k : ui_menu_first_selectable_in_category(cat, k) \in Nat
      <4> SUFFICES ASSUME NEW k PROVE ui_menu_first_selectable_in_category(cat, k) \in Nat
        OBVIOUS
      <4>1. ForSaleIn(cat, k) \in SUBSET Nat
        BY <1>0, CardsAreIndices
      <4> QED BY <4>1, LeastIs DEF ui_menu_first_selectable_in_category
    <3> QED BY <2>2, <3>1 DEF ChooseCategory
  <2>3. CASE OtherKey
    BY <1>0, <2>3 DEF OtherKey
  <2> QED BY <2>1, <2>2, <2>3
<1>3. ScreenOK'
  BY <1>2, MenuKeyStep
<1> QED BY <1>1, <1>3, CartStays DEF StepOK

\* Blank on a card.
LEMMA AddKeyStep == ASSUME Lists, ScreenOK, Add PROVE StepOK
<1>0. cat \in Catalogues /\ sel \in Nat /\ focus \in {"menu", "sidebar"} /\ category \in Categories
  BY DEF ScreenOK
<1>1. /\ focus = "menu" /\ sel \in Indices(cat)
      /\ ui_add(cat[sel + 1].id, cat[sel + 1].price) /\ MenuKey(focus, category, sel)
  BY DEF Add
<1>2. cat[sel + 1].id \in MenuIds /\ cat[sel + 1].price \in AllPrices
  <2>1. cat[sel + 1] \in MenuItem
    BY <1>0, <1>1, CardsAreIndices
  <2> QED BY <2>1 DEF MenuItem
<1>3. Lists' /\ BagStep
  BY <1>1, <1>2, AddStep
<1>4. ScreenOK' /\ scr = "menu"
  BY <1>0, <1>1, MenuKeyStep
<1>5. sel \in Visible(cat, category) \/ loose \/ ForSaleIn(cat, category) = {}
  BY <1>1, <1>4 DEF ScreenOK, CardSelected
<1> QED BY <1>3, <1>4, <1>5 DEF StepOK

\* CART and ORDER of the sidebar.
LEMMA OpenScreenStep ==
    ASSUME Lists, ScreenOK, NEW s \in {"cart", "status"}, OpenScreen(s)
    PROVE  StepOK
<1>1. /\ scr = "menu" /\ focus = "sidebar" /\ scr' = s /\ sel' = Normalized(cat, category, 0)
      /\ loose' = (s = "cart") /\ UNCHANGED <<cat, focus, category, popup, vars>>
  BY DEF OpenScreen
<1>2. Lists' /\ BagStep /\ cart' = cart
  BY <1>1, CartStays
<1>3. sel' \in Nat
  BY <1>1, NormalizedIs DEF ScreenOK
<1>4. ~ popup /\ ~ popup'
  BY <1>1 DEF ScreenOK
<1>5. FocusLeft' /\ CardSelected' /\ CartKeysActOnALine'
  BY <1>1 DEF FocusLeft, CardSelected, CartKeysActOnALine
<1>6. ScreenOK'
  BY <1>1, <1>3, <1>4, <1>5 DEF ScreenOK
<1> QED BY <1>2, <1>6 DEF StepOK

\* Another menu, and what goes on at the server.
LEMMA OutsideStep ==
    ASSUME Lists, ScreenOK, MenuArrives \/ (ServerStep /\ UNCHANGED screen)
    PROVE  StepOK
<1>1. CASE MenuArrives
  <2>1. cat' \in Catalogues /\ loose' = (loose \/ scr = "menu")
        /\ UNCHANGED <<scr, focus, category, sel, popup, vars>>
    BY <1>1 DEF MenuArrives
  <2>2. Lists' /\ BagStep /\ cart' = cart
    BY <2>1, CartStays
  <2>3. FocusLeft' /\ CardSelected' /\ CartKeysActOnALine'
    BY <2>1, <2>2 DEF ScreenOK, FocusLeft, CardSelected, CartKeysActOnALine, OnALine
  <2>4. ScreenOK'
    BY <2>1, <2>2, <2>3 DEF ScreenOK
  <2> QED BY <2>2, <2>4 DEF StepOK
<1>2. CASE ServerStep /\ UNCHANGED screen
  <2>1. UNCHANGED <<cat, scr, focus, category, sel, popup, loose>>
    BY <1>2 DEF screen
  <2>2. Lists' /\ cart' = cart
    BY <1>2, ServerKeepsLists
  <2>3. BagStep
    <3>1. Quantity(cart') = Quantity(cart)
      BY <2>2
    <3> QED BY <3>1, BagOthers
  <2>4. FocusLeft' /\ CardSelected' /\ CartKeysActOnALine'
    BY <2>1, <2>2 DEF ScreenOK, FocusLeft, CardSelected, CartKeysActOnALine, OnALine
  <2>5. ScreenOK'
    BY <2>1, <2>2, <2>4 DEF ScreenOK
  <2> QED BY <2>2, <2>3, <2>5 DEF StepOK
<1> QED BY <1>1, <1>2

\* On the cart screen only the selection and the lines matter.
LEMMA OnTheCartScreen ==
    ASSUME ScreenOK, Lists', CartKey, ~ popup', sel' \in Nat, loose' \in BOOLEAN, CartKeysActOnALine',
           scr # "cart" \/ popup \/ OnALine => BagStep
    PROVE  StepOK
<1>1. scr = "cart" /\ UNCHANGED <<cat, scr, focus, category>>
  BY DEF CartKey
<1>2. FocusLeft' /\ CardSelected'
  BY <1>1 DEF ScreenOK, FocusLeft, CardSelected
<1>3. ScreenOK'
  BY <1>1, <1>2 DEF ScreenOK
<1> QED BY <1>1, <1>3 DEF StepOK

\* - and r leave the selection on a line, if there is one.
LEMMA ClampedIs ==
    ASSUME NEW c, ListOK(c), NEW s \in Nat
    PROVE  Clamped(c, s) \in Nat /\ (c # << >> => Clamped(c, s) < Len(c))
<1>1. Len(c) \in Nat /\ (c # << >> => Len(c) > 0)
  BY DEF ListOK
<1>2. \A n \in Nat : Max({0, n - 1}) = IF n = 0 THEN 0 ELSE n - 1
  <2> SUFFICES ASSUME NEW n \in Nat PROVE Max({0, n - 1}) = IF n = 0 THEN 0 ELSE n - 1
    OBVIOUS
  <2> DEFINE top == IF n = 0 THEN 0 ELSE n - 1
  <2>1. top \in {0, n - 1} /\ \A y \in {0, n - 1} : top >= y
    OBVIOUS
  <2>2. \A x \in {0, n - 1} : (\A y \in {0, n - 1} : x >= y) => x = top
    OBVIOUS
  <2> HIDE DEF top
  <2>3. Max({0, n - 1}) = top
    BY <2>1, <2>2 DEF Max
  <2> QED BY <2>3 DEF top
<1> QED BY <1>1, <1>2 DEF Clamped

\* Up and down, +, - and r, and the same keys behind the last line.
LEMMA LineKeyStep ==
    ASSUME Lists, ScreenOK, CartUpDown \/ Plus \/ MinusOrRemove \/ KeyOffTheLines
    PROVE  StepOK
<1>0. /\ sel \in Nat /\ loose \in BOOLEAN /\ CartKeysActOnALine
      /\ cart \in Seq(Line) /\ Len(cart) \in Nat /\ DOMAIN cart = 1 .. Len(cart)
      /\ cart # << >> => Len(cart) > 0
  BY DEF Lists, ListOK, ScreenOK
<1>1. CASE CartUpDown
  <2>1. /\ CartKey /\ cart # << >> /\ ~ popup /\ popup' = popup /\ UNCHANGED vars /\ loose' = FALSE
        /\ \E d \in {1, Len(cart) - 1} : sel' = (sel + d) % Len(cart)
    BY <1>1 DEF CartUpDown, CartKey
  <2>2. Lists' /\ BagStep /\ cart' = cart
    BY <2>1, CartStays
  <2>3. sel' \in Nat /\ sel' < Len(cart)
    <3>1. \A a \in Nat, b \in Nat : b > 0 => a % b \in Nat /\ a % b < b
      OBVIOUS
    <3>2. PICK d \in {1, Len(cart) - 1} : sel' = (sel + d) % Len(cart)
      BY <2>1
    <3>3. Len(cart) > 0 /\ Len(cart) \in Nat /\ sel \in Nat
      BY <1>0, <2>1
    <3>4. d \in Nat
      BY <3>3
    <3>5. sel + d \in Nat
      BY <3>3, <3>4
    <3> QED BY <3>1, <3>2, <3>3, <3>5
  <2>4. CartKeysActOnALine'
    BY <2>2, <2>3 DEF CartKeysActOnALine, OnALine
  <2> QED BY <2>1, <2>2, <2>3, <2>4, OnTheCartScreen
<1>2. CASE Plus
  <2>1. /\ CartKey /\ OnALine /\ ui_plus(sel + 1) /\ ~ popup
        /\ popup' = popup /\ sel' = sel /\ loose' = loose
    BY <1>2 DEF Plus, CartKey
  <2>2. sel + 1 \in DOMAIN cart
    BY <1>0, <2>1 DEF OnALine
  <2>3. Lists' /\ BagStep /\ Len(cart') = Len(cart)
    BY <2>1, <2>2, PlusStep
  <2>4. CartKeysActOnALine'
    BY <2>1, <2>3 DEF CartKeysActOnALine, OnALine
  <2> QED BY <1>0, <2>1, <2>3, <2>4, OnTheCartScreen
<1>3. CASE MinusOrRemove
  <2>1. /\ CartKey /\ OnALine /\ (ui_minus(sel + 1) \/ ui_remove(sel + 1))
        /\ ~ popup /\ popup' = popup /\ sel' = Clamped(cart', sel) /\ loose' = FALSE
    BY <1>3 DEF MinusOrRemove, CartKey
  <2>2. sel + 1 \in DOMAIN cart
    BY <1>0, <2>1 DEF OnALine
  <2>3. Lists' /\ BagStep
    BY <2>1, <2>2, MinusStep, RemoveStep
  <2>4. sel' \in Nat /\ (cart' # << >> => sel' < Len(cart'))
    BY <1>0, <2>1, <2>3, ClampedIs DEF Lists
  <2>5. CartKeysActOnALine'
    BY <2>4 DEF CartKeysActOnALine, OnALine
  <2> QED BY <2>1, <2>3, <2>4, <2>5, OnTheCartScreen
<1>4. CASE KeyOffTheLines
  <2>1. /\ CartKey /\ scr = "cart" /\ cart # << >> /\ ~ OnALine /\ ~ popup /\ popup' = popup
        /\ \E id \in MenuIds, qty \in 0 .. MAX_QTY : cart' = cart_set_qty(cart, id, qty)
        /\ \/ sel' = sel /\ loose' = loose
           \/ sel' = Clamped(cart', sel) /\ loose' = FALSE
        /\ UNCHANGED <<menu, request, order>>
    BY <1>4 DEF KeyOffTheLines, CartKey
  <2>2. Lists'
    BY <2>1, AnyQuantitySet DEF Lists
  <2>3. sel' \in Nat /\ loose' \in BOOLEAN /\ CartKeysActOnALine'
    <3>1. CASE sel' = sel /\ loose' = loose
      <4>1. loose
        BY <1>0, <2>1 DEF CartKeysActOnALine
      <4> QED BY <1>0, <3>1, <4>1 DEF CartKeysActOnALine
    <3>2. CASE sel' = Clamped(cart', sel) /\ loose' = FALSE
      BY <1>0, <2>2, <3>2, ClampedIs DEF Lists, CartKeysActOnALine, OnALine
    <3> QED BY <2>1, <3>1, <3>2
  <2> QED BY <2>1, <2>2, <2>3, OnTheCartScreen
<1> QED BY <1>1, <1>2, <1>3, <1>4

\* The question before an order is sent, its answers, and m.
LEMMA ConfirmStep ==
    ASSUME Lists, ScreenOK, AskToConfirm \/ Confirm \/ Decline \/ CartToMenu
    PROVE  StepOK
<1>1. CASE AskToConfirm
  <2>1. /\ scr = "cart" /\ cart # << >> /\ UNCHANGED <<cat, scr, focus, category, sel, loose, vars>>
    BY <1>1 DEF AskToConfirm, CartKey
  <2>2. Lists' /\ BagStep /\ cart' = cart
    BY <2>1, CartStays
  <2>3. FocusLeft' /\ CardSelected' /\ CartKeysActOnALine'
    BY <2>1, <2>2 DEF ScreenOK, FocusLeft, CardSelected, CartKeysActOnALine, OnALine
  <2>4. ScreenOK'
    BY <2>1, <2>2, <2>3 DEF ScreenOK
  <2> QED BY <2>1, <2>2, <2>4 DEF StepOK
<1>2. CASE Confirm
  <2>1. /\ popup /\ ui_submit_cart_order /\ scr' = "status" /\ sel' = 0 /\ popup' = FALSE
        /\ loose' = FALSE /\ UNCHANGED <<cat, focus, category>>
    BY <1>2 DEF Confirm
  <2>2. Lists' /\ BagStep
    BY <2>1, SubmitStep
  <2>3. FocusLeft' /\ CardSelected' /\ CartKeysActOnALine'
    BY <2>1 DEF FocusLeft, CardSelected, CartKeysActOnALine
  <2>4. scr = "cart"
    BY <2>1 DEF ScreenOK
  <2>5. ScreenOK'
    BY <2>1, <2>3 DEF ScreenOK
  <2> QED BY <2>2, <2>4, <2>5 DEF StepOK
<1>3. CASE Decline
  <2>1. popup /\ popup' = FALSE /\ UNCHANGED <<cat, scr, focus, category, sel, loose, vars>>
    BY <1>3 DEF Decline
  <2>2. Lists' /\ BagStep /\ cart' = cart
    BY <2>1, CartStays
  <2>3. FocusLeft' /\ CardSelected' /\ CartKeysActOnALine'
    BY <2>1, <2>2 DEF ScreenOK, FocusLeft, CardSelected, CartKeysActOnALine, OnALine
  <2>4. ScreenOK'
    BY <2>1, <2>3 DEF ScreenOK
  <2> QED BY <2>2, <2>4 DEF StepOK
<1>4. CASE CartToMenu
  <2>1. /\ scr = "cart" /\ ~ popup /\ scr' = "menu" /\ sel' = 0 /\ loose' = FALSE
        /\ UNCHANGED <<cat, focus, category, popup, vars>>
    BY <1>4 DEF CartToMenu
  <2>2. Lists' /\ BagStep /\ cart' = cart
    BY <2>1, CartStays
  <2>3. focus = "sidebar"
    BY <2>1 DEF ScreenOK, FocusLeft
  <2>4. FocusLeft' /\ CardSelected' /\ CartKeysActOnALine'
    BY <2>1, <2>3 DEF FocusLeft, CardSelected, CartKeysActOnALine
  <2>5. ScreenOK'
    BY <2>1, <2>4 DEF ScreenOK
  <2> QED BY <2>2, <2>5 DEF StepOK
<1> QED BY <1>1, <1>2, <1>3, <1>4

\* The order list.
LEMMA StatusStep == ASSUME Lists, ScreenOK, StatusMoves \/ StatusToMenu PROVE StepOK
<1>1. CASE StatusMoves
  <2>1. /\ scr = "status" /\ sel' \in 0 .. MAX_ROWS - 1
        /\ UNCHANGED <<cat, scr, focus, category, popup, loose, vars>>
    BY <1>1 DEF StatusMoves
  <2>2. Lists' /\ BagStep /\ cart' = cart
    BY <2>1, CartStays
  <2>3. ~ popup /\ sel' \in Nat
    BY <2>1, TableScreenAssumption DEF ScreenOK
  <2>4. FocusLeft' /\ CardSelected' /\ CartKeysActOnALine'
    BY <2>1 DEF FocusLeft, CardSelected, CartKeysActOnALine
  <2>5. ScreenOK'
    BY <2>1, <2>3, <2>4 DEF ScreenOK
  <2> QED BY <2>2, <2>5 DEF StepOK
<1>2. CASE StatusToMenu
  <2>1. /\ scr = "status" /\ scr' = "menu" /\ focus' = "menu" /\ loose' = TRUE
        /\ UNCHANGED <<cat, category, sel, popup, vars>>
    BY <1>2 DEF StatusToMenu
  <2>2. Lists' /\ BagStep /\ cart' = cart
    BY <2>1, CartStays
  <2>3. ~ popup
    BY <2>1 DEF ScreenOK
  <2>4. FocusLeft' /\ CardSelected' /\ CartKeysActOnALine'
    BY <2>1 DEF FocusLeft, CardSelected, CartKeysActOnALine
  <2>5. ScreenOK'
    BY <2>1, <2>3, <2>4 DEF ScreenOK
  <2> QED BY <2>2, <2>5 DEF StepOK
<1> QED BY <1>1, <1>2

\* Every step is fine.
LEMMA TableStep == TInv /\ [TableNext]_tableVars => StepOK
<1> SUFFICES ASSUME Lists, ScreenOK, [TableNext]_tableVars PROVE StepOK
  BY TInvIs
<1>1. CASE UNCHANGED tableVars
  <2>1. UNCHANGED <<cat, scr, focus, category, sel, popup, loose, vars>>
    BY <1>1 DEF tableVars, screen
  <2>2. Lists' /\ BagStep /\ cart' = cart
    BY <2>1, CartStays
  <2>3. FocusLeft' /\ CardSelected' /\ CartKeysActOnALine'
    BY <2>1, <2>2 DEF ScreenOK, FocusLeft, CardSelected, CartKeysActOnALine, OnALine
  <2>4. ScreenOK'
    BY <2>1, <2>2, <2>3 DEF ScreenOK
  <2> QED BY <2>2, <2>4 DEF StepOK
<1> QED BY <1>1, MenuScreenStep, AddKeyStep, OpenScreenStep, OutsideStep, LineKeyStep,
           ConfirmStep, StatusStep DEF TableNext

\* The invariant holds when the table's screen comes up.
LEMMA TableStarts == TableInit => TInv
<1> SUFFICES ASSUME TableInit PROVE Lists /\ ScreenOK
  BY TInvIs
<1>1. menu \in [MenuIds -> AllPrices] /\ cart = << >> /\ request = << >> /\ order = << >>
  BY DEF TableInit, Init
<1>2. Lists
  BY <1>1, NoLines DEF Lists
<1>3. /\ cat \in Catalogues /\ scr = "menu" /\ focus = "menu" /\ category = All /\ sel = 0
      /\ popup = FALSE /\ loose = FALSE
  BY DEF TableInit
<1>4. sel \in Visible(cat, category) \/ ForSaleIn(cat, category) = {}
  <2>1. Len(cat) \in Nat /\ Indices(cat) = 0 .. Len(cat) - 1
    BY <1>3, CardsAreIndices DEF Indices
  <2>2. CASE Len(cat) = 0
    <3>1. Indices(cat) = {}
      BY <2>1, <2>2
    <3> QED BY <1>3, <3>1, CardsAreIndices
  <2>3. CASE Len(cat) # 0
    <3>1. 0 \in Indices(cat)
      BY <2>1, <2>3
    <3> QED BY <1>3, <3>1 DEF Visible, ui_menu_match_category
  <2> QED BY <2>2, <2>3
<1>5. FocusLeft /\ CardSelected /\ CartKeysActOnALine
  BY <1>3, <1>4 DEF FocusLeft, CardSelected, CartKeysActOnALine
<1> QED BY <1>2, <1>3, <1>5, TableScreenAssumption DEF ScreenOK

\* ... and for ever.
LEMMA TableInvariance == TableSpec => []TInv
<1>1. TInv /\ [TableNext]_tableVars => TInv'
  <2>1. StepOK => Lists' /\ ScreenOK'
    BY DEF StepOK
  <2>2. Lists' /\ ScreenOK' => TInv'
    BY TInvIs, PTL
  <2> QED BY <2>1, <2>2, TableStep
<1> QED BY <1>1, TableStarts, PTL DEF TableSpec

\* At every time each variable has its type, no list has a line too many or an
\* empty one, and y only answers a question about a cart with lines.
THEOREM TableTypeCorrect == TableSpec => []TableTypeOK
<1>1. TInv => TableTypeOK
  BY DEF TInv
<1> QED BY <1>1, TableInvariance, PTL

\* Whatever menus come in and whatever keys are pressed: after a key of the cart
\* screen has moved or clamped the selection, the next acts on a line.
THEOREM KeysActOnALine == TableSpec => []CartKeysActOnALine
<1>1. TInv => CartKeysActOnALine
  BY DEF TInv
<1> QED BY <1>1, TableInvariance, PTL

\* A blank on the menu screen puts an item into the cart whose card is shown, but
\* for the cases that AddsACardShown names.
THEOREM AddsWhatIsShown == TableSpec => AddsACardShown
<1>1. TInv /\ [TableNext]_tableVars =>
          [scr = "menu" /\ cart' # cart => \/ sel \in Visible(cat, category)
                                           \/ loose
                                           \/ ForSaleIn(cat, category) = {}]_tableVars
  BY TableStep DEF StepOK
<1> QED BY <1>1, TableInvariance, PTL DEF TableSpec, AddsACardShown

\* The cart implements a bag of menu ids: it starts empty, and every key on a line
\* adds one, takes one, takes all of an id or clears it.
THEOREM CartImplementsBag == TableSpec => CartIsABag
<1>1. TableInit => Bag!Init
  <2>1. TableInit => cart = << >>
    BY DEF TableInit, Init
  <2> QED BY <2>1, NoLines DEF Bag!Init
<1>2. TInv /\ [TableNext]_tableVars =>
          [scr # "cart" \/ popup \/ OnALine => BagStep]_tableVars
  BY TableStep DEF StepOK
<1>3. [scr # "cart" \/ popup \/ OnALine => BagStep]_tableVars =>
          [scr # "cart" \/ popup \/ OnALine => [Bag!Next]_(Quantity(cart))]_tableVars
  BY DEF BagStep
<1> QED BY <1>1, <1>2, <1>3, TableInvariance, PTL DEF TableSpec, CartIsABag

\* Only the server's TakeOrder makes an order.
LEMMA OnlyTakeOrderTakes ==
    ASSUME [TableNext]_tableVars, order' # order, order' # << >>
    PROVE  TakeOrder
<1>1. [TableNext]_tableVars => order' = order \/ order' = << >> \/ TakeOrder
  BY DEF tableVars, vars, TableNext, MenuArrives, Arrow, ChooseCategory, OtherKey, Add, ui_add,
         OpenScreen, CartUpDown, Plus, ui_plus, MinusOrRemove, ui_minus, ui_remove,
         KeyOffTheLines, AskToConfirm, Confirm, ui_submit_cart_order, Decline, CartToMenu,
         StatusMoves, StatusToMenu, ServerStep, RefuseOrder, Answer, EditMenu
<1> QED BY <1>1

\* An order that is taken is the request at the prices of the menu.
LEMMA TakenIsSent ==
    ASSUME Lists, TakeOrder
    PROVE  LET sent == Quantity(request)
           IN  /\ Quantity(order') = sent
               /\ \A id \in MenuIds : sent[id] > 0 => menu[id] # NotForSale
               /\ cart_total(order') =
                      Sum([id \in MenuIds |->
                              IF sent[id] = 0 THEN 0 ELSE sent[id] * menu[id]])
<1> DEFINE sent == Quantity(request)
           w == [id \in MenuIds |-> IF sent[id] = 0 THEN 0 ELSE sent[id] * menu[id]]
           d == Priced(request)
<1>1. /\ menu \in [MenuIds -> AllPrices \cup {NotForSale}] /\ ListOK(request)
      /\ ForSale(request) /\ order' = Rebuilt(d)
  BY DEF Lists, TakeOrder
<1>2. /\ order' = d /\ ListOK(d) /\ Len(d) = Len(request)
      /\ \A i \in DOMAIN request : /\ d[i].menu_id = request[i].menu_id
                                   /\ d[i].qty = request[i].qty
                                   /\ d[i].price = menu[request[i].menu_id]
  BY <1>1, OrderIs
<1> HIDE DEF d
<1>3. /\ d \in Seq(AnyLine) /\ OneLineEach(d) /\ request \in Seq(AnyLine) /\ OneLineEach(request)
      /\ request \in Seq(Line)
  BY <1>1, <1>2, LinesAreLines DEF ListOK
<1>4. DOMAIN d = DOMAIN request
  BY <1>2, <1>3
<1>5. /\ sent \in [MenuIds -> Nat]
      /\ \A i \in DOMAIN request : sent[request[i].menu_id] = request[i].qty
      /\ \A id \in MenuIds : ~ HasLine(request, id) => sent[id] = 0
  BY <1>3, QuantityFacts
<1>6. \A id : HasLine(d, id) <=> HasLine(request, id)
  BY <1>2, <1>4 DEF HasLine
<1>7. \A i \in DOMAIN request : /\ request[i].menu_id \in MenuIds /\ request[i].qty > 0
                                /\ request[i].qty \in Nat
                                /\ menu[request[i].menu_id] # NotForSale
  <2>1. \A i \in DOMAIN request : request[i] \in Line
    <3> HIDE DEF Line
    <3> QED BY <1>3
  <2>2. 1 .. MAX_QTY \subseteq Nat /\ \A q \in 1 .. MAX_QTY : q > 0
    BY CartAssumption
  <2> QED BY <1>1, <2>1, <2>2 DEF Line, ForSale
<1> HIDE DEF sent
<1>8. Quantity(order') = sent
  <2>1. \A i \in DOMAIN d : sent[d[i].menu_id] = d[i].qty
    BY <1>2, <1>4, <1>5
  <2>2. \A id \in MenuIds : ~ HasLine(d, id) => sent[id] = 0
    BY <1>5, <1>6
  <2> QED BY <1>2, <1>3, <1>5, <2>1, <2>2, QuantityIs
<1>9. \A id \in MenuIds : sent[id] > 0 => menu[id] # NotForSale /\ menu[id] \in Nat
  <2> SUFFICES ASSUME NEW id \in MenuIds, sent[id] > 0
               PROVE  menu[id] # NotForSale /\ menu[id] \in Nat
    OBVIOUS
  <2>1. HasLine(request, id)
    BY <1>5
  <2>2. menu[id] # NotForSale
    BY <2>1, <1>7 DEF HasLine
  <2> QED BY <1>1, <2>2, PricesAreNumbers
<1>10. w \in [MenuIds -> Nat]
  <2>1. \A a, b \in Nat : a * b \in Nat
    OBVIOUS
  <2>2. \A id \in MenuIds : sent[id] \in Nat /\ (sent[id] # 0 => menu[id] \in Nat)
    BY <1>5, <1>9
  <2> QED BY <2>1, <2>2
<1>11. \A i \in DOMAIN d : w[d[i].menu_id] = d[i].qty * d[i].price
  BY <1>2, <1>4, <1>5, <1>7
<1>12. \A id \in MenuIds : ~ HasLine(d, id) => w[id] = 0
  BY <1>5, <1>6
<1>13. cart_total(order') = Sum(w)
  <2> HIDE DEF w
  <2> QED BY <1>2, <1>3, <1>10, <1>11, <1>12, TotalIsSum
<1> QED BY <1>8, <1>9, <1>13 DEF sent

\* For any prices and menus, an order has the quantities that were confirmed, each
\* at the price of the moment, its total is their sum, and nothing in it is not
\* for sale.
THEOREM OrdersAreWhatWasSent == TableSpec => OrderIsWhatWasSent
<1> DEFINE Taken ==
        order' # order /\ order' # << >> =>
          LET sent == Quantity(request)
          IN  /\ Quantity(order') = sent
              /\ \A id \in MenuIds : sent[id] > 0 => menu[id] # NotForSale
              /\ cart_total(order') =
                     Sum([id \in MenuIds |->
                             IF sent[id] = 0 THEN 0 ELSE sent[id] * menu[id]])
<1>1. TInv /\ [TableNext]_tableVars => Taken
  <2> SUFFICES ASSUME TInv, [TableNext]_tableVars, order' # order, order' # << >>
               PROVE  Taken
    OBVIOUS
  <2>1. TakeOrder
    BY OnlyTakeOrderTakes
  <2>2. Lists
    BY TInvIs
  <2> QED BY <2>1, <2>2, TakenIsSent
<1>2. TInv /\ [TableNext]_tableVars => [Taken]_vars
  <2> HIDE DEF Taken
  <2> QED BY <1>1
<1> HIDE DEF Taken
<1>3. TableSpec => [][Taken]_vars
  BY <1>2, TableInvariance, PTL DEF TableSpec
<1> QED BY <1>3, PTL DEF Taken, OrderIsWhatWasSent

=============================================================================
