---------------------------- MODULE GetFileProofs ----------------------------
(* Proofs about GetFile for any table of files, any paths, any number of    *)
(* clients and any cut of the streams: first that content_get finds what is *)
(* in a sorted table, then the invariant of both programs.                  *)
EXTENDS GetFile, SequenceTheorems, FiniteSetTheorems, NaturalsInduction, WellFoundedInduction, TLAPS

(* A set of natural numbers has a least element. *)
LEMMA Least ==
  ASSUME NEW T, T \subseteq Nat, T # {}
  PROVE  \E x \in T : \A y \in T : x <= y
<1> DEFINE R == {ss \in Nat \X Nat : ss[1] < ss[2]}
<1>1. IsWellFoundedOn(R, Nat) BY NatLessThanWellFounded DEF OpToRel
<1>2. \A x, y \in Nat : y < x => <<y, x>> \in R OBVIOUS
<1> HIDE DEF R
<1>3. PICK x \in T : \A y \in T : ~(<<y, x>> \in R) BY <1>1, WFMin
<1>4. \A y \in T : ~(y < x) BY <1>2, <1>3
<1> QED BY <1>4

(* Smaller is a strict order in which any two keys compare, as strcmp's is. *)
LEMMA SmallerAsym ==
  ASSUME NEW a \in Seq(Nat), NEW b \in Seq(Nat), Smaller(a, b)
  PROVE  ~Smaller(b, a)
<1> SUFFICES ASSUME Smaller(b, a) PROVE FALSE
  OBVIOUS
<1>1. /\ \A j \in 1 .. Len(a) : a[j] \in Nat
      /\ \A j \in 1 .. Len(b) : b[j] \in Nat
      /\ Len(a) \in Nat /\ Len(b) \in Nat
  OBVIOUS
<1>2. PICK i \in 1 .. Len(b) : /\ i > Len(a) \/ (i <= Len(a) /\ a[i] < b[i])
                               /\ \A j \in 1 .. i - 1 : a[j] = b[j]
  BY DEF Smaller
<1>3. PICK k \in 1 .. Len(a) : /\ k > Len(b) \/ (k <= Len(b) /\ b[k] < a[k])
                               /\ \A j \in 1 .. k - 1 : b[j] = a[j]
  BY DEF Smaller
<1>4. CASE i = k BY <1>1, <1>2, <1>3, <1>4
<1>5. CASE i < k
  <2>1. i \in 1 .. k - 1 /\ i \in 1 .. Len(a) BY <1>1, <1>2, <1>3, <1>5
  <2>2. a[i] = b[i] BY <1>3, <2>1
  <2> QED BY <1>1, <1>2, <2>1, <2>2
<1>6. CASE k < i
  <2>1. k \in 1 .. i - 1 /\ k \in 1 .. Len(b) BY <1>1, <1>2, <1>3, <1>6
  <2>2. a[k] = b[k] BY <1>2, <2>1
  <2> QED BY <1>1, <1>3, <2>1, <2>2
<1> QED BY <1>2, <1>3, <1>4, <1>5, <1>6

LEMMA SmallerFront ==
  ASSUME NEW a \in Seq(Nat), NEW b \in Seq(Nat), ~Smaller(a, b), ~Smaller(b, a)
  PROVE  Len(b) <= Len(a) /\ \A j \in 1 .. Len(b) : a[j] = b[j]
<1> DEFINE T == {j \in 1 .. Len(b) : j > Len(a) \/ a[j] # b[j]}
<1>0. /\ \A j \in 1 .. Len(a) : a[j] \in Nat
      /\ \A j \in 1 .. Len(b) : b[j] \in Nat
      /\ Len(a) \in Nat /\ Len(b) \in Nat
  OBVIOUS
<1>1. T = {}
  <2> SUFFICES ASSUME T # {} PROVE FALSE
    OBVIOUS
  <2>0. T \subseteq Nat BY <1>0
  <2>1. PICK i \in T : \A j \in T : i <= j
    <3> HIDE DEF T
    <3> QED BY <2>0, Least
  <2>2. \A j \in 1 .. i - 1 : j <= Len(a) /\ a[j] = b[j] BY <2>1, <1>0
  <2>3. CASE i > Len(a) BY <2>1, <2>2, <2>3 DEF Smaller
  <2>4. CASE i <= Len(a)
    <3>1. a[i] # b[i] /\ a[i] \in Nat /\ b[i] \in Nat /\ i \in 1 .. Len(a) /\ i \in 1 .. Len(b)
      BY <1>0, <2>1, <2>4
    <3>2. CASE a[i] < b[i] BY <2>2, <2>4, <3>1, <3>2 DEF Smaller
    <3>3. CASE b[i] < a[i]
      <4>1. i <= Len(b) BY <3>1, <1>0
      <4> QED BY <2>2, <4>1, <3>1, <3>3 DEF Smaller
    <3> QED BY <3>1, <3>2, <3>3
  <2> QED BY <1>0, <2>1, <2>3, <2>4
<1>2. \A j \in 1 .. Len(b) : j <= Len(a) /\ a[j] = b[j] BY <1>0, <1>1
<1>3. Len(b) <= Len(a)
  <2>1. CASE Len(b) = 0 BY <1>0, <2>1
  <2>2. CASE Len(b) # 0 BY <1>0, <1>2, <2>2
  <2> QED BY <2>1, <2>2
<1> QED BY <1>2, <1>3

LEMMA SmallerTotal ==
  ASSUME NEW a \in Seq(Nat), NEW b \in Seq(Nat), ~Smaller(a, b), ~Smaller(b, a)
  PROVE  a = b
<1>1. Len(b) <= Len(a) /\ \A j \in 1 .. Len(b) : a[j] = b[j] BY SmallerFront
<1>2. Len(a) <= Len(b) BY SmallerFront
<1>3. Len(a) = Len(b) BY <1>1, <1>2
<1> QED BY <1>1, <1>3, SeqEqual

-----------------------------------------------------------------------------
(* The loop of content_get: the cells it may search, and one turn of it.    *)
Cells == (1 .. Len(content) + 1) \X (0 .. Len(content))

Turn(key, search) ==
  [r \in Cells |->
    LET lo == r[1]
        hi == r[2]
        mid == lo + (hi - lo) \div 2 IN
    IF lo > hi THEN 0
    ELSE IF Smaller(key, content[mid].key) THEN search[<<lo, mid - 1>>]
    ELSE IF Smaller(content[mid].key, key) THEN search[<<mid + 1, hi>>]
    ELSE mid]

(* What the search is for: the item's index, 0 if there is none. *)
At(key, lo, hi) == CHOOSE m : m \in lo .. hi /\ content[m].key = key

Index(key) ==
  [r \in Cells |-> IF \E m \in r[1] .. r[2] : content[m].key = key
                   THEN At(key, r[1], r[2]) ELSE 0]

Mid(r) == r[1] + (r[2] - r[1]) \div 2

LEMMA CellTypes ==
  ASSUME NEW r \in Cells
  PROVE  /\ r[1] \in 1 .. Len(content) + 1 /\ r[2] \in 0 .. Len(content) /\ Len(content) \in Nat
         /\ r = <<r[1], r[2]>>
<1>1. r = <<r[1], r[2]>> BY DEF Cells
<1>2. Len(content) \in Nat
  <2>1. content \in Seq([key : Seq(Nat), len : Nat]) BY GetFileAssumption
  <2> QED BY <2>1
<1> QED BY <1>1, <1>2 DEF Cells

LEMMA ItemTypes ==
  ASSUME NEW m \in 1 .. Len(content)
  PROVE  content[m].key \in Seq(Nat) /\ content[m].len \in Nat
<1>1. content \in Seq([key : Seq(Nat), len : Nat]) BY GetFileAssumption
<1>2. content[m] \in [key : Seq(Nat), len : Nat]
  BY <1>1, ElementOfSeq
<1>3. \A x \in [key : Seq(Nat), len : Nat] : x.key \in Seq(Nat) /\ x.len \in Nat
  BY Zenon
<1> QED BY <1>2, <1>3

LEMMA MidCells ==
  ASSUME NEW r \in Cells, r[1] <= r[2]
  PROVE  /\ Mid(r) \in r[1] .. r[2] /\ Mid(r) \in 1 .. Len(content)
         /\ <<r[1], Mid(r) - 1>> \in Cells /\ <<Mid(r) + 1, r[2]>> \in Cells
<1>1. r[1] \in 1 .. Len(content) + 1 /\ r[2] \in 0 .. Len(content) /\ Len(content) \in Nat
  BY CellTypes
<1>2. Mid(r) \in r[1] .. r[2] BY <1>1 DEF Mid
<1>3. /\ Mid(r) \in 1 .. Len(content) /\ Mid(r) - 1 \in 0 .. Len(content)
      /\ Mid(r) + 1 \in 1 .. Len(content) + 1
  BY <1>1, <1>2
<1> QED BY <1>1, <1>2, <1>3 DEF Cells

LEMMA TurnIs ==
  ASSUME NEW key, NEW search, NEW r \in Cells
  PROVE  /\ r[1] > r[2] => Turn(key, search)[r] = 0
         /\ r[1] <= r[2] =>
              /\ Smaller(key, content[Mid(r)].key)
                   => Turn(key, search)[r] = search[<<r[1], Mid(r) - 1>>]
              /\ ~Smaller(key, content[Mid(r)].key) /\ Smaller(content[Mid(r)].key, key)
                   => Turn(key, search)[r] = search[<<Mid(r) + 1, r[2]>>]
              /\ ~Smaller(key, content[Mid(r)].key) /\ ~Smaller(content[Mid(r)].key, key)
                   => Turn(key, search)[r] = Mid(r)
<1>1. r[1] <= r[2] => ~(r[1] > r[2]) BY CellTypes
<1> QED BY <1>1 DEF Turn, Mid

(* The index satisfies the loop's equation, because the table is sorted. *)
LEMMA IndexTurn ==
  ASSUME NEW key \in Seq(Nat)
  PROVE  Index(key) = Turn(key, Index(key))
<1> SUFFICES ASSUME NEW r \in Cells PROVE Index(key)[r] = Turn(key, Index(key))[r]
  BY DEF Index, Turn
<1> DEFINE mid == Mid(r)
<1>0. /\ r[1] \in 1 .. Len(content) + 1 /\ r[2] \in 0 .. Len(content) /\ Len(content) \in Nat
      /\ r = <<r[1], r[2]>>
  BY CellTypes
<1>1. \A m \in 1 .. Len(content) : content[m].key \in Seq(Nat) BY ItemTypes
<1>2. CASE r[1] > r[2]
  <2>1. ~ \E m \in r[1] .. r[2] : TRUE BY <1>0, <1>2
  <2>2. Turn(key, Index(key))[r] = 0 BY <1>2, TurnIs
  <2>3. Index(key)[r] = 0 BY <2>1 DEF Index
  <2> QED BY <2>2, <2>3
<1>3. CASE r[1] <= r[2]
  <2> DEFINE F == Index(key)
  <2>1. /\ mid \in r[1] .. r[2] /\ mid \in 1 .. Len(content)
        /\ <<r[1], mid - 1>> \in Cells /\ <<mid + 1, r[2]>> \in Cells
    BY <1>3, MidCells
  <2> HIDE DEF F
  <2>0. /\ Smaller(key, content[mid].key) => Turn(key, F)[r] = F[<<r[1], mid - 1>>]
        /\ ~Smaller(key, content[mid].key) /\ Smaller(content[mid].key, key)
             => Turn(key, F)[r] = F[<<mid + 1, r[2]>>]
        /\ ~Smaller(key, content[mid].key) /\ ~Smaller(content[mid].key, key)
             => Turn(key, F)[r] = mid
    BY <1>3, TurnIs
  <2> HIDE DEF mid
  <2>2. \A l, h : <<l, h>> \in Cells =>
          F[<<l, h>>] = IF \E m \in l .. h : content[m].key = key
                                 THEN At(key, l, h) ELSE 0
    BY DEF F, Index
  <2>3. \A m, n \in 1 .. Len(content) : m < n => Smaller(content[m].key, content[n].key)
    BY GetFileAssumption
  <2>4. \A m \in r[1] .. r[2] : m \in 1 .. Len(content) /\ m \in Int BY <1>0
  <2>5. CASE Smaller(key, content[mid].key)
    <3>1. \A m \in r[1] .. r[2] : content[m].key = key => m < mid
      <4> SUFFICES ASSUME NEW m \in r[1] .. r[2], content[m].key = key, ~(m < mid) PROVE FALSE
        OBVIOUS
      <4>1. m = mid \/ mid < m BY <2>1, <2>4
      <4>2. m = mid \/ Smaller(content[mid].key, key) BY <2>1, <2>3, <2>4, <4>1
      <4> QED BY <1>1, <2>1, <2>5, <4>2, SmallerAsym
    <3>2. \A m : (m \in r[1] .. r[2] /\ content[m].key = key)
                   <=> (m \in r[1] .. mid - 1 /\ content[m].key = key)
      BY <1>0, <2>1, <2>4, <3>1
    <3>3. At(key, r[1], r[2]) = At(key, r[1], mid - 1) BY <3>2 DEF At
    <3>4. F[<<r[1], r[2]>>] = F[<<r[1], mid - 1>>]
      <4>1. /\ <<r[1], r[2]>> \in Cells
            /\ (\E m \in r[1] .. r[2] : content[m].key = key)
                 <=> (\E m \in r[1] .. mid - 1 : content[m].key = key)
        BY <1>0, <3>2
      <4>2. F[<<r[1], r[2]>>] = IF \E m \in r[1] .. r[2] : content[m].key = key
                                THEN At(key, r[1], r[2]) ELSE 0
        BY <2>2, <4>1
      <4>3. F[<<r[1], mid - 1>>] = IF \E m \in r[1] .. mid - 1 : content[m].key = key
                                   THEN At(key, r[1], mid - 1) ELSE 0
        BY <2>1, <2>2
      <4> QED BY <3>3, <4>1, <4>2, <4>3
    <3> QED BY <1>0, <2>0, <2>5, <3>4 DEF F
  <2>6. CASE ~Smaller(key, content[mid].key) /\ Smaller(content[mid].key, key)
    <3>1. \A m \in r[1] .. r[2] : content[m].key = key => mid < m
      <4> SUFFICES ASSUME NEW m \in r[1] .. r[2], content[m].key = key, ~(mid < m) PROVE FALSE
        OBVIOUS
      <4>1. m = mid \/ m < mid BY <2>1, <2>4
      <4>2. m = mid \/ Smaller(key, content[mid].key) BY <2>1, <2>3, <2>4, <4>1
      <4> QED BY <1>1, <2>1, <2>6, <4>2, SmallerAsym
    <3>2. \A m : (m \in r[1] .. r[2] /\ content[m].key = key)
                   <=> (m \in mid + 1 .. r[2] /\ content[m].key = key)
      BY <1>0, <2>1, <2>4, <3>1
    <3>3. At(key, r[1], r[2]) = At(key, mid + 1, r[2]) BY <3>2 DEF At
    <3>4. F[<<r[1], r[2]>>] = F[<<mid + 1, r[2]>>]
      <4>1. /\ <<r[1], r[2]>> \in Cells
            /\ (\E m \in r[1] .. r[2] : content[m].key = key)
                 <=> (\E m \in mid + 1 .. r[2] : content[m].key = key)
        BY <1>0, <3>2
      <4>2. F[<<r[1], r[2]>>] = IF \E m \in r[1] .. r[2] : content[m].key = key
                                THEN At(key, r[1], r[2]) ELSE 0
        BY <2>2, <4>1
      <4>3. F[<<mid + 1, r[2]>>] = IF \E m \in mid + 1 .. r[2] : content[m].key = key
                                   THEN At(key, mid + 1, r[2]) ELSE 0
        BY <2>1, <2>2
      <4> QED BY <3>3, <4>1, <4>2, <4>3
    <3> QED BY <1>0, <2>0, <2>6, <3>4 DEF F
  <2>7. CASE ~Smaller(key, content[mid].key) /\ ~Smaller(content[mid].key, key)
    <3>1. content[mid].key = key BY <1>1, <2>1, <2>7, SmallerTotal
    <3>2. \A m \in r[1] .. r[2] : content[m].key = key => m = mid
      <4> SUFFICES ASSUME NEW m \in r[1] .. r[2], content[m].key = key, m # mid PROVE FALSE
        OBVIOUS
      <4>1. mid < m \/ m < mid BY <2>1, <2>4
      <4>2. Smaller(key, key) BY <2>1, <2>3, <2>4, <3>1, <4>1
      <4> QED BY <4>2, SmallerAsym
    <3>3. At(key, r[1], r[2]) = mid BY <2>1, <3>1, <3>2 DEF At
    <3>4. F[<<r[1], r[2]>>] = mid BY <1>0, <2>1, <2>2, <3>1, <3>3
    <3> QED BY <1>0, <2>0, <2>7, <3>4 DEF F
  <2> QED BY <2>5, <2>6, <2>7
<1> QED BY <1>0, <1>2, <1>3

(* It is the only function that does. *)
LEMMA TurnUnique ==
  ASSUME NEW key \in Seq(Nat), NEW s, s = Turn(key, s)
  PROVE  \A r \in Cells : s[r] = Index(key)[r]
<1> DEFINE L == Len(content)
           Size(r) == r[2] - r[1] + L + 1
<1>1. PICK t : t = Index(key) /\ t = Turn(key, t) BY IndexTurn
<1>2. /\ L \in Nat
      /\ \A r \in Cells : r[1] \in 1 .. L + 1 /\ r[2] \in 0 .. L /\ Size(r) \in Nat
  BY GetFileAssumption DEF Cells
<1> HIDE DEF Size
<1> DEFINE T == {n \in Nat : \E r \in Cells : n = Size(r) /\ s[r] # t[r]}
<1>3. T = {}
  <2> SUFFICES ASSUME T # {} PROVE FALSE
    OBVIOUS
  <2>0. T \subseteq Nat OBVIOUS
  <2>1. PICK n \in T : \A k \in T : n <= k
    <3> HIDE DEF T
    <3> QED BY <2>0, Least
  <2>2. PICK r \in Cells : n = Size(r) /\ s[r] # t[r] BY <2>1
  <2>3. ASSUME NEW c \in Cells, Size(c) < Size(r) PROVE s[c] = t[c]
    <3> SUFFICES ASSUME s[c] # t[c] PROVE FALSE
      OBVIOUS
    <3>1. Size(c) \in T BY <1>2
    <3>2. Size(r) <= Size(c) BY <2>1, <2>2, <3>1
    <3> QED BY <1>2, <2>3, <3>2
  <2>4. s[r] = Turn(key, s)[r] /\ t[r] = Turn(key, t)[r] BY <1>1
  <2> DEFINE low == <<r[1], Mid(r) - 1>>
             high == <<Mid(r) + 1, r[2]>>
             TurnOf(search) ==
               /\ r[1] > r[2] => Turn(key, search)[r] = 0
               /\ r[1] <= r[2] =>
                    /\ Smaller(key, content[Mid(r)].key) => Turn(key, search)[r] = search[low]
                    /\ ~Smaller(key, content[Mid(r)].key) /\ Smaller(content[Mid(r)].key, key)
                         => Turn(key, search)[r] = search[high]
                    /\ ~Smaller(key, content[Mid(r)].key) /\ ~Smaller(content[Mid(r)].key, key)
                         => Turn(key, search)[r] = Mid(r)
  <2>5. \A search : TurnOf(search)
    <3> TAKE search
    <3> QED BY TurnIs
  <2>6. TurnOf(s) /\ TurnOf(t) BY <2>5
  <2>7. CASE r[1] > r[2] BY <2>2, <2>4, <2>6, <2>7
  <2>8. CASE r[1] <= r[2]
    <3>1. Mid(r) \in r[1] .. r[2] /\ low \in Cells /\ high \in Cells BY <2>2, <2>8, MidCells
    <3>2. Size(low) < Size(r) /\ Size(high) < Size(r)
      <4>1. r[1] \in 1 .. L + 1 /\ r[2] \in 0 .. L /\ Mid(r) \in Int /\ L \in Nat
        BY <1>2, <2>2, <3>1
      <4>2. /\ Size(low) = (Mid(r) - 1) - r[1] + L + 1
            /\ Size(high) = r[2] - (Mid(r) + 1) + L + 1
            /\ Size(r) = r[2] - r[1] + L + 1
        BY DEF Size
      <4>3. r[1] <= Mid(r) /\ Mid(r) <= r[2] BY <3>1, <4>1
      <4>4. \A l, h, m \in Int : l <= m /\ m <= h =>
              /\ (m - 1) - l + L + 1 < h - l + L + 1
              /\ h - (m + 1) + L + 1 < h - l + L + 1
        BY <4>1
      <4>5. r[1] \in Int /\ r[2] \in Int BY <4>1
      <4> HIDE DEF low, high, L
      <4> QED BY <4>1, <4>2, <4>3, <4>4, <4>5
    <3>3. s[low] = t[low] /\ s[high] = t[high] BY <2>3, <3>1, <3>2
    <3> HIDE DEF low, high
    <3>4. CASE Smaller(key, content[Mid(r)].key) BY <2>2, <2>4, <2>8, <2>6, <3>3, <3>4
    <3>5. CASE ~Smaller(key, content[Mid(r)].key) /\ Smaller(content[Mid(r)].key, key)
      BY <2>2, <2>4, <2>8, <2>6, <3>3, <3>5
    <3>6. CASE ~Smaller(key, content[Mid(r)].key) /\ ~Smaller(content[Mid(r)].key, key)
      BY <2>2, <2>4, <2>8, <2>6, <3>6
    <3> QED BY <3>4, <3>5, <3>6
  <2> QED BY <1>2, <2>2, <2>7, <2>8
<1>4. \A r \in Cells : s[r] = t[r] BY <1>2, <1>3
<1> QED BY <1>1, <1>4

(* content_get finds the item with the key in any sorted table, and only if *)
(* there is one: the binary search of content.c and its comparison are      *)
(* right for every length and every key.                                    *)
THEOREM ContentGetFinds ==
  ASSUME NEW key \in Seq(Nat)
  PROVE  /\ content_get(key) \in 0 .. Len(content)
         /\ content_get(key) # 0 => content[content_get(key)].key = key
         /\ content_get(key) = 0 => \A f \in 1 .. Len(content) : content[f].key # key
<1> DEFINE L == Len(content)
           top == <<1, L>>
<1>1. PICK s : s = Turn(key, s) /\ content_get(key) = s[top]
  <2>1. content_get(key) = (CHOOSE s : s = Turn(key, s))[top]
    BY DEF content_get, Turn, Cells
  <2> QED BY <2>1, IndexTurn
<1>2. top \in Cells /\ L \in Nat BY GetFileAssumption DEF Cells
<1>3. content_get(key) = Index(key)[top] BY <1>1, <1>2, TurnUnique
<1>4. content_get(key) = IF \E m \in 1 .. L : content[m].key = key
                         THEN At(key, 1, L) ELSE 0
  BY <1>2, <1>3 DEF Index
<1>5. CASE \E m \in 1 .. L : content[m].key = key
  <2>1. content_get(key) \in 1 .. L /\ content[content_get(key)].key = key
    BY <1>4, <1>5 DEF At
  <2> QED BY <1>2, <2>1
<1>6. CASE ~ \E m \in 1 .. L : content[m].key = key BY <1>2, <1>4, <1>6
<1> QED BY <1>5, <1>6
-----------------------------------------------------------------------------
(* What gfserver_serve holds: while it serves a connection, that one is     *)
(* open and is written to as far as the handler got; the others it holds    *)
(* are those of the files it sent to their end.                             *)
Sending(r) == HeaderLen(r.f) .. HeaderLen(r.f) + FileLen(r.f)
SentWhole(r) == r.f # 0 /\ r.written = HeaderLen(r.f) + FileLen(r.f)

Serving ==
  /\ srv \in {"accept", "down"} => cur = 0
  /\ srv \in {"recv", "recv2"} => Cur.far = "open" /\ Cur.f = 0 /\ Cur.written = 0
  /\ srv = "send" => Cur.far = "open" /\ Cur.f # 0
  /\ srv # "down" => \A i \in Conns : i # cur => (conns[i].far = "open" <=> SentWhole(conns[i]))

(* What holds of a connection whoever made it. *)
Bounded ==
  \A i \in Conns :
    /\ conns[i].f # 0 => conns[i].written \in Sending(conns[i])
    /\ conns[i].far = "pending" => conns[i].written = 0
    /\ conns[i].far = "reset" => conns[i].request # <<>>

(* A client's connection is its own, and what the server answers on one     *)
(* that was not cut is the answer to what the client asked.                 *)
Answers(c) ==
  sock[c] # 0 =>
    /\ Mine(c).client = c
    /\ sock[c] \notin cut =>
         /\ Mine(c).written = 0 => Mine(c).request = asked[c]
         /\ Mine(c).written > 0 => Mine(c).f = content_get(asked[c]) /\ Mine(c).request = <<>>
    /\ srv = "recv2" /\ cur = sock[c] => cur \in cut

(* How far a client that works on a request has come. *)
Counted(c) ==
  LET H == HeaderLen(Mine(c).f) IN
  /\ Mine(c).read >= H
  /\ file[c] = Bytes(Mine(c).f, H, Mine(c).read)
  /\ bytesTotalOfFile[c] = Mine(c).read - H /\ bytesTotalOfFile[c] < filelength[c]
  /\ filelength[c] = FileLen(Mine(c).f)

Works(c) ==
  /\ pc[c] \in {"header", "body"} => todo[c] > 0
  /\ pc[c] = "header" => Mine(c).read = 0 /\ file[c] = <<>>
  /\ pc[c] = "body" => Mine(c).f # 0 /\ Mine(c).read > 0 /\ (sock[c] \notin cut => Counted(c))

(* OutcomeHonest, of one client. *)
Honest(c) ==
  pc[c] = "idle" /\ sock[c] \notin cut \cup {0} /\ Mine(c).read > 0 =>
    /\ Mine(c).f # 0 /\ outcome[c].kept =>
         \E f \in 1 .. Len(content) : content[f].key = asked[c] /\ file[c] = WholeFile(f)
    /\ Mine(c).f = 0 =>
         file[c] = <<>> /\ \A f \in 1 .. Len(content) : content[f].key # asked[c]
    /\ outcome[c].ret = -1 =>
         /\ Mine(c).far \in {"closed", "reset"}
         /\ Mine(c).written < HeaderLen(Mine(c).f) + FileLen(Mine(c).f)

Good(c) == Answers(c) /\ Works(c) /\ Honest(c)

Inv == TypeOK /\ Serving /\ Bounded /\ \A c \in Clients : Good(c)

-----------------------------------------------------------------------------
(* What the definitions give. *)
Connection ==
  [client : Clients, request : Names \cup {<<>>}, f : 0 .. Len(content),
   written : Nat, read : Nat, near : Ends, far : Ends \cup {"pending", "reset"}]

LEMMA CountType ==
  ASSUME NEW n \in Nat, NEW T \in SUBSET (1 .. n)
  PROVE  Cardinality(T) \in Nat
<1>1. IsFiniteSet(1 .. n) BY FS_Interval
<1>2. IsFiniteSet(T) BY <1>1, FS_Subset
<1> QED BY <1>2, FS_CardinalityType

LEMMA Lengths ==
  ASSUME NEW f \in 1 .. Len(content)
  PROVE  FileLen(f) \in Nat /\ HeaderLen(f) \in Nat /\ HeaderLen(f) > 2
<1>1. FileLen(f) \in Nat BY ItemTypes DEF FileLen
<1> DEFINE T == {d \in 1 .. FileLen(f) : Base ^ d <= FileLen(f)}
<1>2. T \in SUBSET (1 .. FileLen(f)) OBVIOUS
<1> HIDE DEF T
<1>3. Cardinality(T) \in Nat BY <1>1, <1>2, CountType
<1>4. Digits(FileLen(f)) = 1 + Cardinality(T) BY DEF Digits, T
<1> QED BY <1>1, <1>3, <1>4 DEF HeaderLen

LEMMA NameTypes == Names \cup {<<>>} \subseteq Seq(Nat)
<1>1. Names \subseteq Seq(Nat) BY GetFileAssumption
<1>2. <<>> \in Seq(Nat) BY EmptySeq
<1> QED BY <1>1, <1>2

LEMMA TableLen == Len(content) \in Nat
<1>1. content \in Seq([key : Seq(Nat), len : Nat]) BY GetFileAssumption
<1> QED BY <1>1

LEMMA Fields ==
  ASSUME NEW r \in Connection
  PROVE  /\ r.client \in Clients /\ r.request \in Names \cup {<<>>} /\ r.request \in Seq(Nat)
         /\ r.f \in 0 .. Len(content) /\ (r.f # 0 => r.f \in 1 .. Len(content))
         /\ r.written \in Nat /\ r.read \in Nat
         /\ r.near \in Ends /\ r.far \in Ends \cup {"pending", "reset"}
<1>1. /\ r.client \in Clients /\ r.request \in Names \cup {<<>>}
      /\ r.f \in 0 .. Len(content) /\ r.written \in Nat /\ r.read \in Nat
      /\ r.near \in Ends /\ r.far \in Ends \cup {"pending", "reset"}
  BY DEF Connection
<1>2. r.f # 0 => r.f \in 1 .. Len(content) BY <1>1, TableLen
<1>3. r.request \in Seq(Nat) BY <1>1, NameTypes
<1> QED BY <1>1, <1>2, <1>3

LEMMA ConnTypes ==
  ASSUME TypeOK
  PROVE  /\ conns \in Seq(Connection) /\ Len(conns) \in Nat
         /\ \A i \in Conns : conns[i] \in Connection /\ conns[i].read <= conns[i].written
         /\ \A c \in Clients : sock[c] # 0 => sock[c] \in Conns
         /\ cur # 0 => cur \in Conns
<1>1. conns \in Seq(Connection) BY DEF TypeOK, Connection
<1>2. \A i \in Conns : conns[i] \in Connection BY <1>1, ElementOfSeq DEF Conns
<1>3. Len(conns) \in Nat BY <1>1, LenProperties
<1>4. sock \in [Clients -> 0 .. Len(conns)] /\ cur \in 0 .. Len(conns) BY DEF TypeOK
<1>5. \A c \in Clients : sock[c] # 0 => sock[c] \in Conns BY <1>3, <1>4 DEF Conns
<1>6. cur # 0 => cur \in Conns BY <1>3, <1>4 DEF Conns
<1>7. \A i \in Conns : conns[i].read <= conns[i].written BY DEF TypeOK
<1> QED BY <1>1, <1>2, <1>3, <1>5, <1>6, <1>7

(* The last piece of a file is never what Write marks a corrupt file with. *)
LEMMA BytesTypes ==
  ASSUME NEW f \in 1 .. Len(content), NEW a \in Nat, NEW b \in Nat, a <= b
  PROVE  /\ Bytes(f, a, b) \in Seq(Nat \X Int) /\ Len(Bytes(f, a, b)) = b - a
         /\ \A i \in 1 .. b - a : Bytes(f, a, b)[i] = <<f, a + i - HeaderLen(f)>>
         /\ Bytes(f, a, b) # Corrupt
<1>1. f \in Nat /\ f # 0 BY TableLen
<1>2. HeaderLen(f) \in Nat BY Lengths
<1>3. b - a \in Nat OBVIOUS
<1>4. \A i \in 1 .. b - a : Bytes(f, a, b)[i] = <<f, a + i - HeaderLen(f)>> BY DEF Bytes
<1>5. \A i \in 1 .. b - a : <<f, a + i - HeaderLen(f)>> \in Nat \X Int BY <1>1, <1>2
<1>6. Bytes(f, a, b) \in [1 .. b - a -> Nat \X Int] BY <1>5 DEF Bytes
<1>7. Bytes(f, a, b) \in Seq(Nat \X Int) BY <1>3, <1>6, SeqDef
<1>8. Len(Bytes(f, a, b)) = b - a
  <2>1. DOMAIN Bytes(f, a, b) = 1 .. b - a BY <1>6
  <2> QED BY <1>3, <1>7, <2>1, LenProperties
<1>9. Bytes(f, a, b) # Corrupt
  <2> SUFFICES ASSUME Bytes(f, a, b) = Corrupt PROVE FALSE
    OBVIOUS
  <2>1. Len(Bytes(f, a, b)) = 1 /\ Bytes(f, a, b)[1] = <<0, 0>> BY DEF Corrupt
  <2>2. Bytes(f, a, b)[1] = <<f, a + 1 - HeaderLen(f)>> BY <1>3, <1>4, <1>8, <2>1
  <2>3. <<f, a + 1 - HeaderLen(f)>>[1] = 0 BY <2>1, <2>2
  <2> QED BY <1>1, <2>3
<1> QED BY <1>4, <1>7, <1>8, <1>9

LEMMA BytesJoin ==
  ASSUME NEW f \in 1 .. Len(content), NEW a \in Nat, NEW b \in Nat, NEW d \in Nat, a <= b, b <= d
  PROVE  Bytes(f, a, b) \o Bytes(f, b, d) = Bytes(f, a, d)
<1> DEFINE x == Bytes(f, a, b)
           y == Bytes(f, b, d)
           z == Bytes(f, a, d)
           N == Nat \X Int
<1>1. /\ x \in Seq(N) /\ Len(x) = b - a
      /\ \A i \in 1 .. b - a : x[i] = <<f, a + i - HeaderLen(f)>>
  BY BytesTypes
<1>2. /\ y \in Seq(N) /\ Len(y) = d - b
      /\ \A i \in 1 .. d - b : y[i] = <<f, b + i - HeaderLen(f)>>
  BY BytesTypes
<1>3. /\ z \in Seq(N) /\ Len(z) = d - a
      /\ \A i \in 1 .. d - a : z[i] = <<f, a + i - HeaderLen(f)>>
  <2>1. a <= d OBVIOUS
  <2> QED BY <2>1, BytesTypes
<1>0. HeaderLen(f) \in Nat BY Lengths
<1> HIDE DEF x, y, z, N
<1>4. /\ x \o y \in Seq(N) /\ Len(x \o y) = d - a
      /\ \A i \in 1 .. d - a : (x \o y)[i] = IF i <= b - a THEN x[i] ELSE y[i - (b - a)]
  <2>1. /\ x \o y \in Seq(N) /\ Len(x \o y) = Len(x) + Len(y)
        /\ \A i \in 1 .. Len(x) + Len(y) : (x \o y)[i] =
             IF i <= Len(x) THEN x[i] ELSE y[i - Len(x)]
    BY <1>1, <1>2, ConcatProperties
  <2>2. Len(x) + Len(y) = d - a BY <1>1, <1>2
  <2> QED BY <1>1, <2>1, <2>2
<1>5. \A i \in 1 .. d - a : (x \o y)[i] = z[i]
  <2> TAKE i \in 1 .. d - a
  <2>1. CASE i <= b - a
    <3>1. i \in 1 .. b - a BY <2>1
    <3>2. (x \o y)[i] = <<f, a + i - HeaderLen(f)>> BY <1>1, <1>4, <2>1, <3>1
    <3> QED BY <1>3, <3>2
  <2>2. CASE ~(i <= b - a)
    <3>1. i - (b - a) \in 1 .. d - b BY <2>2
    <3>2. (x \o y)[i] = <<f, b + (i - (b - a)) - HeaderLen(f)>> BY <1>2, <1>4, <2>2, <3>1
    <3>3. b + (i - (b - a)) - HeaderLen(f) = a + i - HeaderLen(f) BY <1>0
    <3> QED BY <1>3, <3>2, <3>3
  <2> QED BY <2>1, <2>2
<1> QED BY <1>3, <1>4, <1>5, SeqEqual DEF x, y, z

-----------------------------------------------------------------------------
(* What a client's step leaves as it is: the server, the other clients and  *)
(* their connections, and of every connection what the server made it.      *)
Same(d) ==
  /\ pc'[d] = pc[d] /\ todo'[d] = todo[d] /\ asked'[d] = asked[d] /\ sock'[d] = sock[d]
  /\ filelength'[d] = filelength[d] /\ bytesTotalOfFile'[d] = bytesTotalOfFile[d]
  /\ file'[d] = file[d] /\ outcome'[d] = outcome[d]

Kept(c) ==
  /\ Len(conns') \in Nat /\ Len(conns') >= Len(conns)
  /\ \A i \in Conns :
       /\ conns'[i].client = conns[i].client /\ conns'[i].request = conns[i].request
       /\ conns'[i].f = conns[i].f /\ conns'[i].written = conns[i].written
       /\ conns'[i].far = conns[i].far \/ (conns[i].far = "reset" /\ conns'[i].far = "closed")
       /\ conns[i].client # c => conns'[i] = conns[i]
  /\ \A i \in 1 .. Len(conns') :
       i > Len(conns) => conns'[i].f = 0 /\ conns'[i].written = 0 /\ conns'[i].far = "pending"

Frame(c) ==
  /\ UNCHANGED server
  /\ Kept(c)
  /\ \A d \in Clients : d # c => Same(d)
  /\ \A i \in Conns : i # sock[c] => (i \in cut' <=> i \in cut)

LEMMA FrameServing ==
  ASSUME NEW c, TypeOK, Serving, Bounded, UNCHANGED server, Kept(c)
  PROVE  Serving' /\ Bounded'
<1>1. /\ Len(conns) \in Nat /\ (cur # 0 => cur \in Conns)
      /\ srv \in {"recv", "recv2", "send"} => cur # 0
  BY ConnTypes DEF TypeOK
<1>2. srv' = srv /\ cur' = cur BY DEF server
<1>3. /\ Len(conns') \in Nat /\ Len(conns') >= Len(conns)
      /\ \A i \in Conns :
           /\ conns'[i].request = conns[i].request
           /\ conns'[i].f = conns[i].f /\ conns'[i].written = conns[i].written
           /\ conns'[i].far = conns[i].far \/ (conns[i].far = "reset" /\ conns'[i].far = "closed")
      /\ \A i \in 1 .. Len(conns') :
           i > Len(conns) => conns'[i].f = 0 /\ conns'[i].written = 0 /\ conns'[i].far = "pending"
  BY DEF Kept
<1>4. \A i \in Conns' : i \in Conns \/ (i \in 1 .. Len(conns') /\ i > Len(conns))
  BY <1>1, <1>3 DEF Conns
<1>5. Serving'
  <2>1. srv' \in {"accept", "down"} => cur' = 0 BY <1>2 DEF Serving
  <2>2. srv' \in {"recv", "recv2"} => Cur'.far = "open" /\ Cur'.f = 0 /\ Cur'.written = 0
    BY <1>1, <1>2, <1>3 DEF Serving, Cur
  <2>3. srv' = "send" => Cur'.far = "open" /\ Cur'.f # 0
    BY <1>1, <1>2, <1>3 DEF Serving, Cur
  <2>4. ASSUME srv' # "down", NEW i \in Conns', i # cur'
        PROVE  conns'[i].far = "open" <=> SentWhole(conns'[i])
    <3>1. CASE i \in Conns
      <4>1. conns[i].far = "open" <=> SentWhole(conns[i]) BY <1>2, <2>4, <3>1 DEF Serving
      <4>2. SentWhole(conns'[i]) <=> SentWhole(conns[i]) BY <1>3, <3>1 DEF SentWhole
      <4> QED BY <1>3, <3>1, <4>1, <4>2
    <3>2. CASE i \in 1 .. Len(conns') /\ i > Len(conns) BY <1>3, <3>2 DEF SentWhole
    <3> QED BY <1>4, <2>4, <3>1, <3>2
  <2> QED BY <2>1, <2>2, <2>3, <2>4 DEF Serving
<1>6. Bounded'
  <2> SUFFICES ASSUME NEW i \in Conns'
               PROVE  /\ conns'[i].f # 0 => conns'[i].written \in Sending(conns'[i])
                      /\ conns'[i].far = "pending" => conns'[i].written = 0
                      /\ conns'[i].far = "reset" => conns'[i].request # <<>>
    BY DEF Bounded
  <2>1. CASE i \in Conns
    <3>1. Sending(conns'[i]) = Sending(conns[i]) BY <1>3, <2>1 DEF Sending
    <3> QED BY <1>3, <2>1, <3>1 DEF Bounded
  <2>2. CASE i \in 1 .. Len(conns') /\ i > Len(conns) BY <1>3, <2>2
  <2> QED BY <1>4, <2>1, <2>2
<1> QED BY <1>5, <1>6

LEMMA OtherGood ==
  ASSUME NEW d \in Clients, TypeOK, Good(d), Same(d), UNCHANGED server,
         sock[d] # 0 => /\ conns'[sock[d]] = conns[sock[d]]
                        /\ sock[d] \in cut' <=> sock[d] \in cut
  PROVE  Good(d)'
<1>1. srv' = srv /\ cur' = cur BY DEF server
<1>2. sock'[d] = sock[d] /\ (sock[d] # 0 => Mine(d)' = Mine(d)) BY DEF Same, Mine
<1>3. pc[d] \in {"header", "body"} => sock[d] # 0 BY DEF TypeOK
<1>4. Answers(d)' BY <1>1, <1>2 DEF Same, Good, Answers
<1>5. Works(d)'
  <2>1. pc[d] = "body" => (Counted(d)' <=> Counted(d)) BY <1>2, <1>3 DEF Same, Counted
  <2> QED BY <1>2, <1>3, <2>1 DEF Same, Good, Works
<1>6. Honest(d)' BY <1>2 DEF Same, Good, Honest
<1> QED BY <1>4, <1>5, <1>6 DEF Good

LEMMA FrameInv ==
  ASSUME NEW c \in Clients, Inv, Frame(c), TypeOK', Good(c)'
  PROVE  Inv'
<1>1. TypeOK /\ Serving /\ Bounded /\ \A d \in Clients : Good(d) BY DEF Inv
<1>2. Serving' /\ Bounded' BY <1>1, FrameServing DEF Frame
<1>3. ASSUME NEW d \in Clients, d # c PROVE Good(d)'
  <2>1. sock[d] # 0 => sock[d] \in Conns /\ conns[sock[d]].client = d
    BY <1>1, ConnTypes DEF Good, Answers, Mine
  <2>2. sock[d] # 0 => conns'[sock[d]] = conns[sock[d]] BY <1>3, <2>1 DEF Frame, Kept
  <2>3. sock[d] # 0 /\ sock[c] # 0 => sock[d] # sock[c]
    BY <1>1, <1>3, <2>1 DEF Good, Answers, Mine
  <2>4. sock[d] # 0 => sock[d] # sock[c] BY <2>3
  <2>5. sock[d] # 0 => (sock[d] \in cut' <=> sock[d] \in cut) BY <2>1, <2>4 DEF Frame
  <2>6. Same(d) /\ UNCHANGED server BY <1>3 DEF Frame
  <2> QED BY <1>1, <2>2, <2>5, <2>6, OtherGood
<1>4. \A d \in Clients : Good(d)' BY <1>3
<1> QED BY <1>2, <1>4 DEF Inv

-----------------------------------------------------------------------------
(* The parts the client's actions share. *)
LEMMA FinishIs ==
  ASSUME NEW c \in Clients, TypeOK, todo[c] > 0,
         NEW r \in {-1, 0}, NEW k \in BOOLEAN, Finish(c, r, k)
  PROVE  /\ pc' \in [Clients -> {"idle", "header", "body", "ended"}]
         /\ todo' \in [Clients -> Nat]
         /\ outcome' \in [Clients -> [ret : {-1, 0}, kept : BOOLEAN]]
         /\ pc'[c] = "idle" /\ outcome'[c] = [ret |-> r, kept |-> k]
         /\ \A d \in Clients : d # c =>
              pc'[d] = pc[d] /\ todo'[d] = todo[d] /\ outcome'[d] = outcome[d]
<1>1. /\ pc \in [Clients -> {"idle", "header", "body", "ended"}]
      /\ todo \in [Clients -> Nat]
      /\ outcome \in [Clients -> [ret : {-1, 0}, kept : BOOLEAN]]
  BY DEF TypeOK
<1>2. todo[c] - 1 \in Nat BY <1>1
<1>3. [ret |-> r, kept |-> k] \in [ret : {-1, 0}, kept : BOOLEAN] BY Zenon
<1>4. pc' \in [Clients -> {"idle", "header", "body", "ended"}] /\ pc'[c] = "idle"
  BY <1>1 DEF Finish
<1>5. todo' \in [Clients -> Nat] BY <1>1, <1>2 DEF Finish
<1>6. /\ outcome' \in [Clients -> [ret : {-1, 0}, kept : BOOLEAN]]
      /\ outcome'[c] = [ret |-> r, kept |-> k]
  BY <1>1, <1>3, Zenon DEF Finish
<1>7. \A d \in Clients : d # c => pc'[d] = pc[d] /\ todo'[d] = todo[d] /\ outcome'[d] = outcome[d]
  BY <1>1, Zenon DEF Finish
<1> QED BY <1>4, <1>5, <1>6, <1>7

LEMMA CountIs ==
  ASSUME NEW c \in Clients, TypeOK, todo[c] > 0, NEW total \in Int, NEW length \in Nat,
         Count(c, total, length)
  PROVE  /\ pc' \in [Clients -> {"idle", "header", "body", "ended"}]
         /\ todo' \in [Clients -> Nat]
         /\ outcome' \in [Clients -> [ret : {-1, 0}, kept : BOOLEAN]]
         /\ bytesTotalOfFile' \in [Clients -> Int] /\ bytesTotalOfFile'[c] = total
         /\ filelength' \in [Clients -> Nat] /\ filelength'[c] = length
         /\ total = length => pc'[c] = "idle" /\ outcome'[c].ret = 0
         /\ total # length => pc'[c] = "body" /\ todo'[c] > 0
         /\ \A d \in Clients : d # c =>
              /\ pc'[d] = pc[d] /\ todo'[d] = todo[d] /\ outcome'[d] = outcome[d]
              /\ bytesTotalOfFile'[d] = bytesTotalOfFile[d] /\ filelength'[d] = filelength[d]
<1>1. /\ pc \in [Clients -> {"idle", "header", "body", "ended"}]
      /\ todo \in [Clients -> Nat]
      /\ outcome \in [Clients -> [ret : {-1, 0}, kept : BOOLEAN]]
      /\ bytesTotalOfFile \in [Clients -> Int] /\ filelength \in [Clients -> Nat]
  BY DEF TypeOK
<1>2. /\ bytesTotalOfFile' \in [Clients -> Int] /\ bytesTotalOfFile'[c] = total
      /\ \A d \in Clients : d # c => bytesTotalOfFile'[d] = bytesTotalOfFile[d]
  BY <1>1 DEF Count
<1>3. /\ filelength' \in [Clients -> Nat] /\ filelength'[c] = length
      /\ \A d \in Clients : d # c => filelength'[d] = filelength[d]
  BY <1>1 DEF Count
<1>4. CASE total = length
  <2>1. PICK k \in BOOLEAN : Finish(c, 0, k) BY <1>4 DEF Count
  <2>2. /\ pc' \in [Clients -> {"idle", "header", "body", "ended"}]
        /\ todo' \in [Clients -> Nat]
        /\ outcome' \in [Clients -> [ret : {-1, 0}, kept : BOOLEAN]]
        /\ pc'[c] = "idle" /\ outcome'[c] = [ret |-> 0, kept |-> k]
        /\ \A d \in Clients : d # c =>
             pc'[d] = pc[d] /\ todo'[d] = todo[d] /\ outcome'[d] = outcome[d]
    BY <2>1, FinishIs
  <2> QED BY <1>2, <1>3, <1>4, <2>2
<1>5. CASE total # length
  <2>1. pc' = [pc EXCEPT ![c] = "body"] /\ todo' = todo /\ outcome' = outcome BY <1>5 DEF Count
  <2> QED BY <1>1, <1>2, <1>3, <1>5, <2>1
<1> QED BY <1>4, <1>5

LEMMA WriteIs ==
  ASSUME NEW c \in Clients, TypeOK, NEW bytes \in Seq(Nat \X Int), Write(c, bytes)
  PROVE  /\ file' \in [Clients -> Seq(Nat \X Int)]
         /\ \A d \in Clients : d # c => file'[d] = file[d]
         /\ file[c] # Corrupt /\ bytes # Corrupt => file'[c] = file[c] \o bytes
<1>1. file \in [Clients -> Seq(Nat \X Int)] BY DEF TypeOK
<1>2. PICK x : x = IF Corrupt \in {file[c], bytes} THEN Corrupt ELSE file[c] \o bytes OBVIOUS
<1>3. file' = [file EXCEPT ![c] = x] BY <1>2 DEF Write
<1>4. Corrupt \in Seq(Nat \X Int) BY DEF Corrupt
<1>5. file[c] \o bytes \in Seq(Nat \X Int) BY <1>1, ConcatProperties
<1>6. x \in Seq(Nat \X Int) BY <1>2, <1>4, <1>5
<1>7. file' \in [Clients -> Seq(Nat \X Int)] /\ file'[c] = x BY <1>1, <1>3, <1>6
<1>8. file[c] # Corrupt /\ bytes # Corrupt => x = file[c] \o bytes BY <1>2
<1>9. \A d \in Clients : d # c => file'[d] = file[d] BY <1>1, <1>3
<1> QED BY <1>7, <1>8, <1>9

(* A step that changes how much was read and who is near of connection i.   *)
LEMMA PutNear ==
  ASSUME NEW i \in Conns, TypeOK, NEW n \in Nat, NEW x \in Ends,
         n <= conns[i].written,
         conns' = [conns EXCEPT ![i].read = n, ![i].near = x]
  PROVE  /\ conns' \in Seq(Connection) /\ Len(conns') = Len(conns)
         /\ \A j \in Conns : j # i => conns'[j] = conns[j]
         /\ conns'[i] = [conns[i] EXCEPT !.read = n, !.near = x]
         /\ conns'[i].read = n
         /\ conns'[i].client = conns[i].client /\ conns'[i].request = conns[i].request
         /\ conns'[i].f = conns[i].f /\ conns'[i].written = conns[i].written
         /\ conns'[i].far = conns[i].far
         /\ \A j \in Conns' : conns'[j].read <= conns'[j].written
<1>1. /\ conns \in Seq(Connection) /\ conns[i] \in Connection /\ Len(conns) \in Nat
      /\ \A j \in Conns : conns[j].read <= conns[j].written
  BY ConnTypes
<1>2. PICK r : r = [conns[i] EXCEPT !.read = n, !.near = x] OBVIOUS
<1>3. r \in Connection /\ r.read = n /\ r.client = conns[i].client /\ r.request = conns[i].request
      /\ r.f = conns[i].f /\ r.written = conns[i].written /\ r.far = conns[i].far
  BY <1>1, <1>2 DEF Connection
<1>4. conns' = [conns EXCEPT ![i] = r] BY <1>1, <1>2
<1>5. i \in 1 .. Len(conns) BY DEF Conns
<1>6. /\ conns' \in Seq(Connection) /\ Len(conns') = Len(conns)
      /\ \A j \in 1 .. Len(conns) : conns'[j] = IF j = i THEN r ELSE conns[j]
  BY <1>1, <1>3, <1>4, <1>5, ExceptSeq
<1>7. conns'[i] = r /\ \A j \in Conns : j # i => conns'[j] = conns[j] BY <1>5, <1>6 DEF Conns
<1>8. \A j \in Conns' : conns'[j].read <= conns'[j].written
  BY <1>1, <1>3, <1>6, <1>7 DEF Conns
<1> QED BY <1>2, <1>3, <1>6, <1>7, <1>8

LEMMA RecvIs ==
  ASSUME NEW c \in Clients, TypeOK, sock[c] # 0, Mine(c).client = c,
         NEW n \in Nat, n <= Unread(sock[c]), NEW close \in BOOLEAN, NEW split \in BOOLEAN,
         Recv(c, n, close, split)
  PROVE  /\ conns' \in Seq(Connection) /\ Len(conns') = Len(conns)
         /\ \A j \in Conns' : conns'[j].read <= conns'[j].written
         /\ Kept(c)
         /\ conns'[sock[c]].read = Mine(c).read + n /\ conns'[sock[c]].far = Mine(c).far
         /\ cut' \subseteq Conns'
         /\ \A i \in Conns : i # sock[c] => (i \in cut' <=> i \in cut)
         /\ ~split => cut' = cut
         /\ split => sock[c] \in cut'
<1> DEFINE i == sock[c]
<1>1. /\ i \in Conns /\ conns[i] \in Connection /\ conns[i].read <= conns[i].written
      /\ Len(conns) \in Nat
  BY ConnTypes
<1>2. conns[i].read \in Nat /\ conns[i].written \in Nat /\ conns[i].near \in Ends
  BY <1>1, Fields
<1>3. conns[i].client = c BY DEF Mine
<1>4. PICK m : m = conns[i].read + n OBVIOUS
<1>5. m \in Nat /\ m <= conns[i].written BY <1>2, <1>4 DEF Unread
<1>6. PICK x : x = IF close THEN "closed" ELSE conns[i].near OBVIOUS
<1>7. x \in Ends BY <1>2, <1>6 DEF Ends
<1>8. conns' = [conns EXCEPT ![i].read = m, ![i].near = x]
  BY <1>1, <1>4, <1>6 DEF Recv
<1> HIDE DEF i
<1>9. /\ conns' \in Seq(Connection) /\ Len(conns') = Len(conns)
      /\ \A j \in Conns : j # i => conns'[j] = conns[j]
      /\ conns'[i].read = m
      /\ conns'[i].client = conns[i].client /\ conns'[i].request = conns[i].request
      /\ conns'[i].f = conns[i].f /\ conns'[i].written = conns[i].written
      /\ conns'[i].far = conns[i].far
      /\ \A j \in Conns' : conns'[j].read <= conns'[j].written
  BY <1>1, <1>5, <1>7, <1>8, PutNear
<1>10. Kept(c)
  <2>1. \A j \in Conns : conns[j].client # c => j # i BY <1>3
  <2>2. \A j \in Conns :
          /\ conns'[j].client = conns[j].client /\ conns'[j].request = conns[j].request
          /\ conns'[j].f = conns[j].f /\ conns'[j].written = conns[j].written
          /\ conns'[j].far = conns[j].far
    BY <1>9
  <2>3. \A j \in 1 .. Len(conns') : ~(j > Len(conns)) BY <1>1, <1>9
  <2> QED BY <1>1, <1>9, <2>1, <2>2, <2>3 DEF Kept
<1>11. cut \subseteq Conns /\ Conns' = Conns BY <1>9 DEF TypeOK, Conns
<1>12. cut' = IF split THEN cut \cup {i} ELSE cut BY DEF Recv, i
<1>13. /\ cut' \subseteq Conns' /\ (~split => cut' = cut) /\ (split => i \in cut')
       /\ \A j \in Conns : j # i => (j \in cut' <=> j \in cut)
  BY <1>1, <1>11, <1>12
<1> QED BY <1>4, <1>9, <1>10, <1>13 DEF i, Mine

(* The client's variables have their types, and the server kept its own. *)
LEMMA ClientTypes ==
  ASSUME TypeOK, UNCHANGED server,
         conns' \in Seq(Connection), Len(conns') \in Nat, Len(conns') >= Len(conns),
         \A j \in Conns' : conns'[j].read <= conns'[j].written,
         pc' \in [Clients -> {"idle", "header", "body", "ended"}],
         todo' \in [Clients -> Nat],
         asked' \in [Clients -> Names \cup {<<>>}],
         sock' \in [Clients -> 0 .. Len(conns')],
         \A c \in Clients : pc'[c] \in {"header", "body"} => sock'[c] # 0,
         filelength' \in [Clients -> Nat],
         bytesTotalOfFile' \in [Clients -> Int],
         file' \in [Clients -> Seq(Nat \X Int)],
         outcome' \in [Clients -> [ret : {-1, 0}, kept : BOOLEAN]],
         cut' \subseteq Conns'
  PROVE  TypeOK'
<1>1. srv' = srv /\ cur' = cur /\ readData' = readData BY DEF server
<1>2. /\ srv \in {"accept", "recv", "recv2", "send", "down"}
      /\ cur \in 0 .. Len(conns) /\ (srv \in {"recv", "recv2", "send"} => cur # 0)
      /\ readData \in Seq(Nat)
  BY DEF TypeOK
<1>3. Len(conns) \in Nat BY ConnTypes
<1>4. cur' \in 0 .. Len(conns') BY <1>1, <1>2, <1>3
<1>5. conns' \in Seq([client : Clients, request : Names \cup {<<>>}, f : 0 .. Len(content),
                      written : Nat, read : Nat, near : Ends, far : Ends \cup {"pending", "reset"}])
  BY DEF Connection
<1> QED BY <1>1, <1>2, <1>4, <1>5 DEF TypeOK

(* A step on the client's own connection that keeps the path it asked for.  *)
LEMMA OwnTypes ==
  ASSUME TypeOK, UNCHANGED <<server, asked, sock>>,
         conns' \in Seq(Connection), Len(conns') = Len(conns),
         \A j \in Conns' : conns'[j].read <= conns'[j].written,
         pc' \in [Clients -> {"idle", "header", "body", "ended"}],
         NEW c \in Clients, sock[c] # 0, \A d \in Clients : d # c => pc'[d] = pc[d],
         todo' \in [Clients -> Nat],
         filelength' \in [Clients -> Nat],
         bytesTotalOfFile' \in [Clients -> Int],
         file' \in [Clients -> Seq(Nat \X Int)],
         outcome' \in [Clients -> [ret : {-1, 0}, kept : BOOLEAN]],
         cut' \subseteq Conns'
  PROVE  TypeOK'
<1>1. UNCHANGED server /\ asked' = asked /\ sock' = sock OBVIOUS
<1>2. /\ asked \in [Clients -> Names \cup {<<>>}] /\ sock \in [Clients -> 0 .. Len(conns)]
      /\ \A d \in Clients : pc[d] \in {"header", "body"} => sock[d] # 0
  BY DEF TypeOK
<1>3. Len(conns') \in Nat /\ Len(conns') >= Len(conns) BY ConnTypes
<1>4. \A d \in Clients : pc'[d] \in {"header", "body"} => sock'[d] # 0 BY <1>1, <1>2
<1>5. asked' \in [Clients -> Names \cup {<<>>}] /\ sock' \in [Clients -> 0 .. Len(conns')]
  BY <1>1, <1>2
<1> QED BY <1>1, <1>3, <1>4, <1>5, ClientTypes

-----------------------------------------------------------------------------
(* A client at work, and what is on its connection. *)
LEMMA MineIs ==
  ASSUME NEW c \in Clients, Inv, pc[c] \in {"header", "body"}
  PROVE  /\ sock[c] # 0 /\ sock[c] \in Conns /\ Mine(c) = conns[sock[c]]
         /\ Mine(c).client = c /\ todo[c] > 0
         /\ Mine(c).read \in Nat /\ Mine(c).written \in Nat
         /\ Unread(sock[c]) \in Nat /\ Mine(c).written = Mine(c).read + Unread(sock[c])
         /\ Mine(c).f # 0 =>
              /\ Mine(c).f \in 1 .. Len(content)
              /\ HeaderLen(Mine(c).f) \in Nat /\ HeaderLen(Mine(c).f) > 2
              /\ FileLen(Mine(c).f) \in Nat
              /\ Mine(c).written >= HeaderLen(Mine(c).f)
              /\ Mine(c).written <= HeaderLen(Mine(c).f) + FileLen(Mine(c).f)
<1>1. TypeOK /\ Bounded /\ Good(c) BY DEF Inv
<1>2. sock[c] # 0 /\ todo[c] > 0 /\ Mine(c).client = c
  BY <1>1 DEF TypeOK, Good, Works, Answers
<1>3. sock[c] \in Conns /\ conns[sock[c]] \in Connection /\ Mine(c).read <= Mine(c).written
  BY <1>1, <1>2, ConnTypes DEF Mine
<1>4. Mine(c) \in Connection /\ Mine(c) = conns[sock[c]] BY <1>3 DEF Mine
<1>5. /\ Mine(c).read \in Nat /\ Mine(c).written \in Nat
      /\ Mine(c).f # 0 => Mine(c).f \in 1 .. Len(content)
  BY <1>4, Fields
<1>6. Unread(sock[c]) \in Nat /\ Mine(c).written = Mine(c).read + Unread(sock[c])
  BY <1>3, <1>4, <1>5 DEF Unread
<1>7. Mine(c).f # 0 => /\ HeaderLen(Mine(c).f) \in Nat /\ HeaderLen(Mine(c).f) > 2
                       /\ FileLen(Mine(c).f) \in Nat
  BY <1>5, Lengths
<1>8. Mine(c).f # 0 => Mine(c).written \in Sending(Mine(c)) BY <1>1, <1>3, <1>4 DEF Bounded
<1>9. Mine(c).f # 0 => /\ Mine(c).written >= HeaderLen(Mine(c).f)
                       /\ Mine(c).written <= HeaderLen(Mine(c).f) + FileLen(Mine(c).f)
  BY <1>5, <1>7, <1>8 DEF Sending
<1> QED BY <1>2, <1>3, <1>4, <1>5, <1>6, <1>7, <1>9

(* What a connection that was not cut answers is what content_get says of   *)
(* the path its client asked for.                                           *)
LEMMA Answered ==
  ASSUME NEW c \in Clients, TypeOK, Answers(c), sock[c] # 0, sock[c] \notin cut, Mine(c).written > 0
  PROVE  /\ Mine(c).f # 0 => content[Mine(c).f].key = asked[c]
         /\ Mine(c).f = 0 => \A f \in 1 .. Len(content) : content[f].key # asked[c]
<1>1. asked[c] \in Names \cup {<<>>} BY DEF TypeOK
<1>2. asked[c] \in Seq(Nat) BY <1>1, NameTypes
<1>3. Mine(c).f = content_get(asked[c]) BY DEF Answers
<1> QED BY <1>2, <1>3, ContentGetFinds

LEMMA OwnAnswers ==
  ASSUME NEW c \in Clients, Answers(c), sock[c] \in Conns, Kept(c),
         UNCHANGED <<server, asked, sock>>, sock[c] \in cut => sock[c] \in cut'
  PROVE  Answers(c)'
<1>1. srv' = srv /\ cur' = cur /\ asked' = asked /\ sock' = sock BY DEF server
<1>2. Mine(c) = conns[sock[c]] /\ Mine(c)' = conns'[sock[c]] BY <1>1 DEF Mine
<1>3. /\ Mine(c)'.client = Mine(c).client /\ Mine(c)'.request = Mine(c).request
      /\ Mine(c)'.f = Mine(c).f /\ Mine(c)'.written = Mine(c).written
  BY <1>2 DEF Kept
<1> HIDE DEF Mine
<1>4. sock[c] # 0 =>
        /\ Mine(c).client = c
        /\ sock[c] \notin cut =>
             /\ Mine(c).written = 0 => Mine(c).request = asked[c]
             /\ Mine(c).written > 0 => Mine(c).f = content_get(asked[c]) /\ Mine(c).request = <<>>
        /\ srv = "recv2" /\ cur = sock[c] => cur \in cut
  BY DEF Answers
<1> QED BY <1>1, <1>3, <1>4 DEF Answers

-----------------------------------------------------------------------------
(* The client's steps. *)
LEMMA HeaderOnlyInv ==
  ASSUME NEW c \in Clients, Inv, HeaderOnly(c), ~Crash(c)
  PROVE  Inv'
<1>1. TypeOK /\ Good(c) /\ pc[c] = "header" /\ UNCHANGED <<server, asked, sock, locals>>
  BY DEF Inv, HeaderOnly
<1>2. /\ sock[c] # 0 /\ sock[c] \in Conns /\ Mine(c) = conns[sock[c]]
      /\ Mine(c).client = c /\ todo[c] > 0
      /\ Mine(c).read \in Nat /\ Mine(c).written \in Nat
      /\ Unread(sock[c]) \in Nat /\ Mine(c).written = Mine(c).read + Unread(sock[c])
  BY <1>1, MineIs
<1>3. PICK n \in 1 .. Limit(2, Unread(sock[c])), r \in {-1, 0}, k \in BOOLEAN :
        /\ r = -1 => n = 1 /\ ~k
        /\ r = 0 => Mine(c).f = 0
        /\ Recv(c, n, FALSE, n = 1)
        /\ Finish(c, r, k)
  BY DEF HeaderOnly
<1>4. n \in Nat /\ n > 0 /\ n <= Unread(sock[c]) BY <1>2, <1>3 DEF Limit
<1>5. PICK split \in BOOLEAN : split = (n = 1) OBVIOUS
<1>6. Recv(c, n, FALSE, split) BY <1>3, <1>5
<1>7. /\ conns' \in Seq(Connection) /\ Len(conns') = Len(conns)
      /\ \A j \in Conns' : conns'[j].read <= conns'[j].written
      /\ Kept(c)
      /\ conns'[sock[c]].read = Mine(c).read + n
      /\ cut' \subseteq Conns'
      /\ \A i \in Conns : i # sock[c] => (i \in cut' <=> i \in cut)
      /\ ~split => cut' = cut
      /\ split => sock[c] \in cut'
  BY <1>1, <1>2, <1>4, <1>6, RecvIs
<1>8. /\ pc' \in [Clients -> {"idle", "header", "body", "ended"}]
      /\ todo' \in [Clients -> Nat]
      /\ outcome' \in [Clients -> [ret : {-1, 0}, kept : BOOLEAN]]
      /\ pc'[c] = "idle" /\ outcome'[c] = [ret |-> r, kept |-> k]
      /\ \A d \in Clients : d # c =>
           pc'[d] = pc[d] /\ todo'[d] = todo[d] /\ outcome'[d] = outcome[d]
  BY <1>1, <1>2, <1>3, FinishIs
<1>9. asked' = asked /\ sock' = sock /\ filelength' = filelength
      /\ bytesTotalOfFile' = bytesTotalOfFile /\ file' = file
  BY <1>1 DEF locals
<1>10. TypeOK'
  <2>1. /\ filelength \in [Clients -> Nat] /\ bytesTotalOfFile \in [Clients -> Int]
        /\ file \in [Clients -> Seq(Nat \X Int)]
    BY <1>1 DEF TypeOK
  <2> QED BY <1>1, <1>2, <1>7, <1>8, <1>9, <2>1, OwnTypes
<1>11. Frame(c) BY <1>1, <1>7, <1>8, <1>9 DEF Frame, Same
<1>12. Good(c)'
  <2>1. Answers(c)' BY <1>1, <1>2, <1>7, OwnAnswers DEF Good
  <2>2. Works(c)' BY <1>8 DEF Works
  <2>3. Honest(c)'
    <3>1. Mine(c)' = conns'[sock[c]] /\ Mine(c)'.f = Mine(c).f BY <1>2, <1>7, <1>9 DEF Mine, Kept
    <3>2. ASSUME sock[c] \notin cut' PROVE r = 0 /\ sock[c] \notin cut
      <4>1. ~split BY <1>7, <3>2
      <4>2. n # 1 BY <1>5, <4>1
      <4> QED BY <1>3, <1>7, <3>2, <4>1, <4>2
    <3>3. ASSUME sock[c] \notin cut'
          PROVE  Mine(c).f = 0 /\ \A f \in 1 .. Len(content) : content[f].key # asked[c]
      <4>1. r = 0 /\ sock[c] \notin cut BY <3>2, <3>3
      <4>2. Mine(c).written > 0 /\ Mine(c).f = 0 BY <1>2, <1>3, <1>4, <4>1
      <4> QED BY <1>1, <1>2, <4>1, <4>2, Answered DEF Good
    <3>4. file'[c] = <<>> BY <1>1, <1>9 DEF Good, Works
    <3>5. sock[c] \notin cut' => outcome'[c].ret # -1 BY <1>8, <3>2
    <3> HIDE DEF Mine
    <3> QED BY <1>9, <3>1, <3>3, <3>4, <3>5 DEF Honest
  <2> QED BY <2>1, <2>2, <2>3 DEF Good
<1> QED BY <1>10, <1>11, <1>12, FrameInv

(* The client has read up to n of a response that was not cut. *)
LEMMA CountGood ==
  ASSUME NEW c \in Clients, Inv, pc[c] \in {"header", "body"}, Mine(c).f # 0,
         UNCHANGED <<server, asked, sock>>, Kept(c), Mine(c)'.read > 0,
         NEW total \in Int,
         pc'[c] \in {"idle", "body"},
         total = filelength'[c] <=> pc'[c] = "idle",
         pc'[c] = "idle" => outcome'[c].ret = 0,
         pc'[c] = "body" => todo'[c] > 0,
         bytesTotalOfFile'[c] = total,
         sock[c] \in cut => sock[c] \in cut',
         sock[c] \notin cut' =>
           /\ Mine(c)'.read >= HeaderLen(Mine(c).f)
           /\ Mine(c)'.read \in Nat /\ Mine(c)'.read <= Mine(c).written
           /\ total = Mine(c)'.read - HeaderLen(Mine(c).f)
           /\ filelength'[c] = FileLen(Mine(c).f)
           /\ file'[c] = Bytes(Mine(c).f, HeaderLen(Mine(c).f), Mine(c)'.read)
  PROVE  Good(c)'
<1>1. TypeOK /\ Good(c) BY DEF Inv
<1>2. /\ sock[c] # 0 /\ sock[c] \in Conns /\ Mine(c) = conns[sock[c]]
      /\ Mine(c).read \in Nat /\ Mine(c).written \in Nat
      /\ Unread(sock[c]) \in Nat /\ Mine(c).written = Mine(c).read + Unread(sock[c])
      /\ Mine(c).f \in 1 .. Len(content)
      /\ HeaderLen(Mine(c).f) \in Nat /\ HeaderLen(Mine(c).f) > 2
      /\ FileLen(Mine(c).f) \in Nat
      /\ Mine(c).written >= HeaderLen(Mine(c).f)
      /\ Mine(c).written <= HeaderLen(Mine(c).f) + FileLen(Mine(c).f)
  BY MineIs
<1>3. sock' = sock /\ asked' = asked OBVIOUS
<1>4. /\ Mine(c)' = conns'[sock[c]] /\ Mine(c)'.f = Mine(c).f
      /\ Mine(c)'.written = Mine(c).written
  BY <1>2, <1>3 DEF Mine, Kept
<1>5. Answers(c)' BY <1>1, <1>2, OwnAnswers DEF Good
<1>6. sock[c] \notin cut' =>
        /\ file'[c] = Bytes(Mine(c).f, HeaderLen(Mine(c).f), Mine(c)'.read)
        /\ pc'[c] = "body" => total < filelength'[c]
        /\ pc'[c] = "idle" => Mine(c)'.read = HeaderLen(Mine(c).f) + FileLen(Mine(c).f)
  BY <1>2
<1> HIDE DEF Mine
<1>7. Works(c)'
  <2>1. pc'[c] = "body" /\ sock[c] \notin cut' => Counted(c)'
    BY <1>3, <1>4, <1>6 DEF Counted
  <2> QED BY <1>2, <1>3, <1>4, <2>1 DEF Works
<1>8. Honest(c)'
  <2>1. ASSUME pc'[c] = "idle", sock[c] \notin cut'
        PROVE  \E f \in 1 .. Len(content) : content[f].key = asked[c] /\ file'[c] = WholeFile(f)
    <3>1. Mine(c).written > 0 BY <1>2
    <3>2. content[Mine(c).f].key = asked[c] BY <1>1, <1>2, <2>1, <3>1, Answered DEF Good
    <3>3. file'[c] = WholeFile(Mine(c).f) BY <1>6, <2>1 DEF WholeFile
    <3> QED BY <1>2, <3>2, <3>3
  <2> QED BY <1>3, <1>4, <2>1 DEF Honest
<1> QED BY <1>5, <1>7, <1>8 DEF Good

LEMMA HeaderOkInv ==
  ASSUME NEW c \in Clients, Inv, HeaderOk(c)
  PROVE  Inv'
<1> DEFINE f == Mine(c).f
           H == HeaderLen(f)
<1>1. /\ TypeOK /\ Good(c) /\ pc[c] = "header" /\ f # 0
      /\ UNCHANGED <<server, asked, sock>>
  BY DEF Inv, HeaderOk
<1>2. /\ sock[c] # 0 /\ sock[c] \in Conns /\ Mine(c) = conns[sock[c]]
      /\ Mine(c).client = c /\ todo[c] > 0
      /\ Mine(c).read \in Nat /\ Mine(c).written \in Nat
      /\ Unread(sock[c]) \in Nat /\ Mine(c).written = Mine(c).read + Unread(sock[c])
      /\ f \in 1 .. Len(content) /\ H \in Nat /\ H > 2 /\ FileLen(f) \in Nat
  BY <1>1, MineIs
<1>3. PICK n \in H .. Unread(sock[c]) :
        /\ Recv(c, n, n - H = FileLen(f), FALSE)
        /\ Write(c, Bytes(f, H, n))
        /\ Count(c, n - H, FileLen(f))
  BY DEF HeaderOk
<1>4. n \in Nat /\ n > 0 /\ H <= n /\ n <= Unread(sock[c]) /\ n - H \in Int BY <1>2, <1>3
<1>5. PICK close \in BOOLEAN, split \in BOOLEAN : close = (n - H = FileLen(f)) /\ split = FALSE
  OBVIOUS
<1>6. Recv(c, n, close, split) BY <1>3, <1>5
<1>7. /\ conns' \in Seq(Connection) /\ Len(conns') = Len(conns)
      /\ \A j \in Conns' : conns'[j].read <= conns'[j].written
      /\ Kept(c)
      /\ conns'[sock[c]].read = Mine(c).read + n
      /\ cut' \subseteq Conns'
      /\ \A i \in Conns : i # sock[c] => (i \in cut' <=> i \in cut)
      /\ ~split => cut' = cut
  BY <1>1, <1>2, <1>4, <1>6, RecvIs
<1>8. /\ pc' \in [Clients -> {"idle", "header", "body", "ended"}]
      /\ todo' \in [Clients -> Nat]
      /\ outcome' \in [Clients -> [ret : {-1, 0}, kept : BOOLEAN]]
      /\ bytesTotalOfFile' \in [Clients -> Int] /\ bytesTotalOfFile'[c] = n - H
      /\ filelength' \in [Clients -> Nat] /\ filelength'[c] = FileLen(f)
      /\ n - H = FileLen(f) => pc'[c] = "idle" /\ outcome'[c].ret = 0
      /\ n - H # FileLen(f) => pc'[c] = "body" /\ todo'[c] > 0
      /\ \A d \in Clients : d # c =>
           /\ pc'[d] = pc[d] /\ todo'[d] = todo[d] /\ outcome'[d] = outcome[d]
           /\ bytesTotalOfFile'[d] = bytesTotalOfFile[d] /\ filelength'[d] = filelength[d]
  BY <1>1, <1>2, <1>3, <1>4, CountIs
<1>9. Bytes(f, H, n) \in Seq(Nat \X Int) /\ Bytes(f, H, n) # Corrupt
  BY <1>2, <1>4, BytesTypes
<1>10. /\ file' \in [Clients -> Seq(Nat \X Int)]
       /\ \A d \in Clients : d # c => file'[d] = file[d]
       /\ file[c] # Corrupt => file'[c] = file[c] \o Bytes(f, H, n)
  BY <1>1, <1>3, <1>9, WriteIs
<1>11. asked' = asked /\ sock' = sock /\ UNCHANGED server BY <1>1
<1>12. Mine(c).read = 0 /\ file[c] = <<>> BY <1>1 DEF Good, Works
<1>13. file'[c] = Bytes(f, H, n)
  <2>1. file[c] # Corrupt BY <1>12 DEF Corrupt
  <2> QED BY <1>9, <1>10, <1>12, <2>1, ConcatEmptySeq
<1>14. TypeOK' BY <1>1, <1>2, <1>7, <1>8, <1>10, OwnTypes
<1>15. Frame(c) BY <1>7, <1>8, <1>10, <1>11 DEF Frame, Same
<1>16. Mine(c)'.read = n BY <1>2, <1>4, <1>7, <1>11, <1>12 DEF Mine
<1>17. n <= Mine(c).written BY <1>2, <1>4
<1>18. cut' = cut BY <1>5, <1>7
<1> HIDE DEF H, f
<1>19. /\ pc'[c] \in {"idle", "body"}
       /\ n - H = filelength'[c] <=> pc'[c] = "idle"
       /\ pc'[c] = "idle" => outcome'[c].ret = 0
       /\ pc'[c] = "body" => todo'[c] > 0
  BY <1>8
<1>20. Good(c)'
  BY <1>1, <1>4, <1>7, <1>8, <1>13, <1>16, <1>17, <1>18, <1>19, CountGood DEF H, f
<1> QED BY <1>14, <1>15, <1>20, FrameInv

LEMMA HeaderCutInv ==
  ASSUME NEW c \in Clients, Inv, HeaderCut(c), ~Crash(c)
  PROVE  Inv'
<1> DEFINE f == Mine(c).f
           H == HeaderLen(f)
<1>1. TypeOK /\ Good(c) /\ pc[c] = "header" /\ f # 0 BY DEF Inv, HeaderCut
<1>2. /\ sock[c] # 0 /\ sock[c] \in Conns /\ Mine(c) = conns[sock[c]]
      /\ Mine(c).client = c /\ todo[c] > 0
      /\ Mine(c).read \in Nat /\ Mine(c).written \in Nat
      /\ Unread(sock[c]) \in Nat
      /\ f \in 1 .. Len(content) /\ H \in Nat /\ H > 2 /\ FileLen(f) \in Nat
  BY <1>1, MineIs
<1>3. PICK n \in 2 .. Limit(H - 1, Unread(sock[c])), length \in 0 .. MaxLength,
          s \in 0 .. MaxStale :
        /\ Recv(c, n, FALSE, TRUE)
        /\ Write(c, Corrupt)
        /\ Count(c, -1 - s, length)
        /\ UNCHANGED <<server, asked, sock>>
  BY DEF HeaderCut
<1>4. n \in Nat /\ n > 0 /\ n <= Unread(sock[c]) BY <1>2, <1>3 DEF Limit
<1>5. PICK total \in Int : total = -1 - s OBVIOUS
<1>6. Count(c, total, length) /\ length \in Nat BY <1>3, <1>5
<1>7. /\ conns' \in Seq(Connection) /\ Len(conns') = Len(conns)
      /\ \A j \in Conns' : conns'[j].read <= conns'[j].written
      /\ Kept(c)
      /\ conns'[sock[c]].read = Mine(c).read + n
      /\ cut' \subseteq Conns'
      /\ \A i \in Conns : i # sock[c] => (i \in cut' <=> i \in cut)
      /\ sock[c] \in cut'
  BY <1>1, <1>2, <1>3, <1>4, RecvIs
<1>8. /\ pc' \in [Clients -> {"idle", "header", "body", "ended"}]
      /\ todo' \in [Clients -> Nat]
      /\ outcome' \in [Clients -> [ret : {-1, 0}, kept : BOOLEAN]]
      /\ bytesTotalOfFile' \in [Clients -> Int] /\ bytesTotalOfFile'[c] = total
      /\ filelength' \in [Clients -> Nat] /\ filelength'[c] = length
      /\ total = length => pc'[c] = "idle" /\ outcome'[c].ret = 0
      /\ total # length => pc'[c] = "body" /\ todo'[c] > 0
      /\ \A d \in Clients : d # c =>
           /\ pc'[d] = pc[d] /\ todo'[d] = todo[d] /\ outcome'[d] = outcome[d]
           /\ bytesTotalOfFile'[d] = bytesTotalOfFile[d] /\ filelength'[d] = filelength[d]
  BY <1>1, <1>2, <1>6, CountIs
<1>9. Corrupt \in Seq(Nat \X Int) BY DEF Corrupt
<1>10. /\ file' \in [Clients -> Seq(Nat \X Int)]
       /\ \A d \in Clients : d # c => file'[d] = file[d]
  BY <1>1, <1>3, <1>9, WriteIs
<1>11. asked' = asked /\ sock' = sock /\ UNCHANGED server BY <1>3
<1>12. TypeOK' BY <1>1, <1>2, <1>3, <1>7, <1>8, <1>10, OwnTypes
<1>13. Frame(c) BY <1>7, <1>8, <1>10, <1>11 DEF Frame, Same
<1>14. Mine(c)'.read > 0
  <2>1. Mine(c)'.read = Mine(c).read + n BY <1>2, <1>7, <1>11 DEF Mine
  <2> QED BY <1>2, <1>4, <2>1
<1>15. /\ pc'[c] \in {"idle", "body"}
       /\ total = filelength'[c] <=> pc'[c] = "idle"
       /\ pc'[c] = "idle" => outcome'[c].ret = 0
       /\ pc'[c] = "body" => todo'[c] > 0
  BY <1>8
<1>16. UNCHANGED <<server, asked, sock>> BY <1>3
<1>17. Good(c)' BY <1>1, <1>7, <1>8, <1>14, <1>15, <1>16, CountGood
<1> QED BY <1>12, <1>13, <1>17, FrameInv

LEMMA BodyInv ==
  ASSUME NEW c \in Clients, Inv, Body(c)
  PROVE  Inv'
<1> DEFINE f == Mine(c).f
           H == HeaderLen(f)
           R == Mine(c).read
<1>1. TypeOK /\ Good(c) /\ pc[c] = "body" /\ UNCHANGED <<server, asked, sock>>
  BY DEF Inv, Body
<1>2. f # 0 /\ R > 0 /\ (sock[c] \notin cut => Counted(c)) BY <1>1 DEF Good, Works
<1>3. /\ sock[c] # 0 /\ sock[c] \in Conns /\ Mine(c) = conns[sock[c]]
      /\ Mine(c).client = c /\ todo[c] > 0
      /\ R \in Nat /\ Mine(c).written \in Nat
      /\ Unread(sock[c]) \in Nat /\ Mine(c).written = R + Unread(sock[c])
      /\ f \in 1 .. Len(content) /\ H \in Nat /\ H > 2 /\ FileLen(f) \in Nat
  BY <1>1, <1>2, MineIs
<1>4. PICK n \in 1 .. Unread(sock[c]) :
        /\ Recv(c, n, bytesTotalOfFile[c] + n = filelength[c], FALSE)
        /\ Write(c, Bytes(f, R, R + n))
        /\ Count(c, bytesTotalOfFile[c] + n, filelength[c])
  BY DEF Body
<1>5. n \in Nat /\ n > 0 /\ n <= Unread(sock[c]) BY <1>3, <1>4
<1>6. bytesTotalOfFile[c] \in Int /\ filelength[c] \in Nat BY <1>1 DEF TypeOK
<1>7. PICK total \in Int : total = bytesTotalOfFile[c] + n BY <1>5, <1>6
<1>8. PICK close \in BOOLEAN, split \in BOOLEAN : close = (total = filelength[c]) /\ split = FALSE
  OBVIOUS
<1>9. Recv(c, n, close, split) /\ Count(c, total, filelength[c]) BY <1>4, <1>7, <1>8
<1>10. /\ conns' \in Seq(Connection) /\ Len(conns') = Len(conns)
       /\ \A j \in Conns' : conns'[j].read <= conns'[j].written
       /\ Kept(c)
       /\ conns'[sock[c]].read = R + n
       /\ cut' \subseteq Conns'
       /\ \A i \in Conns : i # sock[c] => (i \in cut' <=> i \in cut)
       /\ ~split => cut' = cut
  BY <1>1, <1>3, <1>5, <1>9, RecvIs
<1>11. /\ pc' \in [Clients -> {"idle", "header", "body", "ended"}]
       /\ todo' \in [Clients -> Nat]
       /\ outcome' \in [Clients -> [ret : {-1, 0}, kept : BOOLEAN]]
       /\ bytesTotalOfFile' \in [Clients -> Int] /\ bytesTotalOfFile'[c] = total
       /\ filelength' \in [Clients -> Nat] /\ filelength'[c] = filelength[c]
       /\ total = filelength[c] => pc'[c] = "idle" /\ outcome'[c].ret = 0
       /\ total # filelength[c] => pc'[c] = "body" /\ todo'[c] > 0
       /\ \A d \in Clients : d # c =>
            /\ pc'[d] = pc[d] /\ todo'[d] = todo[d] /\ outcome'[d] = outcome[d]
            /\ bytesTotalOfFile'[d] = bytesTotalOfFile[d] /\ filelength'[d] = filelength[d]
  BY <1>1, <1>3, <1>6, <1>9, CountIs
<1>12. Bytes(f, R, R + n) \in Seq(Nat \X Int) /\ Bytes(f, R, R + n) # Corrupt
  <2>1. R + n \in Nat /\ R <= R + n BY <1>3, <1>5
  <2> QED BY <1>3, <2>1, BytesTypes
<1>13. /\ file' \in [Clients -> Seq(Nat \X Int)]
       /\ \A d \in Clients : d # c => file'[d] = file[d]
       /\ file[c] # Corrupt => file'[c] = file[c] \o Bytes(f, R, R + n)
  BY <1>1, <1>4, <1>12, WriteIs
<1>14. asked' = asked /\ sock' = sock /\ UNCHANGED server BY <1>1
<1>15. cut' = cut BY <1>8, <1>10
<1>16. TypeOK' BY <1>1, <1>3, <1>10, <1>11, <1>13, OwnTypes
<1>17. Frame(c) BY <1>10, <1>11, <1>13, <1>14 DEF Frame, Same
<1>18. Mine(c)'.read = R + n BY <1>3, <1>10, <1>14 DEF Mine
<1>19. ASSUME sock[c] \notin cut
       PROVE  /\ R + n >= H /\ total = R + n - H /\ filelength'[c] = FileLen(f)
              /\ file'[c] = Bytes(f, H, R + n)
  <2>1. /\ R >= H /\ file[c] = Bytes(f, H, R) /\ bytesTotalOfFile[c] = R - H
        /\ filelength[c] = FileLen(f)
    BY <1>2, <1>19 DEF Counted
  <2>2. R + n \in Nat /\ R <= R + n /\ H <= R BY <1>3, <1>5, <2>1
  <2>3. file[c] # Corrupt
    <3> HIDE DEF H, R, f
    <3> QED BY <1>3, <2>1, <2>2, BytesTypes
  <2>4. file'[c] = Bytes(f, H, R + n)
    <3> HIDE DEF H, R, f
    <3>1. Bytes(f, H, R) \o Bytes(f, R, R + n) = Bytes(f, H, R + n)
      BY <1>3, <2>2, BytesJoin
    <3> QED BY <1>13, <2>1, <2>3, <3>1
  <2> QED BY <1>3, <1>5, <1>7, <1>11, <2>1, <2>4
<1>20. /\ Mine(c)'.read > 0 /\ Mine(c)'.read \in Nat /\ Mine(c)'.read <= Mine(c).written
  BY <1>3, <1>5, <1>18
<1> HIDE DEF H, R, f
<1>21. /\ pc'[c] \in {"idle", "body"}
       /\ total = filelength'[c] <=> pc'[c] = "idle"
       /\ pc'[c] = "idle" => outcome'[c].ret = 0
       /\ pc'[c] = "body" => todo'[c] > 0
       /\ bytesTotalOfFile'[c] = total
  BY <1>11
<1>22. sock[c] \notin cut' =>
         /\ Mine(c)'.read >= H
         /\ total = Mine(c)'.read - H
         /\ filelength'[c] = FileLen(f)
         /\ file'[c] = Bytes(f, H, Mine(c)'.read)
  <2>1. sock[c] \notin cut => R + n >= H /\ total = R + n - H /\ filelength'[c] = FileLen(f)
    BY <1>19
  <2>2. sock[c] \notin cut => file'[c] = Bytes(f, H, R + n) BY <1>19
  <2>3. sock[c] \notin cut => file'[c] = Bytes(f, H, Mine(c)'.read) BY <1>18, <2>2, Zenon
  <2>4. sock[c] \notin cut => Mine(c)'.read >= H /\ total = Mine(c)'.read - H
    BY <1>3, <1>5, <1>18, <1>20, <2>1
  <2> QED BY <1>15, <2>1, <2>3, <2>4, Zenon
<1>23. Good(c)'
  BY <1>1, <1>2, <1>10, <1>15, <1>20, <1>21, <1>22, CountGood DEF H, f
<1> QED BY <1>16, <1>17, <1>23, FrameInv

LEMMA EofInv ==
  ASSUME NEW c \in Clients, Inv, Eof(c), ~Crash(c)
  PROVE  Inv'
<1>1. /\ TypeOK /\ Good(c) /\ pc[c] \in {"header", "body"}
      /\ Unread(sock[c]) = 0 /\ Mine(c).far = "closed"
      /\ Recv(c, 0, TRUE, FALSE) /\ UNCHANGED <<server, asked, sock, locals>>
  BY DEF Inv, Eof
<1>2. PICK r \in {-1, 0}, k \in BOOLEAN :
        /\ r = -1 => ~k
        /\ pc[c] = "body" => (r = -1) = (bytesTotalOfFile[c] \in 0 .. filelength[c] - 1)
        /\ Finish(c, r, k)
  BY DEF Eof
<1>3. /\ sock[c] # 0 /\ sock[c] \in Conns /\ Mine(c) = conns[sock[c]]
      /\ Mine(c).client = c /\ todo[c] > 0
      /\ Mine(c).read \in Nat /\ Mine(c).written \in Nat
      /\ Mine(c).written = Mine(c).read + Unread(sock[c])
      /\ Mine(c).f # 0 => /\ HeaderLen(Mine(c).f) \in Nat /\ FileLen(Mine(c).f) \in Nat
  BY <1>1, MineIs
<1>4. PICK close \in BOOLEAN, split \in BOOLEAN : close = TRUE /\ split = FALSE OBVIOUS
<1>5. Recv(c, 0, close, split) BY <1>1, <1>4
<1>6. 0 \in Nat /\ 0 <= Unread(sock[c]) BY <1>1
<1>7. /\ conns' \in Seq(Connection) /\ Len(conns') = Len(conns)
      /\ \A j \in Conns' : conns'[j].read <= conns'[j].written
      /\ Kept(c)
      /\ conns'[sock[c]].read = Mine(c).read + 0 /\ conns'[sock[c]].far = Mine(c).far
      /\ cut' \subseteq Conns'
      /\ \A i \in Conns : i # sock[c] => (i \in cut' <=> i \in cut)
      /\ ~split => cut' = cut
  BY <1>1, <1>3, <1>5, <1>6, RecvIs
<1>8. /\ pc' \in [Clients -> {"idle", "header", "body", "ended"}]
      /\ todo' \in [Clients -> Nat]
      /\ outcome' \in [Clients -> [ret : {-1, 0}, kept : BOOLEAN]]
      /\ pc'[c] = "idle" /\ outcome'[c] = [ret |-> r, kept |-> k]
      /\ \A d \in Clients : d # c =>
           pc'[d] = pc[d] /\ todo'[d] = todo[d] /\ outcome'[d] = outcome[d]
  BY <1>1, <1>2, <1>3, FinishIs
<1>9. asked' = asked /\ sock' = sock /\ filelength' = filelength
      /\ bytesTotalOfFile' = bytesTotalOfFile /\ file' = file
  BY <1>1 DEF locals
<1>10. TypeOK'
  <2>1. /\ filelength \in [Clients -> Nat] /\ bytesTotalOfFile \in [Clients -> Int]
        /\ file \in [Clients -> Seq(Nat \X Int)]
    BY <1>1 DEF TypeOK
  <2> QED BY <1>1, <1>3, <1>7, <1>8, <1>9, <2>1, OwnTypes
<1>11. Frame(c) BY <1>1, <1>7, <1>8, <1>9 DEF Frame, Same
<1>12. cut' = cut BY <1>4, <1>7
<1>13. Good(c)'
  <2>1. Answers(c)' BY <1>1, <1>3, <1>7, <1>12, OwnAnswers DEF Good
  <2>2. Works(c)' BY <1>8 DEF Works
  <2>3. Honest(c)'
    <3>1. /\ Mine(c)' = conns'[sock[c]] /\ Mine(c)'.f = Mine(c).f
          /\ Mine(c)'.written = Mine(c).written /\ Mine(c)'.far = "closed"
          /\ Mine(c)'.read = Mine(c).read
      BY <1>1, <1>3, <1>7, <1>9 DEF Mine, Kept
    <3>2. CASE pc[c] = "header"
      <4>1. Mine(c).read = 0 BY <1>1, <3>2 DEF Good, Works
      <4> QED BY <3>1, <4>1 DEF Honest
    <3>3. CASE pc[c] = "body"
      <4>1. Mine(c).f # 0 /\ (sock[c] \notin cut => Counted(c)) BY <1>1, <3>3 DEF Good, Works
      <4>2. ASSUME sock[c] \notin cut
            PROVE  r = -1 /\ k = FALSE
                   /\ Mine(c).written < HeaderLen(Mine(c).f) + FileLen(Mine(c).f)
        <5>1. /\ Mine(c).read >= HeaderLen(Mine(c).f)
              /\ bytesTotalOfFile[c] = Mine(c).read - HeaderLen(Mine(c).f)
              /\ bytesTotalOfFile[c] < filelength[c] /\ filelength[c] = FileLen(Mine(c).f)
          BY <4>1, <4>2 DEF Counted
        <5>2. bytesTotalOfFile[c] \in 0 .. filelength[c] - 1 BY <1>3, <4>1, <5>1
        <5> QED BY <1>1, <1>2, <1>3, <3>3, <4>1, <5>1, <5>2
      <4>3. sock[c] \notin cut => outcome'[c].kept = FALSE
        <5>1. outcome'[c] = [ret |-> r, kept |-> k] BY <1>8
        <5>2. [ret |-> r, kept |-> k].kept = k OBVIOUS
        <5>3. outcome'[c].kept = k BY <5>1, <5>2, Zenon
        <5> QED BY <4>2, <5>3, Zenon
      <4> HIDE DEF Mine
      <4> QED BY <1>9, <1>12, <3>1, <4>1, <4>2, <4>3 DEF Honest
    <3> QED BY <1>1, <3>2, <3>3
  <2> QED BY <2>1, <2>2, <2>3 DEF Good
<1> QED BY <1>10, <1>11, <1>13, FrameInv

LEMMA ResetInv ==
  ASSUME NEW c \in Clients, Inv, Reset(c), ~Crash(c)
  PROVE  Inv'
<1>1. /\ TypeOK /\ Bounded /\ Good(c) /\ pc[c] = "body" /\ Mine(c).far = "reset"
      /\ conns' = [conns EXCEPT ![sock[c]].far = "closed"]
      /\ Write(c, Corrupt)
      /\ Count(c, bytesTotalOfFile[c] - 1, filelength[c])
      /\ UNCHANGED <<server, asked, sock, cut>>
  BY DEF Inv, Reset
<1>2. Mine(c).f # 0 /\ Mine(c).read > 0 BY <1>1 DEF Good, Works
<1>3. /\ sock[c] # 0 /\ sock[c] \in Conns /\ Mine(c) = conns[sock[c]]
      /\ Mine(c).client = c /\ todo[c] > 0
      /\ Mine(c).read \in Nat /\ Mine(c).written \in Nat
      /\ Unread(sock[c]) \in Nat /\ Mine(c).written = Mine(c).read + Unread(sock[c])
  BY <1>1, MineIs
<1>4. bytesTotalOfFile[c] \in Int /\ filelength[c] \in Nat BY <1>1 DEF TypeOK
<1>5. PICK total \in Int : total = bytesTotalOfFile[c] - 1 BY <1>4
<1>6. Count(c, total, filelength[c]) BY <1>1, <1>5
<1>7. /\ conns' \in Seq(Connection) /\ Len(conns') = Len(conns) /\ Len(conns) \in Nat
      /\ \A j \in Conns' : conns'[j].read <= conns'[j].written
      /\ Kept(c)
      /\ conns'[sock[c]].read = Mine(c).read
  <2>1. /\ conns \in Seq(Connection) /\ Len(conns) \in Nat /\ Mine(c) \in Connection
        /\ \A j \in Conns : conns[j].read <= conns[j].written
    BY <1>1, <1>3, ConnTypes
  <2>2. PICK q : q = [Mine(c) EXCEPT !.far = "closed"] OBVIOUS
  <2>3. /\ q \in Connection /\ q.far = "closed" /\ q.read = Mine(c).read
        /\ q.client = Mine(c).client /\ q.request = Mine(c).request
        /\ q.f = Mine(c).f /\ q.written = Mine(c).written
    BY <2>1, <2>2 DEF Connection, Ends
  <2>4. conns' = [conns EXCEPT ![sock[c]] = q] BY <1>1, <1>3, <2>1, <2>2
  <2>5. sock[c] \in 1 .. Len(conns) BY <1>3 DEF Conns
  <2>6. /\ conns' \in Seq(Connection) /\ Len(conns') = Len(conns)
        /\ \A j \in 1 .. Len(conns) : conns'[j] = IF j = sock[c] THEN q ELSE conns[j]
    BY <2>1, <2>3, <2>4, <2>5, ExceptSeq
  <2>7. conns'[sock[c]] = q /\ \A j \in Conns : j # sock[c] => conns'[j] = conns[j]
    BY <2>5, <2>6 DEF Conns
  <2>8. Conns' = Conns BY <2>6 DEF Conns
  <2>9. \A j \in Conns' : conns'[j].read <= conns'[j].written
    <3>1. \A j \in Conns : j # sock[c] => conns'[j].read <= conns'[j].written BY <2>1, <2>7
    <3>2. conns'[sock[c]].read <= conns'[sock[c]].written BY <1>3, <2>1, <2>3, <2>7
    <3> QED BY <2>8, <3>1, <3>2
  <2>10. \A j \in Conns :
           /\ conns'[j].client = conns[j].client /\ conns'[j].request = conns[j].request
           /\ conns'[j].f = conns[j].f /\ conns'[j].written = conns[j].written
           /\ conns'[j].far = conns[j].far \/ (conns[j].far = "reset" /\ conns'[j].far = "closed")
           /\ conns[j].client # c => conns'[j] = conns[j]
    <3>1. CASE Mine(c).far = "reset" BY <1>3, <2>3, <2>7, <3>1
    <3> QED BY <1>1, <3>1
  <2>11. \A j \in 1 .. Len(conns') : ~(j > Len(conns)) BY <2>1, <2>6
  <2>12. Kept(c) BY <2>1, <2>6, <2>10, <2>11 DEF Kept
  <2> QED BY <2>1, <2>3, <2>6, <2>7, <2>9, <2>12
<1>8. /\ pc' \in [Clients -> {"idle", "header", "body", "ended"}]
      /\ todo' \in [Clients -> Nat]
      /\ outcome' \in [Clients -> [ret : {-1, 0}, kept : BOOLEAN]]
      /\ bytesTotalOfFile' \in [Clients -> Int] /\ bytesTotalOfFile'[c] = total
      /\ filelength' \in [Clients -> Nat] /\ filelength'[c] = filelength[c]
      /\ total = filelength[c] => pc'[c] = "idle" /\ outcome'[c].ret = 0
      /\ total # filelength[c] => pc'[c] = "body" /\ todo'[c] > 0
      /\ \A d \in Clients : d # c =>
           /\ pc'[d] = pc[d] /\ todo'[d] = todo[d] /\ outcome'[d] = outcome[d]
           /\ bytesTotalOfFile'[d] = bytesTotalOfFile[d] /\ filelength'[d] = filelength[d]
  BY <1>1, <1>3, <1>4, <1>6, CountIs
<1>9. Corrupt \in Seq(Nat \X Int) BY DEF Corrupt
<1>10. /\ file' \in [Clients -> Seq(Nat \X Int)]
       /\ \A d \in Clients : d # c => file'[d] = file[d]
  BY <1>1, <1>9, WriteIs
<1>11. asked' = asked /\ sock' = sock /\ cut' = cut /\ UNCHANGED server BY <1>1
<1>12. cut' \subseteq Conns' BY <1>1, <1>7 DEF TypeOK, Conns
<1>13. UNCHANGED <<server, asked, sock>> BY <1>1
<1>14. TypeOK' BY <1>1, <1>3, <1>7, <1>8, <1>10, <1>12, <1>13, OwnTypes
<1>15. Frame(c) BY <1>7, <1>8, <1>10, <1>11 DEF Frame, Same
<1>16. sock[c] \in cut'  \* what was reset is what was not read of a request that came in pieces
  <2>1. Mine(c).request # <<>> BY <1>1, <1>3 DEF Bounded
  <2>2. Mine(c).written > 0 BY <1>2, <1>3
  <2> QED BY <1>1, <1>3, <1>11, <2>1, <2>2 DEF Good, Answers
<1>17. Mine(c)'.read > 0 BY <1>2, <1>3, <1>7, <1>11 DEF Mine
<1>18. /\ pc'[c] \in {"idle", "body"}
       /\ total = filelength'[c] <=> pc'[c] = "idle"
       /\ pc'[c] = "idle" => outcome'[c].ret = 0
       /\ pc'[c] = "body" => todo'[c] > 0
  BY <1>8
<1>19. Good(c)' BY <1>1, <1>2, <1>7, <1>8, <1>13, <1>16, <1>17, <1>18, CountGood
<1> QED BY <1>14, <1>15, <1>19, FrameInv

LEMMA StartIs ==
  ASSUME NEW c \in Clients, TypeOK, NEW name \in Names \cup {<<>>}, NEW i \in Nat,
         NEW L \in Nat, i <= L, Len(conns) <= L, Start(c, name, i)
  PROVE  /\ asked' \in [Clients -> Names \cup {<<>>}] /\ asked'[c] = name
         /\ sock' \in [Clients -> 0 .. L] /\ sock'[c] = i
         /\ filelength' \in [Clients -> Nat] /\ bytesTotalOfFile' \in [Clients -> Int]
         /\ file' \in [Clients -> Seq(Nat \X Int)] /\ file'[c] = <<>>
         /\ outcome' \in [Clients -> [ret : {-1, 0}, kept : BOOLEAN]]
         /\ \A d \in Clients : d # c =>
              /\ asked'[d] = asked[d] /\ sock'[d] = sock[d] /\ filelength'[d] = filelength[d]
              /\ bytesTotalOfFile'[d] = bytesTotalOfFile[d] /\ file'[d] = file[d]
              /\ outcome'[d] = outcome[d]
         /\ cut' \subseteq Conns
         /\ \A j \in Conns : j # sock[c] => (j \in cut' <=> j \in cut)
<1>1. /\ asked \in [Clients -> Names \cup {<<>>}] /\ sock \in [Clients -> 0 .. Len(conns)]
      /\ filelength \in [Clients -> Nat] /\ bytesTotalOfFile \in [Clients -> Int]
      /\ file \in [Clients -> Seq(Nat \X Int)]
      /\ outcome \in [Clients -> [ret : {-1, 0}, kept : BOOLEAN]]
      /\ cut \subseteq Conns
  BY DEF TypeOK
<1>2. Len(conns) \in Nat BY ConnTypes
<1>3. asked' \in [Clients -> Names \cup {<<>>}] /\ asked'[c] = name BY <1>1 DEF Start
<1>4. sock \in [Clients -> 0 .. L] /\ i \in 0 .. L BY <1>1, <1>2
<1>5. sock' \in [Clients -> 0 .. L] /\ sock'[c] = i BY <1>4 DEF Start
<1>6. filelength' \in [Clients -> Nat] /\ bytesTotalOfFile' \in [Clients -> Int] BY <1>1 DEF Start
<1>7. <<>> \in Seq(Nat \X Int) BY EmptySeq
<1>8. file' \in [Clients -> Seq(Nat \X Int)] /\ file'[c] = <<>> BY <1>1, <1>7 DEF Start
<1>9. [ret |-> 0, kept |-> FALSE] \in [ret : {-1, 0}, kept : BOOLEAN] OBVIOUS
<1>10. outcome' \in [Clients -> [ret : {-1, 0}, kept : BOOLEAN]] BY <1>1, <1>9, Zenon DEF Start
<1>11. \A d \in Clients : d # c =>
         /\ asked'[d] = asked[d] /\ sock'[d] = sock[d] /\ filelength'[d] = filelength[d]
         /\ bytesTotalOfFile'[d] = bytesTotalOfFile[d] /\ file'[d] = file[d]
         /\ outcome'[d] = outcome[d]
  BY <1>1, Zenon DEF Start
<1>12. cut' \subseteq Conns /\ \A j \in Conns : j # sock[c] => (j \in cut' <=> j \in cut)
  BY <1>1 DEF Start
<1> QED BY <1>3, <1>5, <1>6, <1>8, <1>10, <1>11, <1>12

LEMMA CrashInv ==
  ASSUME NEW c \in Clients, Inv, Crash(c)
  PROVE  Inv'
<1>1. TypeOK BY DEF Inv
<1>2. /\ conns \in Seq(Connection) /\ Len(conns) \in Nat
      /\ \A i \in Conns : conns[i] \in Connection /\ conns[i].read <= conns[i].written
  BY <1>1, ConnTypes
<1>3. /\ pc' = [pc EXCEPT ![c] = "ended"] /\ todo' = todo /\ UNCHANGED server
      /\ conns' = [i \in Conns |-> IF conns[i].client = c
                                   THEN [conns[i] EXCEPT !.near = "closed"] ELSE conns[i]]
      /\ Start(c, <<>>, 0)
  BY DEF Crash
<1>4. /\ pc \in [Clients -> {"idle", "header", "body", "ended"}] /\ todo \in [Clients -> Nat]
      /\ \A d \in Clients : pc[d] \in {"header", "body"} => sock[d] # 0
  BY <1>1 DEF TypeOK
<1>5. <<>> \in Names \cup {<<>>} /\ 0 \in Nat /\ 0 <= Len(conns) /\ Len(conns) <= Len(conns)
  BY <1>2
<1>6. /\ asked' \in [Clients -> Names \cup {<<>>}]
      /\ sock' \in [Clients -> 0 .. Len(conns)] /\ sock'[c] = 0
      /\ filelength' \in [Clients -> Nat] /\ bytesTotalOfFile' \in [Clients -> Int]
      /\ file' \in [Clients -> Seq(Nat \X Int)]
      /\ outcome' \in [Clients -> [ret : {-1, 0}, kept : BOOLEAN]]
      /\ \A d \in Clients : d # c =>
           /\ asked'[d] = asked[d] /\ sock'[d] = sock[d] /\ filelength'[d] = filelength[d]
           /\ bytesTotalOfFile'[d] = bytesTotalOfFile[d] /\ file'[d] = file[d]
           /\ outcome'[d] = outcome[d]
      /\ cut' \subseteq Conns
      /\ \A j \in Conns : j # sock[c] => (j \in cut' <=> j \in cut)
  BY <1>1, <1>2, <1>3, <1>5, StartIs
<1>7. \A i \in Conns :
        /\ conns'[i] \in Connection /\ conns'[i].read = conns[i].read
        /\ conns'[i].client = conns[i].client /\ conns'[i].request = conns[i].request
        /\ conns'[i].f = conns[i].f /\ conns'[i].written = conns[i].written
        /\ conns'[i].far = conns[i].far
        /\ conns[i].client # c => conns'[i] = conns[i]
  <2> TAKE i \in Conns
  <2>1. conns'[i] = IF conns[i].client = c THEN [conns[i] EXCEPT !.near = "closed"] ELSE conns[i]
    BY <1>3
  <2>2. PICK r : r = [conns[i] EXCEPT !.near = "closed"] OBVIOUS
  <2>3. /\ r \in Connection /\ r.read = conns[i].read /\ r.client = conns[i].client
        /\ r.request = conns[i].request /\ r.f = conns[i].f /\ r.written = conns[i].written
        /\ r.far = conns[i].far
    BY <1>2, <2>2 DEF Connection, Ends
  <2>4. CASE conns[i].client = c BY <2>1, <2>2, <2>3, <2>4
  <2>5. CASE conns[i].client # c BY <1>2, <2>1, <2>5
  <2> QED BY <2>4, <2>5
<1>8. conns' \in Seq(Connection) /\ Len(conns') = Len(conns)
  <2>1. conns' \in [1 .. Len(conns) -> Connection] BY <1>3, <1>7 DEF Conns
  <2>2. conns' \in Seq(Connection) BY <1>2, <2>1, SeqDef
  <2>3. DOMAIN conns' = 1 .. Len(conns) BY <2>1
  <2> QED BY <1>2, <2>2, <2>3, LenProperties
<1>9. Conns' = Conns BY <1>8 DEF Conns
<1>10. \A j \in Conns' : conns'[j].read <= conns'[j].written BY <1>2, <1>7, <1>9
<1>11. \A j \in 1 .. Len(conns') : ~(j > Len(conns)) BY <1>2, <1>8
<1>12. Kept(c) BY <1>2, <1>7, <1>8, <1>11 DEF Kept
<1>13. /\ pc' \in [Clients -> {"idle", "header", "body", "ended"}] /\ pc'[c] = "ended"
       /\ \A d \in Clients : d # c => pc'[d] = pc[d]
  BY <1>3, <1>4
<1>14. \A d \in Clients : pc'[d] \in {"header", "body"} => sock'[d] # 0
  BY <1>4, <1>6, <1>13
<1>15. TypeOK'
  <2>1. todo' \in [Clients -> Nat] BY <1>3, <1>4
  <2>2. Len(conns') \in Nat /\ Len(conns') >= Len(conns) BY <1>2, <1>8
  <2>3. sock' \in [Clients -> 0 .. Len(conns')] /\ cut' \subseteq Conns' BY <1>6, <1>8, <1>9
  <2> QED BY <1>1, <1>3, <1>6, <1>8, <1>10, <1>13, <1>14, <2>1, <2>2, <2>3, ClientTypes
<1>16. Frame(c) BY <1>3, <1>6, <1>12, <1>13 DEF Frame, Same
<1>17. Good(c)'
  <2>1. Answers(c)' BY <1>6 DEF Answers
  <2>2. Works(c)' BY <1>13 DEF Works
  <2>3. Honest(c)' BY <1>6 DEF Honest
  <2> QED BY <2>1, <2>2, <2>3 DEF Good
<1> QED BY <1>15, <1>16, <1>17, FrameInv

LEMMA ConnectInv ==
  ASSUME NEW c \in Clients, NEW name \in Names, Inv, Connect(c, name)
  PROVE  Inv'
<1> DEFINE L == Len(conns)
           r == [client |-> c, request |-> name, f |-> 0, written |-> 0, read |-> 0,
                 near |-> "open", far |-> "pending"]
<1>1. TypeOK BY DEF Inv
<1>2. /\ conns \in Seq(Connection) /\ L \in Nat
      /\ \A i \in Conns : conns[i].read <= conns[i].written
  BY <1>1, ConnTypes
<1>3. /\ pc' = [pc EXCEPT ![c] = "header"] /\ todo' = todo /\ UNCHANGED server
      /\ todo[c] > 0
      /\ conns' = Append(conns, r)
      /\ Start(c, name, Len(conns'))
  BY DEF Connect
<1>4. /\ pc \in [Clients -> {"idle", "header", "body", "ended"}] /\ todo \in [Clients -> Nat]
      /\ \A d \in Clients : pc[d] \in {"header", "body"} => sock[d] # 0
      /\ cut \subseteq Conns
  BY <1>1 DEF TypeOK
<1>5. /\ r \in Connection /\ r.client = c /\ r.request = name /\ r.f = 0
      /\ r.written = 0 /\ r.read = 0 /\ r.far = "pending"
  BY TableLen DEF Connection, Ends
<1> HIDE DEF r
<1>6. /\ conns' \in Seq(Connection) /\ Len(conns') = L + 1
      /\ \A i \in Conns : conns'[i] = conns[i]
      /\ conns'[L + 1] = r
  BY <1>2, <1>3, <1>5, AppendProperties DEF Conns
<1>7. Start(c, name, L + 1) BY <1>3, <1>6
<1>8. name \in Names \cup {<<>>} /\ L + 1 \in Nat /\ L + 1 <= L + 1 /\ L <= L + 1 /\ L + 1 # 0
  BY <1>2
<1>9. /\ asked' \in [Clients -> Names \cup {<<>>}] /\ asked'[c] = name
      /\ sock' \in [Clients -> 0 .. L + 1] /\ sock'[c] = L + 1
      /\ filelength' \in [Clients -> Nat] /\ bytesTotalOfFile' \in [Clients -> Int]
      /\ file' \in [Clients -> Seq(Nat \X Int)] /\ file'[c] = <<>>
      /\ outcome' \in [Clients -> [ret : {-1, 0}, kept : BOOLEAN]]
      /\ \A d \in Clients : d # c =>
           /\ asked'[d] = asked[d] /\ sock'[d] = sock[d] /\ filelength'[d] = filelength[d]
           /\ bytesTotalOfFile'[d] = bytesTotalOfFile[d] /\ file'[d] = file[d]
           /\ outcome'[d] = outcome[d]
      /\ cut' \subseteq Conns
      /\ \A j \in Conns : j # sock[c] => (j \in cut' <=> j \in cut)
  BY <1>1, <1>7, <1>8, StartIs
<1>10. \A i \in Conns' : i \in Conns \/ i = L + 1 BY <1>2, <1>6 DEF Conns
<1>11. \A i \in Conns' : conns'[i].read <= conns'[i].written BY <1>2, <1>5, <1>6, <1>10
<1>12. Len(conns') \in Nat /\ Len(conns') >= L BY <1>2, <1>6
<1>13. Kept(c)
  <2>1. \A i \in 1 .. Len(conns') : i > L => i = L + 1 BY <1>2, <1>6
  <2> QED BY <1>5, <1>6, <1>12, <2>1 DEF Kept
<1>14. /\ pc' \in [Clients -> {"idle", "header", "body", "ended"}] /\ pc'[c] = "header"
       /\ \A d \in Clients : d # c => pc'[d] = pc[d]
  BY <1>3, <1>4
<1>15. \A d \in Clients : pc'[d] \in {"header", "body"} => sock'[d] # 0
  BY <1>4, <1>8, <1>9, <1>14
<1>16. TypeOK'
  <2>1. todo' \in [Clients -> Nat] BY <1>3, <1>4
  <2>2. sock' \in [Clients -> 0 .. Len(conns')] BY <1>6, <1>9
  <2>3. cut' \subseteq Conns' BY <1>2, <1>6, <1>9 DEF Conns
  <2> QED BY <1>1, <1>3, <1>6, <1>9, <1>11, <1>12, <1>14, <1>15, <2>1, <2>2, <2>3, ClientTypes
<1>17. Frame(c) BY <1>3, <1>9, <1>13, <1>14 DEF Frame, Same
<1>18. Good(c)'
  <2>1. Mine(c)' = r BY <1>6, <1>9 DEF Mine
  <2>2. Answers(c)'
    <3>1. srv' = srv /\ cur' = cur /\ cur \in 0 .. L BY <1>1, <1>3 DEF server, TypeOK
    <3>2. cur' # sock'[c] BY <1>2, <1>9, <3>1
    <3> QED BY <1>5, <1>9, <2>1, <3>2 DEF Answers
  <2>3. Works(c)'
    <3>1. todo'[c] > 0 BY <1>3
    <3> QED BY <1>5, <1>9, <1>14, <2>1, <3>1 DEF Works
  <2>4. Honest(c)' BY <1>14 DEF Honest
  <2> QED BY <2>2, <2>3, <2>4 DEF Good
<1> QED BY <1>16, <1>17, <1>18, FrameInv

LEMMA RefusedInv ==
  ASSUME NEW c \in Clients, Inv, Refused(c), ~Crash(c)
  PROVE  Inv'
<1>1. TypeOK /\ Finish(c, -1, FALSE) /\ todo[c] > 0
      /\ sock' = [sock EXCEPT ![c] = 0]
      /\ UNCHANGED <<conns, server, asked, locals, cut>>
  BY DEF Inv, Refused
<1>2. /\ pc' \in [Clients -> {"idle", "header", "body", "ended"}]
      /\ todo' \in [Clients -> Nat]
      /\ outcome' \in [Clients -> [ret : {-1, 0}, kept : BOOLEAN]]
      /\ pc'[c] = "idle"
      /\ \A d \in Clients : d # c =>
           pc'[d] = pc[d] /\ todo'[d] = todo[d] /\ outcome'[d] = outcome[d]
  BY <1>1, FinishIs
<1>3. /\ conns' = conns /\ asked' = asked /\ filelength' = filelength
      /\ bytesTotalOfFile' = bytesTotalOfFile /\ file' = file /\ cut' = cut /\ UNCHANGED server
  BY <1>1 DEF locals
<1>4. /\ conns \in Seq(Connection) /\ Len(conns) \in Nat
      /\ \A i \in Conns : conns[i].read <= conns[i].written
  BY <1>1, ConnTypes
<1>5. /\ asked \in [Clients -> Names \cup {<<>>}] /\ sock \in [Clients -> 0 .. Len(conns)]
      /\ filelength \in [Clients -> Nat] /\ bytesTotalOfFile \in [Clients -> Int]
      /\ file \in [Clients -> Seq(Nat \X Int)] /\ cut \subseteq Conns
      /\ \A d \in Clients : pc[d] \in {"header", "body"} => sock[d] # 0
  BY <1>1 DEF TypeOK
<1>6. /\ sock' \in [Clients -> 0 .. Len(conns)] /\ sock'[c] = 0
      /\ \A d \in Clients : d # c => sock'[d] = sock[d]
  BY <1>1, <1>4, <1>5
<1>7. \A d \in Clients : pc'[d] \in {"header", "body"} => sock'[d] # 0
  BY <1>2, <1>5, <1>6
<1>8. Conns' = Conns /\ Len(conns') >= Len(conns) BY <1>3, <1>4 DEF Conns
<1>9. \A i \in Conns' : conns'[i].read <= conns'[i].written BY <1>3, <1>4, <1>8
<1>10. TypeOK' BY <1>1, <1>2, <1>3, <1>4, <1>5, <1>6, <1>7, <1>8, <1>9, ClientTypes
<1>11. \A i \in 1 .. Len(conns') : ~(i > Len(conns)) BY <1>3, <1>4
<1>12. Kept(c) BY <1>3, <1>4, <1>8, <1>11 DEF Kept
<1>13. Frame(c) BY <1>2, <1>3, <1>6, <1>12 DEF Frame, Same
<1>14. Good(c)'
  <2>1. Answers(c)' BY <1>6 DEF Answers
  <2>2. Works(c)' BY <1>2 DEF Works
  <2>3. Honest(c)' BY <1>6 DEF Honest
  <2> QED BY <2>1, <2>2, <2>3 DEF Good
<1> QED BY <1>10, <1>13, <1>14, FrameInv

-----------------------------------------------------------------------------
(* What a step of the server leaves as it is: the clients, and of every     *)
(* connection what was read and, unless nothing was answered yet, what was  *)
(* answered.                                                                *)
Moves ==
  /\ UNCHANGED client
  /\ cut \subseteq cut'
  /\ srv' = "recv2" => cur' \in cut'
  /\ \A i \in Conns :
       /\ conns'[i].client = conns[i].client /\ conns'[i].read = conns[i].read
       /\ \/ /\ conns'[i].request = conns[i].request /\ conns'[i].f = conns[i].f
             /\ conns'[i].written = 0 => conns[i].written = 0
             /\ conns'[i].written > 0 => conns[i].written > 0
             /\ conns[i].far \in {"closed", "reset"} =>
                  conns'[i].far = conns[i].far /\ conns'[i].written = conns[i].written
          \/ conns[i].written = 0 /\ (i \in cut' \/ \A c \in Clients : sock[c] # i)
          \/ /\ conns[i].written = 0 /\ conns'[i].written > 0
             /\ conns'[i].f = content_get(conns[i].request) /\ conns'[i].request = <<>>

LEMMA MovesInv ==
  ASSUME Inv, Moves, TypeOK', Serving', Bounded'
  PROVE  Inv'
<1>1. /\ TypeOK /\ \A c \in Clients : Good(c) BY DEF Inv
<1>2. /\ pc' = pc /\ todo' = todo /\ asked' = asked /\ sock' = sock /\ outcome' = outcome
      /\ filelength' = filelength /\ bytesTotalOfFile' = bytesTotalOfFile /\ file' = file
  BY DEF Moves, client, locals
<1>3. cut \subseteq cut' /\ (srv' = "recv2" => cur' \in cut') BY DEF Moves
<1>4. ASSUME NEW c \in Clients PROVE Good(c)'
  <2>1. Answers(c) /\ Works(c) /\ Honest(c) BY <1>1 DEF Good
  <2>2. CASE sock[c] = 0
    <3>1. pc[c] \notin {"header", "body"} BY <1>1, <2>2 DEF TypeOK
    <3>2. Answers(c)' BY <1>2, <2>2 DEF Answers
    <3>3. Works(c)' BY <1>2, <3>1 DEF Works
    <3>4. Honest(c)' BY <1>2, <2>2 DEF Honest
    <3> QED BY <3>2, <3>3, <3>4 DEF Good
  <2>3. CASE sock[c] # 0
    <3>1. sock[c] \in Conns /\ Mine(c) \in Connection /\ Mine(c).read <= Mine(c).written
      BY <1>1, <2>3, ConnTypes DEF Mine
    <3>2. Mine(c).read \in Nat /\ Mine(c).written \in Nat BY <3>1, Fields
    <3>3. Mine(c) = conns[sock[c]] /\ Mine(c)' = conns'[sock[c]] BY <1>2 DEF Mine
    <3>4. /\ Mine(c)'.client = Mine(c).client /\ Mine(c)'.read = Mine(c).read
          /\ \/ /\ Mine(c)'.request = Mine(c).request /\ Mine(c)'.f = Mine(c).f
                /\ Mine(c)'.written = 0 => Mine(c).written = 0
                /\ Mine(c)'.written > 0 => Mine(c).written > 0
                /\ Mine(c).far \in {"closed", "reset"} =>
                     Mine(c)'.far = Mine(c).far /\ Mine(c)'.written = Mine(c).written
             \/ Mine(c).written = 0 /\ sock[c] \in cut'
             \/ /\ Mine(c).written = 0 /\ Mine(c)'.written > 0
                /\ Mine(c)'.f = content_get(Mine(c).request) /\ Mine(c)'.request = <<>>
      BY <3>1, <3>3 DEF Moves
    <3> HIDE DEF Mine
    <3>5. Answers(c)'
      <4>1. /\ Mine(c).client = c
            /\ sock[c] \notin cut =>
                 /\ Mine(c).written = 0 => Mine(c).request = asked[c]
                 /\ Mine(c).written > 0 => Mine(c).f = content_get(asked[c])
                                           /\ Mine(c).request = <<>>
        BY <2>1, <2>3 DEF Answers
      <4>2. sock[c] \notin cut' => sock[c] \notin cut BY <1>3
      <4>3. Mine(c)'.written > 0 => Mine(c)'.written # 0
        <5>1. \A x : x > 0 /\ x = 0 => FALSE OBVIOUS
        <5> QED BY <5>1
      <4> QED BY <1>2, <1>3, <3>4, <4>1, <4>2, <4>3 DEF Answers
    <3>6. Works(c)'
      <4>1. CASE pc[c] = "body"
        <5>1. Mine(c).f # 0 /\ Mine(c).read > 0 /\ (sock[c] \notin cut => Counted(c))
          BY <2>1, <4>1 DEF Works
        <5>2. Mine(c).written # 0 BY <3>1, <3>2, <5>1
        <5>3. Mine(c)'.f = Mine(c).f BY <3>4, <5>2
        <5>4. Counted(c)' <=> Counted(c) BY <1>2, <3>4, <5>3 DEF Counted
        <5> QED BY <1>2, <1>3, <2>1, <3>4, <4>1, <5>1, <5>3, <5>4 DEF Works
      <4>2. CASE pc[c] # "body" BY <1>2, <2>1, <3>4, <4>2 DEF Works
      <4> QED BY <4>1, <4>2
    <3>7. Honest(c)'
      <4>1. CASE Mine(c).read > 0
        <5>1. Mine(c).written # 0 BY <3>1, <3>2, <4>1
        <5>2. /\ Mine(c)'.f = Mine(c).f
              /\ Mine(c).far \in {"closed", "reset"} =>
                   Mine(c)'.far = Mine(c).far /\ Mine(c)'.written = Mine(c).written
          BY <3>4, <5>1
        <5> QED BY <1>2, <1>3, <2>1, <3>4, <4>1, <5>2 DEF Honest
      <4>2. CASE ~(Mine(c).read > 0) BY <3>4, <4>2 DEF Honest
      <4> QED BY <4>1, <4>2
    <3> QED BY <3>5, <3>6, <3>7 DEF Good
  <2> QED BY <2>2, <2>3
<1> QED BY <1>4 DEF Inv

(* The server's variables have their types, and the clients kept theirs. *)
LEMMA ServerTypes ==
  ASSUME TypeOK, UNCHANGED client,
         conns' \in Seq(Connection), Len(conns') = Len(conns),
         \A j \in Conns' : conns'[j].read <= conns'[j].written,
         srv' \in {"accept", "recv", "recv2", "send", "down"},
         cur' \in 0 .. Len(conns), srv' \in {"recv", "recv2", "send"} => cur' # 0,
         readData' \in Seq(Nat),
         cut' \subseteq Conns
  PROVE  TypeOK'
<1>1. /\ pc' = pc /\ todo' = todo /\ asked' = asked /\ sock' = sock /\ outcome' = outcome
      /\ filelength' = filelength /\ bytesTotalOfFile' = bytesTotalOfFile /\ file' = file
  BY DEF client, locals
<1>2. /\ pc \in [Clients -> {"idle", "header", "body", "ended"}]
      /\ todo \in [Clients -> Nat]
      /\ asked \in [Clients -> Names \cup {<<>>}]
      /\ sock \in [Clients -> 0 .. Len(conns)]
      /\ \A c \in Clients : pc[c] \in {"header", "body"} => sock[c] # 0
      /\ filelength \in [Clients -> Nat]
      /\ bytesTotalOfFile \in [Clients -> Int]
      /\ file \in [Clients -> Seq(Nat \X Int)]
      /\ outcome \in [Clients -> [ret : {-1, 0}, kept : BOOLEAN]]
  BY DEF TypeOK
<1>3. conns' \in Seq([client : Clients, request : Names \cup {<<>>}, f : 0 .. Len(content),
                      written : Nat, read : Nat, near : Ends, far : Ends \cup {"pending", "reset"}])
  BY DEF Connection
<1>4. cut' \subseteq Conns' BY DEF Conns
<1> QED BY <1>1, <1>2, <1>3, <1>4 DEF TypeOK

LEMMA PutConn ==
  ASSUME TypeOK, NEW i \in Conns, NEW r \in Connection, r.read <= r.written,
         conns' = [conns EXCEPT ![i] = r]
  PROVE  /\ conns' \in Seq(Connection) /\ Len(conns') = Len(conns) /\ Conns' = Conns
         /\ conns'[i] = r /\ \A j \in Conns : j # i => conns'[j] = conns[j]
         /\ \A j \in Conns' : conns'[j].read <= conns'[j].written
<1>1. /\ conns \in Seq(Connection) /\ \A j \in Conns : conns[j].read <= conns[j].written
  BY ConnTypes
<1>2. i \in 1 .. Len(conns) BY DEF Conns
<1>3. /\ conns' \in Seq(Connection) /\ Len(conns') = Len(conns)
      /\ \A j \in 1 .. Len(conns) : conns'[j] = IF j = i THEN r ELSE conns[j]
  BY <1>1, <1>2, ExceptSeq
<1>4. conns'[i] = r /\ \A j \in Conns : j # i => conns'[j] = conns[j] BY <1>2, <1>3 DEF Conns
<1>5. Conns' = Conns BY <1>3 DEF Conns
<1>6. \A j \in Conns' : conns'[j].read <= conns'[j].written BY <1>1, <1>4, <1>5
<1> QED BY <1>3, <1>4, <1>5, <1>6

LEMMA ClosedIs ==
  ASSUME NEW r \in Connection
  PROVE  /\ Closed(r) \in Connection
         /\ Closed(r).client = r.client /\ Closed(r).request = r.request
         /\ Closed(r).f = r.f /\ Closed(r).written = r.written
         /\ Closed(r).read = r.read /\ Closed(r).near = r.near
         /\ Closed(r).far \in {"closed", "reset"}
         /\ Closed(r).far = "reset" => r.request # <<>>
<1>1. PICK x : x = IF r.request # <<>> THEN "reset" ELSE "closed" OBVIOUS
<1>2. x \in {"closed", "reset"} /\ (x = "reset" => r.request # <<>>) BY <1>1
<1>3. Closed(r) = [r EXCEPT !.far = x] BY <1>1 DEF Closed
<1> QED BY <1>2, <1>3 DEF Connection, Ends

-----------------------------------------------------------------------------
(* The server's steps. *)
LEMMA CurIs ==
  ASSUME Inv, srv \in {"recv", "recv2", "send"}
  PROVE  /\ TypeOK /\ cur \in Conns /\ cur # 0 /\ Cur = conns[cur] /\ Cur \in Connection
         /\ Cur.far = "open" /\ Cur.read \in Nat /\ Cur.written \in Nat /\ Cur.read <= Cur.written
         /\ Cur.f \in 0 .. Len(content) /\ Cur.request \in Seq(Nat)
         /\ srv # "send" => Cur.f = 0 /\ Cur.written = 0 /\ Cur.read = 0
         /\ srv = "send" =>
              /\ Cur.f # 0 /\ Cur.f \in 1 .. Len(content)
              /\ HeaderLen(Cur.f) \in Nat /\ HeaderLen(Cur.f) > 2 /\ FileLen(Cur.f) \in Nat
              /\ Cur.written >= HeaderLen(Cur.f)
              /\ Cur.written <= HeaderLen(Cur.f) + FileLen(Cur.f)
<1>1. TypeOK /\ Serving /\ Bounded BY DEF Inv
<1>2. cur # 0 BY <1>1 DEF TypeOK
<1>3. cur \in Conns /\ Cur = conns[cur] /\ Cur \in Connection /\ Cur.read <= Cur.written
  BY <1>1, <1>2, ConnTypes DEF Cur
<1>4. /\ Cur.read \in Nat /\ Cur.written \in Nat /\ Cur.f \in 0 .. Len(content)
      /\ Cur.request \in Seq(Nat) /\ (Cur.f # 0 => Cur.f \in 1 .. Len(content))
  BY <1>3, Fields
<1>5. Cur.far = "open" /\ (srv # "send" => Cur.f = 0 /\ Cur.written = 0) BY <1>1 DEF Serving
<1>6. srv # "send" => Cur.read = 0 BY <1>3, <1>4, <1>5
<1>7. CASE srv = "send"
  <2>1. Cur.f # 0 /\ Cur.f \in 1 .. Len(content) BY <1>1, <1>4, <1>7 DEF Serving
  <2>2. HeaderLen(Cur.f) \in Nat /\ HeaderLen(Cur.f) > 2 /\ FileLen(Cur.f) \in Nat BY <2>1, Lengths
  <2>3. Cur.written \in Sending(Cur) BY <1>1, <1>3, <2>1 DEF Bounded
  <2>4. /\ Cur.written >= HeaderLen(Cur.f)
        /\ Cur.written <= HeaderLen(Cur.f) + FileLen(Cur.f)
    BY <1>4, <2>2, <2>3 DEF Sending
  <2> QED BY <1>1, <1>2, <1>3, <1>4, <1>5, <1>7, <2>1, <2>2, <2>4
<1>8. CASE srv # "send" BY <1>1, <1>2, <1>3, <1>4, <1>5, <1>6, <1>8
<1> QED BY <1>7, <1>8

(* The server's state after it has let the connection go. *)
LEMMA FreeServing ==
  ASSUME Inv, srv # "down", srv' = "accept", cur' = 0, Conns' = Conns,
         \A i \in Conns : i # cur => conns'[i] = conns[i],
         cur \in Conns => (conns'[cur].far = "open" <=> SentWhole(conns'[cur]))
  PROVE  Serving'
<1>1. \A i \in Conns : i # cur => (conns[i].far = "open" <=> SentWhole(conns[i]))
  BY DEF Inv, Serving
<1>2. \A i \in Conns' : conns'[i].far = "open" <=> SentWhole(conns'[i]) BY <1>1
<1> QED BY <1>2 DEF Serving

(* The server's state while it serves a connection. *)
LEMMA BusyServing ==
  ASSUME Inv, srv # "down", srv' = "send", cur' = cur, Conns' = Conns,
         \A i \in Conns : i # cur => conns'[i] = conns[i],
         conns'[cur].far = "open", conns'[cur].f # 0
  PROVE  Serving'
<1>1. \A i \in Conns : i # cur => (conns[i].far = "open" <=> SentWhole(conns[i]))
  BY DEF Inv, Serving
<1>2. \A i \in Conns' : i # cur' => (conns'[i].far = "open" <=> SentWhole(conns'[i])) BY <1>1
<1>3. Cur' = conns'[cur] BY DEF Cur
<1> QED BY <1>2, <1>3 DEF Serving

LEMMA OneBounded ==
  ASSUME Bounded, NEW i \in Conns, Conns' = Conns,
         \A j \in Conns : j # i => conns'[j] = conns[j],
         conns'[i].f # 0 => conns'[i].written \in Sending(conns'[i]),
         conns'[i].far = "pending" => conns'[i].written = 0,
         conns'[i].far = "reset" => conns'[i].request # <<>>
  PROVE  Bounded'
<1>1. ASSUME NEW j \in Conns, j # i
      PROVE  /\ conns'[j].f # 0 => conns'[j].written \in Sending(conns'[j])
             /\ conns'[j].far = "pending" => conns'[j].written = 0
             /\ conns'[j].far = "reset" => conns'[j].request # <<>>
  BY <1>1 DEF Bounded
<1> QED BY <1>1 DEF Bounded

LEMMA DownInv ==
  ASSUME Inv, Down
  PROVE  Inv'
<1>1. TypeOK /\ Serving /\ Bounded BY DEF Inv
<1>2. /\ srv' = "down" /\ cur' = 0 /\ readData' = <<>> /\ UNCHANGED client /\ cut' = cut
      /\ conns' = [i \in Conns |-> IF conns[i].far \in {"open", "pending"} THEN Closed(conns[i])
                                                                         ELSE conns[i]]
  BY DEF Down
<1>3. /\ conns \in Seq(Connection) /\ Len(conns) \in Nat
      /\ \A i \in Conns : conns[i] \in Connection /\ conns[i].read <= conns[i].written
  BY <1>1, ConnTypes
<1>4. \A i \in Conns :
        /\ conns'[i] \in Connection
        /\ conns'[i].client = conns[i].client /\ conns'[i].request = conns[i].request
        /\ conns'[i].f = conns[i].f /\ conns'[i].written = conns[i].written
        /\ conns'[i].read = conns[i].read
        /\ conns[i].far \in {"closed", "reset"} => conns'[i].far = conns[i].far
        /\ conns'[i].far \in {"closed", "reset"}
        /\ conns'[i].far = "reset" => conns'[i].request # <<>>
  <2> TAKE i \in Conns
  <2>1. conns'[i] = IF conns[i].far \in {"open", "pending"} THEN Closed(conns[i]) ELSE conns[i]
    BY <1>2
  <2>2. conns[i] \in Connection /\ conns[i].far \in Ends \cup {"pending", "reset"} BY <1>3, Fields
  <2>3. CASE conns[i].far \in {"open", "pending"} BY <2>1, <2>2, <2>3, ClosedIs
  <2>4. CASE conns[i].far \in {"closed", "reset"}
    <3>1. conns'[i] = conns[i] BY <2>1, <2>4
    <3>2. conns[i].far = "reset" => conns[i].request # <<>> BY <1>1 DEF Bounded
    <3> QED BY <2>2, <2>4, <3>1, <3>2
  <2> QED BY <2>2, <2>3, <2>4 DEF Ends
<1>5. conns' \in Seq(Connection) /\ Len(conns') = Len(conns)
  <2>1. conns' \in [1 .. Len(conns) -> Connection] BY <1>2, <1>4 DEF Conns
  <2>2. conns' \in Seq(Connection) BY <1>3, <2>1, SeqDef
  <2>3. DOMAIN conns' = 1 .. Len(conns) BY <2>1
  <2> QED BY <1>3, <2>2, <2>3, LenProperties
<1>6. Conns' = Conns BY <1>5 DEF Conns
<1>7. \A j \in Conns' : conns'[j].read <= conns'[j].written
  <2> TAKE j \in Conns'
  <2>1. j \in Conns /\ conns[j].read <= conns[j].written BY <1>3, <1>6
  <2>2. conns'[j].read = conns[j].read /\ conns'[j].written = conns[j].written
    BY <1>4, <2>1, Zenon
  <2> QED BY <2>1, <2>2
<1>8. TypeOK'
  <2>1. <<>> \in Seq(Nat) BY EmptySeq
  <2>2. 0 \in 0 .. Len(conns) /\ cut \subseteq Conns BY <1>1, <1>3 DEF TypeOK
  <2> QED BY <1>1, <1>2, <1>5, <1>7, <2>1, <2>2, ServerTypes
<1>9. Serving' BY <1>2 DEF Serving
<1>10. Bounded'
  <2> SUFFICES ASSUME NEW i \in Conns
               PROVE  /\ conns'[i].f # 0 => conns'[i].written \in Sending(conns'[i])
                      /\ conns'[i].far = "pending" => conns'[i].written = 0
                      /\ conns'[i].far = "reset" => conns'[i].request # <<>>
    BY <1>6 DEF Bounded
  <2>1. Sending(conns'[i]) = Sending(conns[i]) BY <1>4 DEF Sending
  <2> QED BY <1>1, <1>4, <2>1 DEF Bounded
<1>11. Moves BY <1>2, <1>4 DEF Moves
<1> QED BY <1>8, <1>9, <1>10, <1>11, MovesInv

LEMMA AcceptInv ==
  ASSUME Inv, Accept
  PROVE  Inv'
<1>1. TypeOK /\ Serving /\ Bounded /\ srv = "accept" /\ srv' = "recv" /\ cut' = cut
      /\ UNCHANGED client /\ readData' = readData
  BY DEF Inv, Accept
<1>2. PICK i \in Conns :
        /\ conns[i].far = "pending" /\ conns' = [conns EXCEPT ![i].far = "open"] /\ cur' = i
  BY DEF Accept
<1>3. conns[i] \in Connection /\ conns[i].read <= conns[i].written /\ Len(conns) \in Nat
      /\ conns \in Seq(Connection)
  BY <1>1, ConnTypes
<1>4. PICK r : r = [conns[i] EXCEPT !.far = "open"] OBVIOUS
<1>5. /\ r \in Connection /\ r.far = "open" /\ r.client = conns[i].client
      /\ r.request = conns[i].request /\ r.f = conns[i].f
      /\ r.written = conns[i].written /\ r.read = conns[i].read
  BY <1>3, <1>4 DEF Connection, Ends
<1>6. conns' = [conns EXCEPT ![i] = r] BY <1>2, <1>3, <1>4
<1>7. /\ conns' \in Seq(Connection) /\ Len(conns') = Len(conns) /\ Conns' = Conns
      /\ conns'[i] = r /\ \A j \in Conns : j # i => conns'[j] = conns[j]
      /\ \A j \in Conns' : conns'[j].read <= conns'[j].written
  BY <1>1, <1>3, <1>5, <1>6, PutConn
<1>8. conns[i].written = 0 /\ conns[i].f = 0
  <2>1. conns[i].written = 0 BY <1>1, <1>2 DEF Bounded
  <2>2. ASSUME conns[i].f # 0 PROVE FALSE
    <3>1. conns[i].f \in 1 .. Len(content) BY <1>3, <2>2, Fields
    <3>2. HeaderLen(conns[i].f) \in Nat /\ HeaderLen(conns[i].f) > 2 /\ FileLen(conns[i].f) \in Nat
      BY <3>1, Lengths
    <3>3. conns[i].written \in Sending(conns[i]) BY <1>1, <2>2 DEF Bounded
    <3> QED BY <2>1, <3>2, <3>3 DEF Sending
  <2> QED BY <2>1, <2>2
<1>9. TypeOK'
  <2>1. cur' \in 0 .. Len(conns) /\ cur' # 0 BY <1>2, <1>3 DEF Conns
  <2>2. readData \in Seq(Nat) /\ cut \subseteq Conns BY <1>1 DEF TypeOK
  <2> QED BY <1>1, <1>7, <2>1, <2>2, ServerTypes
<1>10. Serving'
  <2>1. cur = 0 /\ \A j \in Conns : j # cur => (conns[j].far = "open" <=> SentWhole(conns[j]))
    BY <1>1 DEF Serving
  <2>2. \A j \in Conns : j # 0 BY <1>3 DEF Conns
  <2>3. \A j \in Conns' : j # cur' => (conns'[j].far = "open" <=> SentWhole(conns'[j]))
    BY <1>2, <1>7, <2>1, <2>2
  <2>4. Cur' = r BY <1>2, <1>7 DEF Cur
  <2> QED BY <1>1, <1>5, <1>8, <2>3, <2>4 DEF Serving
<1>11. Bounded' BY <1>1, <1>5, <1>7, <1>8, OneBounded
<1>12. Moves
  <2>1. \A j \in Conns : j # i => conns'[j] = conns[j] BY <1>7
  <2>2. conns[i].far \notin {"closed", "reset"} BY <1>2
  <2> QED BY <1>1, <1>5, <1>7, <2>1, <2>2 DEF Moves
<1> QED BY <1>9, <1>10, <1>11, <1>12, MovesInv

LEMMA HandleInv ==
  ASSUME Inv, srv \in {"recv", "recv2"}, NEW name \in Seq(Nat), NEW rest \in BOOLEAN,
         Handle(name, rest), readData' \in Seq(Nat), cut \subseteq cut', cut' \subseteq Conns,
         \/ cur \in cut'
         \/ \A c \in Clients : sock[c] # cur
         \/ name = Cur.request /\ rest = FALSE
  PROVE  Inv'
<1>1. /\ TypeOK /\ Bounded /\ cur \in Conns /\ cur # 0 /\ Cur = conns[cur] /\ Cur \in Connection
      /\ Cur.far = "open" /\ Cur.f = 0 /\ Cur.written = 0 /\ Cur.read = 0
  BY CurIs DEF Inv
<1>2. PICK f : f = content_get(name) OBVIOUS
<1>3. f \in 0 .. Len(content) /\ (f # 0 => f \in 1 .. Len(content))
  BY <1>2, TableLen, ContentGetFinds
<1>4. f # 0 => HeaderLen(f) \in Nat /\ HeaderLen(f) > 2 /\ FileLen(f) \in Nat BY <1>3, Lengths
<1>5. PICK w : w = IF f = 0 THEN 2 ELSE HeaderLen(f) OBVIOUS
<1>6. w \in Nat /\ w > 0 /\ (f # 0 => w = HeaderLen(f)) BY <1>4, <1>5
<1>7. PICK q : q = IF rest THEN Cur.request ELSE <<>> OBVIOUS
<1>8. q \in Names \cup {<<>>} /\ (rest = FALSE => q = <<>>) BY <1>1, <1>7, Fields
<1>9. PICK conn : conn = [Cur EXCEPT !.f = f, !.request = q, !.written = w] OBVIOUS
<1>10. /\ conn \in Connection /\ conn.f = f /\ conn.request = q /\ conn.written = w
       /\ conn.client = Cur.client /\ conn.read = 0 /\ conn.far = "open"
  BY <1>1, <1>3, <1>6, <1>8, <1>9 DEF Connection
<1>11. PICK r : r = IF f = 0 THEN Closed(conn) ELSE conn OBVIOUS
<1>12. /\ conns' = [conns EXCEPT ![cur] = r]
       /\ srv' = (IF f = 0 THEN "accept" ELSE "send") /\ cur' = (IF f = 0 THEN 0 ELSE cur)
       /\ UNCHANGED client
  BY <1>2, <1>5, <1>7, <1>9, <1>11 DEF Handle
<1>13. /\ r \in Connection /\ r.f = f /\ r.request = q /\ r.written = w
       /\ r.client = Cur.client /\ r.read = 0
       /\ f = 0 => r.far \in {"closed", "reset"} /\ (r.far = "reset" => q # <<>>)
       /\ f # 0 => r.far = "open"
  BY <1>10, <1>11, ClosedIs
<1>14. /\ conns' \in Seq(Connection) /\ Len(conns') = Len(conns) /\ Conns' = Conns
       /\ conns'[cur] = r /\ \A j \in Conns : j # cur => conns'[j] = conns[j]
       /\ \A j \in Conns' : conns'[j].read <= conns'[j].written
  <2>1. r.read <= r.written BY <1>6, <1>13
  <2> QED BY <1>1, <1>12, <1>13, <2>1, PutConn
<1>15. TypeOK'
  <2>1. cur \in 0 .. Len(conns) /\ 0 \in 0 .. Len(conns) BY <1>1, ConnTypes DEF TypeOK
  <2>2. /\ srv' \in {"accept", "recv", "recv2", "send", "down"}
        /\ cur' \in 0 .. Len(conns) /\ (srv' \in {"recv", "recv2", "send"} => cur' # 0)
    BY <1>1, <1>12, <2>1
  <2> QED BY <1>1, <1>12, <1>14, <2>2, ServerTypes
<1>16. Serving'
  <2>1. CASE f = 0
    <3>1. ~(r.far = "open") /\ ~SentWhole(r) BY <1>13, <2>1 DEF SentWhole
    <3> QED BY <1>12, <1>14, <2>1, <3>1, FreeServing
  <2>2. CASE f # 0 BY <1>12, <1>13, <1>14, <2>2, BusyServing
  <2> QED BY <2>1, <2>2
<1>17. Bounded'
  <2>1. f # 0 => w \in HeaderLen(f) .. HeaderLen(f) + FileLen(f) BY <1>4, <1>6
  <2>2. r.f # 0 => r.written \in Sending(r) BY <1>13, <2>1 DEF Sending
  <2>3. r.far # "pending" BY <1>13
  <2>4. r.far = "reset" => r.request # <<>> BY <1>13
  <2> QED BY <1>1, <1>14, <2>2, <2>3, <2>4, OneBounded
<1>18. Moves
  <2>1. srv' # "recv2" BY <1>12
  <2>2. /\ conns'[cur].client = conns[cur].client /\ conns'[cur].read = conns[cur].read
        /\ \/ conns[cur].written = 0 /\ (cur \in cut' \/ \A c \in Clients : sock[c] # cur)
           \/ /\ conns[cur].written = 0 /\ conns'[cur].written > 0
              /\ conns'[cur].f = content_get(conns[cur].request) /\ conns'[cur].request = <<>>
    BY <1>1, <1>2, <1>6, <1>8, <1>13, <1>14
  <2>3. \A j \in Conns : j # cur => conns'[j] = conns[j] BY <1>14
  <2> QED BY <1>12, <2>1, <2>2, <2>3 DEF Moves
<1> QED BY <1>15, <1>16, <1>17, <1>18, MovesInv

LEMMA StaleType ==
  ASSUME Inv, srv = "recv", NEW k \in 1 .. Len(Cur.request)
  PROVE  Stale(k) \in Seq(Nat)
<1>1. Cur.request \in Seq(Nat) BY CurIs
<1>2. readData \in Seq(Nat) BY DEF Inv, TypeOK
<1>3. Len(Cur.request) \in Nat /\ Len(readData) \in Nat BY <1>1, <1>2, LenProperties
<1>4. k \in Int /\ k + 1 \in Int /\ Len(readData) \in Int /\ 1 \in Int BY <1>3
<1>5. SubSeq(Cur.request, 1, k) \in Seq(Nat)
  <2>1. \A i \in 1 .. k : i \in 1 .. Len(Cur.request) BY <1>3
  <2>2. \A i \in 1 .. k : Cur.request[i] \in Nat BY <1>1, <2>1, ElementOfSeq
  <2> QED BY <1>4, <2>2, SubSeqProperties
<1>6. SubSeq(readData, k + 1, Len(readData)) \in Seq(Nat)
  <2>1. \A i \in k + 1 .. Len(readData) : i \in 1 .. Len(readData) BY <1>3
  <2>2. \A i \in k + 1 .. Len(readData) : readData[i] \in Nat BY <1>2, <2>1, ElementOfSeq
  <2> QED BY <1>4, <2>2, SubSeqProperties
<1> QED BY <1>5, <1>6, ConcatProperties DEF Stale

LEMMA RequestInv ==
  ASSUME Inv,
         RequestWhole \/ RequestCut \/ RequestNoName \/ RequestRest \/ RequestNoEnd \/ RequestWords
  PROVE  Inv'
<1>1. TypeOK /\ readData \in Seq(Nat) /\ cut \subseteq Conns /\ <<>> \in Seq(Nat)
  BY EmptySeq DEF Inv, TypeOK
<1>2. srv \in {"recv", "recv2"} => Cur.request \in Seq(Nat) /\ cur \in Conns BY CurIs
<1>3. Split => srv = "recv" /\ cur \in cut' /\ cut \subseteq cut' /\ cut' \subseteq Conns
  BY <1>1, <1>2 DEF Split
<1>4. CASE RequestWhole
  <2>1. srv = "recv" /\ readData' = Cur.request /\ Handle(Cur.request, FALSE) /\ cut' = cut
    BY <1>4 DEF RequestWhole
  <2> QED BY <1>1, <1>2, <2>1, HandleInv
<1>5. CASE RequestCut
  <2>1. Split BY <1>5 DEF RequestCut
  <2>2. PICK k \in 1 .. Len(Cur.request) : readData' = Stale(k) /\ Handle(Stale(k), TRUE)
    BY <1>5 DEF RequestCut
  <2>3. Stale(k) \in Seq(Nat) BY <1>3, <2>1, StaleType
  <2> QED BY <1>3, <2>1, <2>2, <2>3, HandleInv
<1>6. CASE RequestNoName
  <2>1. Split BY <1>6 DEF RequestNoName
  <2>2. CASE readData # <<>>
    <3>1. Handle(readData, TRUE) /\ readData' = readData BY <1>6, <2>2 DEF RequestNoName
    <3> QED BY <1>1, <1>3, <2>1, <3>1, HandleInv
  <2>3. CASE readData = <<>>
    <3>1. /\ srv' = "recv2" /\ conns' = conns /\ cur' = cur /\ readData' = readData
          /\ UNCHANGED client
      BY <1>6, <2>3 DEF RequestNoName
    <3>2. /\ srv = "recv" /\ cur # 0 /\ cur \in Conns /\ Cur = conns[cur]
          /\ Cur.far = "open" /\ Cur.f = 0 /\ Cur.written = 0
      BY <1>3, <2>1, CurIs
    <3>3. /\ conns \in Seq(Connection) /\ Conns' = Conns /\ cur \in 0 .. Len(conns)
          /\ \A j \in Conns : conns[j].read <= conns[j].written
      BY <1>1, <3>1, ConnTypes DEF Conns, TypeOK
    <3>4. TypeOK' BY <1>1, <1>3, <2>1, <3>1, <3>2, <3>3, ServerTypes
    <3>5. Serving'
      <4>1. \A i \in Conns : i # cur => (conns[i].far = "open" <=> SentWhole(conns[i]))
        BY <3>2 DEF Inv, Serving
      <4>2. \A i \in Conns' : i # cur' => (conns'[i].far = "open" <=> SentWhole(conns'[i]))
        BY <3>1, <3>3, <4>1
      <4>3. Cur' = Cur BY <3>1 DEF Cur
      <4> QED BY <3>1, <3>2, <4>2, <4>3 DEF Serving
    <3>6. Bounded' BY <3>1, <3>3 DEF Inv, Bounded
    <3>7. Moves BY <1>3, <2>1, <3>1 DEF Moves
    <3> QED BY <3>4, <3>5, <3>6, <3>7, MovesInv
  <2> QED BY <2>2, <2>3
<1>7. CASE RequestRest
  <2>1. srv = "recv2" /\ readData' = readData /\ cut' = cut BY <1>7 DEF RequestRest
  <2>2. cur \in cut' \/ \A c \in Clients : sock[c] # cur
    <3>1. \A c \in Clients : Answers(c) BY DEF Inv, Good
    <3>2. cur # 0 BY <2>1, CurIs
    <3> QED BY <2>1, <3>1, <3>2 DEF Answers
  <2>3. CASE Handle(Cur.request, FALSE) BY <1>1, <1>2, <2>1, <2>3, HandleInv
  <2>4. CASE Handle(<<>>, TRUE) BY <1>1, <2>1, <2>2, <2>4, HandleInv
  <2> QED BY <1>7, <2>3, <2>4 DEF RequestRest
<1>8. CASE RequestNoEnd
  <2>1. Split /\ readData' = Cur.request BY <1>8 DEF RequestNoEnd
  <2>2. PICK rest \in BOOLEAN : Handle(Cur.request, rest) BY <1>8 DEF RequestNoEnd
  <2> QED BY <1>2, <1>3, <2>1, <2>2, HandleInv
<1>9. CASE RequestWords
  <2>1. CASE Split /\ Handle(<<>>, TRUE) /\ readData' = readData
    BY <1>1, <1>3, <2>1, HandleInv
  <2>2. CASE Down BY <2>2, DownInv
  <2> QED BY <1>9, <2>1, <2>2 DEF RequestWords
<1> QED BY <1>4, <1>5, <1>6, <1>7, <1>8, <1>9

LEMMA SendInv ==
  ASSUME Inv, Send, ~Down
  PROVE  Inv'
<1>1. /\ srv = "send" /\ Sent < FileLen(Cur.f)
      /\ conns' = [conns EXCEPT ![cur].written = @ + Limit(BUFFER_SIZE, FileLen(Cur.f) - Sent)]
      /\ srv' = srv /\ cur' = cur /\ readData' = readData /\ UNCHANGED client /\ cut' = cut
  BY DEF Send, server
<1>2. /\ TypeOK /\ Bounded /\ cur \in Conns /\ cur # 0 /\ Cur = conns[cur] /\ Cur \in Connection
      /\ Cur.far = "open" /\ Cur.read \in Nat /\ Cur.written \in Nat /\ Cur.read <= Cur.written
      /\ Cur.f # 0 /\ HeaderLen(Cur.f) \in Nat /\ HeaderLen(Cur.f) > 2 /\ FileLen(Cur.f) \in Nat
      /\ Cur.written >= HeaderLen(Cur.f)
      /\ Cur.written <= HeaderLen(Cur.f) + FileLen(Cur.f)
  BY <1>1, CurIs DEF Inv
<1>3. PICK n : n = Limit(BUFFER_SIZE, FileLen(Cur.f) - Sent) OBVIOUS
<1>4. n \in Nat /\ n > 0 /\ n <= FileLen(Cur.f) - Sent
  <2>1. BUFFER_SIZE \in Nat /\ BUFFER_SIZE > 0 BY GetFileAssumption
  <2>2. FileLen(Cur.f) - Sent \in Nat /\ FileLen(Cur.f) - Sent > 0 BY <1>1, <1>2 DEF Sent
  <2> QED BY <1>3, <2>1, <2>2 DEF Limit
<1>5. PICK w : w = Cur.written + n OBVIOUS
<1>6. w \in Nat /\ w > 0 /\ Cur.read <= w /\ w \in Sending(Cur)
  BY <1>2, <1>4, <1>5 DEF Sent, Sending
<1>7. PICK r : r = [Cur EXCEPT !.written = w] OBVIOUS
<1>8. /\ r \in Connection /\ r.written = w /\ r.read = Cur.read /\ r.client = Cur.client
      /\ r.request = Cur.request /\ r.f = Cur.f /\ r.far = "open"
  BY <1>2, <1>6, <1>7 DEF Connection
<1>9. conns' = [conns EXCEPT ![cur] = r]
  <2>1. conns \in Seq(Connection) BY <1>2, ConnTypes
  <2> QED BY <1>1, <1>2, <1>3, <1>5, <1>7, <2>1
<1>10. /\ conns' \in Seq(Connection) /\ Len(conns') = Len(conns) /\ Conns' = Conns
       /\ conns'[cur] = r /\ \A j \in Conns : j # cur => conns'[j] = conns[j]
       /\ \A j \in Conns' : conns'[j].read <= conns'[j].written
  <2>1. r.read <= r.written BY <1>6, <1>8
  <2> QED BY <1>2, <1>8, <1>9, <2>1, PutConn
<1>11. TypeOK'
  <2>1. cur \in 0 .. Len(conns) /\ readData \in Seq(Nat) /\ cut \subseteq Conns BY <1>2 DEF TypeOK
  <2> QED BY <1>1, <1>2, <1>10, <2>1, ServerTypes
<1>12. Serving' BY <1>1, <1>2, <1>8, <1>10, BusyServing
<1>13. Bounded'
  <2>1. r.written \in Sending(r) BY <1>6, <1>8 DEF Sending
  <2> QED BY <1>2, <1>8, <1>10, <2>1, OneBounded
<1>14. Moves
  <2>1. /\ conns'[cur].client = conns[cur].client /\ conns'[cur].read = conns[cur].read
        /\ conns'[cur].request = conns[cur].request /\ conns'[cur].f = conns[cur].f
        /\ conns'[cur].written # 0 /\ conns[cur].written > 0
        /\ conns[cur].far \notin {"closed", "reset"}
    BY <1>2, <1>6, <1>8, <1>10
  <2>2. \A j \in Conns : j # cur => conns'[j] = conns[j] BY <1>10
  <2> QED BY <1>1, <2>1, <2>2 DEF Moves
<1> QED BY <1>11, <1>12, <1>13, <1>14, MovesInv

LEMMA ReadFailsInv ==
  ASSUME Inv, ReadFails
  PROVE  Inv'
<1>1. /\ srv = "send" /\ Sent < FileLen(Cur.f) /\ conns' = [conns EXCEPT ![cur] = Closed(Cur)]
      /\ srv' = "accept" /\ cur' = 0 /\ readData' = readData /\ UNCHANGED client /\ cut' = cut
  BY DEF ReadFails
<1>2. /\ TypeOK /\ Bounded /\ cur \in Conns /\ Cur = conns[cur] /\ Cur \in Connection
      /\ Cur.far = "open" /\ Cur.read <= Cur.written /\ Cur.f # 0
  BY <1>1, CurIs DEF Inv
<1>3. PICK r : r = Closed(Cur) OBVIOUS
<1>4. /\ r \in Connection /\ r.written = Cur.written /\ r.read = Cur.read /\ r.client = Cur.client
      /\ r.request = Cur.request /\ r.f = Cur.f /\ r.far \in {"closed", "reset"}
      /\ r.far = "reset" => Cur.request # <<>>
  BY <1>2, <1>3, ClosedIs
<1>5. conns' = [conns EXCEPT ![cur] = r] BY <1>1, <1>3
<1>6. /\ conns' \in Seq(Connection) /\ Len(conns') = Len(conns) /\ Conns' = Conns
      /\ conns'[cur] = r /\ \A j \in Conns : j # cur => conns'[j] = conns[j]
      /\ \A j \in Conns' : conns'[j].read <= conns'[j].written
  <2>1. r.read <= r.written BY <1>2, <1>4
  <2> QED BY <1>2, <1>4, <1>5, <2>1, PutConn
<1>7. TypeOK'
  <2>1. 0 \in 0 .. Len(conns) /\ readData \in Seq(Nat) /\ cut \subseteq Conns
    BY <1>2, ConnTypes DEF TypeOK
  <2> QED BY <1>1, <1>2, <1>6, <2>1, ServerTypes
<1>8. Serving'
  <2>1. Sent # FileLen(Cur.f)
    <3>1. Sent \in Int /\ FileLen(Cur.f) \in Int BY <1>1, CurIs DEF Sent
    <3> QED BY <1>1, <3>1
  <2>2. ~SentWhole(r)
    <3> SUFFICES ASSUME SentWhole(r) PROVE FALSE
      OBVIOUS
    <3>1. Cur.written = HeaderLen(Cur.f) + FileLen(Cur.f) BY <1>4 DEF SentWhole
    <3>2. HeaderLen(Cur.f) \in Nat /\ FileLen(Cur.f) \in Nat BY <1>1, CurIs
    <3> QED BY <2>1, <3>1, <3>2 DEF Sent
  <2>3. ~(r.far = "open") BY <1>4
  <2> QED BY <1>1, <1>6, <2>2, <2>3, FreeServing
<1>9. Bounded'
  <2>1. Cur.written \in Sending(Cur) BY <1>2 DEF Bounded
  <2>2. r.written \in Sending(r) BY <1>4, <2>1 DEF Sending
  <2>3. r.far # "pending" BY <1>4
  <2> QED BY <1>2, <1>4, <1>6, <2>2, <2>3, OneBounded
<1>10. Moves
  <2>1. /\ conns'[cur].client = conns[cur].client /\ conns'[cur].read = conns[cur].read
        /\ conns'[cur].request = conns[cur].request /\ conns'[cur].f = conns[cur].f
        /\ conns'[cur].written = conns[cur].written
        /\ conns[cur].far \notin {"closed", "reset"}
    BY <1>2, <1>4, <1>6
  <2>2. \A j \in Conns : j # cur => conns'[j] = conns[j] BY <1>6
  <2> QED BY <1>1, <2>1, <2>2 DEF Moves
<1> QED BY <1>7, <1>8, <1>9, <1>10, MovesInv

LEMMA TransferredInv ==
  ASSUME Inv, Transferred
  PROVE  Inv'
<1>1. /\ srv = "send" /\ Sent = FileLen(Cur.f) /\ conns' = conns
      /\ srv' = "accept" /\ cur' = 0 /\ readData' = readData /\ UNCHANGED client /\ cut' = cut
  BY DEF Transferred
<1>2. /\ TypeOK /\ Bounded /\ cur \in Conns /\ Cur = conns[cur]
      /\ Cur.far = "open" /\ Cur.written \in Nat /\ Cur.f # 0
      /\ HeaderLen(Cur.f) \in Nat /\ FileLen(Cur.f) \in Nat
  BY <1>1, CurIs DEF Inv
<1>3. /\ conns \in Seq(Connection) /\ Conns' = Conns /\ 0 \in 0 .. Len(conns)
      /\ \A j \in Conns : conns[j].read <= conns[j].written
  BY <1>1, <1>2, ConnTypes DEF Conns
<1>4. TypeOK'
  <2>1. readData \in Seq(Nat) /\ cut \subseteq Conns BY <1>2 DEF TypeOK
  <2> QED BY <1>1, <1>2, <1>3, <2>1, ServerTypes
<1>5. Serving'
  <2>1. SentWhole(Cur) BY <1>1, <1>2 DEF Sent, SentWhole
  <2> QED BY <1>1, <1>2, <1>3, <2>1, FreeServing
<1>6. Bounded' BY <1>1, <1>2, <1>3 DEF Bounded
<1>7. Moves BY <1>1 DEF Moves
<1> QED BY <1>4, <1>5, <1>6, <1>7, MovesInv

-----------------------------------------------------------------------------
LEMMA InvInit == Init => Inv
<1> SUFFICES ASSUME Init PROVE Inv
  OBVIOUS
<1>1. /\ conns = <<>> /\ srv = "accept" /\ cur = 0 /\ readData = <<>> /\ cut = {}
      /\ pc = [c \in Clients |-> "idle"] /\ todo = Requests
      /\ asked = [c \in Clients |-> <<>>] /\ sock = [c \in Clients |-> 0]
      /\ filelength = [c \in Clients |-> 0] /\ bytesTotalOfFile = [c \in Clients |-> 0]
      /\ file = [c \in Clients |-> <<>>]
      /\ outcome = [c \in Clients |-> [ret |-> 0, kept |-> FALSE]]
  BY DEF Init
<1>2. Conns = {} /\ Len(conns) = 0 BY <1>1 DEF Conns
<1>3. TypeOK
  <2>1. conns \in Seq(Connection) BY <1>1, EmptySeq
  <2>2. conns \in Seq([client : Clients, request : Names \cup {<<>>}, f : 0 .. Len(content),
                       written : Nat, read : Nat, near : Ends, far : Ends \cup {"pending", "reset"}])
    BY <2>1 DEF Connection
  <2>3. <<>> \in Seq(Nat) /\ <<>> \in Seq(Nat \X Int) BY EmptySeq
  <2>4. [ret |-> 0, kept |-> FALSE] \in [ret : {-1, 0}, kept : BOOLEAN] OBVIOUS
  <2>5. outcome \in [Clients -> [ret : {-1, 0}, kept : BOOLEAN]] BY <1>1, <2>4, Zenon
  <2>6. Requests \in [Clients -> Nat] BY GetFileAssumption
  <2> QED BY <1>1, <1>2, <2>2, <2>3, <2>5, <2>6 DEF TypeOK
<1>4. Serving BY <1>1, <1>2 DEF Serving
<1>5. Bounded BY <1>2 DEF Bounded
<1>6. ASSUME NEW c \in Clients PROVE Good(c)
  <2>1. sock[c] = 0 /\ pc[c] = "idle" BY <1>1
  <2> QED BY <2>1 DEF Good, Answers, Works, Honest
<1> QED BY <1>3, <1>4, <1>5, <1>6 DEF Inv

LEMMA InvClient ==
  ASSUME NEW c \in Clients, Inv,
         Client(c) \/ Exit(c) \/ Refused(c) \/ \E name \in Names : Connect(c, name)
  PROVE  Inv'
<1>1. CASE Crash(c) BY <1>1, CrashInv
<1>2. CASE ~Crash(c)
  <2>1. CASE Client(c)
    <3>1. CASE HeaderOnly(c) BY <1>2, <3>1, HeaderOnlyInv
    <3>2. CASE HeaderOk(c) BY <3>2, HeaderOkInv
    <3>3. CASE HeaderCut(c) BY <1>2, <3>3, HeaderCutInv
    <3>4. CASE Body(c) BY <3>4, BodyInv
    <3>5. CASE Eof(c) BY <1>2, <3>5, EofInv
    <3>6. CASE Reset(c) BY <1>2, <3>6, ResetInv
    <3> QED BY <2>1, <3>1, <3>2, <3>3, <3>4, <3>5, <3>6 DEF Client
  <2>2. CASE Exit(c) BY <1>2, <2>2 DEF Exit
  <2>3. CASE Refused(c) BY <1>2, <2>3, RefusedInv
  <2>4. CASE \E name \in Names : Connect(c, name) BY <2>4, ConnectInv
  <2> QED BY <2>1, <2>2, <2>3, <2>4
<1> QED BY <1>1, <1>2

LEMMA InvServer ==
  ASSUME Inv, Server \/ ReadFails \/ Killed
  PROVE  Inv'
<1>1. CASE Down BY <1>1, DownInv
<1>2. CASE ~Down
  <2>1. CASE Accept BY <2>1, AcceptInv
  <2>2. CASE AcceptFails BY <1>2, <2>2 DEF AcceptFails
  <2>3. CASE Send BY <1>2, <2>3, SendInv
  <2>4. CASE Transferred BY <2>4, TransferredInv
  <2>5. CASE RequestWhole \/ RequestCut \/ RequestNoName \/ RequestRest \/ RequestNoEnd
             \/ RequestWords
    BY <2>5, RequestInv
  <2>8. CASE RequestOverflows BY <1>2, <2>8 DEF RequestOverflows
  <2>6. CASE ReadFails BY <2>6, ReadFailsInv
  <2>7. CASE Killed BY <1>2, <2>7 DEF Killed
  <2> QED BY <2>1, <2>2, <2>3, <2>4, <2>5, <2>6, <2>7, <2>8 DEF Server
<1> QED BY <1>1, <1>2

LEMMA InvStutter ==
  ASSUME Inv, UNCHANGED vars
  PROVE  Inv'
<1>1. /\ conns' = conns /\ cut' = cut /\ srv' = srv /\ cur' = cur /\ readData' = readData
      /\ UNCHANGED client
  BY DEF vars, server
<1>2. /\ pc' = pc /\ todo' = todo /\ asked' = asked /\ sock' = sock /\ outcome' = outcome
      /\ filelength' = filelength /\ bytesTotalOfFile' = bytesTotalOfFile /\ file' = file
  BY <1>1 DEF client, locals
<1>3. TypeOK' BY <1>1, <1>2 DEF Inv, TypeOK, Conns
<1>4. Serving' BY <1>1 DEF Inv, Serving, Conns, Cur
<1>5. Bounded' BY <1>1 DEF Inv, Bounded, Conns
<1>6. ASSUME NEW c \in Clients PROVE Good(c)'
  <2>1. Mine(c)' = Mine(c) BY <1>1, <1>2 DEF Mine
  <2>2. Counted(c)' <=> Counted(c) BY <1>2, <2>1 DEF Counted
  <2>3. Answers(c)' BY <1>1, <1>2, <2>1 DEF Inv, Good, Answers
  <2>4. Works(c)' BY <1>1, <1>2, <2>1, <2>2 DEF Inv, Good, Works
  <2>5. Honest(c)' BY <1>1, <1>2, <2>1 DEF Inv, Good, Honest
  <2> QED BY <2>3, <2>4, <2>5 DEF Good
<1> QED BY <1>3, <1>4, <1>5, <1>6 DEF Inv

LEMMA InvNext == Inv /\ [Next]_vars => Inv'
BY InvClient, InvServer, InvStutter DEF Next

LEMMA Invariant == Spec => []Inv
BY InvInit, InvNext, PTL DEF Spec

-----------------------------------------------------------------------------
(* The connections, the server's place in gfserver_serve and each client's  *)
(* in gfc_perform keep their types and belong together, however the stream  *)
(* is cut and whoever ends when; a client reads no more than was written.   *)
THEOREM TypeCorrect == Spec => []TypeOK
<1>1. Inv => TypeOK BY DEF Inv
<1> QED BY <1>1, Invariant, PTL

(* A request that was answered on an uncut stream leaves the file that was  *)
(* asked for, whole, or none; FILE_NOT_FOUND is said of no file there is;   *)
(* gfc_perform fails only if the server left early.                         *)
THEOREM OutcomesAreHonest == Spec => []OutcomeHonest
<1>1. Inv => OutcomeHonest
  <2> SUFFICES ASSUME Inv, NEW c \in Clients PROVE Honest(c)
    BY DEF OutcomeHonest, Honest
  <2> QED BY DEF Inv, Good
<1> QED BY <1>1, Invariant, PTL

(* Between two requests gfserver_serve holds the descriptors of the files   *)
(* it sent to their end, and no other: every other path has closed its own. *)
THEOREM DescriptorsAreExact == Spec => []DescriptorsExact
<1>1. Inv => DescriptorsExact
  <2> SUFFICES ASSUME Inv, srv = "accept", NEW i \in Conns
               PROVE  (conns[i].far = "open") =
                        (conns[i].f # 0 /\ conns[i].written = HeaderLen(conns[i].f)
                                                              + FileLen(conns[i].f))
    BY DEF DescriptorsExact
  <2>1. TypeOK /\ Serving BY DEF Inv
  <2>2. i # cur BY <2>1, ConnTypes DEF Serving, Conns
  <2>3. conns[i].far = "open" <=> SentWhole(conns[i]) BY <2>1, <2>2 DEF Serving
  <2> QED BY <2>3 DEF SentWhole
<1> QED BY <1>1, Invariant, PTL
=============================================================================
