------------------------------ MODULE PagesProofs ------------------------------
(***************************************************************************)
(* Proofs about Pages, for answers of any length and pages of any size:    *)
(* the pages that are delivered are the lines of the answer in their       *)
(* order, but for what is spared (marks around code, rules, a heading over *)
(* a heading, rows past MaxRows), none is larger than a message, and what  *)
(* Telegram refuses costs its own lines only.                              *)
(*                                                                         *)
(* What is cut is computed by folds over sequences.  Each fold is shown to *)
(* have a trace, the values it takes from one element to the next          *)
(* (FoldExists, TraceExists, and FlattenTrace for sequences of sequences); *)
(* what holds along a trace follows by induction on its positions, as a    *)
(* set of numbers (NatSetInduction).  The invariants of the traces are     *)
(* that nothing taken is lost: lines read are in the blocks or in the open *)
(* code block (Taken), blocks cut are in the pages or in the open page     *)
(* (Packed), and the sections tell an interval of the answer, the open one *)
(* and the heading that waits included (Sectioned, Tells).                 *)
(***************************************************************************)
EXTENDS OwnerServices, FiniteSetTheorems, SequenceTheorems, WellFoundedInduction, TLAPS

\* What the operators of Pages work on.
Line   == [kind : Answer!Kinds, no : Nat]
Block  == {b \in [kind : {"heading", "list", "paragraph", "code", "divider"}, lines : Seq(Line)] :
              b.kind = "divider" => b.lines = <<>>}
Reader == [fenced : BOOLEAN, code : Seq(Line), table : Nat, blocks : Seq(Block)]

-----------------------------------------------------------------------------
(* Induction on sets of numbers, and the folds.                            *)

\* A set of numbers that has 0, and with each number its successor, has them all.
LEMMA NatSetInduction ==
    ASSUME NEW T, 0 \in T, \A n \in Nat : n \in T => n + 1 \in T
    PROVE  Nat \subseteq T
  <1> DEFINE U == Nat \ T
  <1>1. SUFFICES ASSUME U # {} PROVE FALSE
    OBVIOUS
  <1>2. \E m \in U : \A y \in U : <<y, m>> \notin OpToRel(<, Nat)
    BY <1>1, NatLessThanWellFounded, WFMin
  <1>3. PICK m \in U : \A y \in U : ~ (y < m)
    BY <1>2 DEF OpToRel
  <1>4. m \in Nat /\ m # 0
    OBVIOUS
  <1>5. m - 1 \in Nat /\ m - 1 \notin U
    BY <1>3, <1>4
  <1> QED
    BY <1>4, <1>5

\* A function on the first n numbers is a sequence.
LEMMA FunctionIsSeq ==
    ASSUME NEW S, NEW n \in Nat, NEW f \in [1..n -> S]
    PROVE  f \in Seq(S) /\ Len(f) = n
  OBVIOUS

\* The maximum the folds choose next.
LEMMA MaxOfInterval ==
    ASSUME NEW n \in Nat, NEW s \in SUBSET (1..n), s # {}
    PROVE  Answer!Max(s) \in s /\ \A y \in s : y <= Answer!Max(s)
  <1> DEFINE T == {k \in Nat : \A r \in SUBSET (1..k) :
                      r # {} => \E x \in r : \A y \in r : x >= y}
  <1>1. 0 \in T
    <2>1. 1..0 = {}
      OBVIOUS
    <2> QED
      BY <2>1
  <1>2. ASSUME NEW k \in Nat, k \in T PROVE k + 1 \in T
    <2>1. SUFFICES ASSUME NEW r \in SUBSET (1..k + 1), r # {}
                   PROVE  \E x \in r : \A y \in r : x >= y
      OBVIOUS
    <2>2. CASE k + 1 \in r
      BY <2>2
    <2>3. CASE k + 1 \notin r
      <3>1. r \in SUBSET (1..k)
        BY <2>3
      <3> QED
        BY <3>1, <2>1, <1>2
    <2> QED
      BY <2>2, <2>3
  <1>3. \E x \in s : \A y \in s : x >= y
    <2> HIDE DEF T
    <2>1. n \in T
      BY <1>1, <1>2, NatSetInduction
    <2> QED
      BY <2>1 DEF T
  <1> QED
    BY <1>3 DEF Answer!Max

LEMMA MaxIsTop ==
    ASSUME NEW k \in Nat, NEW s \in SUBSET (1..k + 1), k + 1 \in s
    PROVE  Answer!Max(s) = k + 1
  <1>1. /\ Answer!Max(s) \in s
        /\ \A y \in s : y <= Answer!Max(s)
    BY MaxOfInterval
  <1>2. Answer!Max(s) \in 1..k + 1 /\ k + 1 <= Answer!Max(s)
    BY <1>1
  <1> QED
    BY <1>2

\* What folds its way through 1..n is a function of the sets it has folded, and a
\* trace is the same from one element to the next.
Folds(f, base, G, n) ==
    \A s \in SUBSET (1..n) :
        f[s] = IF s = {} THEN base ELSE G[<<f[s \ {Answer!Max(s)}], Answer!Max(s)>>]

Traces(t, base, G, n) == t[0] = base /\ \A k \in 0..n - 1 : t[k + 1] = G[<<t[k], k + 1>>]

LEMMA FoldStep ==
    ASSUME NEW A, NEW base \in A, NEW n \in Nat, NEW G \in [A \X (1..n) -> A],
           NEW k \in Nat, k + 1 <= n, NEW f \in [SUBSET (1..k) -> A], Folds(f, base, G, k)
    PROVE  \E g \in [SUBSET (1..k + 1) -> A] : Folds(g, base, G, k + 1)
  <1> DEFINE g == [s \in SUBSET (1..k + 1) |->
                     IF k + 1 \in s THEN G[<<f[s \ {k + 1}], k + 1>>] ELSE f[s]]
  <1>1. ASSUME NEW s \in SUBSET (1..k + 1), k + 1 \in s
        PROVE  g[s] \in A /\ g[s] = G[<<g[s \ {Answer!Max(s)}], Answer!Max(s)>>]
    <2>1. Answer!Max(s) = k + 1
      BY <1>1, MaxIsTop
    <2>2. s \ {k + 1} \in SUBSET (1..k)
      OBVIOUS
    <2>3. g[s \ {k + 1}] = f[s \ {k + 1}] /\ f[s \ {k + 1}] \in A
      BY <2>2
    <2> QED
      BY <2>1, <2>3, <1>1
  <1>2. ASSUME NEW s \in SUBSET (1..k + 1), k + 1 \notin s
        PROVE  /\ g[s] \in A
               /\ g[s] = IF s = {} THEN base ELSE G[<<g[s \ {Answer!Max(s)}], Answer!Max(s)>>]
    <2>1. s \in SUBSET (1..k)
      BY <1>2
    <2>2. s \ {Answer!Max(s)} \in SUBSET (1..k)
      BY <2>1
    <2>3. g[s] = f[s] /\ g[s \ {Answer!Max(s)}] = f[s \ {Answer!Max(s)}]
      BY <2>1, <2>2, <1>2
    <2> QED
      BY <2>1, <2>3 DEF Folds
  <1>3. g \in [SUBSET (1..k + 1) -> A]
    BY <1>1, <1>2
  <1>4. Folds(g, base, G, k + 1)
    BY <1>1, <1>2 DEF Folds
  <1> QED
    BY <1>3, <1>4

LEMMA FoldExists ==
    ASSUME NEW A, NEW base \in A, NEW n \in Nat, NEW G \in [A \X (1..n) -> A]
    PROVE  \E f \in [SUBSET (1..n) -> A] : Folds(f, base, G, n)
  <1> DEFINE Has(k) == \E f \in [SUBSET (1..k) -> A] : Folds(f, base, G, k)
             T == {k \in Nat : k <= n => Has(k)}
  <1>1. Has(0)
    <2> DEFINE z == [s \in SUBSET (1..0) |-> base]
    <2>1. \A s \in SUBSET (1..0) : s = {} /\ z[s] = base
      OBVIOUS
    <2>2. z \in [SUBSET (1..0) -> A] /\ Folds(z, base, G, 0)
      BY <2>1 DEF Folds
    <2> QED
      BY <2>2
  <1>2. ASSUME NEW k \in Nat, k + 1 <= n, Has(k) PROVE Has(k + 1)
    BY <1>2, FoldStep
  <1> HIDE DEF Has
  <1>3. 0 \in T /\ \A k \in Nat : k \in T => k + 1 \in T
    BY <1>1, <1>2
  <1> HIDE DEF T
  <1>4. n \in T
    BY <1>3, NatSetInduction
  <1>5. Has(n)
    BY <1>4 DEF T
  <1> QED
    BY <1>5 DEF Has

LEMMA TraceExists ==
    ASSUME NEW A, NEW base \in A, NEW n \in Nat, NEW G \in [A \X (1..n) -> A]
    PROVE  \E t \in [0..n -> A] : Traces(t, base, G, n)
  <1>1. PICK f \in [SUBSET (1..n) -> A] : Folds(f, base, G, n)
    BY FoldExists
  <1> DEFINE t == [k \in 0..n |-> f[1..k]]
  <1>2. t \in [0..n -> A]
    <2>1. \A k \in 0..n : 1..k \in SUBSET (1..n)
      OBVIOUS
    <2> QED
      BY <2>1
  <1>3. t[0] = base
    <2>1. 1..0 = {} /\ {} \in SUBSET (1..n)
      OBVIOUS
    <2>2. f[{}] = base
      BY <2>1, <1>1 DEF Folds
    <2> QED
      BY <2>1, <2>2
  <1>4. ASSUME NEW k \in 0..n - 1
        PROVE  t[k + 1] = G[<<t[k], k + 1>>]
    <2>1. /\ k \in Nat /\ k + 1 \in 0..n /\ k \in 0..n
          /\ 1..k + 1 \in SUBSET (1..n) /\ k + 1 \in 1..k + 1 /\ (1..k + 1) \ {k + 1} = 1..k
      OBVIOUS
    <2>2. Answer!Max(1..k + 1) = k + 1
      BY <2>1, MaxIsTop
    <2>3. f[1..k + 1] = G[<<f[1..k], k + 1>>]
      BY <2>1, <2>2, <1>1 DEF Folds
    <2> QED
      BY <2>1, <2>3
  <1>5. Traces(t, base, G, n)
    BY <1>3, <1>4 DEF Traces
  <1> QED
    BY <1>2, <1>5

\* Two functions that start alike and go on alike have the same end.
LEMMA SameWay ==
    ASSUME NEW n \in Nat, NEW f, NEW t, f[{}] = t[0],
           \A k \in 0..n - 1 : f[1..k] = t[k] => f[1..k + 1] = t[k + 1]
    PROVE  f[1..n] = t[n]
  <1> DEFINE Same(k) == f[1..k] = t[k]
             T == {k \in Nat : k <= n => Same(k)}
  <1>1. Same(0)
    <2>1. 1..0 = {}
      OBVIOUS
    <2> QED
      BY <2>1
  <1>2. ASSUME NEW k \in Nat, k + 1 <= n, Same(k) PROVE Same(k + 1)
    <2>1. k \in 0..n - 1
      BY <1>2
    <2> QED
      BY <1>2, <2>1
  <1> HIDE DEF Same
  <1>3. 0 \in T /\ \A k \in Nat : k \in T => k + 1 \in T
    BY <1>1, <1>2
  <1> HIDE DEF T
  <1>4. n \in T
    BY <1>3, NatSetInduction
  <1>5. Same(n)
    BY <1>4 DEF T
  <1> QED
    BY <1>5 DEF Same

\* The flattening of a sequence of sequences, one of them after the other.
LEMMA FlattenTrace ==
    ASSUME NEW S, NEW ss \in Seq(Seq(S))
    PROVE  \E t \in [0..Len(ss) -> Seq(S)] :
              /\ t[0] = <<>>
              /\ \A k \in 0..Len(ss) - 1 : t[k + 1] = t[k] \o ss[k + 1]
              /\ t[Len(ss)] = Answer!FlattenSeq(ss)
  <1> DEFINE n == Len(ss)
             G == [x \in Seq(S) \X (1..n) |-> x[1] \o ss[x[2]]]
  <1>1. n \in Nat /\ \A i \in 1..n : ss[i] \in Seq(S)
    OBVIOUS
  <1>2. G \in [Seq(S) \X (1..n) -> Seq(S)]
    BY <1>1, ConcatProperties
  <1>3. PICK t \in [0..n -> Seq(S)] : Traces(t, <<>>, G, n)
    <2>1. <<>> \in Seq(S)
      OBVIOUS
    <2> HIDE DEF G, n
    <2> QED
      BY <1>1, <1>2, <2>1, TraceExists
  <1>4. t[0] = <<>> /\ \A k \in 0..n - 1 : t[k + 1] = t[k] \o ss[k + 1]
    <2>1. ASSUME NEW k \in 0..n - 1
          PROVE  G[<<t[k], k + 1>>] = t[k] \o ss[k + 1]
      <3>1. k \in 0..n /\ k + 1 \in 1..n
        BY <1>1
      <3>2. t[k] \in Seq(S)
        <4> HIDE DEF n
        <4> QED
          BY <3>1
      <3> QED
        BY <3>1, <3>2
    <2> QED
      BY <1>3, <2>1 DEF Traces
  <1>5. t[n] = Answer!FlattenSeq(ss)
    <2>1. CASE n = 0
      <3>1. ss = <<>>
        BY <2>1
      <3> QED
        BY <2>1, <3>1, <1>4 DEF Answer!FlattenSeq
    <2>2. CASE n # 0
      <3> DEFINE F(g) == [i \in 1..n |-> IF i = 1 THEN ss[i] ELSE g[i - 1] \o ss[i]]
                 h == [i \in 1..n |-> t[i]]
                 flat == CHOOSE g : g = F(g)
      <3>1. t[1] = ss[1]
        <4>1. 0 \in 0..n - 1 /\ 0 + 1 = 1 /\ ss[1] \in Seq(S)
          BY <1>1, <2>2
        <4>2. t[0 + 1] = <<>> \o ss[1]
          BY <1>4, <4>1
        <4> QED
          BY <4>1, <4>2, ConcatEmptySeq
      <3>2. ASSUME NEW i \in 1..n, i # 1 PROVE h[i] = h[i - 1] \o ss[i]
        <4>1. i - 1 \in 0..n - 1 /\ i - 1 \in 1..n /\ i - 1 + 1 = i
          BY <1>1, <3>2
        <4> QED
          BY <4>1, <1>4
      <3>3. h = F(h)
        BY <3>1, <3>2
      <3>4. flat = F(flat)
        <4> HIDE DEF F, h
        <4> QED
          BY <3>3
      <3> HIDE DEF flat
      <3> DEFINE T == {k \in Nat : k + 1 \in 1..n => flat[k + 1] = t[k + 1]}
      <3>5. 0 \in T
        <4>1. flat[1] = ss[1]
          BY <3>4, <2>2, <1>1
        <4> QED
          BY <4>1, <3>1
      <3>6. ASSUME NEW k \in Nat, k \in T PROVE k + 1 \in T
        <4>1. SUFFICES ASSUME k + 2 \in 1..n PROVE flat[k + 2] = t[k + 2]
          OBVIOUS
        <4>2. k + 1 \in 1..n /\ k + 1 \in 0..n - 1 /\ k + 2 # 1 /\ (k + 2) - 1 = k + 1 /\ (k + 1) + 1 = k + 2
          BY <4>1, <1>1
        <4>3. flat[k + 2] = flat[k + 1] \o ss[k + 2]
          BY <3>4, <4>1, <4>2
        <4>4. t[k + 2] = t[k + 1] \o ss[k + 2]
          BY <1>4, <4>2
        <4> QED
          BY <4>2, <4>3, <4>4, <3>6
      <3>7. n - 1 \in T
        <4>1. n - 1 \in Nat
          BY <1>1, <2>2
        <4> HIDE DEF T, n
        <4> QED
          BY <3>5, <3>6, <4>1, NatSetInduction
      <3>8. flat[n] = t[n]
        BY <3>7, <1>1, <2>2
      <3>9. Answer!FlattenSeq(ss) = flat[n]
        BY <2>2 DEF Answer!FlattenSeq, flat
      <3> QED
        BY <3>8, <3>9
    <2> QED
      BY <2>1, <2>2
  <1> QED
    BY <1>3, <1>4, <1>5

LEMMA FlattenType ==
    ASSUME NEW S, NEW ss \in Seq(Seq(S))
    PROVE  Answer!FlattenSeq(ss) \in Seq(S)
  <1>1. PICK t \in [0..Len(ss) -> Seq(S)] : t[Len(ss)] = Answer!FlattenSeq(ss)
    BY FlattenTrace
  <1>2. Len(ss) \in 0..Len(ss)
    OBVIOUS
  <1> QED
    BY <1>1, <1>2

LEMMA FlattenEmpty == Answer!FlattenSeq(<<>>) = <<>>
  BY DEF Answer!FlattenSeq

LEMMA FlattenSingle ==
    ASSUME NEW S, NEW s \in Seq(S)
    PROVE  Answer!FlattenSeq(<<s>>) = s
  <1> DEFINE ss == <<s>>
  <1>1. ss \in Seq(Seq(S)) /\ Len(ss) = 1 /\ ss[1] = s
    OBVIOUS
  <1> HIDE DEF ss
  <1>2. PICK t \in [0..Len(ss) -> Seq(S)] :
              /\ t[0] = <<>>
              /\ \A k \in 0..Len(ss) - 1 : t[k + 1] = t[k] \o ss[k + 1]
              /\ t[Len(ss)] = Answer!FlattenSeq(ss)
    BY <1>1, FlattenTrace
  <1>3. 0 \in 0..Len(ss) - 1 /\ 0 + 1 = 1
    BY <1>1
  <1>4. t[1] = <<>> \o s
    BY <1>1, <1>2, <1>3
  <1> QED
    BY <1>1, <1>2, <1>4, ConcatEmptySeq DEF ss

\* Sequences laid one after the other flatten one after the other.
LEMMA FlattenConcat ==
    ASSUME NEW S, NEW ss \in Seq(Seq(S)), NEW rr \in Seq(Seq(S))
    PROVE  Answer!FlattenSeq(ss \o rr) = Answer!FlattenSeq(ss) \o Answer!FlattenSeq(rr)
  <1> DEFINE all == ss \o rr
             n == Len(ss)
             m == Len(rr)
  <1>1. /\ all \in Seq(Seq(S)) /\ Len(all) = n + m /\ n \in Nat /\ m \in Nat
        /\ \A i \in 1..n : all[i] = ss[i]
        /\ \A i \in 1..m : all[n + i] = rr[i] /\ rr[i] \in Seq(S)
    BY ConcatProperties
  <1> HIDE DEF all
  <1>2. PICK a \in [0..Len(all) -> Seq(S)] :
              /\ a[0] = <<>>
              /\ \A k \in 0..Len(all) - 1 : a[k + 1] = a[k] \o all[k + 1]
              /\ a[Len(all)] = Answer!FlattenSeq(all)
    BY <1>1, FlattenTrace
  <1>3. PICK t \in [0..n -> Seq(S)] :
              /\ t[0] = <<>>
              /\ \A k \in 0..n - 1 : t[k + 1] = t[k] \o ss[k + 1]
              /\ t[n] = Answer!FlattenSeq(ss)
    BY <1>1, FlattenTrace
  <1>4. PICK r \in [0..m -> Seq(S)] :
              /\ r[0] = <<>>
              /\ \A k \in 0..m - 1 : r[k + 1] = r[k] \o rr[k + 1]
              /\ r[m] = Answer!FlattenSeq(rr)
    BY <1>1, FlattenTrace
  <1> HIDE DEF n, m
  <1>5. a[n] = t[n]
    <2> DEFINE T == {k \in Nat : k <= n => a[k] = t[k]}
    <2>1. 0 \in T
      BY <1>2, <1>3
    <2>2. ASSUME NEW k \in Nat, k \in T PROVE k + 1 \in T
      <3>1. SUFFICES ASSUME k + 1 <= n PROVE a[k + 1] = t[k + 1]
        OBVIOUS
      <3>2. k <= n /\ k \in 0..n - 1 /\ k \in 0..Len(all) - 1 /\ k + 1 \in 1..n
        BY <1>1, <3>1
      <3> QED
        BY <1>1, <1>2, <1>3, <2>2, <3>2
    <2> HIDE DEF T
    <2>3. n \in T
      BY <1>1, <2>1, <2>2, NatSetInduction
    <2> QED
      BY <1>1, <2>3 DEF T
  <1>6. a[n + m] = t[n] \o r[m]
    <2> DEFINE Same(k) == a[n + k] = t[n] \o r[k]
               T == {k \in Nat : k <= m => Same(k)}
    <2>1. Same(0)
      <3>1. t[n] \in Seq(S) /\ n + 0 = n
        BY <1>1
      <3>2. t[n] \o <<>> = t[n]
        BY <3>1, ConcatEmptySeq
      <3> QED
        BY <1>4, <1>5, <3>1, <3>2
    <2>2. ASSUME NEW k \in Nat, k + 1 <= m, Same(k) PROVE Same(k + 1)
      <3>2. /\ k <= m /\ k \in 0..m - 1 /\ n + k \in 0..Len(all) - 1 /\ k + 1 \in 1..m
            /\ (n + k) + 1 = n + (k + 1) /\ k \in 0..m /\ n \in 0..n
        BY <1>1, <2>2
      <3>3. a[n + (k + 1)] = a[n + k] \o rr[k + 1]
        BY <1>1, <1>2, <3>2
      <3>4. a[n + k] = t[n] \o r[k]
        BY <2>2, <3>2
      <3>5. t[n] \in Seq(S) /\ r[k] \in Seq(S) /\ rr[k + 1] \in Seq(S)
        BY <1>1, <3>2
      <3>6. (t[n] \o r[k]) \o rr[k + 1] = t[n] \o (r[k] \o rr[k + 1])
        <4> HIDE DEF Same
        <4> DEFINE x == t[n]
                   y == r[k]
                   z == rr[k + 1]
        <4> HIDE DEF x, y, z
        <4>1. x \in Seq(S) /\ y \in Seq(S) /\ z \in Seq(S)
          BY <3>5 DEF x, y, z
        <4>2. (x \o y) \o z = x \o (y \o z)
          BY <4>1
        <4> QED
          BY <4>2 DEF x, y, z
      <3> QED
        BY <1>4, <3>2, <3>3, <3>4, <3>6
    <2> HIDE DEF Same
    <2>3. 0 \in T /\ \A k \in Nat : k \in T => k + 1 \in T
      BY <2>1, <2>2, <1>1
    <2> HIDE DEF T
    <2>4. m \in T
      BY <1>1, <2>3, NatSetInduction
    <2>5. Same(m)
      BY <1>1, <2>4 DEF T
    <2> QED
      BY <2>5 DEF Same
  <1> QED
    BY <1>1, <1>2, <1>3, <1>4, <1>6 DEF all

LEMMA FlattenAppend ==
    ASSUME NEW S, NEW ss \in Seq(Seq(S)), NEW s \in Seq(S)
    PROVE  Answer!FlattenSeq(Append(ss, s)) = Answer!FlattenSeq(ss) \o s
  <1>1. Append(ss, s) = ss \o <<s>> /\ <<s>> \in Seq(Seq(S))
    BY AppendIsConcat
  <1>2. Answer!FlattenSeq(ss \o <<s>>) = Answer!FlattenSeq(ss) \o Answer!FlattenSeq(<<s>>)
    BY <1>1, FlattenConcat
  <1>3. Answer!FlattenSeq(<<s>>) = s
    BY FlattenSingle
  <1> QED
    BY <1>1, <1>2, <1>3

\* What is in one of the sequences is in their flattening.
LEMMA FlattenHas ==
    ASSUME NEW S, NEW ss \in Seq(Seq(S)), NEW i \in 1..Len(ss), NEW j \in 1..Len(ss[i])
    PROVE  \E m \in 1..Len(Answer!FlattenSeq(ss)) : Answer!FlattenSeq(ss)[m] = ss[i][j]
  <1> DEFINE n == Len(ss)
             x == ss[i][j]
  <1>1. n \in Nat /\ i \in 1..n /\ \A k \in 1..n : ss[k] \in Seq(S)
    OBVIOUS
  <1>2. PICK t \in [0..n -> Seq(S)] :
              /\ t[0] = <<>>
              /\ \A k \in 0..n - 1 : t[k + 1] = t[k] \o ss[k + 1]
              /\ t[n] = Answer!FlattenSeq(ss)
    BY FlattenTrace
  <1> HIDE DEF n, x
  <1> DEFINE Has(k) == \E m \in 1..Len(t[k]) : t[k][m] = x
             T == {k \in Nat : i <= k /\ k <= n => Has(k)}
  <1>3. ASSUME NEW k \in 0..n - 1
        PROVE  /\ t[k] \in Seq(S) /\ ss[k + 1] \in Seq(S)
               /\ Len(t[k + 1]) = Len(t[k]) + Len(ss[k + 1])
               /\ \A m \in 1..Len(t[k]) : t[k + 1][m] = t[k][m]
               /\ \A m \in 1..Len(ss[k + 1]) : t[k + 1][Len(t[k]) + m] = ss[k + 1][m]
    <2> DEFINE a == t[k]
               b == ss[k + 1]
    <2>0. k \in 0..n /\ k + 1 \in 1..n
      BY <1>1
    <2>1. a \in Seq(S) /\ b \in Seq(S) /\ t[k + 1] = a \o b
      BY <1>1, <1>2, <2>0
    <2> HIDE DEF a, b
    <2>2. /\ Len(a \o b) = Len(a) + Len(b)
          /\ \A m \in 1..Len(a) : (a \o b)[m] = a[m]
          /\ \A m \in 1..Len(b) : (a \o b)[Len(a) + m] = b[m]
      BY <2>1, ConcatProperties
    <2> QED
      BY <2>1, <2>2 DEF a, b
  <1>4. ASSUME NEW k \in Nat, k + 1 <= n, i <= k + 1, i <= k => Has(k) PROVE Has(k + 1)
    <2>1. k \in 0..n - 1 /\ k \in 0..n
      BY <1>1, <1>4
    <2> DEFINE a == t[k]
               b == ss[k + 1]
               c == t[k + 1]
    <2>2. /\ Len(a) \in Nat /\ Len(b) \in Nat /\ Len(c) = Len(a) + Len(b)
          /\ \A m \in 1..Len(a) : c[m] = a[m]
          /\ \A m \in 1..Len(b) : c[Len(a) + m] = b[m]
      <3>1. a \in Seq(S) /\ b \in Seq(S)
        BY <1>3, <2>1
      <3> HIDE DEF a, b, c
      <3>2. Len(a) \in Nat /\ Len(b) \in Nat
        BY <3>1
      <3> QED
        BY <1>3, <2>1, <3>2 DEF a, b, c
    <2>3. CASE i = k + 1
      <3>1. j \in 1..Len(b) /\ x = b[j]
        BY <2>3 DEF x
      <3> HIDE DEF a, b
      <3>2. Len(a) + j \in 1..Len(c) /\ c[Len(a) + j] = x
        BY <2>2, <3>1
      <3> QED
        BY <3>2
    <2>4. CASE i # k + 1
      <3>1. i <= k
        BY <1>1, <1>4, <2>4
      <3>2. PICK m \in 1..Len(a) : a[m] = x
        BY <1>4, <3>1
      <3> HIDE DEF a, b
      <3>3. m \in 1..Len(c) /\ c[m] = x
        BY <2>2, <3>2
      <3> QED
        BY <3>3
    <2> QED
      BY <2>3, <2>4
  <1> HIDE DEF Has
  <1>5. 0 \in T /\ \A k \in Nat : k \in T => k + 1 \in T
    <2>1. ~ (i <= 0)
      BY <1>1
    <2>2. \A k \in Nat : k + 1 <= n => k <= n
      BY <1>1
    <2> QED
      BY <1>4, <2>1, <2>2
  <1> HIDE DEF T
  <1>6. n \in T
    BY <1>1, <1>5, NatSetInduction
  <1>7. Has(n)
    BY <1>1, <1>6 DEF T
  <1> QED
    BY <1>2, <1>7 DEF Has, x

-----------------------------------------------------------------------------
(* The lines of a page.                                                    *)

TextsOf(page) == [i \in DOMAIN page |-> page[i].lines]

LEMMA LinesAreFlat ==
    ASSUME NEW page
    PROVE  Answer!LinesOf(page) = Answer!FlattenSeq(TextsOf(page))
  BY DEF Answer!LinesOf, TextsOf

LEMMA TextsOfPage ==
    ASSUME NEW page \in Seq(Block)
    PROVE  /\ TextsOf(page) \in Seq(Seq(Line)) /\ Len(TextsOf(page)) = Len(page)
           /\ \A i \in 1..Len(page) : TextsOf(page)[i] = page[i].lines
  <1>1. Len(page) \in Nat /\ DOMAIN page = 1..Len(page) /\ \A i \in 1..Len(page) : page[i] \in Block
    OBVIOUS
  <1>2. \A i \in 1..Len(page) : page[i].lines \in Seq(Line)
    BY <1>1 DEF Block
  <1> QED
    BY <1>1, <1>2 DEF TextsOf

LEMMA LinesConcat ==
    ASSUME NEW p \in Seq(Block), NEW q \in Seq(Block)
    PROVE  Answer!LinesOf(p \o q) = Answer!LinesOf(p) \o Answer!LinesOf(q)
  <1>1. p \o q \in Seq(Block) /\ Len(p \o q) = Len(p) + Len(q) /\ Len(p) \in Nat /\ Len(q) \in Nat
    OBVIOUS
  <1>2. /\ TextsOf(p) \o TextsOf(q) \in Seq(Seq(Line))
        /\ Len(TextsOf(p) \o TextsOf(q)) = Len(p) + Len(q)
    BY TextsOfPage
  <1>3. ASSUME NEW i \in 1..Len(p) + Len(q)
        PROVE  TextsOf(p \o q)[i] = (TextsOf(p) \o TextsOf(q))[i]
    <2>1. TextsOf(p \o q)[i] = (p \o q)[i].lines
      BY <1>1, TextsOfPage
    <2>2. CASE i <= Len(p)
      BY <2>1, <2>2, <1>1, TextsOfPage
    <2>3. CASE i > Len(p)
      BY <2>1, <2>3, <1>1, TextsOfPage
    <2>4. i <= Len(p) \/ i > Len(p)
      BY <1>1
    <2> QED
      BY <2>2, <2>3, <2>4
  <1>4. TextsOf(p \o q) = TextsOf(p) \o TextsOf(q)
    <2> DEFINE u == TextsOf(p \o q)
               v == TextsOf(p) \o TextsOf(q)
    <2>1. u \in Seq(Seq(Line)) /\ Len(u) = Len(p) + Len(q)
      BY <1>1, TextsOfPage
    <2> HIDE DEF u, v
    <2>2. v \in Seq(Seq(Line)) /\ Len(v) = Len(p) + Len(q) /\ \A i \in 1..Len(u) : u[i] = v[i]
      BY <1>2, <1>3, <2>1 DEF u, v
    <2>3. u = v
      BY <2>1, <2>2, SeqEqual
    <2> QED
      BY <2>3 DEF u, v
  <1> QED
    BY <1>4, LinesAreFlat, TextsOfPage, FlattenConcat

LEMMA LinesType ==
    ASSUME NEW p \in Seq(Block)
    PROVE  Answer!LinesOf(p) \in Seq(Line)
  BY LinesAreFlat, TextsOfPage, FlattenType

LEMMA LinesEmpty == Answer!LinesOf(<<>>) = <<>>
  <1>1. TextsOf(<<>>) = <<>>
    BY DEF TextsOf
  <1> QED
    BY <1>1, LinesAreFlat, FlattenEmpty

LEMMA LinesAppend ==
    ASSUME NEW p \in Seq(Block), NEW b \in Block
    PROVE  Answer!LinesOf(Append(p, b)) = Answer!LinesOf(p) \o b.lines
  <1>1. Append(p, b) = p \o <<b>> /\ <<b>> \in Seq(Block) /\ b.lines \in Seq(Line)
    BY AppendIsConcat DEF Block
  <1>2. TextsOf(<<b>>) = <<b.lines>>
    BY DEF TextsOf
  <1> QED
    BY <1>1, <1>2, LinesConcat, LinesAreFlat, FlattenSingle

LEMMA LinesOfOne ==
    ASSUME NEW b \in Block
    PROVE  Answer!LinesOf(<<b>>) = b.lines
  <1>1. Append(<<>>, b) = <<b>> /\ <<>> \in Seq(Block) /\ b.lines \in Seq(Line)
    BY DEF Block
  <1>2. Answer!LinesOf(Append(<<>>, b)) = Answer!LinesOf(<<>>) \o b.lines
    BY <1>1, LinesAppend
  <1> QED
    BY <1>1, <1>2, LinesEmpty, ConcatEmptySeq

-----------------------------------------------------------------------------
(* Blocks.                                                                 *)

LEMMA FrontLast ==
    ASSUME NEW S, NEW s \in Seq(S), s # <<>>
    PROVE  /\ Answer!Front(s) \in Seq(S) /\ Answer!Last(s) \in S
           /\ s = Append(Answer!Front(s), Answer!Last(s))
  <1>1. Len(s) \in Nat \ {0}
    BY EmptySeq
  <1>2. Answer!Last(s) \in S
    BY <1>1 DEF Answer!Last
  <1>3. /\ Answer!Front(s) \in Seq(S) /\ Len(Answer!Front(s)) = Len(s) - 1
        /\ \A i \in 1..Len(s) - 1 : Answer!Front(s)[i] = s[i]
    <2>1. Answer!Front(s) = SubSeq(s, 1, Len(s) - 1)
      BY DEF Answer!Front
    <2> DEFINE m == Len(s) - 1
    <2>2. m \in Nat /\ m = Len(s) - 1 /\ \A i \in 1..m : s[i] \in S
      BY <1>1
    <2> HIDE DEF m
    <2>3. /\ SubSeq(s, 1, m) \in Seq(S) /\ Len(SubSeq(s, 1, m)) = m
          /\ \A i \in 1..m : SubSeq(s, 1, m)[i] = s[i]
      BY <2>2
    <2> QED
      BY <2>1, <2>2, <2>3
  <1>4. Len(Append(Answer!Front(s), Answer!Last(s))) = Len(s)
    BY <1>1, <1>2, <1>3
  <1>5. \A i \in 1..Len(s) : s[i] = Append(Answer!Front(s), Answer!Last(s))[i]
    BY <1>1, <1>2, <1>3 DEF Answer!Last
  <1>6. Append(Answer!Front(s), Answer!Last(s)) \in Seq(S)
    BY <1>2, <1>3
  <1> QED
    BY <1>2, <1>3, <1>4, <1>5, <1>6, SeqEqual

\* A line joins the blocks at their end.
LEMMA WithBlockKeeps ==
    ASSUME NEW blocks \in Seq(Block), NEW kind \in {"heading", "list", "paragraph"}, NEW line \in Line
    PROVE  /\ Answer!WithBlock(blocks, kind, line) \in Seq(Block)
           /\ Answer!LinesOf(Answer!WithBlock(blocks, kind, line)) = Answer!LinesOf(blocks) \o <<line>>
  <1>1. <<line>> \in Seq(Line)
    OBVIOUS
  <1> DEFINE Joins == /\ blocks # <<>> /\ Answer!Last(blocks).kind = kind
                      /\ kind = "list" \/ line.kind = "joined"
  <1>2. CASE Joins
    <2> DEFINE front == Answer!Front(blocks)
               list  == Answer!Last(blocks)
               more  == [kind |-> kind, lines |-> Append(list.lines, line)]
    <2>1. front \in Seq(Block) /\ list \in Block /\ blocks = Append(front, list)
      BY <1>2, FrontLast
    <2>2. /\ list.lines \in Seq(Line)
          /\ Append(list.lines, line) \in Seq(Line)
          /\ Append(list.lines, line) = list.lines \o <<line>>
      BY <2>1, AppendIsConcat DEF Block
    <2>3. more \in Block
      BY <2>2 DEF Block
    <2> HIDE DEF front, list
    <2>4. Answer!WithBlock(blocks, kind, line) = Append(front, more)
      <3>1. Append(front, more) = front \o <<more>>
        BY <2>1, <2>3, AppendIsConcat
      <3> QED
        BY <1>2, <3>1 DEF Answer!WithBlock, front, list
    <2>5. Answer!LinesOf(Append(front, more)) = Answer!LinesOf(front) \o more.lines
      BY <2>1, <2>3, LinesAppend
    <2>6. Answer!LinesOf(blocks) = Answer!LinesOf(front) \o list.lines
      BY <2>1, LinesAppend
    <2>7. Answer!LinesOf(front) \o (list.lines \o <<line>>) = (Answer!LinesOf(front) \o list.lines) \o <<line>>
      <3> DEFINE x == Answer!LinesOf(front)
                 y == list.lines
                 z == <<line>>
      <3>1. x \in Seq(Line) /\ y \in Seq(Line) /\ z \in Seq(Line)
        BY <1>1, <2>1, <2>2, LinesType
      <3> HIDE DEF x, y, z
      <3>2. x \o (y \o z) = (x \o y) \o z
        BY <3>1
      <3> QED
        BY <3>2 DEF x, y, z
    <2>8. Append(front, more) \in Seq(Block)
      BY <2>1, <2>3
    <2> QED
      BY <2>2, <2>4, <2>5, <2>6, <2>7, <2>8
  <1>3. CASE ~ Joins
    <2> DEFINE new == [kind |-> kind, lines |-> <<line>>]
    <2>1. new \in Block /\ new.lines = <<line>>
      BY <1>1 DEF Block
    <2>2. Answer!WithBlock(blocks, kind, line) = Append(blocks, new)
      BY <1>3 DEF Answer!WithBlock
    <2> HIDE DEF new
    <2>3. Answer!LinesOf(Append(blocks, new)) = Answer!LinesOf(blocks) \o new.lines
      BY <2>1, LinesAppend
    <2>4. Append(blocks, new) \in Seq(Block)
      BY <2>1
    <2> QED
      BY <2>1, <2>2, <2>3, <2>4
  <1> QED
    BY <1>2, <1>3

\* A line that is not code is put into the blocks, unless it is a mark or a rule.
LEMMA RenderedKeeps ==
    ASSUME NEW blocks \in Seq(Block), NEW line \in Line
    PROVE  /\ Answer!Rendered(blocks, line) \in Seq(Block)
           /\ Answer!LinesOf(Answer!Rendered(blocks, line)) =
                IF line.kind \in {"fence", "rule"} THEN Answer!LinesOf(blocks)
                ELSE Answer!LinesOf(blocks) \o <<line>>
  <1>1. CASE line.kind = "fence"
    BY <1>1 DEF Answer!Rendered
  <1>2. CASE line.kind = "rule"
    <2>1. Answer!Rendered(blocks, line) = Append(blocks, Answer!Divider)
      BY <1>2 DEF Answer!Rendered
    <2>2. Answer!Divider \in Block /\ Answer!Divider.lines = <<>>
      <3>1. <<>> \in Seq(Line)
        OBVIOUS
      <3> QED
        BY <3>1 DEF Answer!Divider, Block
    <2>3. Answer!LinesOf(Append(blocks, Answer!Divider)) = Answer!LinesOf(blocks) \o <<>>
      BY <2>2, LinesAppend
    <2>4. Answer!LinesOf(blocks) \o <<>> = Answer!LinesOf(blocks)
      BY LinesType, ConcatEmptySeq
    <2>5. Append(blocks, Answer!Divider) \in Seq(Block)
      BY <2>2
    <2> QED
      BY <1>2, <2>1, <2>3, <2>4, <2>5
  <1>3. CASE line.kind \notin {"fence", "rule"}
    <2> DEFINE kind == CASE line.kind = "title" -> "heading"
                         [] line.kind = "item"  -> "list"
                         [] OTHER               -> "paragraph"
    <2>1. Answer!Rendered(blocks, line) = Answer!WithBlock(blocks, kind, line)
      BY <1>3 DEF Answer!Rendered
    <2>2. kind \in {"heading", "list", "paragraph"}
      OBVIOUS
    <2> HIDE DEF kind
    <2> QED
      BY <1>3, <2>1, <2>2, WithBlockKeeps
  <1> QED
    BY <1>1, <1>2, <1>3

\* Outside a fence no code is held back, inside there is no table; what has been taken
\* so far; which lines are a table's, and which lines add nothing.
Readable(acc) ==
    /\ ~ acc.fenced => acc.code = <<>>
    /\ acc.fenced => acc.table = 0
    /\ acc.table <= MaxRows + 1
Taken(acc) == Answer!LinesOf(acc.blocks) \o acc.code
IsRow(acc, line) == ~ acc.fenced /\ (line.kind = "table" \/ (line.kind = "row" /\ acc.table > 0))
Silent(acc, line) ==
    \/ line.kind = "fence"
    \/ line.kind = "rule" /\ ~ acc.fenced
    \/ IsRow(acc, line) /\ acc.table > MaxRows

LEMMA ClosedKeeps ==
    ASSUME NEW acc \in Reader
    PROVE  /\ Answer!Closed(acc) \in Reader /\ Readable(Answer!Closed(acc))
           /\ Answer!Closed(acc).table = 0
           /\ Taken(Answer!Closed(acc)) = Taken(acc)
           /\ Answer!LinesOf(Answer!Closed(acc).blocks) = Taken(acc)
  <1>1. acc.blocks \in Seq(Block) /\ acc.code \in Seq(Line) /\ Answer!LinesOf(acc.blocks) \in Seq(Line)
    BY LinesType DEF Reader
  <1> DEFINE new == [kind |-> "code", lines |-> acc.code]
             closed == IF acc.code = <<>> THEN acc.blocks ELSE Append(acc.blocks, new)
  <1>2. Answer!Closed(acc) = [fenced |-> FALSE, code |-> <<>>, table |-> 0, blocks |-> closed]
    BY DEF Answer!Closed
  <1>3. new \in Block /\ new.lines = acc.code
    BY <1>1 DEF Block
  <1>4. closed \in Seq(Block)
    BY <1>1, <1>3
  <1>5. Answer!LinesOf(closed) = Taken(acc)
    <2>1. CASE acc.code = <<>>
      BY <2>1, <1>1, ConcatEmptySeq DEF Taken
    <2>2. CASE acc.code # <<>>
      <3>1. Answer!LinesOf(Append(acc.blocks, new)) = Answer!LinesOf(acc.blocks) \o new.lines
        <4> HIDE DEF new
        <4> QED
          BY <1>1, <1>3, LinesAppend
      <3> QED
        BY <2>2, <3>1 DEF Taken
    <2> QED
      BY <2>1, <2>2
  <1> HIDE DEF closed
  <1>6. Answer!LinesOf(closed) \o <<>> = Answer!LinesOf(closed)
    <2>1. Answer!LinesOf(closed) \in Seq(Line)
      BY <1>4, LinesType
    <2> QED
      BY <2>1, ConcatEmptySeq
  <1>7. 0 <= MaxRows + 1
    BY OwnerAssumption
  <1>8. <<>> \in Seq(Line) /\ 0 \in Nat
    OBVIOUS
  <1>9. Answer!Closed(acc) \in Reader
    BY <1>2, <1>4, <1>8 DEF Reader
  <1>10. Readable(Answer!Closed(acc))
    BY <1>2, <1>7 DEF Readable
  <1>11. /\ Answer!Closed(acc).table = 0 /\ Answer!Closed(acc).code = <<>>
         /\ Answer!Closed(acc).blocks = closed
    BY <1>2
  <1>12. Taken(Answer!Closed(acc)) = Taken(acc)
    <2>1. Taken(Answer!Closed(acc)) = Answer!LinesOf(closed) \o <<>>
      BY <1>11 DEF Taken
    <2> QED
      BY <1>5, <1>6, <2>1
  <1> QED
    BY <1>5, <1>9, <1>10, <1>11, <1>12

\* What a line adds to what has been taken, and to the rows of a table.
LEMMA ReadLineKeeps ==
    ASSUME NEW acc \in Reader, Readable(acc), NEW line \in Line
    PROVE  LET next == Answer!ReadLine(acc, line)
           IN  /\ next \in Reader /\ Readable(next)
               /\ Taken(next) = IF Silent(acc, line) THEN Taken(acc) ELSE Taken(acc) \o <<line>>
               /\ next.table = IF ~ IsRow(acc, line) THEN 0
                               ELSE IF acc.table > MaxRows THEN acc.table ELSE acc.table + 1
  <1> DEFINE next == Answer!ReadLine(acc, line)
             L == Answer!LinesOf(acc.blocks)
  <1>1. /\ acc.blocks \in Seq(Block) /\ acc.code \in Seq(Line) /\ L \in Seq(Line)
        /\ acc.table \in Nat /\ MaxRows \in Nat /\ acc.fenced \in BOOLEAN
        /\ <<line>> \in Seq(Line) /\ Taken(acc) \in Seq(Line)
    <2>1. acc.blocks \in Seq(Block) /\ acc.code \in Seq(Line) /\ L \in Seq(Line)
      BY LinesType DEF Reader
    <2>2. Taken(acc) \in Seq(Line)
      BY <2>1 DEF Taken
    <2> QED
      BY <2>1, <2>2, OwnerAssumption DEF Reader
  <1>2. ~ acc.fenced => acc.code = <<>> /\ Taken(acc) = L /\ L \o <<>> = L /\ (L \o <<line>>) \o <<>> = L \o <<line>>
    <2>1. L \o <<line>> \in Seq(Line)
      BY <1>1
    <2> HIDE DEF L
    <2> QED
      BY <1>1, <2>1, ConcatEmptySeq DEF Readable, Taken, L
  <1> HIDE DEF L
  <1>3. CASE acc.fenced /\ line.kind = "fence"
    BY <1>3, ClosedKeeps DEF Answer!ReadLine, Silent, IsRow
  <1>4. CASE acc.fenced /\ line.kind # "fence"
    <2>1. next = [acc EXCEPT !.code = Append(@, line)] /\ ~ Silent(acc, line) /\ ~ IsRow(acc, line)
      BY <1>4 DEF Answer!ReadLine, Silent, IsRow
    <2>2. /\ next \in Reader /\ next.blocks = acc.blocks /\ next.code = Append(acc.code, line)
          /\ next.fenced /\ next.table = acc.table /\ acc.table = 0
      <3>1. Append(acc.code, line) \in Seq(Line)
        BY <1>1
      <3> QED
        BY <2>1, <3>1, <1>4 DEF Reader, Readable
    <2>3. L \o Append(acc.code, line) = (L \o acc.code) \o <<line>>
      BY <1>1
    <2>4. Taken(next) = Taken(acc) \o <<line>>
      <3> HIDE DEF next
      <3> QED
        BY <2>2, <2>3 DEF Taken, L
    <2>5. Readable(next)
      <3> HIDE DEF next
      <3> QED
        BY <2>2, <1>1 DEF Readable
    <2> QED
      BY <2>1, <2>2, <2>4, <2>5
  <1>5. CASE IsRow(acc, line) /\ acc.table > MaxRows
    <2>1. next = acc /\ Silent(acc, line)
      BY <1>5 DEF Answer!ReadLine, Answer!TableRow, Silent, IsRow
    <2> QED
      BY <1>5, <2>1
  <1>6. CASE IsRow(acc, line) /\ ~ (acc.table > MaxRows)
    <2> DEFINE blocks == Answer!WithBlock(acc.blocks, "list", line)
    <2>1. next = [fenced |-> acc.fenced, code |-> acc.code, table |-> acc.table + 1, blocks |-> blocks]
      BY <1>6 DEF Answer!ReadLine, Answer!TableRow, IsRow, Reader
    <2>2. blocks \in Seq(Block) /\ Answer!LinesOf(blocks) = L \o <<line>>
      BY <1>1, WithBlockKeeps DEF L
    <2> HIDE DEF blocks
    <2>3. /\ next \in Reader /\ next.blocks = blocks /\ next.code = acc.code
          /\ next.fenced = acc.fenced /\ next.table = acc.table + 1
      BY <1>1, <2>1, <2>2 DEF Reader
    <2>4. ~ acc.fenced /\ ~ Silent(acc, line)
      BY <1>6 DEF IsRow, Silent
    <2> HIDE DEF next
    <2>5. Taken(next) = Taken(acc) \o <<line>>
      BY <1>2, <2>2, <2>3, <2>4 DEF Taken
    <2>6. Readable(next)
      BY <1>1, <1>2, <1>6, <2>3, <2>4 DEF Readable
    <2> QED
      BY <1>6, <2>3, <2>4, <2>5, <2>6 DEF next
  <1>7. CASE ~ acc.fenced /\ ~ IsRow(acc, line)
    <2> DEFINE blocks == Answer!Rendered(acc.blocks, line)
               opens  == line.kind = "fence"
    <2>1. next = [fenced |-> opens, code |-> acc.code, table |-> 0, blocks |-> blocks]
      BY <1>7 DEF Answer!ReadLine, IsRow, Reader
    <2>2. /\ blocks \in Seq(Block)
          /\ Answer!LinesOf(blocks) = IF Silent(acc, line) THEN L ELSE L \o <<line>>
      BY <1>1, <1>7, RenderedKeeps DEF L, Silent
    <2>3. opens \in BOOLEAN
      OBVIOUS
    <2> HIDE DEF blocks, opens
    <2>4. next \in Reader /\ next.blocks = blocks /\ next.code = acc.code /\ next.table = 0
      BY <1>1, <2>1, <2>2, <2>3 DEF Reader
    <2> HIDE DEF next
    <2>5. Taken(next) = IF Silent(acc, line) THEN Taken(acc) ELSE Taken(acc) \o <<line>>
      BY <1>2, <1>7, <2>2, <2>4 DEF Taken
    <2>6. Readable(next)
      BY <1>1, <1>2, <1>7, <2>4 DEF Readable
    <2> QED
      BY <1>7, <2>4, <2>5, <2>6 DEF next
  <1>8. ~ acc.fenced \/ line.kind = "fence" \/ line.kind # "fence"
    OBVIOUS
  <1> QED
    BY <1>3, <1>4, <1>5, <1>6, <1>7 DEF IsRow

\* What has been read of an answer, from one line to the next.
LEMMA ReadTrace ==
    ASSUME NEW lines \in Seq(Line)
    PROVE  \E t \in [0..Len(lines) -> Reader] :
              /\ t[0] = Answer!Unread
              /\ \A k \in 0..Len(lines) - 1 : t[k + 1] = Answer!ReadLine(t[k], lines[k + 1])
              /\ \A k \in 0..Len(lines) : Readable(t[k])
              /\ Answer!Blocks(lines) = Answer!Closed(t[Len(lines)]).blocks
  <1> DEFINE A == {acc \in Reader : Readable(acc)}
             n == Len(lines)
             G == [x \in A \X (1..n) |-> Answer!ReadLine(x[1], lines[x[2]])]
  <1>1. n \in Nat /\ DOMAIN lines = 1..n /\ \A i \in 1..n : lines[i] \in Line
    OBVIOUS
  <1>2. Answer!Unread \in A
    <2>1. <<>> \in Seq(Line) /\ <<>> \in Seq(Block) /\ 0 <= MaxRows + 1
      BY OwnerAssumption
    <2> QED
      BY <2>1 DEF Answer!Unread, Reader, Readable
  <1>3. G \in [A \X (1..n) -> A]
    BY <1>1, ReadLineKeeps
  <1> HIDE DEF A, n
  <1>4. \A a \in A, i \in 1..n : G[<<a, i>>] = Answer!ReadLine(a, lines[i])
    OBVIOUS
  <1> HIDE DEF G
  <1>5. PICK t \in [0..n -> A] : Traces(t, Answer!Unread, G, n)
    BY <1>1, <1>2, <1>3, TraceExists
  <1>6. PICK f \in [SUBSET (1..n) -> A] : Folds(f, Answer!Unread, G, n)
    BY <1>1, <1>2, <1>3, FoldExists
  <1>7. t[0] = Answer!Unread /\ \A k \in 0..n - 1 : t[k + 1] = Answer!ReadLine(t[k], lines[k + 1])
    <2>1. ASSUME NEW k \in 0..n - 1
          PROVE  G[<<t[k], k + 1>>] = Answer!ReadLine(t[k], lines[k + 1])
      <3>1. k \in 0..n /\ k + 1 \in 1..n
        BY <1>1
      <3> QED
        BY <1>4, <3>1
    <2> QED
      BY <1>5, <2>1 DEF Traces
  <1> DEFINE F(g) == [s \in SUBSET (DOMAIN lines) |->
                        IF s = {} THEN Answer!Unread
                        ELSE Answer!ReadLine(g[s \ {Answer!Max(s)}], lines[Answer!Max(s)])]
             iter == CHOOSE g : g = F(g)
  <1>8. f = F(f)
    <2>1. ASSUME NEW s \in SUBSET (1..n), s # {}
          PROVE  f[s] = Answer!ReadLine(f[s \ {Answer!Max(s)}], lines[Answer!Max(s)])
      <3>1. Answer!Max(s) \in 1..n /\ s \ {Answer!Max(s)} \in SUBSET (1..n)
        BY <1>1, <2>1, MaxOfInterval
      <3> QED
        BY <1>4, <1>6, <2>1, <3>1 DEF Folds
    <2>2. {} \in SUBSET (1..n) /\ f[{}] = Answer!Unread
      BY <1>6 DEF Folds
    <2> QED
      BY <1>1, <2>1, <2>2
  <1>9. iter = F(iter)
    <2> HIDE DEF F
    <2> QED
      BY <1>8
  <1> HIDE DEF iter
  <1>10. iter[1..n] = t[n]
    <2>1. iter[{}] = t[0]
      <3>1. {} \in SUBSET (1..n)
        OBVIOUS
      <3> QED
        BY <3>1, <1>1, <1>7, <1>9
    <2>2. ASSUME NEW k \in 0..n - 1, iter[1..k] = t[k] PROVE iter[1..k + 1] = t[k + 1]
      <3>1. /\ 1..k + 1 \in SUBSET (1..n) /\ k + 1 \in 1..k + 1
            /\ (1..k + 1) \ {k + 1} = 1..k /\ 1..k + 1 # {}
        BY <1>1
      <3>2. Answer!Max(1..k + 1) = k + 1
        BY <3>1, MaxIsTop
      <3>3. iter[1..k + 1] = Answer!ReadLine(iter[1..k], lines[k + 1])
        BY <1>1, <1>9, <3>1, <3>2
      <3> QED
        BY <1>7, <2>2, <3>3
    <2> QED
      BY <1>1, <2>1, <2>2, SameWay
  <1>11. Answer!Blocks(lines) = Answer!Closed(iter[DOMAIN lines]).blocks
    BY DEF Answer!Blocks, Answer!FoldLeft, Answer!MapThenFoldSet, iter, Answer!Unread
  <1> QED
    BY <1>1, <1>7, <1>10, <1>11 DEF A, n

LEMMA BlocksType ==
    ASSUME NEW lines \in Seq(Line)
    PROVE  Answer!Blocks(lines) \in Seq(Block)
  <1> DEFINE n == Len(lines)
  <1>1. PICK t \in [0..n -> Reader] : Answer!Blocks(lines) = Answer!Closed(t[n]).blocks
    BY ReadTrace
  <1>2. n \in 0..n
    OBVIOUS
  <1> HIDE DEF n
  <1>3. Answer!Closed(t[n]) \in Reader
    BY <1>2, ClosedKeeps
  <1> QED
    BY <1>1, <1>3 DEF Reader

-----------------------------------------------------------------------------
(* What is told of an answer.                                              *)

Numbered == text \in Seq(Line) /\ \A i \in 1..Len(text) : text[i].no = i

\* s has lines after the lo-th up to the hi-th, each once and in their order, and
\* leaves out only what is spared.
Inside(s, lo, hi) ==
    /\ s \in Seq(Line)
    /\ \A j \in 1..Len(s) : s[j].no \in lo + 1..hi /\ s[j] = text[s[j].no]
    /\ \A i, j \in 1..Len(s) : i < j => s[i].no < s[j].no
Covers(s, lo, hi) ==
    \A i \in lo + 1..hi : Answer!Spared(i) \/ \E j \in 1..Len(s) : s[j] = text[i]
Tells(s, lo, hi) == Inside(s, lo, hi) /\ Covers(s, lo, hi)

LEMMA TellsNothing ==
    ASSUME NEW lo \in Nat
    PROVE  Tells(<<>>, lo, lo)
  <1>1. <<>> \in Seq(Line) /\ 1..Len(<<>>) = {}
    OBVIOUS
  <1> QED
    BY <1>1 DEF Tells, Inside, Covers

LEMMA TellsConcat ==
    ASSUME NEW lo \in Nat, NEW mid \in Nat, NEW hi \in Nat, lo <= mid, mid <= hi,
           NEW s, NEW r, Tells(s, lo, mid), Tells(r, mid, hi)
    PROVE  Tells(s \o r, lo, hi)
  <1> DEFINE all == s \o r
             n == Len(s)
             m == Len(r)
  <1>1. /\ s \in Seq(Line) /\ r \in Seq(Line) /\ all \in Seq(Line) /\ n \in Nat /\ m \in Nat
        /\ Len(all) = n + m
        /\ \A j \in 1..n : all[j] = s[j]
        /\ \A j \in 1..m : all[n + j] = r[j]
    BY ConcatProperties DEF Tells, Inside
  <1> HIDE DEF all, n, m
  <1>2. /\ \A j \in 1..n : s[j].no \in lo + 1..mid /\ s[j] = text[s[j].no]
        /\ \A i, j \in 1..n : i < j => s[i].no < s[j].no
        /\ \A i \in lo + 1..mid : Answer!Spared(i) \/ \E j \in 1..n : s[j] = text[i]
    BY DEF Tells, Inside, Covers, n
  <1>3. /\ \A j \in 1..m : r[j].no \in mid + 1..hi /\ r[j] = text[r[j].no]
        /\ \A i, j \in 1..m : i < j => r[i].no < r[j].no
        /\ \A i \in mid + 1..hi : Answer!Spared(i) \/ \E j \in 1..m : r[j] = text[i]
    BY DEF Tells, Inside, Covers, m
  <1>4. ASSUME NEW j \in 1..n + m
        PROVE  \/ j \in 1..n /\ all[j] = s[j]
               \/ j - n \in 1..m /\ all[j] = r[j - n]
    <2>1. CASE j <= n
      BY <1>1, <2>1
    <2>2. CASE j > n
      <3>1. j - n \in 1..m /\ n + (j - n) = j
        BY <1>1, <2>2
      <3> QED
        BY <1>1, <3>1
    <2> QED
      BY <1>1, <2>1, <2>2
  <1>5. ASSUME NEW j \in 1..n + m
        PROVE  all[j].no \in lo + 1..hi /\ all[j] = text[all[j].no]
    BY <1>2, <1>3, <1>4
  <1>6. ASSUME NEW i \in 1..n + m, NEW j \in 1..n + m, i < j
        PROVE  all[i].no < all[j].no
    <2>1. CASE i \in 1..n /\ j \in 1..n /\ all[i] = s[i] /\ all[j] = s[j]
      BY <2>1, <1>2, <1>6
    <2>2. CASE i \in 1..n /\ j - n \in 1..m /\ all[i] = s[i] /\ all[j] = r[j - n]
      <3>1. s[i].no \in lo + 1..mid /\ r[j - n].no \in mid + 1..hi
        BY <2>2, <1>2, <1>3
      <3> QED
        BY <2>2, <3>1
    <2>3. CASE i - n \in 1..m /\ j - n \in 1..m /\ all[i] = r[i - n] /\ all[j] = r[j - n]
      <3>1. i - n < j - n
        BY <1>1, <1>6
      <3> QED
        BY <2>3, <3>1, <1>3
    <2>4. ~ (i - n \in 1..m /\ j \in 1..n)
      BY <1>1, <1>6
    <2> QED
      BY <2>1, <2>2, <2>3, <2>4, <1>4
  <1>7. ASSUME NEW i \in lo + 1..hi
        PROVE  Answer!Spared(i) \/ \E j \in 1..n + m : all[j] = text[i]
    <2>1. CASE i \in lo + 1..mid
      <3>1. SUFFICES ASSUME NEW j \in 1..n, s[j] = text[i] PROVE \E k \in 1..n + m : all[k] = text[i]
        BY <2>1, <1>2
      <3>2. j \in 1..n + m
        BY <1>1, <3>1
      <3>3. all[j] = s[j]
        BY <1>1, <3>1
      <3> QED
        BY <3>1, <3>2, <3>3
    <2>2. CASE i \in mid + 1..hi
      <3>1. SUFFICES ASSUME NEW j \in 1..m, r[j] = text[i] PROVE \E k \in 1..n + m : all[k] = text[i]
        BY <2>2, <1>3
      <3>2. n + j \in 1..n + m
        BY <1>1, <3>1
      <3>3. all[n + j] = r[j]
        BY <1>1, <3>1
      <3> QED
        BY <3>1, <3>2, <3>3
    <2> QED
      BY <2>1, <2>2
  <1> QED
    BY <1>1, <1>5, <1>6, <1>7 DEF Tells, Inside, Covers, all

\* One line more, that is told or that is spared.
LEMMA TellsLine ==
    ASSUME Numbered, NEW lo \in Nat, NEW i \in Nat, lo <= i, i < Len(text),
           NEW s, Tells(s, lo, i)
    PROVE  Tells(s \o <<text[i + 1]>>, lo, i + 1)
  <1> DEFINE line == text[i + 1]
             one  == <<line>>
  <1>1. Len(text) \in Nat /\ i + 1 \in 1..Len(text) /\ line \in Line /\ line.no = i + 1
    BY DEF Numbered
  <1>2. one \in Seq(Line) /\ Len(one) = 1 /\ one[1] = line
    BY <1>1
  <1>3. Tells(one, i, i + 1)
    <2> HIDE DEF one
    <2>1. 1..1 = {1} /\ (i + 1)..(i + 1) = {i + 1}
      OBVIOUS
    <2>2. Inside(one, i, i + 1)
      BY <1>1, <1>2, <2>1 DEF Inside
    <2>3. Covers(one, i, i + 1)
      BY <1>1, <1>2, <2>1 DEF Covers
    <2> QED
      BY <2>2, <2>3 DEF Tells
  <1> HIDE DEF one
  <1>4. i + 1 \in Nat /\ i <= i + 1
    OBVIOUS
  <1>5. Tells(s \o one, lo, i + 1)
    BY <1>3, <1>4, TellsConcat
  <1> QED
    BY <1>5 DEF one

LEMMA TellsSpared ==
    ASSUME NEW lo \in Nat, NEW i \in Nat, lo <= i, NEW s, Tells(s, lo, i), Answer!Spared(i + 1)
    PROVE  Tells(s, lo, i + 1)
  <1>1. \A k \in lo + 1..i + 1 : k \in lo + 1..i \/ k = i + 1
    OBVIOUS
  <1>2. \A k \in lo + 1..i : k \in lo + 1..i + 1
    OBVIOUS
  <1>3. Inside(s, lo, i + 1)
    BY <1>2 DEF Tells, Inside
  <1>4. Covers(s, lo, i + 1)
    BY <1>1 DEF Tells, Covers
  <1> QED
    BY <1>3, <1>4 DEF Tells

\* The rows of the table that is being read are the lines just before.
RowsBefore(acc, i) ==
    acc.table <= i /\ \A j \in i - acc.table + 1..i : text[j].kind \in Answer!Rowlike

LEMMA ReadsOn ==
    ASSUME Numbered, NEW lo \in Nat, NEW i \in Nat, lo <= i, i < Len(text),
           NEW acc \in Reader, Readable(acc), Tells(Taken(acc), lo, i), RowsBefore(acc, i)
    PROVE  LET next == Answer!ReadLine(acc, text[i + 1])
           IN  Tells(Taken(next), lo, i + 1) /\ RowsBefore(next, i + 1)
  <1> DEFINE line == text[i + 1]
             next == Answer!ReadLine(acc, line)
  <1>1. Len(text) \in Nat /\ i + 1 \in 1..Len(text) /\ line \in Line /\ acc.table \in Nat /\ MaxRows \in Nat
    <2>1. Len(text) \in Nat /\ i + 1 \in 1..Len(text) /\ line \in Line
      BY DEF Numbered
    <2>2. acc.table \in Nat /\ MaxRows \in Nat
      BY OwnerAssumption DEF Reader
    <2> QED
      BY <2>1, <2>2
  <1>2. /\ Taken(next) = IF Silent(acc, line) THEN Taken(acc) ELSE Taken(acc) \o <<line>>
        /\ next.table = IF ~ IsRow(acc, line) THEN 0
                        ELSE IF acc.table > MaxRows THEN acc.table ELSE acc.table + 1
    BY <1>1, ReadLineKeeps
  <1>3. ASSUME IsRow(acc, line)
        PROVE  \A j \in i - acc.table + 1..i + 1 : text[j].kind \in Answer!Rowlike
    <2>1. line.kind \in Answer!Rowlike
      BY <1>3 DEF IsRow, Answer!Rowlike
    <2>2. \A j \in i - acc.table + 1..i + 1 : j \in i - acc.table + 1..i \/ j = i + 1
      BY <1>1
    <2> QED
      BY <2>1, <2>2 DEF RowsBefore
  <1>4. Tells(Taken(next), lo, i + 1)
    <2>1. CASE ~ Silent(acc, line)
      <3>1. Tells(Taken(acc) \o <<text[i + 1]>>, lo, i + 1)
        BY TellsLine
      <3> QED
        BY <1>2, <2>1, <3>1
    <2>2. CASE Silent(acc, line)
      <3>1. CASE line.kind \in {"fence", "rule"}
        <4>1. Answer!Spared(i + 1)
          BY <3>1 DEF Answer!Spared
        <4>2. Tells(Taken(acc), lo, i + 1)
          BY <4>1, TellsSpared
        <4> QED
          BY <1>2, <2>2, <4>2
      <3>2. CASE IsRow(acc, line) /\ acc.table > MaxRows
        <4>1. acc.table = MaxRows + 1 /\ acc.table <= i
          BY <1>1, <3>2 DEF Readable, RowsBefore
        <4>2. i + 1 > MaxRows + 1 /\ (i + 1) - MaxRows - 1 = i - acc.table + 1
          BY <1>1, <4>1
        <4>3. Answer!Spared(i + 1)
          BY <1>3, <3>2, <4>2 DEF Answer!Spared
        <4>4. Tells(Taken(acc), lo, i + 1)
          BY <4>3, TellsSpared
        <4> QED
          BY <1>2, <2>2, <4>4
      <3> QED
        BY <2>2, <3>1, <3>2 DEF Silent
    <2> QED
      BY <2>1, <2>2
  <1>5. RowsBefore(next, i + 1)
    <2> HIDE DEF next
    <2>1. CASE ~ IsRow(acc, line)
      <3>1. next.table = 0 /\ (i + 1) - 0 + 1..i + 1 = {}
        BY <1>2, <2>1
      <3> QED
        BY <3>1 DEF RowsBefore
    <2>2. CASE IsRow(acc, line)
      <3>1. /\ next.table \in Nat /\ next.table <= acc.table + 1 /\ acc.table <= i
        BY <1>1, <1>2, <2>2 DEF RowsBefore
      <3>2. next.table <= i + 1 /\ \A j \in (i + 1) - next.table + 1..i + 1 : j \in i - acc.table + 1..i + 1
        BY <1>1, <3>1
      <3> QED
        BY <1>3, <2>2, <3>2 DEF RowsBefore
    <2> QED
      BY <2>1, <2>2
  <1> QED
    BY <1>4, <1>5

\* c is what the answer says after its lo-th line.
Cut(c, lo) ==
    /\ c \in Seq(Line) /\ lo + Len(c) <= Len(text)
    /\ \A p \in 1..Len(c) : c[p] = text[lo + p]

\* The blocks of a piece of the answer tell all of it but what is spared.
LEMMA BlocksTell ==
    ASSUME Numbered, NEW lo \in Nat, NEW c, Cut(c, lo)
    PROVE  /\ Answer!Blocks(c) \in Seq(Block)
           /\ Tells(Answer!LinesOf(Answer!Blocks(c)), lo, lo + Len(c))
  <1> DEFINE n == Len(c)
  <1>1. c \in Seq(Line) /\ n \in Nat /\ lo + n <= Len(text) /\ Len(text) \in Nat /\ \A i \in 1..n : c[i] = text[lo + i]
    BY DEF Cut, Numbered
  <1>2. PICK t \in [0..n -> Reader] :
              /\ t[0] = Answer!Unread
              /\ \A k \in 0..n - 1 : t[k + 1] = Answer!ReadLine(t[k], c[k + 1])
              /\ \A k \in 0..n : Readable(t[k])
              /\ Answer!Blocks(c) = Answer!Closed(t[n]).blocks
    BY <1>1, ReadTrace
  <1> HIDE DEF n
  <1> DEFINE Told(k) == Tells(Taken(t[k]), lo, lo + k) /\ RowsBefore(t[k], lo + k)
             T == {k \in Nat : k <= n => Told(k)}
  <1>3. Told(0)
    <2>1. Taken(t[0]) = <<>> /\ t[0].table = 0
      BY <1>2, LinesEmpty, ConcatEmptySeq DEF Answer!Unread, Taken
    <2>2. lo + 0 = lo /\ lo - 0 + 1..lo = {}
      OBVIOUS
    <2>3. Tells(<<>>, lo, lo)
      BY TellsNothing
    <2>4. RowsBefore(t[0], lo)
      BY <2>1, <2>2 DEF RowsBefore
    <2> QED
      BY <2>1, <2>2, <2>3, <2>4
  <1>4. ASSUME NEW k \in Nat, k + 1 <= n, Told(k) PROVE Told(k + 1)
    <2>1. /\ k \in 0..n - 1 /\ k \in 0..n /\ k + 1 \in 1..n /\ lo + k \in Nat
          /\ lo <= lo + k /\ lo + k < Len(text) /\ (lo + k) + 1 = lo + (k + 1)
      BY <1>1, <1>4
    <2>2. t[k] \in Reader /\ Readable(t[k]) /\ t[k + 1] = Answer!ReadLine(t[k], text[(lo + k) + 1])
      BY <1>1, <1>2, <2>1
    <2> DEFINE i == lo + k
               acc == t[k]
    <2>3. Tells(Taken(acc), lo, i) /\ RowsBefore(acc, i)
      BY <1>4
    <2>4. i \in Nat /\ lo <= i /\ i < Len(text) /\ acc \in Reader /\ Readable(acc)
      BY <2>1, <2>2
    <2> HIDE DEF i, acc
    <2>5. LET next == Answer!ReadLine(acc, text[i + 1])
          IN  Tells(Taken(next), lo, i + 1) /\ RowsBefore(next, i + 1)
      BY <2>3, <2>4, ReadsOn
    <2> QED
      BY <2>1, <2>2, <2>5 DEF i, acc
  <1> HIDE DEF Told
  <1>5. 0 \in T /\ \A k \in Nat : k \in T => k + 1 \in T
    BY <1>3, <1>4, <1>1
  <1> HIDE DEF T
  <1>6. n \in T
    BY <1>1, <1>5, NatSetInduction
  <1>7. Tells(Taken(t[n]), lo, lo + n)
    BY <1>1, <1>6 DEF T, Told
  <1>8. t[n] \in Reader
    BY <1>1, <1>2
  <1>9. Answer!Closed(t[n]) \in Reader /\ Answer!LinesOf(Answer!Closed(t[n]).blocks) = Taken(t[n])
    BY <1>8, ClosedKeeps
  <1> QED
    BY <1>2, <1>7, <1>9 DEF Reader, n

-----------------------------------------------------------------------------
(* Pages.                                                                  *)

LEMMA MinOfTwo ==
    ASSUME NEW x \in Nat, NEW y \in Nat
    PROVE  Answer!Min({x, y}) = IF x <= y THEN x ELSE y
  <1>1. \E m \in {x, y} : \A z \in {x, y} : m <= z
    OBVIOUS
  <1> QED
    BY <1>1 DEF Answer!Min

\* The pieces _split_block makes reach the end and no piece is empty.
LEMMA Cuts ==
    ASSUME NEW len \in Nat, NEW size \in Nat \ {0}
    PROVE  LET pieces == (len + size - 1) \div size
           IN  /\ pieces \in Nat /\ len <= pieces * size
               /\ \A i \in Nat : i < pieces => i * size < len
  <1> DEFINE q == (len + size - 1) \div size
             a == len + size - 1
  <1>1. a \in Nat
    OBVIOUS
  <1>2. q \in Nat /\ q * size <= a /\ a < q * size + size
    BY <1>1
  <1> HIDE DEF q
  <1>3. q * size \in Nat /\ len <= q * size
    BY <1>2
  <1>4. ASSUME NEW i \in Nat, i < q PROVE i * size < len
    <2>1. (i + 1) * size = i * size + size /\ i * size \in Nat
      OBVIOUS
    <2>2. (i + 1) * size <= q * size
      BY <1>2, <1>4
    <2> QED
      BY <1>2, <1>3, <2>1, <2>2
  <1> QED
    BY <1>2, <1>3, <1>4 DEF q

\* A block that is cut is its pieces, none of them larger than a page.
LEMMA SplitWhole ==
    ASSUME NEW b \in Block
    PROVE  /\ Answer!SplitBlock(b) \in Seq(Block)
           /\ \A i \in 1..Len(Answer!SplitBlock(b)) : Len(Answer!SplitBlock(b)[i].lines) <= PageSize
           /\ Answer!LinesOf(Answer!SplitBlock(b)) = b.lines
  <1>0. CASE Len(b.lines) <= PageSize
    <2>1. Answer!SplitBlock(b) = <<b>> /\ <<b>> \in Seq(Block) /\ Len(<<b>>) = 1 /\ <<b>>[1] = b
      BY <1>0 DEF Answer!SplitBlock
    <2>2. Answer!LinesOf(<<b>>) = b.lines
      BY LinesOfOne
    <2> QED
      BY <1>0, <2>1, <2>2
  <1> SUFFICES ASSUME ~ (Len(b.lines) <= PageSize)
               PROVE  /\ Answer!SplitBlock(b) \in Seq(Block)
                      /\ \A i \in 1..Len(Answer!SplitBlock(b)) : Len(Answer!SplitBlock(b)[i].lines) <= PageSize
                      /\ Answer!LinesOf(Answer!SplitBlock(b)) = b.lines
    BY <1>0
  <1> DEFINE l == b.lines
             L == Len(l)
             N == (L + PageSize - 1) \div PageSize
             upto(i) == IF i * PageSize <= L THEN i * PageSize ELSE L
             cut == Answer!SplitBlock(b)
             texts == TextsOf(cut)
  <1>1. PageSize \in Nat \ {0} /\ l \in Seq(Line) /\ L \in Nat /\ b.kind # "divider"
    <2>1. PageSize \in Nat \ {0} /\ l \in Seq(Line) /\ L \in Nat
      BY OwnerAssumption DEF Block
    <2>2. L # 0
      BY <2>1
    <2> QED
      BY <2>1, <2>2 DEF Block
  <1>2. N \in Nat /\ L <= N * PageSize /\ \A i \in Nat : i < N => i * PageSize < L
    BY <1>1, Cuts
  <1>3. cut = [i \in 1..N |-> [b EXCEPT !.lines = SubSeq(@, (i - 1) * PageSize + 1, Answer!Min({i * PageSize, Len(@)}))]]
    BY DEF Answer!SplitBlock
  <1> HIDE DEF l, L, N, cut
  <1>4. ASSUME NEW i \in 1..N
        PROVE  /\ (i - 1) * PageSize \in Nat /\ (i - 1) * PageSize < L
               /\ i * PageSize = (i - 1) * PageSize + PageSize /\ i * PageSize \in Nat
               /\ upto(i - 1) = (i - 1) * PageSize
               /\ upto(i) \in Nat /\ upto(i) <= L /\ upto(i) <= upto(i - 1) + PageSize /\ upto(i - 1) <= upto(i)
    <2>1. i - 1 \in Nat /\ i - 1 < N /\ i \in Nat
      BY <1>2
    <2>2. (i - 1) * PageSize \in Nat /\ i * PageSize \in Nat /\ i * PageSize = (i - 1) * PageSize + PageSize
      BY <1>1, <2>1
    <2>3. (i - 1) * PageSize < L
      BY <1>2, <2>1
    <2> QED
      BY <1>1, <2>2, <2>3
  <1>5. ASSUME NEW i \in 1..N
        PROVE  cut[i] = [b EXCEPT !.lines = SubSeq(l, upto(i - 1) + 1, upto(i))]
    BY <1>1, <1>3, <1>4, MinOfTwo DEF l, L
  <1> HIDE DEF upto
  <1>6. ASSUME NEW i \in 1..N
        PROVE  /\ cut[i] \in Block /\ cut[i].lines = SubSeq(l, upto(i - 1) + 1, upto(i))
               /\ Len(cut[i].lines) <= PageSize
    <2>0. ASSUME NEW j \in upto(i - 1) + 1..upto(i) PROVE j \in 1..L
      <3>1. upto(i - 1) \in Nat /\ upto(i) <= L /\ upto(i) \in Nat
        BY <1>4
      <3> QED
        BY <1>1, <3>1
    <2>1. \A j \in upto(i - 1) + 1..upto(i) : l[j] \in Line
      BY <1>1, <2>0 DEF L
    <2>2. /\ SubSeq(l, upto(i - 1) + 1, upto(i)) \in Seq(Line)
          /\ Len(SubSeq(l, upto(i - 1) + 1, upto(i))) <= PageSize
      BY <1>1, <1>4, <2>1, SubSeqProperties
    <2> QED
      BY <1>1, <1>5, <2>2 DEF Block
  <1>7. cut \in Seq(Block) /\ Len(cut) = N
    <2>1. DOMAIN cut = 1..N /\ cut = [i \in 1..N |-> cut[i]]
      BY <1>3
    <2>2. cut \in [1..N -> Block]
      <3>1. \A i \in 1..N : cut[i] \in Block
        BY <1>6
      <3> QED
        BY <2>1, <3>1
    <2> QED
      BY <1>2, <2>2
  <1>8. Answer!LinesOf(cut) = l
    <2>1. texts \in Seq(Seq(Line)) /\ Len(texts) = N /\ \A i \in 1..N : texts[i] = cut[i].lines
      BY <1>7, TextsOfPage
    <2> HIDE DEF texts
    <2>2. PICK t \in [0..Len(texts) -> Seq(Line)] :
              /\ t[0] = <<>>
              /\ \A k \in 0..Len(texts) - 1 : t[k + 1] = t[k] \o texts[k + 1]
              /\ t[Len(texts)] = Answer!FlattenSeq(texts)
      BY <2>1, FlattenTrace
    <2> DEFINE Same(k) == t[k] = SubSeq(l, 1, upto(k))
               T == {k \in Nat : k <= N => Same(k)}
    <2>3. Same(0)
      <3>1. upto(0) = 0
        BY <1>1 DEF upto
      <3> QED
        BY <1>1, <2>2, <3>1, SubSeqEmpty
    <2>4. ASSUME NEW k \in Nat, k + 1 <= N, Same(k) PROVE Same(k + 1)
      <3>1. k \in 0..N - 1 /\ k + 1 \in 1..N /\ (k + 1) - 1 = k
        BY <1>2, <2>4
      <3>2. t[k + 1] = SubSeq(l, 1, upto(k)) \o SubSeq(l, upto(k) + 1, upto(k + 1))
        BY <1>6, <2>1, <2>2, <2>4, <3>1
      <3>3. upto(k) \in 0..L /\ upto(k + 1) \in upto(k)..L
        BY <1>1, <1>4, <3>1
      <3>4. SubSeq(l, 1, upto(k)) \o SubSeq(l, upto(k) + 1, upto(k + 1)) = SubSeq(l, 1, upto(k + 1))
        <4>1. 1 \in 1..Len(l) + 1 /\ upto(k) \in 1 - 1..Len(l) /\ upto(k + 1) \in upto(k)..Len(l)
          BY <1>1, <3>3 DEF L
        <4> QED
          BY <1>1, <4>1, ConcatAdjacentSubSeq
      <3> QED
        BY <3>2, <3>4
    <2> HIDE DEF Same
    <2>5. 0 \in T /\ \A k \in Nat : k \in T => k + 1 \in T
      BY <2>3, <2>4, <1>2
    <2> HIDE DEF T
    <2>6. N \in T
      BY <1>2, <2>5, NatSetInduction
    <2>7. t[N] = SubSeq(l, 1, upto(N))
      BY <1>2, <2>6 DEF T, Same
    <2>8. upto(N) = L
      BY <1>1, <1>2 DEF upto
    <2>9. SubSeq(l, 1, L) = l
      BY <1>1, SubSeqFull DEF L
    <2> QED
      BY <2>1, <2>2, <2>7, <2>8, <2>9, LinesAreFlat DEF texts
  <1> QED
    BY <1>6, <1>7, <1>8 DEF cut, l

Piece == {b \in Block : Len(b.lines) <= PageSize}

\* Cutting the blocks that are too large loses nothing.
LEMMA CutWhole ==
    ASSUME NEW blocks \in Seq(Block)
    PROVE  LET cut == Answer!FlattenSeq([i \in DOMAIN blocks |-> Answer!SplitBlock(blocks[i])])
           IN  cut \in Seq(Piece) /\ Answer!LinesOf(cut) = Answer!LinesOf(blocks)
  <1> DEFINE n  == Len(blocks)
             ss == [i \in DOMAIN blocks |-> Answer!SplitBlock(blocks[i])]
             texts == TextsOf(blocks)
  <1>1. n \in Nat /\ DOMAIN blocks = 1..n /\ \A i \in 1..n : blocks[i] \in Block
    OBVIOUS
  <1>2. ASSUME NEW b \in Block PROVE Answer!SplitBlock(b) \in Seq(Piece)
    <2> DEFINE cut == Answer!SplitBlock(b)
    <2>1. cut \in Seq(Block) /\ \A i \in 1..Len(cut) : Len(cut[i].lines) <= PageSize
      BY SplitWhole
    <2> HIDE DEF cut
    <2>2. \A i \in 1..Len(cut) : cut[i] \in Piece
      BY <2>1 DEF Piece
    <2>3. cut \in Seq(Piece)
      BY <2>1, <2>2
    <2> QED
      BY <2>3 DEF cut
  <1>3. ss \in Seq(Seq(Piece)) /\ Len(ss) = n /\ \A i \in 1..n : ss[i] = Answer!SplitBlock(blocks[i])
    BY <1>1, <1>2
  <1>4. texts \in Seq(Seq(Line)) /\ Len(texts) = n /\ \A i \in 1..n : texts[i] = blocks[i].lines
    BY TextsOfPage
  <1> HIDE DEF n, ss, texts
  <1>5. PICK c \in [0..Len(ss) -> Seq(Piece)] :
              /\ c[0] = <<>>
              /\ \A k \in 0..Len(ss) - 1 : c[k + 1] = c[k] \o ss[k + 1]
              /\ c[Len(ss)] = Answer!FlattenSeq(ss)
    BY <1>3, FlattenTrace
  <1>6. PICK t \in [0..Len(texts) -> Seq(Line)] :
              /\ t[0] = <<>>
              /\ \A k \in 0..Len(texts) - 1 : t[k + 1] = t[k] \o texts[k + 1]
              /\ t[Len(texts)] = Answer!FlattenSeq(texts)
    BY <1>4, FlattenTrace
  <1> DEFINE Same(k) == Answer!LinesOf(c[k]) = t[k]
             T == {k \in Nat : k <= n => Same(k)}
  <1>7. Same(0)
    BY <1>5, <1>6, LinesEmpty
  <1>8. ASSUME NEW k \in Nat, k + 1 <= n, Same(k) PROVE Same(k + 1)
    <2>1. k \in 0..n - 1 /\ k \in 0..n /\ k + 1 \in 1..n
      BY <1>1, <1>8
    <2>2. c[k + 1] = c[k] \o Answer!SplitBlock(blocks[k + 1])
      BY <1>3, <1>5, <2>1
    <2>3. c[k] \in Seq(Block)
      <3>1. c[k] \in Seq(Piece)
        BY <1>3, <1>5, <2>1
      <3> QED
        BY <3>1, SeqMonotonic DEF Piece
    <2>4. blocks[k + 1] \in Block
      BY <1>1, <2>1
    <2>5. Answer!SplitBlock(blocks[k + 1]) \in Seq(Block)
      BY <2>4, SplitWhole
    <2>6. Answer!LinesOf(c[k + 1]) = Answer!LinesOf(c[k]) \o Answer!LinesOf(Answer!SplitBlock(blocks[k + 1]))
      BY <2>2, <2>3, <2>5, LinesConcat
    <2>7. Answer!LinesOf(Answer!SplitBlock(blocks[k + 1])) = texts[k + 1]
      BY <1>4, <2>1, <2>4, SplitWhole
    <2>8. t[k + 1] = t[k] \o texts[k + 1]
      BY <1>4, <1>6, <2>1
    <2> QED
      BY <1>8, <2>6, <2>7, <2>8
  <1> HIDE DEF Same
  <1>9. 0 \in T /\ \A k \in Nat : k \in T => k + 1 \in T
    BY <1>7, <1>8, <1>1
  <1> HIDE DEF T
  <1>10. n \in T
    BY <1>1, <1>9, NatSetInduction
  <1>11. Answer!LinesOf(c[n]) = t[n]
    BY <1>1, <1>10 DEF T, Same
  <1>12. Answer!LinesOf(blocks) = Answer!FlattenSeq(texts)
    BY LinesAreFlat DEF texts
  <1>13. Answer!FlattenSeq(ss) \in Seq(Piece)
    BY <1>3, FlattenType
  <1> QED
    BY <1>3, <1>4, <1>5, <1>6, <1>11, <1>12, <1>13 DEF ss

LEMMA SizeTrace ==
    ASSUME NEW page \in Seq(Block)
    PROVE  \E t \in [0..Len(page) -> Nat] :
              /\ t[0] = 0
              /\ \A k \in 0..Len(page) - 1 : t[k + 1] = t[k] + Len(page[k + 1].lines)
              /\ Answer!Size(page) = t[Len(page)] + Len(page) - 1
  <1> DEFINE n == Len(page)
             G == [x \in Nat \X (1..n) |-> x[1] + Len(page[x[2]].lines)]
  <1>1. n \in Nat /\ DOMAIN page = 1..n /\ \A i \in 1..n : Len(page[i].lines) \in Nat
    <2>1. ASSUME NEW i \in 1..n PROVE Len(page[i].lines) \in Nat
      <3>1. page[i] \in Block
        OBVIOUS
      <3>2. page[i].lines \in Seq(Line)
        BY <3>1 DEF Block
      <3> QED
        BY <3>2
    <2> QED
      BY <2>1
  <1>3. G \in [Nat \X (1..n) -> Nat]
    BY <1>1
  <1> HIDE DEF n
  <1>4. \A a \in Nat, i \in 1..n : G[<<a, i>>] = a + Len(page[i].lines)
    OBVIOUS
  <1> HIDE DEF G
  <1>5. PICK t \in [0..n -> Nat] : Traces(t, 0, G, n)
    BY <1>1, <1>3, TraceExists
  <1>6. PICK f \in [SUBSET (1..n) -> Nat] : Folds(f, 0, G, n)
    BY <1>1, <1>3, FoldExists
  <1>7. t[0] = 0 /\ \A k \in 0..n - 1 : t[k + 1] = t[k] + Len(page[k + 1].lines)
    <2>1. ASSUME NEW k \in 0..n - 1
          PROVE  G[<<t[k], k + 1>>] = t[k] + Len(page[k + 1].lines)
      <3>1. k \in 0..n /\ k + 1 \in 1..n
        BY <1>1
      <3> QED
        BY <1>4, <3>1
    <2> QED
      BY <1>5, <2>1 DEF Traces
  <1> DEFINE F(g) == [s \in SUBSET (DOMAIN page) |->
                        IF s = {} THEN 0
                        ELSE g[s \ {Answer!Max(s)}] + Len(page[Answer!Max(s)].lines)]
             iter == CHOOSE g : g = F(g)
  <1>8. f = F(f)
    <2>1. ASSUME NEW s \in SUBSET (1..n), s # {}
          PROVE  f[s] = f[s \ {Answer!Max(s)}] + Len(page[Answer!Max(s)].lines)
      <3>1. Answer!Max(s) \in 1..n /\ s \ {Answer!Max(s)} \in SUBSET (1..n)
        BY <1>1, <2>1, MaxOfInterval
      <3> QED
        BY <1>4, <1>6, <2>1, <3>1 DEF Folds
    <2>2. {} \in SUBSET (1..n) /\ f[{}] = 0
      BY <1>6 DEF Folds
    <2> QED
      BY <1>1, <2>1, <2>2
  <1>9. iter = F(iter)
    <2> HIDE DEF F
    <2> QED
      BY <1>8
  <1> HIDE DEF iter
  <1>10. iter[1..n] = t[n]
    <2>1. iter[{}] = t[0]
      <3>1. {} \in SUBSET (1..n)
        OBVIOUS
      <3> QED
        BY <3>1, <1>1, <1>7, <1>9
    <2>2. ASSUME NEW k \in 0..n - 1, iter[1..k] = t[k] PROVE iter[1..k + 1] = t[k + 1]
      <3>1. /\ 1..k + 1 \in SUBSET (1..n) /\ k + 1 \in 1..k + 1
            /\ (1..k + 1) \ {k + 1} = 1..k /\ 1..k + 1 # {}
        BY <1>1
      <3>2. Answer!Max(1..k + 1) = k + 1
        BY <3>1, MaxIsTop
      <3>3. iter[1..k + 1] = iter[1..k] + Len(page[k + 1].lines)
        BY <1>1, <1>9, <3>1, <3>2
      <3> QED
        BY <1>7, <2>2, <3>3
    <2> QED
      BY <1>1, <2>1, <2>2, SameWay
  <1>11. Answer!Size(page) = iter[DOMAIN page] + Len(page) - 1
    BY DEF Answer!Size, Answer!FoldLeft, Answer!MapThenFoldSet, iter
  <1> QED
    BY <1>1, <1>7, <1>10, <1>11 DEF n

LEMMA SizeType ==
    ASSUME NEW page \in Seq(Block)
    PROVE  Answer!Size(page) \in Int
  BY SizeTrace

LEMMA SizeOfOne ==
    ASSUME NEW b \in Block
    PROVE  Answer!Size(<<b>>) = Len(b.lines)
  <1> DEFINE page == <<b>>
  <1>1. page \in Seq(Block) /\ Len(page) = 1 /\ page[1] = b /\ Len(b.lines) \in Nat
    BY DEF Block
  <1> HIDE DEF page
  <1>2. PICK t \in [0..Len(page) -> Nat] :
              /\ t[0] = 0
              /\ \A k \in 0..Len(page) - 1 : t[k + 1] = t[k] + Len(page[k + 1].lines)
              /\ Answer!Size(page) = t[Len(page)] + Len(page) - 1
    BY <1>1, SizeTrace
  <1>3. t[1] = Len(b.lines)
    <2>1. 0 \in 0..Len(page) - 1 /\ 0 + 1 = 1
      BY <1>1
    <2> QED
      BY <1>1, <1>2, <2>1
  <1> QED
    BY <1>1, <1>2, <1>3 DEF page

\* The lines of some pages, one page after the other.
RowsOf(bunch)     == [i \in DOMAIN bunch |-> Answer!LinesOf(bunch[i])]
LinesOfAll(bunch) == Answer!FlattenSeq(RowsOf(bunch))

LEMMA RowsOfBunch ==
    ASSUME NEW bunch \in Seq(Seq(Block))
    PROVE  /\ RowsOf(bunch) \in Seq(Seq(Line)) /\ Len(RowsOf(bunch)) = Len(bunch)
           /\ \A i \in 1..Len(bunch) : RowsOf(bunch)[i] = Answer!LinesOf(bunch[i])
  <1> DEFINE n    == Len(bunch)
             lists == RowsOf(bunch)
  <1>1. n \in Nat /\ DOMAIN bunch = 1..n /\ \A i \in 1..n : bunch[i] \in Seq(Block)
    OBVIOUS
  <1> HIDE DEF n
  <1>2. \A i \in 1..n : Answer!LinesOf(bunch[i]) \in Seq(Line)
    BY <1>1, LinesType
  <1>3. lists \in [1..n -> Seq(Line)] /\ \A i \in 1..n : lists[i] = Answer!LinesOf(bunch[i])
    BY <1>1, <1>2 DEF RowsOf
  <1> HIDE DEF lists
  <1>4. lists \in Seq(Seq(Line)) /\ Len(lists) = n
    BY <1>1, <1>3, FunctionIsSeq
  <1> QED
    BY <1>3, <1>4 DEF lists, n

LEMMA LinesOfAllConcat ==
    ASSUME NEW p \in Seq(Seq(Block)), NEW q \in Seq(Seq(Block))
    PROVE  LinesOfAll(p \o q) = LinesOfAll(p) \o LinesOfAll(q)
  <1> DEFINE all == p \o q
             u   == RowsOf(all)
             v   == RowsOf(p) \o RowsOf(q)
  <1>1. /\ all \in Seq(Seq(Block)) /\ Len(all) = Len(p) + Len(q) /\ Len(p) \in Nat /\ Len(q) \in Nat
        /\ \A i \in 1..Len(p) : all[i] = p[i]
        /\ \A i \in 1..Len(q) : all[Len(p) + i] = q[i]
    BY ConcatProperties
  <1> HIDE DEF all
  <1>2. /\ RowsOf(p) \in Seq(Seq(Line)) /\ Len(RowsOf(p)) = Len(p)
        /\ \A i \in 1..Len(p) : RowsOf(p)[i] = Answer!LinesOf(p[i])
        /\ RowsOf(q) \in Seq(Seq(Line)) /\ Len(RowsOf(q)) = Len(q)
        /\ \A i \in 1..Len(q) : RowsOf(q)[i] = Answer!LinesOf(q[i])
    BY RowsOfBunch
  <1>3. /\ v \in Seq(Seq(Line)) /\ Len(v) = Len(p) + Len(q)
        /\ \A i \in 1..Len(p) : v[i] = RowsOf(p)[i]
        /\ \A i \in 1..Len(q) : v[Len(p) + i] = RowsOf(q)[i]
    <2> DEFINE x == RowsOf(p)
               y == RowsOf(q)
    <2>1. x \in Seq(Seq(Line)) /\ y \in Seq(Seq(Line)) /\ Len(x) = Len(p) /\ Len(y) = Len(q)
      BY <1>2
    <2> HIDE DEF x, y
    <2>2. /\ x \o y \in Seq(Seq(Line)) /\ Len(x \o y) = Len(x) + Len(y)
          /\ \A i \in 1..Len(x) : (x \o y)[i] = x[i]
          /\ \A i \in 1..Len(y) : (x \o y)[Len(x) + i] = y[i]
      <3>1. x \o y \in Seq(Seq(Line)) /\ Len(x \o y) = Len(x) + Len(y)
        BY <2>1, ConcatProperties
      <3>2. \A i \in 1..Len(x) : (x \o y)[i] = x[i]
        BY <2>1, ConcatProperties
      <3>3. \A i \in 1..Len(y) : (x \o y)[Len(x) + i] = y[i]
        BY <2>1, ConcatProperties
      <3> QED
        BY <3>1, <3>2, <3>3
    <2> QED
      BY <2>1, <2>2 DEF x, y
  <1>4. u \in Seq(Seq(Line)) /\ Len(u) = Len(all) /\ \A i \in 1..Len(all) : u[i] = Answer!LinesOf(all[i])
    BY <1>1, RowsOfBunch
  <1> HIDE DEF u, v
  <1>5. ASSUME NEW i \in 1..Len(u) PROVE u[i] = v[i]
    <2>1. CASE i <= Len(p)
      <3>1. i \in 1..Len(p) /\ i \in 1..Len(all)
        BY <1>1, <1>4, <2>1
      <3> QED
        BY <1>1, <1>2, <1>3, <1>4, <3>1
    <2>2. CASE i > Len(p)
      <3>1. i - Len(p) \in 1..Len(q) /\ i \in 1..Len(all) /\ Len(p) + (i - Len(p)) = i
        BY <1>1, <1>4, <2>2
      <3>2. all[i] = q[i - Len(p)] /\ v[i] = RowsOf(q)[i - Len(p)]
        BY <1>1, <1>3, <3>1
      <3> QED
        BY <1>2, <1>4, <3>1, <3>2
    <2> QED
      BY <1>1, <1>4, <2>1, <2>2
  <1>6. u = v
    BY <1>1, <1>3, <1>4, <1>5, SeqEqual
  <1>7. Answer!FlattenSeq(RowsOf(p) \o RowsOf(q)) = Answer!FlattenSeq(RowsOf(p)) \o Answer!FlattenSeq(RowsOf(q))
    BY <1>2, FlattenConcat
  <1> QED
    BY <1>6, <1>7 DEF LinesOfAll, u, v, all

LEMMA LinesOfAllAppend ==
    ASSUME NEW bunch \in Seq(Seq(Block)), NEW page \in Seq(Block)
    PROVE  /\ LinesOfAll(bunch) \in Seq(Line)
           /\ LinesOfAll(Append(bunch, page)) = LinesOfAll(bunch) \o Answer!LinesOf(page)
  <1>1. Append(bunch, page) = bunch \o <<page>> /\ <<page>> \in Seq(Seq(Block))
    BY AppendIsConcat
  <1>2. LinesOfAll(bunch \o <<page>>) = LinesOfAll(bunch) \o LinesOfAll(<<page>>)
    BY <1>1, LinesOfAllConcat
  <1>3. RowsOf(<<page>>) = <<Answer!LinesOf(page)>>
    BY DEF RowsOf
  <1>4. LinesOfAll(<<page>>) = Answer!LinesOf(page)
    BY <1>3, LinesType, FlattenSingle DEF LinesOfAll
  <1>5. LinesOfAll(bunch) \in Seq(Line)
    BY RowsOfBunch, FlattenType DEF LinesOfAll
  <1> QED
    BY <1>1, <1>2, <1>4, <1>5

Packer == [pages : Seq(Seq(Block)), page : Seq(Block)]

\* No page is larger than a message, and neither is the one that is being filled.
Fits(acc) ==
    /\ \A i \in 1..Len(acc.pages) : Answer!Size(acc.pages[i]) <= PageSize
    /\ acc.page # <<>> => Answer!Size(acc.page) <= PageSize

Packed(acc) == LinesOfAll(acc.pages) \o Answer!LinesOf(acc.page)

\* A block is put at the end of what is packed, and no page grows past its size.
LEMMA AddBlockKeeps ==
    ASSUME NEW acc \in Packer, Fits(acc), NEW b \in Piece
    PROVE  /\ Answer!AddBlock(acc, b) \in Packer /\ Fits(Answer!AddBlock(acc, b))
           /\ Packed(Answer!AddBlock(acc, b)) = Packed(acc) \o b.lines
  <1> DEFINE next == Answer!AddBlock(acc, b)
             all  == LinesOfAll(acc.pages)
             here == Answer!LinesOf(acc.page)
  <1>1. /\ acc.pages \in Seq(Seq(Block)) /\ acc.page \in Seq(Block) /\ b \in Block
        /\ b.lines \in Seq(Line) /\ Len(b.lines) <= PageSize /\ PageSize \in Nat
        /\ all \in Seq(Line) /\ here \in Seq(Line)
    BY OwnerAssumption, LinesOfAllAppend, LinesType DEF Packer, Piece, Block
  <1> HIDE DEF all, here
  <1>2. (all \o here) \o b.lines = all \o (here \o b.lines)
    <2> DEFINE l == b.lines
    <2>1. l \in Seq(Line)
      BY <1>1
    <2> HIDE DEF l
    <2>2. (all \o here) \o l = all \o (here \o l)
      BY <1>1, <2>1
    <2> QED
      BY <2>2 DEF l
  <1> DEFINE Dropped == acc.page = <<>> /\ b.kind = "divider"
  <1>0. CASE Dropped
    <2>1. next = acc /\ b.lines = <<>>
      BY <1>0 DEF Answer!AddBlock, Piece, Block
    <2>2. all \o here \in Seq(Line)
      BY <1>1
    <2>3. Packed(acc) \o <<>> = Packed(acc)
      BY <2>2, ConcatEmptySeq DEF Packed, all, here
    <2> QED
      BY <2>1, <2>3
  <1>3. CASE /\ acc.page # <<>>
             /\ Answer!Opens(b, acc.page) \/ Answer!Size(Append(acc.page, b)) > PageSize
    <2>1. next = [pages |-> Append(acc.pages, acc.page), page |-> <<b>>]
      BY <1>3 DEF Answer!AddBlock
    <2> DEFINE filled == Append(acc.pages, acc.page)
    <2>2. /\ filled \in Seq(Seq(Block)) /\ Len(filled) = Len(acc.pages) + 1 /\ Len(acc.pages) \in Nat
          /\ filled[Len(acc.pages) + 1] = acc.page
          /\ \A i \in 1..Len(acc.pages) : filled[i] = acc.pages[i]
      BY <1>1, AppendProperties
    <2>3. LinesOfAll(filled) = all \o here
      BY <1>1, LinesOfAllAppend DEF all, here
    <2> HIDE DEF filled
    <2>4. \A i \in 1..Len(filled) : Answer!Size(filled[i]) <= PageSize
      BY <1>3, <2>2 DEF Fits
    <2>5. Answer!Size(<<b>>) <= PageSize /\ <<b>> \in Seq(Block)
      BY <1>1, SizeOfOne
    <2>6. Answer!LinesOf(<<b>>) = b.lines
      BY <1>1, LinesOfOne
    <2>7. next.pages = filled /\ next.page = <<b>> /\ next \in Packer
      BY <2>1, <2>2, <2>5 DEF Packer, filled
    <2> HIDE DEF next
    <2>8. Fits(next)
      BY <2>4, <2>5, <2>7 DEF Fits
    <2>9. Packed(next) = (all \o here) \o b.lines
      BY <2>3, <2>6, <2>7 DEF Packed
    <2> QED
      BY <2>7, <2>8, <2>9 DEF Packed, all, here, next
  <1>4. CASE ~ Dropped /\ ~ (/\ acc.page # <<>>
                             /\ Answer!Opens(b, acc.page) \/ Answer!Size(Append(acc.page, b)) > PageSize)
    <2> DEFINE page == Append(acc.page, b)
    <2>1. next = [acc EXCEPT !.page = page]
      BY <1>4 DEF Answer!AddBlock
    <2>2. page \in Seq(Block)
      BY <1>1
    <2>3. Answer!LinesOf(page) = here \o b.lines
      BY <1>1, LinesAppend DEF here
    <2>4. Answer!Size(page) <= PageSize
      <3>1. CASE acc.page = <<>>
        <4>1. page = <<b>>
          BY <1>1, <3>1
        <4> QED
          BY <1>1, <4>1, SizeOfOne
      <3>2. CASE acc.page # <<>>
        <4>1. ~ (Answer!Size(page) > PageSize)
          BY <1>4, <3>2
        <4> HIDE DEF page
        <4>2. Answer!Size(page) \in Int
          BY <2>2, SizeType
        <4> QED
          BY <1>1, <4>1, <4>2
      <3> QED
        BY <3>1, <3>2
    <2> HIDE DEF page
    <2>5. next.pages = acc.pages /\ next.page = page /\ next \in Packer
      BY <1>1, <2>1, <2>2 DEF Packer
    <2> HIDE DEF next
    <2>6. Fits(next)
      BY <2>4, <2>5 DEF Fits
    <2>7. Packed(next) = all \o (here \o b.lines)
      BY <2>3, <2>5 DEF Packed, all
    <2> QED
      BY <1>2, <2>5, <2>6, <2>7 DEF Packed, all, here, next
  <1> QED
    BY <1>0, <1>3, <1>4

Empty == [pages |-> <<>>, page |-> <<>>]

\* What has been packed, from one block to the next.
LEMMA PackTrace ==
    ASSUME NEW cut \in Seq(Piece)
    PROVE  \E t \in [0..Len(cut) -> Packer] :
              /\ t[0] = Empty
              /\ \A k \in 0..Len(cut) - 1 : t[k + 1] = Answer!AddBlock(t[k], cut[k + 1])
              /\ \A k \in 0..Len(cut) : Fits(t[k])
              /\ Answer!FoldLeft(Answer!AddBlock, Empty, cut) = t[Len(cut)]
  <1> DEFINE A == {acc \in Packer : Fits(acc)}
             n == Len(cut)
             G == [x \in A \X (1..n) |-> Answer!AddBlock(x[1], cut[x[2]])]
  <1>1. n \in Nat /\ DOMAIN cut = 1..n /\ \A i \in 1..n : cut[i] \in Piece
    OBVIOUS
  <1>2. Empty \in A
    BY DEF Empty, Packer, Fits
  <1>3. G \in [A \X (1..n) -> A]
    BY <1>1, AddBlockKeeps
  <1> HIDE DEF A, n
  <1>4. \A a \in A, i \in 1..n : G[<<a, i>>] = Answer!AddBlock(a, cut[i])
    OBVIOUS
  <1> HIDE DEF G
  <1>5. PICK t \in [0..n -> A] : Traces(t, Empty, G, n)
    BY <1>1, <1>2, <1>3, TraceExists
  <1>6. PICK f \in [SUBSET (1..n) -> A] : Folds(f, Empty, G, n)
    BY <1>1, <1>2, <1>3, FoldExists
  <1>7. t[0] = Empty /\ \A k \in 0..n - 1 : t[k + 1] = Answer!AddBlock(t[k], cut[k + 1])
    <2>1. ASSUME NEW k \in 0..n - 1
          PROVE  G[<<t[k], k + 1>>] = Answer!AddBlock(t[k], cut[k + 1])
      <3>1. k \in 0..n /\ k + 1 \in 1..n
        BY <1>1
      <3> QED
        BY <1>4, <3>1
    <2> QED
      BY <1>5, <2>1 DEF Traces
  <1> DEFINE F(g) == [s \in SUBSET (DOMAIN cut) |->
                        IF s = {} THEN Empty
                        ELSE Answer!AddBlock(g[s \ {Answer!Max(s)}], cut[Answer!Max(s)])]
             iter == CHOOSE g : g = F(g)
  <1>8. f = F(f)
    <2>1. ASSUME NEW s \in SUBSET (1..n), s # {}
          PROVE  f[s] = Answer!AddBlock(f[s \ {Answer!Max(s)}], cut[Answer!Max(s)])
      <3>1. Answer!Max(s) \in 1..n /\ s \ {Answer!Max(s)} \in SUBSET (1..n)
        BY <1>1, <2>1, MaxOfInterval
      <3> QED
        BY <1>4, <1>6, <2>1, <3>1 DEF Folds
    <2>2. {} \in SUBSET (1..n) /\ f[{}] = Empty
      BY <1>6 DEF Folds
    <2> QED
      BY <1>1, <2>1, <2>2
  <1>9. iter = F(iter)
    <2> HIDE DEF F
    <2> QED
      BY <1>8
  <1> HIDE DEF iter
  <1>10. iter[1..n] = t[n]
    <2>1. iter[{}] = t[0]
      <3>1. {} \in SUBSET (1..n)
        OBVIOUS
      <3> QED
        BY <3>1, <1>1, <1>7, <1>9
    <2>2. ASSUME NEW k \in 0..n - 1, iter[1..k] = t[k] PROVE iter[1..k + 1] = t[k + 1]
      <3>1. /\ 1..k + 1 \in SUBSET (1..n) /\ k + 1 \in 1..k + 1
            /\ (1..k + 1) \ {k + 1} = 1..k /\ 1..k + 1 # {}
        BY <1>1
      <3>2. Answer!Max(1..k + 1) = k + 1
        BY <3>1, MaxIsTop
      <3>3. iter[1..k + 1] = Answer!AddBlock(iter[1..k], cut[k + 1])
        BY <1>1, <1>9, <3>1, <3>2
      <3> QED
        BY <1>7, <2>2, <3>3
    <2> QED
      BY <1>1, <2>1, <2>2, SameWay
  <1>11. Answer!FoldLeft(Answer!AddBlock, Empty, cut) = iter[DOMAIN cut]
    BY DEF Answer!FoldLeft, Answer!MapThenFoldSet, iter
  <1> QED
    BY <1>1, <1>7, <1>10, <1>11 DEF A, n

LEMMA PackWhole ==
    ASSUME NEW cut \in Seq(Piece)
    PROVE  LET acc == Answer!FoldLeft(Answer!AddBlock, Empty, cut)
           IN  acc \in Packer /\ Fits(acc) /\ Packed(acc) = Answer!LinesOf(cut)
  <1> DEFINE n == Len(cut)
             texts == TextsOf(cut)
  <1>1. cut \in Seq(Block)
    BY SeqMonotonic DEF Piece
  <1>2. n \in Nat /\ DOMAIN cut = 1..n /\ \A i \in 1..n : cut[i] \in Piece
    OBVIOUS
  <1>3. texts \in Seq(Seq(Line)) /\ Len(texts) = n /\ \A i \in 1..n : texts[i] = cut[i].lines
    BY <1>1, TextsOfPage
  <1>4. Answer!LinesOf(cut) = Answer!FlattenSeq(texts)
    BY LinesAreFlat
  <1>5. PICK t \in [0..n -> Packer] :
              /\ t[0] = Empty
              /\ \A k \in 0..n - 1 : t[k + 1] = Answer!AddBlock(t[k], cut[k + 1])
              /\ \A k \in 0..n : Fits(t[k])
              /\ Answer!FoldLeft(Answer!AddBlock, Empty, cut) = t[n]
    BY PackTrace
  <1> HIDE DEF n, texts
  <1>6. PICK u \in [0..Len(texts) -> Seq(Line)] :
              /\ u[0] = <<>>
              /\ \A k \in 0..Len(texts) - 1 : u[k + 1] = u[k] \o texts[k + 1]
              /\ u[Len(texts)] = Answer!FlattenSeq(texts)
    BY <1>3, FlattenTrace
  <1> DEFINE Same(k) == Packed(t[k]) = u[k]
             T == {k \in Nat : k <= n => Same(k)}
  <1>7. Same(0)
    <2>1. LinesOfAll(<<>>) = <<>>
      BY FlattenEmpty DEF LinesOfAll, RowsOf
    <2> QED
      BY <1>5, <1>6, <2>1, LinesEmpty, ConcatEmptySeq DEF Empty, Packed
  <1>8. ASSUME NEW k \in Nat, k + 1 <= n, Same(k) PROVE Same(k + 1)
    <2>1. k \in 0..n - 1 /\ k \in 0..n /\ k + 1 \in 1..n
      BY <1>2, <1>8
    <2>2. Packed(t[k + 1]) = Packed(t[k]) \o cut[k + 1].lines
      BY <1>2, <1>5, <2>1, AddBlockKeeps
    <2>3. u[k + 1] = u[k] \o cut[k + 1].lines
      BY <1>3, <1>6, <2>1
    <2> QED
      BY <1>8, <2>2, <2>3
  <1> HIDE DEF Same
  <1>9. 0 \in T /\ \A k \in Nat : k \in T => k + 1 \in T
    BY <1>7, <1>8, <1>2
  <1> HIDE DEF T
  <1>10. n \in T
    BY <1>2, <1>9, NatSetInduction
  <1>11. Packed(t[n]) = u[n]
    BY <1>2, <1>10 DEF T, Same
  <1>12. t[n] \in Packer /\ Fits(t[n])
    BY <1>2, <1>5
  <1> QED
    BY <1>3, <1>4, <1>5, <1>6, <1>11, <1>12

\* The pages of some lines have what their blocks have, and none is larger than a
\* message.
LEMMA PagesAreWhole ==
    ASSUME NEW lines \in Seq(Line)
    PROVE  /\ Answer!BuildPages(lines) \in Seq(Seq(Block))
           /\ LinesOfAll(Answer!BuildPages(lines)) = Answer!LinesOf(Answer!Blocks(lines))
           /\ \A i \in 1..Len(Answer!BuildPages(lines)) : Answer!Size(Answer!BuildPages(lines)[i]) <= PageSize
  <1> DEFINE blocks == Answer!Blocks(lines)
             cut == Answer!FlattenSeq([i \in DOMAIN blocks |-> Answer!SplitBlock(blocks[i])])
             all == Answer!FoldLeft(Answer!AddBlock, Empty, cut)
             built == Answer!BuildPages(lines)
             more  == Append(all.pages, all.page)
  <1>1. blocks \in Seq(Block) /\ Answer!LinesOf(blocks) = Answer!LinesOf(Answer!Blocks(lines))
    BY BlocksType
  <1>2. built = IF all.page = <<>> THEN all.pages ELSE more
    BY DEF Answer!BuildPages, Empty
  <1> HIDE DEF blocks
  <1>3. cut \in Seq(Piece) /\ Answer!LinesOf(cut) = Answer!LinesOf(blocks)
    BY <1>1, CutWhole
  <1> HIDE DEF cut
  <1>4. all \in Packer /\ Fits(all) /\ Packed(all) = Answer!LinesOf(cut)
    BY <1>3, PackWhole
  <1> HIDE DEF all, built
  <1>5. all.pages \in Seq(Seq(Block)) /\ all.page \in Seq(Block)
    BY <1>4 DEF Packer
  <1>6. LinesOfAll(all.pages) \in Seq(Line) /\ LinesOfAll(more) = Packed(all)
    BY <1>5, LinesOfAllAppend DEF Packed
  <1>7. CASE all.page = <<>>
    <2>1. Packed(all) = LinesOfAll(all.pages)
      BY <1>6, <1>7, LinesEmpty, ConcatEmptySeq DEF Packed
    <2> QED
      BY <1>1, <1>2, <1>3, <1>4, <1>5, <1>7, <2>1 DEF Fits, built
  <1>8. CASE all.page # <<>>
    <2>1. /\ more \in Seq(Seq(Block)) /\ Len(more) = Len(all.pages) + 1 /\ Len(all.pages) \in Nat
          /\ more[Len(all.pages) + 1] = all.page
          /\ \A i \in 1..Len(all.pages) : more[i] = all.pages[i]
      BY <1>5, AppendProperties
    <2> HIDE DEF more
    <2>2. \A i \in 1..Len(more) : Answer!Size(more[i]) <= PageSize
      <3>1. ASSUME NEW i \in 1..Len(more) PROVE Answer!Size(more[i]) <= PageSize
        <4>1. i \in 1..Len(all.pages) \/ i = Len(all.pages) + 1
          BY <2>1
        <4>2. Answer!Size(all.page) <= PageSize
          BY <1>4, <1>8 DEF Fits
        <4>3. ASSUME i \in 1..Len(all.pages) PROVE Answer!Size(all.pages[i]) <= PageSize
          BY <1>4, <4>3 DEF Fits
        <4> QED
          BY <2>1, <4>1, <4>2, <4>3
      <3> QED
        BY <3>1
    <2> QED
      BY <1>1, <1>2, <1>3, <1>4, <1>6, <1>8, <2>1, <2>2 DEF built
  <1> QED
    BY <1>7, <1>8

-----------------------------------------------------------------------------
(* Delivery.                                                               *)

Fit(bunch) == \A i \in 1..Len(bunch) : Answer!Size(bunch[i]) <= PageSize

\* The pages of some sections, one section after the other.
PagesFrom(chunks) == Answer!FlattenSeq([i \in DOMAIN chunks |-> Answer!BuildPages(chunks[i])])

LEMMA PagesFromAppend ==
    ASSUME NEW chunks \in Seq(Seq(Line)), NEW c \in Seq(Line)
    PROVE  /\ PagesFrom(chunks) \in Seq(Seq(Block))
           /\ PagesFrom(Append(chunks, c)) = PagesFrom(chunks) \o Answer!BuildPages(c)
  <1> DEFINE n    == Len(chunks)
             ss   == [i \in DOMAIN chunks |-> Answer!BuildPages(chunks[i])]
             more == Append(chunks, c)
             rr   == [i \in DOMAIN more |-> Answer!BuildPages(more[i])]
             built == Answer!BuildPages(c)
  <1>1. n \in Nat /\ DOMAIN chunks = 1..n /\ \A i \in 1..n : chunks[i] \in Seq(Line)
    OBVIOUS
  <1>2. DOMAIN more = 1..n + 1 /\ more[n + 1] = c /\ \A i \in 1..n : more[i] = chunks[i]
    BY AppendProperties
  <1> HIDE DEF more, n
  <1>3. /\ \A i \in 1..n : Answer!BuildPages(chunks[i]) \in Seq(Seq(Block))
        /\ built \in Seq(Seq(Block))
    BY <1>1, PagesAreWhole
  <1>4. ss \in Seq(Seq(Seq(Block))) /\ Len(ss) = n /\ \A i \in 1..n : ss[i] = Answer!BuildPages(chunks[i])
    <2>1. ss \in [1..n -> Seq(Seq(Block))] /\ \A i \in 1..n : ss[i] = Answer!BuildPages(chunks[i])
      BY <1>1, <1>3
    <2> HIDE DEF ss
    <2>2. ss \in Seq(Seq(Seq(Block))) /\ Len(ss) = n
      BY <1>1, <2>1, FunctionIsSeq
    <2> QED
      BY <2>1, <2>2
  <1>5. rr = Append(ss, built)
    <2>1. \A i \in 1..n + 1 : rr[i] = IF i = n + 1 THEN built ELSE ss[i]
      BY <1>1, <1>2, <1>4
    <2> HIDE DEF built
    <2>2. rr \in Seq(Seq(Seq(Block))) /\ Len(rr) = n + 1
      <3>1. DOMAIN rr = 1..n + 1 /\ rr = [i \in 1..n + 1 |-> rr[i]]
        BY <1>2
      <3>2. ASSUME NEW i \in 1..n + 1 PROVE rr[i] \in Seq(Seq(Block))
        <4> HIDE DEF rr, ss
        <4>1. i = n + 1 \/ i \in 1..n
          BY <1>1
        <4>2. built \in Seq(Seq(Block))
          BY <1>3 DEF built
        <4> QED
          BY <1>3, <1>4, <2>1, <4>1, <4>2
      <3>3. n + 1 \in Nat
        BY <1>1
      <3> HIDE DEF rr
      <3>4. rr \in [1..n + 1 -> Seq(Seq(Block))]
        BY <3>1, <3>2
      <3> QED
        BY <3>3, <3>4, FunctionIsSeq
    <2> DEFINE app == Append(ss, built)
    <2> HIDE DEF ss, rr
    <2>3. app \in Seq(Seq(Seq(Block))) /\ Len(app) = n + 1
      BY <1>1, <1>3, <1>4
    <2>4. \A i \in 1..n + 1 : app[i] = IF i = n + 1 THEN built ELSE ss[i]
      BY <1>1, <1>3, <1>4
    <2> HIDE DEF app
    <2>5. rr = app
      BY <2>1, <2>2, <2>3, <2>4, SeqEqual
    <2> QED
      BY <2>5 DEF app
  <1> HIDE DEF built
  <1>6. Answer!FlattenSeq(rr) = Answer!FlattenSeq(ss) \o built
    <2> HIDE DEF ss, rr
    <2> QED
      BY <1>3, <1>4, <1>5, FlattenAppend
  <1>7. Answer!FlattenSeq(ss) \in Seq(Seq(Block))
    <2> HIDE DEF ss
    <2> QED
      BY <1>4, FlattenType
  <1> QED
    BY <1>6, <1>7 DEF PagesFrom, more, built

Sections == [chunks : Seq(Seq(Line)), buffer : Seq(Line), heading : Seq(Line)]
Whole    == [chunks |-> <<>>, buffer |-> <<>>, heading |-> <<>>]

LEMMA ReadSectionType ==
    ASSUME NEW acc \in Sections, NEW line \in Line
    PROVE  Answer!ReadSection(acc, line) \in Sections
  <1>1. /\ acc.chunks \in Seq(Seq(Line)) /\ acc.buffer \in Seq(Line) /\ acc.heading \in Seq(Line)
        /\ <<line>> \in Seq(Line)
    BY DEF Sections
  <1>2. /\ Append(acc.chunks, acc.buffer) \in Seq(Seq(Line))
        /\ acc.buffer \o acc.heading \o <<line>> \in Seq(Line)
    BY <1>1
  <1>3. CASE line.kind = "title"
    BY <1>1, <1>2, <1>3 DEF Answer!ReadSection, Sections
  <1>4. CASE line.kind # "title"
    <2>1. Answer!ReadSection(acc, line) =
            [acc EXCEPT !.buffer = acc.buffer \o acc.heading \o <<line>>, !.heading = <<>>]
      BY <1>4 DEF Answer!ReadSection, Sections
    <2>2. <<>> \in Seq(Line)
      OBVIOUS
    <2> QED
      BY <1>1, <1>2, <2>1, <2>2 DEF Sections
  <1> QED
    BY <1>3, <1>4

\* What the sections leave, from one line to the next.
LEMMA SectionTrace ==
    ASSUME NEW lines \in Seq(Line)
    PROVE  \E t \in [0..Len(lines) -> Sections] :
              /\ t[0] = Whole
              /\ \A k \in 0..Len(lines) - 1 : t[k + 1] = Answer!ReadSection(t[k], lines[k + 1])
              /\ LET all  == t[Len(lines)]
                     rest == all.buffer \o all.heading
                 IN  Answer!Chunks(lines) = IF rest = <<>> THEN all.chunks ELSE Append(all.chunks, rest)
  <1> DEFINE n == Len(lines)
             G == [x \in Sections \X (1..n) |-> Answer!ReadSection(x[1], lines[x[2]])]
  <1>1. n \in Nat /\ DOMAIN lines = 1..n /\ \A i \in 1..n : lines[i] \in Line
    OBVIOUS
  <1>2. Whole \in Sections
    BY DEF Whole, Sections
  <1>3. G \in [Sections \X (1..n) -> Sections]
    BY <1>1, ReadSectionType
  <1> HIDE DEF n
  <1>4. \A a \in Sections, i \in 1..n : G[<<a, i>>] = Answer!ReadSection(a, lines[i])
    OBVIOUS
  <1> HIDE DEF G
  <1>5. PICK t \in [0..n -> Sections] : Traces(t, Whole, G, n)
    BY <1>1, <1>2, <1>3, TraceExists
  <1>6. PICK f \in [SUBSET (1..n) -> Sections] : Folds(f, Whole, G, n)
    BY <1>1, <1>2, <1>3, FoldExists
  <1>7. t[0] = Whole /\ \A k \in 0..n - 1 : t[k + 1] = Answer!ReadSection(t[k], lines[k + 1])
    <2>1. ASSUME NEW k \in 0..n - 1
          PROVE  G[<<t[k], k + 1>>] = Answer!ReadSection(t[k], lines[k + 1])
      <3>1. k \in 0..n /\ k + 1 \in 1..n
        BY <1>1
      <3> QED
        BY <1>4, <3>1
    <2> QED
      BY <1>5, <2>1 DEF Traces
  <1> DEFINE F(g) == [s \in SUBSET (DOMAIN lines) |->
                        IF s = {} THEN Whole
                        ELSE Answer!ReadSection(g[s \ {Answer!Max(s)}], lines[Answer!Max(s)])]
             iter == CHOOSE g : g = F(g)
  <1>8. f = F(f)
    <2>1. ASSUME NEW s \in SUBSET (1..n), s # {}
          PROVE  f[s] = Answer!ReadSection(f[s \ {Answer!Max(s)}], lines[Answer!Max(s)])
      <3>1. Answer!Max(s) \in 1..n /\ s \ {Answer!Max(s)} \in SUBSET (1..n)
        BY <1>1, <2>1, MaxOfInterval
      <3> QED
        BY <1>4, <1>6, <2>1, <3>1 DEF Folds
    <2>2. {} \in SUBSET (1..n) /\ f[{}] = Whole
      BY <1>6 DEF Folds
    <2> QED
      BY <1>1, <2>1, <2>2
  <1>9. iter = F(iter)
    <2> HIDE DEF F
    <2> QED
      BY <1>8
  <1> HIDE DEF iter
  <1>10. iter[1..n] = t[n]
    <2>1. iter[{}] = t[0]
      <3>1. {} \in SUBSET (1..n)
        OBVIOUS
      <3> QED
        BY <3>1, <1>1, <1>7, <1>9
    <2>2. ASSUME NEW k \in 0..n - 1, iter[1..k] = t[k] PROVE iter[1..k + 1] = t[k + 1]
      <3>1. /\ 1..k + 1 \in SUBSET (1..n) /\ k + 1 \in 1..k + 1
            /\ (1..k + 1) \ {k + 1} = 1..k /\ 1..k + 1 # {}
        BY <1>1
      <3>2. Answer!Max(1..k + 1) = k + 1
        BY <3>1, MaxIsTop
      <3>3. iter[1..k + 1] = Answer!ReadSection(iter[1..k], lines[k + 1])
        BY <1>1, <1>9, <3>1, <3>2
      <3> QED
        BY <1>7, <2>2, <3>3
    <2> QED
      BY <1>1, <2>1, <2>2, SameWay
  <1> DEFINE all  == iter[DOMAIN lines]
             rest == all.buffer \o all.heading
  <1>11. Answer!Chunks(lines) = IF rest = <<>> THEN all.chunks ELSE Append(all.chunks, rest)
    BY DEF Answer!Chunks, Answer!FoldLeft, Answer!MapThenFoldSet, iter, Whole
  <1> QED
    BY <1>1, <1>7, <1>10, <1>11 DEF n

\* The pages of the sections ended so far tell the lines up to the lo-th, and the
\* section that is open has the lines after it.
Sectioned(acc, k) ==
    /\ acc \in Sections
    /\ acc.heading # <<>> => acc.buffer = <<>> /\ text[k].kind = "title"
    /\ \E lo \in 0..k :
         /\ Fit(PagesFrom(acc.chunks)) /\ Tells(LinesOfAll(PagesFrom(acc.chunks)), 0, lo)
         /\ Cut(acc.buffer \o acc.heading, lo) /\ Len(acc.buffer \o acc.heading) = k - lo
         /\ acc.heading # <<>> => lo = k - 1

\* A section more.
LEMMA SectionTells ==
    ASSUME Numbered, NEW chunks \in Seq(Seq(Line)), NEW lo \in Nat, NEW c, Cut(c, lo),
           Fit(PagesFrom(chunks)), Tells(LinesOfAll(PagesFrom(chunks)), 0, lo)
    PROVE  /\ Fit(PagesFrom(Append(chunks, c)))
           /\ Tells(LinesOfAll(PagesFrom(Append(chunks, c))), 0, lo + Len(c))
  <1> DEFINE p == PagesFrom(chunks)
             q == Answer!BuildPages(c)
             all == PagesFrom(Append(chunks, c))
  <1>1. c \in Seq(Line) /\ Len(c) \in Nat
    BY DEF Cut
  <1>2. p \in Seq(Seq(Block)) /\ all = p \o q
    BY <1>1, PagesFromAppend
  <1>3. /\ q \in Seq(Seq(Block)) /\ LinesOfAll(q) = Answer!LinesOf(Answer!Blocks(c))
        /\ \A i \in 1..Len(q) : Answer!Size(q[i]) <= PageSize
    BY <1>1, PagesAreWhole
  <1>4. Fit(p) /\ Tells(LinesOfAll(p), 0, lo)
    OBVIOUS
  <1> HIDE DEF p, q, all
  <1>5. Tells(LinesOfAll(q), lo, lo + Len(c))
    BY <1>3, BlocksTell
  <1>6. LinesOfAll(all) = LinesOfAll(p) \o LinesOfAll(q)
    BY <1>2, <1>3, LinesOfAllConcat
  <1>7. Tells(LinesOfAll(p) \o LinesOfAll(q), 0, lo + Len(c))
    <2>1. 0 <= lo /\ lo <= lo + Len(c) /\ lo + Len(c) \in Nat
      BY <1>1
    <2> QED
      BY <1>4, <1>5, <2>1, TellsConcat
  <1>8. Fit(all)
    <2>1. /\ Len(all) = Len(p) + Len(q) /\ Len(p) \in Nat /\ Len(q) \in Nat
          /\ \A i \in 1..Len(p) : all[i] = p[i]
          /\ \A i \in 1..Len(q) : all[Len(p) + i] = q[i]
      BY <1>2, <1>3, ConcatProperties
    <2>2. ASSUME NEW i \in 1..Len(all) PROVE Answer!Size(all[i]) <= PageSize
      <3>1. CASE i <= Len(p)
        BY <1>4, <2>1, <3>1 DEF Fit
      <3>2. CASE i > Len(p)
        <4>1. i - Len(p) \in 1..Len(q) /\ Len(p) + (i - Len(p)) = i
          BY <2>1, <3>2
        <4> QED
          BY <1>3, <2>1, <4>1
      <3> QED
        BY <2>1, <3>1, <3>2
    <2> QED
      BY <2>2 DEF Fit
  <1> QED
    BY <1>6, <1>7, <1>8 DEF all

LEMMA SectionsStart ==
    ASSUME Numbered
    PROVE  Sectioned(Whole, 0)
  <1>1. PagesFrom(<<>>) = <<>> /\ LinesOfAll(<<>>) = <<>>
    BY FlattenEmpty DEF PagesFrom, LinesOfAll, RowsOf
  <1>2. Whole \in Sections
    BY DEF Whole, Sections
  <1>3. Fit(<<>>)
    BY DEF Fit
  <1>4. Tells(<<>>, 0, 0)
    BY TellsNothing
  <1>5. <<>> \o <<>> = <<>> /\ Cut(<<>>, 0) /\ Len(<<>>) = 0
    BY DEF Cut, Numbered
  <1>6. Whole.chunks = <<>> /\ Whole.buffer = <<>> /\ Whole.heading = <<>>
    BY DEF Whole
  <1>7. 0 \in 0..0 /\ 0 - 0 = 0
    OBVIOUS
  <1>8. \E lo \in 0..0 :
         /\ Fit(PagesFrom(Whole.chunks)) /\ Tells(LinesOfAll(PagesFrom(Whole.chunks)), 0, lo)
         /\ Cut(Whole.buffer \o Whole.heading, lo) /\ Len(Whole.buffer \o Whole.heading) = 0 - lo
         /\ Whole.heading # <<>> => lo = 0 - 1
    <2> WITNESS 0 \in 0..0
    <2> QED
      BY <1>1, <1>3, <1>4, <1>5, <1>6, <1>7
  <1> QED
    BY <1>2, <1>6, <1>8 DEF Sectioned

LEMMA SectionsOn ==
    ASSUME Numbered, NEW k \in Nat, k < Len(text), NEW acc, Sectioned(acc, k)
    PROVE  Sectioned(Answer!ReadSection(acc, text[k + 1]), k + 1)
  <1> DEFINE line == text[k + 1]
             next == Answer!ReadSection(acc, line)
             open == acc.buffer \o acc.heading
             heard == LinesOfAll(PagesFrom(acc.chunks))
  <1>1. Len(text) \in Nat /\ k + 1 \in 1..Len(text) /\ line \in Line /\ line = text[k + 1] /\ text \in Seq(Line)
    BY DEF Numbered
  <1>2. /\ acc \in Sections
        /\ acc.chunks \in Seq(Seq(Line)) /\ acc.buffer \in Seq(Line) /\ acc.heading \in Seq(Line)
        /\ acc.heading # <<>> => acc.buffer = <<>> /\ text[k].kind = "title"
    BY DEF Sectioned, Sections
  <1>3. PICK lo \in 0..k :
         /\ Fit(PagesFrom(acc.chunks)) /\ Tells(heard, 0, lo)
         /\ Cut(open, lo) /\ Len(open) = k - lo
         /\ acc.heading # <<>> => lo = k - 1
    BY DEF Sectioned
  <1> HIDE DEF heard
  <1>4. next \in Sections
    BY <1>1, <1>2, ReadSectionType
  <1>5. /\ open \in Seq(Line) /\ lo \in Nat /\ lo + Len(open) = k
        /\ Len(open) \in Nat /\ \A p \in 1..Len(open) : open[p] = text[lo + p]
    <2> HIDE DEF open
    <2>1. open \in Seq(Line) /\ \A p \in 1..Len(open) : open[p] = text[lo + p]
      BY <1>3 DEF Cut
    <2> QED
      BY <1>3, <2>1
  <1>6. CASE line.kind # "title"
    <2>1. next = [acc EXCEPT !.buffer = open \o <<line>>, !.heading = <<>>]
      BY <1>6 DEF Answer!ReadSection
    <2> HIDE DEF open
    <2> DEFINE more == open \o <<line>>
    <2>2. /\ more \in Seq(Line) /\ Len(more) = Len(open) + 1 /\ more[Len(open) + 1] = line
          /\ \A p \in 1..Len(open) : more[p] = open[p]
      BY <1>1, <1>5
    <2> HIDE DEF more
    <2>3. Cut(more, lo)
      <3>1. ASSUME NEW p \in 1..Len(more) PROVE more[p] = text[lo + p]
        <4>1. p \in 1..Len(open) \/ (p = Len(open) + 1 /\ lo + p = k + 1)
          BY <1>5, <2>2
        <4> QED
          BY <1>1, <1>5, <2>2, <4>1
      <3>2. lo + Len(more) <= Len(text)
        BY <1>1, <1>5, <2>2
      <3> QED
        BY <2>2, <3>1, <3>2 DEF Cut
    <2>4. next.chunks = acc.chunks /\ next.buffer = more /\ next.heading = <<>>
      BY <1>2, <2>1 DEF Sections, more
    <2> HIDE DEF next
    <2>5. next.buffer \o next.heading = more
      BY <2>2, <2>4, ConcatEmptySeq
    <2>6. lo \in 0..k + 1 /\ Len(more) = (k + 1) - lo
      BY <1>3, <1>5, <2>2
    <2> QED
      BY <1>3, <1>4, <2>3, <2>4, <2>5, <2>6 DEF Sectioned, heard, next
  <1>7. CASE line.kind = "title"
    <2> DEFINE ended == IF acc.buffer = <<>> THEN acc.chunks ELSE Append(acc.chunks, acc.buffer)
    <2>1. next.chunks = ended /\ next.buffer = <<>> /\ next.heading = <<line>>
      BY <1>7 DEF Answer!ReadSection
    <2>2. Fit(PagesFrom(ended)) /\ Tells(LinesOfAll(PagesFrom(ended)), 0, k)
      <3>1. CASE acc.buffer # <<>>
        <4>1. acc.heading = <<>> /\ open = acc.buffer /\ ended = Append(acc.chunks, open)
          BY <1>2, <3>1, ConcatEmptySeq
        <4> HIDE DEF open, ended
        <4>2. /\ Fit(PagesFrom(Append(acc.chunks, open)))
              /\ Tells(LinesOfAll(PagesFrom(Append(acc.chunks, open))), 0, lo + Len(open))
          BY <1>2, <1>3, <1>5, SectionTells DEF heard
        <4> QED
          BY <1>5, <4>1, <4>2
      <3>2. CASE acc.buffer = <<>> /\ acc.heading = <<>>
        <4>1. open = <<>> /\ Len(<<>>) = 0
          BY <3>2, ConcatEmptySeq
        <4>2. lo = k
          BY <1>5, <4>1
        <4> QED
          BY <1>3, <3>2, <4>2 DEF heard
      <3>3. CASE acc.buffer = <<>> /\ acc.heading # <<>>
        <4>1. lo = k - 1 /\ lo + 1 = k /\ text[k].kind = "title" /\ k \in 1..Len(text)
          BY <1>1, <1>2, <1>3, <1>5, <3>3
        <4>2. Answer!Spared(lo + 1)
          BY <1>1, <1>7, <4>1 DEF Answer!Spared
        <4>3. Tells(heard, 0, lo + 1)
          BY <1>3, <1>5, <4>2, TellsSpared
        <4> QED
          BY <1>3, <3>3, <4>1, <4>3 DEF heard
      <3> QED
        BY <3>1, <3>2, <3>3
    <2> HIDE DEF ended
    <2>3. <<>> \o <<line>> = <<line>> /\ <<line>> \in Seq(Line) /\ Len(<<line>>) = 1 /\ <<line>>[1] = line
      BY <1>1, ConcatEmptySeq
    <2>4. Cut(<<line>>, k)
      BY <1>1, <2>3 DEF Cut
    <2>5. k \in 0..k + 1 /\ (k + 1) - k = 1 /\ k = (k + 1) - 1
      OBVIOUS
    <2> HIDE DEF next
    <2>6. text[k + 1].kind = "title"
      BY <1>7
    <2> HIDE DEF line
    <2>7. \E l \in 0..k + 1 :
            /\ Fit(PagesFrom(next.chunks)) /\ Tells(LinesOfAll(PagesFrom(next.chunks)), 0, l)
            /\ Cut(next.buffer \o next.heading, l) /\ Len(next.buffer \o next.heading) = (k + 1) - l
            /\ next.heading # <<>> => l = (k + 1) - 1
      BY <2>1, <2>2, <2>3, <2>4, <2>5
    <2>8. Sectioned(next, k + 1)
      BY <1>4, <2>1, <2>6, <2>7 DEF Sectioned
    <2> QED
      BY <2>8 DEF next, line
  <1> QED
    BY <1>6, <1>7

\* The pages of an answer tell all of it but what is spared, and fit a message.
LEMMA DeliveryTells ==
    ASSUME Numbered
    PROVE  /\ Answer!DeliveryPages(text) \in Seq(Seq(Block))
           /\ Fit(Answer!DeliveryPages(text))
           /\ Tells(LinesOfAll(Answer!DeliveryPages(text)), 0, Len(text))
  <1> DEFINE n == Len(text)
  <1>1. n \in Nat /\ text \in Seq(Line)
    BY DEF Numbered
  <1>2. PICK t \in [0..n -> Sections] :
              /\ t[0] = Whole
              /\ \A k \in 0..n - 1 : t[k + 1] = Answer!ReadSection(t[k], text[k + 1])
              /\ LET all  == t[n]
                     rest == all.buffer \o all.heading
                 IN  Answer!Chunks(text) = IF rest = <<>> THEN all.chunks ELSE Append(all.chunks, rest)
    BY <1>1, SectionTrace
  <1> DEFINE T == {k \in Nat : k <= n => Sectioned(t[k], k)}
  <1>3. Sectioned(t[0], 0)
    BY <1>2, SectionsStart
  <1>4. ASSUME NEW k \in Nat, k + 1 <= n, Sectioned(t[k], k) PROVE Sectioned(t[k + 1], k + 1)
    <2>1. k \in 0..n - 1 /\ k < Len(text)
      BY <1>1, <1>4
    <2> QED
      BY <1>2, <1>4, <2>1, SectionsOn
  <1>5. 0 \in T /\ \A k \in Nat : k \in T => k + 1 \in T
    <2> HIDE DEF n
    <2> QED
      BY <1>1, <1>3, <1>4
  <1> HIDE DEF T
  <1>6. n \in T
    BY <1>1, <1>5, NatSetInduction
  <1> DEFINE all  == t[n]
             rest == all.buffer \o all.heading
             chunks == Answer!Chunks(text)
  <1>7. Sectioned(all, n)
    BY <1>1, <1>6 DEF T
  <1>8. chunks = IF rest = <<>> THEN all.chunks ELSE Append(all.chunks, rest)
    BY <1>2
  <1>9. all.chunks \in Seq(Seq(Line)) /\ rest \in Seq(Line)
    <2>1. all \in Sections
      BY <1>7 DEF Sectioned
    <2> QED
      BY <2>1 DEF Sections
  <1> HIDE DEF chunks, n
  <1>10. PICK lo \in 0..n :
         /\ Fit(PagesFrom(all.chunks)) /\ Tells(LinesOfAll(PagesFrom(all.chunks)), 0, lo)
         /\ Cut(rest, lo) /\ Len(rest) = n - lo
    BY <1>7 DEF Sectioned
  <1> HIDE DEF all, rest
  <1>11. chunks \in Seq(Seq(Line))
    BY <1>8, <1>9
  <1>12. Fit(PagesFrom(chunks)) /\ Tells(LinesOfAll(PagesFrom(chunks)), 0, n)
    <2>1. CASE rest = <<>>
      <3>1. lo = n
        BY <1>1, <1>10, <2>1
      <3> QED
        BY <1>8, <1>10, <2>1, <3>1
    <2>2. CASE rest # <<>>
      <3>1. lo \in Nat /\ lo + Len(rest) = n
        BY <1>1, <1>10
      <3>2. /\ Fit(PagesFrom(Append(all.chunks, rest)))
            /\ Tells(LinesOfAll(PagesFrom(Append(all.chunks, rest))), 0, lo + Len(rest))
        BY <1>9, <1>10, <3>1, SectionTells
      <3> QED
        BY <1>8, <2>2, <3>1, <3>2
    <2> QED
      BY <2>1, <2>2
  <1>13. Answer!DeliveryPages(text) = PagesFrom(chunks)
    BY DEF Answer!DeliveryPages, PagesFrom, chunks
  <1>14. PagesFrom(chunks) \in Seq(Seq(Block))
    BY <1>11, <1>1, PagesFromAppend
  <1> QED
    BY <1>12, <1>13, <1>14 DEF n

Held(i) == Answer!ToSet(Answer!Numbers(Answer!LinesOf(Answer!Message(i))))

\* A page's lines are lines of the answer.
LEMMA HeldInText ==
    ASSUME Numbered, NEW i \in 1..Len(Answer!DeliveryPages(text)), i # 1
    PROVE  Held(i) \subseteq DOMAIN text
  <1> DEFINE bunch == Answer!DeliveryPages(text)
             ss    == RowsOf(bunch)
             lines == Answer!LinesOf(bunch[i])
  <1>1. bunch \in Seq(Seq(Block)) /\ Tells(LinesOfAll(bunch), 0, Len(text))
    BY DeliveryTells
  <1>2. Answer!Message(i) = bunch[i]
    BY DEF Answer!Message
  <1> HIDE DEF bunch
  <1>3. i \in 1..Len(bunch)
    BY DEF bunch
  <1>4. ss \in Seq(Seq(Line)) /\ Len(ss) = Len(bunch) /\ ss[i] = lines
    BY <1>1, <1>3, RowsOfBunch
  <1> HIDE DEF ss
  <1>5. lines \in Seq(Line)
    BY <1>1, <1>3, LinesType
  <1> HIDE DEF lines
  <1>6. ASSUME NEW j \in 1..Len(lines) PROVE lines[j].no \in DOMAIN text
    <2>1. PICK m \in 1..Len(Answer!FlattenSeq(ss)) : Answer!FlattenSeq(ss)[m] = lines[j]
      BY <1>3, <1>4, <1>6, FlattenHas
    <2>2. LinesOfAll(bunch)[m].no \in 0 + 1..Len(text) /\ m \in 1..Len(LinesOfAll(bunch))
      BY <1>1, <2>1 DEF Tells, Inside, LinesOfAll, ss
    <2>3. DOMAIN text = 1..Len(text)
      BY DEF Numbered
    <2> QED
      BY <2>1, <2>2, <2>3 DEF LinesOfAll, ss
  <1>7. DOMAIN lines = 1..Len(lines)
    BY <1>5
  <1>8. Held(i) = {lines[j].no : j \in 1..Len(lines)}
    BY <1>2, <1>7 DEF Held, Answer!ToSet, Answer!Numbers, lines
  <1> QED
    BY <1>6, <1>8

\* The page sent or left out is the next; what was refused is known as such; a file
\* that was sent has everything.
PagesInv ==
    /\ Numbered
    /\ sending \in 0..Answer!InMessages + 1
    /\ \A i \in 1..Len(Answer!DeliveryPages(text)) : i < sending => i \in refused \/ Held(i) \subseteq shown
    /\ sending > 0 /\ Answer!NeedsFile => 0 \in refused \/ DOMAIN text \subseteq shown

LEMMA PagesStart ==
    ASSUME Answer!Init
    PROVE  PagesInv
  <1>1. text = <<>> /\ sending = 0 /\ refused = {}
    BY DEF Answer!Init
  <1>2. Numbered /\ Answer!InMessages \in Nat
    BY <1>1, OwnerAssumption DEF Numbered, Answer!InMessages
  <1>3. Len(Answer!DeliveryPages(text)) \in Nat
    BY <1>2, DeliveryTells
  <1> QED
    BY <1>1, <1>2, <1>3 DEF PagesInv

LEMMA WriteKeeps ==
    ASSUME PagesInv, NEW kind \in Answer!Kinds, Answer!Write(kind)
    PROVE  PagesInv'
  <1> DEFINE line == [kind |-> kind, no |-> Len(text) + 1]
  <1>1. text' = Append(text, line) /\ sending = 0 /\ sending' = 0
    BY DEF Answer!Write
  <1>2. text \in Seq(Line) /\ Len(text) \in Nat /\ \A i \in 1..Len(text) : text[i].no = i
    BY DEF PagesInv, Numbered
  <1>3. line \in Line /\ line.no = Len(text) + 1
    BY <1>2 DEF Line
  <1>4. Numbered'
    <2> HIDE DEF line
    <2>1. /\ text' \in Seq(Line) /\ Len(text') = Len(text) + 1 /\ text'[Len(text) + 1] = line
          /\ \A i \in 1..Len(text) : text'[i] = text[i]
      BY <1>1, <1>2, <1>3, AppendProperties
    <2>2. \A i \in 1..Len(text') : i \in 1..Len(text) \/ i = Len(text) + 1
      BY <1>2, <2>1
    <2> QED
      BY <1>2, <1>3, <2>1, <2>2 DEF Numbered
  <1>6. Answer!InMessages \in Nat
    BY OwnerAssumption DEF Answer!InMessages
  <1> QED
    BY <1>1, <1>4, <1>6 DEF PagesInv, Answer!InMessages

LEMMA FinalizeKeeps ==
    ASSUME PagesInv, Answer!Finalize
    PROVE  PagesInv'
  <1>1. text' = text /\ sending' = 1
    BY DEF Answer!Finalize
  <1>2. 1 \in 0..Answer!InMessages + 1
    BY OwnerAssumption DEF Answer!InMessages
  <1>3. Numbered' /\ Answer!NeedsFile' = Answer!NeedsFile /\ Answer!DeliveryPages(text)' = Answer!DeliveryPages(text)
    BY <1>1 DEF PagesInv, Numbered, Answer!NeedsFile, Answer!Loops, Answer!InMessages
  <1>4. Answer!NeedsFile => 0 \in refused' \/ DOMAIN text \subseteq shown'
    BY DEF Answer!Finalize, Answer!Refused
  <1> QED
    BY <1>1, <1>2, <1>3, <1>4 DEF PagesInv, Answer!InMessages

\* Once the next page is dealt with, what it has is shown or it is refused.
LEMMA MoreKeeps ==
    ASSUME PagesInv, Answer!More, text' = text, sending' = sending + 1,
           shown \subseteq shown', refused \subseteq refused',
           sending \in refused' \/ Held(sending) \subseteq shown'
    PROVE  PagesInv'
  <1>1. sending > 0 /\ sending <= Answer!InMessages /\ sending \in Nat /\ Answer!InMessages \in Nat
    <2>1. Answer!InMessages \in Nat
      BY OwnerAssumption DEF Answer!InMessages
    <2> QED
      BY <2>1 DEF Answer!More, PagesInv
  <1>2. Numbered' /\ Answer!NeedsFile' = Answer!NeedsFile /\ Answer!DeliveryPages(text)' = Answer!DeliveryPages(text)
    BY DEF PagesInv, Numbered, Answer!NeedsFile, Answer!Loops, Answer!InMessages
  <1>3. \A i : Held(i)' = Held(i)
    BY DEF Held, Answer!Message, Answer!StatusPage
  <1>4. ASSUME NEW i \in 1..Len(Answer!DeliveryPages(text)), i < sending + 1
        PROVE  i \in refused' \/ Held(i) \subseteq shown'
    <2>1. i = sending \/ i < sending
      BY <1>1, <1>4
    <2> QED
      BY <2>1, <1>4 DEF PagesInv
  <1>5. Answer!NeedsFile => 0 \in refused' \/ DOMAIN text \subseteq shown'
    BY <1>1 DEF PagesInv
  <1> QED
    BY <1>1, <1>2, <1>3, <1>4, <1>5 DEF PagesInv, Answer!InMessages

LEMMA SendPageKeeps ==
    ASSUME PagesInv, Answer!SendPage
    PROVE  PagesInv'
  <1>1. /\ text' = text /\ sending' = sending + 1 /\ refused' = refused
        /\ shown' = shown \cup Held(sending) /\ Answer!More
    BY DEF Answer!SendPage, Held
  <1> QED
    BY <1>1, MoreKeeps

LEMMA PageRefusedKeeps ==
    ASSUME PagesInv, Answer!PageRefused
    PROVE  PagesInv'
  <1>1. /\ text' = text /\ sending' = sending + 1 /\ refused' = refused \cup {sending}
        /\ shown' = shown /\ Answer!More
    BY DEF Answer!PageRefused, Answer!Refused
  <1> QED
    BY <1>1, MoreKeeps

LEMMA PagesStep ==
    ASSUME PagesInv, [Answer!Next]_pages
    PROVE  PagesInv'
  <1>1. CASE UNCHANGED pages
    BY <1>1 DEF pages, PagesInv, Numbered, Held, Answer!Message, Answer!StatusPage,
                Answer!NeedsFile, Answer!Loops, Answer!InMessages
  <1>2. CASE Answer!Next
    BY <1>2, WriteKeeps, FinalizeKeeps, SendPageKeeps, PageRefusedKeeps DEF Answer!Next
  <1> QED
    BY <1>1, <1>2

LEMMA PagesArrive ==
    ASSUME PagesInv
    PROVE  AnswerArrives
  <1> DEFINE bunch == Answer!DeliveryPages(text)
  <1>1. /\ Numbered /\ bunch \in Seq(Seq(Block)) /\ Fit(bunch) /\ Tells(LinesOfAll(bunch), 0, Len(text))
    BY DeliveryTells DEF PagesInv
  <1>2. DOMAIN text = 1..Len(text) /\ Len(text) \in Nat
    BY <1>1 DEF Numbered
  <1>3. Answer!PagesWhole
    <2> DEFINE uttered == LinesOfAll(bunch)
    <2>1. uttered = Answer!FlattenSeq([i \in DOMAIN bunch |-> Answer!LinesOf(bunch[i])])
      BY DEF LinesOfAll, RowsOf
    <2> HIDE DEF uttered, bunch
    <2>2. /\ uttered \in Seq(Line)
          /\ \A i, j \in 1..Len(uttered) : i < j => uttered[i].no < uttered[j].no
          /\ \A i \in 1..Len(text) : Answer!Spared(i) \/ \E j \in 1..Len(uttered) : uttered[j] = text[i]
      BY <1>1 DEF Tells, Inside, Covers, uttered
    <2>3. DOMAIN uttered = 1..Len(uttered) /\ DOMAIN bunch = 1..Len(bunch)
      BY <1>1, <2>2
    <2>4. \A i \in DOMAIN bunch : Answer!Size(bunch[i]) <= PageSize
      BY <1>1, <2>3 DEF Fit
    <2> HIDE DEF uttered
    <2> QED
      BY <1>2, <2>1, <2>2, <2>3, <2>4 DEF Answer!PagesWhole, bunch
  <1>4. Answer!RefusedIsLocal
    <2>1. SUFFICES ASSUME sending > 0, ~ Answer!More, NEW i \in DOMAIN bunch
                   PROVE  \/ i \in refused \/ (i > Answer!InMessages /\ 0 \in refused)
                          \/ Held(i) \subseteq shown
      BY DEF Answer!RefusedIsLocal, Held
    <2> HIDE DEF bunch
    <2>2. Len(bunch) \in Nat /\ i \in 1..Len(bunch)
      BY <1>1
    <2>3. Answer!InMessages \in Nat /\ Answer!InMessages >= 1 /\ sending \in Nat
      <3>1. Answer!InMessages \in Nat /\ Answer!InMessages >= 1
        BY OwnerAssumption DEF Answer!InMessages
      <3> QED
        BY <3>1 DEF PagesInv
    <2>4. CASE i < sending
      BY <2>2, <2>4 DEF PagesInv, bunch
    <2>5. CASE ~ (i < sending)
      <3>1. sending > Answer!InMessages
        BY <2>1, <2>2, <2>3, <2>5 DEF Answer!More, bunch
      <3>2. i > Answer!InMessages /\ i # 1 /\ Len(bunch) > Answer!InMessages
        BY <2>2, <2>3, <2>5, <3>1
      <3>3. Answer!NeedsFile
        BY <3>2 DEF Answer!NeedsFile, bunch
      <3>4. 0 \in refused \/ DOMAIN text \subseteq shown
        BY <2>1, <3>3 DEF PagesInv
      <3>5. Held(i) \subseteq DOMAIN text
        BY <1>1, <2>2, <3>2, HeldInText DEF bunch
      <3> QED
        BY <3>2, <3>4, <3>5
    <2> QED
      BY <2>4, <2>5
  <1> QED
    BY <1>3, <1>4 DEF AnswerArrives, Answer!AnswerArrives

\* AnswerArrives: whatever the answer, the pages delivery_pages makes of it are its
\* lines in their order, but for fences, rules, headings without a line and the heard a
\* table does not show, and fit a message; and once all is sent, the file included,
\* only what Telegram refused is missing, and the tail the first page's second
\* rendering (StatusPage) may cut off.
THEOREM AnswersArrive == AllSpec => []AnswerArrives
  <1>1. AllInit => PagesInv
    BY PagesStart DEF AllInit
  <1>2. PagesInv /\ [AllNext]_allVars => PagesInv'
    <2>1. ASSUME [AllNext]_allVars PROVE [Answer!Next]_pages
      BY <2>1 DEF AllNext, allVars, OnlySchedules, OnlyIntake, OnlyQuestions, OnlyPanel,
                  OnlyPages, OnlyProgress, OnlyFiles, OnlyQuota, OnlyProcess
    <2> QED
      BY <2>1, PagesStep
  <1>3. PagesInv => AnswerArrives
    BY PagesArrive
  <1> QED
    BY <1>1, <1>2, <1>3, PTL DEF AllSpec

================================================================================
