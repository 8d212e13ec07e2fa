------------------------- MODULE SessionFileProofs -------------------------
(***************************************************************************)
(* Theorems about SessionFile, for any number of entries, files, failing   *)
(* writes and moves: the tree in memory, the file and the promise of the   *)
(* append-only log, and what no write takes back.                          *)
(***************************************************************************)
EXTENDS SessionFile, SequenceTheorems, FiniteSetTheorems, WellFoundedInduction, TLAPS

-----------------------------------------------------------------------------
(* Sets of numbers in order, and the places of a sequence.                  *)

LEMMA HasLeast ==
  ASSUME NEW T \in SUBSET Nat, T # {}
  PROVE  \E x \in T : \A y \in T : x <= y
  <1>1. PICK x \in T : \A y \in T : <<y, x>> \notin OpToRel(<, Nat)
    BY NatLessThanWellFounded, WFMin, Zenon
  <1>2. \A y \in T : ~ (y < x)
    BY <1>1 DEF OpToRel
  <1> QED BY <1>2

Ordered(s) == \A i, j \in DOMAIN s : i < j => s[i] < s[j]

\* Every set of numbers up to n can be written in order.
LEMMA OrderExists ==
  ASSUME NEW n \in Nat, NEW S \in SUBSET (1 .. n)
  PROVE  /\ IsFiniteSet(S) /\ Cardinality(S) \in Nat
         /\ \E s \in [1 .. Cardinality(S) -> S] : Ordered(s)
  <1> DEFINE Good(T) == \E s \in [1 .. Cardinality(T) -> T] : Ordered(s)
             Bad == {m \in Nat : \E T \in SUBSET (1 .. m) : ~Good(T)}
  <1>1. \A m \in Nat : \A T \in SUBSET (1 .. m) : IsFiniteSet(T) /\ Cardinality(T) \in Nat
    <2> TAKE m \in Nat
    <2> TAKE T \in SUBSET (1 .. m)
    <2>1. IsFiniteSet(1 .. m)
      BY FS_Interval
    <2> QED BY <2>1, FS_Subset, FS_CardinalityType
  <1>2. Bad = {}
    <2>1. SUFFICES ASSUME Bad # {} PROVE FALSE
      OBVIOUS
    <2>2. PICK b \in Bad : \A m \in Bad : b <= m
      BY <2>1, HasLeast
    <2>3. PICK T \in SUBSET (1 .. b) : ~Good(T)
      BY <2>2
    <2>4. b \in Nat
      BY <2>2
    <2>5. IsFiniteSet(T) /\ Cardinality(T) \in Nat
      BY <1>1, <2>4
    <2>6. b \in T
      <3>1. SUFFICES ASSUME b \notin T PROVE FALSE
        OBVIOUS
      <3>2. CASE b = 0
        <4> DEFINE e == [k \in 1 .. 0 |-> 0]
        <4>1. T = {} /\ Cardinality(T) = 0
          <5>1. T = {}
            BY <3>2
          <5> QED BY <5>1, FS_EmptySet
        <4>2. e \in [1 .. 0 -> T] /\ Ordered(e)
          BY <4>1 DEF Ordered
        <4> QED BY <4>1, <4>2, <2>3
      <3>3. CASE b # 0
        <4>1. b - 1 \in Nat /\ T \in SUBSET (1 .. (b - 1))
          BY <3>1, <3>3, <2>4
        <4>2. b - 1 \in Bad
          <5> HIDE DEF Good
          <5> QED BY <4>1, <2>3
        <4> HIDE DEF Bad
        <4> QED BY <4>2, <2>2, <2>4
      <3> QED BY <3>2, <3>3
    <2> DEFINE U == T \ {b}
    <2>7. IsFiniteSet(U) /\ Cardinality(U) \in Nat /\ Cardinality(T) = Cardinality(U) + 1
      <3>1. IsFiniteSet(U) /\ b \notin U /\ T = U \cup {b}
        BY <2>5, <2>6, FS_Subset
      <3> HIDE DEF U
      <3>2. Cardinality(U) \in Nat /\ Cardinality(U \cup {b}) = Cardinality(U) + 1
        BY <3>1, FS_CardinalityType, FS_AddElement
      <3> QED BY <3>1, <3>2
    <2>8. b > 0 /\ U \in SUBSET (1 .. (b - 1))
      BY <2>4, <2>6
    <2>9. Good(U)
      <3>1. b - 1 \in Nat /\ b - 1 \notin Bad
        <4> HIDE DEF Bad
        <4> QED BY <2>2, <2>4, <2>8
      <3> HIDE DEF Good, U
      <3> QED BY <3>1, <2>8
    <2>10. PICK s \in [1 .. Cardinality(U) -> U] : Ordered(s)
      BY <2>9
    <2> DEFINE r == [k \in 1 .. Cardinality(T) |-> IF k = Cardinality(T) THEN b ELSE s[k]]
    <2>11. \A k \in 1 .. Cardinality(U) : s[k] \in U /\ s[k] < b /\ s[k] \in Nat
      <3>1. \A u \in U : u < b /\ u \in Nat
        BY <2>4, <2>8
      <3> HIDE DEF U, Bad
      <3>2. \A k \in 1 .. Cardinality(U) : s[k] \in U
        BY <2>10
      <3> QED BY <3>1, <3>2
    <2>12. r \in [1 .. Cardinality(T) -> T]
      <3>1. U \subseteq T
        OBVIOUS
      <3> HIDE DEF U, Bad, Good
      <3>2. \A k \in 1 .. Cardinality(T) : k # Cardinality(T) => k \in 1 .. Cardinality(U)
        BY <2>7
      <3>3. \A k \in 1 .. Cardinality(T) : (IF k = Cardinality(T) THEN b ELSE s[k]) \in T
        BY <3>1, <3>2, <2>6, <2>11
      <3> QED BY <3>3
    <2>13. Ordered(r)
      <3> SUFFICES ASSUME NEW i \in 1 .. Cardinality(T), NEW j \in 1 .. Cardinality(T), i < j
                   PROVE  r[i] < r[j]
        BY DEF Ordered
      <3>1. i \in 1 .. Cardinality(U) /\ i # Cardinality(T) /\ r[i] = s[i]
        BY <2>7
      <3>2. CASE j = Cardinality(T)
        BY <3>1, <3>2, <2>11, <2>7
      <3>3. CASE j # Cardinality(T)
        <4>1. j \in 1 .. Cardinality(U) /\ r[j] = s[j]
          BY <3>3, <2>7
        <4> QED BY <4>1, <3>1, <2>10 DEF Ordered
      <3> QED BY <3>2, <3>3
    <2> QED BY <2>12, <2>13, <2>3
  <1> QED BY <1>1, <1>2

\* What InOrder chooses.
LEMMA InOrderWorks ==
  ASSUME NEW n \in Nat, NEW S \in SUBSET (1 .. n)
  PROVE  /\ Cardinality(S) \in Nat
         /\ InOrder(S) \in [1 .. Cardinality(S) -> S]
         /\ \A i, j \in 1 .. Cardinality(S) : i < j => InOrder(S)[i] < InOrder(S)[j]
  <1>1. \E s \in [1 .. Cardinality(S) -> S] : \A i, j \in DOMAIN s : i < j => s[i] < s[j]
    BY OrderExists DEF Ordered
  <1>2. /\ InOrder(S) \in [1 .. Cardinality(S) -> S]
        /\ \A i, j \in DOMAIN InOrder(S) : i < j => InOrder(S)[i] < InOrder(S)[j]
    BY <1>1, Zenon DEF InOrder
  <1> QED BY <1>2, OrderExists

\* The entries at some places of a sequence, in its order.
LEMMA PickedWorks ==
  ASSUME NEW E, NEW es \in Seq(E), NEW at \in SUBSET DOMAIN es
  PROVE  /\ Picked(es, at) \in Seq(E)
         /\ \E o \in [DOMAIN Picked(es, at) -> DOMAIN es] :
               \A k \in DOMAIN o : /\ Picked(es, at)[k] = es[o[k]] /\ o[k] \in at
                                   /\ \A j \in DOMAIN o : k < j => o[k] < o[j]
  <1> DEFINE n == Cardinality(at)
             o == InOrder(at)
             p == Picked(es, at)
  <1>1. Len(es) \in Nat /\ DOMAIN es = 1 .. Len(es)
    OBVIOUS
  <1>2. n \in Nat /\ o \in [1 .. n -> at] /\ \A i, j \in 1 .. n : i < j => o[i] < o[j]
    BY <1>1, InOrderWorks
  <1>3. p = [k \in 1 .. n |-> es[o[k]]]
    BY Zenon DEF Picked
  <1> HIDE DEF n, o, p
  <1>4. \A k \in 1 .. n : o[k] \in at /\ o[k] \in DOMAIN es /\ es[o[k]] \in E
    BY <1>1, <1>2, ElementOfSeq
  <1>5. p \in [1 .. n -> E] /\ DOMAIN p = 1 .. n
    BY <1>3, <1>4
  <1>6. p \in Seq(E)
    BY <1>2, <1>5, SeqDef
  <1>7. o \in [DOMAIN p -> DOMAIN es] /\ DOMAIN o = 1 .. n
    BY <1>2, <1>4, <1>5
  <1>8. \A k \in DOMAIN o : /\ p[k] = es[o[k]] /\ o[k] \in at
                            /\ \A j \in DOMAIN o : k < j => o[k] < o[j]
    BY <1>2, <1>3, <1>4, <1>7
  <1> QED BY <1>6, <1>7, <1>8 DEF p

-----------------------------------------------------------------------------
(* The invariant.  Each file that no failed write has touched is whole; the  *)
(* file of the session is of the current format and, when it is flushed,     *)
(* loads what is in memory; only a fork of an old file, or of such a fork,   *)
(* has entries without an id.                                                *)

Rising(es) ==
  \A i, j \in DOMAIN es : i < j => es[i].id < es[j].id \/ (es[i].id = 0 /\ es[j].id = 0)
Named(es) == \A i \in DOMAIN es : es[i].id # 0
Rooted(es) ==
  \A i \in DOMAIN es : es[i].parent = 0 \/ \E j \in DOMAIN es : j < i /\ es[j].id = es[i].parent
Tree(es, n) == es \in Seq(Entries) /\ Rising(es) /\ \A i \in DOMAIN es : es[i].id <= n

Tails == {"clean", "part", "whole"}
FileType == [made : BOOLEAN, lines : Seq(Entries \cup {Header}), junk : BOOLEAN, tail : Tails, old : BOOLEAN]

FileOK(f) ==
  /\ disk[f] \in FileType
  /\ Tree(Loaded(disk[f]), ids)
  /\ hurt = {} => Rooted(Loaded(disk[f]))
  /\ f \notin raw /\ ~disk[f].old => Named(Loaded(disk[f]))
  /\ ~disk[f].made \/ f > used => disk[f] = Missing
  /\ f \notin hurt /\ disk[f].made => Valid(disk[f]) /\ disk[f].tail = "clean"

Bounds ==
  /\ cur \in Files /\ used \in Files /\ cur <= used /\ hurt \subseteq Files /\ raw \subseteq Files
  /\ ids \in 0 .. MaxIds /\ faults \in 0 .. MaxFaults /\ moves \in 0 .. MaxMoves

MemoryOK ==
  /\ flushed \in BOOLEAN /\ labels \subseteq 0 .. MaxIds
  /\ Tree(entries, ids) /\ leaf \in {0} \cup IdsOf(entries)
  /\ hurt = {} => Rooted(entries)
  /\ cur \notin raw => Named(entries)

Synced ==
  /\ ~disk[cur].old
  /\ cur \notin hurt =>
       IF flushed THEN disk[cur].made /\ Loaded(disk[cur]) = entries
                  ELSE ~disk[cur].made /\ ~AnsweredIn(entries)

FileInv ==
  /\ Bounds /\ MemoryOK /\ Synced
  /\ disk \in [Files -> FileType] /\ \A f \in Files : FileOK(f)

-----------------------------------------------------------------------------
(* Sequences: what a line more, or a line less, does to a file.             *)

LEMMA AppendIs ==
  ASSUME NEW S, NEW s \in Seq(S), NEW e \in S
  PROVE  /\ Append(s, e) \in Seq(S) /\ Append(s, e) # <<>> /\ Len(Append(s, e)) = Len(s) + 1
         /\ \A i \in 1 .. Len(Append(s, e)) : Append(s, e)[i] = IF i <= Len(s) THEN s[i] ELSE e
  BY AppendProperties

LEMMA AppendTail ==
  ASSUME NEW S, NEW s \in Seq(S), NEW e \in S
  PROVE  /\ Append(s, e) \in Seq(S) /\ Append(s, e) # <<>>
         /\ s # <<>> => Head(Append(s, e)) = Head(s) /\ Tail(Append(s, e)) = Append(Tail(s), e)
         /\ s = <<>> => Head(Append(s, e)) = e
  <1> DEFINE a == Append(s, e)
  <1>1. a \in Seq(S) /\ Len(a) = Len(s) + 1 /\ a # <<>> /\ Len(s) \in Nat
        /\ \A i \in 1 .. Len(a) : a[i] = IF i <= Len(s) THEN s[i] ELSE e
    BY AppendIs
  <1>2. s # <<>> => Len(s) # 0
    BY EmptySeq
  <1>3. Head(a) = a[1]
    BY <1>1, HeadTailProperties
  <1>4. ASSUME s # <<>> PROVE Head(a) = Head(s) /\ Tail(a) = Append(Tail(s), e)
    <2>1. Head(s) = s[1] /\ Tail(s) \in Seq(S) /\ Len(Tail(s)) = Len(s) - 1
          /\ \A i \in 1 .. Len(Tail(s)) : Tail(s)[i] = s[i + 1]
      BY <1>4, HeadTailProperties
    <2>2. Tail(a) \in Seq(S) /\ Len(Tail(a)) = Len(a) - 1
          /\ \A i \in 1 .. Len(Tail(a)) : Tail(a)[i] = a[i + 1]
      BY <1>1, HeadTailProperties
    <2> DEFINE b == Append(Tail(s), e)
    <2>3. b \in Seq(S) /\ Len(b) = Len(Tail(s)) + 1
          /\ \A i \in 1 .. Len(b) : b[i] = IF i <= Len(Tail(s)) THEN Tail(s)[i] ELSE e
      <3>1. Tail(s) \in Seq(S)
        BY <2>1
      <3> QED BY <3>1, AppendIs, Zenon
    <2> HIDE DEF a, b
    <2>4. Len(Tail(a)) = Len(b)
      BY <1>1, <2>1, <2>2, <2>3
    <2>5. \A i \in 1 .. Len(b) : Tail(a)[i] = b[i]
      BY <1>1, <1>2, <1>4, <2>1, <2>2, <2>3, <2>4
    <2>6. Tail(a) = b
      <3>1. \A i \in 1 .. Len(Tail(a)) : Tail(a)[i] = b[i]
        BY <2>4, <2>5, Zenon
      <3>2. Tail(a) \in Seq(S) /\ b \in Seq(S)
        BY <2>2, <2>3
      <3> QED BY <2>4, <3>1, <3>2, SeqEqual, Zenon
    <2> QED BY <1>1, <1>2, <1>3, <1>4, <2>1, <2>6 DEF b
  <1>5. s = <<>> => Head(a) = e
    <2>1. s = <<>> => Len(s) = 0
      OBVIOUS
    <2> HIDE DEF a
    <2> QED BY <1>1, <1>3, <2>1
  <1> QED BY <1>1, <1>4, <1>5

Shorter(s) == SubSeq(s, 1, Len(s) - 1)

LEMMA PrefixIs ==
  ASSUME NEW S, NEW s \in Seq(S), NEW m \in 0 .. Len(s)
  PROVE  /\ SubSeq(s, 1, m) \in Seq(S) /\ Len(SubSeq(s, 1, m)) = m
         /\ \A i \in 1 .. m : SubSeq(s, 1, m)[i] = s[i]
  BY SubSeqProperties

LEMMA ShorterTail ==
  ASSUME NEW S, NEW s \in Seq(S), s # <<>>
  PROVE  /\ Shorter(s) \in Seq(S) /\ Len(Shorter(s)) = Len(s) - 1
         /\ Shorter(s) # <<>> => /\ Head(Shorter(s)) = Head(s)
                                 /\ Tail(Shorter(s)) = Shorter(Tail(s)) /\ Tail(s) # <<>>
         /\ Shorter(s) = <<>> => Tail(s) = <<>>
  <1> DEFINE f == Shorter(s)
             t == Tail(s)
  <1>1. Len(s) \in Nat /\ Len(s) >= 1
    BY EmptySeq
  <1>2. f \in Seq(S) /\ Len(f) = Len(s) - 1 /\ \A i \in 1 .. Len(s) - 1 : f[i] = s[i]
    <2>1. Len(s) - 1 \in 0 .. Len(s)
      BY <1>1
    <2> QED BY <2>1, PrefixIs DEF Shorter
  <1>3. Head(s) = s[1] /\ t \in Seq(S) /\ Len(t) = Len(s) - 1
        /\ \A i \in 1 .. Len(t) : t[i] = s[i + 1]
    BY HeadTailProperties
  <1> HIDE DEF f, t
  <1>4. ASSUME f # <<>>
        PROVE  Head(f) = Head(s) /\ Tail(f) = Shorter(t) /\ t # <<>>
    <2>1. Len(f) # 0
      BY <1>2, <1>4, EmptySeq
    <2>2. Len(t) >= 1 /\ Len(t) \in Nat /\ t # <<>>
      BY <1>1, <1>2, <1>3, <2>1
    <2>3. Head(f) = f[1] /\ Tail(f) \in Seq(S) /\ Len(Tail(f)) = Len(f) - 1
          /\ \A i \in 1 .. Len(Tail(f)) : Tail(f)[i] = f[i + 1]
      BY <1>2, <1>4, HeadTailProperties
    <2>4. Shorter(t) \in Seq(S) /\ Len(Shorter(t)) = Len(t) - 1
          /\ \A i \in 1 .. Len(t) - 1 : Shorter(t)[i] = t[i]
      <3>1. Len(t) - 1 \in 0 .. Len(t)
        BY <2>2
      <3> QED BY <1>3, <3>1, PrefixIs DEF Shorter
    <2>5. Len(Tail(f)) = Len(Shorter(t))
      BY <1>2, <1>3, <2>3, <2>4
    <2>6. ASSUME NEW i \in 1 .. Len(Tail(f)) PROVE Tail(f)[i] = Shorter(t)[i]
      <3>1. i \in 1 .. Len(t) /\ i \in 1 .. Len(t) - 1 /\ i + 1 \in 1 .. Len(s) - 1
        BY <1>1, <1>2, <1>3, <2>3
      <3>2. Tail(f)[i] = f[i + 1] /\ f[i + 1] = s[i + 1]
        BY <1>2, <2>3, <3>1
      <3>3. Shorter(t)[i] = t[i] /\ t[i] = s[i + 1]
        BY <1>3, <2>4, <3>1
      <3> QED BY <3>2, <3>3
    <2>7. Tail(f) = Shorter(t)
      BY <2>3, <2>4, <2>5, <2>6, SeqEqual
    <2>8. Head(f) = Head(s)
      BY <1>1, <1>2, <1>3, <2>1, <2>3
    <2> QED BY <2>2, <2>7, <2>8
  <1>5. f = <<>> => t = <<>>
    <2>1. ASSUME f = <<>> PROVE t = <<>>
      <3>1. Len(f) = 0
        BY <2>1
      <3>2. Len(t) = 0
        BY <1>2, <1>3, <3>1
      <3> QED BY <1>3, <3>2, EmptySeq
    <2> QED BY <2>1
  <1> QED BY <1>2, <1>4, <1>5 DEF f, t

-----------------------------------------------------------------------------
(* Writes: the entries a file loads, after one.                             *)

Landed(d, line, t) ==
  [d EXCEPT !.made = TRUE, !.lines = Append(d.lines, line), !.tail = t]
Spoiled(d, t) ==
  [d EXCEPT !.made = TRUE, !.junk = TRUE, !.tail = t,
            !.lines = IF d.tail = "whole" THEN Shorter(d.lines) ELSE d.lines]

LEMMA PutCases ==
  ASSUME NEW d \in FileType, NEW line \in Entries \cup {Header}, NEW w \in Outcomes
  PROVE  \/ w = "refused" /\ Put(d, line, w) = d
         \/ w = "none" /\ Put(d, line, w) = [d EXCEPT !.made = TRUE]
         \/ \E t \in Tails : /\ Put(d, line, w) = Landed(d, line, t)
                             /\ d.tail = "clean" /\ w \in {"ok", "whole"} /\ (w = "ok" => t = "clean")
         \/ \E t \in Tails : Put(d, line, w) = Spoiled(d, t) /\ (w = "ok" => d.tail # "clean")
  <1>1. w \in {"ok", "refused", "none", "part", "whole"}
    BY DEF Outcomes
  <1>2. CASE w = "refused"
    BY <1>2 DEF Put
  <1>3. CASE w = "none"
    BY <1>3 DEF Put
  <1>4. CASE w = "part"
    <2>1. Put(d, line, w) = Spoiled(d, "part")
      BY <1>4 DEF Put, Spoiled, Shorter
    <2> QED BY <1>4, <2>1 DEF Tails
  <1>5. CASE w = "ok"
    <2>1. CASE d.tail = "clean"
      <3>1. Put(d, line, w) = Landed(d, line, "clean")
        BY <1>5, <2>1 DEF Put, Landed
      <3> QED BY <1>5, <2>1, <3>1 DEF Tails
    <2>2. CASE d.tail # "clean"
      <3>1. Put(d, line, w) = Spoiled(d, "clean")
        BY <1>5, <2>2 DEF Put, Spoiled, Shorter
      <3> QED BY <1>5, <2>2, <3>1 DEF Tails
    <2> QED BY <2>1, <2>2
  <1>6. CASE w = "whole"
    <2>1. CASE d.tail = "clean"
      <3>1. Put(d, line, w) = Landed(d, line, "whole")
        BY <1>6, <2>1 DEF Put, Landed
      <3> QED BY <1>6, <2>1, <3>1 DEF Tails
    <2>2. CASE d.tail # "clean"
      <3>1. Put(d, line, w) = Spoiled(d, "part")
        BY <1>6, <2>2 DEF Put, Spoiled, Shorter
      <3> QED BY <1>6, <3>1 DEF Tails
    <2> QED BY <2>1, <2>2
  <1> QED BY <1>1, <1>2, <1>3, <1>4, <1>5, <1>6

LEMMA FileFields ==
  ASSUME NEW d \in FileType
  PROVE  /\ d.lines \in Seq(Entries \cup {Header}) /\ d.made \in BOOLEAN
         /\ d.tail \in Tails /\ d.old \in BOOLEAN /\ d.junk \in BOOLEAN
  BY DEF FileType

\* A line that lands is the last entry loaded, if any line is.
LEMMA LandedLoads ==
  ASSUME NEW d \in FileType, NEW line \in Entries, NEW t \in Tails
  PROVE  /\ Landed(d, line, t) \in FileType
         /\ Valid(Landed(d, line, t)) <=> Valid(d)
         /\ Loaded(Landed(d, line, t)) = IF Valid(d) THEN Append(Loaded(d), line) ELSE Loaded(d)
  <1> DEFINE n == Landed(d, line, t)
             ls == d.lines
             E == Entries \cup {Header}
  <1>1. ls \in Seq(E) /\ line \in E
    BY FileFields
  <1>2. n.lines = Append(ls, line) /\ n \in FileType
    <2>1. Append(ls, line) \in Seq(E)
      BY <1>1, AppendIs
    <2> QED BY <2>1 DEF Landed, FileType
  <1> HIDE DEF n
  <1>3. CASE ls = <<>>
    <2>1. ~Valid(d) /\ Head(n.lines) = line
      BY <1>1, <1>2, <1>3, AppendTail DEF Valid
    <2>2. line.kind # "session"
      BY DEF Entries, AllKinds
    <2>3. ~Valid(n)
      BY <2>1, <2>2 DEF Valid
    <2> QED BY <1>2, <2>1, <2>3 DEF n, Loaded
  <1>4. CASE ls # <<>>
    <2>1. n.lines # <<>> /\ Head(n.lines) = Head(ls) /\ Tail(n.lines) = Append(Tail(ls), line)
      BY <1>1, <1>2, <1>4, AppendTail
    <2>2. Valid(n) <=> Valid(d)
      BY <1>4, <2>1 DEF Valid
    <2> QED BY <1>2, <2>1, <2>2 DEF n, Loaded
  <1> QED BY <1>3, <1>4

\* A line that does not land takes at most the entry before it along.
LEMMA SpoiledLoads ==
  ASSUME NEW d \in FileType, NEW t \in Tails
  PROVE  /\ Spoiled(d, t) \in FileType
         /\ \/ Loaded(Spoiled(d, t)) = Loaded(d)
            \/ /\ Loaded(Spoiled(d, t)) = Shorter(Loaded(d))
               /\ Loaded(d) # <<>> /\ d.tail = "whole"
  <1> DEFINE n == Spoiled(d, t)
             ls == d.lines
             E == Entries \cup {Header}
  <1>1. ls \in Seq(E)
    BY FileFields
  <1>2. CASE d.tail # "whole" \/ ls = <<>>
    <2>1. Shorter(<<>>) = <<>>
      BY DEF Shorter
    <2>2. n.lines = ls /\ n \in FileType
      BY <1>1, <1>2, <2>1 DEF Spoiled, FileType
    <2> QED BY <2>2 DEF Loaded, Valid
  <1>3. CASE d.tail = "whole" /\ ls # <<>>
    <2>1. Shorter(ls) \in Seq(E)
      BY <1>1, <1>3, ShorterTail
    <2>2. n.lines = Shorter(ls) /\ n \in FileType
      BY <1>3, <2>1 DEF Spoiled, FileType
    <2> HIDE DEF n
    <2>3. CASE Shorter(ls) = <<>>
      <3>1. Tail(ls) = <<>>
        BY <1>1, <1>3, <2>3, ShorterTail
      <3> QED BY <2>2, <2>3, <3>1 DEF n, Loaded, Valid
    <2>4. CASE Shorter(ls) # <<>>
      <3>1. Head(Shorter(ls)) = Head(ls) /\ Tail(Shorter(ls)) = Shorter(Tail(ls)) /\ Tail(ls) # <<>>
        BY <1>1, <1>3, <2>4, ShorterTail
      <3>2. Valid(n) <=> Valid(d)
        BY <1>3, <2>2, <2>4, <3>1 DEF Valid
      <3> QED BY <1>3, <2>2, <3>1, <3>2 DEF n, Loaded
    <2> QED BY <2>3, <2>4
  <1> QED BY <1>2, <1>3

LEMMA PutLoads ==
  ASSUME NEW d \in FileType, NEW line \in Entries, NEW w \in Outcomes
  PROVE  /\ Put(d, line, w) \in FileType
         /\ \/ Loaded(Put(d, line, w)) = Loaded(d)
            \/ Loaded(Put(d, line, w)) = Append(Loaded(d), line)
            \/ /\ Loaded(Put(d, line, w)) = Shorter(Loaded(d))
               /\ Loaded(d) # <<>> /\ d.tail = "whole"
         /\ w = "ok" => Put(d, line, w).made
         /\ ~Put(d, line, w).made => Put(d, line, w) = d
         /\ Put(d, line, w).old = d.old
         /\ w = "ok" /\ Valid(d) /\ d.tail = "clean" =>
              /\ Loaded(Put(d, line, w)) = Append(Loaded(d), line)
              /\ Valid(Put(d, line, w)) /\ Put(d, line, w).tail = "clean"
  <1> DEFINE n == Put(d, line, w)
  <1>1. CASE w = "refused" /\ n = d
    BY <1>1
  <1>2. CASE w = "none" /\ n = [d EXCEPT !.made = TRUE]
    <2>1. n \in FileType /\ n.lines = d.lines /\ n.made /\ n.old = d.old
      BY <1>2 DEF FileType
    <2>2. Loaded(n) = Loaded(d)
      BY <2>1 DEF Loaded, Valid
    <2> QED BY <1>2, <2>1, <2>2
  <1>3. ASSUME NEW t \in Tails, n = Landed(d, line, t), w = "ok" => t = "clean"
        PROVE  /\ n \in FileType /\ n.made /\ n.old = d.old
               /\ Loaded(n) = Loaded(d) \/ Loaded(n) = Append(Loaded(d), line)
               /\ Valid(d) => Loaded(n) = Append(Loaded(d), line) /\ Valid(n)
               /\ w = "ok" => n.tail = "clean"
    <2>1. n.made /\ n.tail = t /\ n.old = d.old
      BY <1>3 DEF Landed, FileType
    <2> HIDE DEF n
    <2> QED BY <1>3, <2>1, LandedLoads
  <1>4. ASSUME NEW t \in Tails, n = Spoiled(d, t)
        PROVE  /\ n \in FileType /\ n.made /\ n.old = d.old
               /\ \/ Loaded(n) = Loaded(d)
                  \/ Loaded(n) = Shorter(Loaded(d)) /\ Loaded(d) # <<>> /\ d.tail = "whole"
    <2>1. n.made /\ n.old = d.old
      BY <1>4 DEF Spoiled, FileType
    <2> HIDE DEF n
    <2> QED BY <1>4, <2>1, SpoiledLoads
  <1>5. \/ w = "refused" /\ n = d
        \/ w = "none" /\ n = [d EXCEPT !.made = TRUE]
        \/ \E t \in Tails : n = Landed(d, line, t) /\ (w = "ok" => t = "clean")
        \/ \E t \in Tails : n = Spoiled(d, t) /\ (w = "ok" => d.tail # "clean")
    BY PutCases
  <1> HIDE DEF n
  <1>6. CASE \E t \in Tails : n = Landed(d, line, t) /\ (w = "ok" => t = "clean")
    BY <1>3, <1>6, Zenon DEF n
  <1>7. CASE \E t \in Tails : n = Spoiled(d, t) /\ (w = "ok" => d.tail # "clean")
    BY <1>4, <1>7, Zenon DEF n
  <1> QED BY <1>1, <1>2, <1>5, <1>6, <1>7 DEF n

\* A file written whole loads what was written.
LEMMA HeaderFirst ==
  ASSUME NEW es \in Seq(Entries)
  PROVE  /\ <<Header>> \o es \in Seq(Entries \cup {Header})
         /\ Len(<<Header>> \o es) = Len(es) + 1
         /\ (<<Header>> \o es)[1] = Header
         /\ \A i \in 1 .. Len(es) : (<<Header>> \o es)[i + 1] = es[i]
         /\ <<Header>> \o es # <<>>
         /\ Head(<<Header>> \o es) = Header
         /\ Tail(<<Header>> \o es) = es
  <1> DEFINE E == Entries \cup {Header}
             h == <<Header>>
             s == h \o es
  <1>1. h \in Seq(E) /\ Len(h) = 1 /\ h[1] = Header
    OBVIOUS
  <1>2. es \in Seq(E) /\ Len(es) \in Nat
    OBVIOUS
  <1> HIDE DEF E, h
  <1>3. s \in Seq(E) /\ Len(s) = Len(h) + Len(es)
        /\ \A i \in 1 .. Len(s) : s[i] = IF i <= Len(h) THEN h[i] ELSE es[i - Len(h)]
    <2>1. s = h \o es
      OBVIOUS
    <2>2. /\ h \o es \in Seq(E)
          /\ Len(h \o es) = Len(h) + Len(es)
          /\ \A i \in 1 .. Len(h) + Len(es) :
                (h \o es)[i] = IF i <= Len(h) THEN h[i] ELSE es[i - Len(h)]
      BY <1>1, <1>2, ConcatProperties, Zenon
    <2> HIDE DEF s
    <2>3. Len(s) = Len(h) + Len(es)
      BY <2>1, <2>2
    <2>4. \A i \in 1 .. Len(s) : s[i] = IF i <= Len(h) THEN h[i] ELSE es[i - Len(h)]
      BY <2>1, <2>2, <2>3, Zenon
    <2> QED BY <2>1, <2>2, <2>3, <2>4
  <1> HIDE DEF s
  <1>4. Len(s) = Len(es) + 1 /\ s[1] = Header
    BY <1>1, <1>2, <1>3
  <1>5. ASSUME NEW i \in 1 .. Len(es) PROVE s[i + 1] = es[i]
    BY <1>1, <1>2, <1>3, <1>4
  <1>6. s # <<>>
    BY <1>2, <1>3, <1>4, EmptySeq
  <1>7. Head(s) = Header
    BY <1>3, <1>4, <1>6
  <1>8. Tail(s) = es
    <2>1. Tail(s) \in Seq(E) /\ Len(Tail(s)) = Len(s) - 1
          /\ \A i \in 1 .. Len(Tail(s)) : Tail(s)[i] = s[i + 1]
      BY <1>3, <1>6, HeadTailProperties
    <2>2. Len(Tail(s)) = Len(es)
      BY <1>2, <1>4, <2>1
    <2>3. \A i \in 1 .. Len(Tail(s)) : Tail(s)[i] = es[i]
      BY <1>5, <2>1, <2>2
    <2> QED BY <1>2, <2>1, <2>2, <2>3, SeqEqual
  <1> QED BY <1>3, <1>4, <1>5, <1>6, <1>7, <1>8 DEF s, h, E

LEMMA FileIn ==
  ASSUME NEW ls \in Seq(Entries \cup {Header})
  PROVE  /\ File(ls) \in FileType /\ File(ls).made /\ File(ls).lines = ls
         /\ File(ls).tail = "clean" /\ ~File(ls).old
  BY DEF File, FileType, Tails

LEMMA FileLoads ==
  ASSUME NEW es \in Seq(Entries)
  PROVE  /\ File(<<Header>> \o es) \in FileType
         /\ Valid(File(<<Header>> \o es)) /\ Loaded(File(<<Header>> \o es)) = es
         /\ File(<<Header>> \o es).made /\ ~File(<<Header>> \o es).old
         /\ File(<<Header>> \o es).tail = "clean"
  <1> DEFINE s == <<Header>> \o es
             d == File(s)
  <1>1. s \in Seq(Entries \cup {Header}) /\ s # <<>> /\ Head(s) = Header /\ Tail(s) = es
    BY HeaderFirst
  <1> HIDE DEF s
  <1>2. d.lines = s /\ d.made = TRUE /\ d.old = FALSE /\ d.tail = "clean" /\ d.junk = FALSE
        /\ d = [made |-> TRUE, lines |-> s, junk |-> FALSE, tail |-> "clean", old |-> FALSE]
    BY DEF File
  <1>3. d \in FileType
    BY <1>1, <1>2 DEF FileType, Tails
  <1> HIDE DEF d
  <1>4. Valid(d)
    BY <1>1, <1>2 DEF Valid, Header, Entry
  <1>5. Loaded(d) = es
    BY <1>1, <1>2, <1>4 DEF Loaded
  <1> QED BY <1>2, <1>3, <1>4, <1>5 DEF d, s

LEMMA PrefixGrows ==
  ASSUME NEW S, NEW s \in Seq(S), NEW k \in 1 .. Len(s)
  PROVE  Append(SubSeq(s, 1, k - 1), s[k]) = SubSeq(s, 1, k)
  <1>1. k - 1 \in 0 .. Len(s) /\ k \in 0 .. Len(s) /\ s[k] \in S
    OBVIOUS
  <1> DEFINE p == SubSeq(s, 1, k - 1)
             q == SubSeq(s, 1, k)
             a == Append(p, s[k])
  <1>2. p \in Seq(S) /\ Len(p) = k - 1 /\ \A i \in 1 .. k - 1 : p[i] = s[i]
    BY <1>1, PrefixIs
  <1>3. q \in Seq(S) /\ Len(q) = k /\ \A i \in 1 .. k : q[i] = s[i]
    BY <1>1, PrefixIs
  <1> HIDE DEF p, q
  <1>4. a \in Seq(S) /\ Len(a) = Len(p) + 1
        /\ \A i \in 1 .. Len(a) : a[i] = IF i <= Len(p) THEN p[i] ELSE s[k]
    BY <1>1, <1>2, AppendIs
  <1> HIDE DEF a
  <1>5. Len(a) = Len(q) /\ \A i \in 1 .. Len(a) : a[i] = q[i]
    BY <1>2, <1>3, <1>4
  <1>6. a = q
    BY <1>3, <1>4, <1>5, SeqEqual
  <1> QED BY <1>6 DEF a, p, q

LEMMA HeaderPrefix ==
  ASSUME NEW es \in Seq(Entries), NEW k \in 1 .. Len(es)
  PROVE  SubSeq(<<Header>> \o es, 1, k) = <<Header>> \o SubSeq(es, 1, k - 1)
  <1> DEFINE E == Entries \cup {Header}
             s == <<Header>> \o es
             t == SubSeq(es, 1, k - 1)
             a == SubSeq(s, 1, k)
             b == <<Header>> \o t
  <1>1. k - 1 \in 0 .. Len(es) /\ Len(es) \in Nat
    OBVIOUS
  <1>2. t \in Seq(Entries) /\ Len(t) = k - 1 /\ \A i \in 1 .. k - 1 : t[i] = es[i]
    BY <1>1, PrefixIs
  <1>3. s \in Seq(E) /\ Len(s) = Len(es) + 1 /\ s[1] = Header
        /\ \A i \in 1 .. Len(es) : s[i + 1] = es[i]
    BY HeaderFirst
  <1> HIDE DEF s, t, E
  <1>4. b \in Seq(E) /\ Len(b) = Len(t) + 1 /\ b[1] = Header
        /\ \A i \in 1 .. Len(t) : b[i + 1] = t[i]
    BY <1>2, HeaderFirst DEF E
  <1>5. a \in Seq(E) /\ Len(a) = k /\ \A i \in 1 .. k : a[i] = s[i]
    <2>1. k \in 0 .. Len(s)
      BY <1>1, <1>3
    <2> QED BY <1>3, <2>1, PrefixIs
  <1> HIDE DEF a, b
  <1>6. ASSUME NEW i \in 1 .. Len(a) PROVE a[i] = b[i]
    <2>1. CASE i = 1
      BY <1>3, <1>4, <1>5, <2>1
    <2>2. CASE i # 1
      <3>1. i - 1 \in 1 .. k - 1 /\ i - 1 \in 1 .. Len(es) /\ (i - 1) + 1 = i
        BY <1>1, <1>5, <2>2
      <3>2. a[i] = es[i - 1]
        BY <1>3, <1>5, <3>1
      <3>3. b[i] = es[i - 1]
        BY <1>2, <1>4, <3>1
      <3> QED BY <3>2, <3>3
    <2> QED BY <2>1, <2>2
  <1>7. Len(a) = Len(b)
    BY <1>2, <1>4, <1>5
  <1>8. a = b
    BY <1>4, <1>5, <1>6, <1>7, SeqEqual
  <1> QED BY <1>8 DEF a, b, s, t

\* A file cut off while it is first written loads some of the first entries.
LEMMA BegunLoads ==
  ASSUME NEW es \in Seq(Entries), NEW k \in 0 .. Len(es), NEW w \in Outcomes
  PROVE  /\ Begun(<<Header>> \o es, k, w) \in FileType
         /\ Begun(<<Header>> \o es, k, w).made /\ ~Begun(<<Header>> \o es, k, w).old
         /\ \E m \in 0 .. Len(es) : Loaded(Begun(<<Header>> \o es, k, w)) = SubSeq(es, 1, m)
  <1> DEFINE s == <<Header>> \o es
             n == Begun(s, k, w)
  <1>00. s \in Seq(Entries \cup {Header}) /\ s[1] = Header /\ Len(s) \in Nat
    <2>1. s \in Seq(Entries \cup {Header}) /\ s[1] = Header
      BY HeaderFirst
    <2> HIDE DEF s
    <2> QED BY <2>1
  <1>0. Len(es) \in Nat
    OBVIOUS
  <1>1. CASE k = 0
    <2> DEFINE d == File(<<>>)
    <2>1. SubSeq(s, 1, 0) = <<>> /\ s[1] = Header
      <3> HIDE DEF s
      <3> QED BY <1>00
    <2>2. n = Put(d, Header, w)
      <3>1. SubSeq(s, 1, k) = <<>> /\ s[k + 1] = Header
        BY <1>1, <2>1
      <3> QED BY <3>1 DEF Begun
    <2>3. d \in FileType /\ d.made /\ d.lines = <<>> /\ d.tail = "clean" /\ ~d.old
      <3>1. <<>> \in Seq(Entries \cup {Header})
        BY EmptySeq
      <3> QED BY <3>1, FileIn, Zenon
    <2>4. Header \in Entries \cup {Header}
      OBVIOUS
    <2>5. SubSeq(es, 1, 0) = <<>> /\ 0 \in 0 .. Len(es)
      BY <1>0
    <2> HIDE DEF d, s, n
    <2>6. SUFFICES n \in FileType /\ n.made /\ ~n.old /\ (n.lines = <<>> \/ n.lines = <<Header>>)
      <3>1. Tail(<<Header>>) = <<>>
        OBVIOUS
      <3>2. ASSUME n.lines = <<>> \/ n.lines = <<Header>> PROVE Loaded(n) = <<>>
        BY <3>1, <3>2 DEF Loaded, Valid
      <3> QED BY <2>5, <2>6, <3>2 DEF n, s
    <2>7. ASSUME n = d \/ n = [d EXCEPT !.made = TRUE]
          PROVE  n \in FileType /\ n.made /\ ~n.old /\ n.lines = <<>>
      BY <2>3, <2>7 DEF FileType
    <2>8. ASSUME NEW t \in Tails, n = Landed(d, Header, t)
          PROVE  n \in FileType /\ n.made /\ ~n.old /\ n.lines = <<Header>>
      <3>1. Append(<<>>, Header) = <<Header>> /\ <<Header>> \in Seq(Entries \cup {Header})
        OBVIOUS
      <3> QED BY <2>3, <2>8, <3>1 DEF Landed, FileType
    <2>9. ASSUME NEW t \in Tails, n = Spoiled(d, t)
          PROVE  n \in FileType /\ n.made /\ ~n.old /\ n.lines = <<>>
      BY <2>3, <2>9 DEF Spoiled, FileType
    <2>10. \/ n = d \/ n = [d EXCEPT !.made = TRUE]
           \/ \E t \in Tails : n = Landed(d, Header, t)
           \/ \E t \in Tails : n = Spoiled(d, t)
      BY <2>2, <2>3, <2>4, PutCases
    <2> QED BY <2>7, <2>8, <2>9, <2>10, Zenon
  <1>2. CASE k # 0
    <2> DEFINE t == SubSeq(es, 1, k - 1)
               d == File(<<Header>> \o t)
    <2>1. k \in 1 .. Len(es) /\ k - 1 \in 0 .. Len(es) /\ es[k] \in Entries
      BY <1>0, <1>2
    <2>2. t \in Seq(Entries)
      BY <2>1, PrefixIs
    <2>3. SubSeq(s, 1, k) = <<Header>> \o t /\ s[k + 1] = es[k]
      BY <2>1, HeaderPrefix, HeaderFirst
    <2>4. n = Put(d, es[k], w)
      BY <2>3 DEF Begun
    <2> HIDE DEF s, n
    <2>5. d \in FileType /\ d.made /\ d.tail = "clean" /\ ~d.old /\ Loaded(d) = t
      BY <2>2, FileLoads
    <2>6. Append(t, es[k]) = SubSeq(es, 1, k)
      BY <2>1, PrefixGrows
    <2> HIDE DEF d
    <2>7. n \in FileType /\ n.made /\ ~n.old /\ (Loaded(n) = Loaded(d) \/ Loaded(n) = Append(Loaded(d), es[k]))
      <3> HIDE DEF t
      <3>1. es[k] \in Entries /\ n = Put(d, es[k], w)
        BY <2>1, <2>4
      <3>2. d.tail # "whole"
        BY <2>5
      <3>3. d \in FileType /\ es[k] \in Entries
        BY <2>5, <3>1
      <3>4. /\ Put(d, es[k], w) \in FileType
            /\ \/ Loaded(Put(d, es[k], w)) = Loaded(d)
               \/ Loaded(Put(d, es[k], w)) = Append(Loaded(d), es[k])
               \/ d.tail = "whole"
            /\ ~Put(d, es[k], w).made => Put(d, es[k], w) = d
            /\ Put(d, es[k], w).old = d.old
        <4> DEFINE line == es[k]
        <4>1. line \in Entries
          BY <3>3
        <4> HIDE DEF line
        <4>2. /\ Put(d, line, w) \in FileType
              /\ \/ Loaded(Put(d, line, w)) = Loaded(d)
                 \/ Loaded(Put(d, line, w)) = Append(Loaded(d), line)
                 \/ d.tail = "whole"
              /\ ~Put(d, line, w).made => Put(d, line, w) = d
              /\ Put(d, line, w).old = d.old
          BY <3>3, <4>1, PutLoads
        <4> QED BY <4>2 DEF line
      <3> QED BY <2>5, <3>1, <3>2, <3>4
    <2>8. Loaded(n) = SubSeq(es, 1, k - 1) \/ Loaded(n) = SubSeq(es, 1, k)
      BY <2>5, <2>6, <2>7
    <2> QED BY <2>1, <2>7, <2>8 DEF n, s
  <1> QED BY <1>1, <1>2

-----------------------------------------------------------------------------
(* Trees: what appending, cutting, picking and extracting keep.             *)

LEMMA Constants == /\ MaxIds \in Nat /\ MaxOthers \in Nat /\ MaxFaults \in Nat /\ MaxMoves \in Nat
                   /\ MaxFiles \in Nat /\ MaxFiles >= 2 /\ Kinds \subseteq AllKinds
  BY FileAssumption

LEMMA EntryFields ==
  ASSUME NEW e \in Entries
  PROVE  /\ e.id \in 0 .. MaxIds /\ e.id \in Nat /\ e.parent \in 0 .. MaxIds
         /\ e.kind \in AllKinds \cup {"summary"} /\ e.ref \in 0 .. MaxIds
  BY Constants DEF Entries

LEMMA EntryIn ==
  ASSUME NEW i \in 0 .. MaxIds, NEW parent \in 0 .. MaxIds, NEW kind \in AllKinds \cup {"summary"},
         NEW ref \in 0 .. MaxIds
  PROVE  /\ Entry(i, parent, kind, ref) \in Entries
         /\ Entry(i, parent, kind, ref).id = i /\ Entry(i, parent, kind, ref).parent = parent
         /\ Entry(i, parent, kind, ref).kind = kind /\ Entry(i, parent, kind, ref).ref = ref
  BY DEF Entry, Entries

LEMMA TreeFields ==
  ASSUME NEW n, NEW es, Tree(es, n)
  PROVE  /\ es \in Seq(Entries) /\ Len(es) \in Nat /\ DOMAIN es = 1 .. Len(es)
         /\ \A i \in DOMAIN es : /\ es[i] \in Entries /\ es[i].id \in 0 .. MaxIds
                                /\ es[i].id \in Nat /\ es[i].id <= n
         /\ IdsOf(es) \subseteq 0 .. MaxIds
  <1>1. es \in Seq(Entries)
    BY DEF Tree
  <1>2. Len(es) \in Nat /\ DOMAIN es = 1 .. Len(es)
    BY <1>1
  <1>3. \A i \in DOMAIN es : es[i] \in Entries
    BY <1>1, ElementOfSeq
  <1>4. \A i \in DOMAIN es : es[i].id \in 0 .. MaxIds /\ es[i].id \in Nat
    BY <1>3, EntryFields
  <1> QED BY <1>1, <1>2, <1>3, <1>4 DEF Tree, IdsOf

LEMMA EmptyTree == \A n : Tree(<<>>, n) /\ Rooted(<<>>) /\ Named(<<>>)
  BY DEF Tree, Rising, Rooted, Named

LEMMA TreeLater ==
  ASSUME NEW n \in Nat, NEW m \in Nat, n <= m, NEW es, Tree(es, n)
  PROVE  Tree(es, m)
  <1>1. \A i \in DOMAIN es : es[i].id \in Nat /\ es[i].id <= n
    BY TreeFields
  <1>2. \A i \in DOMAIN es : es[i].id <= m
    BY <1>1
  <1> QED BY <1>2 DEF Tree

LEMMA TreeAppend ==
  ASSUME NEW n \in Nat, NEW es, Tree(es, n), NEW e \in Entries, e.id = n + 1
  PROVE  /\ Tree(Append(es, e), n + 1)
         /\ IdsOf(Append(es, e)) = IdsOf(es) \cup {e.id}
         /\ Rooted(es) /\ e.parent \in {0} \cup IdsOf(es) => Rooted(Append(es, e))
         /\ Named(es) => Named(Append(es, e))
  <1> DEFINE a == Append(es, e)
  <1>1. /\ es \in Seq(Entries) /\ Len(es) \in Nat /\ DOMAIN es = 1 .. Len(es)
        /\ \A i \in DOMAIN es : es[i].id \in Nat /\ es[i].id <= n
        /\ Rising(es)
    BY TreeFields DEF Tree
  <1>2. a \in Seq(Entries) /\ Len(a) = Len(es) + 1 /\ DOMAIN a = 1 .. Len(a)
        /\ \A i \in 1 .. Len(a) : a[i] = IF i <= Len(es) THEN es[i] ELSE e
    BY <1>1, AppendIs
  <1> HIDE DEF a
  <1>3. DOMAIN a = 1 .. Len(es) + 1 /\ a[Len(es) + 1] = e /\ \A i \in 1 .. Len(es) : a[i] = es[i]
    BY <1>1, <1>2
  <1>4. \A i \in DOMAIN a : i \in DOMAIN es \/ i = Len(es) + 1
    BY <1>1, <1>3
  <1>5. \A i \in DOMAIN a : a[i].id <= n + 1
    BY <1>1, <1>3, <1>4
  <1>6. Rising(a)
    <2> SUFFICES ASSUME NEW i \in DOMAIN a, NEW j \in DOMAIN a, i < j
                 PROVE  a[i].id < a[j].id \/ (a[i].id = 0 /\ a[j].id = 0)
      BY DEF Rising
    <2>1. i \in DOMAIN es /\ a[i] = es[i]
      BY <1>1, <1>3, <1>4
    <2>2. CASE j \in DOMAIN es
      BY <1>1, <1>3, <2>1, <2>2 DEF Rising
    <2>3. CASE j = Len(es) + 1
      BY <1>1, <1>3, <2>1, <2>3
    <2> QED BY <1>4, <2>2, <2>3
  <1>7. IdsOf(a) = IdsOf(es) \cup {e.id}
    <2>1. \A i \in DOMAIN es : i \in DOMAIN a /\ a[i] = es[i]
      BY <1>1, <1>3
    <2>2. Len(es) + 1 \in DOMAIN a
      BY <1>1, <1>3
    <2>3. \A x \in IdsOf(a) : x \in IdsOf(es) \cup {e.id}
      BY <1>3, <1>4, <2>1 DEF IdsOf
    <2>4. \A x \in IdsOf(es) \cup {e.id} : x \in IdsOf(a)
      BY <1>3, <2>1, <2>2 DEF IdsOf
    <2> QED BY <2>3, <2>4
  <1>8. ASSUME Rooted(es), e.parent \in {0} \cup IdsOf(es) PROVE Rooted(a)
    <2> SUFFICES ASSUME NEW i \in DOMAIN a, a[i].parent # 0
                 PROVE  \E j \in DOMAIN a : j < i /\ a[j].id = a[i].parent
      BY DEF Rooted
    <2>0. \A j \in DOMAIN es : j \in DOMAIN a /\ a[j] = es[j] /\ j < Len(es) + 1
      BY <1>1, <1>3
    <2>1. CASE i \in DOMAIN es
      <3>1. PICK j \in DOMAIN es : j < i /\ es[j].id = es[i].parent
        BY <1>8, <2>0, <2>1 DEF Rooted
      <3> QED BY <2>0, <2>1, <3>1
    <2>2. CASE i = Len(es) + 1
      <3>1. PICK j \in DOMAIN es : es[j].id = e.parent
        BY <1>3, <1>8, <2>2 DEF IdsOf
      <3> QED BY <1>3, <2>0, <2>2, <3>1
    <2> QED BY <1>4, <2>1, <2>2
  <1>9. Tree(a, n + 1)
    BY <1>2, <1>5, <1>6 DEF Tree
  <1>10. Named(es) => Named(a)
    BY <1>1, <1>3, <1>4 DEF Named
  <1> QED BY <1>7, <1>8, <1>9, <1>10 DEF a

LEMMA TreePrefix ==
  ASSUME NEW n, NEW es, Tree(es, n), NEW m \in 0 .. Len(es)
  PROVE  Tree(SubSeq(es, 1, m), n) /\ (Named(es) => Named(SubSeq(es, 1, m)))
  <1> DEFINE p == SubSeq(es, 1, m)
  <1>1. /\ es \in Seq(Entries) /\ Len(es) \in Nat /\ DOMAIN es = 1 .. Len(es)
        /\ \A i \in DOMAIN es : es[i].id <= n
        /\ Rising(es)
    BY TreeFields DEF Tree
  <1>2. p \in Seq(Entries) /\ Len(p) = m /\ \A i \in 1 .. m : p[i] = es[i]
    BY <1>1, PrefixIs
  <1> HIDE DEF p
  <1>3. \A i \in DOMAIN p : i \in DOMAIN es /\ p[i] = es[i]
    BY <1>1, <1>2
  <1>4. Tree(p, n)
    BY <1>1, <1>2, <1>3 DEF Tree, Rising
  <1>5. Named(es) => Named(p)
    BY <1>3 DEF Named
  <1> QED BY <1>4, <1>5 DEF p

LEMMA LastIdIn ==
  ASSUME NEW es \in Seq(Entries)
  PROVE  /\ LastId(es) \in {0} \cup IdsOf(es) /\ LastId(es) \in 0 .. MaxIds
         /\ es # <<>> => Len(es) \in DOMAIN es /\ LastId(es) = es[Len(es)].id
  <1>0. 0 \in 0 .. MaxIds
    BY Constants
  <1>1. CASE es = <<>>
    BY <1>0, <1>1 DEF LastId
  <1>2. CASE es # <<>>
    <2>1. Len(es) \in DOMAIN es /\ LastId(es) = es[Len(es)].id
      BY <1>2, EmptySeq DEF LastId
    <2>2. es[Len(es)] \in Entries
      BY <2>1, ElementOfSeq
    <2> QED BY <1>2, <2>1, <2>2, EntryFields DEF IdsOf
  <1> QED BY <1>1, <1>2

\* What is picked from a tree is in its order.
LEMMA PickedTree ==
  ASSUME NEW n, NEW es, Tree(es, n), NEW at \in SUBSET DOMAIN es
  PROVE  /\ Tree(Picked(es, at), n)
         /\ (\A i \in at : es[i].id # 0) => Named(Picked(es, at))
  <1> DEFINE p == Picked(es, at)
  <1>1. /\ es \in Seq(Entries) /\ Len(es) \in Nat /\ DOMAIN es = 1 .. Len(es)
        /\ \A i \in DOMAIN es : es[i].id <= n
        /\ Rising(es)
    BY TreeFields DEF Tree
  <1>2. p \in Seq(Entries)
    BY <1>1, PickedWorks
  <1>3. PICK o \in [DOMAIN p -> DOMAIN es] :
             \A k \in DOMAIN o : /\ p[k] = es[o[k]] /\ o[k] \in at
                                 /\ \A j \in DOMAIN o : k < j => o[k] < o[j]
    BY <1>1, PickedWorks
  <1> HIDE DEF p
  <1>4. \A k \in DOMAIN p : p[k].id <= n
    BY <1>1, <1>3
  <1>5. Rising(p)
    <2> SUFFICES ASSUME NEW i \in DOMAIN p, NEW j \in DOMAIN p, i < j
                 PROVE  p[i].id < p[j].id \/ (p[i].id = 0 /\ p[j].id = 0)
      BY DEF Rising
    <2>1. o[i] \in DOMAIN es /\ o[j] \in DOMAIN es /\ o[i] < o[j] /\ p[i] = es[o[i]] /\ p[j] = es[o[j]]
      BY <1>3
    <2> QED BY <1>1, <2>1 DEF Rising
  <1>6. Tree(p, n)
    BY <1>2, <1>4, <1>5 DEF Tree
  <1>7. (\A i \in at : es[i].id # 0) => Named(p)
    BY <1>3 DEF Named
  <1> QED BY <1>6, <1>7 DEF p

\* On the way to a root there are only entries with an id.
LEMMA PathTree ==
  ASSUME NEW n, NEW es, Tree(es, n), NEW x
  PROVE  Tree(Path(es, x), n) /\ Named(Path(es, x))
  <1>1. OnPath(es, x) \in SUBSET DOMAIN es
    BY Zenon DEF OnPath
  <1>2. \A i \in OnPath(es, x) : es[i].id # 0
    BY Zenon DEF OnPath
  <1> QED BY <1>1, <1>2, PickedTree DEF Path

\* A chain: every entry the child of the one before it.
LEMMA RechainedTree ==
  ASSUME NEW n, NEW path, Tree(path, n), Named(path)
  PROVE  Tree(Rechained(path), n) /\ Rooted(Rechained(path)) /\ Named(Rechained(path))
  <1> DEFINE p == Kept(path)
             r == Rechained(path)
             par(i) == IF i = 1 THEN 0 ELSE p[i - 1].id
             ref(i) == IF p[i].kind = "compaction" THEN AfterLabels(path, p[i].ref) ELSE p[i].ref
  <1>1. Tree(p, n) /\ Named(p)
    <2> DEFINE at == {i \in DOMAIN path : path[i].kind \notin {"label", "unlabel"}}
    <2>1. at \in SUBSET DOMAIN path /\ \A i \in at : path[i].id # 0
      BY DEF Named
    <2> HIDE DEF at
    <2>2. Tree(Picked(path, at), n) /\ Named(Picked(path, at))
      BY <2>1, PickedTree
    <2> QED BY <2>2 DEF Kept, at
  <1>2. r = [i \in DOMAIN p |-> [p[i] EXCEPT !.parent = par(i), !.ref = ref(i)]]
    BY Zenon DEF Rechained
  <1>3. /\ p \in Seq(Entries) /\ Len(p) \in Nat /\ DOMAIN p = 1 .. Len(p)
        /\ \A i \in DOMAIN p : p[i] \in Entries /\ p[i].id \in 0 .. MaxIds /\ p[i].id <= n
        /\ Rising(p)
    BY <1>1, TreeFields DEF Tree
  <1>4. \A x \in 0 .. MaxIds : AfterLabels(path, x) \in 0 .. MaxIds
    <2> TAKE x \in 0 .. MaxIds
    <2> DEFINE places == {i \in DOMAIN path : path[i].id = x}
               rest == {j \in DOMAIN path : /\ path[j].kind \notin {"label", "unlabel"}
                                            /\ \A i \in places : j >= i}
    <2>1. AfterLabels(path, x) = IF places = {} \/ rest = {} THEN x
                                 ELSE path[CHOOSE j \in rest : \A k \in rest : j <= k].id
      BY Zenon DEF AfterLabels
    <2>2. /\ rest \subseteq DOMAIN path /\ DOMAIN path \subseteq Nat
          /\ \A j \in DOMAIN path : path[j].id \in 0 .. MaxIds
      BY TreeFields
    <2> HIDE DEF rest, places
    <2>3. CASE rest = {}
      BY <2>1, <2>3
    <2>4. CASE rest # {}
      <3>1. rest \in SUBSET Nat
        BY <2>2
      <3>2. \E j \in rest : \A k \in rest : j <= k
        BY <2>4, <3>1, HasLeast
      <3>3. (CHOOSE j \in rest : \A k \in rest : j <= k) \in rest
        BY <3>2, Zenon
      <3>4. path[CHOOSE j \in rest : \A k \in rest : j <= k].id \in 0 .. MaxIds
        BY <2>2, <3>3
      <3> QED BY <2>1, <3>4
    <2> QED BY <2>3, <2>4
  <1>5. ASSUME NEW i \in DOMAIN p
        PROVE  par(i) \in 0 .. MaxIds /\ ref(i) \in 0 .. MaxIds /\ p[i] \in Entries
    <2>1. p[i] \in Entries /\ p[i].ref \in 0 .. MaxIds
      BY <1>3, EntryFields
    <2>2. ref(i) \in 0 .. MaxIds
      BY <1>4, <2>1
    <2>3. CASE i = 1
      BY <2>1, <2>2, <2>3, Constants
    <2>4. CASE i # 1
      <3>1. i - 1 \in DOMAIN p
        BY <1>3, <2>4
      <3>2. p[i - 1].id \in 0 .. MaxIds
        BY <1>3, <3>1
      <3> QED BY <2>1, <2>2, <2>4, <3>2
    <2> QED BY <2>3, <2>4
  <1> HIDE DEF p, r, par, ref
  <1>6. ASSUME NEW i \in DOMAIN p
        PROVE  r[i] \in Entries /\ r[i].id = p[i].id /\ r[i].parent = par(i)
    <2>1. r[i] = [p[i] EXCEPT !.parent = par(i), !.ref = ref(i)]
      BY <1>2, ZenonT(40)
    <2>2. par(i) \in 0 .. MaxIds /\ ref(i) \in 0 .. MaxIds /\ p[i] \in Entries
      BY <1>5
    <2> QED BY <2>1, <2>2 DEF Entries
  <1>7. DOMAIN r = DOMAIN p
    BY <1>2, ZenonT(40)
  <1>8. r \in Seq(Entries)
    <2>1. r = [i \in DOMAIN p |-> r[i]]
      BY <1>2, <1>7, ZenonT(40)
    <2>2. r \in [1 .. Len(p) -> Entries]
      BY <1>3, <1>6, <2>1, SMTT(30)
    <2> QED BY <1>3, <2>2, SeqDef
  <1>9. Tree(r, n)
    <2>1. \A i \in DOMAIN r : r[i].id <= n
      BY <1>3, <1>6, <1>7
    <2>2. Rising(r)
      BY <1>3, <1>6, <1>7 DEF Rising
    <2> QED BY <1>8, <2>1, <2>2 DEF Tree
  <1>10. Rooted(r)
    <2> SUFFICES ASSUME NEW i \in DOMAIN r, r[i].parent # 0
                 PROVE  \E j \in DOMAIN r : j < i /\ r[j].id = r[i].parent
      BY DEF Rooted
    <2>1. i # 1 /\ r[i].parent = p[i - 1].id
      BY <1>6, <1>7 DEF par
    <2>2. i - 1 \in DOMAIN p /\ i - 1 < i
      BY <1>3, <1>7, <2>1
    <2> QED BY <1>6, <1>7, <2>1, <2>2
  <1>11. Named(r)
    BY <1>1, <1>6, <1>7 DEF Named
  <1> QED BY <1>9, <1>10, <1>11 DEF r

\* The labels added after it.
LEMMA RelabelledTree ==
  ASSUME ids \in 0 .. MaxIds, NEW es, Tree(es, ids), Rooted(es), Named(es),
         NEW targets \in SUBSET IdsOf(es),
         ids + Cardinality(targets) <= MaxIds
  PROVE  /\ Cardinality(targets) \in Nat
         /\ Tree(es \o Relabelled(es, targets), ids + Cardinality(targets))
         /\ Rooted(es \o Relabelled(es, targets)) /\ Named(es \o Relabelled(es, targets))
  <1> DEFINE n == Cardinality(targets)
             l == Relabelled(es, targets)
             o == InOrder(targets)
             par(i) == IF i = 1 THEN LastId(es) ELSE ids + i - 1
             a == es \o l
  <1>1. /\ es \in Seq(Entries) /\ Len(es) \in Nat /\ DOMAIN es = 1 .. Len(es)
        /\ \A i \in DOMAIN es : es[i] \in Entries /\ es[i].id \in Ids /\ es[i].id <= ids
        /\ IdsOf(es) \subseteq Ids /\ Rising(es)
    <2>1. /\ es \in Seq(Entries) /\ Len(es) \in Nat /\ DOMAIN es = 1 .. Len(es) /\ Rising(es)
          /\ \A i \in DOMAIN es : es[i] \in Entries /\ es[i].id \in 0 .. MaxIds /\ es[i].id <= ids
      BY TreeFields DEF Tree
    <2>2. \A i \in DOMAIN es : es[i].id \in Ids
      BY <2>1, Constants DEF Named, Ids
    <2> QED BY <2>1, <2>2 DEF IdsOf
  <1>2. n \in Nat /\ o \in [1 .. n -> targets]
    <2>1. targets \in SUBSET (1 .. MaxIds)
      BY <1>1 DEF Ids
    <2> QED BY <2>1, Constants, InOrderWorks
  <1>3. l = [i \in 1 .. n |-> Entry(ids + i, par(i), "label", o[i])]
    BY Zenon DEF Relabelled
  <1>4. ids \in Nat /\ ids + n <= MaxIds /\ MaxIds \in Nat
    BY Constants
  <1> HIDE DEF n, l, o
  <1>5. ASSUME NEW i \in 1 .. n
        PROVE  l[i] \in Entries /\ l[i].id = ids + i /\ l[i].parent = par(i)
    <2>1. ids + i \in 0 .. MaxIds
      BY <1>2, <1>4
    <2>2. par(i) \in 0 .. MaxIds
      <3>1. LastId(es) \in 0 .. MaxIds
        BY <1>1, LastIdIn
      <3>2. ids + i - 1 \in 0 .. MaxIds
        BY <1>2, <1>4
      <3> QED BY <3>1, <3>2
    <2>3. o[i] \in 0 .. MaxIds
      BY <1>1, <1>2 DEF Ids
    <2>4. "label" \in AllKinds \cup {"summary"}
      BY DEF AllKinds
    <2> HIDE DEF par
    <2> QED BY <1>3, <2>1, <2>2, <2>3, <2>4, EntryIn
  <1>6. l \in Seq(Entries) /\ Len(l) = n
    <2>1. l \in [1 .. n -> Entries] /\ DOMAIN l = 1 .. n
      BY <1>3, <1>5
    <2> QED BY <1>2, <2>1, SeqDef, LenProperties
  <1>7. /\ a \in Seq(Entries) /\ Len(a) = Len(es) + n
        /\ \A i \in 1 .. Len(es) + n : a[i] = IF i <= Len(es) THEN es[i] ELSE l[i - Len(es)]
    BY <1>1, <1>6, ConcatProperties
  <1> HIDE DEF a
  <1>8. /\ DOMAIN a = 1 .. Len(es) + n
        /\ \A i \in DOMAIN es : i \in DOMAIN a /\ a[i] = es[i] /\ i <= Len(es)
    BY <1>1, <1>2, <1>7
  <1>9. ASSUME NEW i \in DOMAIN a, i \notin DOMAIN es
        PROVE  /\ i - Len(es) \in 1 .. n /\ a[i] = l[i - Len(es)] /\ i > Len(es)
               /\ a[i].id = ids + (i - Len(es)) /\ a[i].parent = par(i - Len(es))
    <2>1. i - Len(es) \in 1 .. n /\ a[i] = l[i - Len(es)] /\ i > Len(es)
      BY <1>1, <1>2, <1>7, <1>8, <1>9
    <2> HIDE DEF par
    <2> QED BY <1>5, <2>1
  <1>10. \A i \in DOMAIN a : a[i].id <= ids + n
    <2> TAKE i \in DOMAIN a
    <2>1. CASE i \in DOMAIN es
      <3>1. a[i] = es[i] /\ es[i].id \in Nat /\ es[i].id <= ids
        BY <1>1, <1>8, <2>1 DEF Ids
      <3> QED BY <1>2, <1>4, <3>1
    <2>2. CASE i \notin DOMAIN es
      <3>1. i - Len(es) \in 1 .. n /\ a[i].id = ids + (i - Len(es))
        BY <1>9, <2>2
      <3> QED BY <1>1, <1>2, <1>4, <3>1
    <2> QED BY <2>1, <2>2
  <1>11. Rising(a)
    <2> SUFFICES ASSUME NEW i \in DOMAIN a, NEW j \in DOMAIN a, i < j
                 PROVE  a[i].id < a[j].id \/ (a[i].id = 0 /\ a[j].id = 0)
      BY DEF Rising
    <2>1. CASE i \in DOMAIN es /\ j \in DOMAIN es
      BY <1>1, <1>8, <2>1 DEF Rising
    <2>2. CASE i \in DOMAIN es /\ j \notin DOMAIN es
      <3>1. a[i] = es[i] /\ es[i].id \in Nat /\ es[i].id <= ids
        BY <1>1, <1>8, <2>2 DEF Ids
      <3>2. j - Len(es) \in 1 .. n /\ a[j].id = ids + (j - Len(es))
        BY <1>9, <2>2
      <3> QED BY <1>1, <1>2, <1>4, <3>1, <3>2
    <2>3. CASE i \notin DOMAIN es
      <3>1. i - Len(es) \in 1 .. n /\ a[i].id = ids + (i - Len(es)) /\ i > Len(es)
        BY <1>9, <2>3
      <3>2. j \notin DOMAIN es
        BY <1>1, <1>8, <3>1
      <3>3. j - Len(es) \in 1 .. n /\ a[j].id = ids + (j - Len(es))
        BY <1>9, <3>2
      <3> QED BY <1>1, <1>2, <1>4, <1>8, <3>1, <3>3
    <2> QED BY <2>1, <2>2, <2>3
  <1>12. Rooted(a)
    <2> SUFFICES ASSUME NEW i \in DOMAIN a, a[i].parent # 0
                 PROVE  \E j \in DOMAIN a : j < i /\ a[j].id = a[i].parent
      BY DEF Rooted
    <2>1. CASE i \in DOMAIN es
      <3>1. PICK j \in DOMAIN es : j < i /\ es[j].id = es[i].parent
        BY <1>8, <2>1 DEF Rooted
      <3> QED BY <1>8, <2>1, <3>1
    <2>2. CASE i \notin DOMAIN es
      <3> DEFINE k == i - Len(es)
      <3>1. k \in 1 .. n /\ a[i].parent = par(k) /\ i > Len(es)
        BY <1>9, <2>2
      <3>2. CASE k = 1
        <4>1. a[i].parent = LastId(es)
          BY <3>1, <3>2
        <4>2. es # <<>>
          BY <4>1 DEF LastId
        <4>3. Len(es) \in DOMAIN es /\ LastId(es) = es[Len(es)].id
          BY <1>1, <4>2, LastIdIn
        <4> QED BY <1>8, <3>1, <4>1, <4>3
      <3>3. CASE k # 1
        <4>1. a[i].parent = ids + k - 1
          BY <3>1, <3>3
        <4>2. i - 1 \in DOMAIN a /\ i - 1 \notin DOMAIN es /\ i - 1 < i /\ i \in Nat
          BY <1>1, <1>2, <1>8, <3>1, <3>3
        <4>3. a[i - 1].id = ids + ((i - 1) - Len(es))
          BY <1>9, <4>2
        <4>4. a[i - 1].id = a[i].parent
          BY <1>1, <1>4, <4>1, <4>2, <4>3
        <4> QED BY <4>2, <4>4
      <3> QED BY <3>2, <3>3
    <2> QED BY <2>1, <2>2
  <1>13. Tree(a, ids + n)
    BY <1>7, <1>10, <1>11 DEF Tree
  <1>14. Named(a)
    <2> SUFFICES ASSUME NEW i \in DOMAIN a PROVE a[i].id # 0
      BY DEF Named
    <2>1. CASE i \in DOMAIN es
      BY <1>8, <2>1 DEF Named
    <2>2. CASE i \notin DOMAIN es
      <3> DEFINE k == i - Len(es)
      <3>1. k \in 1 .. n /\ a[i].id = ids + k
        BY <1>9, <2>2
      <3> HIDE DEF k
      <3> QED BY <1>2, <1>4, <3>1
    <2> QED BY <2>1, <2>2
  <1> QED BY <1>2, <1>12, <1>13, <1>14 DEF a, l, n

\* A migration gives every entry a new one, and no more.
LEMMA MigratedLength ==
  ASSUME NEW es \in Seq(Entries)
  PROVE  Len(Migrated(es)) = Len(es) /\ (es = <<>> => Migrated(es) = <<>>)
  <1> DEFINE m == Migrated(es)
             S == {m[i] : i \in 1 .. Len(es)}
  <1>1. DOMAIN m = 1 .. Len(es) /\ m = [i \in 1 .. Len(es) |-> m[i]] /\ Len(es) \in Nat
    BY DEF Migrated
  <1> HIDE DEF m
  <1>2. m \in [1 .. Len(es) -> S]
    BY <1>1
  <1> HIDE DEF S
  <1>3. m \in Seq(S) /\ Len(m) = Len(es)
    BY <1>1, <1>2, SeqDef, LenProperties
  <1>4. es = <<>> => m = <<>>
    BY <1>3, EmptySeq
  <1> QED BY <1>3, <1>4 DEF m

\* What a file in the old format becomes: the same entries, with ids in order,
\* each the child of the one before it.
LEMMA MigratedTree ==
  ASSUME ids \in 0 .. MaxIds, NEW es \in Seq(Entries), ids + Len(es) <= MaxIds
  PROVE  /\ Tree(Migrated(es), ids + Len(es)) /\ Rooted(Migrated(es)) /\ Named(Migrated(es))
         /\ Said(Migrated(es)) = Said(es)
  <1> DEFINE m == Migrated(es)
             par(i) == IF i = 1 THEN 0 ELSE ids + i - 1
  <1>1. m = [i \in DOMAIN es |-> [es[i] EXCEPT !.id = ids + i, !.parent = par(i)]]
    BY Zenon DEF Migrated
  <1>2. /\ Len(es) \in Nat /\ DOMAIN es = 1 .. Len(es) /\ ids \in Nat /\ MaxIds \in Nat
        /\ \A i \in DOMAIN es : es[i] \in Entries
    BY Constants, ElementOfSeq
  <1> HIDE DEF m
  <1>3. DOMAIN m = 1 .. Len(es)
    BY <1>1, <1>2
  <1>4. ASSUME NEW i \in DOMAIN es
        PROVE  /\ m[i] \in Entries /\ m[i].id = ids + i /\ m[i].parent = par(i)
               /\ m[i].kind = es[i].kind
    <2>1. m[i] = [es[i] EXCEPT !.id = ids + i, !.parent = par(i)] /\ es[i] \in Entries
      BY <1>1, <1>2
    <2>2. ids + i \in 0 .. MaxIds /\ par(i) \in 0 .. MaxIds
      BY <1>2
    <2> HIDE DEF par
    <2> QED BY <2>1, <2>2 DEF Entries
  <1>5. m \in Seq(Entries)
    <2>1. m = [i \in DOMAIN es |-> m[i]]
      BY <1>1
    <2>2. m \in [1 .. Len(es) -> Entries]
      BY <1>2, <1>4, <2>1
    <2> QED BY <1>2, <2>2, SeqDef
  <1> HIDE DEF par
  <1>6. \A i \in DOMAIN m : m[i].id = ids + i /\ m[i].id <= ids + Len(es) /\ m[i].id # 0
    BY <1>2, <1>3, <1>4
  <1>7. Tree(m, ids + Len(es)) /\ Named(m)
    <2>1. Rising(m)
      BY <1>2, <1>3, <1>6 DEF Rising
    <2> QED BY <1>5, <1>6, <2>1 DEF Tree, Named
  <1>8. Rooted(m)
    <2> SUFFICES ASSUME NEW i \in DOMAIN m, m[i].parent # 0
                 PROVE  \E j \in DOMAIN m : j < i /\ m[j].id = m[i].parent
      BY DEF Rooted
    <2>1. m[i].parent = par(i) /\ i # 1
      BY <1>2, <1>3, <1>4 DEF par
    <2>2. i - 1 \in DOMAIN m /\ i - 1 < i /\ m[i].parent = ids + (i - 1)
      BY <1>2, <1>3, <2>1 DEF par
    <2> QED BY <1>6, <2>2
  <1>9. Said(m) = Said(es)
    <2>1. DOMAIN m = DOMAIN es
      BY <1>2, <1>3
    <2> QED BY <1>4, <2>1 DEF Said
  <1> QED BY <1>7, <1>8, <1>9 DEF m

-----------------------------------------------------------------------------
(* Files after a step: one left alone, one written whole, one cut off, one   *)
(* an entry longer.                                                         *)

LEMMA Untouched ==
  ASSUME NEW f \in Files, FileOK(f), disk'[f] = disk[f], ids \in Nat, ids' \in Nat, ids <= ids',
         hurt \subseteq hurt', raw \subseteq raw', used \in Nat, used' \in Nat, used <= used'
  PROVE  FileOK(f)'
  <1>1. Tree(Loaded(disk[f]), ids')
    BY TreeLater DEF FileOK
  <1>2. hurt' = {} => hurt = {}
    OBVIOUS
  <1>3. f > used' => f > used
    BY Constants DEF Files
  <1>4. f \notin raw' => f \notin raw
    OBVIOUS
  <1> QED BY <1>1, <1>2, <1>3, <1>4 DEF FileOK

LEMMA WrittenWhole ==
  ASSUME NEW f \in Files, NEW es, disk'[f] = File(<<Header>> \o es), Tree(es, ids'),
         hurt' = {} => Rooted(es), f \notin raw' => Named(es), used' \in Nat, f <= used'
  PROVE  FileOK(f)'
  <1> DEFINE d == disk'[f]
  <1>1. es \in Seq(Entries)
    BY TreeFields
  <1>2. d \in FileType /\ Valid(d) /\ Loaded(d) = es /\ d.made /\ d.tail = "clean"
    BY <1>1, FileLoads
  <1>3. ~ (f > used')
    BY Constants DEF Files
  <1> QED BY <1>2, <1>3 DEF FileOK

LEMMA CutOff ==
  ASSUME NEW f \in Files, NEW es, NEW k \in 0 .. Len(es), NEW w \in Outcomes,
         disk'[f] = Begun(<<Header>> \o es, k, w), Tree(es, ids'),
         f \in hurt', f \notin raw' => Named(es), used' \in Nat, f <= used'
  PROVE  FileOK(f)'
  <1> DEFINE d == disk'[f]
  <1>1. es \in Seq(Entries)
    BY TreeFields
  <1>2. d \in FileType /\ d.made /\ \E m \in 0 .. Len(es) : Loaded(d) = SubSeq(es, 1, m)
    BY <1>1, BegunLoads
  <1>3. Tree(Loaded(d), ids') /\ (f \notin raw' => Named(Loaded(d)))
    BY <1>2, TreePrefix
  <1>4. ~ (f > used')
    BY Constants DEF Files
  <1>5. hurt' # {}
    OBVIOUS
  <1> QED BY <1>2, <1>3, <1>4, <1>5 DEF FileOK

Saves(d, n) == \/ Prefix(Loaded(d), Loaded(n))
               \/ d.tail = "whole" /\ Loaded(n) = Shorter(Loaded(d))
               \/ d.old /\ Prefix(Said(Loaded(d)), Said(Loaded(n)))

LEMMA PrefixHolds ==
  ASSUME NEW S, NEW s \in Seq(S)
  PROVE  /\ Prefix(s, s) /\ Prefix(<<>>, s)
         /\ \A e \in S : Prefix(s, Append(s, e))
  <1>1. Len(s) \in Nat
    OBVIOUS
  <1>2. Prefix(s, s)
    <2> DEFINE t == SubSeq(s, 1, Len(s))
    <2>1. Len(s) \in 0 .. Len(s)
      BY <1>1
    <2>2. t \in Seq(S) /\ Len(t) = Len(s) /\ \A i \in 1 .. Len(s) : t[i] = s[i]
      BY <2>1, PrefixIs
    <2> HIDE DEF t
    <2>3. t = s
      BY <2>2, SeqEqual
    <2> QED BY <1>1, <2>3 DEF Prefix, t
  <1>3. Prefix(<<>>, s)
    <2>1. SubSeq(s, 1, 0) = <<>>
      OBVIOUS
    <2> QED BY <1>1, <2>1 DEF Prefix
  <1>4. ASSUME NEW e \in S PROVE Prefix(s, Append(s, e))
    <2> DEFINE a == Append(s, e)
               t == SubSeq(a, 1, Len(s))
    <2>1. a \in Seq(S) /\ Len(a) = Len(s) + 1
          /\ \A i \in 1 .. Len(a) : a[i] = IF i <= Len(s) THEN s[i] ELSE e
      BY AppendIs
    <2> HIDE DEF a
    <2>2. Len(s) \in 0 .. Len(a)
      BY <1>1, <2>1
    <2>3. t \in Seq(S) /\ Len(t) = Len(s) /\ \A i \in 1 .. Len(s) : t[i] = a[i]
      BY <2>1, <2>2, PrefixIs
    <2>4. \A i \in 1 .. Len(t) : t[i] = s[i]
      BY <1>1, <2>1, <2>3
    <2> HIDE DEF t
    <2>5. t = s
      BY <2>3, <2>4, SeqEqual
    <2> QED BY <1>1, <2>1, <2>5 DEF Prefix, t, a
  <1> QED BY <1>2, <1>3, <1>4

LEMMA SaidIs ==
  ASSUME NEW es \in Seq(Entries)
  PROVE  /\ Said(es) \in Seq(AllKinds \cup {"summary"}) /\ Len(Said(es)) = Len(es)
         /\ \A i \in 1 .. Len(es) : Said(es)[i] = es[i].kind
  <1>1. Len(es) \in Nat /\ DOMAIN es = 1 .. Len(es)
    OBVIOUS
  <1>2. \A i \in DOMAIN es : es[i].kind \in AllKinds \cup {"summary"}
    BY ElementOfSeq, EntryFields
  <1>3. Said(es) \in [1 .. Len(es) -> AllKinds \cup {"summary"}]
    BY <1>1, <1>2 DEF Said
  <1>4. Said(es) \in Seq(AllKinds \cup {"summary"}) /\ Len(Said(es)) = Len(es)
    BY <1>1, <1>3, SeqDef, LenProperties
  <1> QED BY <1>1, <1>4 DEF Said

LEMMA SavesSame ==
  ASSUME NEW d \in FileType, NEW es, Tree(Loaded(d), es), NEW n, Loaded(n) = Loaded(d)
  PROVE  Saves(d, n)
  <1>1. Loaded(d) \in Seq(Entries)
    BY TreeFields
  <1> QED BY <1>1, PrefixHolds DEF Saves

LEMMA MissingLoads == Loaded(Missing) = <<>> /\ Missing \in FileType
  <1>1. <<>> \in Seq(Entries \cup {Header})
    BY EmptySeq
  <1>2. Missing \in FileType
    BY <1>1 DEF Missing, FileType, Tails
  <1>3. Missing.lines = <<>>
    BY DEF Missing
  <1> QED BY <1>2, <1>3 DEF Loaded, Valid

LEMMA SavesMissing ==
  ASSUME NEW n, Loaded(n) \in Seq(Entries)
  PROVE  Saves(Missing, n)
  BY MissingLoads, PrefixHolds DEF Saves

\* A longer list says what a shorter one says, and more.
LEMMA SaidPrefix ==
  ASSUME NEW s \in Seq(Entries), NEW t \in Seq(Entries), Prefix(s, t)
  PROVE  Prefix(Said(s), Said(t))
  <1> DEFINE K == AllKinds \cup {"summary"}
             a == Said(s)
             b == Said(t)
  <1>1. Len(s) \in Nat /\ Len(t) \in Nat /\ Len(s) <= Len(t) /\ SubSeq(t, 1, Len(s)) = s
    BY DEF Prefix
  <1>2. \A i \in 1 .. Len(s) : s[i] = t[i]
    <2>1. Len(s) \in 0 .. Len(t)
      BY <1>1
    <2> QED BY <1>1, <2>1, PrefixIs
  <1>3. /\ a \in Seq(K) /\ Len(a) = Len(s) /\ \A i \in 1 .. Len(s) : a[i] = s[i].kind
        /\ b \in Seq(K) /\ Len(b) = Len(t) /\ \A i \in 1 .. Len(t) : b[i] = t[i].kind
    BY SaidIs
  <1> HIDE DEF a, b, K
  <1> DEFINE c == SubSeq(b, 1, Len(a))
  <1>4. c \in Seq(K) /\ Len(c) = Len(a) /\ \A i \in 1 .. Len(a) : c[i] = b[i]
    <2>1. Len(a) \in 0 .. Len(b)
      BY <1>1, <1>3
    <2> QED BY <1>3, <2>1, PrefixIs
  <1> HIDE DEF c
  <1>5. \A i \in 1 .. Len(c) : c[i] = a[i]
    BY <1>1, <1>2, <1>3, <1>4
  <1>6. c = a
    BY <1>3, <1>4, <1>5, SeqEqual
  <1> QED BY <1>1, <1>3, <1>6 DEF Prefix, a, b, c

\* An entry appended to the file of the session.
LEMMA PutKeeps ==
  ASSUME FileInv, NEW e \in Entries, e.id = ids + 1, e.parent \in {0} \cup IdsOf(entries),
         NEW w \in Outcomes, disk'[cur] = Put(disk[cur], e, w), flushed,
         IF w = "ok" THEN hurt' = hurt ELSE hurt' = hurt \cup {cur},
         cur' = cur, used' = used, ids' = ids + 1, entries' = Append(entries, e), flushed' = flushed,
         raw' = raw
  PROVE  FileOK(cur)' /\ Synced' /\ Saves(disk[cur], disk'[cur]) /\ disk'[cur] \in FileType
  <1> DEFINE d == disk[cur]
             n == Put(d, e, w)
  <1>1. FileOK(cur) /\ cur <= used /\ used \in Nat /\ cur \in Nat /\ cur \in Files /\ ids \in Nat
    BY Constants DEF FileInv, Bounds, Files
  <1>2. d \in FileType /\ Tree(Loaded(d), ids) /\ Loaded(d) \in Seq(Entries)
    BY <1>1, TreeFields DEF FileOK
  <1>3. disk'[cur] = n
    OBVIOUS
  <1> HIDE DEF d
  <1>4. /\ n \in FileType
        /\ \/ Loaded(n) = Loaded(d)
           \/ Loaded(n) = Append(Loaded(d), e)
           \/ Loaded(n) = Shorter(Loaded(d)) /\ Loaded(d) # <<>> /\ d.tail = "whole"
        /\ ~n.made => n = d
        /\ n.old = d.old
        /\ w = "ok" /\ Valid(d) /\ d.tail = "clean" =>
             /\ Loaded(n) = Append(Loaded(d), e)
             /\ Valid(n) /\ n.tail = "clean"
        /\ w = "ok" => n.made
    BY <1>2, PutLoads
  <1> HIDE DEF n
  <1>4a. ~d.old /\ ~n.old /\ (cur \notin raw => Named(Loaded(d)))
    BY <1>1, <1>4 DEF FileInv, Synced, FileOK, d
  <1>5. Tree(Loaded(n), ids + 1) /\ (cur \notin raw => Named(Loaded(n)))
    <2>1. CASE Loaded(n) = Loaded(d)
      BY <1>1, <1>2, <1>4a, <2>1, TreeLater
    <2>2. CASE Loaded(n) = Append(Loaded(d), e)
      BY <1>1, <1>2, <1>4a, <2>2, TreeAppend
    <2>3. CASE Loaded(n) = Shorter(Loaded(d)) /\ Loaded(d) # <<>>
      <3>1. Len(Loaded(d)) - 1 \in 0 .. Len(Loaded(d))
        BY <1>2, <2>3, EmptySeq
      <3>2. Tree(Loaded(n), ids) /\ (cur \notin raw => Named(Loaded(n)))
        BY <1>2, <1>4a, <2>3, <3>1, TreePrefix DEF Shorter
      <3> QED BY <1>1, <3>2, TreeLater
    <2> QED BY <1>4, <2>1, <2>2, <2>3
  <1>6. ASSUME cur \notin hurt'
        PROVE  /\ w = "ok" /\ cur \notin hurt /\ Valid(n) /\ n.tail = "clean" /\ n.made
               /\ Loaded(n) = Append(entries, e)
    <2>1. w = "ok" /\ cur \notin hurt
      BY <1>6
    <2>2. d.made /\ Loaded(d) = entries
      BY <2>1 DEF FileInv, Synced, d
    <2>3. Valid(d) /\ d.tail = "clean"
      BY <1>1, <2>1, <2>2 DEF FileOK, d
    <2> QED BY <1>4, <2>1, <2>2, <2>3
  <1>7. Synced'
    BY <1>3, <1>4a, <1>6 DEF Synced
  <1>8. Saves(d, n)
    BY <1>2, <1>4, PrefixHolds DEF Saves
  <1>9. hurt' = {} => Rooted(Loaded(n))
    <2> SUFFICES ASSUME hurt' = {} PROVE Rooted(Loaded(n))
      OBVIOUS
    <2>1. hurt = {} /\ cur \notin hurt'
      OBVIOUS
    <2>2. Rooted(entries) /\ Tree(entries, ids)
      BY <2>1 DEF FileInv, MemoryOK
    <2>3. Rooted(Append(entries, e))
      BY <1>1, <2>2, TreeAppend
    <2> QED BY <1>6, <2>1, <2>3
  <1>10. ~n.made => n = Missing
    BY <1>1, <1>4 DEF FileOK, d
  <1>11. ~ (cur > used)
    BY <1>1
  <1>12. FileOK(cur)'
    BY <1>3, <1>4, <1>4a, <1>5, <1>6, <1>9, <1>10, <1>11 DEF FileOK
  <1> QED BY <1>3, <1>4, <1>7, <1>8, <1>12 DEF d

\* The first write of a session, and a write that is not made.
LEMMA PersistKeeps ==
  ASSUME FileInv, ids < MaxIds, NEW e \in Entries, e.id = ids + 1,
         e.parent \in {0} \cup IdsOf(entries), Persist(e, Append(entries, e)),
         cur' = cur, used' = used, ids' = ids + 1, entries' = Append(entries, e), raw' = raw
  PROVE  /\ \A f \in Files : FileOK(f)' /\ Saves(disk[f], disk'[f])
         /\ disk' \in [Files -> FileType]
         /\ Synced' /\ flushed' \in BOOLEAN
         /\ hurt \subseteq hurt' /\ hurt' \subseteq Files /\ faults' \in 0 .. MaxFaults
         /\ \A f \in Files : f # cur => disk'[f] = disk[f]
  <1> DEFINE es == Append(entries, e)
  <1>1. /\ cur \in Files /\ cur <= used /\ used \in Nat /\ ids \in Nat /\ hurt \subseteq Files
        /\ faults \in 0 .. MaxFaults /\ disk \in [Files -> FileType] /\ flushed \in BOOLEAN
    BY Constants DEF FileInv, Bounds, Files, MemoryOK
  <1>2. /\ Tree(entries, ids) /\ (hurt = {} => Rooted(entries)) /\ FileOK(cur)
        /\ (cur \notin raw => Named(entries)) /\ ~disk[cur].old /\ raw \subseteq raw'
    BY <1>1 DEF FileInv, MemoryOK, Synced
  <1>3. /\ Tree(es, ids + 1) /\ (hurt = {} => Rooted(es)) /\ es \in Seq(Entries)
        /\ (cur \notin raw' => Named(es))
    <2>1. Tree(es, ids + 1) /\ (hurt = {} => Rooted(es)) /\ (cur \notin raw' => Named(es))
      BY <1>1, <1>2, TreeAppend
    <2> HIDE DEF es
    <2> QED BY <2>1, TreeFields
  <1>4. NoFault => hurt' = hurt /\ faults' = faults
    BY DEF NoFault
  <1>5. Faulty(cur) => hurt' = hurt \cup {cur} /\ faults' \in 0 .. MaxFaults
    BY <1>1, Constants DEF Faulty
  <1> HIDE DEF es
  <1>6. ASSUME NEW n \in FileType, disk' = [disk EXCEPT ![cur] = n],
               FileOK(cur)', Saves(disk[cur], n), Synced', flushed' \in BOOLEAN,
               NoFault \/ Faulty(cur)
        PROVE  /\ \A f \in Files : FileOK(f)' /\ Saves(disk[f], disk'[f])
               /\ disk' \in [Files -> FileType]
               /\ hurt \subseteq hurt' /\ hurt' \subseteq Files /\ faults' \in 0 .. MaxFaults
               /\ \A f \in Files : f # cur => disk'[f] = disk[f]
    <2>1. hurt \subseteq hurt' /\ hurt' \subseteq Files /\ faults' \in 0 .. MaxFaults
      BY <1>1, <1>4, <1>5, <1>6
    <2>2. disk' \in [Files -> FileType] /\ disk'[cur] = n
      BY <1>1, <1>6
    <2>3. \A f \in Files : f # cur => disk'[f] = disk[f]
      BY <1>1, <1>6
    <2>4. ASSUME NEW f \in Files PROVE FileOK(f)' /\ Saves(disk[f], disk'[f])
      <3>1. CASE f = cur
        BY <1>6, <2>2, <3>1
      <3>2. CASE f # cur
        <4>1. FileOK(f) /\ disk'[f] = disk[f] /\ ids' \in Nat /\ ids <= ids' /\ used <= used'
          BY <1>1, <2>3, <3>2 DEF FileInv
        <4>2. FileOK(f)'
          BY <1>1, <1>2, <2>1, <4>1, Untouched
        <4>3. Saves(disk[f], disk'[f])
          BY <4>1, SavesSame DEF FileOK
        <4> QED BY <4>2, <4>3
      <3> QED BY <3>1, <3>2
    <2> QED BY <2>1, <2>2, <2>3, <2>4
  <1>7. CASE flushed
    <2>1. PICK w \in Outcomes : /\ disk' = [disk EXCEPT ![cur] = Put(disk[cur], e, w)]
                                /\ IF w = "ok" THEN NoFault ELSE Faulty(cur)
                                /\ flushed' = flushed
      BY <1>7, Zenon DEF Persist
    <2>2. disk'[cur] = Put(disk[cur], e, w)
      BY <1>1, <2>1
    <2>3. IF w = "ok" THEN hurt' = hurt ELSE hurt' = hurt \cup {cur}
      BY <1>4, <1>5, <2>1
    <2>4. FileOK(cur)' /\ Synced' /\ Saves(disk[cur], disk'[cur]) /\ disk'[cur] \in FileType
      BY <1>7, <2>1, <2>2, <2>3, PutKeeps
    <2>5. NoFault \/ Faulty(cur)
      BY <2>1
    <2> QED BY <1>1, <1>6, <2>1, <2>2, <2>4, <2>5, Zenon
  <1>8. CASE ~flushed
    <2>1. cur \notin hurt => ~disk[cur].made
      BY <1>8 DEF FileInv, Synced
    <2>2. CASE ~AnsweredIn(es) \/ disk[cur].made
      <3>1. disk' = disk /\ flushed' = flushed /\ NoFault
        BY <1>8, <2>2, Zenon DEF Persist, es
      <3>2. disk' = [disk EXCEPT ![cur] = disk[cur]] /\ disk[cur] \in FileType /\ disk'[cur] = disk[cur]
        BY <1>1, <3>1
      <3>3. FileOK(cur)'
        BY <1>1, <1>2, <1>4, <3>1, <3>2, Untouched
      <3>4. Saves(disk[cur], disk[cur])
        BY <1>2, SavesSame DEF FileOK
      <3>5. Synced'
        <4>1. cur \notin hurt => ~AnsweredIn(entries')
          BY <2>1, <2>2 DEF es
        <4> QED BY <1>2, <1>4, <1>8, <2>1, <3>1, <4>1 DEF Synced
      <3> QED BY <1>1, <1>6, <3>1, <3>2, <3>3, <3>4, <3>5
    <2>3. CASE AnsweredIn(es) /\ ~disk[cur].made
      <3>0. disk[cur] = Missing
        BY <1>2, <2>3 DEF FileOK
      <3>1. \/ /\ disk' = [disk EXCEPT ![cur] = File(PersistFirst(es))]
               /\ flushed' = TRUE /\ NoFault
            \/ \E k \in 0 .. Len(es), w \in Outcomes \ {"ok"} :
                 /\ disk' = [disk EXCEPT ![cur] = IF w = "refused" THEN disk[cur]
                                                  ELSE Begun(PersistFirst(es), k, w)]
                 /\ Faulty(cur) /\ flushed' = flushed
        BY <1>8, <2>3, Zenon DEF Persist, es
      <3>2. CASE disk' = [disk EXCEPT ![cur] = File(PersistFirst(es))] /\ flushed' = TRUE /\ NoFault
        <4> DEFINE n == File(<<Header>> \o es)
        <4>1. disk' = [disk EXCEPT ![cur] = n] /\ disk'[cur] = n
          BY <1>1, <3>2 DEF PersistFirst
        <4>2. n \in FileType /\ Loaded(n) = es /\ n.made /\ ~n.old
          BY <1>3, FileLoads
        <4>3. FileOK(cur)'
          BY <1>1, <1>3, <1>4, <3>2, <4>1, WrittenWhole
        <4> HIDE DEF n
        <4>4. Synced'
          BY <3>2, <4>1, <4>2 DEF Synced, es
        <4>5. Saves(disk[cur], n)
          BY <1>3, <3>0, <4>2, SavesMissing
        <4> QED BY <1>6, <3>2, <4>1, <4>2, <4>3, <4>4, <4>5
      <3>3. ASSUME NEW k \in 0 .. Len(es), NEW w \in Outcomes \ {"ok"}, w # "refused",
                   disk' = [disk EXCEPT ![cur] = Begun(PersistFirst(es), k, w)],
                   Faulty(cur), flushed' = flushed
            PROVE  \E n \in FileType : /\ disk' = [disk EXCEPT ![cur] = n] /\ FileOK(cur)'
                                       /\ Saves(disk[cur], n) /\ Synced'
        <4> DEFINE n == Begun(<<Header>> \o es, k, w)
        <4>1. disk' = [disk EXCEPT ![cur] = n] /\ disk'[cur] = n
          BY <1>1, <3>3 DEF PersistFirst
        <4>2. n \in FileType /\ ~n.old /\ \E m \in 0 .. Len(es) : Loaded(n) = SubSeq(es, 1, m)
          BY <1>3, BegunLoads
        <4>3. Loaded(n) \in Seq(Entries)
          BY <1>3, <4>2, PrefixIs
        <4>4. cur \in hurt'
          BY <1>5, <3>3
        <4>5. FileOK(cur)'
          BY <1>1, <1>3, <4>1, <4>4, CutOff
        <4> HIDE DEF n
        <4>6. Saves(disk[cur], n)
          BY <3>0, <4>3, SavesMissing
        <4>7. Synced'
          BY <4>1, <4>2, <4>4 DEF Synced
        <4> QED BY <4>1, <4>2, <4>5, <4>6, <4>7
      <3>4. ASSUME disk' = [disk EXCEPT ![cur] = disk[cur]], Faulty(cur), flushed' = flushed
            PROVE  \E n \in FileType : /\ disk' = [disk EXCEPT ![cur] = n] /\ FileOK(cur)'
                                       /\ Saves(disk[cur], n) /\ Synced'
        <4>1. disk[cur] \in FileType /\ disk'[cur] = disk[cur]
          BY <1>1, <3>4
        <4>2. cur \in hurt' /\ hurt \subseteq hurt'
          BY <1>5, <3>4
        <4>3. FileOK(cur)'
          BY <1>1, <1>2, <4>1, <4>2, Untouched
        <4>4. Saves(disk[cur], disk[cur])
          BY <1>2, SavesSame DEF FileOK
        <4>5. Synced'
          BY <1>2, <4>1, <4>2 DEF Synced
        <4> QED BY <3>4, <4>1, <4>3, <4>4, <4>5
      <3>5. CASE \E k \in 0 .. Len(es), w \in Outcomes \ {"ok"} :
                   /\ disk' = [disk EXCEPT ![cur] = IF w = "refused" THEN disk[cur]
                                                    ELSE Begun(PersistFirst(es), k, w)]
                   /\ Faulty(cur) /\ flushed' = flushed
        <4>1. Faulty(cur) /\ flushed' = flushed
          BY <3>5
        <4>2. PICK n \in FileType : /\ disk' = [disk EXCEPT ![cur] = n] /\ FileOK(cur)'
                                    /\ Saves(disk[cur], n) /\ Synced'
          BY <3>3, <3>4, <3>5, Zenon
        <4> QED BY <1>1, <1>6, <4>1, <4>2
      <3> QED BY <3>1, <3>2, <3>5
    <2> QED BY <2>2, <2>3
  <1> QED BY <1>7, <1>8

-----------------------------------------------------------------------------
(* Every step keeps the invariant, and takes back nothing that was saved.   *)

NothingTaken == \A f \in Files : Saves(disk[f], disk'[f])

LEMMA AppendEntryKeeps ==
  ASSUME FileInv, NEW parent \in {0} \cup IdsOf(entries), NEW kind \in AllKinds \cup {"summary"},
         NEW ref \in 0 .. MaxIds, AppendEntry(parent, kind, ref), moves' \in 0 .. MaxMoves
  PROVE  /\ FileInv' /\ NothingTaken
         /\ cur' = cur /\ hurt \subseteq hurt' /\ \E e \in Entries : entries' = Append(entries, e)
  <1> DEFINE e == Entry(ids + 1, parent, kind, ref)
             es == Append(entries, e)
  <1>1. /\ ids < MaxIds /\ ids' = ids + 1 /\ entries' = es /\ leaf' = e.id /\ Persist(e, es)
        /\ labels' = (IF kind \notin {"label", "unlabel"} \/ Thrown(es) THEN labels
                      ELSE IF kind = "label" THEN labels \cup {ref} ELSE labels \ {ref})
        /\ cur' = cur /\ used' = used /\ raw' = raw
    BY Zenon DEF AppendEntry
  <1>2. /\ ids \in 0 .. MaxIds /\ Tree(entries, ids) /\ (hurt = {} => Rooted(entries))
        /\ labels \subseteq 0 .. MaxIds /\ cur \in Files /\ used \in Files /\ cur <= used
        /\ raw \subseteq Files /\ (cur \notin raw => Named(entries))
    BY DEF FileInv, Bounds, MemoryOK
  <1>3. /\ e \in Entries /\ e.id = ids + 1 /\ e.parent = parent
    <2>1. ids + 1 \in 0 .. MaxIds
      BY <1>1, <1>2, Constants
    <2>2. parent \in 0 .. MaxIds
      BY <1>2, TreeFields, Constants
    <2> QED BY <2>1, <2>2, EntryIn
  <1> HIDE DEF e
  <1>4. /\ Tree(es, ids + 1) /\ IdsOf(es) = IdsOf(entries) \cup {e.id}
        /\ (hurt = {} => Rooted(es)) /\ (cur \notin raw => Named(es))
    BY <1>2, <1>3, TreeAppend
  <1>5. /\ \A f \in Files : FileOK(f)' /\ Saves(disk[f], disk'[f])
        /\ disk' \in [Files -> FileType]
        /\ Synced' /\ flushed' \in BOOLEAN
        /\ hurt \subseteq hurt' /\ hurt' \subseteq Files /\ faults' \in 0 .. MaxFaults
    <2>1. e.parent \in {0} \cup IdsOf(entries)
      BY <1>3
    <2> QED BY <1>1, <1>3, <2>1, PersistKeeps
  <1>6. labels' \subseteq 0 .. MaxIds
    BY <1>1, <1>2, Zenon
  <1> HIDE DEF es
  <1>7. MemoryOK'
    <2>1. hurt' = {} => hurt = {}
      BY <1>5
    <2>2. leaf' \in {0} \cup IdsOf(entries')
      BY <1>1, <1>4
    <2> QED BY <1>1, <1>4, <1>5, <1>6, <2>1, <2>2 DEF MemoryOK
  <1>8. Bounds'
    <2>1. ids' \in 0 .. MaxIds
      BY <1>1, <1>2, Constants
    <2> QED BY <1>1, <1>2, <1>5, <2>1 DEF Bounds
  <1>9. FileInv'
    BY <1>5, <1>7, <1>8 DEF FileInv
  <1> QED BY <1>1, <1>3, <1>5, <1>9 DEF NothingTaken, es

\* What the new entry of Say may refer to.
LEMMA RefsIn ==
  ASSUME FileInv, ids < MaxIds, NEW kind \in AllKinds, NEW ref \in Refs(kind)
  PROVE  ref \in 0 .. MaxIds
  <1>1. /\ ids \in 0 .. MaxIds /\ IdsOf(entries) \subseteq 0 .. MaxIds /\ MaxIds \in Nat
        /\ \A i \in DOMAIN entries : entries[i].id \in 0 .. MaxIds
    BY TreeFields, Constants DEF FileInv, Bounds, MemoryOK
  <1>2. ids + 1 \in 0 .. MaxIds /\ 0 \in 0 .. MaxIds
    BY <1>1
  <1>3. OnPath(entries, leaf) \subseteq DOMAIN entries
    BY Zenon DEF OnPath
  <1> DEFINE told == {entries[i].id : i \in OnPath(entries, leaf)}
             said == {entries[i].id : i \in {j \in OnPath(entries, leaf) :
                                              entries[j].kind \in {"user", "asst"}}}
  <1>4. told \subseteq 0 .. MaxIds /\ said \subseteq 0 .. MaxIds
    BY <1>1, <1>3
  <1> HIDE DEF told, said
  <1>5. CASE kind \in {"user", "asst"}
    <2>1. Refs(kind) = {0}
      BY <1>5 DEF Refs
    <2> QED BY <1>2, <1>5, <2>1
  <1>6. CASE kind = "compaction"
    <2>1. Refs(kind) = IF leaf = 0 THEN {} ELSE told \cup {ids + 1}
      BY <1>6 DEF Refs, told
    <2>2. ref \in told \cup {ids + 1}
      BY <2>1
    <2> QED BY <1>2, <1>4, <1>6, <2>2
  <1>7. CASE kind \in {"label", "unlabel"}
    <2>1. Refs(kind) = IdsOf(entries)
      BY <1>7 DEF Refs
    <2> QED BY <1>1, <1>2, <2>1
  <1>8. CASE kind \in {"omit", "replace"}
    <2>1. Refs(kind) = said
      BY <1>8 DEF Refs, said
    <2> QED BY <1>2, <1>4, <1>8, <2>1
  <1> QED BY <1>5, <1>6, <1>7, <1>8 DEF AllKinds

LEMMA SayKeeps ==
  ASSUME FileInv, NEW kind \in Kinds, Say(kind)
  PROVE  /\ FileInv' /\ NothingTaken
         /\ cur' = cur /\ hurt \subseteq hurt' /\ \E e \in Entries : entries' = Append(entries, e)
  <1>1. PICK ref \in Refs(kind) : AppendEntry(leaf, kind, ref)
    BY Zenon DEF Say
  <1>2. moves' = moves /\ moves \in 0 .. MaxMoves /\ leaf \in {0} \cup IdsOf(entries)
    BY Zenon DEF Say, FileInv, Bounds, MemoryOK
  <1>3. ids < MaxIds /\ kind \in AllKinds
    BY <1>1, Constants DEF AppendEntry
  <1>4. ref \in 0 .. MaxIds
    BY <1>3, RefsIn
  <1> QED BY <1>1, <1>2, <1>3, <1>4, AppendEntryKeeps

LEMMA SummaryKeeps ==
  ASSUME FileInv, NEW x \in IdsOf(entries) \cup {0}, BranchWithSummary(x)
  PROVE  /\ FileInv' /\ NothingTaken
         /\ cur' = cur /\ hurt \subseteq hurt' /\ \E e \in Entries : entries' = Append(entries, e)
  <1>1. AppendEntry(x, "summary", 0) /\ moves < MaxMoves /\ moves' = moves + 1
    BY DEF BranchWithSummary
  <1>2. moves' \in 0 .. MaxMoves /\ 0 \in 0 .. MaxIds
    BY <1>1, Constants DEF FileInv, Bounds
  <1> QED BY <1>1, <1>2, AppendEntryKeeps

\* A step that leaves the files alone.
LEMMA SameFiles ==
  ASSUME FileInv, disk' = disk, ids' = ids, hurt' = hurt, raw' = raw, used' \in Nat, used <= used'
  PROVE  /\ \A f \in Files : FileOK(f)' /\ Saves(disk[f], disk'[f])
         /\ disk' \in [Files -> FileType]
  <1>1. ids \in Nat /\ used \in Nat /\ disk \in [Files -> FileType]
    BY Constants DEF FileInv, Bounds, Files
  <1>2. ASSUME NEW f \in Files PROVE FileOK(f)' /\ Saves(disk[f], disk'[f])
    <2>1. FileOK(f)
      BY DEF FileInv
    <2>2. FileOK(f)'
      BY <1>1, <2>1, Untouched
    <2>3. Saves(disk[f], disk'[f])
      BY <2>1, SavesSame DEF FileOK
    <2> QED BY <2>2, <2>3
  <1> QED BY <1>1, <1>2

LEMMA BranchKeeps ==
  ASSUME FileInv, NEW x \in IdsOf(entries) \cup {0}, BranchTo(x)
  PROVE  FileInv' /\ NothingTaken
  <1>1. /\ moves < MaxMoves /\ moves' = moves + 1 /\ leaf' = x
        /\ cur' = cur /\ entries' = entries /\ flushed' = flushed /\ labels' = labels
        /\ disk' = disk /\ used' = used /\ ids' = ids /\ hurt' = hurt /\ raw' = raw
        /\ faults' = faults
    BY DEF BranchTo
  <1>2. used' \in Nat /\ used <= used'
    BY <1>1, Constants DEF FileInv, Bounds, Files
  <1>3. /\ \A f \in Files : FileOK(f)' /\ Saves(disk[f], disk'[f])
        /\ disk' \in [Files -> FileType]
    BY <1>1, <1>2, SameFiles
  <1>4. Bounds'
    BY <1>1, Constants DEF FileInv, Bounds
  <1>5. MemoryOK' /\ Synced'
    BY <1>1 DEF FileInv, MemoryOK, Synced
  <1> QED BY <1>3, <1>4, <1>5 DEF FileInv, NothingTaken

\* A session that has no file yet.
LEMMA Afresh ==
  ASSUME FileInv, cur' \in Files, used' \in Files, cur' <= used', used <= used',
         entries' = <<>>, leaf' = 0, flushed' = FALSE, labels' = {}, disk' = disk, ids' = ids,
         hurt' = hurt, raw' = raw, faults' = faults, moves' = moves, disk[cur'] = Missing
  PROVE  FileInv' /\ NothingTaken
  <1>1. used' \in Nat
    BY Constants DEF Files
  <1>2. /\ \A f \in Files : FileOK(f)' /\ Saves(disk[f], disk'[f])
        /\ disk' \in [Files -> FileType]
    BY <1>1, SameFiles
  <1>3. Bounds'
    BY DEF FileInv, Bounds
  <1>4. MemoryOK'
    BY EmptyTree DEF MemoryOK
  <1>5. Synced'
    <2>1. ~Missing.made /\ ~Missing.old
      BY DEF Missing
    <2>2. ~AnsweredIn(<<>>)
      BY DEF AnsweredIn
    <2> QED BY <2>1, <2>2 DEF Synced
  <1> QED BY <1>2, <1>3, <1>4, <1>5 DEF FileInv, NothingTaken

LEMMA NewSessionKeeps ==
  ASSUME FileInv, NewSession
  PROVE  FileInv' /\ NothingTaken /\ cur' # cur
  <1>1. /\ used < MaxFiles /\ used' = used + 1 /\ cur' = used'
        /\ entries' = <<>> /\ leaf' = 0 /\ flushed' = FALSE /\ labels' = {}
        /\ disk' = disk /\ ids' = ids /\ hurt' = hurt /\ raw' = raw /\ faults' = faults
        /\ moves' = moves
    BY DEF NewSession
  <1>2. used \in Nat /\ used >= 1 /\ cur <= used /\ cur \in Nat
    BY Constants DEF FileInv, Bounds, Files
  <1>3. cur' \in Files /\ used' \in Files /\ cur' <= used' /\ used <= used' /\ cur' > used
    BY <1>1, <1>2, Constants DEF Files
  <1>4. disk[cur'] = Missing
    BY <1>3 DEF FileInv, FileOK
  <1>5. cur' # cur
    BY <1>1, <1>2
  <1>6. FileInv' /\ NothingTaken
    BY <1>1, <1>3, <1>4, Afresh
  <1> QED BY <1>5, <1>6

LEMMA OpenMissingKeeps ==
  ASSUME FileInv, NEW f \in Files, OpenMissing(f)
  PROVE  FileInv' /\ NothingTaken
  <1>1. /\ f <= used /\ ~disk[f].made /\ cur' = f
        /\ entries' = <<>> /\ leaf' = 0 /\ flushed' = FALSE /\ labels' = {}
        /\ disk' = disk /\ used' = used /\ ids' = ids /\ hurt' = hurt /\ raw' = raw
        /\ faults' = faults /\ moves' = moves
    BY DEF OpenMissing
  <1>2. used \in Files /\ used \in Nat
    BY Constants DEF FileInv, Bounds, Files
  <1>3. disk[f] = Missing
    BY <1>1 DEF FileInv, FileOK
  <1>4. cur' \in Files /\ used' \in Files /\ cur' <= used' /\ used <= used' /\ disk[cur'] = Missing
    BY <1>1, <1>2, <1>3
  <1> QED BY <1>1, <1>4, Afresh

\* A session taken from a file: loaded, forked or extracted.
LEMMA LabelsAreIds ==
  ASSUME NEW n, NEW es, Tree(es, n)
  PROVE  LabelsIn(es) \subseteq 0 .. MaxIds
  <1>1. LabelsIn(es) \subseteq IdsOf(es)
    BY Zenon DEF LabelsIn
  <1> QED BY <1>1, TreeFields

\* One file changes, and the others are left alone.
LEMMA OneFile ==
  ASSUME FileInv, NEW f \in Files, NEW d \in FileType, disk' = [disk EXCEPT ![f] = d],
         FileOK(f)', Saves(disk[f], d), ids' \in Nat, ids <= ids', hurt \subseteq hurt',
         raw \subseteq raw', used' \in Nat, used <= used'
  PROVE  /\ \A g \in Files : FileOK(g)' /\ Saves(disk[g], disk'[g])
         /\ disk' \in [Files -> FileType] /\ disk'[f] = d
         /\ \A g \in Files : g # f => disk'[g] = disk[g]
  <1>1. disk \in [Files -> FileType] /\ ids \in Nat /\ used \in Nat
    BY Constants DEF FileInv, Bounds, Files
  <1>2. disk' \in [Files -> FileType] /\ disk'[f] = d /\ \A g \in Files : g # f => disk'[g] = disk[g]
    BY <1>1
  <1>3. ASSUME NEW g \in Files PROVE FileOK(g)' /\ Saves(disk[g], disk'[g])
    <2>1. CASE g = f
      BY <1>2, <2>1
    <2>2. CASE g # f
      <3>1. FileOK(g) /\ disk'[g] = disk[g]
        BY <1>2, <2>2 DEF FileInv
      <3>2. FileOK(g)'
        BY <1>1, <3>1, Untouched
      <3>3. Saves(disk[g], disk'[g])
        BY <3>1, SavesSame DEF FileOK
      <3> QED BY <3>2, <3>3
    <2> QED BY <2>1, <2>2
  <1> QED BY <1>2, <1>3

\* The session in memory after Load.
LEMMA LoadKeeps ==
  ASSUME NEW f \in Files, NEW es, Load(f, es), Tree(es, ids'), hurt' = {} => Rooted(es),
         f \notin raw' => Named(es), ~disk'[f].old,
         f \notin hurt' => disk'[f].made /\ Loaded(disk'[f]) = es
  PROVE  MemoryOK' /\ Synced'
  <1>1. cur' = f /\ entries' = es /\ leaf' = LastId(es) /\ labels' = LabelsIn(es) /\ flushed' = TRUE
    BY DEF Load
  <1>2. LastId(es) \in {0} \cup IdsOf(es)
    BY TreeFields, LastIdIn
  <1>3. LabelsIn(es) \subseteq 0 .. MaxIds
    BY LabelsAreIds
  <1>4. MemoryOK'
    BY <1>1, <1>2, <1>3 DEF MemoryOK
  <1>5. Synced'
    BY <1>1 DEF Synced
  <1> QED BY <1>4, <1>5

\* What stays in memory while another file is written.
LEMMA SameMemory ==
  ASSUME FileInv, UNCHANGED memVars, ids' = ids, hurt \subseteq hurt', raw \subseteq raw',
         disk'[cur] = disk[cur]
  PROVE  MemoryOK' /\ Synced'
  <1>1. cur' = cur /\ entries' = entries /\ leaf' = leaf /\ flushed' = flushed /\ labels' = labels
    BY DEF memVars
  <1>2. (hurt' = {} => hurt = {}) /\ (cur \notin raw' => cur \notin raw)
    OBVIOUS
  <1>3. MemoryOK'
    BY <1>1, <1>2 DEF FileInv, MemoryOK
  <1>4. Synced'
    BY <1>1 DEF FileInv, Synced
  <1> QED BY <1>3, <1>4

LEMMA OpenKeeps ==
  ASSUME FileInv, NEW f \in Files, Open(f)
  PROVE  /\ FileInv' /\ NothingTaken
         /\ \/ UNCHANGED memVars /\ disk' = disk /\ hurt' = hurt \cup {f} /\ (f = cur => cur \in hurt)
            \/ /\ cur' = f /\ hurt' = hurt
               /\ f = cur => entries' = Loaded(disk[f]) /\ Loaded(disk'[f]) = Loaded(disk[f])
  <1> DEFINE d == disk[f]
             es == Loaded(d)
             m == Migrated(es)
  <1>1. /\ f <= used /\ d.made /\ used' = used /\ raw' = raw /\ moves' = moves
        /\ IF d.old \/ ~Valid(d)
             THEN \E w \in {"ok", "refused"} :
                    /\ disk' = [disk EXCEPT ![f] = Rewritten(d, m, w)]
                    /\ IF w = "ok"
                       THEN Load(f, m) /\ NoFault /\ ids + Len(m) <= MaxIds /\ ids' = ids + Len(m)
                       ELSE Faulty(f) /\ UNCHANGED <<memVars, ids>>
             ELSE Load(f, es) /\ NoFault /\ UNCHANGED <<disk, ids>>
    BY Zenon DEF Open
  <1>2. /\ FileOK(f) /\ used \in Nat /\ ids \in Nat /\ cur \in Files /\ used \in Files /\ cur <= used
        /\ hurt \subseteq Files /\ faults \in 0 .. MaxFaults /\ disk \in [Files -> FileType]
        /\ ids \in 0 .. MaxIds /\ moves \in 0 .. MaxMoves /\ raw \subseteq Files
    BY Constants DEF FileInv, Bounds, Files
  <1>3. /\ d \in FileType /\ Tree(es, ids) /\ (hurt = {} => Rooted(es)) /\ es \in Seq(Entries)
        /\ (f \notin raw /\ ~d.old => Named(es))
    BY <1>2, TreeFields DEF FileOK
  <1>4. NoFault => hurt' = hurt /\ faults' = faults
    BY DEF NoFault
  <1>5. Faulty(f) => hurt' = hurt \cup {f} /\ faults' \in 0 .. MaxFaults
    BY <1>2, Constants DEF Faulty
  <1>6. Len(m) = Len(es) /\ Len(es) \in Nat /\ (es = <<>> => m = <<>>)
    BY <1>3, MigratedLength
  <1>7. (~Valid(d) => es = <<>>) /\ (f = cur => ~d.old)
    BY DEF Loaded, FileInv, Synced
  <1> HIDE DEF d, es, m
  <1>8. CASE Load(f, es) /\ NoFault /\ disk' = disk /\ ids' = ids /\ ~d.old
    <2>1. hurt' = hurt /\ faults' = faults /\ cur' = f /\ entries' = es
      BY <1>4, <1>8 DEF Load
    <2>2. /\ \A g \in Files : FileOK(g)' /\ Saves(disk[g], disk'[g])
          /\ disk' \in [Files -> FileType]
      BY <1>1, <1>2, <1>8, <2>1, SameFiles
    <2>3. disk'[f].made /\ ~disk'[f].old /\ Loaded(disk'[f]) = es
      BY <1>1, <1>8 DEF d, es
    <2>4. MemoryOK' /\ Synced'
      <3>1. Load(f, es) /\ Tree(es, ids') /\ (hurt' = {} => Rooted(es)) /\ (f \notin raw' => Named(es))
        BY <1>1, <1>3, <1>8, <2>1
      <3> QED BY <2>3, <3>1, LoadKeeps
    <2>5. Bounds'
      BY <1>1, <1>2, <1>8, <2>1 DEF Bounds
    <2> QED BY <1>8, <2>1, <2>2, <2>3, <2>4, <2>5 DEF FileInv, NothingTaken, es, d
  <1>9. CASE /\ disk' = [disk EXCEPT ![f] = Rewritten(d, m, "ok")] /\ Load(f, m) /\ NoFault
             /\ ids + Len(m) <= MaxIds /\ ids' = ids + Len(m) /\ (d.old \/ ~Valid(d))
    <2> DEFINE n == File(<<Header>> \o m)
    <2>1. disk' = [disk EXCEPT ![f] = n] /\ disk'[f] = n
      BY <1>2, <1>9 DEF Rewritten
    <2>2. hurt' = hurt /\ faults' = faults /\ cur' = f /\ entries' = m
      BY <1>4, <1>9 DEF Load
    <2>3. ids' \in 0 .. MaxIds /\ ids' \in Nat /\ ids <= ids' /\ ids + Len(es) <= MaxIds
      BY <1>2, <1>6, <1>9, Constants
    <2>4. Tree(m, ids') /\ Rooted(m) /\ Named(m) /\ Said(m) = Said(es) /\ m \in Seq(Entries)
      <3>1. Tree(m, ids') /\ Rooted(m) /\ Named(m) /\ Said(m) = Said(es)
        BY <1>2, <1>3, <1>6, <1>9, <2>3, MigratedTree DEF m
      <3> QED BY <3>1, TreeFields
    <2>5. n \in FileType /\ Loaded(n) = m /\ n.made /\ ~n.old
      BY <2>4, FileLoads
    <2>6. FileOK(f)'
      BY <1>1, <1>2, <2>1, <2>4, WrittenWhole
    <2> HIDE DEF n
    <2>7. Saves(disk[f], n)
      <3>1. CASE d.old
        <4>1. Said(es) \in Seq(AllKinds \cup {"summary"})
          BY <1>3, SaidIs
        <4>2. Prefix(Said(es), Said(m))
          BY <2>4, <4>1, PrefixHolds
        <4> QED BY <2>5, <3>1, <4>2 DEF Saves, d, es
      <3>2. CASE ~Valid(d)
        <4>1. Prefix(es, m)
          BY <1>7, <2>4, <3>2, PrefixHolds
        <4> QED BY <2>5, <4>1 DEF Saves, d, es
      <3> QED BY <1>9, <3>1, <3>2
    <2>8. /\ \A g \in Files : FileOK(g)' /\ Saves(disk[g], disk'[g])
          /\ disk' \in [Files -> FileType]
      <3>1. used' \in Nat /\ used <= used' /\ hurt \subseteq hurt' /\ raw \subseteq raw'
        BY <1>1, <1>2, <2>2
      <3> QED BY <2>1, <2>3, <2>5, <2>6, <2>7, <3>1, OneFile
    <2>9. MemoryOK' /\ Synced'
      BY <1>9, <2>1, <2>4, <2>5, LoadKeeps
    <2>10. Bounds'
      BY <1>1, <1>2, <2>2, <2>3 DEF Bounds
    <2>11. f = cur => entries' = es /\ Loaded(disk'[f]) = es
      BY <1>6, <1>7, <1>9, <2>1, <2>2, <2>5
    <2> QED BY <2>2, <2>8, <2>9, <2>10, <2>11 DEF FileInv, NothingTaken, es, d
  <1>10. CASE /\ disk' = [disk EXCEPT ![f] = Rewritten(d, m, "refused")]
              /\ UNCHANGED memVars /\ ids' = ids /\ Faulty(f) /\ (d.old \/ ~Valid(d))
    <2>1. disk' = disk
      BY <1>2, <1>10 DEF Rewritten, d
    <2>2. hurt' = hurt \cup {f} /\ hurt' \subseteq Files /\ hurt \subseteq hurt' /\ faults' \in 0 .. MaxFaults
      BY <1>2, <1>5, <1>10
    <2>3. disk' = [disk EXCEPT ![f] = d] /\ disk'[f] = d /\ d = disk[f]
      BY <1>2, <2>1 DEF d
    <2>4. FileOK(f)'
      BY <1>1, <1>2, <1>10, <2>2, <2>3, Untouched
    <2>5. Saves(disk[f], d)
      BY <1>3, <2>3, SavesSame DEF es
    <2>6. /\ \A g \in Files : FileOK(g)' /\ Saves(disk[g], disk'[g])
          /\ disk' \in [Files -> FileType]
      <3>1. /\ ids' \in Nat /\ ids <= ids' /\ used' \in Nat /\ used <= used'
            /\ hurt \subseteq hurt' /\ raw \subseteq raw'
        BY <1>1, <1>2, <1>10, <2>2
      <3> QED BY <1>3, <2>3, <2>4, <2>5, <3>1, OneFile
    <2>7. MemoryOK' /\ Synced'
      BY <1>1, <1>10, <2>1, <2>2, SameMemory
    <2>8. Bounds'
      BY <1>1, <1>2, <1>10, <2>2 DEF Bounds, memVars
    <2>9. f = cur => cur \in hurt
      <3> SUFFICES ASSUME f = cur, cur \notin hurt PROVE FALSE
        OBVIOUS
      <3>1. Valid(d)
        BY <1>1, <1>2 DEF FileOK, d
      <3> QED BY <1>7, <1>10, <3>1
    <2> QED BY <1>10, <2>1, <2>2, <2>6, <2>7, <2>8, <2>9 DEF FileInv, NothingTaken
  <1>11. CASE d.old \/ ~Valid(d)
    <2>1. PICK w \in {"ok", "refused"} :
                  /\ disk' = [disk EXCEPT ![f] = Rewritten(d, m, w)]
                  /\ IF w = "ok"
                     THEN Load(f, m) /\ NoFault /\ ids + Len(m) <= MaxIds /\ ids' = ids + Len(m)
                     ELSE Faulty(f) /\ UNCHANGED <<memVars, ids>>
      BY <1>1, <1>11
    <2>2. CASE w = "ok"
      BY <1>9, <1>11, <2>1, <2>2
    <2>3. CASE w = "refused"
      BY <1>10, <1>11, <2>1, <2>3
    <2> QED BY <2>2, <2>3
  <1>12. CASE ~ (d.old \/ ~Valid(d))
    BY <1>1, <1>8, <1>12
  <1> QED BY <1>11, <1>12

\* The next file, not made yet.
LEMMA NextFile ==
  ASSUME FileInv, used < MaxFiles
  PROVE  /\ used + 1 \in Files /\ disk[used + 1] = Missing /\ FileOK(used + 1)
         /\ cur # used + 1 /\ cur <= used + 1 /\ used \in Nat /\ ids \in Nat
  <1>1. used \in Nat /\ used >= 1 /\ cur \in Nat /\ cur <= used /\ ids \in Nat
    BY Constants DEF FileInv, Bounds, Files
  <1>2. used + 1 \in Files /\ used + 1 > used
    BY <1>1, Constants DEF Files
  <1>3. FileOK(used + 1)
    BY <1>2 DEF FileInv
  <1>4. disk[used + 1] = Missing
    BY <1>2, <1>3 DEF FileOK
  <1> QED BY <1>1, <1>2, <1>3, <1>4

LEMMA ForkKeeps ==
  ASSUME FileInv, NEW f \in Files, Fork(f)
  PROVE  /\ FileInv' /\ NothingTaken
         /\ \/ cur' # cur
            \/ UNCHANGED memVars /\ disk'[cur] = disk[cur] /\ (cur \in hurt' <=> cur \in hurt)
  <1> DEFINE es == Loaded(disk[f])
  <1>0. used < MaxFiles /\ used + 1 \in Files
    BY NextFile, Zenon DEF Fork
  <1>0a. PICK n \in Files : n = used + 1
    BY <1>0
  <1>1. /\ used < MaxFiles /\ used' = n /\ ids' = ids /\ moves' = moves
        /\ raw' = (IF disk[f].old \/ f \in raw THEN raw \cup {n} ELSE raw)
        /\ \/ disk' = [disk EXCEPT ![n] = File(<<Header>> \o es)] /\ Load(n, es) /\ NoFault
           \/ \E k \in 0 .. Len(es), w \in Outcomes \ {"ok"} :
                /\ disk' = [disk EXCEPT ![n] = IF k = 0 /\ w = "refused" THEN disk[n]
                                               ELSE Begun(<<Header>> \o es, k, w)]
                /\ UNCHANGED memVars /\ Faulty(n)
    BY <1>0a, Zenon DEF Fork
  <1>2. /\ n \in Files /\ disk[n] = Missing /\ FileOK(n) /\ cur # n /\ cur <= n
        /\ used \in Nat /\ ids \in Nat /\ n \in Nat /\ used <= n
    <2>1. n \in Files /\ disk[n] = Missing /\ FileOK(n) /\ cur # n /\ cur <= n /\ used \in Nat /\ ids \in Nat
      BY <1>0, <1>0a, NextFile
    <2> QED BY <1>0a, <2>1
  <1>3. /\ cur \in Files /\ hurt \subseteq Files /\ faults \in 0 .. MaxFaults
        /\ disk \in [Files -> FileType] /\ ids \in 0 .. MaxIds /\ moves \in 0 .. MaxMoves
        /\ raw \subseteq raw' /\ raw' \subseteq Files
    BY <1>1, <1>2 DEF FileInv, Bounds
  <1>4. /\ Tree(es, ids) /\ (hurt = {} => Rooted(es)) /\ es \in Seq(Entries)
        /\ (n \notin raw' => Named(es))
    BY <1>1, TreeFields DEF FileInv, FileOK
  <1>5. NoFault => hurt' = hurt /\ faults' = faults
    BY DEF NoFault
  <1>6. Faulty(n) => hurt' = hurt \cup {n} /\ faults' \in 0 .. MaxFaults
    BY <1>3, Constants DEF Faulty
  <1>7. ids' \in Nat /\ ids <= ids' /\ used' \in Nat /\ used <= used'
    BY <1>1, <1>2
  <1> HIDE DEF es
  <1>8. CASE disk' = [disk EXCEPT ![n] = File(<<Header>> \o es)] /\ Load(n, es) /\ NoFault
    <2> DEFINE d == File(<<Header>> \o es)
    <2>1. disk' = [disk EXCEPT ![n] = d] /\ disk'[n] = d
      BY <1>2, <1>3, <1>8
    <2>2. hurt' = hurt /\ faults' = faults /\ cur' = n /\ hurt \subseteq hurt'
      BY <1>5, <1>8 DEF Load
    <2>3. d \in FileType /\ Loaded(d) = es /\ d.made /\ ~d.old
      BY <1>4, FileLoads
    <2>4. FileOK(n)'
      BY <1>1, <1>2, <1>4, <2>1, <2>2, WrittenWhole
    <2> HIDE DEF d
    <2>5. Saves(disk[n], d)
      BY <1>2, <1>4, <2>3, SavesMissing
    <2>6. /\ \A g \in Files : FileOK(g)' /\ Saves(disk[g], disk'[g])
          /\ disk' \in [Files -> FileType]
      BY <1>2, <1>3, <1>7, <2>1, <2>2, <2>3, <2>4, <2>5, OneFile
    <2>7. MemoryOK' /\ Synced'
      <3>1. Load(n, es) /\ Tree(es, ids') /\ (hurt' = {} => Rooted(es)) /\ (n \notin raw' => Named(es))
        BY <1>1, <1>4, <1>8, <2>2
      <3> QED BY <1>2, <2>1, <2>3, <3>1, LoadKeeps
    <2>8. Bounds'
      BY <1>1, <1>2, <1>3, <2>2 DEF Bounds
    <2> QED BY <1>2, <2>2, <2>6, <2>7, <2>8 DEF FileInv, NothingTaken
  <1>9. ASSUME NEW d \in FileType, disk' = [disk EXCEPT ![n] = d], FileOK(n)',
               Saves(disk[n], d), UNCHANGED memVars, Faulty(n)
        PROVE  FileInv' /\ NothingTaken /\ disk'[cur] = disk[cur] /\ (cur \in hurt' <=> cur \in hurt)
    <2>1. hurt' = hurt \cup {n} /\ hurt \subseteq hurt' /\ hurt' \subseteq Files /\ faults' \in 0 .. MaxFaults
      BY <1>2, <1>3, <1>6, <1>9
    <2>2. /\ \A g \in Files : FileOK(g)' /\ Saves(disk[g], disk'[g])
          /\ disk' \in [Files -> FileType]
          /\ \A g \in Files : g # n => disk'[g] = disk[g]
      BY <1>2, <1>3, <1>7, <1>9, <2>1, OneFile
    <2>3. disk'[cur] = disk[cur]
      BY <1>2, <1>3, <2>2
    <2>4. MemoryOK' /\ Synced'
      BY <1>1, <1>3, <1>9, <2>1, <2>3, SameMemory
    <2>5. Bounds'
      BY <1>1, <1>2, <1>3, <1>9, <2>1 DEF Bounds, memVars
    <2> QED BY <1>2, <2>1, <2>2, <2>3, <2>4, <2>5 DEF FileInv, NothingTaken
  <1>10. ASSUME NEW k \in 0 .. Len(es), NEW w \in Outcomes \ {"ok"},
                disk' = [disk EXCEPT ![n] = IF k = 0 /\ w = "refused" THEN disk[n]
                                            ELSE Begun(<<Header>> \o es, k, w)],
                UNCHANGED memVars, Faulty(n)
         PROVE  \E d \in FileType : disk' = [disk EXCEPT ![n] = d] /\ FileOK(n)' /\ Saves(disk[n], d)
    <2>1. n \in hurt' /\ hurt \subseteq hurt'
      BY <1>6, <1>10
    <2>2. CASE k = 0 /\ w = "refused"
      <3>1. disk' = [disk EXCEPT ![n] = disk[n]] /\ disk[n] \in FileType /\ disk'[n] = disk[n]
        BY <1>2, <1>3, <1>10, <2>2
      <3>2. FileOK(n)'
        BY <1>2, <1>3, <1>7, <2>1, <3>1, Untouched
      <3>3. Saves(disk[n], disk[n])
        BY <1>2, <3>1, SavesSame DEF FileOK
      <3> QED BY <3>1, <3>2, <3>3
    <2>3. CASE ~(k = 0 /\ w = "refused")
      <3> DEFINE d == Begun(<<Header>> \o es, k, w)
      <3>1. disk' = [disk EXCEPT ![n] = d] /\ disk'[n] = d
        BY <1>2, <1>3, <1>10, <2>3
      <3>2. d \in FileType /\ \E m \in 0 .. Len(es) : Loaded(d) = SubSeq(es, 1, m)
        BY <1>4, BegunLoads
      <3>3. Loaded(d) \in Seq(Entries)
        BY <1>4, <3>2, PrefixIs
      <3>4. FileOK(n)'
        BY <1>1, <1>2, <1>4, <2>1, <3>1, CutOff
      <3> HIDE DEF d
      <3>5. Saves(disk[n], d)
        BY <1>2, <3>3, SavesMissing
      <3> QED BY <3>1, <3>2, <3>4, <3>5
    <2> QED BY <2>2, <2>3
  <1>11. CASE \E k \in 0 .. Len(es), w \in Outcomes \ {"ok"} :
                /\ disk' = [disk EXCEPT ![n] = IF k = 0 /\ w = "refused" THEN disk[n]
                                               ELSE Begun(<<Header>> \o es, k, w)]
                /\ UNCHANGED memVars /\ Faulty(n)
    <2>1. UNCHANGED memVars /\ Faulty(n)
      BY <1>11
    <2>2. PICK d \in FileType : disk' = [disk EXCEPT ![n] = d] /\ FileOK(n)' /\ Saves(disk[n], d)
      BY <1>10, <1>11, Zenon
    <2> QED BY <1>9, <2>1, <2>2
  <1> QED BY <1>1, <1>8, <1>11

LEMMA ExtractKeeps ==
  ASSUME FileInv, NEW x, Extract(x)
  PROVE  FileInv' /\ NothingTaken /\ cur' # cur
  <1> DEFINE es == Rechained(Path(entries, x))
             targets == labels \cap IdsOf(es)
             all == es \o Relabelled(es, targets)
  <1>0. used < MaxFiles /\ used + 1 \in Files
    BY NextFile, Zenon DEF Extract
  <1>0a. PICK n \in Files : n = used + 1
    BY <1>0
  <1>1. /\ used < MaxFiles /\ used' = n /\ moves' = moves /\ raw' = raw
        /\ ids + Cardinality(targets) <= MaxIds /\ ids' = ids + Cardinality(targets)
        /\ cur' = n /\ entries' = all /\ leaf' = LastId(all) /\ labels' = LabelsIn(all)
        /\ IF ~AnsweredIn(all) THEN flushed' = FALSE /\ disk' = disk /\ NoFault
           ELSE \E w \in {"ok", "refused"} :
                  /\ disk' = [disk EXCEPT ![n] = Rewritten(disk[n], all, w)]
                  /\ flushed' = IF w = "ok" THEN TRUE ELSE flushed
                  /\ IF w = "ok" THEN NoFault ELSE Faulty(n)
    BY <1>0a, Zenon DEF Extract
  <1>2. /\ n \in Files /\ disk[n] = Missing /\ FileOK(n) /\ cur # n
        /\ used \in Nat /\ ids \in Nat /\ n \in Nat /\ used <= n
    <2>1. n \in Files /\ disk[n] = Missing /\ FileOK(n) /\ cur # n /\ used \in Nat /\ ids \in Nat
      BY <1>0, <1>0a, NextFile
    <2> QED BY <1>0a, <2>1
  <1>3. /\ hurt \subseteq Files /\ faults \in 0 .. MaxFaults /\ flushed \in BOOLEAN
        /\ disk \in [Files -> FileType] /\ ids \in 0 .. MaxIds /\ moves \in 0 .. MaxMoves
        /\ raw \subseteq Files
    BY DEF FileInv, Bounds, MemoryOK
  <1>4. Tree(es, ids) /\ Rooted(es) /\ Named(es)
    <2>1. Tree(Path(entries, x), ids) /\ Named(Path(entries, x))
      BY PathTree DEF FileInv, MemoryOK
    <2> QED BY <2>1, RechainedTree
  <1> HIDE DEF es
  <1>5. /\ Cardinality(targets) \in Nat
        /\ Tree(all, ids + Cardinality(targets)) /\ Rooted(all) /\ Named(all)
    <2>1. targets \in SUBSET IdsOf(es)
      OBVIOUS
    <2> HIDE DEF targets
    <2> QED BY <1>1, <1>3, <1>4, <2>1, RelabelledTree
  <1> HIDE DEF targets, all
  <1>6. /\ ids' \in Nat /\ ids <= ids' /\ ids' \in 0 .. MaxIds
        /\ used' \in Nat /\ used <= used' /\ Tree(all, ids') /\ raw \subseteq raw'
    BY <1>1, <1>2, <1>5, Constants
  <1>7. NoFault => hurt' = hurt /\ faults' = faults
    BY DEF NoFault
  <1>8. Faulty(n) => hurt' = hurt \cup {n} /\ faults' \in 0 .. MaxFaults
    BY <1>3, Constants DEF Faulty
  <1>9. ASSUME NEW d \in FileType, disk' = [disk EXCEPT ![n] = d], FileOK(n)', Saves(disk[n], d),
               hurt \subseteq hurt', hurt' \subseteq Files, faults' \in 0 .. MaxFaults,
               flushed' \in BOOLEAN, Synced'
        PROVE  FileInv' /\ NothingTaken
    <2>1. /\ \A g \in Files : FileOK(g)' /\ Saves(disk[g], disk'[g])
          /\ disk' \in [Files -> FileType]
      BY <1>2, <1>6, <1>9, OneFile
    <2>2. LastId(all) \in {0} \cup IdsOf(all)
      BY <1>5, TreeFields, LastIdIn
    <2>3. LabelsIn(all) \subseteq 0 .. MaxIds
      BY <1>5, LabelsAreIds
    <2>4. MemoryOK'
      BY <1>1, <1>5, <1>6, <1>9, <2>2, <2>3 DEF MemoryOK
    <2>5. Bounds'
      BY <1>1, <1>2, <1>3, <1>6, <1>9 DEF Bounds
    <2> QED BY <1>9, <2>1, <2>4, <2>5 DEF FileInv, NothingTaken
  <1>10. /\ disk[n] \in FileType /\ Saves(disk[n], disk[n]) /\ disk = [disk EXCEPT ![n] = disk[n]]
         /\ [disk EXCEPT ![n] = disk[n]][n] = disk[n]
    <2>1. disk[n] \in FileType /\ disk = [disk EXCEPT ![n] = disk[n]]
      BY <1>2, <1>3
    <2>2. Saves(disk[n], disk[n])
      BY <1>2, <2>1, SavesSame DEF FileOK
    <2> QED BY <2>1, <2>2
  <1>11. CASE ~AnsweredIn(all)
    <2>1. flushed' = FALSE /\ disk' = disk /\ hurt' = hurt /\ faults' = faults
      BY <1>1, <1>7, <1>11
    <2>2. FileOK(n)'
      BY <1>2, <1>6, <2>1, Untouched
    <2>3. Synced'
      <3>1. ~disk[n].made /\ ~disk[n].old
        BY <1>2 DEF Missing
      <3> QED BY <1>1, <1>11, <2>1, <3>1 DEF Synced
    <2> QED BY <1>1, <1>2, <1>3, <1>9, <1>10, <2>1, <2>2, <2>3
  <1>12. CASE AnsweredIn(all)
    <2>1. PICK w \in {"ok", "refused"} :
                  /\ disk' = [disk EXCEPT ![n] = Rewritten(disk[n], all, w)]
                  /\ flushed' = IF w = "ok" THEN TRUE ELSE flushed
                  /\ IF w = "ok" THEN NoFault ELSE Faulty(n)
      BY <1>1, <1>12
    <2>2. CASE w = "ok"
      <3> DEFINE d == File(<<Header>> \o all)
      <3>1. disk' = [disk EXCEPT ![n] = d] /\ disk'[n] = d /\ flushed' = TRUE
        BY <1>2, <1>3, <2>1, <2>2 DEF Rewritten
      <3>2. hurt' = hurt /\ faults' = faults
        BY <1>7, <2>1, <2>2
      <3>3. all \in Seq(Entries)
        BY <1>5, TreeFields
      <3>4. d \in FileType /\ Loaded(d) = all /\ d.made /\ ~d.old
        BY <3>3, FileLoads
      <3>5. FileOK(n)'
        BY <1>1, <1>2, <1>5, <1>6, <3>1, WrittenWhole
      <3> HIDE DEF d
      <3>6. Saves(disk[n], d)
        BY <1>2, <3>3, <3>4, SavesMissing
      <3>7. Synced'
        BY <1>1, <3>1, <3>4 DEF Synced
      <3> QED BY <1>1, <1>2, <1>3, <1>9, <3>1, <3>2, <3>4, <3>5, <3>6, <3>7
    <2>3. CASE w = "refused"
      <3>1. disk' = [disk EXCEPT ![n] = disk[n]] /\ disk'[n] = disk[n] /\ flushed' = flushed /\ Faulty(n)
        BY <1>2, <1>3, <2>1, <2>3 DEF Rewritten
      <3>2. n \in hurt' /\ hurt \subseteq hurt' /\ hurt' \subseteq Files /\ faults' \in 0 .. MaxFaults
        BY <1>2, <1>3, <1>8, <3>1
      <3>3. FileOK(n)'
        BY <1>2, <1>6, <3>1, <3>2, Untouched
      <3>4. Synced'
        BY <1>1, <1>2, <3>1, <3>2 DEF Synced, Missing
      <3> QED BY <1>1, <1>2, <1>3, <1>9, <1>10, <3>1, <3>2, <3>3, <3>4
    <2> QED BY <2>1, <2>2, <2>3
  <1> QED BY <1>1, <1>2, <1>11, <1>12

\* At the start: a new session, and a file in the old format.
LEMMA FileInit == Init => FileInv
<1> SUFFICES ASSUME Init PROVE FileInv
  OBVIOUS
<1> DEFINE first == Entry(0, 0, "user", 0)
           second == Entry(0, 0, "asst", 0)
           said == <<first, second>>
           d == File(<<Header>> \o said)
<1>1. /\ used = 2 /\ ids = 0 /\ disk = [f \in Files |-> IF f = 2 THEN Aged ELSE Missing]
      /\ cur = 1 /\ entries = <<>> /\ leaf = 0 /\ flushed = FALSE /\ labels = {}
      /\ hurt = {} /\ raw = {} /\ faults = 0 /\ moves = 0
  BY DEF Init
<1>2. Missing \in FileType /\ Loaded(Missing) = <<>> /\ ~Missing.made /\ ~Missing.old
  BY MissingLoads DEF Missing
<1>3. MemoryOK
  BY <1>1, EmptyTree DEF MemoryOK
<1>4. /\ first \in Entries /\ first.id = 0 /\ first.parent = 0
      /\ second \in Entries /\ second.id = 0 /\ second.parent = 0
  <2>1. 0 \in 0 .. MaxIds /\ "user" \in AllKinds \cup {"summary"} /\ "asst" \in AllKinds \cup {"summary"}
    BY Constants DEF AllKinds
  <2> QED BY <2>1, EntryIn
<1> HIDE DEF first, second
<1>5. /\ said \in Seq(Entries) /\ DOMAIN said = 1 .. 2 /\ said[1] = first /\ said[2] = second
      /\ <<Header, first, second>> = <<Header>> \o said
  BY <1>4
<1> HIDE DEF said
<1>6. Tree(said, 0) /\ Rooted(said)
  <2>1. \A i \in DOMAIN said : said[i].id = 0 /\ said[i].parent = 0
    BY <1>4, <1>5
  <2> QED BY <1>5, <2>1 DEF Tree, Rising, Rooted
<1>7. d \in FileType /\ Valid(d) /\ Loaded(d) = said /\ d.made /\ d.tail = "clean"
  BY <1>5, FileLoads
<1>8. Aged = [d EXCEPT !.old = TRUE]
  BY <1>5 DEF Aged, first, second
<1> HIDE DEF d
<1>9. Aged \in FileType /\ Aged.lines = d.lines /\ Aged.made = d.made /\ Aged.tail = d.tail /\ Aged.old
  BY <1>7, <1>8 DEF FileType
<1>10. Valid(Aged) /\ Loaded(Aged) = said
  BY <1>7, <1>9 DEF Valid, Loaded
<1>11. disk \in [Files -> FileType]
  BY <1>1, <1>2, <1>9
<1>12. ASSUME NEW f \in Files PROVE FileOK(f)
  <2>1. CASE f = 2
    <3>1. disk[f] = Aged /\ ~ (f > used)
      BY <1>1, <2>1
    <3> QED BY <1>1, <1>6, <1>7, <1>9, <1>10, <3>1 DEF FileOK
  <2>2. CASE f # 2
    <3>1. disk[f] = Missing
      BY <1>1, <2>2
    <3> QED BY <1>2, <3>1, EmptyTree DEF FileOK
  <2> QED BY <2>1, <2>2
<1>13. Bounds
  BY <1>1, Constants DEF Bounds, Files
<1>14. Synced
  <2>1. disk[cur] = Missing
    BY <1>1, <1>13 DEF Bounds
  <2> QED BY <1>1, <1>2, <2>1 DEF Synced, AnsweredIn
<1> QED BY <1>3, <1>11, <1>12, <1>13, <1>14 DEF FileInv

LEMMA FileNext == FileInv /\ [Next]_vars => FileInv' /\ NothingTaken
<1> SUFFICES ASSUME FileInv, [Next]_vars PROVE FileInv' /\ NothingTaken
  OBVIOUS
<1>1. CASE UNCHANGED vars
  <2>1. /\ cur' = cur /\ entries' = entries /\ leaf' = leaf /\ flushed' = flushed
        /\ labels' = labels /\ disk' = disk /\ used' = used /\ ids' = ids /\ hurt' = hurt
        /\ raw' = raw /\ faults' = faults /\ moves' = moves
    BY <1>1 DEF vars, memVars
  <2>2. used' \in Nat /\ used <= used'
    BY <2>1, Constants DEF FileInv, Bounds, Files
  <2>3. /\ \A f \in Files : FileOK(f)' /\ Saves(disk[f], disk'[f])
        /\ disk' \in [Files -> FileType]
    BY <2>1, <2>2, SameFiles
  <2>4. Bounds' /\ MemoryOK' /\ Synced'
    BY <2>1 DEF FileInv, Bounds, MemoryOK, Synced
  <2> QED BY <2>3, <2>4 DEF FileInv, NothingTaken
<1>2. CASE \E kind \in Kinds : Say(kind)
  BY <1>2, SayKeeps
<1>3. CASE \E x \in IdsOf(entries) \cup {0} : BranchTo(x) \/ BranchWithSummary(x)
  BY <1>3, BranchKeeps, SummaryKeeps
<1>4. CASE \E x \in Ids : Extract(x)
  BY <1>4, ExtractKeeps
<1>5. CASE \E f \in Files : Open(f) \/ OpenMissing(f) \/ Fork(f)
  BY <1>5, OpenKeeps, OpenMissingKeeps, ForkKeeps
<1>6. CASE NewSession
  BY <1>6, NewSessionKeeps
<1> QED BY <1>1, <1>2, <1>3, <1>4, <1>5, <1>6 DEF Next

LEMMA FileInvariant == Spec => []FileInv
<1>1. FileInv /\ [Next]_vars => FileInv'
  BY FileNext
<1> QED BY <1>1, FileInit, PTL DEF Spec

\* The tree in memory: its entries in the order they were made, the leaf one of
\* them, and every parent among the entries before it until a write fails,
\* whatever was opened, migrated, forked, extracted or cut off; all have an id
\* but for those that forkFrom copied from a file in the old format
\* (_appendEntry, _loadEntries, migrateV1ToV2 and createBranchedSession).
THEOREM TreeIsSound == Spec => []TypeOK
<1>1. FileInv => TypeOK
  <2> SUFFICES ASSUME FileInv PROVE TypeOK
    OBVIOUS
  <2>1. /\ cur \in Files /\ flushed \in BOOLEAN /\ hurt \subseteq Files /\ raw \subseteq Files
        /\ leaf \in {0} \cup IdsOf(entries) /\ labels \subseteq 0 .. MaxIds
        /\ cur \notin raw => Named(entries)
        /\ ids \in 0 .. MaxIds /\ used \in Files /\ faults \in 0 .. MaxFaults /\ moves \in 0 .. MaxMoves
        /\ Tree(entries, ids) /\ (hurt = {} => Rooted(entries))
    BY DEF FileInv, Bounds, MemoryOK
  <2>2. /\ entries \in Seq(Entries) /\ Len(entries) \in Nat /\ DOMAIN entries = 1 .. Len(entries)
        /\ Rising(entries)
    BY <2>1, TreeFields DEF Tree
  <2>2a. \A i, j \in DOMAIN entries :
           i < j => \/ entries[i].id < entries[j].id
                    \/ entries[i].id = 0 /\ entries[j].id = 0 /\ cur \in raw
    BY <2>1, <2>2 DEF Rising, Named
  <2>2b. cur \notin raw => 0 \notin IdsOf(entries)
    BY <2>1 DEF Named, IdsOf
  <2>3. ASSUME hurt = {}, NEW i \in DOMAIN entries
        PROVE  entries[i].parent \in {0} \cup IdsOf(SubSeq(entries, 1, i - 1))
    <3> DEFINE before == SubSeq(entries, 1, i - 1)
    <3>1. CASE entries[i].parent = 0
      BY <3>1
    <3>2. CASE entries[i].parent # 0
      <4>1. PICK j \in DOMAIN entries : j < i /\ entries[j].id = entries[i].parent
        BY <2>1, <2>3, <3>2 DEF Rooted
      <4>2. i - 1 \in 0 .. Len(entries) /\ j \in 1 .. i - 1
        BY <2>2, <4>1
      <4>3. before \in Seq(Entries) /\ Len(before) = i - 1 /\ \A k \in 1 .. i - 1 : before[k] = entries[k]
        BY <2>2, <4>2, PrefixIs
      <4> HIDE DEF before
      <4>4. j \in DOMAIN before /\ before[j].id = entries[i].parent
        BY <4>1, <4>2, <4>3
      <4>5. entries[i].parent \in IdsOf(before)
        BY <4>4 DEF IdsOf
      <4> QED BY <4>5 DEF before
    <3> QED BY <3>1, <3>2
  <2> QED BY <2>1, <2>2, <2>2a, <2>2b, <2>3 DEF TypeOK
<1> QED BY <1>1, FileInvariant, PTL

\* No step takes back an entry that a file would bring back, in any file, unless
\* it writes after a line cut off before its newline; a file in the old format
\* keeps what its entries say when it is migrated (_persist, _rewriteFile,
\* migrateV1ToV2, forkFrom and createBranchedSession).
THEOREM NothingSavedIsLost == Spec => SavedIsNeverLost
<1> DEFINE Stays(f) ==
      disk[f].tail # "whole" =>
        IF disk[f].old THEN Prefix(Said(Loaded(disk[f])), Said(Loaded(disk'[f])))
                       ELSE Prefix(Loaded(disk[f]), Loaded(disk'[f]))
<1>1. FileInv /\ [Next]_vars => [\A f \in Files : Stays(f)]_vars
  <2> SUFFICES ASSUME FileInv, [Next]_vars, NEW f \in Files, disk[f].tail # "whole"
               PROVE  IF disk[f].old THEN Prefix(Said(Loaded(disk[f])), Said(Loaded(disk'[f])))
                                     ELSE Prefix(Loaded(disk[f]), Loaded(disk'[f]))
    OBVIOUS
  <2>1. Saves(disk[f], disk'[f]) /\ FileInv'
    BY FileNext DEF NothingTaken
  <2>2. Loaded(disk[f]) \in Seq(Entries) /\ Loaded(disk'[f]) \in Seq(Entries)
    BY <2>1, TreeFields DEF FileInv, FileOK
  <2>3. Prefix(Loaded(disk[f]), Loaded(disk'[f]))
          => Prefix(Said(Loaded(disk[f])), Said(Loaded(disk'[f])))
    BY <2>2, SaidPrefix
  <2> QED BY <2>1, <2>3 DEF Saves
<1> QED BY <1>1, FileInvariant, PTL DEF Spec, SavedIsNeverLost

-----------------------------------------------------------------------------
(* The refinement: every step writes, opens again or switches the session,   *)
(* or changes nothing a reader of the log sees.                             *)

Saved  == Loaded(disk[cur])
Sound  == cur \notin hurt
Unseen == UNCHANGED <<cur, entries, Saved, Sound>>

LEMMA LogInit == Init => Log!Init
<1> SUFFICES ASSUME Init PROVE Log!Init
  OBVIOUS
<1>1. entries = <<>> /\ cur = 1 /\ hurt = {}
  BY DEF Init
<1>2. 1 \in Files /\ 1 # 2
  BY Constants DEF Files
<1>3. disk[cur] = Missing
  BY <1>1, <1>2 DEF Init
<1>4. Loaded(disk[cur]) = <<>>
  BY <1>3, MissingLoads
<1>5. (cur \notin hurt) = TRUE
  BY <1>1, Zenon
<1> QED BY <1>1, <1>4, <1>5 DEF Log!Init

\* What a sound file keeps of the session.
LEMMA KeptNow ==
  ASSUME FileInv', cur' \notin hurt'
  PROVE  Log!Kept'
  <1>1. FileOK(cur)' /\ Synced'
    BY DEF FileInv, Bounds
  <1>2. CASE flushed'
    <2>1. Loaded(disk'[cur']) = entries'
      BY <1>1, <1>2 DEF Synced
    <2> QED BY <2>1 DEF Log!Kept
  <1>3. CASE ~flushed'
    <2>1. ~disk'[cur'].made /\ ~AnsweredIn(entries')
      BY <1>1, <1>3 DEF Synced
    <2>2. disk'[cur'] = Missing
      BY <1>1, <2>1 DEF FileOK
    <2>3. Loaded(disk'[cur']) = <<>>
      BY <2>2, MissingLoads
    <2> QED BY <2>1, <2>3 DEF Log!Kept, Log!Answered, AnsweredIn
  <1> QED BY <1>2, <1>3

LEMMA WriteRefines ==
  ASSUME FileInv, FileInv', NothingTaken, cur' = cur, hurt \subseteq hurt',
         NEW e \in Entries, entries' = Append(entries, e)
  PROVE  Log!Write
  <1>1. entries \in Seq(Entries) /\ cur \in Files
    BY TreeFields DEF FileInv, MemoryOK, Bounds
  <1>2. Prefix(entries, Append(entries, e)) /\ Len(Append(entries, e)) = Len(entries) + 1
    BY <1>1, PrefixHolds, AppendIs
  <1>3. Log!Grows(entries, entries')
    BY <1>2 DEF Log!Grows, Prefix
  <1>4. cur' \notin hurt' => cur \notin hurt /\ Log!Kept'
    BY KeptNow
  <1>5. \/ Len(Loaded(disk'[cur])) >= Len(Loaded(disk[cur]))
           /\ SubSeq(Loaded(disk'[cur]), 1, Len(Loaded(disk[cur]))) = Loaded(disk[cur])
        \/ Loaded(disk'[cur]) = SubSeq(Loaded(disk[cur]), 1, Len(Loaded(disk[cur])) - 1)
    <2>1. Saves(disk[cur], disk'[cur])
      BY <1>1 DEF NothingTaken
    <2>2. CASE Prefix(Loaded(disk[cur]), Loaded(disk'[cur]))
      <3>1. FileOK(cur) /\ FileOK(cur)'
        BY <1>1 DEF FileInv
      <3>2. Loaded(disk[cur]) \in Seq(Entries) /\ Loaded(disk'[cur]) \in Seq(Entries)
        BY <3>1, TreeFields DEF FileOK
      <3> QED BY <2>2, <3>2 DEF Prefix
    <2>3. ~disk[cur].old
      BY DEF FileInv, Synced
    <2> QED BY <2>1, <2>2, <2>3 DEF Saves, Shorter
  <1> QED BY <1>3, <1>4, <1>5 DEF Log!Write

LEMMA SwitchRefines ==
  ASSUME FileInv', cur' # cur
  PROVE  Log!Switch
  BY KeptNow DEF Log!Switch

LEMMA OpenRefines ==
  ASSUME FileInv, FileInv', NEW f \in Files, Open(f)
  PROVE  Log!Next \/ Unseen
  <1>1. \/ UNCHANGED memVars /\ disk' = disk /\ hurt' = hurt \cup {f} /\ (f = cur => cur \in hurt)
        \/ /\ cur' = f /\ hurt' = hurt
           /\ f = cur => entries' = Loaded(disk[f]) /\ Loaded(disk'[f]) = Loaded(disk[f])
    BY OpenKeeps
  <1>2. CASE UNCHANGED memVars /\ disk' = disk /\ hurt' = hurt \cup {f} /\ (f = cur => cur \in hurt)
    <2>1. cur' = cur /\ entries' = entries
      BY <1>2 DEF memVars
    <2>2. Sound' = Sound
      BY <1>2, <2>1, Zenon DEF Sound
    <2> QED BY <1>2, <2>1, <2>2 DEF Unseen, Saved
  <1>3. CASE /\ cur' = f /\ hurt' = hurt
             /\ f = cur => entries' = Loaded(disk[f]) /\ Loaded(disk'[f]) = Loaded(disk[f])
    <2>1. CASE f = cur
      <3>1. (cur' \notin hurt') = (cur \notin hurt)
        BY <1>3, <2>1
      <3>2. Log!Restart
        BY <1>3, <2>1, <3>1 DEF Log!Restart
      <3> QED BY <3>2 DEF Log!Next
    <2>2. CASE f # cur
      BY <1>3, <2>2, SwitchRefines DEF Log!Next
    <2> QED BY <2>1, <2>2
  <1> QED BY <1>1, <1>2, <1>3

LEMMA OpenMissingRefines ==
  ASSUME FileInv, FileInv', NEW f \in Files, OpenMissing(f)
  PROVE  Log!Next
  <1>1. /\ ~disk[f].made /\ cur' = f /\ entries' = <<>> /\ disk' = disk /\ hurt' = hurt
    BY DEF OpenMissing
  <1>2. disk[f] = Missing
    BY <1>1 DEF FileInv, FileOK
  <1>3. CASE f = cur
    <2>1. Loaded(disk[cur]) = <<>>
      BY <1>2, <1>3, MissingLoads
    <2>2. (cur' \notin hurt') = (cur \notin hurt)
      BY <1>1, <1>3
    <2>3. Log!Restart
      BY <1>1, <1>3, <2>1, <2>2 DEF Log!Restart
    <2> QED BY <2>3 DEF Log!Next
  <1>4. CASE f # cur
    BY <1>1, <1>4, SwitchRefines DEF Log!Next
  <1> QED BY <1>3, <1>4

LEMMA ForkRefines ==
  ASSUME FileInv, FileInv', NEW f \in Files, Fork(f)
  PROVE  Log!Next \/ Unseen
  <1>1. \/ cur' # cur
        \/ UNCHANGED memVars /\ disk'[cur] = disk[cur] /\ (cur \in hurt' <=> cur \in hurt)
    BY ForkKeeps
  <1>2. CASE cur' # cur
    BY <1>2, SwitchRefines DEF Log!Next
  <1>3. CASE UNCHANGED memVars /\ disk'[cur] = disk[cur] /\ (cur \in hurt' <=> cur \in hurt)
    <2>1. cur' = cur /\ entries' = entries
      BY <1>3 DEF memVars
    <2>2. Sound' = Sound
      BY <1>3, <2>1, Zenon DEF Sound
    <2> QED BY <1>3, <2>1, <2>2 DEF Unseen, Saved
  <1> QED BY <1>1, <1>2, <1>3

LEMMA LogStep ==
  FileInv /\ FileInv' /\ [Next]_vars => [Log!Next]_<<cur, entries, Saved, Sound>>
<1> SUFFICES ASSUME FileInv, FileInv', [Next]_vars PROVE Log!Next \/ Unseen
  BY DEF Unseen
<1>0. NothingTaken
  BY FileNext
<1>1. ASSUME cur' = cur, entries' = entries, disk' = disk, hurt' = hurt
      PROVE  Unseen
  <2>1. Sound' = Sound
    BY <1>1, Zenon DEF Sound
  <2> QED BY <1>1, <2>1 DEF Unseen, Saved
<1>2. CASE UNCHANGED vars
  BY <1>1, <1>2 DEF vars, memVars
<1>3. ASSUME NEW kind \in Kinds, Say(kind) PROVE Log!Next
  <2>1. cur' = cur /\ hurt \subseteq hurt' /\ \E e \in Entries : entries' = Append(entries, e)
    BY <1>3, SayKeeps
  <2>2. Log!Write
    BY <1>0, <2>1, WriteRefines
  <2> QED BY <2>2 DEF Log!Next
<1>4. ASSUME NEW x \in IdsOf(entries) \cup {0}, BranchTo(x) PROVE Unseen
  BY <1>1, <1>4 DEF BranchTo
<1>5. ASSUME NEW x \in IdsOf(entries) \cup {0}, BranchWithSummary(x) PROVE Log!Next
  <2>1. cur' = cur /\ hurt \subseteq hurt' /\ \E e \in Entries : entries' = Append(entries, e)
    BY <1>5, SummaryKeeps
  <2>2. Log!Write
    BY <1>0, <2>1, WriteRefines
  <2> QED BY <2>2 DEF Log!Next
<1>6. ASSUME NEW x \in Ids, Extract(x) PROVE Log!Next
  BY <1>6, ExtractKeeps, SwitchRefines DEF Log!Next
<1>7. CASE \E f \in Files : Open(f) \/ OpenMissing(f) \/ Fork(f)
  BY <1>7, OpenRefines, OpenMissingRefines, ForkRefines
<1>8. CASE NewSession
  BY <1>8, NewSessionKeeps, SwitchRefines DEF Log!Next
<1> QED BY <1>2, <1>3, <1>4, <1>5, <1>6, <1>7, <1>8, Zenon DEF Next

\* A session and its file implement the append-only log: while no write to the
\* file has failed, opening it again brings back all of the session, or nothing
\* of one without an answer; a write that fails costs at most the last saved entry
\* besides its own (_persist, _loadEntries and loadEntriesFromFile).
THEOREM FileKeepsItsPromise == Spec => Promise
<1>1. [Log!Next]_<<cur, entries, Saved, Sound>> <=> [Log!Next]_(Log!vars)
  BY DEF Log!vars, Saved, Sound
<1> QED
  BY LogInit, FileInvariant, LogStep, <1>1, PTL DEF Spec, Promise, Log!Spec
=============================================================================
