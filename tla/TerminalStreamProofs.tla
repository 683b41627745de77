------------------------- MODULE TerminalStreamProofs -------------------------
(***************************************************************************)
(* Proofs about TerminalStream.  IInv follows each chunk of output: for    *)
(* every viewer there is a chunk b, the one of its snapshot, such that     *)
(* what the browser shows and buffers, the frames on its io socket, the    *)
(* chunks that wait for the flush and those that wait for the socket are   *)
(* b + 1, b + 2, ... without a gap, and end with the last chunk printed    *)
(* while the viewer is attached; the snapshot that is due, under way or    *)
(* restored is that of b; and what is under way and not acknowledged is    *)
(* within the flow's count.                                                *)
(*                                                                         *)
(* Facts about FlattenSeq and sums of sequences need induction over data:  *)
(* it is done with sets that have a least element (Least, SeqInducts).     *)
(***************************************************************************)
EXTENDS TerminalStream, SequenceTheorems, WellFoundedInduction, TLAPS

-----------------------------------------------------------------------------
(* A set of numbers that is not empty has a least one.                     *)
LEMMA Least ==
  ASSUME NEW S \in SUBSET Nat, S # {}
  PROVE  \E n \in S : \A m \in S : n <= m
  <1>1. IsWellFoundedOn(OpToRel(<, Nat), Nat)
    BY NatLessThanWellFounded
  <1>2. \E n \in S : \A m \in S : ~(<<m, n>> \in OpToRel(<, Nat))
    BY <1>1, WFMin
  <1>3. OpToRel(<, Nat) = {ss \in Nat \X Nat : ss[1] < ss[2]}
    BY Zenon DEF OpToRel
  <1>4. \A m, n \in Nat : m < n => <<m, n>> \in {ss \in Nat \X Nat : ss[1] < ss[2]}
    OBVIOUS
  <1>5. \A m, n \in Nat : m < n => <<m, n>> \in OpToRel(<, Nat)
    BY <1>3, <1>4, Zenon
  <1>6. \E n \in S : \A m \in S : ~(m < n)
    BY <1>2, <1>5, Zenon
  <1> QED BY <1>6

(* Induction over the numbers, for a set instead of a predicate.           *)
LEMMA Inducts ==
  ASSUME NEW S, 0 \in S, \A n \in Nat : n \in S => n + 1 \in S
  PROVE  Nat \subseteq S
  <1> SUFFICES ASSUME Nat \ S # {} PROVE FALSE
    OBVIOUS
  <1>1. PICK n \in Nat \ S : \A m \in Nat \ S : n <= m
    BY Least
  <1>2. n # 0 /\ n - 1 \in Nat /\ n - 1 \in S
    BY <1>1
  <1> QED BY <1>1, <1>2

(* Induction over the sequences, which grow at the end.                    *)
LEMMA SeqInducts ==
  ASSUME NEW E, NEW T, <<>> \in T,
         \A s \in Seq(E), e \in E : s \in T => Append(s, e) \in T
  PROVE  Seq(E) \subseteq T
  <1> DEFINE N == {n \in Nat : \A s \in Seq(E) : Len(s) = n => s \in T}
  <1>1. 0 \in N
    BY EmptySeq
  <1>2. ASSUME NEW n \in Nat, n \in N PROVE n + 1 \in N
    <2> SUFFICES ASSUME NEW s \in Seq(E), Len(s) = n + 1 PROVE s \in T
      OBVIOUS
    <2>1. s # <<>>
      BY EmptySeq
    <2>2. PICK t \in Seq(E), e \in E : s = Append(t, e)
      BY <2>1, SequenceEmptyOrAppend
    <2>3. Len(t) = n
      BY <2>2, AppendProperties, LenProperties
    <2> QED BY <1>2, <2>2, <2>3
  <1> HIDE DEF N
  <1>3. Nat \subseteq N
    BY <1>1, <1>2, Inducts
  <1>4. \A s \in Seq(E) : Len(s) \in N
    BY <1>3, LenProperties
  <1> QED BY <1>4 DEF N

(* f holds the concatenations of the parts of s up to each place.          *)
Joins(s, f, n) ==
  /\ f \in [0..n -> Seq(Nat)] /\ f[0] = <<>>
  /\ \A i \in 1..n : f[i] = f[i - 1] \o s[i]

(* Such a list of prefixes exists for every sequence of sequences.         *)
LEMMA JoinsExist ==
  ASSUME NEW s \in Seq(Seq(Nat))
  PROVE  \E f : Joins(s, f, Len(s))
  <1> DEFINE S == {n \in Nat : n <= Len(s) => \E f : Joins(s, f, n)}
  <1>1. 0 \in S
    <2>1. Joins(s, [i \in 0..0 |-> <<>>], 0)
      BY DEF Joins
    <2> QED BY <2>1
  <1>2. ASSUME NEW n \in Nat, n \in S PROVE n + 1 \in S
    <2>1. CASE n + 1 <= Len(s)
      <3>1. PICK f : Joins(s, f, n)
        BY <1>2, <2>1
      <3>2. s[n + 1] \in Seq(Nat) /\ f[n] \in Seq(Nat)
        BY <2>1, <3>1, ElementOfSeq, LenProperties DEF Joins
      <3> DEFINE last == f[n] \o s[n + 1]
                 g == [i \in 0..(n + 1) |-> IF i <= n THEN f[i] ELSE last]
      <3>3. last \in Seq(Nat)
        BY <3>2, ConcatProperties
      <3> HIDE DEF last
      <3>4. \A i \in 0..n : g[i] = f[i] /\ f[i] \in Seq(Nat)
        BY <3>1 DEF Joins
      <3>5. g[n + 1] = last
        OBVIOUS
      <3>6. g \in [0..(n + 1) -> Seq(Nat)]
        <4>1. \A i \in 0..(n + 1) : g[i] \in Seq(Nat)
          <5> TAKE i \in 0..(n + 1)
          <5>1. CASE i \in 0..n
            BY <3>4, <5>1
          <5>2. CASE i = n + 1
            BY <3>3, <3>5, <5>2
          <5> QED BY <5>1, <5>2
        <4> HIDE DEF g
        <4>2. g = [i \in 0..(n + 1) |-> g[i]]
          BY DEF g
        <4> QED BY <4>1, <4>2
      <3>7. \A i \in 1..n : g[i] = g[i - 1] \o s[i]
        <4> TAKE i \in 1..n
        <4>1. g[i] = f[i] /\ g[i - 1] = f[i - 1]
          BY <3>4
        <4>2. f[i] = f[i - 1] \o s[i]
          BY <3>1 DEF Joins
        <4> QED BY <4>1, <4>2
      <3>8. g[n + 1] = g[n] \o s[n + 1]
        <4>1. g[n] = f[n]
          BY <3>4
        <4> HIDE DEF g
        <4> QED BY <3>5, <4>1 DEF last
      <3>9. g[0] = <<>>
        BY <3>1, <3>4 DEF Joins
      <3> HIDE DEF g
      <3>10. \A i \in 1..(n + 1) : g[i] = g[i - 1] \o s[i]
        <4> TAKE i \in 1..(n + 1)
        <4>1. CASE i \in 1..n
          BY <3>7, <4>1
        <4>2. CASE i = n + 1
          <5>1. i - 1 = n
            BY <4>2
          <5> QED BY <3>8, <4>2, <5>1
        <4>3. i \in 1..n \/ i = n + 1
          OBVIOUS
        <4> QED BY <4>1, <4>2, <4>3
      <3>11. Joins(s, g, n + 1)
        BY <3>6, <3>9, <3>10 DEF Joins
      <3> QED BY <3>11
    <2>2. CASE ~(n + 1 <= Len(s))
      BY <2>2
    <2> QED BY <2>1, <2>2
  <1> HIDE DEF S
  <1>3. Nat \subseteq S
    BY <1>1, <1>2, Inducts
  <1> QED BY <1>3, LenProperties DEF S

(* FlattenSeq returns the last of the prefixes: its recursive function is  *)
(* equal to them, by induction on the index.                               *)
LEMMA FlattenJoins ==
  ASSUME NEW s \in Seq(Seq(Nat)), NEW f, Joins(s, f, Len(s))
  PROVE  FlattenSeq(s) = f[Len(s)]
  <1>0. Len(s) \in Nat /\ \A i \in 1..Len(s) : s[i] \in Seq(Nat)
    BY LenProperties, ElementOfSeq
  <1>1. CASE Len(s) = 0
    <2>1. s = <<>>
      BY <1>1, EmptySeq
    <2> QED BY <1>1, <2>1 DEF FlattenSeq, Joins
  <1>2. CASE Len(s) # 0
    <2> DEFINE Parts(g) == [i \in 1..Len(s) |-> IF i = 1 THEN s[i] ELSE g[i - 1] \o s[i]]
               flatten == CHOOSE g : g = Parts(g)
               j == [i \in 1..Len(s) |-> f[i]]
    <2>1. FlattenSeq(s) = flatten[Len(s)]
      BY <1>2 DEF FlattenSeq
    <2>2. ASSUME NEW i \in 1..Len(s)
          PROVE  f[i] = IF i = 1 THEN s[i] ELSE j[i - 1] \o s[i]
      <3>1. f[i] = f[i - 1] \o s[i]
        BY <2>2 DEF Joins
      <3>2. CASE i = 1
        <4>0. f[0] = <<>> /\ i - 1 = 0
          BY <3>2 DEF Joins
        <4>1. f[i] = <<>> \o s[i]
          BY <3>1, <4>0
        <4>2. s[i] \in Seq(Nat)
          BY <1>0
        <4> QED BY <3>2, <4>1, <4>2, ConcatEmptySeq
      <3>3. CASE i # 1
        <4>1. i - 1 \in 1..Len(s)
          BY <1>0, <3>3
        <4>2. j[i - 1] = f[i - 1]
          BY <4>1
        <4> HIDE DEF j
        <4> QED BY <3>1, <3>3, <4>2
      <3> QED BY <3>2, <3>3
    <2>3. j = Parts(j)
      <3>1. \A i \in 1..Len(s) : j[i] = IF i = 1 THEN s[i] ELSE j[i - 1] \o s[i]
        <4> TAKE i \in 1..Len(s)
        <4>1. j[i] = f[i]
          OBVIOUS
        <4> QED BY <2>2, <4>1
      <3>2. j = [i \in 1..Len(s) |-> j[i]]
        OBVIOUS
      <3> HIDE DEF j
      <3> QED BY <3>1, <3>2
    <2>4. flatten = Parts(flatten)
      BY <2>3
    <2> HIDE DEF flatten
    <2> DEFINE S == {n \in Nat : n \in 1..Len(s) => flatten[n] = j[n]}
    <2>5. 0 \in S
      OBVIOUS
    <2>6. ASSUME NEW n \in Nat, n \in S PROVE n + 1 \in S
      <3> SUFFICES ASSUME n + 1 \in 1..Len(s) PROVE flatten[n + 1] = j[n + 1]
        OBVIOUS
      <3>1. flatten[n + 1] = IF n + 1 = 1 THEN s[n + 1] ELSE flatten[n + 1 - 1] \o s[n + 1]
        <4> DEFINE k == n + 1
        <4>1. k \in 1..Len(s)
          OBVIOUS
        <4> HIDE DEF k
        <4>2. flatten[k] = IF k = 1 THEN s[k] ELSE flatten[k - 1] \o s[k]
          BY <2>4, <4>1
        <4> QED BY <4>2 DEF k
      <3>2. j[n + 1] = IF n + 1 = 1 THEN s[n + 1] ELSE j[n + 1 - 1] \o s[n + 1]
        <4> DEFINE k == n + 1
        <4>1. k \in 1..Len(s)
          OBVIOUS
        <4> HIDE DEF k
        <4>2. j[k] = f[k]
          BY <4>1
        <4> HIDE DEF j
        <4>3. j[k] = IF k = 1 THEN s[k] ELSE j[k - 1] \o s[k]
          BY <2>2, <4>1, <4>2
        <4> QED BY <4>3 DEF k
      <3>3. n + 1 - 1 = n /\ (n + 1 # 1 => n \in 1..Len(s))
        OBVIOUS
      <3> HIDE DEF j
      <3>4. n + 1 # 1 => flatten[n] = j[n]
        BY <2>6, <3>3
      <3> QED BY <3>1, <3>2, <3>3, <3>4
    <2> HIDE DEF S
    <2>7. Nat \subseteq S
      BY <2>5, <2>6, Inducts
    <2>8. flatten[Len(s)] = j[Len(s)]
      <3>1. Len(s) \in S /\ Len(s) \in 1..Len(s)
        BY <1>0, <1>2, <2>7
      <3> HIDE DEF j
      <3> QED BY <3>1 DEF S
    <2> QED BY <1>0, <1>2, <2>1, <2>8
  <1> QED BY <1>1, <1>2

(* What FlattenSeq does to the chunks of frames that grow at the end, or   *)
(* lose the first frame.                                                   *)
LEMMA FlattenNone == FlattenSeq(<<>>) = <<>>
  BY EmptySeq DEF FlattenSeq

(* The chunks of all frames are a sequence.                                *)
LEMMA FlattenType ==
  ASSUME NEW s \in Seq(Seq(Nat))
  PROVE  FlattenSeq(s) \in Seq(Nat) /\ Len(FlattenSeq(s)) \in Nat
  <1>1. PICK f : Joins(s, f, Len(s))
    BY JoinsExist
  <1>2. FlattenSeq(s) = f[Len(s)]
    BY <1>1, FlattenJoins
  <1>3. f[Len(s)] \in Seq(Nat)
    BY <1>1, LenProperties DEF Joins
  <1> QED BY <1>2, <1>3, LenProperties

(* One more frame adds its chunks at the end.                              *)
LEMMA FlattenAppend ==
  ASSUME NEW s \in Seq(Seq(Nat)), NEW x \in Seq(Nat)
  PROVE  FlattenSeq(Append(s, x)) = FlattenSeq(s) \o x
  <1> DEFINE t == Append(s, x)
  <1>1. /\ t \in Seq(Seq(Nat)) /\ Len(s) \in Nat
        /\ Len(t) = Len(s) + 1 /\ t[Len(s) + 1] = x
        /\ \A i \in 1..Len(s) : t[i] = s[i]
    BY AppendProperties, LenProperties
  <1> HIDE DEF t
  <1>2. PICK f : Joins(t, f, Len(t))
    BY <1>1, JoinsExist
  <1> DEFINE g == [i \in 0..Len(s) |-> f[i]]
  <1>3. \A i \in 0..Len(s) : g[i] = f[i] /\ f[i] \in Seq(Nat)
    <2>1. \A i \in 0..Len(s) : i \in 0..Len(t)
      BY <1>1
    <2> QED BY <1>2, <2>1 DEF Joins
  <1>4. g \in [0..Len(s) -> Seq(Nat)] /\ g[0] = <<>>
    BY <1>1, <1>2, <1>3 DEF Joins
  <1>5. \A i \in 1..(Len(s) + 1) : f[i] = f[i - 1] \o t[i]
    BY <1>1, <1>2 DEF Joins
  <1> HIDE DEF g
  <1>6. \A i \in 1..Len(s) : g[i] = g[i - 1] \o s[i]
    <2> TAKE i \in 1..Len(s)
    <2>1. g[i] = f[i] /\ g[i - 1] = f[i - 1] /\ t[i] = s[i]
      BY <1>1, <1>3
    <2>2. i \in 1..(Len(s) + 1)
      BY <1>1
    <2>3. f[i] = f[i - 1] \o t[i]
      BY <1>5, <2>2
    <2> QED BY <2>1, <2>3
  <1>7. Joins(s, g, Len(s))
    BY <1>4, <1>6 DEF Joins
  <1>8. FlattenSeq(s) = f[Len(s)]
    BY <1>1, <1>3, <1>7, FlattenJoins
  <1>9. FlattenSeq(t) = f[Len(s) + 1]
    BY <1>1, <1>2, FlattenJoins
  <1>10. f[Len(s) + 1] = f[Len(s)] \o x
    <2>1. Len(s) + 1 \in 1..(Len(s) + 1) /\ (Len(s) + 1) - 1 = Len(s)
      BY <1>1
    <2>2. f[Len(s) + 1] = f[(Len(s) + 1) - 1] \o t[Len(s) + 1]
      BY <1>5, <2>1
    <2> QED BY <1>1, <2>1, <2>2
  <1> QED BY <1>8, <1>9, <1>10 DEF t

(* The chunks are those of the first frame, and then those of the others.  *)
LEMMA FlattenHead ==
  \A s \in Seq(Seq(Nat)) :
    s # <<>> => FlattenSeq(s) = Head(s) \o FlattenSeq(Tail(s))
  <1> DEFINE T == {s \in Seq(Seq(Nat)) :
                     s # <<>> => FlattenSeq(s) = Head(s) \o FlattenSeq(Tail(s))}
  <1>1. <<>> \in T
    BY EmptySeq
  <1>2. ASSUME NEW s \in Seq(Seq(Nat)), NEW x \in Seq(Nat), s \in T
        PROVE  Append(s, x) \in T
    <2>1. Append(s, x) \in Seq(Seq(Nat))
      BY AppendProperties
    <2>2. FlattenSeq(Append(s, x)) = FlattenSeq(s) \o x
      BY FlattenAppend
    <2>3. CASE s = <<>>
      <3>1. Head(Append(s, x)) = x /\ Tail(Append(s, x)) = <<>>
        BY <2>3, HeadTailAppend
      <3>2. FlattenSeq(s) = <<>> /\ FlattenSeq(Tail(Append(s, x))) = <<>>
        BY <2>3, <3>1, FlattenNone
      <3>3. <<>> \o x = x \o <<>>
        BY ConcatEmptySeq
      <3> QED BY <2>1, <2>2, <3>1, <3>2, <3>3
    <2>4. CASE s # <<>>
      <3>1. /\ Head(Append(s, x)) = Head(s)
            /\ Tail(Append(s, x)) = Append(Tail(s), x)
        BY <2>4, HeadTailAppend
      <3>2. Head(s) \in Seq(Nat) /\ Tail(s) \in Seq(Seq(Nat))
        BY <2>4, HeadTailProperties
      <3>3. FlattenSeq(Append(Tail(s), x)) = FlattenSeq(Tail(s)) \o x
        BY <3>2, FlattenAppend
      <3>4. FlattenSeq(s) = Head(s) \o FlattenSeq(Tail(s))
        BY <1>2, <2>4
      <3>5. FlattenSeq(Tail(s)) \in Seq(Nat)
        BY <3>2, FlattenType
      <3>6. (Head(s) \o FlattenSeq(Tail(s))) \o x = Head(s) \o (FlattenSeq(Tail(s)) \o x)
        <4> DEFINE a == Head(s)
                   b == FlattenSeq(Tail(s))
        <4>1. a \in Seq(Nat) /\ b \in Seq(Nat)
          BY <3>2, <3>5
        <4> HIDE DEF a, b
        <4>2. (a \o b) \o x = a \o (b \o x)
          BY <4>1, SMT
        <4> QED BY <4>2 DEF a, b
      <3> QED BY <2>1, <2>2, <3>1, <3>3, <3>4, <3>6
    <2> QED BY <2>3, <2>4
  <1> HIDE DEF T
  <1>3. Seq(Seq(Nat)) \subseteq T
    BY <1>1, <1>2, SeqInducts
  <1> QED BY <1>3 DEF T

-----------------------------------------------------------------------------
(* n is the sum of the acknowledgements: f is what remains after each.     *)
Owed(acks, n) ==
  \E f \in [0..Len(acks) -> Nat] :
    /\ f[0] = n /\ f[Len(acks)] = 0
    /\ \A i \in 1..Len(acks) : f[i - 1] = f[i] + acks[i]

(* Without acknowledgements nothing is owed.                               *)
LEMMA OwedNone == Owed(<<>>, 0)
  <1> DEFINE f == [i \in 0..0 |-> 0]
  <1>1. Len(<<>>) = 0
    BY EmptySeq
  <1>2. f \in [0..0 -> Nat] /\ f[0] = 0
    OBVIOUS
  <1> HIDE DEF f
  <1>3. \A i \in 1..0 : f[i - 1] = f[i] + <<>>[i]
    OBVIOUS
  <1> QED BY <1>1, <1>2, <1>3 DEF Owed

(* The first acknowledgement is at most what is owed, and the others make  *)
(* up the rest.                                                            *)
LEMMA OwedTail ==
  ASSUME NEW acks \in Seq(Nat), acks # <<>>, NEW n \in Nat, Owed(acks, n)
  PROVE  Head(acks) <= n /\ Owed(Tail(acks), n - Head(acks))
  <1>1. /\ Len(acks) \in Nat \ {0} /\ Head(acks) = acks[1] /\ acks[1] \in Nat
        /\ Len(Tail(acks)) = Len(acks) - 1
        /\ \A i \in 1..Len(Tail(acks)) : Tail(acks)[i] = acks[i + 1]
    BY EmptySeq, HeadTailProperties, ElementOfSeq
  <1>2. PICK f \in [0..Len(acks) -> Nat] :
          /\ f[0] = n /\ f[Len(acks)] = 0
          /\ \A i \in 1..Len(acks) : f[i - 1] = f[i] + acks[i]
    BY DEF Owed
  <1> DEFINE L == Len(acks) - 1
             g == [i \in 0..L |-> f[i + 1]]
  <1>3. L \in Nat /\ L + 1 = Len(acks)
    BY <1>1
  <1>4. \A i \in 0..L : i + 1 \in 0..Len(acks) /\ g[i] = f[i + 1] /\ g[i] \in Nat
    BY <1>1
  <1>5. g \in [0..L -> Nat]
    BY <1>4
  <1> HIDE DEF g
  <1>6. n = g[0] + acks[1]
    <2>1. f[1 - 1] = f[1] + acks[1]
      BY <1>1, <1>2
    <2> QED BY <1>2, <1>3, <1>4, <2>1
  <1>7. g[L] = 0
    BY <1>2, <1>3, <1>4
  <1>8. \A i \in 1..L : g[i - 1] = g[i] + Tail(acks)[i]
    <2> TAKE i \in 1..L
    <2>1. i + 1 \in 1..Len(acks) /\ i + 1 - 1 = i /\ i - 1 \in 0..L /\ i - 1 + 1 = i
      BY <1>3
    <2>2. f[i] = f[i + 1] + acks[i + 1]
      BY <1>2, <2>1
    <2> QED BY <1>1, <1>4, <2>1, <2>2
  <1>9. acks[1] <= n /\ n - acks[1] = g[0]
    BY <1>1, <1>3, <1>4, <1>6
  <1> QED BY <1>1, <1>5, <1>7, <1>8, <1>9 DEF Owed

(* What two sequences of acknowledgements make up adds up.                 *)
LEMMA OwedConcat ==
  ASSUME NEW a \in Seq(Nat), NEW b \in Seq(Nat), NEW m \in Nat, NEW n \in Nat,
         Owed(a, m), Owed(b, n)
  PROVE  Owed(a \o b, m + n)
  <1> DEFINE A == Len(a)
             B == Len(b)
  <1>1. /\ A \in Nat /\ B \in Nat /\ Len(a \o b) = A + B
        /\ \A i \in 1..(A + B) : (a \o b)[i] = IF i <= A THEN a[i] ELSE b[i - A]
        /\ \A i \in 1..A : a[i] \in Nat
        /\ \A i \in 1..B : b[i] \in Nat
    BY ConcatProperties, LenProperties, ElementOfSeq
  <1>2. PICK f \in [0..A -> Nat] :
          f[0] = m /\ f[A] = 0 /\ \A i \in 1..A : f[i - 1] = f[i] + a[i]
    BY DEF Owed
  <1>3. PICK g \in [0..B -> Nat] :
          g[0] = n /\ g[B] = 0 /\ \A i \in 1..B : g[i - 1] = g[i] + b[i]
    BY DEF Owed
  <1> HIDE DEF A, B
  <1> DEFINE k == [i \in 0..(A + B) |-> IF i <= A THEN f[i] + n ELSE g[i - A]]
  <1>4. \A i \in 0..A : k[i] = f[i] + n /\ f[i] \in Nat
    BY <1>1
  <1>5. \A i \in 0..(A + B) : i >= A => i - A \in 0..B /\ k[i] = g[i - A] /\ k[i] \in Nat
    <2> TAKE i \in 0..(A + B)
    <2>1. CASE i = A
      <3>1. k[A] = f[A] + n /\ A - A = 0 /\ 0 \in 0..B
        BY <1>1, <1>4
      <3> HIDE DEF k
      <3> QED BY <1>2, <1>3, <2>1, <3>1
    <2>2. CASE i > A
      <3>1. i - A \in 0..B /\ ~(i <= A)
        BY <1>1, <2>2
      <3>2. k[i] = g[i - A] /\ g[i - A] \in Nat
        BY <3>1
      <3> QED BY <3>1, <3>2
    <2> QED BY <1>1, <2>1, <2>2
  <1>6. k \in [0..(A + B) -> Nat]
    <2> HIDE DEF k
    <2>1. ASSUME NEW i \in 0..(A + B) PROVE k[i] \in Nat
      <3>1. CASE i >= A
        BY <1>5, <3>1
      <3>2. CASE ~(i >= A)
        <4>1. i \in 0..A
          BY <1>1, <3>2
        <4>2. k[i] = f[i] + n /\ f[i] \in Nat
          BY <1>4, <4>1
        <4> QED BY <4>2
      <3> QED BY <3>1, <3>2
    <2>2. k = [i \in 0..(A + B) |-> k[i]]
      BY DEF k
    <2> QED BY <2>1, <2>2
  <1> HIDE DEF k
  <1>7. k[0] = m + n /\ k[A + B] = 0
    <2>1. 0 \in 0..A /\ A + B \in 0..(A + B) /\ A + B >= A /\ (A + B) - A = B
      BY <1>1
    <2>2. k[0] = f[0] + n
      BY <1>4, <2>1
    <2>3. k[A + B] = g[(A + B) - A]
      BY <1>5, <2>1
    <2> QED BY <1>2, <1>3, <2>1, <2>2, <2>3
  <1>8. \A i \in 1..(A + B) : k[i - 1] = k[i] + (a \o b)[i]
    <2> TAKE i \in 1..(A + B)
    <2>1. CASE i <= A
      <3>1. i \in 1..A /\ i - 1 \in 0..A /\ i \in 0..A
        BY <1>1, <2>1
      <3>2. f[i - 1] = f[i] + a[i] /\ (a \o b)[i] = a[i] /\ a[i] \in Nat
        <4>1. i \in 1..(A + B)
          OBVIOUS
        <4> QED BY <1>1, <1>2, <2>1, <3>1, <4>1
      <3>3. k[i] = f[i] + n /\ k[i - 1] = f[i - 1] + n /\ f[i] \in Nat
        BY <1>4, <3>1
      <3> QED BY <3>2, <3>3
    <2>2. CASE i > A
      <3>1. i - A \in 1..B /\ (i - A) - 1 = (i - 1) - A /\ i - 1 >= A
            /\ i \in 0..(A + B) /\ i - 1 \in 0..(A + B)
        BY <1>1, <2>2
      <3>2. g[(i - A) - 1] = g[i - A] + b[i - A] /\ (a \o b)[i] = b[i - A]
        <4>1. ~(i <= A)
          BY <1>1, <2>2
        <4> QED BY <1>1, <1>3, <3>1, <4>1
      <3>3. k[i] = g[i - A] /\ k[i - 1] = g[(i - 1) - A]
        BY <1>1, <1>5, <2>2, <3>1
      <3> QED BY <3>1, <3>2, <3>3
    <2>3. i <= A \/ i > A
      BY <1>1
    <2> QED BY <2>1, <2>2, <2>3
  <1> DEFINE c == a \o b
  <1>9. Len(c) = A + B
    BY <1>1
  <1>10. \A i \in 1..(A + B) : k[i - 1] = k[i] + c[i]
    BY <1>8
  <1> HIDE DEF c
  <1>11. Owed(c, m + n)
    <2>1. k \in [0..Len(c) -> Nat]
      BY <1>6, <1>9
    <2>2. k[Len(c)] = 0 /\ \A i \in 1..Len(c) : k[i - 1] = k[i] + c[i]
      BY <1>7, <1>9, <1>10
    <2> QED BY <1>7, <2>1, <2>2, Zenon DEF Owed
  <1> QED BY <1>11 DEF c

(* One acknowledgement makes up its size.                                  *)
LEMMA OwedOne ==
  ASSUME NEW k \in Nat
  PROVE  <<k>> \in Seq(Nat) /\ Owed(<<k>>, k)
  <1> DEFINE f == [i \in 0..1 |-> IF i = 0 THEN k ELSE 0]
  <1>1. Len(<<k>>) = 1 /\ <<k>>[1] = k /\ <<k>> \in Seq(Nat)
    OBVIOUS
  <1>2. f \in [0..1 -> Nat] /\ f[0] = k /\ f[1] = 0
    OBVIOUS
  <1> HIDE DEF f
  <1>3. \A i \in 1..1 : f[i - 1] = f[i] + <<k>>[i]
    BY <1>1, <1>2
  <1> QED BY <1>1, <1>2, <1>3 DEF Owed

(* The acknowledgements of frames make up the chunks of the frames.        *)
LEMMA OwedSizes ==
  \A s \in Seq(Seq(Nat)) :
    Sizes(s) \in Seq(Nat) /\ Owed(Sizes(s), Len(FlattenSeq(s)))
  <1> DEFINE T == {s \in Seq(Seq(Nat)) :
                     Sizes(s) \in Seq(Nat) /\ Owed(Sizes(s), Len(FlattenSeq(s)))}
  <1>1. <<>> \in T
    <2>1. Sizes(<<>>) = <<>>
      BY DEF Sizes
    <2> QED BY <2>1, FlattenNone, OwedNone, EmptySeq
  <1>2. ASSUME NEW s \in Seq(Seq(Nat)), NEW x \in Seq(Nat), s \in T
        PROVE  Append(s, x) \in T
    <2> DEFINE t == Append(s, x)
    <2>1. /\ t \in Seq(Seq(Nat)) /\ Len(s) \in Nat /\ DOMAIN s = 1..Len(s)
          /\ Len(t) = Len(s) + 1 /\ DOMAIN t = 1..Len(t) /\ t[Len(s) + 1] = x
          /\ \A i \in 1..Len(s) : t[i] = s[i]
      BY AppendProperties, LenProperties
    <2>2. Len(x) \in Nat
      BY LenProperties
    <2> HIDE DEF t
    <2>3. Len(Sizes(s)) = Len(s) /\ DOMAIN Sizes(s) = 1..Len(s)
      BY <1>2, <2>1, LenProperties DEF Sizes
    <2>4. \A i \in 1..Len(s) : Sizes(s)[i] = Len(s[i])
      BY <2>1 DEF Sizes
    <2> DEFINE u == Sizes(s) \o <<Len(x)>>
    <2>5. <<Len(x)>> \in Seq(Nat) /\ Len(<<Len(x)>>) = 1 /\ <<Len(x)>>[1] = Len(x)
      BY <2>2
    <2>6. /\ u \in Seq(Nat) /\ Len(u) = Len(s) + 1
          /\ \A i \in 1..(Len(s) + 1) :
               u[i] = IF i <= Len(s) THEN Sizes(s)[i] ELSE <<Len(x)>>[i - Len(s)]
      BY <1>2, <2>3, <2>5, ConcatProperties
    <2>7. DOMAIN u = 1..(Len(s) + 1)
      BY <2>6, LenProperties
    <2>8. \A i \in 1..(Len(s) + 1) : u[i] = Len(t[i])
      <3> TAKE i \in 1..(Len(s) + 1)
      <3>1. CASE i \in 1..Len(s)
        BY <2>1, <2>4, <2>6, <3>1
      <3>2. CASE i = Len(s) + 1
        <4>1. ~(i <= Len(s)) /\ i - Len(s) = 1
          BY <2>1, <3>2
        <4>2. u[i] = <<Len(x)>>[1]
          BY <2>6, <4>1
        <4> HIDE DEF u
        <4> QED BY <2>1, <2>5, <3>2, <4>2
      <3>3. i \in 1..Len(s) \/ i = Len(s) + 1
        BY <2>1
      <3> QED BY <3>1, <3>2, <3>3
    <2>9. Sizes(t) = u
      <3>1. Sizes(t) = [i \in 1..(Len(s) + 1) |-> Len(t[i])]
        BY <2>1 DEF Sizes
      <3>2. u = [i \in 1..(Len(s) + 1) |-> u[i]]
        BY <2>6, <2>7, LenProperties
      <3> HIDE DEF u
      <3> QED BY <2>8, <3>1, <3>2
    <2>10. Len(FlattenSeq(t)) = Len(FlattenSeq(s)) + Len(x)
      BY FlattenAppend, FlattenType, ConcatProperties DEF t
    <2>11. Owed(u, Len(FlattenSeq(s)) + Len(x))
      BY <1>2, <2>2, <2>5, OwedOne, OwedConcat, FlattenType
    <2> HIDE DEF u
    <2>12. t \in T
      BY <2>1, <2>6, <2>9, <2>10, <2>11
    <2> QED BY <2>12 DEF t
  <1> HIDE DEF T
  <1>3. Seq(Seq(Nat)) \subseteq T
    BY <1>1, <1>2, SeqInducts
  <1> QED BY <1>3 DEF T

(* The types.                                                              *)
SocketState == {"none", "open", "closing", "closed"}

FlowType == [live: BOOLEAN, pending: Seq(Nat), flushing: BOOLEAN, paused: BOOLEAN,
             unacked: Nat, deadline: BOOLEAN, checking: BOOLEAN]

ViewerType == [control: SocketState, io: SocketState, started: BOOLEAN,
               bootstrap: Seq(Nat), handshake: BOOLEAN, flow: FlowType,
               frames: Seq(Seq(Nat)), restore: Seq(Nat), acks: Seq(Nat)]

Entry == [op: {"write"}, upTo: Nat] \cup [op: {"snapshot"}, viewer: Viewers]

MirrorType == [queue: Seq(Entry), pending: Nat, screen: Nat]

HubType == [open: BOOLEAN, exited: BOOLEAN, members: SUBSET Viewers,
            pressured: SUBSET Viewers, ptyPaused: BOOLEAN, mirror: MirrorType,
            view: [Viewers -> ViewerType]]

ClientType == [restored: {"no", "writing", "yes"}, base: Nat, pending: Seq(Seq(Nat)),
               shown: Seq(Nat)]

RunType == [printed: Nat, alive: BOOLEAN, closes: Nat]

(* s holds the chunks that follow chunk a.                                 *)
From(s, a) == \A i \in 1..Len(s) : s[i] = a + i

(* What the browser has, and what was ever sent to it.                     *)
Received(c) == Len(c.shown) + Len(FlattenSeq(c.pending))
Sent(w, c) == Received(c) + Len(FlattenSeq(w.frames))

(* The output is on its way to the viewer: nothing of it may be missing.   *)
Follows(w, in) == in /\ w.started /\ w.io \in {"none", "open"}

(* The stream of a viewer, behind the snapshot of chunk b.                 *)
Streams(w, c, in, printed, b) ==
  /\ From(c.shown, b)
  /\ From(FlattenSeq(c.pending), b + Len(c.shown))
  /\ From(FlattenSeq(w.frames), b + Received(c))
  /\ Follows(w, in) =>
       /\ From(w.flow.pending, b + Sent(w, c))
       /\ From(w.bootstrap, b + Sent(w, c) + Len(w.flow.pending))
       /\ b + Sent(w, c) + Len(w.flow.pending) + Len(w.bootstrap) = printed

(* The screen is that of chunk b when the queue has come to entry p.       *)
IsWrite(m, q) == m.queue[q].op = "write"

LastWrite(m, p, q) ==
  q \in 1..(p - 1) /\ IsWrite(m, q) /\ \A r \in (q + 1)..(p - 1) : ~IsWrite(m, r)

Shows(m, p, b) ==
  /\ \A q \in 1..(p - 1) : LastWrite(m, p, q) => m.queue[q].upTo = b
  /\ (\A q \in 1..(p - 1) : ~IsWrite(m, q)) => m.screen = b

SnapshotAt(m, v, p) == p \in 1..Len(m.queue) /\ ~IsWrite(m, p) /\ m.queue[p].viewer = v

(* The snapshot is that of chunk b, and the viewer gets one.               *)
Restores(m, v, w, c, b) ==
  /\ \A p \in 1..Len(m.queue) : SnapshotAt(m, v, p) =>
       /\ Shows(m, p, b) /\ w.restore = <<>> /\ c.restored = "no"
       /\ \A q \in 1..Len(m.queue) : SnapshotAt(m, v, q) => p = q
  /\ w.restore # <<>> => Head(w.restore) = b /\ c.restored = "no"
  /\ c.restored # "no" => c.base = b
  /\ c.restored # "yes" => c.shown = <<>>
  /\ c.restored = "yes" => c.pending = <<>>

(* viewer.controlSocket or viewer.ioSocket is set, and which part of a     *)
(* viewer goes with which socket.                                          *)
Attached == {"open", "closing"}

Sockets(m, v, w, c, in) ==
  /\ in <=> w.control \in Attached \/ w.io \in Attached
  /\ w.flow.live <=> w.io \in Attached
  /\ ~w.flow.live => w.frames = <<>> /\ w.flow.pending = <<>>
  /\ ~in \/ w.io = "open" \/ ~w.started => w.bootstrap = <<>>
  /\ ~w.started => w.flow.pending = <<>>
  /\ w.io = "none" => c.pending = <<>> /\ c.shown = <<>> /\ w.acks = <<>>
  /\ w.control = "none" =>
       /\ ~w.started /\ w.restore = <<>> /\ c.restored = "no"
       /\ w.frames = <<>> /\ c.pending = <<>>
       /\ \A p \in 1..Len(m.queue) : ~SnapshotAt(m, v, p)

(* What the flow may hold and what is not acknowledged: n is what the      *)
(* acknowledgements that are under way make up.                            *)
Credit(w, c) ==
  /\ Len(FlattenSeq(c.pending)) <= ViewerMax
  /\ w.flow.live =>
       /\ Len(w.flow.pending) + w.flow.unacked <= ViewerMax
       /\ \E n \in Nat :
            /\ Owed(w.acks, n)
            /\ Len(FlattenSeq(w.frames)) + Len(FlattenSeq(c.pending)) + n <= w.flow.unacked

(* One viewer, for any chunk b that it may have started from; and all of   *)
(* them.                                                                   *)
Fine(m, v, w, c, in, printed) ==
  /\ Sockets(m, v, w, c, in)
  /\ Credit(w, c)
  /\ \E b \in Nat : Streams(w, c, in, printed, b) /\ Restores(m, v, w, c, b)

FineAt(h, v, c, printed) ==
  Fine(h.mirror, v, h.view[v], c, v \in h.members, printed)

(* The mirror comes to show what is printed, while there is a RunState.    *)
MirrorInv(m) ==
  m.pending \in {0, Len(m.queue)} /\ (m.pending # 0 => IsWrite(m, m.pending))

MirrorGood(h, printed) ==
  /\ MirrorInv(h.mirror)
  /\ h.open => Shows(h.mirror, Len(h.mirror.queue) + 1, printed)
  /\ ~h.open => h.members = {} /\ h.mirror = NewMirror

Typed ==
  /\ run \in RunType /\ hub \in HubType /\ client \in [Viewers -> ClientType]

Good(h, c, printed) ==
  /\ MirrorGood(h, printed)
  /\ \A v \in Viewers : FineAt(h, v, c[v], printed)

IInv == Typed /\ Good(hub, client, run.printed)

-----------------------------------------------------------------------------
(* Sums whose terms are lengths are left to these.                         *)
LEMMA AddType == \A i, j \in Nat : i + j \in Nat
  OBVIOUS

(* No chunks follow any chunk.                                             *)
LEMMA FromNone == \A a : From(<<>>, a)
  BY EmptySeq DEF From

(* Chunks that follow each other: first those of s, and then those of t.   *)
LEMMA FromConcat ==
  ASSUME NEW s \in Seq(Nat), NEW t \in Seq(Nat), NEW a \in Nat
  PROVE  /\ Len(s) \in Nat /\ Len(t) \in Nat
         /\ s \o t \in Seq(Nat) /\ Len(s \o t) = Len(s) + Len(t)
         /\ From(s \o t, a) <=> From(s, a) /\ From(t, a + Len(s))
  <1> DEFINE u == s \o t
  <1>1. /\ Len(s) \in Nat /\ Len(t) \in Nat
        /\ u \in Seq(Nat) /\ Len(u) = Len(s) + Len(t)
        /\ \A i \in 1..(Len(s) + Len(t)) :
             u[i] = IF i <= Len(s) THEN s[i] ELSE t[i - Len(s)]
    BY ConcatProperties, LenProperties
  <1> HIDE DEF u
  <1>2. \A i \in 1..Len(s) : i \in 1..Len(u) /\ u[i] = s[i]
    BY <1>1
  <1>3. \A i \in 1..Len(t) : i + Len(s) \in 1..Len(u) /\ u[i + Len(s)] = t[i]
    <2> TAKE i \in 1..Len(t)
    <2>1. ~(i + Len(s) <= Len(s)) /\ (i + Len(s)) - Len(s) = i
      BY <1>1
    <2>2. i + Len(s) \in 1..(Len(s) + Len(t))
      BY <1>1
    <2> QED BY <1>1, <2>1, <2>2
  <1>4. ASSUME From(u, a) PROVE From(s, a) /\ From(t, a + Len(s))
    <2>1. \A i \in 1..Len(t) : u[i + Len(s)] = a + (i + Len(s))
      BY <1>3, <1>4 DEF From
    <2>2. \A i \in 1..Len(t) : i + Len(s) \in 1..Len(u)
      BY <1>3
    <2>3. From(s, a)
      BY <1>2, <1>4 DEF From
    <2>4. \A i \in 1..Len(t) : t[i] = a + Len(s) + i
      <3> TAKE i \in 1..Len(t)
      <3>1. a + (i + Len(s)) = a + Len(s) + i
        BY <1>1
      <3> QED BY <1>3, <2>1, <3>1
    <2> QED BY <2>3, <2>4 DEF From
  <1>5. ASSUME From(s, a), From(t, a + Len(s)) PROVE From(u, a)
    <2> SUFFICES ASSUME NEW i \in 1..Len(u) PROVE u[i] = a + i
      BY DEF From
    <2>1. CASE i \in 1..Len(s)
      BY <1>2, <1>5, <2>1 DEF From
    <2>2. CASE ~(i <= Len(s))
      <3>1. i - Len(s) \in 1..Len(t) /\ u[i] = t[i - Len(s)]
        BY <1>1, <2>2
      <3>2. t[i - Len(s)] = a + Len(s) + (i - Len(s))
        BY <1>5, <3>1 DEF From
      <3> QED BY <1>1, <3>1, <3>2
    <2> QED BY <1>1, <2>1, <2>2
  <1> QED BY <1>1, <1>4, <1>5 DEF u

(* One chunk follows chunk a if it is the next one.                        *)
LEMMA FromOne == \A a, k \in Nat : From(<<k>>, a) <=> k = a + 1
  <1> TAKE a, k \in Nat
  <1>1. Len(<<k>>) = 1 /\ <<k>>[1] = k
    OBVIOUS
  <1> QED BY <1>1 DEF From

(* Sequence facts about frames that one more frame follows, or loses one.  *)
LEMMA FramesAppend ==
  ASSUME NEW s \in Seq(Seq(Nat)), NEW x \in Seq(Nat), NEW a \in Nat
  PROVE  LET t == Append(s, x) IN
         /\ t \in Seq(Seq(Nat)) /\ Len(FlattenSeq(s)) \in Nat /\ Len(x) \in Nat
         /\ Len(FlattenSeq(t)) = Len(FlattenSeq(s)) + Len(x)
         /\ From(FlattenSeq(t), a) <=>
              From(FlattenSeq(s), a) /\ From(x, a + Len(FlattenSeq(s)))
  <1> DEFINE f == FlattenSeq(s)
             t == Append(s, x)
  <1>1. t \in Seq(Seq(Nat)) /\ FlattenSeq(t) = f \o x
    BY AppendProperties, FlattenAppend
  <1>2. f \in Seq(Nat)
    BY FlattenType
  <1> HIDE DEF f, t
  <1>3. /\ Len(f) \in Nat /\ Len(x) \in Nat /\ Len(f \o x) = Len(f) + Len(x)
        /\ From(f \o x, a) <=> From(f, a) /\ From(x, a + Len(f))
    BY <1>2, FromConcat
  <1> QED BY <1>1, <1>3 DEF f, t

(* The first frame and the others.                                         *)
LEMMA FramesTail ==
  ASSUME NEW s \in Seq(Seq(Nat)), s # <<>>, NEW a \in Nat
  PROVE  /\ Head(s) \in Seq(Nat) /\ Tail(s) \in Seq(Seq(Nat))
         /\ Len(FlattenSeq(Tail(s))) \in Nat /\ Len(Head(s)) \in Nat
         /\ Len(FlattenSeq(s)) = Len(Head(s)) + Len(FlattenSeq(Tail(s)))
         /\ From(FlattenSeq(s), a) <=>
              From(Head(s), a) /\ From(FlattenSeq(Tail(s)), a + Len(Head(s)))
  <1> DEFINE g == FlattenSeq(Tail(s))
             x == Head(s)
  <1>1. x \in Seq(Nat) /\ Tail(s) \in Seq(Seq(Nat)) /\ FlattenSeq(s) = x \o g
    BY HeadTailProperties, FlattenHead
  <1>2. g \in Seq(Nat)
    BY <1>1, FlattenType
  <1> HIDE DEF g, x
  <1>3. /\ Len(g) \in Nat /\ Len(x) \in Nat /\ Len(x \o g) = Len(x) + Len(g)
        /\ From(x \o g, a) <=> From(x, a) /\ From(g, a + Len(x))
    BY <1>1, <1>2, FromConcat
  <1> QED BY <1>1, <1>3 DEF g, x

-----------------------------------------------------------------------------
(* The parts of a viewer that its stream depends on.                       *)
Alike(x, w) ==
  /\ x.control = w.control /\ x.io = w.io /\ x.started = w.started
  /\ x.restore = w.restore /\ x.acks = w.acks /\ x.flow.live = w.flow.live

(* The types of what a viewer and its browser hold, and of its lengths.    *)
LEMMA PartTypes ==
  ASSUME NEW w \in ViewerType, NEW c \in ClientType
  PROVE  /\ FlattenSeq(w.frames) \in Seq(Nat) /\ Len(FlattenSeq(w.frames)) \in Nat
         /\ FlattenSeq(c.pending) \in Seq(Nat) /\ Len(FlattenSeq(c.pending)) \in Nat
         /\ w.bootstrap \in Seq(Nat) /\ Len(w.bootstrap) \in Nat
         /\ w.flow.pending \in Seq(Nat) /\ Len(w.flow.pending) \in Nat
         /\ w.flow.unacked \in Nat /\ Len(c.shown) \in Nat /\ c.shown \in Seq(Nat)
         /\ w.acks \in Seq(Nat)
         /\ Received(c) \in Nat /\ Sent(w, c) \in Nat
  <1>1. /\ w.frames \in Seq(Seq(Nat)) /\ c.pending \in Seq(Seq(Nat))
        /\ w.bootstrap \in Seq(Nat) /\ w.flow.pending \in Seq(Nat)
        /\ w.flow.unacked \in Nat /\ c.shown \in Seq(Nat) /\ w.acks \in Seq(Nat)
    BY DEF ViewerType, FlowType, ClientType
  <1>2. /\ FlattenSeq(w.frames) \in Seq(Nat) /\ Len(FlattenSeq(w.frames)) \in Nat
        /\ FlattenSeq(c.pending) \in Seq(Nat) /\ Len(FlattenSeq(c.pending)) \in Nat
    BY <1>1, FlattenType
  <1>3. Len(w.bootstrap) \in Nat /\ Len(w.flow.pending) \in Nat /\ Len(c.shown) \in Nat
    BY <1>1, LenProperties
  <1>4. Received(c) \in Nat
    BY <1>2, <1>3, AddType, Zenon DEF Received
  <1>5. Sent(w, c) \in Nat
    BY <1>2, <1>4 DEF Sent
  <1> QED BY <1>1, <1>2, <1>3, <1>4, <1>5

(* Nothing that the stream depends on changes.                             *)
LEMMA FineAlike ==
  ASSUME NEW m, NEW v, NEW w, NEW x, NEW c, NEW in, NEW p, Fine(m, v, w, c, in, p),
         Alike(x, w), x.frames = w.frames, x.bootstrap = w.bootstrap,
         x.flow.pending = w.flow.pending, x.flow.unacked = w.flow.unacked
  PROVE  Fine(m, v, x, c, in, p)
  <1>1. Sockets(m, v, x, c, in)
    BY DEF Fine, Sockets, Alike
  <1>2. Credit(x, c)
    BY DEF Fine, Credit, Alike
  <1>3. PICK b \in Nat : Streams(w, c, in, p, b) /\ Restores(m, v, w, c, b)
    BY DEF Fine
  <1>4. Streams(x, c, in, p, b) /\ Restores(m, v, x, c, b)
    BY <1>3 DEF Streams, Restores, Alike, Sent, Follows
  <1> QED BY <1>1, <1>2, <1>4 DEF Fine

(* What is printed does not matter to a viewer that follows no output.     *)
LEMMA FineIdle ==
  ASSUME NEW m, NEW v, NEW w, NEW c, NEW in, NEW p, NEW q, Fine(m, v, w, c, in, p),
         ~Follows(w, in)
  PROVE  Fine(m, v, w, c, in, q)
  BY DEF Fine, Streams

(* A frame is sent.                                                        *)
LEMMA FineSend ==
  ASSUME NEW m, NEW v, NEW w \in ViewerType, NEW x \in ViewerType,
         NEW c \in ClientType, NEW in \in BOOLEAN, NEW p \in Nat,
         NEW frame \in Seq(Nat),
         Fine(m, v, w, c, in, p), Alike(x, w), x.bootstrap = w.bootstrap,
         w.io = "open", w.started, w.flow.pending = <<>>, x.flow.pending = <<>>,
         Len(frame) + w.flow.unacked <= ViewerMax, From(frame, p),
         x.frames = Append(w.frames, frame),
         x.flow.unacked = w.flow.unacked + Len(frame)
  PROVE  Fine(m, v, x, c, in, p + Len(frame))
  <1>1. /\ Sockets(m, v, w, c, in) /\ w.flow.live /\ w.bootstrap = <<>>
        /\ w.control # "none" /\ Follows(w, in)
    BY DEF Fine, Sockets, Attached, Follows
  <1>2. Sockets(m, v, x, c, in)
    BY <1>1 DEF Sockets, Alike
  <1>3. w.frames \in Seq(Seq(Nat))
    BY DEF ViewerType
  <1>4. /\ Len(frame) \in Nat
        /\ Len(FlattenSeq(x.frames)) = Len(FlattenSeq(w.frames)) + Len(frame)
        /\ \A a \in Nat : From(FlattenSeq(x.frames), a) <=>
             From(FlattenSeq(w.frames), a) /\ From(frame, a + Len(FlattenSeq(w.frames)))
    BY <1>3, FramesAppend
  <1>5. Len(<<>>) = 0
    OBVIOUS
  <1>6. Credit(x, c)
    <2>1. PICK n \in Nat :
            /\ Owed(w.acks, n)
            /\ Len(FlattenSeq(w.frames)) + Len(FlattenSeq(c.pending)) + n <= w.flow.unacked
      BY <1>1 DEF Fine, Credit
    <2> DEFINE i == Len(FlattenSeq(w.frames))
               j == Len(FlattenSeq(c.pending))
               k == Len(frame)
               u == w.flow.unacked
               f == Len(FlattenSeq(x.frames))
    <2>4. /\ i \in Nat /\ j \in Nat /\ k \in Nat /\ u \in Nat /\ f = i + k
          /\ x.flow.unacked = u + k /\ i + j + n <= u /\ k + u <= ViewerMax
          /\ Len(x.flow.pending) = 0 /\ ViewerMax \in Nat
      BY <1>4, <1>5, <2>1, PartTypes, TerminalAssumption
    <2> HIDE DEF i, j, k, u, f
    <2>5. f + j + n <= u + k /\ 0 + (u + k) <= ViewerMax
      BY <2>4
    <2>2. Len(FlattenSeq(x.frames)) + Len(FlattenSeq(c.pending)) + n <= x.flow.unacked
      BY <2>4, <2>5 DEF f, j
    <2>3. Len(x.flow.pending) + x.flow.unacked <= ViewerMax
      BY <2>4, <2>5
    <2> QED BY <2>1, <2>2, <2>3 DEF Fine, Credit, Alike
  <1>7. PICK b \in Nat : Streams(w, c, in, p, b) /\ Restores(m, v, w, c, b)
    BY DEF Fine
  <1>8. b + Sent(w, c) = p
    BY <1>1, <1>5, <1>7, PartTypes DEF Streams
  <1>9. From(FlattenSeq(x.frames), b + Received(c))
    <2>1. (b + Received(c)) + Len(FlattenSeq(w.frames)) = p
      BY <1>8, PartTypes DEF Sent
    <2>2. b + Received(c) \in Nat
      BY PartTypes
    <2> QED BY <1>4, <1>7, <2>1, <2>2 DEF Streams
  <1>10. b + Sent(x, c) = p + Len(frame)
    <2>1. Sent(x, c) = Sent(w, c) + Len(frame) /\ Sent(w, c) \in Nat
      <3>1. /\ Received(c) \in Nat /\ Len(FlattenSeq(w.frames)) \in Nat /\ Len(frame) \in Nat
            /\ Sent(w, c) \in Nat
        BY <1>4, PartTypes
      <3>2. Received(c) + (Len(FlattenSeq(w.frames)) + Len(frame))
              = (Received(c) + Len(FlattenSeq(w.frames))) + Len(frame)
        BY <3>1
      <3> QED BY <1>4, <3>1, <3>2 DEF Sent
    <2>2. Len(frame) \in Nat
      BY <1>4
    <2> DEFINE sent == Sent(w, c)
               k == Len(frame)
    <2>3. sent \in Nat /\ k \in Nat /\ b + sent = p
      BY <1>8, <2>1, <2>2
    <2> HIDE DEF sent, k
    <2>4. b + (sent + k) = p + k
      BY <2>3
    <2> QED BY <2>1, <2>4 DEF sent, k
  <1>11. Streams(x, c, in, p + Len(frame), b)
    <2>1. x.bootstrap = <<>>
      BY <1>1
    <2>2. b + Sent(x, c) + Len(x.flow.pending) + Len(x.bootstrap) = p + Len(frame)
      BY <1>4, <1>5, <1>10, <2>1
    <2> QED BY <1>7, <1>9, <2>1, <2>2, FromNone DEF Streams
  <1>12. Restores(m, v, x, c, b)
    BY <1>7 DEF Restores, Alike
  <1> QED BY <1>2, <1>6, <1>11, <1>12 DEF Fine

(* What waits for the flush is taken away: as if it was not printed yet.   *)
LEMMA FineTake ==
  ASSUME NEW m, NEW v, NEW w \in ViewerType, NEW x \in ViewerType,
         NEW c \in ClientType, NEW in \in BOOLEAN, NEW p \in Nat,
         Fine(m, v, w, c, in, p), Alike(x, w), x.bootstrap = w.bootstrap,
         w.io = "open", w.started, x.flow.pending = <<>>,
         x.frames = w.frames, x.flow.unacked = w.flow.unacked
  PROVE  /\ p - Len(w.flow.pending) \in Nat
         /\ Fine(m, v, x, c, in, p - Len(w.flow.pending))
         /\ From(w.flow.pending, p - Len(w.flow.pending))
         /\ Len(w.flow.pending) + w.flow.unacked <= ViewerMax
  <1>1. /\ Sockets(m, v, w, c, in) /\ w.flow.live /\ w.bootstrap = <<>>
        /\ w.control # "none" /\ Follows(w, in)
    BY DEF Fine, Sockets, Attached, Follows
  <1>2. Sockets(m, v, x, c, in)
    BY <1>1 DEF Sockets, Alike
  <1>3. Len(<<>>) = 0
    OBVIOUS
  <1>4. Credit(x, c) /\ Len(w.flow.pending) + w.flow.unacked <= ViewerMax
    <2>1. /\ Len(w.flow.pending) + w.flow.unacked <= ViewerMax
          /\ \E n \in Nat :
            /\ Owed(w.acks, n)
            /\ Len(FlattenSeq(w.frames)) + Len(FlattenSeq(c.pending)) + n <= w.flow.unacked
      BY <1>1 DEF Fine, Credit
    <2>2. Len(x.flow.pending) + x.flow.unacked <= ViewerMax
      <3>1. x.flow.pending = <<>> /\ x.flow.unacked = w.flow.unacked
        OBVIOUS
      <3>2. Len(w.flow.pending) \in Nat /\ w.flow.unacked \in Nat /\ ViewerMax \in Nat
        BY PartTypes, TerminalAssumption
      <3> QED BY <1>3, <2>1, <3>1, <3>2
    <2> QED BY <2>1, <2>2 DEF Fine, Credit, Alike
  <1>5. PICK b \in Nat : Streams(w, c, in, p, b) /\ Restores(m, v, w, c, b)
    BY DEF Fine
  <1>6. b + Sent(w, c) + Len(w.flow.pending) = p
    BY <1>1, <1>3, <1>5, PartTypes DEF Streams
  <1>7. p - Len(w.flow.pending) = b + Sent(w, c) /\ p - Len(w.flow.pending) \in Nat
    <2>1. Sent(w, c) \in Nat /\ Len(w.flow.pending) \in Nat
      BY PartTypes
    <2> QED BY <1>6, <2>1
  <1>8. Sent(x, c) = Sent(w, c)
    BY DEF Sent
  <1>9. Streams(x, c, in, p - Len(w.flow.pending), b)
    <2>1. x.bootstrap = <<>>
      BY <1>1
    <2>2. b + Sent(x, c) + Len(x.flow.pending) + Len(x.bootstrap) = p - Len(w.flow.pending)
      BY <1>3, <1>7, <1>8, <2>1
    <2> QED BY <1>5, <2>1, <2>2, FromNone DEF Streams
  <1>10. Restores(m, v, x, c, b)
    BY <1>5 DEF Restores, Alike
  <1>11. From(w.flow.pending, p - Len(w.flow.pending))
    BY <1>1, <1>5, <1>7 DEF Streams
  <1> QED BY <1>2, <1>4, <1>7, <1>9, <1>10, <1>11 DEF Fine

(* Chunks wait for the flush.                                              *)
LEMMA FineHold ==
  ASSUME NEW m, NEW v, NEW w \in ViewerType, NEW x \in ViewerType,
         NEW c \in ClientType, NEW in \in BOOLEAN, NEW p \in Nat,
         NEW chunks \in Seq(Nat),
         Fine(m, v, w, c, in, p), Alike(x, w), x.bootstrap = w.bootstrap,
         w.io \in Attached, w.started, x.frames = w.frames,
         x.flow.unacked = w.flow.unacked, x.flow.pending = w.flow.pending \o chunks,
         Len(chunks) + Len(w.flow.pending) + w.flow.unacked <= ViewerMax,
         From(chunks, p)
  PROVE  Fine(m, v, x, c, in, p + Len(chunks))
  <1>1. /\ Sockets(m, v, w, c, in) /\ w.flow.live
        /\ w.control # "none" /\ w.io # "none"
        /\ w.io = "open" => w.bootstrap = <<>>
    BY DEF Fine, Sockets, Attached
  <1>2. Sockets(m, v, x, c, in)
    BY <1>1 DEF Sockets, Alike
  <1>3. Len(<<>>) = 0
    OBVIOUS
  <1>0. w.flow.pending \in Seq(Nat) /\ Len(w.flow.pending) \in Nat
    BY PartTypes
  <1>4. /\ Len(chunks) \in Nat
        /\ Len(x.flow.pending) = Len(w.flow.pending) + Len(chunks)
        /\ \A a \in Nat : From(x.flow.pending, a) <=>
              From(w.flow.pending, a) /\ From(chunks, a + Len(w.flow.pending))
    <2>1. /\ Len(w.flow.pending \o chunks) = Len(w.flow.pending) + Len(chunks)
          /\ Len(chunks) \in Nat
          /\ \A a \in Nat : From(w.flow.pending \o chunks, a) <=>
               From(w.flow.pending, a) /\ From(chunks, a + Len(w.flow.pending))
      BY <1>0, FromConcat
    <2> QED BY <2>1
  <1>5. Credit(x, c)
    <2>1. Len(x.flow.pending) + x.flow.unacked <= ViewerMax
      BY <1>4, PartTypes
    <2> QED BY <2>1 DEF Fine, Credit, Alike
  <1>6. PICK b \in Nat : Streams(w, c, in, p, b) /\ Restores(m, v, w, c, b)
    BY DEF Fine
  <1>7. Sent(x, c) = Sent(w, c)
    BY DEF Sent
  <1>8. ASSUME Follows(x, in)
        PROVE  /\ From(x.flow.pending, b + Sent(x, c)) /\ x.bootstrap = <<>>
               /\ b + Sent(x, c) + Len(x.flow.pending) + Len(x.bootstrap) = p + Len(chunks)
    <2>1. Follows(w, in) /\ x.bootstrap = <<>> /\ w.bootstrap = <<>>
      BY <1>1, <1>8 DEF Follows, Alike
    <2>2. b + Sent(w, c) + Len(w.flow.pending) = p
      BY <1>3, <1>6, <2>1, PartTypes DEF Streams
    <2>3. b + Sent(x, c) \in Nat
      BY PartTypes
    <2>4. From(x.flow.pending, b + Sent(x, c))
      BY <1>4, <1>6, <1>7, <2>1, <2>2, <2>3 DEF Streams
    <2>5. b + Sent(w, c) + (Len(w.flow.pending) + Len(chunks)) + 0 = p + Len(chunks)
      <3> DEFINE a == b + Sent(w, c)
      <3>1. a \in Nat /\ a + Len(w.flow.pending) = p
        BY <1>7, <2>2, <2>3
      <3>2. a + (Len(w.flow.pending) + Len(chunks)) = p + Len(chunks)
        <4> DEFINE k == Len(chunks)
                   l == Len(w.flow.pending)
        <4>1. k \in Nat /\ l \in Nat /\ a + l = p
          BY <1>0, <1>4, <3>1
        <4> HIDE DEF a, k, l
        <4>2. a + (l + k) = p + k
          BY <3>1, <4>1
        <4> QED BY <4>2 DEF k, l
      <3> HIDE DEF a
      <3>3. p + Len(chunks) \in Nat
        BY <1>4, AddType, Zenon
      <3>4. p + Len(chunks) + 0 = p + Len(chunks)
        BY <3>3
      <3>5. a + (Len(w.flow.pending) + Len(chunks)) + 0 = p + Len(chunks)
        BY <3>2, <3>4
      <3> QED BY <3>5 DEF a
    <2> QED BY <1>3, <1>4, <1>7, <2>1, <2>4, <2>5
  <1>9. Streams(x, c, in, p + Len(chunks), b)
    BY <1>6, <1>8, FromNone DEF Streams
  <1>10. Restores(m, v, x, c, b)
    BY <1>6 DEF Restores, Alike
  <1> QED BY <1>2, <1>5, <1>9, <1>10 DEF Fine

(* A chunk waits for the io socket.                                        *)
LEMMA FineBuffer ==
  ASSUME NEW m, NEW v, NEW w \in ViewerType, NEW x \in ViewerType,
         NEW c \in ClientType, NEW in \in BOOLEAN, NEW p \in Nat,
         Fine(m, v, w, c, in, p), Alike(x, w), in, w.started,
         w.io \notin Attached, x.frames = w.frames, x.flow.pending = w.flow.pending,
         x.flow.unacked = w.flow.unacked, x.bootstrap = Append(w.bootstrap, p + 1)
  PROVE  Fine(m, v, x, c, in, p + 1)
  <1>1. Sockets(m, v, w, c, in) /\ ~w.flow.live /\ w.control # "none"
    BY DEF Fine, Sockets
  <1>2. Sockets(m, v, x, c, in)
    BY <1>1 DEF Sockets, Alike, Attached
  <1>3. Credit(x, c)
    BY DEF Fine, Credit, Alike
  <1>4. PICK b \in Nat : Streams(w, c, in, p, b) /\ Restores(m, v, w, c, b)
    BY DEF Fine
  <1>5. /\ x.bootstrap = w.bootstrap \o <<p + 1>> /\ <<p + 1>> \in Seq(Nat)
        /\ Len(<<p + 1>>) = 1
    <2>1. w.bootstrap \in Seq(Nat) /\ p + 1 \in Nat
      BY PartTypes
    <2>2. Append(w.bootstrap, p + 1) = w.bootstrap \o <<p + 1>>
      BY <2>1, AppendIsConcat
    <2> QED BY <2>1, <2>2
  <1>6. /\ Len(x.bootstrap) = Len(w.bootstrap) + 1
        /\ \A a \in Nat : From(x.bootstrap, a) <=>
              From(w.bootstrap, a) /\ From(<<p + 1>>, a + Len(w.bootstrap))
    <2>1. w.bootstrap \in Seq(Nat)
      BY PartTypes
    <2>2. /\ Len(w.bootstrap \o <<p + 1>>) = Len(w.bootstrap) + Len(<<p + 1>>)
          /\ \A a \in Nat : From(w.bootstrap \o <<p + 1>>, a) <=>
              From(w.bootstrap, a) /\ From(<<p + 1>>, a + Len(w.bootstrap))
      BY <1>5, <2>1, FromConcat
    <2> QED BY <1>5, <2>2
  <1>7. Sent(x, c) = Sent(w, c)
    BY DEF Sent
  <1>8. ASSUME Follows(x, in)
        PROVE  /\ From(x.flow.pending, b + Sent(x, c))
               /\ From(x.bootstrap, b + Sent(x, c) + Len(x.flow.pending))
               /\ b + Sent(x, c) + Len(x.flow.pending) + Len(x.bootstrap) = p + 1
    <2>1. Follows(w, in)
      BY <1>8 DEF Follows, Alike
    <2>2. /\ From(w.flow.pending, b + Sent(w, c))
          /\ From(w.bootstrap, b + Sent(w, c) + Len(w.flow.pending))
          /\ b + Sent(w, c) + Len(w.flow.pending) + Len(w.bootstrap) = p
      BY <1>4, <2>1 DEF Streams
    <2> DEFINE a == b + Sent(w, c) + Len(w.flow.pending)
    <2>3. a \in Nat /\ Len(w.bootstrap) \in Nat
      <3>1. Sent(w, c) \in Nat /\ Len(w.flow.pending) \in Nat /\ Len(w.bootstrap) \in Nat
        BY PartTypes
      <3> QED BY <3>1
    <2>4. From(<<p + 1>>, p)
      BY FromOne
    <2>5. b + Sent(x, c) + Len(x.flow.pending) = a
      BY <1>7
    <2>6. From(w.bootstrap, a) /\ a + Len(w.bootstrap) = p
      BY <2>2
    <2>7. From(x.flow.pending, b + Sent(x, c))
      BY <1>7, <2>2
    <2> HIDE DEF a
    <2>8. From(x.bootstrap, a)
      BY <1>6, <2>3, <2>4, <2>6
    <2>9. a + Len(x.bootstrap) = p + 1
      <3>1. Len(x.bootstrap) \in Nat /\ 1 \in Nat
        BY PartTypes
      <3> DEFINE k == Len(x.bootstrap)
                 l == Len(w.bootstrap)
      <3>2. k \in Nat /\ l \in Nat /\ k = l + 1 /\ a + l = p
        BY <1>6, <2>3, <2>6, <3>1
      <3> HIDE DEF k, l
      <3>3. a + k = p + 1
        BY <2>3, <3>2
      <3> QED BY <3>3 DEF k
    <2> QED BY <2>5, <2>7, <2>8, <2>9
  <1>9. Streams(x, c, in, p + 1, b)
    BY <1>4, <1>8 DEF Streams
  <1>10. Restores(m, v, x, c, b)
    BY <1>4 DEF Restores, Alike
  <1> QED BY <1>2, <1>3, <1>9, <1>10 DEF Fine

(* The viewer is gone, or its output socket is.                            *)
LEMMA FineLeave ==
  ASSUME NEW m, NEW v, NEW w \in ViewerType, NEW x \in ViewerType,
         NEW c \in ClientType, NEW in \in BOOLEAN, NEW to \in BOOLEAN, NEW p, NEW q,
         Fine(m, v, w, c, in, p), x.started = w.started,
         x.io = w.io \/ (w.io # "none" /\ x.io = "closed"), x.io \notin Attached,
         x.control = w.control \/ (w.control # "none" /\ x.control = "closed"),
         to <=> x.control \in Attached,
         x.frames = <<>>, ~x.flow.live, x.flow.pending = <<>>,
         x.bootstrap = w.bootstrap \/ x.bootstrap = <<>>, to \/ x.bootstrap = <<>>,
         x.restore = w.restore \/ x.restore = <<>>, x.acks = w.acks \/ x.acks = <<>>,
         Follows(x, to) => p = q /\ in /\ w.io = x.io /\ x.bootstrap = w.bootstrap
  PROVE  Fine(m, v, x, c, to, q)
  <1>1. Sockets(m, v, w, c, in)
    BY DEF Fine
  <1>2. Sockets(m, v, x, c, to)
    BY <1>1 DEF Sockets, Attached
  <1>3. Credit(x, c)
    BY DEF Fine, Credit
  <1>4. PICK b \in Nat : Streams(w, c, in, p, b) /\ Restores(m, v, w, c, b)
    BY DEF Fine
  <1>5. FlattenSeq(x.frames) = <<>>
    BY FlattenNone
  <1>6. ASSUME Follows(x, to)
        PROVE  w.frames = <<>> /\ w.flow.pending = <<>> /\ Follows(w, in)
    BY <1>1, <1>6 DEF Follows, Sockets
  <1>7. Streams(x, c, to, q, b)
    BY <1>4, <1>5, <1>6, FromNone DEF Streams, Sent
  <1>8. Restores(m, v, x, c, b)
    BY <1>4 DEF Restores
  <1> QED BY <1>2, <1>3, <1>7, <1>8 DEF Fine

-----------------------------------------------------------------------------
(* Fewer acknowledgements under way still fit.                             *)
LEMMA LessOwed ==
  \A i, j, n, u \in Nat : i + j + n <= u => i + j + 0 <= u
  OBVIOUS

(* A socket that the peer closes.                                          *)
LEMMA FineCloses ==
  ASSUME NEW m, NEW v, NEW w, NEW x, NEW c, NEW in, NEW p, Fine(m, v, w, c, in, p),
         x.io = w.io \/ (w.io = "open" /\ x.io = "closing"),
         x.control = w.control \/ (w.control = "open" /\ x.control = "closing"),
         x.started = w.started, x.restore = w.restore, x.acks = w.acks,
         x.flow = w.flow, x.frames = w.frames, x.bootstrap = w.bootstrap
  PROVE  Fine(m, v, x, c, in, p)
  <1>1. Sockets(m, v, x, c, in)
    BY DEF Fine, Sockets, Attached
  <1>2. Credit(x, c)
    BY DEF Fine, Credit
  <1>3. PICK b \in Nat : Streams(w, c, in, p, b) /\ Restores(m, v, w, c, b)
    BY DEF Fine
  <1>4. Streams(x, c, in, p, b)
    BY <1>3 DEF Streams, Sent, Follows
  <1>5. Restores(m, v, x, c, b)
    BY <1>3 DEF Restores
  <1> QED BY <1>1, <1>2, <1>4, <1>5 DEF Fine

(* What waits for the flush is dropped with a socket that is closing.      *)
LEMMA FineDrop ==
  ASSUME NEW m, NEW v, NEW w \in ViewerType, NEW x \in ViewerType, NEW c, NEW in, NEW p,
         Fine(m, v, w, c, in, p), Alike(x, w), w.io = "closing",
         x.bootstrap = w.bootstrap, x.frames = w.frames,
         x.flow.pending = <<>>, x.flow.unacked = w.flow.unacked
  PROVE  Fine(m, v, x, c, in, p)
  <1>1. Sockets(m, v, x, c, in)
    BY DEF Fine, Sockets, Attached, Alike
  <1>2. Credit(x, c)
    <2> DEFINE k == Len(w.flow.pending)
               u == w.flow.unacked
    <2>1. k \in Nat /\ u \in Nat /\ ViewerMax \in Nat /\ Len(x.flow.pending) = 0
      BY LenProperties, TerminalAssumption, EmptySeq DEF ViewerType, FlowType
    <2>2. w.flow.live => k + u <= ViewerMax
      BY DEF Fine, Credit
    <2> HIDE DEF k, u
    <2>3. w.flow.live => 0 + u <= ViewerMax
      BY <2>1, <2>2
    <2> QED BY <2>1, <2>3 DEF Fine, Credit, Alike, u
  <1>3. PICK b \in Nat : Streams(w, c, in, p, b) /\ Restores(m, v, w, c, b)
    BY DEF Fine
  <1>4. Streams(x, c, in, p, b)
    BY <1>3 DEF Streams, Sent, Follows, Alike
  <1>5. Restores(m, v, x, c, b)
    BY <1>3 DEF Restores, Alike
  <1> QED BY <1>1, <1>2, <1>4, <1>5 DEF Fine

(* The control socket ends, and the io socket stays.                       *)
LEMMA FineControlEnds ==
  ASSUME NEW m, NEW v, NEW w \in ViewerType, NEW x, NEW c \in ClientType,
         NEW in \in BOOLEAN, NEW p,
         Fine(m, v, w, c, in, p), x.io = w.io, w.io \in Attached, w.control = "closing",
         x.control = "closed", x.started = w.started, x.restore = <<>>, x.acks = <<>>,
         x.flow = w.flow, x.frames = w.frames, x.bootstrap = w.bootstrap
  PROVE  Fine(m, v, x, c, in, p)
  <1>1. Sockets(m, v, x, c, in)
    BY DEF Fine, Sockets, Attached
  <1>2. Credit(x, c)
    <2> SUFFICES ASSUME x.flow.live
                 PROVE  Len(FlattenSeq(x.frames)) + Len(FlattenSeq(c.pending)) + 0
                          <= x.flow.unacked
      BY OwedNone DEF Fine, Credit
    <2>1. PICK n \in Nat : Len(FlattenSeq(w.frames)) + Len(FlattenSeq(c.pending)) + n
                             <= w.flow.unacked
      BY DEF Fine, Credit
    <2> QED BY <2>1, LessOwed, PartTypes, Zenon
  <1>3. PICK b \in Nat : Streams(w, c, in, p, b) /\ Restores(m, v, w, c, b)
    BY DEF Fine
  <1>4. Streams(x, c, in, p, b)
    BY <1>3 DEF Streams, Sent, Follows
  <1>5. Restores(m, v, x, c, b)
    BY <1>3 DEF Restores
  <1> QED BY <1>1, <1>2, <1>4, <1>5 DEF Fine

(* An acknowledgement of a live flow arrives: it owes that much.           *)
LEMMA FineAck ==
  ASSUME NEW m, NEW v, NEW w \in ViewerType, NEW x \in ViewerType,
         NEW c \in ClientType, NEW in \in BOOLEAN, NEW p,
         Fine(m, v, w, c, in, p), Alike(x, [w EXCEPT !.acks = Tail(@)]),
         w.acks # <<>>, w.flow.live, x.frames = w.frames, x.bootstrap = w.bootstrap,
         x.flow.pending = w.flow.pending,
         x.flow.unacked = w.flow.unacked - Head(w.acks)
  PROVE  Fine(m, v, x, c, in, p)
  <1>1. /\ x.control = w.control /\ x.io = w.io /\ x.started = w.started
        /\ x.restore = w.restore /\ x.acks = Tail(w.acks) /\ x.flow.live
    BY DEF Alike, ViewerType
  <1>2. Sockets(m, v, x, c, in)
    BY <1>1 DEF Fine, Sockets, Attached
  <1>3. Credit(x, c)
    <2> DEFINE i == Len(FlattenSeq(w.frames))
               j == Len(FlattenSeq(c.pending))
               u == w.flow.unacked
               k == Len(w.flow.pending)
               h == Head(w.acks)
    <2>1. /\ i \in Nat /\ j \in Nat /\ u \in Nat /\ k \in Nat /\ h \in Nat
          /\ ViewerMax \in Nat
      BY PartTypes, HeadTailProperties, TerminalAssumption
    <2>2. j <= ViewerMax /\ k + u <= ViewerMax
      BY DEF Fine, Credit
    <2>3. PICK n \in Nat : Owed(w.acks, n) /\ i + j + n <= u
      BY DEF Fine, Credit
    <2>4. h <= n /\ Owed(Tail(w.acks), n - h)
      BY <2>3, OwedTail, PartTypes
    <2> HIDE DEF i, j, u, k, h
    <2>5. n - h \in Nat /\ i + j + (n - h) <= u - h /\ k + (u - h) <= ViewerMax
      BY <2>1, <2>2, <2>3, <2>4
    <2>6. /\ Len(FlattenSeq(x.frames)) = i /\ Len(FlattenSeq(c.pending)) = j
          /\ x.flow.unacked = u - h /\ Len(x.flow.pending) = k
      BY DEF i, j, u, k, h
    <2> QED BY <1>1, <2>2, <2>4, <2>5, <2>6 DEF Credit
  <1>4. PICK b \in Nat : Streams(w, c, in, p, b) /\ Restores(m, v, w, c, b)
    BY DEF Fine
  <1>5. Streams(x, c, in, p, b)
    BY <1>1, <1>4 DEF Streams, Sent, Follows
  <1>6. Restores(m, v, x, c, b)
    BY <1>1, <1>4 DEF Restores
  <1> QED BY <1>2, <1>3, <1>5, <1>6 DEF Fine

(* An acknowledgement is never of more than is unacknowledged, so flow.ack *)
(* does not refuse it.                                                     *)
LEMMA AckOwed ==
  ASSUME NEW m, NEW v, NEW w \in ViewerType, NEW c \in ClientType, NEW in, NEW p,
         Fine(m, v, w, c, in, p), w.acks # <<>>, w.flow.live
  PROVE  Head(w.acks) \in Nat /\ Head(w.acks) <= w.flow.unacked
  <1> DEFINE i == Len(FlattenSeq(w.frames))
             j == Len(FlattenSeq(c.pending))
             h == Head(w.acks)
             u == w.flow.unacked
  <1>1. i \in Nat /\ j \in Nat /\ u \in Nat /\ h \in Nat
    BY PartTypes, HeadTailProperties
  <1>2. PICK n \in Nat : Owed(w.acks, n) /\ i + j + n <= u
    BY DEF Fine, Credit
  <1>3. h <= n
    BY <1>2, OwedTail, PartTypes
  <1> HIDE DEF i, j, u, h
  <1>4. h <= u
    BY <1>1, <1>2, <1>3
  <1> QED BY <1>1, <1>4 DEF h, u

(* The acknowledgement of a flow that was closed meanwhile changes nothing *)
(* that matters.                                                           *)
LEMMA FineLateAck ==
  ASSUME NEW m, NEW v, NEW w, NEW x, NEW c, NEW in, NEW p, Fine(m, v, w, c, in, p),
         ~w.flow.live, w.io # "none", x.control = w.control, x.io = w.io,
         x.started = w.started, x.restore = w.restore, x.flow = w.flow,
         x.frames = w.frames, x.bootstrap = w.bootstrap
  PROVE  Fine(m, v, x, c, in, p)
  <1>1. Sockets(m, v, x, c, in)
    BY DEF Fine, Sockets
  <1>2. Credit(x, c)
    BY DEF Fine, Credit
  <1>3. PICK b \in Nat : Streams(w, c, in, p, b) /\ Restores(m, v, w, c, b)
    BY DEF Fine
  <1>4. Streams(x, c, in, p, b) /\ Restores(m, v, x, c, b)
    BY <1>3 DEF Streams, Sent, Follows, Restores
  <1> QED BY <1>1, <1>2, <1>4 DEF Fine

-----------------------------------------------------------------------------
(* The io socket attaches: what waited for it is still to be sent, as if   *)
(* it was not printed yet.                                                 *)
LEMMA FineAttachIo ==
  ASSUME NEW m, NEW v, NEW w \in ViewerType, NEW x \in ViewerType,
         NEW c \in ClientType, NEW in \in BOOLEAN, NEW to \in BOOLEAN, NEW p \in Nat,
         Fine(m, v, w, c, in, p), w.io = "none", x.io = "open",
         to <=> x.io \in Attached,
         x.control = w.control, x.started <=> w.started /\ in,
         x.restore = w.restore, x.acks = w.acks, x.frames = w.frames,
         x.bootstrap = <<>>, x.flow = NewFlow
  PROVE  /\ p - Len(w.bootstrap) \in Nat
         /\ Fine(m, v, x, c, to, p - Len(w.bootstrap))
         /\ From(w.bootstrap, p - Len(w.bootstrap))
         /\ w.bootstrap # <<>> => x.started
  <1>1. /\ x.flow.live /\ x.flow.pending = <<>> /\ x.flow.unacked = 0
    BY DEF NewFlow, NoFlow
  <1>2. /\ ~w.flow.live /\ w.frames = <<>> /\ w.flow.pending = <<>>
        /\ c.pending = <<>> /\ c.shown = <<>> /\ w.acks = <<>>
        /\ ~in \/ ~w.started => w.bootstrap = <<>>
        /\ ~in => w.control \notin Attached
    BY DEF Fine, Sockets, Attached
  <1>3. Sockets(m, v, x, c, to)
    BY <1>1, <1>2 DEF Fine, Sockets, Attached
  <1>4. Len(<<>>) = 0
    OBVIOUS
  <1>5. Credit(x, c)
    <2>1. FlattenSeq(x.frames) = <<>> /\ FlattenSeq(c.pending) = <<>> /\ x.acks = <<>>
      BY <1>2, FlattenNone
    <2>2. ViewerMax \in Nat
      BY TerminalAssumption
    <2>3. /\ 0 <= ViewerMax /\ 0 + 0 <= ViewerMax /\ 0 + 0 + 0 <= 0
      BY <2>2
    <2>4. /\ Len(FlattenSeq(c.pending)) <= ViewerMax
          /\ Len(x.flow.pending) + x.flow.unacked <= ViewerMax
          /\ Len(FlattenSeq(x.frames)) + Len(FlattenSeq(c.pending)) + 0 <= x.flow.unacked
      BY <1>1, <1>4, <2>1, <2>3
    <2>5. Owed(x.acks, 0)
      BY <2>1, OwedNone
    <2> QED BY <2>4, <2>5 DEF Credit
  <1>6. PICK b \in Nat : Streams(w, c, in, p, b) /\ Restores(m, v, w, c, b)
    BY DEF Fine
  <1>7. Restores(m, v, x, c, b)
    BY <1>6 DEF Restores
  <1>8. FlattenSeq(x.frames) = <<>> /\ FlattenSeq(c.pending) = <<>>
    BY <1>2, FlattenNone
  <1>9. Sent(w, c) = 0 /\ Sent(x, c) = 0
    BY <1>2, <1>4, <1>8 DEF Sent, Received
  <1>10. Len(w.bootstrap) \in Nat
    BY PartTypes
  <1>11. CASE in /\ w.started
    <2>1. Follows(w, in)
      BY <1>11 DEF Follows
    <2>2. From(w.bootstrap, b + 0 + 0) /\ b + 0 + 0 + Len(w.bootstrap) = p
      BY <1>2, <1>4, <1>6, <1>9, <2>1 DEF Streams
    <2>3. p - Len(w.bootstrap) = b /\ b + 0 + 0 = b /\ b + 0 + 0 + 0 = b
      BY <1>10, <2>2
    <2>4. Streams(x, c, to, p - Len(w.bootstrap), b)
      BY <1>1, <1>2, <1>4, <1>8, <1>9, <2>3, FromNone DEF Streams
    <2>5. Fine(m, v, x, c, to, p - Len(w.bootstrap))
      BY <1>3, <1>5, <1>7, <2>4 DEF Fine
    <2> QED BY <1>11, <2>2, <2>3, <2>5
  <1>12. CASE ~(in /\ w.started)
    <2>1. w.bootstrap = <<>> /\ p - Len(w.bootstrap) = p
      BY <1>2, <1>4, <1>12
    <2>2. Streams(x, c, to, p, b)
      BY <1>2, <1>8, <1>12, FromNone DEF Streams, Follows
    <2>3. Fine(m, v, x, c, to, p)
      BY <1>3, <1>5, <1>7, <2>2 DEF Fine
    <2> QED BY <2>1, <2>3, FromNone
  <1> QED BY <1>11, <1>12

(* The control socket attaches, and a snapshot of what is printed is due.  *)
LEMMA FineAttachControl ==
  ASSUME NEW m, NEW n, NEW v, NEW w \in ViewerType, NEW x \in ViewerType,
         NEW c \in ClientType, NEW in \in BOOLEAN, NEW to \in BOOLEAN, NEW p \in Nat,
         Fine(m, v, w, c, in, p), w.control = "none", x.control = "open",
         to <=> x.control \in Attached,
         x.io = w.io, x.started, x.restore = w.restore, x.acks = w.acks,
         x.frames = w.frames, x.bootstrap = w.bootstrap, x.flow = w.flow,
         \A q \in 1..Len(n.queue) : SnapshotAt(n, v, q) =>
           SnapshotAt(m, v, q) \/ (q = Len(n.queue) /\ Shows(n, q, p))
  PROVE  Fine(n, v, x, c, to, p)
  <1>1. /\ ~w.started /\ w.restore = <<>> /\ c.restored = "no" /\ w.frames = <<>>
        /\ c.pending = <<>> /\ w.flow.pending = <<>> /\ w.bootstrap = <<>>
        /\ \A q \in 1..Len(m.queue) : ~SnapshotAt(m, v, q)
        /\ w.flow.live <=> w.io \in Attached
        /\ w.io = "none" => w.acks = <<>> /\ c.shown = <<>>
    BY DEF Fine, Sockets
  <1>2. c.shown = <<>>
    BY <1>1 DEF Fine, Restores
  <1>3. Sockets(n, v, x, c, to)
    BY <1>1 DEF Sockets, Attached
  <1>4. Credit(x, c)
    BY DEF Fine, Credit
  <1>5. FlattenSeq(x.frames) = <<>> /\ FlattenSeq(c.pending) = <<>> /\ Len(<<>>) = 0
    BY <1>1, FlattenNone
  <1>6. Sent(x, c) = 0 /\ p + 0 + 0 + 0 = p
    BY <1>2, <1>5 DEF Sent, Received
  <1>7. Streams(x, c, to, p, p)
    BY <1>1, <1>2, <1>5, <1>6, FromNone DEF Streams
  <1>8. \A q \in 1..Len(n.queue) : SnapshotAt(n, v, q) => q = Len(n.queue) /\ Shows(n, q, p)
    BY <1>1 DEF SnapshotAt
  <1>9. Restores(n, v, x, c, p)
    BY <1>1, <1>2, <1>8 DEF Restores
  <1> QED BY <1>3, <1>4, <1>7, <1>9 DEF Fine

-----------------------------------------------------------------------------
(* The queue of the mirror moves by d places.                              *)
LEMMA FineMirror ==
  ASSUME NEW m, NEW n, NEW d, NEW v, NEW w, NEW c, NEW in, NEW p,
         Fine(m, v, w, c, in, p), d \in Nat,
         \A q \in 1..Len(n.queue) : SnapshotAt(n, v, q) =>
           /\ q + d \in 1..Len(m.queue) /\ SnapshotAt(m, v, q + d)
           /\ \A b \in Nat : Shows(m, q + d, b) => Shows(n, q, b)
  PROVE  Fine(n, v, w, c, in, p)
  <1>1. Sockets(n, v, w, c, in)
    <2>1. w.control = "none" => \A q \in 1..Len(n.queue) : ~SnapshotAt(n, v, q)
      BY DEF Fine, Sockets
    <2> QED BY <2>1 DEF Fine, Sockets
  <1>2. PICK b \in Nat : Streams(w, c, in, p, b) /\ Restores(m, v, w, c, b)
    BY DEF Fine
  <1>3. ASSUME NEW q \in 1..Len(n.queue), SnapshotAt(n, v, q)
        PROVE  /\ Shows(n, q, b) /\ w.restore = <<>> /\ c.restored = "no"
               /\ \A r \in 1..Len(n.queue) : SnapshotAt(n, v, r) => q = r
    <2>1. Shows(m, q + d, b) /\ w.restore = <<>> /\ c.restored = "no"
      BY <1>2, <1>3 DEF Restores
    <2>2. \A r \in 1..Len(n.queue) : SnapshotAt(n, v, r) => q + d = r + d
      BY <1>2, <1>3 DEF Restores
    <2>3. \A r \in 1..Len(n.queue) : q + d = r + d => q = r
      OBVIOUS
    <2> QED BY <1>3, <2>1, <2>2, <2>3
  <1>4. Restores(n, v, w, c, b)
    BY <1>2, <1>3 DEF Restores
  <1> QED BY <1>1, <1>2, <1>4 DEF Fine

(* The snapshot is taken, and sent if the control socket is open.          *)
LEMMA FineSnapshot ==
  ASSUME NEW m, NEW n, NEW v, NEW w, NEW x, NEW c, NEW in, NEW p,
         Fine(m, v, w, c, in, p), Len(m.queue) \in Nat, SnapshotAt(m, v, 1),
         m.screen \in Nat,
         \A q \in 1..Len(n.queue) : SnapshotAt(n, v, q) =>
           q + 1 \in 1..Len(m.queue) /\ SnapshotAt(m, v, q + 1),
         Alike(x, [w EXCEPT !.restore = x.restore]), w \in ViewerType,
         x.restore = <<m.screen>> \/ x.restore = w.restore,
         x.frames = w.frames, x.bootstrap = w.bootstrap, x.flow = w.flow
  PROVE  Fine(n, v, x, c, in, p)
  <1>1. /\ x.control = w.control /\ x.io = w.io /\ x.started = w.started
        /\ x.acks = w.acks
    BY DEF Alike, ViewerType
  <1>2. PICK b \in Nat : Streams(w, c, in, p, b) /\ Restores(m, v, w, c, b)
    BY DEF Fine
  <1>3. 1 \in 1..Len(m.queue)
    BY DEF SnapshotAt
  <1>4. /\ Shows(m, 1, b) /\ w.restore = <<>> /\ c.restored = "no"
        /\ \A q \in 1..Len(m.queue) : SnapshotAt(m, v, q) => 1 = q
    BY <1>2, <1>3 DEF Restores
  <1>5. m.screen = b
    BY <1>4 DEF Shows
  <1>6. \A q \in 1..Len(n.queue) : ~SnapshotAt(n, v, q)
    <2> SUFFICES ASSUME NEW q \in 1..Len(n.queue), SnapshotAt(n, v, q) PROVE FALSE
      OBVIOUS
    <2>1. q + 1 = 1
      BY <1>4
    <2> QED BY <2>1
  <1>7. w.control # "none"
    BY <1>3 DEF Fine, Sockets
  <1>8. Sockets(n, v, x, c, in)
    BY <1>1, <1>6, <1>7 DEF Fine, Sockets, Attached
  <1>9. Credit(x, c)
    BY <1>1 DEF Fine, Credit
  <1>10. Streams(x, c, in, p, b)
    BY <1>1, <1>2 DEF Streams, Sent, Follows
  <1>11. Restores(n, v, x, c, b)
    <2>1. Head(<<m.screen>>) = m.screen
      OBVIOUS
    <2>2. x.restore # <<>> => Head(x.restore) = b
      BY <1>4, <1>5, <2>1
    <2> QED BY <1>2, <1>4, <1>6, <2>2 DEF Restores
  <1> QED BY <1>8, <1>9, <1>10, <1>11 DEF Fine

-----------------------------------------------------------------------------
(* The browser takes the snapshot.                                         *)
LEMMA FineRestore ==
  ASSUME NEW m, NEW v, NEW w, NEW x, NEW c \in ClientType, NEW d, NEW in, NEW p,
         Fine(m, v, w, c, in, p), w.restore # <<>>, x.restore = <<>>,
         x.control = w.control, x.io = w.io, x.started = w.started, x.acks = w.acks,
         x.flow = w.flow, x.frames = w.frames, x.bootstrap = w.bootstrap,
         d = [c EXCEPT !.restored = "writing", !.base = Head(w.restore)]
  PROVE  Fine(m, v, x, d, in, p)
  <1>1. /\ d.restored = "writing" /\ d.base = Head(w.restore)
        /\ d.pending = c.pending /\ d.shown = c.shown
    BY DEF ClientType
  <1>2. PICK b \in Nat : Streams(w, c, in, p, b) /\ Restores(m, v, w, c, b)
    BY DEF Fine
  <1>3. /\ Head(w.restore) = b /\ c.restored = "no" /\ c.shown = <<>>
        /\ \A q \in 1..Len(m.queue) : ~SnapshotAt(m, v, q)
    BY <1>2 DEF Restores
  <1>4. Restores(m, v, x, d, b)
    BY <1>1, <1>3 DEF Restores
  <1>5. Received(d) = Received(c)
    BY <1>1 DEF Received
  <1>6. Streams(x, d, in, p, b)
    BY <1>1, <1>2, <1>5 DEF Streams, Sent, Follows
  <1>7. Credit(x, d)
    BY <1>1 DEF Fine, Credit
  <1>8. w.control # "none"
    BY DEF Fine, Sockets
  <1>9. Sockets(m, v, x, d, in)
    BY <1>1, <1>8 DEF Fine, Sockets
  <1> QED BY <1>4, <1>6, <1>7, <1>9 DEF Fine

(* What arrived meanwhile is written behind the snapshot, and acknowledged *)
(* while the control socket is open.                                       *)
LEMMA FineCompletes ==
  ASSUME NEW m, NEW v, NEW w \in ViewerType, NEW x \in ViewerType,
         NEW c \in ClientType, NEW d \in ClientType, NEW in, NEW p,
         Fine(m, v, w, c, in, p), c.restored = "writing", x.restore = w.restore,
         x.control = w.control, x.io = w.io, x.started = w.started,
         x.acks = w.acks \/ x.acks = w.acks \o Sizes(c.pending),
         x.flow = w.flow, x.frames = w.frames, x.bootstrap = w.bootstrap,
         d.restored = "yes", d.base = c.base, d.pending = <<>>,
         d.shown = FlattenSeq(c.pending)
  PROVE  Fine(m, v, x, d, in, p)
  <1>1. PICK b \in Nat : Streams(w, c, in, p, b) /\ Restores(m, v, w, c, b)
    BY DEF Fine
  <1>2. /\ c.base = b /\ c.shown = <<>> /\ w.restore = <<>>
        /\ \A q \in 1..Len(m.queue) : ~SnapshotAt(m, v, q)
    BY <1>1 DEF Restores
  <1>3. FlattenSeq(d.pending) = <<>> /\ Len(<<>>) = 0
    BY FlattenNone
  <1>4. Restores(m, v, x, d, b)
    BY <1>2 DEF Restores
  <1>5. Len(FlattenSeq(c.pending)) \in Nat
    BY PartTypes
  <1>6. Received(d) = Received(c)
    BY <1>2, <1>3, <1>5 DEF Received
  <1>7. b + Len(c.shown) = b
    BY <1>2, <1>3
  <1>8. Streams(x, d, in, p, b)
    BY <1>1, <1>3, <1>6, <1>7, FromNone DEF Streams, Sent, Follows
  <1>9. Credit(x, d)
    <2>1. ViewerMax \in Nat /\ Len(FlattenSeq(d.pending)) <= ViewerMax
      BY <1>3, TerminalAssumption
    <2> SUFFICES ASSUME w.flow.live
                 PROVE  \E n \in Nat : /\ Owed(x.acks, n)
                                       /\ Len(FlattenSeq(x.frames)) + 0 + n <= x.flow.unacked
      BY <1>3, <2>1 DEF Fine, Credit
    <2> DEFINE i == Len(FlattenSeq(w.frames))
               j == Len(FlattenSeq(c.pending))
               u == w.flow.unacked
    <2>2. i \in Nat /\ j \in Nat /\ u \in Nat
      BY PartTypes
    <2>3. PICK n \in Nat : Owed(w.acks, n) /\ i + j + n <= u
      BY DEF Fine, Credit
    <2>4. Sizes(c.pending) \in Seq(Nat) /\ Owed(Sizes(c.pending), j)
      BY OwedSizes DEF ClientType
    <2>5. w.acks \in Seq(Nat)
      BY PartTypes
    <2>6. Owed(w.acks \o Sizes(c.pending), n + j)
      BY <2>2, <2>3, <2>4, <2>5, OwedConcat
    <2> HIDE DEF i, j, u
    <2>7. i + 0 + n <= u /\ i + 0 + (n + j) <= u /\ n + j \in Nat
      BY <2>2, <2>3
    <2> QED BY <2>3, <2>6, <2>7 DEF i, j, u
  <1>10. w.control # "none" /\ w.io = "none" => Sizes(c.pending) = <<>>
    <2>1. Sizes(<<>>) = <<>>
      BY DEF Sizes
    <2> QED BY <2>1 DEF Fine, Sockets
  <1>11. w.control # "none"
    BY DEF Fine, Sockets
  <1>12. w.io = "none" => x.acks = <<>> /\ d.shown = <<>>
    <2>1. w.io = "none" => c.pending = <<>> /\ w.acks = <<>>
      BY DEF Fine, Sockets
    <2>2. <<>> \o <<>> = <<>>
      BY ConcatEmptySeq, EmptySeq
    <2> QED BY <1>10, <1>11, <2>1, <2>2, FlattenNone
  <1>13. Sockets(m, v, x, d, in)
    BY <1>11, <1>12 DEF Fine, Sockets
  <1> QED BY <1>4, <1>8, <1>9, <1>13 DEF Fine

(* A frame arrives: it is written, or waits for the snapshot.              *)
LEMMA FineFrame ==
  ASSUME NEW m, NEW v, NEW w \in ViewerType, NEW x \in ViewerType,
         NEW c \in ClientType, NEW d \in ClientType, NEW in, NEW p,
         Fine(m, v, w, c, in, p), w.frames # <<>>, x.frames = Tail(w.frames),
         x.control = w.control, x.io = w.io, x.started = w.started,
         x.restore = w.restore, x.flow = w.flow, x.bootstrap = w.bootstrap,
         d.restored = c.restored, d.base = c.base,
         \/ /\ c.restored = "yes" /\ d.shown = c.shown \o Head(w.frames)
            /\ d.pending = c.pending
            /\ x.acks = w.acks \/ x.acks = w.acks \o <<Len(Head(w.frames))>>
         \/ /\ c.restored # "yes" /\ d.shown = c.shown /\ x.acks = w.acks
            /\ d.pending = Append(c.pending, Head(w.frames))
  PROVE  Fine(m, v, x, d, in, p)
  <1> DEFINE f == Head(w.frames)
             i == Len(FlattenSeq(Tail(w.frames)))
             j == Len(FlattenSeq(c.pending))
             k == Len(f)
             l == Len(c.shown)
             u == w.flow.unacked
  <1>0. w.frames \in Seq(Seq(Nat)) /\ c.pending \in Seq(Seq(Nat)) /\ c.shown \in Seq(Nat)
    BY DEF ViewerType, ClientType
  <1>1. /\ f \in Seq(Nat) /\ i \in Nat /\ k \in Nat
        /\ Len(FlattenSeq(w.frames)) = k + i /\ Len(FlattenSeq(x.frames)) = i
        /\ \A a \in Nat : From(FlattenSeq(w.frames), a) <=>
              From(f, a) /\ From(FlattenSeq(x.frames), a + k)
    BY <1>0, FramesTail
  <1>2. /\ j \in Nat /\ l \in Nat /\ u \in Nat /\ ViewerMax \in Nat
        /\ Received(c) = l + j
    BY PartTypes, TerminalAssumption DEF Received
  <1>3. w.flow.live /\ w.io # "none" /\ w.control # "none"
    BY DEF Fine, Sockets, Attached
  <1>4. PICK b \in Nat : Streams(w, c, in, p, b) /\ Restores(m, v, w, c, b)
    BY DEF Fine
  <1>5. Sockets(m, v, x, d, in)
    BY <1>3 DEF Fine, Sockets
  <1>6. PICK n \in Nat : Owed(w.acks, n) /\ (k + i) + j + n <= u
    BY <1>1, <1>3 DEF Fine, Credit
  <1>7. u <= ViewerMax
    <2>1. Len(w.flow.pending) \in Nat
      BY PartTypes
    <2>2. Len(w.flow.pending) + u <= ViewerMax
      BY <1>3 DEF Fine, Credit
    <2> HIDE DEF u
    <2> QED BY <1>2, <2>1, <2>2
  <1>8. /\ From(c.shown, b) /\ From(FlattenSeq(c.pending), b + l)
        /\ From(f, b + (l + j)) /\ From(FlattenSeq(x.frames), b + (l + j) + k)
    <2>1. From(FlattenSeq(w.frames), b + (l + j))
      BY <1>2, <1>4 DEF Streams
    <2> HIDE DEF l, j
    <2>2. b + (l + j) \in Nat
      BY <1>2
    <2>3. From(f, b + (l + j)) /\ From(FlattenSeq(x.frames), b + (l + j) + k)
      BY <1>1, <2>1, <2>2
    <2> QED BY <1>4, <2>3 DEF Streams, l
  <1>9. Sent(w, c) = (l + j) + (k + i)
    BY <1>1, <1>2 DEF Sent
  <1>10. CASE c.restored = "yes"
    <2>1. /\ d.shown = c.shown \o f /\ d.pending = c.pending /\ c.pending = <<>>
          /\ x.acks = w.acks \/ x.acks = w.acks \o <<k>>
      BY <1>4, <1>10 DEF Restores
    <2>2. j = 0 /\ Len(FlattenSeq(d.pending)) = 0 /\ FlattenSeq(d.pending) = <<>>
      BY <2>1, FlattenNone
    <2>3. Len(d.shown) = l + k
      BY <1>1, <2>1, FromConcat
    <2>4. From(c.shown \o f, b) <=> From(c.shown, b) /\ From(f, b + Len(c.shown))
      BY <1>0, <1>1, FromConcat
    <2>5. Received(d) = (l + k) + 0
      BY <2>2, <2>3 DEF Received
    <2>6. Sent(x, d) = ((l + k) + 0) + i
      BY <1>1, <2>5 DEF Sent
    <2>7. Restores(m, v, x, d, b)
      BY <1>4, <1>10, <2>1 DEF Restores
    <2>8. Owed(w.acks \o <<k>>, n + k)
      BY <1>1, <1>6, OwedOne, OwedConcat, PartTypes
    <2> HIDE DEF f, i, j, k, l, u
    <2>9. /\ b + l = b + (l + j) /\ b + (l + j) + k = b + ((l + k) + 0)
          /\ (l + j) + (k + i) = ((l + k) + 0) + i
      BY <1>1, <1>2, <2>2
    <2>10. From(d.shown, b)
      BY <1>8, <2>1, <2>4, <2>9 DEF l
    <2>11. Sent(x, d) = Sent(w, c)
      BY <1>9, <2>6, <2>9
    <2>12. From(FlattenSeq(x.frames), b + Received(d))
      BY <1>8, <2>5, <2>9
    <2>13. Streams(x, d, in, p, b)
      BY <1>4, <2>2, <2>10, <2>11, <2>12, FromNone DEF Streams, Follows
    <2>14. 0 <= ViewerMax /\ i + 0 + n <= u /\ i + 0 + (n + k) <= u /\ n + k \in Nat
      BY <1>1, <1>2, <1>6, <2>2
    <2>15. Credit(x, d)
      BY <1>1, <1>6, <2>1, <2>2, <2>8, <2>14 DEF Fine, Credit, u
    <2> QED BY <1>5, <2>7, <2>13, <2>15 DEF Fine
  <1>11. CASE c.restored # "yes"
    <2>1. /\ d.shown = c.shown /\ d.pending = Append(c.pending, f) /\ x.acks = w.acks
      BY <1>11
    <2>2. Len(FlattenSeq(d.pending)) = j + k
      BY <1>0, <1>1, <2>1, FramesAppend
    <2>3. \A a \in Nat : From(FlattenSeq(d.pending), a) <=>
            From(FlattenSeq(c.pending), a) /\ From(f, a + j)
      BY <1>0, <1>1, <2>1, FramesAppend
    <2>4. Received(d) = l + (j + k)
      BY <2>1, <2>2 DEF Received
    <2>5. Sent(x, d) = (l + (j + k)) + i
      BY <1>1, <2>4 DEF Sent
    <2>6. Restores(m, v, x, d, b)
      BY <1>4, <1>11, <2>1 DEF Restores
    <2> HIDE DEF f, i, j, k, l, u
    <2>7. /\ (b + l) + j = b + (l + j) /\ b + (l + j) + k = b + (l + (j + k))
          /\ (l + j) + (k + i) = (l + (j + k)) + i /\ b + l \in Nat
      <3>1. i \in Nat /\ j \in Nat /\ k \in Nat /\ l \in Nat
        BY <1>1, <1>2
      <3> QED BY <3>1
    <2>8. From(FlattenSeq(d.pending), b + l)
      BY <1>8, <2>3, <2>7
    <2>9. Sent(x, d) = Sent(w, c)
      BY <1>9, <2>5, <2>7
    <2>10. From(FlattenSeq(x.frames), b + Received(d))
      BY <1>8, <2>4, <2>7
    <2>11. Streams(x, d, in, p, b)
      BY <1>4, <2>1, <2>8, <2>9, <2>10 DEF Streams, Follows, l
    <2>12. j + k <= ViewerMax /\ i + (j + k) + n <= u
      BY <1>1, <1>2, <1>6, <1>7
    <2>13. Credit(x, d)
      BY <1>1, <1>6, <2>1, <2>2, <2>12 DEF Fine, Credit, u
    <2> QED BY <1>5, <2>6, <2>11, <2>13 DEF Fine
  <1> QED BY <1>10, <1>11

-----------------------------------------------------------------------------
(* What a call for viewer v leaves alone.                                  *)
Keeps(g, h, v) ==
  /\ g \in HubType
  /\ g.mirror = h.mirror /\ g.open = h.open /\ g.exited = h.exited
  /\ g.members \subseteq h.members
  /\ \A u \in Viewers \ {v} : g.view[u] = h.view[u] /\ (u \in g.members <=> u \in h.members)

SameViews(g, h) ==
  /\ g \in HubType
  /\ g.mirror = h.mirror /\ g.open = h.open /\ g.exited = h.exited
  /\ g.members = h.members /\ g.view = h.view

(* Two calls for the same viewer.                                          *)
LEMMA KeepsAll ==
  ASSUME NEW h, NEW g, NEW k, NEW v, Keeps(g, h, v), Keeps(k, g, v)
  PROVE  Keeps(k, h, v)
  BY DEF Keeps

(* A call that changes no viewer keeps every viewer as good as it was.     *)
LEMMA SameKeeps ==
  ASSUME NEW h, NEW g, NEW v, NEW c, NEW p, SameViews(g, h)
  PROVE  Keeps(g, h, v) /\ (FineAt(h, v, c, p) => FineAt(g, v, c, p))
  BY DEF SameViews, Keeps, FineAt

(* One viewer is replaced.                                                 *)
LEMMA SetView ==
  ASSUME NEW h \in HubType, NEW v \in Viewers, NEW x \in ViewerType
  PROVE  LET g == [h EXCEPT !.view[v] = x] IN
         /\ Keeps(g, h, v) /\ g.view[v] = x /\ g.members = h.members
         /\ g.pressured = h.pressured
  BY DEF HubType, Keeps

(* The types of a viewer and its flow.                                     *)
LEMMA ViewOf ==
  ASSUME NEW h \in HubType, NEW v \in Viewers
  PROVE  h.view[v] \in ViewerType /\ h.view[v].flow \in FlowType /\ (v \in h.members) \in BOOLEAN
  BY DEF HubType, ViewerType

(* updateRunPressure changes no viewer.                                    *)
LEMMA Pressure ==
  ASSUME NEW h \in HubType
  PROVE  /\ SameViews(UpdateRunPressure(h), h)
         /\ UpdateRunPressure(h).pressured = h.pressured
  <1> DEFINE b == Active(h) # {} /\ Active(h) \subseteq h.pressured
  <1>1. b \in BOOLEAN
    OBVIOUS
  <1>2. UpdateRunPressure(h) = [h EXCEPT !.ptyPaused = b]
    BY DEF UpdateRunPressure
  <1> HIDE DEF b
  <1> QED BY <1>1, <1>2 DEF HubType, SameViews

(* maybeResumeRun changes no viewer.                                       *)
LEMMA Resumes ==
  ASSUME NEW h \in HubType, NEW v
  PROVE  SameViews(MaybeResumeRun(h, v), h)
  <1> DEFINE g == [h EXCEPT !.pressured = @ \ {v}]
  <1>1. SameViews(g, h)
    BY DEF HubType, SameViews
  <1>2. SameViews(UpdateRunPressure(g), g)
    BY <1>1, Pressure DEF SameViews
  <1> HIDE DEF g
  <1>3. SameViews(UpdateRunPressure(g), h)
    BY <1>1, <1>2 DEF SameViews
  <1> QED BY <1>3 DEF MaybeResumeRun, g

(* The types of a flow that is closed, and of a new one.                   *)
LEMMA NoFlowType == NoFlow \in FlowType /\ NewFlow \in FlowType
  BY EmptySeq DEF NoFlow, NewFlow, FlowType

(* flow.close.                                                             *)
LEMMA Closes ==
  ASSUME NEW h \in HubType, NEW v \in Viewers
  PROVE  /\ Keeps(CloseFlow(h, v), h, v)
         /\ CloseFlow(h, v).members = h.members
         /\ CloseFlow(h, v).view[v] = [h.view[v] EXCEPT !.flow = NoFlow]
         /\ CloseFlow(h, v).view[v] \in ViewerType
  <1> DEFINE x == [h.view[v] EXCEPT !.flow = NoFlow]
             g == [h EXCEPT !.view[v].flow = NoFlow]
  <1>1. x \in ViewerType
    BY ViewOf, NoFlowType DEF ViewerType
  <1>2. g = [h EXCEPT !.view[v] = x]
    BY DEF HubType
  <1>3. CloseFlow(h, v) = IF h.view[v].flow.paused THEN MaybeResumeRun(g, v) ELSE g
    BY DEF CloseFlow
  <1> HIDE DEF x, g
  <1>4. Keeps(g, h, v) /\ g.view[v] = x /\ g.members = h.members
    BY <1>1, <1>2, SetView
  <1>5. SameViews(MaybeResumeRun(g, v), g)
    BY <1>4, Resumes DEF Keeps
  <1>6. Keeps(MaybeResumeRun(g, v), h, v)
    BY <1>4, <1>5, SameKeeps, KeepsAll
  <1> QED BY <1>1, <1>3, <1>4, <1>5, <1>6 DEF SameViews, x

(* DisconnectViewer, whatever was printed by then.                         *)
LEMMA Disconnects ==
  ASSUME NEW h \in HubType, NEW v \in Viewers, NEW c \in ClientType, NEW p, NEW q,
         FineAt(h, v, c, p)
  PROVE  LET g == DisconnectViewer(h, v)
         IN /\ Keeps(g, h, v) /\ v \notin g.members /\ FineAt(g, v, c, q)
            /\ g.view[v].started = h.view[v].started
  <1> DEFINE w == h.view[v]
             k == CloseFlow(h, v)
             y == [k.view[v] EXCEPT !.bootstrap = <<>>, !.handshake = FALSE]
             z == IF HasIo(h, v) THEN IoEnds(y) ELSE y
             x == IF HasControl(h, v) THEN ControlEnds(z) ELSE z
             g == [k EXCEPT !.members = @ \ {v}, !.view[v] = x]
  <1>1. w \in ViewerType /\ <<>> \in Seq(Nat) /\ <<>> \in Seq(Seq(Nat))
    BY ViewOf, EmptySeq
  <1>2. /\ Keeps(k, h, v) /\ k.members = h.members /\ k.view[v] \in ViewerType
        /\ k.view[v] = [w EXCEPT !.flow = NoFlow]
    BY Closes
  <1>3. DisconnectViewer(h, v) = MaybeResumeRun(g, v)
    BY DEF DisconnectViewer
  <1>4. Sockets(h.mirror, v, w, c, v \in h.members)
    BY DEF FineAt, Fine
  <1>5. /\ HasIo(h, v) <=> w.io \in Attached
        /\ HasControl(h, v) <=> w.control \in Attached
    BY <1>4 DEF Sockets, HasIo, HasControl, Attached
  <1> HIDE DEF w, k
  <1>6. /\ y \in ViewerType /\ y.control = w.control /\ y.io = w.io
        /\ y.started = w.started /\ y.bootstrap = <<>> /\ y.flow = NoFlow
        /\ y.frames = w.frames /\ y.restore = w.restore /\ y.acks = w.acks
    BY <1>1, <1>2 DEF ViewerType
  <1> HIDE DEF y
  <1>7. /\ z \in ViewerType /\ z.control = w.control
        /\ z.io = w.io \/ (w.io # "none" /\ z.io = "closed")
        /\ z.io \notin Attached
        /\ z.started = w.started /\ z.bootstrap = <<>> /\ z.flow = NoFlow
        /\ z.frames = <<>> /\ z.restore = w.restore /\ z.acks = w.acks
    <2>1. CASE HasIo(h, v)
      <3>1. z = [y EXCEPT !.io = "closed", !.frames = <<>>]
        BY <2>1 DEF IoEnds
      <3>2. w.io # "none"
        BY <1>5, <2>1 DEF Attached
      <3> HIDE DEF z
      <3> QED BY <1>1, <1>6, <3>1, <3>2 DEF ViewerType, Attached, SocketState
    <2>2. CASE ~HasIo(h, v)
      <3>1. z = y
        BY <2>2
      <3>2. w.io \notin Attached /\ w.frames = <<>>
        BY <1>4, <1>5, <2>2 DEF Sockets, w
      <3> QED BY <1>6, <3>1, <3>2
    <2> QED BY <2>1, <2>2
  <1> HIDE DEF z
  <1>8. /\ x \in ViewerType /\ x.io = z.io
        /\ x.control = w.control \/ (w.control # "none" /\ x.control = "closed")
        /\ x.control \notin Attached
        /\ x.started = w.started /\ x.bootstrap = <<>> /\ x.flow = NoFlow
        /\ x.frames = <<>>
        /\ x.restore = w.restore \/ x.restore = <<>>
        /\ x.acks = w.acks \/ x.acks = <<>>
    <2>1. CASE HasControl(h, v)
      <3>1. x = [z EXCEPT !.control = "closed", !.restore = <<>>, !.acks = <<>>]
        BY <2>1 DEF ControlEnds
      <3>2. w.control # "none"
        BY <1>5, <2>1 DEF Attached
      <3> HIDE DEF x
      <3> QED BY <1>1, <1>7, <3>1, <3>2 DEF ViewerType, Attached, SocketState
    <2>2. CASE ~HasControl(h, v)
      <3>1. x = z
        BY <2>2
      <3>2. w.control \notin Attached
        BY <1>5, <2>2
      <3> QED BY <1>7, <3>1, <3>2
    <2> QED BY <2>1, <2>2
  <1> HIDE DEF x
  <1>9. /\ g \in HubType /\ Keeps(g, h, v) /\ v \notin g.members /\ g.view[v] = x
    BY <1>2, <1>8 DEF Keeps, HubType
  <1>10. SameViews(MaybeResumeRun(g, v), g)
    BY <1>9, Resumes
  <1>11. x.flow.live = FALSE /\ x.flow.pending = <<>>
    BY <1>8 DEF NoFlow
  <1>12. Fine(h.mirror, v, x, c, FALSE, q)
    <2> DEFINE in == v \in h.members
    <2>1. Fine(h.mirror, v, w, c, in, p) /\ in \in BOOLEAN
      BY DEF FineAt, w
    <2>2. ~Follows(x, FALSE)
      BY DEF Follows
    <2>3. /\ x.io = w.io \/ (w.io # "none" /\ x.io = "closed")
          /\ x.io \notin Attached /\ ~x.flow.live
          /\ x.control \notin Attached
      BY <1>7, <1>8, <1>11
    <2>4. PICK to \in BOOLEAN : to = FALSE
      OBVIOUS
    <2> HIDE DEF in
    <2>5. x.bootstrap = <<>> /\ x.flow.pending = <<>>
      BY <1>8, <1>11
    <2>6. Fine(h.mirror, v, x, c, to, q)
      <3>1. /\ ~Follows(x, to) /\ (to <=> x.control \in Attached)
            /\ (to \/ x.bootstrap = <<>>)
            /\ (x.bootstrap = w.bootstrap \/ x.bootstrap = <<>>)
        BY <2>2, <2>3, <2>4, <2>5
      <3>2. /\ x \in ViewerType /\ x.started = w.started /\ x.frames = <<>>
            /\ (x.control = w.control \/ (w.control # "none" /\ x.control = "closed"))
            /\ (x.restore = w.restore \/ x.restore = <<>>)
            /\ (x.acks = w.acks \/ x.acks = <<>>)
        BY <1>8
      <3> QED BY <1>1, <2>1, <2>3, <2>5, <3>1, <3>2, FineLeave
    <2> QED BY <2>4, <2>6
  <1>13. FineAt(g, v, c, q)
    <2>1. (v \in g.members) = FALSE /\ g.mirror = h.mirror /\ g.view[v] = x
      BY <1>9 DEF Keeps
    <2> HIDE DEF g
    <2> QED BY <1>12, <2>1 DEF FineAt
  <1>14. g.view[v].started = h.view[v].started
    BY <1>8, <1>9 DEF w
  <1> HIDE DEF g
  <1> QED BY <1>3, <1>9, <1>10, <1>13, <1>14, SameKeeps, KeepsAll DEF SameViews

(* A frame goes to the socket of viewer v, which is open.                  *)
LEMMA Sends ==
  ASSUME NEW h \in HubType, NEW v \in Viewers, NEW c \in ClientType, NEW p \in Nat,
         NEW frame \in Seq(Nat), FineAt(h, v, c, p),
         h.view[v].io = "open", h.view[v].started, h.view[v].flow.pending = <<>>,
         Len(frame) + h.view[v].flow.unacked <= ViewerMax, From(frame, p)
  PROVE  LET g == Send(h, v, frame)
         IN /\ Keeps(g, h, v) /\ FineAt(g, v, c, p + Len(frame))
            /\ g.view[v].started = h.view[v].started
            /\ v \in g.members => g.view[v].io = h.view[v].io
  <1> DEFINE w == h.view[v]
             x == [w EXCEPT !.frames = Append(@, frame),
                            !.flow.unacked = @ + Len(frame), !.flow.deadline = TRUE]
             y == [x EXCEPT !.flow.paused = TRUE, !.flow.checking = TRUE]
             sent == [h EXCEPT !.view[v].frames = Append(@, frame),
                               !.view[v].flow.unacked = @ + Len(frame),
                               !.view[v].flow.deadline = TRUE]
             held == [sent EXCEPT !.pressured = @ \cup {v}, !.view[v].flow.paused = TRUE,
                                  !.view[v].flow.checking = TRUE]
             in == v \in h.members
  <1>1. /\ w \in ViewerType /\ w.flow \in FlowType /\ w.frames \in Seq(Seq(Nat))
        /\ in \in BOOLEAN /\ Fine(h.mirror, v, w, c, in, p)
    BY ViewOf DEF ViewerType, FineAt
  <1>2. sent = [h EXCEPT !.view[v] = x]
    <2> DEFINE y1 == [w EXCEPT !.frames = Append(@, frame)]
               y2 == [y1 EXCEPT !.flow.unacked = @ + Len(frame)]
               k1 == [h EXCEPT !.view[v] = y1]
               k2 == [h EXCEPT !.view[v] = y2]
    <2>1. k1 = [h EXCEPT !.view[v].frames = Append(@, frame)]
      BY DEF HubType
    <2>2. k1 \in [DOMAIN h -> {k1[f] : f \in DOMAIN h}] /\ k1.view[v] = y1
      BY DEF HubType
    <2>3. k2 = [k1 EXCEPT !.view[v].flow.unacked = @ + Len(frame)]
      BY DEF HubType, ViewerType, FlowType
    <2>4. k2.view[v] = y2
      BY DEF HubType
    <2>5. sent = [k2 EXCEPT !.view[v].flow.deadline = TRUE]
      <3> DEFINE k3 == [h EXCEPT !.view[v].frames = Append(@, frame),
                                 !.view[v].flow.unacked = @ + Len(frame)]
      <3>0. k3 = [k1 EXCEPT !.view[v].flow.unacked = @ + Len(frame)]
        <4> HIDE DEF k1
        <4> QED BY <2>1
      <3>2. sent = [k3 EXCEPT !.view[v].flow.deadline = TRUE]
        OBVIOUS
      <3> HIDE DEF k3
      <3> HIDE DEF k1, k2, sent
      <3> QED BY <2>3, <3>0, <3>2
    <2>6. x = [y2 EXCEPT !.flow.deadline = TRUE]
      OBVIOUS
    <2> HIDE DEF y2, sent, x
    <2>7. [k2 EXCEPT !.view[v].flow.deadline = TRUE] = [h EXCEPT !.view[v] = x]
      BY <2>4, <2>6 DEF HubType
    <2> QED BY <2>5, <2>7
  <1> DEFINE k == [sent EXCEPT !.pressured = @ \cup {v}]
  <1>3. held = [k EXCEPT !.view[v].flow.paused = TRUE, !.view[v].flow.checking = TRUE]
    OBVIOUS
  <1>4. Send(h, v, frame) = IF ShouldPause(sent.view[v]) THEN UpdateRunPressure(held) ELSE sent
    <2>1. h.view[v].io = "open"
      OBVIOUS
    <2> DEFINE g == UpdateRunPressure(held)
    <2>2. Send(h, v, frame) =
            CASE h.view[v].io # "open" -> h
              [] h.view[v].io = "open" /\ ShouldPause(sent.view[v]) -> g
              [] OTHER -> sent
      BY DEF Send
    <2> HIDE DEF g, sent
    <2> QED BY <2>1, <2>2 DEF g
  <1>5. Append(w.frames, frame) \in Seq(Seq(Nat)) /\ w.flow.unacked + Len(frame) \in Nat
    BY <1>1, AppendProperties, LenProperties DEF FlowType
  <1> HIDE DEF w
  <1>6. /\ x \in ViewerType /\ Alike(x, w) /\ x.bootstrap = w.bootstrap
        /\ x.flow.pending = w.flow.pending /\ x.frames = Append(w.frames, frame)
        /\ x.flow.unacked = w.flow.unacked + Len(frame)
    BY <1>1, <1>5 DEF ViewerType, FlowType, Alike
  <1> HIDE DEF x
  <1>7. /\ y \in ViewerType /\ Alike(y, x) /\ y.bootstrap = x.bootstrap
        /\ y.flow.pending = x.flow.pending /\ y.frames = x.frames
        /\ y.flow.unacked = x.flow.unacked
    BY <1>6 DEF ViewerType, FlowType, Alike
  <1> HIDE DEF sent, held, in, k
  <1>8. w.io = "open" /\ w.started /\ w.flow.pending = <<>>
        /\ Len(frame) + w.flow.unacked <= ViewerMax
    BY DEF w
  <1>9. Fine(h.mirror, v, x, c, in, p + Len(frame))
    BY <1>1, <1>6, <1>8, FineSend
  <1>10. Fine(h.mirror, v, y, c, in, p + Len(frame))
    BY <1>7, <1>9, FineAlike
  <1>11. Keeps(sent, h, v) /\ sent.view[v] = x /\ sent.members = h.members
    BY <1>2, <1>6, SetView
  <1>12. FineAt(sent, v, c, p + Len(frame))
    BY <1>9, <1>11 DEF FineAt, Keeps, in
  <1>13. SameViews(k, sent)
    BY <1>11 DEF HubType, SameViews, Keeps, k
  <1>14. Keeps(held, k, v) /\ held.view[v] = y /\ held.members = k.members
    <2>1. k \in HubType /\ k.view[v] = x
      BY <1>11, <1>13 DEF SameViews
    <2>2. held = [k EXCEPT !.view[v] = y]
      BY <1>3, <2>1 DEF HubType, ViewerType, FlowType
    <2> HIDE DEF y
    <2> QED BY <1>7, <2>1, <2>2, SetView
  <1> HIDE DEF y
  <1>15. Keeps(held, h, v)
    BY <1>11, <1>13, <1>14, SameKeeps, KeepsAll
  <1>16. FineAt(held, v, c, p + Len(frame))
    BY <1>10, <1>11, <1>13, <1>14, <1>15 DEF FineAt, Keeps, SameViews, in
  <1>17. SameViews(UpdateRunPressure(held), held)
    BY <1>15, Pressure DEF Keeps
  <1>18. /\ Keeps(UpdateRunPressure(held), h, v)
         /\ FineAt(UpdateRunPressure(held), v, c, p + Len(frame))
    BY <1>15, <1>16, <1>17, SameKeeps, KeepsAll
  <1>19. x.started = w.started /\ y.started = w.started /\ x.io = w.io /\ y.io = w.io
    BY <1>6, <1>7 DEF Alike
  <1>20. UpdateRunPressure(held).view[v] = y
    BY <1>14, <1>17 DEF SameViews
  <1>21. /\ sent.view[v].started = h.view[v].started
         /\ UpdateRunPressure(held).view[v].started = h.view[v].started
         /\ sent.view[v].io = h.view[v].io
         /\ UpdateRunPressure(held).view[v].io = h.view[v].io
    BY <1>11, <1>19, <1>20 DEF w
  <1> QED BY <1>4, <1>11, <1>12, <1>18, <1>21

(* The flow of viewer v is live if it has something to send.               *)
LEMMA Flushes ==
  ASSUME NEW h \in HubType, NEW v \in Viewers, NEW c \in ClientType, NEW p \in Nat,
         FineAt(h, v, c, p)
  PROVE  Keeps(Flush(h, v), h, v) /\ FineAt(Flush(h, v), v, c, p)
  <1> DEFINE w == h.view[v]
             x == [w EXCEPT !.flow.flushing = FALSE]
             y == [x EXCEPT !.flow.pending = <<>>]
             idle == [h EXCEPT !.view[v].flow.flushing = FALSE]
             empty == [idle EXCEPT !.view[v].flow.pending = <<>>]
             in == v \in h.members
  <1>1. /\ w \in ViewerType /\ w.flow \in FlowType /\ in \in BOOLEAN
        /\ Fine(h.mirror, v, w, c, in, p) /\ <<>> \in Seq(Nat)
        /\ w.flow.pending \in Seq(Nat)
    BY ViewOf, EmptySeq DEF FlowType, FineAt
  <1>2. idle = [h EXCEPT !.view[v] = x]
    BY DEF HubType, ViewerType, FlowType
  <1>3. empty = [h EXCEPT !.view[v] = y]
    BY <1>1 DEF HubType, ViewerType, FlowType
  <1>4. Flush(h, v) = IF w.flow.paused \/ w.flow.pending = <<>> THEN idle
                      ELSE Send(empty, v, w.flow.pending)
    BY DEF Flush
  <1> HIDE DEF w
  <1>5. /\ x \in ViewerType /\ Alike(x, w) /\ x.bootstrap = w.bootstrap
        /\ x.flow.pending = w.flow.pending /\ x.frames = w.frames
        /\ x.flow.unacked = w.flow.unacked
    BY <1>1 DEF ViewerType, FlowType, Alike
  <1>6. /\ y \in ViewerType /\ Alike(y, w) /\ y.bootstrap = w.bootstrap
        /\ y.flow.pending = <<>> /\ y.frames = w.frames
        /\ y.flow.unacked = w.flow.unacked
    BY <1>1 DEF ViewerType, FlowType, Alike
  <1> HIDE DEF x, y, idle, empty, in
  <1>7. Fine(h.mirror, v, x, c, in, p)
    BY <1>1, <1>5, FineAlike
  <1>8. Keeps(idle, h, v) /\ FineAt(idle, v, c, p)
    <2>1. Keeps(idle, h, v) /\ idle.view[v] = x /\ idle.members = h.members
      BY <1>2, <1>5, SetView
    <2> QED BY <1>7, <2>1 DEF FineAt, Keeps, in
  <1>9. Keeps(empty, h, v) /\ empty.view[v] = y /\ empty.members = h.members
    BY <1>3, <1>6, SetView
  <1>10. CASE w.flow.pending # <<>> /\ w.io = "open"
    <2> DEFINE pending == w.flow.pending
               q == p - Len(pending)
    <2>1. w.started
      BY <1>1, <1>10 DEF Fine, Sockets
    <2>2. /\ q \in Nat /\ Fine(h.mirror, v, y, c, in, q)
          /\ From(pending, q) /\ Len(pending) + w.flow.unacked <= ViewerMax
      BY <1>1, <1>6, <1>10, <2>1, FineTake
    <2>3. Len(pending) \in Nat
      BY <1>1, LenProperties
    <2>4. q + Len(pending) = p
      BY <2>2, <2>3
    <2> HIDE DEF pending, q
    <2>5. FineAt(empty, v, c, q)
      BY <1>9, <2>2 DEF FineAt, Keeps, in
    <2>6. /\ empty \in HubType /\ empty.view[v].io = "open" /\ empty.view[v].started
          /\ empty.view[v].flow.pending = <<>>
          /\ empty.view[v].flow.unacked = w.flow.unacked
      BY <1>6, <1>9, <1>10, <2>1 DEF Keeps, Alike
    <2>7. pending \in Seq(Nat) /\ Len(pending) + empty.view[v].flow.unacked <= ViewerMax
      BY <1>1, <2>2, <2>6 DEF pending
    <2>8. Keeps(Send(empty, v, pending), empty, v)
          /\ FineAt(Send(empty, v, pending), v, c, q + Len(pending))
      BY <2>2, <2>5, <2>6, <2>7, Sends
    <2>9. Keeps(Send(empty, v, pending), h, v)
      BY <1>9, <2>8, KeepsAll
    <2> QED BY <1>4, <1>8, <2>4, <2>8, <2>9 DEF pending
  <1>11. CASE w.flow.pending # <<>> /\ w.io # "open"
    <2>1. y.io # "open" /\ y.io \in Attached
      BY <1>1, <1>6, <1>11 DEF Fine, Sockets, Alike
    <2>2. Send(empty, v, w.flow.pending) = empty
      BY <1>9, <2>1 DEF Send
    <2>3. Fine(h.mirror, v, y, c, in, p)
      BY <1>1, <1>6, <2>1, FineDrop DEF Alike, Attached
    <2>4. FineAt(empty, v, c, p)
      BY <1>9, <2>3 DEF FineAt, Keeps, in
    <2> QED BY <1>4, <1>8, <1>9, <2>2, <2>4
  <1> QED BY <1>4, <1>8, <1>10, <1>11

(* What is enqueued within the limit leaves the flow within it.            *)
LEMMA Fits ==
  ASSUME NEW w \in ViewerType, NEW chunks \in Seq(Nat), ~Exceeds(w, chunks)
  PROVE  Len(chunks) + Len(w.flow.pending) + w.flow.unacked <= ViewerMax
  <1> DEFINE i == Len(chunks)
             j == Len(w.flow.pending)
             k == w.flow.unacked
             l == Len(FlattenSeq(w.frames))
  <1>1. i \in Nat /\ j \in Nat /\ k \in Nat /\ l \in Nat /\ ViewerMax \in Nat
    BY LenProperties, FlattenType, TerminalAssumption DEF ViewerType, FlowType
  <1>2. ~(i + j + k + l > ViewerMax)
    BY DEF Exceeds, Buffered
  <1> HIDE DEF i, j, k, l
  <1>3. i + j + k <= ViewerMax
    BY <1>1, <1>2
  <1> QED BY <1>3 DEF i, j, k

(* Chunks that wait for the flush, or end the viewer.                      *)
LEMMA Holding ==
  ASSUME NEW h \in HubType, NEW v \in Viewers, NEW c \in ClientType, NEW p \in Nat,
         NEW chunks \in Seq(Nat), FineAt(h, v, c, p),
         h.view[v].io \in Attached, h.view[v].started, From(chunks, p)
  PROVE  LET g == Hold(h, v, chunks)
         IN /\ Keeps(g, h, v) /\ FineAt(g, v, c, p + Len(chunks))
            /\ g.view[v].started = h.view[v].started
            /\ v \in g.members => g.view[v].io = h.view[v].io
  <1> DEFINE w == h.view[v]
             x == [w EXCEPT !.flow.pending = @ \o chunks,
                            !.flow.flushing = @ \/ ~w.flow.paused]
             held == [h EXCEPT !.view[v].flow.pending = @ \o chunks,
                               !.view[v].flow.flushing = @ \/ ~w.flow.paused]
             in == v \in h.members
  <1>1. /\ w \in ViewerType /\ w.flow \in FlowType /\ in \in BOOLEAN
        /\ Fine(h.mirror, v, w, c, in, p) /\ w.flow.live
        /\ w.flow.pending \in Seq(Nat)
    BY ViewOf DEF FlowType, FineAt, Fine, Sockets
  <1>2. held = [h EXCEPT !.view[v] = x]
    BY DEF HubType, ViewerType, FlowType
  <1>3. CASE chunks = <<>>
    <2>1. Hold(h, v, chunks) = h /\ p + Len(chunks) = p
      BY <1>3, EmptySeq DEF Hold
    <2> QED BY <2>1 DEF Keeps
  <1>4. CASE chunks # <<>> /\ Exceeds(w, chunks)
    <2>1. Hold(h, v, chunks) = DisconnectViewer(h, v)
      BY <1>1, <1>4 DEF Hold
    <2> QED BY <2>1, Disconnects
  <1>5. CASE chunks # <<>> /\ ~Exceeds(w, chunks)
    <2>1. Hold(h, v, chunks) = held
      BY <1>1, <1>5 DEF Hold
    <2>2. w.flow.pending \o chunks \in Seq(Nat)
      BY <1>1, ConcatProperties
    <2>3. w.io \in Attached /\ w.started
      OBVIOUS
    <2> HIDE DEF w, held, in
    <2>4. /\ x \in ViewerType /\ Alike(x, w) /\ x.bootstrap = w.bootstrap
          /\ x.flow.pending = w.flow.pending \o chunks /\ x.frames = w.frames
          /\ x.flow.unacked = w.flow.unacked
      BY <1>1, <2>2 DEF ViewerType, FlowType, Alike
    <2> HIDE DEF x
    <2>5. Len(chunks) + Len(w.flow.pending) + w.flow.unacked <= ViewerMax
      BY <1>1, <1>5, Fits
    <2>6. Fine(h.mirror, v, x, c, in, p + Len(chunks))
      BY <1>1, <2>3, <2>4, <2>5, FineHold
    <2>7. Keeps(held, h, v) /\ held.view[v] = x /\ held.members = h.members
      BY <1>2, <2>4, SetView
    <2>8. FineAt(held, v, c, p + Len(chunks))
      BY <2>6, <2>7 DEF FineAt, Keeps, in
    <2>9. held.view[v].started = h.view[v].started /\ held.view[v].io = h.view[v].io
      BY <2>4, <2>7 DEF Alike, w
    <2> QED BY <2>1, <2>7, <2>8, <2>9
  <1> QED BY <1>3, <1>4, <1>5

(* enqueue: at once, with the flush, or the viewer goes.                   *)
LEMMA Enqueues ==
  ASSUME NEW h \in HubType, NEW v \in Viewers, NEW c \in ClientType, NEW p \in Nat,
         NEW quick, FineAt(h, v, c, p), h.view[v].io \in Attached, h.view[v].started
  PROVE  LET g == Enqueue(h, v, p + 1, quick)
         IN /\ Keeps(g, h, v) /\ FineAt(g, v, c, p + 1)
            /\ g.view[v].started = h.view[v].started
            /\ v \in g.members => g.view[v].io = h.view[v].io
  <1> DEFINE w == h.view[v]
             direct == quick /\ ~w.flow.paused /\ w.flow.pending = <<>> /\ ~w.flow.flushing
  <1>1. /\ <<p + 1>> \in Seq(Nat) /\ Len(<<p + 1>>) = 1 /\ From(<<p + 1>>, p)
    BY FromOne
  <1>2. Enqueue(h, v, p + 1, quick)
          = IF w.flow.live /\ direct /\ ~Exceeds(w, <<p + 1>>)
            THEN Send(h, v, <<p + 1>>) ELSE Hold(h, v, <<p + 1>>)
    BY DEF Enqueue
  <1>3. /\ Keeps(Hold(h, v, <<p + 1>>), h, v)
        /\ FineAt(Hold(h, v, <<p + 1>>), v, c, p + 1)
        /\ Hold(h, v, <<p + 1>>).view[v].started = h.view[v].started
        /\ v \in Hold(h, v, <<p + 1>>).members
             => Hold(h, v, <<p + 1>>).view[v].io = h.view[v].io
    BY <1>1, Holding
  <1>4. ASSUME direct, ~Exceeds(w, <<p + 1>>), w.io = "open"
        PROVE  /\ Keeps(Send(h, v, <<p + 1>>), h, v)
               /\ FineAt(Send(h, v, <<p + 1>>), v, c, p + 1)
               /\ Send(h, v, <<p + 1>>).view[v].started = h.view[v].started
               /\ v \in Send(h, v, <<p + 1>>).members
                    => Send(h, v, <<p + 1>>).view[v].io = h.view[v].io
    <2>1. w \in ViewerType
      BY ViewOf
    <2>2. w.flow.pending = <<>> /\ Len(w.flow.pending) = 0 /\ w.flow.unacked \in Nat
      BY <1>4, <2>1, EmptySeq DEF ViewerType, FlowType
    <2>3. Len(<<p + 1>>) + Len(w.flow.pending) + w.flow.unacked <= ViewerMax
      BY <1>1, <1>4, <2>1, Fits
    <2>4. Len(<<p + 1>>) + w.flow.unacked <= ViewerMax
      BY <1>1, <2>2, <2>3
    <2>5. w.io = "open"
      BY <1>4
    <2> QED BY <1>1, <2>2, <2>4, <2>5, Sends
  <1>5. ASSUME w.io # "open"
        PROVE  /\ Send(h, v, <<p + 1>>) = h /\ FineAt(h, v, c, p + 1)
               /\ Keeps(h, h, v)
    <2>1. w.io = "closing"
      BY <1>5 DEF Attached
    <2>2. ~Follows(w, v \in h.members)
      BY <2>1 DEF Follows
    <2>3. Send(h, v, <<p + 1>>) = h
      BY <1>5 DEF Send
    <2> QED BY <2>2, <2>3, FineIdle DEF FineAt, Keeps
  <1> QED BY <1>2, <1>3, <1>4, <1>5

(* checkResume, with the flush of what was held.                           *)
LEMMA ChecksResume ==
  ASSUME NEW h \in HubType, NEW v \in Viewers, NEW c \in ClientType, NEW p \in Nat,
         FineAt(h, v, c, p)
  PROVE  Keeps(CheckResume(h, v), h, v) /\ FineAt(CheckResume(h, v), v, c, p)
  <1> DEFINE w == h.view[v]
             x == [w EXCEPT !.flow.paused = FALSE, !.flow.checking = FALSE]
             y == [w EXCEPT !.flow.checking = w.flow.paused]
             k == [h EXCEPT !.view[v].flow.paused = FALSE, !.view[v].flow.checking = FALSE]
             l == [h EXCEPT !.view[v].flow.checking = w.flow.paused]
             in == v \in h.members
  <1>1. /\ w \in ViewerType /\ w.flow \in FlowType /\ in \in BOOLEAN
        /\ Fine(h.mirror, v, w, c, in, p)
    BY ViewOf DEF FineAt
  <1>2. k = [h EXCEPT !.view[v] = x]
    <2> DEFINE u == [w EXCEPT !.flow.paused = FALSE]
               g == [h EXCEPT !.view[v] = u]
    <2>1. u \in ViewerType
      BY <1>1 DEF ViewerType, FlowType
    <2>2. k = [[h EXCEPT !.view[v].flow.paused = FALSE] EXCEPT !.view[v].flow.checking = FALSE]
      OBVIOUS
    <2>3. [h EXCEPT !.view[v].flow.paused = FALSE] = g
      OBVIOUS
    <2>4. x = [u EXCEPT !.flow.checking = FALSE]
      OBVIOUS
    <2> HIDE DEF u, w, x
    <2>5. g \in HubType /\ g.view[v] = u /\ [g EXCEPT !.view[v] = x] = [h EXCEPT !.view[v] = x]
      BY <2>1 DEF HubType
    <2> HIDE DEF g
    <2>6. [g EXCEPT !.view[v].flow.checking = FALSE]
            = [g EXCEPT !.view[v] = [u EXCEPT !.flow.checking = FALSE]]
      BY <2>5
    <2> QED BY <2>2, <2>3, <2>4, <2>5, <2>6
  <1>3. l = [h EXCEPT !.view[v] = y]
    <2> DEFINE f == w.flow.paused
    <2> HIDE DEF f
    <2>1. [h EXCEPT !.view[v].flow.checking = f]
            = [h EXCEPT !.view[v] = [h.view[v] EXCEPT !.flow.checking = f]]
      BY DEF HubType, ViewerType, FlowType
    <2> QED BY <2>1 DEF f
  <1>4. CheckResume(h, v) = IF w.flow.paused /\ CanResume(w)
                            THEN Flush(MaybeResumeRun(k, v), v) ELSE l
    BY DEF CheckResume
  <1> HIDE DEF w, k, l, in
  <1>5. /\ x \in ViewerType /\ Alike(x, w) /\ x.bootstrap = w.bootstrap
        /\ x.flow.pending = w.flow.pending /\ x.frames = w.frames
        /\ x.flow.unacked = w.flow.unacked
    BY <1>1 DEF ViewerType, FlowType, Alike
  <1>6. /\ y \in ViewerType /\ Alike(y, w) /\ y.bootstrap = w.bootstrap
        /\ y.flow.pending = w.flow.pending /\ y.frames = w.frames
        /\ y.flow.unacked = w.flow.unacked
    BY <1>1 DEF ViewerType, FlowType, Alike
  <1> HIDE DEF x, y
  <1>7. Fine(h.mirror, v, x, c, in, p) /\ Fine(h.mirror, v, y, c, in, p)
    BY <1>1, <1>5, <1>6, FineAlike
  <1>8. Keeps(k, h, v) /\ k.view[v] = x /\ k.members = h.members
    BY <1>2, <1>5, SetView
  <1>9. Keeps(l, h, v) /\ l.view[v] = y /\ l.members = h.members
    BY <1>3, <1>6, SetView
  <1>10. FineAt(k, v, c, p) /\ FineAt(l, v, c, p)
    BY <1>7, <1>8, <1>9 DEF FineAt, Keeps, in
  <1> DEFINE r == MaybeResumeRun(k, v)
  <1>11. SameViews(r, k)
    BY <1>8, Resumes DEF Keeps
  <1> HIDE DEF r
  <1>12. Keeps(r, k, v) /\ FineAt(r, v, c, p) /\ r \in HubType
    BY <1>10, <1>11, SameKeeps DEF SameViews
  <1>13. Keeps(Flush(r, v), r, v) /\ FineAt(Flush(r, v), v, c, p)
    BY <1>12, Flushes
  <1>14. Keeps(Flush(r, v), h, v)
    BY <1>8, <1>12, <1>13, KeepsAll
  <1> QED BY <1>4, <1>9, <1>10, <1>13, <1>14 DEF r

(* An acknowledgement arrives.                                             *)
LEMMA Acks ==
  ASSUME NEW h \in HubType, NEW v \in Viewers, NEW c \in ClientType, NEW p \in Nat,
         FineAt(h, v, c, p), h.view[v].acks # <<>>
  PROVE  LET g == Ack([h EXCEPT !.view[v].acks = Tail(@)], v, Head(h.view[v].acks))
         IN Keeps(g, h, v) /\ FineAt(g, v, c, p)
  <1> DEFINE w == h.view[v]
             n == Head(w.acks)
             x == [w EXCEPT !.acks = Tail(@)]
             y == [x EXCEPT !.flow.unacked = @ - n, !.flow.deadline = x.flow.unacked # n]
             k == [h EXCEPT !.view[v].acks = Tail(@)]
             l == [k EXCEPT !.view[v].flow.unacked = @ - n,
                            !.view[v].flow.deadline = k.view[v].flow.unacked # n]
             in == v \in h.members
  <1>1. /\ w \in ViewerType /\ w.flow \in FlowType /\ in \in BOOLEAN
        /\ Fine(h.mirror, v, w, c, in, p)
        /\ w.acks \in Seq(Nat) /\ w.acks # <<>> /\ w.flow.unacked \in Nat
    BY ViewOf DEF FineAt, ViewerType, FlowType
  <1>2. Tail(w.acks) \in Seq(Nat) /\ n \in Nat
    BY <1>1, HeadTailProperties
  <1>3. k = [h EXCEPT !.view[v] = x]
    BY DEF HubType, ViewerType
  <1> HIDE DEF w, in, n
  <1>4. /\ x \in ViewerType /\ x.flow = w.flow /\ x.acks = Tail(w.acks)
        /\ x.control = w.control /\ x.io = w.io /\ x.started = w.started
        /\ x.restore = w.restore /\ x.frames = w.frames /\ x.bootstrap = w.bootstrap
    BY <1>1, <1>2 DEF ViewerType
  <1> HIDE DEF x, k
  <1>5. Keeps(k, h, v) /\ k.view[v] = x /\ k.members = h.members /\ k \in HubType
    BY <1>3, <1>4, SetView DEF Keeps
  <1>6. w.io # "none"
    BY <1>1 DEF Fine, Sockets
  <1>7. Ack(k, v, n) = IF x.flow.live /\ n <= x.flow.unacked THEN CheckResume(l, v) ELSE k
    BY <1>5 DEF Ack
  <1>8. CASE ~w.flow.live
    <2>1. Fine(h.mirror, v, x, c, in, p)
      BY <1>1, <1>4, <1>6, <1>8, FineLateAck
    <2>2. FineAt(k, v, c, p)
      BY <1>5, <2>1 DEF FineAt, Keeps, in
    <2>3. Ack(k, v, n) = k
      BY <1>4, <1>7, <1>8
    <2> QED BY <1>5, <2>2, <2>3 DEF k, n, w
  <1>9. CASE w.flow.live
    <2>1. n <= w.flow.unacked
      BY <1>1, <1>9, AckOwed DEF n
    <2>2. w.flow.unacked - n \in Nat
      BY <1>1, <1>2, <2>1
    <2>3. l = [k EXCEPT !.view[v] = y]
      <3> DEFINE u == x.flow.unacked - n
                 f == x.flow.unacked # n
      <3>1. l = [k EXCEPT !.view[v].flow.unacked = u, !.view[v].flow.deadline = f]
        BY <1>5
      <3> HIDE DEF u, f
      <3>2. k.view[v] = x
        BY <1>5
      <3> DEFINE z == [x EXCEPT !.flow.unacked = u]
                 g == [k EXCEPT !.view[v] = z]
                 e == [z EXCEPT !.flow.deadline = f]
      <3>4. z \in ViewerType
        BY <1>1, <1>4, <2>2 DEF ViewerType, FlowType, u
      <3>5. [k EXCEPT !.view[v].flow.unacked = u] = g
        BY <3>2
      <3>6. e = [x EXCEPT !.flow.unacked = u, !.flow.deadline = f]
        OBVIOUS
      <3> HIDE DEF z, e
      <3>7. g \in HubType /\ g.view[v] = z /\ [g EXCEPT !.view[v] = e] = [k EXCEPT !.view[v] = e]
        BY <1>5, <3>4 DEF HubType
      <3> HIDE DEF g
      <3>8. [g EXCEPT !.view[v].flow.deadline = f]
              = [g EXCEPT !.view[v] = [z EXCEPT !.flow.deadline = f]]
        BY <3>7
      <3>9. [k EXCEPT !.view[v].flow.unacked = u, !.view[v].flow.deadline = f]
              = [g EXCEPT !.view[v].flow.deadline = f]
        BY <3>5
      <3>3. [k EXCEPT !.view[v].flow.unacked = u, !.view[v].flow.deadline = f]
              = [k EXCEPT !.view[v] = [x EXCEPT !.flow.unacked = u, !.flow.deadline = f]]
        BY <3>6, <3>7, <3>8, <3>9 DEF e
      <3> QED BY <3>1, <3>3 DEF u, f
    <2>4. y \in ViewerType /\ y.frames = w.frames /\ y.bootstrap = w.bootstrap
          /\ y.flow.pending = w.flow.pending /\ y.flow.unacked = w.flow.unacked - n
          /\ y.control = w.control /\ y.io = w.io /\ y.started = w.started
          /\ y.restore = w.restore /\ y.acks = Tail(w.acks) /\ y.flow.live = w.flow.live
      BY <1>1, <1>4, <2>2 DEF ViewerType, FlowType
    <2>5. Alike(y, [w EXCEPT !.acks = Tail(@)])
      BY <1>1, <2>4 DEF Alike, ViewerType
    <2> HIDE DEF y, l
    <2>6. Fine(h.mirror, v, y, c, in, p)
      BY <1>1, <1>9, <2>4, <2>5, FineAck DEF n
    <2>7. Keeps(l, k, v) /\ l.view[v] = y /\ l.members = k.members /\ l \in HubType
      BY <1>5, <2>3, <2>4, SetView DEF Keeps
    <2>8. FineAt(l, v, c, p)
      BY <1>5, <2>6, <2>7 DEF FineAt, Keeps, in
    <2>9. Keeps(CheckResume(l, v), l, v) /\ FineAt(CheckResume(l, v), v, c, p)
      BY <2>7, <2>8, ChecksResume
    <2>10. Keeps(CheckResume(l, v), h, v)
      BY <1>5, <2>7, <2>9, KeepsAll
    <2>11. Ack(k, v, n) = CheckResume(l, v)
      BY <1>4, <1>7, <1>9, <2>1
    <2> QED BY <2>9, <2>10, <2>11 DEF k, n, w
  <1> QED BY <1>8, <1>9

(* The next chunk is delivered.                                            *)
LEMMA Delivers ==
  ASSUME NEW h \in HubType, NEW v \in Viewers, NEW c \in ClientType, NEW p \in Nat,
         NEW quick, FineAt(h, v, c, p)
  PROVE  LET g == Deliver(h, v, p + 1, quick)
         IN Keeps(g, h, v) /\ FineAt(g, v, c, p + 1)
  <1> DEFINE w == h.view[v]
             x == [w EXCEPT !.bootstrap = Append(@, p + 1)]
             k == [h EXCEPT !.view[v].bootstrap = Append(@, p + 1)]
             in == v \in h.members
  <1>1. /\ w \in ViewerType /\ in \in BOOLEAN /\ Fine(h.mirror, v, w, c, in, p)
        /\ w.bootstrap \in Seq(Nat) /\ Sockets(h.mirror, v, w, c, in)
    BY ViewOf DEF FineAt, ViewerType, Fine
  <1>2. (HasIo(h, v) <=> w.io \in Attached) /\ (HasControl(h, v) <=> w.control \in Attached)
    BY <1>1 DEF Sockets, HasIo, HasControl, Attached
  <1>3. Keeps(h, h, v)
    BY DEF Keeps
  <1>4. CASE ~w.started \/ (~HasIo(h, v) /\ ~HasControl(h, v))
    <2>1. Deliver(h, v, p + 1, quick) = h
      BY <1>4 DEF Deliver
    <2>2. ~Follows(w, in)
      BY <1>1, <1>2, <1>4 DEF Follows, Sockets
    <2>3. FineAt(h, v, c, p + 1)
      BY <1>1, <2>2, FineIdle DEF FineAt
    <2> QED BY <1>3, <2>1, <2>3
  <1>5. CASE w.started /\ HasIo(h, v)
    <2>1. Deliver(h, v, p + 1, quick) = Enqueue(h, v, p + 1, quick)
      BY <1>5 DEF Deliver
    <2>2. w.started /\ w.io \in Attached
      BY <1>2, <1>5
    <2> QED BY <2>1, <2>2, Enqueues
  <1>6. CASE w.started /\ ~HasIo(h, v) /\ HasControl(h, v) /\ Len(w.bootstrap) + 1 > ViewerMax
    <2>1. Deliver(h, v, p + 1, quick) = DisconnectViewer(h, v)
      BY <1>6 DEF Deliver
    <2> QED BY <2>1, Disconnects
  <1>7. CASE w.started /\ ~HasIo(h, v) /\ HasControl(h, v) /\ ~(Len(w.bootstrap) + 1 > ViewerMax)
    <2>1. Deliver(h, v, p + 1, quick) = k
      BY <1>7 DEF Deliver
    <2>2. k = [h EXCEPT !.view[v] = x]
      BY DEF HubType, ViewerType
    <2>3. w.started /\ w.io \notin Attached /\ in
      BY <1>1, <1>2, <1>7 DEF Sockets
    <2>4. Append(w.bootstrap, p + 1) \in Seq(Nat)
      BY <1>1, AppendProperties
    <2> HIDE DEF w, k, in
    <2>5. /\ x \in ViewerType /\ Alike(x, w) /\ x.frames = w.frames
          /\ x.flow.pending = w.flow.pending /\ x.flow.unacked = w.flow.unacked
          /\ x.bootstrap = Append(w.bootstrap, p + 1)
      BY <1>1, <2>4 DEF ViewerType, Alike
    <2> HIDE DEF x
    <2>6. Fine(h.mirror, v, x, c, in, p + 1)
      BY <1>1, <2>3, <2>5, FineBuffer
    <2>7. Keeps(k, h, v) /\ k.view[v] = x /\ k.members = h.members
      BY <2>2, <2>5, SetView
    <2>8. FineAt(k, v, c, p + 1)
      BY <2>6, <2>7 DEF FineAt, Keeps, in
    <2> QED BY <2>1, <2>7, <2>8
  <1> QED BY <1>4, <1>5, <1>6, <1>7

-----------------------------------------------------------------------------
(* The queue of the mirror.                                                *)
LEMMA MirrorParts ==
  ASSUME NEW m \in MirrorType
  PROVE  /\ m.queue \in Seq(Entry) /\ Len(m.queue) \in Nat /\ m.pending \in Nat
         /\ m.screen \in Nat
         /\ \A q \in 1..Len(m.queue) : m.queue[q] \in Entry
  BY LenProperties, ElementOfSeq DEF MirrorType

(* The screen at an entry depends on the entries before it.                *)
LEMMA ShowsSame ==
  ASSUME NEW m, NEW n, NEW p \in Nat, NEW b, m.screen = n.screen,
         \A q \in 1..(p - 1) : m.queue[q] = n.queue[q], Shows(m, p, b)
  PROVE  Shows(n, p, b)
  <1>1. \A q \in 1..(p - 1) : IsWrite(n, q) <=> IsWrite(m, q)
    BY DEF IsWrite
  <1>2. \A q \in 1..(p - 1) : LastWrite(n, p, q) => LastWrite(m, p, q)
    <2> SUFFICES ASSUME NEW q \in 1..(p - 1), LastWrite(n, p, q),
                        NEW r \in (q + 1)..(p - 1)
                 PROVE  ~IsWrite(m, r)
      BY <1>1 DEF LastWrite
    <2>1. r \in 1..(p - 1)
      OBVIOUS
    <2> QED BY <1>1, <2>1 DEF LastWrite
  <1> QED BY <1>1, <1>2 DEF Shows

(* The last entry is a write.                                              *)
LEMMA ShowsLast ==
  ASSUME NEW m, NEW p \in Nat \ {0}, IsWrite(m, p)
  PROVE  Shows(m, p + 1, m.queue[p].upTo)
  <1>1. p \in 1..((p + 1) - 1)
    OBVIOUS
  <1>2. \A q \in 1..((p + 1) - 1) : LastWrite(m, p + 1, q) => q = p
    <2> SUFFICES ASSUME NEW q \in 1..((p + 1) - 1), LastWrite(m, p + 1, q), q # p
                 PROVE  FALSE
      OBVIOUS
    <2>1. p \in (q + 1)..((p + 1) - 1)
      OBVIOUS
    <2> QED BY <2>1 DEF LastWrite
  <1> QED BY <1>1, <1>2 DEF Shows

(* mirror.write: the last entry shows the chunk, and every snapshot that   *)
(* was due is still of the same screen.                                    *)
LEMMA Writes ==
  ASSUME NEW m \in MirrorType, MirrorInv(m), NEW k \in Nat
  PROVE  LET n == Write(m, k)
         IN /\ n \in MirrorType /\ MirrorInv(n) /\ Shows(n, Len(n.queue) + 1, k)
            /\ \A v : \A q \in 1..Len(n.queue) : SnapshotAt(n, v, q) =>
                 /\ q \in 1..Len(m.queue) /\ SnapshotAt(m, v, q)
                 /\ \A b \in Nat : Shows(m, q, b) => Shows(n, q, b)
  <1> DEFINE n == Write(m, k)
             e == [op |-> "write", upTo |-> k]
             L == Len(m.queue)
  <1>1. m.queue \in Seq(Entry) /\ L \in Nat /\ m.screen \in Nat
    BY MirrorParts
  <1>2. e \in Entry /\ e.op = "write" /\ e.upTo = k
    BY DEF Entry
  <1>3. CASE m.pending # 0
    <2>1. m.pending = L /\ L \in 1..L /\ IsWrite(m, L)
      BY <1>1, <1>3 DEF MirrorInv
    <2> DEFINE f == [m.queue[L] EXCEPT !.upTo = k]
    <2>2. m.queue[L] \in Entry /\ m.queue[L].op = "write"
      BY <1>1, <2>1, ElementOfSeq DEF IsWrite
    <2>3. m.queue[L] \in [op: {"write"}, upTo: Nat]
      BY <2>2 DEF Entry
    <2>4. f \in [op: {"write"}, upTo: Nat] /\ f.op = "write" /\ f.upTo = k
      BY <2>3
    <2>5. f \in Entry
      BY <2>4 DEF Entry
    <2> DEFINE s == [m.queue EXCEPT ![L] = f]
    <2>6. n = [m EXCEPT !.queue = s]
      BY <1>3, <2>1 DEF Write
    <2> HIDE DEF f
    <2>7. /\ s \in Seq(Entry) /\ Len(s) = L
          /\ \A q \in 1..L : s[q] = IF q = L THEN f ELSE m.queue[q]
      BY <1>1, <2>1, <2>5, ExceptSeq
    <2> HIDE DEF s, n, L
    <2>8. n \in MirrorType /\ n.queue = s /\ n.pending = m.pending /\ n.screen = m.screen
      BY <2>6, <2>7 DEF MirrorType
    <2> HIDE DEF e
    <2>9. n.queue[L] = f /\ IsWrite(n, L)
      BY <2>1, <2>4, <2>7, <2>8 DEF IsWrite
    <2>10. MirrorInv(n)
      BY <2>1, <2>7, <2>8, <2>9 DEF MirrorInv
    <2>11. Shows(n, Len(n.queue) + 1, k)
      <3>1. Shows(n, L + 1, n.queue[L].upTo)
        BY <2>1, <2>9, ShowsLast
      <3> QED BY <2>4, <2>7, <2>8, <2>9, <3>1
    <2>12. ASSUME NEW v, NEW q \in 1..Len(n.queue), SnapshotAt(n, v, q)
           PROVE  /\ q \in 1..L /\ SnapshotAt(m, v, q)
                  /\ \A b \in Nat : Shows(m, q, b) => Shows(n, q, b)
      <3>1. q \in 1..L /\ q # L
        BY <2>7, <2>8, <2>9, <2>12 DEF SnapshotAt
      <3>2. n.queue[q] = m.queue[q]
        BY <2>7, <2>8, <3>1
      <3>3. \A r \in 1..(q - 1) : m.queue[r] = n.queue[r]
        <4> TAKE r \in 1..(q - 1)
        <4>1. r \in 1..L /\ r # L
          BY <2>1, <3>1
        <4> QED BY <2>7, <2>8, <4>1
      <3>4. \A b \in Nat : Shows(m, q, b) => Shows(n, q, b)
        BY <2>8, <3>1, <3>3, ShowsSame
      <3> QED BY <2>12, <3>1, <3>2, <3>4 DEF SnapshotAt, IsWrite, L
    <2> QED BY <2>8, <2>10, <2>11, <2>12 DEF n, L
  <1>4. CASE m.pending = 0
    <2> DEFINE s == Append(m.queue, e)
    <2>1. n = [m EXCEPT !.queue = s, !.pending = L + 1]
      BY <1>4 DEF Write
    <2> HIDE DEF e
    <2>2. /\ s \in Seq(Entry) /\ Len(s) = L + 1 /\ s[L + 1] = e
          /\ \A q \in 1..L : s[q] = m.queue[q]
      BY <1>1, <1>2, AppendProperties
    <2> HIDE DEF s, n, L
    <2>3. n \in MirrorType /\ n.queue = s /\ n.pending = L + 1 /\ n.screen = m.screen
      <3> DEFINE t == L + 1
      <3>1. t \in Nat /\ n = [m EXCEPT !.queue = s, !.pending = t]
        BY <1>1, <2>1
      <3> HIDE DEF t
      <3>2. n \in MirrorType /\ n.queue = s /\ n.pending = t /\ n.screen = m.screen
        BY <2>2, <3>1 DEF MirrorType
      <3> QED BY <3>2 DEF t
    <2>4. IsWrite(n, L + 1) /\ n.queue[L + 1].upTo = k
      BY <1>2, <2>2, <2>3 DEF IsWrite
    <2>5. MirrorInv(n)
      BY <2>2, <2>3, <2>4 DEF MirrorInv
    <2>6. Shows(n, Len(n.queue) + 1, k)
      <3>1. Shows(n, (L + 1) + 1, n.queue[L + 1].upTo)
        BY <1>1, <2>4, ShowsLast
      <3> QED BY <2>2, <2>3, <2>4, <3>1
    <2>7. ASSUME NEW v, NEW q \in 1..Len(n.queue), SnapshotAt(n, v, q)
          PROVE  /\ q \in 1..L /\ SnapshotAt(m, v, q)
                 /\ \A b \in Nat : Shows(m, q, b) => Shows(n, q, b)
      <3>1. q \in 1..(L + 1) /\ q # L + 1
        BY <2>2, <2>3, <2>4, <2>7 DEF SnapshotAt
      <3>2. q \in 1..L
        BY <1>1, <3>1
      <3>3. n.queue[q] = m.queue[q]
        BY <2>2, <2>3, <3>2
      <3>4. \A r \in 1..(q - 1) : m.queue[r] = n.queue[r]
        <4> TAKE r \in 1..(q - 1)
        <4>1. r \in 1..L
          BY <1>1, <3>2
        <4> QED BY <2>2, <2>3, <4>1
      <3>5. \A b \in Nat : Shows(m, q, b) => Shows(n, q, b)
        BY <2>3, <3>2, <3>4, ShowsSame
      <3> QED BY <2>7, <3>2, <3>3, <3>5 DEF SnapshotAt, IsWrite, L
    <2> QED BY <2>3, <2>5, <2>6, <2>7 DEF n, L
  <1> QED BY <1>3, <1>4

(* mirror.snapshot: one more snapshot is due, of the screen of all writes  *)
(* so far, and the others stay as they were.                               *)
LEMMA Snaps ==
  ASSUME NEW m \in MirrorType, NEW v \in Viewers
  PROVE  LET n == Snapshot(m, v)
         IN /\ n \in MirrorType /\ MirrorInv(n)
            /\ \A b \in Nat : Shows(m, Len(m.queue) + 1, b) =>
                 /\ Shows(n, Len(n.queue), b)
                 /\ Shows(n, Len(n.queue) + 1, b)
            /\ \A u : \A q \in 1..Len(n.queue) : SnapshotAt(n, u, q) =>
                 \/ /\ q \in 1..Len(m.queue) /\ SnapshotAt(m, u, q)
                    /\ \A b \in Nat : Shows(m, q, b) => Shows(n, q, b)
                 \/ u = v /\ q = Len(n.queue)
  <1> DEFINE n == Snapshot(m, v)
             e == [op |-> "snapshot", viewer |-> v]
             L == Len(m.queue)
             s == Append(m.queue, e)
  <1>1. m.queue \in Seq(Entry) /\ L \in Nat /\ m.screen \in Nat
    BY MirrorParts
  <1>2. e \in Entry /\ e.op # "write" /\ e.viewer = v
    BY DEF Entry
  <1>3. n = [m EXCEPT !.queue = s, !.pending = 0]
    BY DEF Snapshot
  <1> HIDE DEF e
  <1>4. /\ s \in Seq(Entry) /\ Len(s) = L + 1 /\ s[L + 1] = e
        /\ \A q \in 1..L : s[q] = m.queue[q]
    BY <1>1, <1>2, AppendProperties
  <1> HIDE DEF s, n, L
  <1>5. n \in MirrorType /\ n.queue = s /\ n.pending = 0 /\ n.screen = m.screen
    BY <1>1, <1>3, <1>4 DEF MirrorType
  <1>6. MirrorInv(n)
    BY <1>5 DEF MirrorInv
  <1>7. ~IsWrite(n, L + 1) /\ n.queue[L + 1].viewer = v
    BY <1>2, <1>4, <1>5 DEF IsWrite
  <1>8. ASSUME NEW b \in Nat, NEW q \in 1..(L + 1), Shows(m, q, b)
        PROVE  Shows(n, q, b)
    <2>1. \A r \in 1..(q - 1) : m.queue[r] = n.queue[r]
      <3> TAKE r \in 1..(q - 1)
      <3>1. r \in 1..L
        BY <1>1
      <3> QED BY <1>4, <1>5, <3>1
    <2> QED BY <1>5, <1>8, <2>1, ShowsSame
  <1>9. ASSUME NEW b \in Nat, Shows(n, L + 1, b)
        PROVE  Shows(n, (L + 1) + 1, b)
    <2> DEFINE p == L + 1
    <2>1. p \in Nat /\ p >= 1 /\ ~IsWrite(n, p) /\ Shows(n, p, b)
      BY <1>1, <1>7, <1>9
    <2> HIDE DEF p
    <2>2. \A q \in 1..((p + 1) - 1) : IsWrite(n, q) => q \in 1..(p - 1)
      BY <2>1
    <2>3. \A q \in 1..((p + 1) - 1) : LastWrite(n, p + 1, q) => LastWrite(n, p, q)
      <3> SUFFICES ASSUME NEW q \in 1..((p + 1) - 1), LastWrite(n, p + 1, q)
                   PROVE  LastWrite(n, p, q)
        OBVIOUS
      <3>1. q \in 1..(p - 1)
        BY <2>2 DEF LastWrite
      <3>2. \A r \in (q + 1)..(p - 1) : r \in (q + 1)..((p + 1) - 1)
        BY <2>1
      <3> QED BY <3>1, <3>2 DEF LastWrite
    <2>4. \A q \in 1..(p - 1) : q \in 1..((p + 1) - 1)
      BY <2>1
    <2>5. Shows(n, p + 1, b)
      <3>1. \A q \in 1..((p + 1) - 1) : LastWrite(n, p + 1, q) => n.queue[q].upTo = b
        <4> TAKE q \in 1..((p + 1) - 1)
        <4>1. LastWrite(n, p, q) => q \in 1..(p - 1)
          BY DEF LastWrite
        <4> QED BY <2>1, <2>3, <4>1 DEF Shows
      <3>2. (\A q \in 1..((p + 1) - 1) : ~IsWrite(n, q)) => n.screen = b
        BY <2>1, <2>4 DEF Shows
      <3> QED BY <3>1, <3>2 DEF Shows
    <2> QED BY <2>5 DEF p
  <1>10. ASSUME NEW b \in Nat, Shows(m, L + 1, b)
         PROVE  Shows(n, Len(n.queue), b) /\ Shows(n, Len(n.queue) + 1, b)
    <2>1. L + 1 \in 1..(L + 1)
      BY <1>1
    <2>2. Shows(n, L + 1, b)
      BY <1>8, <1>10, <2>1
    <2> QED BY <1>4, <1>5, <1>9, <2>2
  <1>11. ASSUME NEW u, NEW q \in 1..Len(n.queue), SnapshotAt(n, u, q)
         PROVE  \/ /\ q \in 1..L /\ SnapshotAt(m, u, q)
                   /\ \A b \in Nat : Shows(m, q, b) => Shows(n, q, b)
                \/ u = v /\ q = Len(n.queue)
    <2>1. CASE q = L + 1
      BY <1>4, <1>5, <1>7, <1>11, <2>1 DEF SnapshotAt
    <2>2. CASE q # L + 1
      <3>1. q \in 1..(L + 1)
        BY <1>4, <1>5
      <3>2. q \in 1..L
        BY <1>1, <2>2, <3>1
      <3>3. n.queue[q] = m.queue[q]
        BY <1>4, <1>5, <3>2
      <3>4. SnapshotAt(m, u, q)
        BY <1>11, <3>2, <3>3 DEF SnapshotAt, IsWrite, L
      <3> QED BY <1>8, <3>1, <3>2, <3>4
    <2> QED BY <2>1, <2>2
  <1> QED BY <1>5, <1>6, <1>10, <1>11 DEF n, L

(* The first entry is done with: x is the screen after it.                 *)
LEMMA Turns ==
  ASSUME NEW m \in MirrorType, MirrorInv(m), m.queue # <<>>, NEW n \in MirrorType,
         n.queue = Tail(m.queue), n.pending = IF m.pending = 0 THEN 0 ELSE m.pending - 1,
         n.screen = IF IsWrite(m, 1) THEN m.queue[1].upTo ELSE m.screen
  PROVE  /\ MirrorInv(n)
         /\ \A b \in Nat : Shows(m, Len(m.queue) + 1, b) => Shows(n, Len(n.queue) + 1, b)
         /\ \A v : \A q \in 1..Len(n.queue) : SnapshotAt(n, v, q) =>
              /\ q + 1 \in 1..Len(m.queue) /\ SnapshotAt(m, v, q + 1)
              /\ \A b \in Nat : Shows(m, q + 1, b) => Shows(n, q, b)
  <1> DEFINE L == Len(n.queue)
  <1>1. /\ L \in Nat /\ Len(m.queue) = L + 1 /\ m.pending \in Nat
        /\ \A q \in 1..L : n.queue[q] = m.queue[q + 1]
    <2>1. m.queue \in Seq(Entry) /\ Len(m.queue) \in Nat /\ m.pending \in Nat
      BY MirrorParts
    <2>2. /\ Len(n.queue) = Len(m.queue) - 1 /\ n.queue \in Seq(Entry)
          /\ \A q \in 1..Len(n.queue) : n.queue[q] = m.queue[q + 1]
      BY <2>1, HeadTailProperties
    <2>3. Len(n.queue) \in Nat
      BY <2>2, LenProperties
    <2> QED BY <2>1, <2>2, <2>3
  <1> HIDE DEF L
  <1>2. \A q \in 1..L : IsWrite(n, q) <=> IsWrite(m, q + 1)
    BY <1>1 DEF IsWrite
  <1>3. ASSUME NEW p \in 1..(L + 1), NEW b \in Nat, Shows(m, p + 1, b)
        PROVE  Shows(n, p, b)
    <2>1. \A q \in 1..(p - 1) : q \in 1..L /\ q + 1 \in 1..((p + 1) - 1)
      BY <1>1
    <2>2. ASSUME NEW q \in 1..(p - 1), LastWrite(n, p, q)
          PROVE  n.queue[q].upTo = b
      <3>1. IsWrite(m, q + 1) /\ q + 1 \in 1..((p + 1) - 1)
        BY <1>2, <2>1, <2>2 DEF LastWrite
      <3>2. ASSUME NEW r \in ((q + 1) + 1)..((p + 1) - 1) PROVE ~IsWrite(m, r)
        <4>1. r - 1 \in (q + 1)..(p - 1) /\ r - 1 \in 1..L /\ (r - 1) + 1 = r
          BY <1>1, <2>1
        <4>2. ~IsWrite(n, r - 1)
          BY <2>2, <4>1 DEF LastWrite
        <4> QED BY <1>2, <4>1, <4>2
      <3>3. LastWrite(m, p + 1, q + 1)
        BY <3>1, <3>2 DEF LastWrite
      <3> QED BY <1>1, <1>3, <2>1, <3>1, <3>3 DEF Shows
    <2>3. ASSUME \A q \in 1..(p - 1) : ~IsWrite(n, q)
          PROVE  n.screen = b
      <3>1. \A r \in 2..((p + 1) - 1) : ~IsWrite(m, r)
        <4> TAKE r \in 2..((p + 1) - 1)
        <4>1. r - 1 \in 1..(p - 1) /\ r - 1 \in 1..L /\ (r - 1) + 1 = r
          BY <1>1, <2>1
        <4> QED BY <1>2, <2>3, <4>1
      <3>2. CASE IsWrite(m, 1)
        <4>1. LastWrite(m, p + 1, 1) /\ 1 \in 1..((p + 1) - 1)
          BY <3>1, <3>2 DEF LastWrite
        <4> QED BY <1>3, <3>2, <4>1 DEF Shows
      <3>3. CASE ~IsWrite(m, 1)
        <4>1. \A r \in 1..((p + 1) - 1) : ~IsWrite(m, r)
          <5> TAKE r \in 1..((p + 1) - 1)
          <5>1. r = 1 \/ r \in 2..((p + 1) - 1)
            OBVIOUS
          <5> QED BY <3>1, <3>3, <5>1
        <4> QED BY <1>3, <3>3, <4>1 DEF Shows
      <3> QED BY <3>2, <3>3
    <2> QED BY <2>2, <2>3 DEF Shows
  <1>4. MirrorInv(n)
    <2>1. n.pending \in {0, L}
      BY <1>1 DEF MirrorInv
    <2>2. ASSUME n.pending # 0 PROVE IsWrite(n, n.pending)
      <3>1. m.pending = L + 1 /\ n.pending = L /\ L \in 1..L /\ IsWrite(m, L + 1)
        BY <1>1, <2>1, <2>2 DEF MirrorInv
      <3> QED BY <1>2, <3>1
    <2> QED BY <2>1, <2>2 DEF MirrorInv, L
  <1>5. \A b \in Nat : Shows(m, Len(m.queue) + 1, b) => Shows(n, L + 1, b)
    <2>1. L + 1 \in 1..(L + 1)
      BY <1>1
    <2> QED BY <1>1, <1>3, <2>1
  <1>6. ASSUME NEW v, NEW q \in 1..L, SnapshotAt(n, v, q)
        PROVE  /\ q + 1 \in 1..Len(m.queue) /\ SnapshotAt(m, v, q + 1)
               /\ \A b \in Nat : Shows(m, q + 1, b) => Shows(n, q, b)
    <2>1. q + 1 \in 1..Len(m.queue) /\ q \in 1..(L + 1)
      BY <1>1
    <2>2. SnapshotAt(m, v, q + 1)
      BY <1>1, <1>2, <1>6, <2>1 DEF SnapshotAt
    <2> QED BY <1>3, <2>1, <2>2
  <1> QED BY <1>4, <1>5, <1>6 DEF L

-----------------------------------------------------------------------------
(* A step for one viewer, and its browser.                                 *)
LEMMA GoodKeeps ==
  ASSUME NEW h, NEW c, NEW p, Good(h, c, p), NEW v \in Viewers, NEW g, NEW d,
         Keeps(g, h, v), \A u \in Viewers \ {v} : d[u] = c[u], FineAt(g, v, d[v], p)
  PROVE  Good(g, d, p)
  <1>1. MirrorGood(g, p)
    BY DEF Good, MirrorGood, Keeps
  <1>2. ASSUME NEW u \in Viewers PROVE FineAt(g, u, d[u], p)
    <2>1. CASE u = v
      BY <2>1
    <2>2. CASE u # v
      <3>1. /\ g.view[u] = h.view[u] /\ (u \in g.members <=> u \in h.members)
            /\ g.mirror = h.mirror /\ d[u] = c[u]
        BY <2>2 DEF Keeps
      <3>2. (u \in g.members) = (u \in h.members)
        BY <3>1
      <3>3. FineAt(h, u, c[u], p)
        BY DEF Good
      <3> QED BY <3>1, <3>2, <3>3 DEF FineAt
    <2> QED BY <2>1, <2>2
  <1> QED BY <1>1, <1>2 DEF Good

(* The RunState goes with its last viewer.                                 *)
LEMMA NewMirrorType == NewMirror \in MirrorType /\ Len(NewMirror.queue) = 0
  BY EmptySeq DEF NewMirror, MirrorType

(* cleanupRun: without viewers nothing depends on the mirror.              *)
LEMMA CleanupRuns ==
  ASSUME NEW h \in HubType, NEW c, NEW p, Good(h, c, p)
  PROVE  CleanupRun(h) \in HubType /\ Good(CleanupRun(h), c, p)
  <1>1. CASE ~(h.exited /\ h.members = {})
    BY <1>1 DEF CleanupRun
  <1>2. CASE h.exited /\ h.members = {}
    <2> DEFINE g == [h EXCEPT !.open = FALSE, !.exited = FALSE, !.pressured = {},
                              !.ptyPaused = FALSE, !.mirror = NewMirror]
    <2>1. CleanupRun(h) = g
      BY <1>2 DEF CleanupRun
    <2>2. /\ g \in HubType /\ g.mirror = NewMirror /\ ~g.open
          /\ g.members = h.members /\ g.view = h.view
      BY NewMirrorType DEF HubType
    <2> HIDE DEF g
    <2>3. MirrorGood(g, p)
      <3>1. MirrorInv(NewMirror)
        BY DEF MirrorInv, NewMirror
      <3> QED BY <1>2, <2>2, <3>1 DEF MirrorGood
    <2>4. ASSUME NEW v \in Viewers PROVE FineAt(g, v, c[v], p)
      <3>1. Fine(h.mirror, v, h.view[v], c[v], v \in h.members, p)
        BY DEF Good, FineAt
      <3>2. \A q \in 1..Len(NewMirror.queue) : FALSE
        BY NewMirrorType
      <3>3. Fine(NewMirror, v, h.view[v], c[v], v \in h.members, p)
        <4> DEFINE in == v \in h.members
        <4>1. Fine(h.mirror, v, h.view[v], c[v], in, p) /\ 0 \in Nat
          BY <3>1
        <4> HIDE DEF in
        <4>2. Fine(NewMirror, v, h.view[v], c[v], in, p)
          BY <3>2, <4>1, FineMirror
        <4> QED BY <4>2 DEF in
      <3> QED BY <2>2, <3>3 DEF FineAt
    <2> QED BY <2>1, <2>2, <2>3, <2>4 DEF Good
  <1> QED BY <1>1, <1>2

(* A viewer without a socket is removed: the io socket has ended in h.     *)
LEMMA CleanupViewers ==
  ASSUME NEW h \in HubType, NEW v \in Viewers, NEW b, NEW c, NEW p, Good(b, c, p),
         Keeps(h, b, v), HasControl(h, v) \/ HasIo(h, v) => FineAt(h, v, c[v], p),
         ~(HasControl(h, v) \/ HasIo(h, v)) =>
           \A x \in ViewerType :
             x = [h.view[v] EXCEPT !.bootstrap = <<>>, !.handshake = FALSE]
               => Fine(h.mirror, v, x, c[v], FALSE, p)
  PROVE  CleanupViewer(h, v) \in HubType /\ Good(CleanupViewer(h, v), c, p)
  <1>1. CASE HasControl(h, v) \/ HasIo(h, v)
    <2>1. CleanupViewer(h, v) = h
      BY <1>1 DEF CleanupViewer
    <2> QED BY <1>1, <2>1, GoodKeeps
  <1>2. CASE ~(HasControl(h, v) \/ HasIo(h, v))
    <2> DEFINE w == h.view[v]
               x == [w EXCEPT !.bootstrap = <<>>, !.handshake = FALSE]
               k == [h EXCEPT !.members = @ \ {v}, !.view[v].bootstrap = <<>>,
                              !.view[v].handshake = FALSE]
               r == MaybeResumeRun(k, v)
    <2>1. CleanupViewer(h, v) = CleanupRun(r)
      BY <1>2 DEF CleanupViewer
    <2>2. w \in ViewerType /\ x \in ViewerType
      BY ViewOf, EmptySeq DEF ViewerType
    <2>3. /\ k \in HubType /\ Keeps(k, h, v) /\ v \notin k.members /\ k.view[v] = x
      BY <2>2 DEF HubType, Keeps, ViewerType
    <2>4. Fine(h.mirror, v, x, c[v], FALSE, p)
      BY <1>2, <2>2
    <2> HIDE DEF x, k, w
    <2>5. FineAt(k, v, c[v], p)
      <3>1. (v \in k.members) = FALSE /\ k.mirror = h.mirror
        BY <2>3 DEF Keeps
      <3> QED BY <2>3, <2>4, <3>1 DEF FineAt
    <2>6. SameViews(r, k)
      BY <2>3, Resumes
    <2> HIDE DEF r
    <2>7. Keeps(r, k, v) /\ FineAt(r, v, c[v], p) /\ r \in HubType
      BY <2>5, <2>6, SameKeeps DEF SameViews
    <2>8. Keeps(r, b, v)
      BY <2>3, <2>7, KeepsAll
    <2>9. Good(r, c, p)
      BY <2>7, <2>8, GoodKeeps
    <2> QED BY <2>1, <2>7, <2>9, CleanupRuns
  <1> QED BY <1>1, <1>2

-----------------------------------------------------------------------------
(* The steps.                                                              *)
LEMMA ClientOf ==
  ASSUME IInv
  PROVE  /\ hub \in HubType /\ run.printed \in Nat /\ Good(hub, client, run.printed)
         /\ \A v \in Viewers : /\ client[v] \in ClientType
                               /\ FineAt(hub, v, client[v], run.printed)
                               /\ hub.view[v] \in ViewerType
  BY ViewOf DEF IInv, Typed, RunType, Good

(* A step of the server.                                                   *)
LEMMA StepKeeps ==
  ASSUME IInv, UNCHANGED <<run, client>>, hub' \in HubType,
         Good(hub', client, run.printed)
  PROVE  IInv'
  BY DEF IInv, Typed

(* The four timers, and an acknowledgement.                                *)
LEMMA TimersStep ==
  ASSUME IInv, NEW v \in Viewers, Timers(v) \/ AckArrives(v)
  PROVE  IInv'
  <1>1. /\ hub \in HubType /\ run.printed \in Nat /\ client[v] \in ClientType
        /\ FineAt(hub, v, client[v], run.printed) /\ Good(hub, client, run.printed)
    BY ClientOf
  <1>2. /\ Keeps(hub', hub, v) /\ FineAt(hub', v, client[v], run.printed)
        /\ UNCHANGED <<run, client>>
    <2>1. CASE FlushTimer(v)
      BY <1>1, <2>1, Flushes DEF FlushTimer
    <2>2. CASE ResumeTimer(v)
      BY <1>1, <2>2, ChecksResume DEF ResumeTimer
    <2>3. CASE AckDeadline(v)
      BY <1>1, <2>3, Disconnects DEF AckDeadline
    <2>4. CASE HandshakeTimeout(v)
      BY <1>1, <2>4, Disconnects DEF HandshakeTimeout
    <2>5. CASE AckArrives(v)
      BY <1>1, <2>5, Acks DEF AckArrives
    <2> QED BY <2>1, <2>2, <2>3, <2>4, <2>5 DEF Timers
  <1>3. Good(hub', client, run.printed) /\ hub' \in HubType
    BY <1>1, <1>2, GoodKeeps DEF Keeps
  <1> QED BY <1>2, <1>3, StepKeeps

(* The run exits.                                                          *)
LEMMA ExitStep ==
  ASSUME IInv, Exit
  PROVE  IInv'
  <1> DEFINE g == [hub EXCEPT !.exited = TRUE]
  <1>1. hub \in HubType /\ Good(hub, client, run.printed)
    BY ClientOf
  <1>2. /\ g \in HubType /\ g.members = hub.members /\ g.mirror = hub.mirror
        /\ g.view = hub.view /\ g.open = hub.open
    BY <1>1 DEF HubType
  <1> HIDE DEF g
  <1>3. Good(g, client, run.printed)
    BY <1>1, <1>2 DEF Good, MirrorGood, FineAt
  <1>4. CleanupRun(g) \in HubType /\ Good(CleanupRun(g), client, run.printed)
    BY <1>2, <1>3, CleanupRuns
  <1>5. /\ hub' = (IF hub.open THEN CleanupRun(g) ELSE hub)
        /\ run' = [run EXCEPT !.alive = FALSE] /\ client' = client
    BY DEF Exit, g
  <1>6. run' \in RunType /\ run'.printed = run.printed
    BY <1>5 DEF IInv, Typed, RunType
  <1>7. hub' \in HubType /\ Good(hub', client', run'.printed)
    BY <1>1, <1>4, <1>5, <1>6
  <1>8. client' \in [Viewers -> ClientType]
    BY <1>5 DEF IInv, Typed
  <1> QED BY <1>6, <1>7, <1>8 DEF IInv, Typed

(* A browser closes a socket.                                              *)
LEMMA PeerClosesStep ==
  ASSUME IInv, NEW v \in Viewers, PeerCloses(v)
  PROVE  IInv'
  <1>1. /\ hub \in HubType /\ Good(hub, client, run.printed)
        /\ FineAt(hub, v, client[v], run.printed)
    BY ClientOf
  <1>2. PICK socket \in {"io", "control"} :
          /\ hub.view[v][socket] = "open"
          /\ hub' = [hub EXCEPT !.view[v][socket] = "closing"]
    BY DEF PeerCloses
  <1> DEFINE w == hub.view[v]
             x == [w EXCEPT ![socket] = "closing"]
             in == v \in hub.members
  <1>3. hub' = [hub EXCEPT !.view[v] = x]
    BY <1>1, <1>2 DEF HubType
  <1>4. w \in ViewerType /\ w[socket] = "open" /\ Fine(hub.mirror, v, w, client[v], in, run.printed)
    BY <1>1, <1>2, ViewOf DEF FineAt
  <1> HIDE DEF w, in
  <1>5. /\ x \in ViewerType
        /\ x.io = w.io \/ (w.io = "open" /\ x.io = "closing")
        /\ x.control = w.control \/ (w.control = "open" /\ x.control = "closing")
        /\ x.started = w.started /\ x.restore = w.restore /\ x.acks = w.acks
        /\ x.flow = w.flow /\ x.frames = w.frames /\ x.bootstrap = w.bootstrap
    <2>1. CASE socket = "io"
      BY <1>4, <2>1 DEF ViewerType, SocketState
    <2>2. CASE socket = "control"
      BY <1>4, <2>2 DEF ViewerType, SocketState
    <2> QED BY <1>2, <2>1, <2>2
  <1> HIDE DEF x
  <1>6. Fine(hub.mirror, v, x, client[v], in, run.printed)
    BY <1>4, <1>5, FineCloses
  <1> DEFINE g == [hub EXCEPT !.view[v] = x]
  <1>7. Keeps(g, hub, v) /\ g.view[v] = x /\ g.members = hub.members
    BY <1>1, <1>5, SetView
  <1>8. g = hub'
    BY <1>3
  <1> HIDE DEF g
  <1>9. FineAt(g, v, client[v], run.printed)
    BY <1>6, <1>7 DEF FineAt, Keeps, in
  <1>10. g \in HubType /\ Good(g, client, run.printed)
    BY <1>1, <1>7, <1>9, GoodKeeps DEF Keeps
  <1>11. /\ run' \in RunType /\ run'.printed = run.printed /\ client' = client
         /\ client' \in [Viewers -> ClientType]
    BY DEF IInv, Typed, PeerCloses, RunType
  <1> QED BY <1>8, <1>10, <1>11 DEF IInv, Typed

(* The close event of the io socket.                                       *)
LEMMA IoClosedStep ==
  ASSUME IInv, NEW v \in Viewers, IoClosed(v)
  PROVE  IInv'
  <1> DEFINE w == hub.view[v]
             y == IoEnds(w)
             x == [y EXCEPT !.flow = NoFlow]
             k == [hub EXCEPT !.view[v] = IoEnds(@)]
             g == CloseFlow(k, v)
             in == v \in hub.members
             p == run.printed
             c == client[v]
  <1>1. /\ hub \in HubType /\ Good(hub, client, p) /\ w \in ViewerType /\ c \in ClientType
        /\ Fine(hub.mirror, v, w, c, in, p) /\ in \in BOOLEAN /\ w.io = "closing"
    BY ClientOf DEF FineAt, IoClosed
  <1>2. y = [w EXCEPT !.io = "closed", !.frames = <<>>]
    BY DEF IoEnds
  <1>3. k = [hub EXCEPT !.view[v] = y] /\ hub' = CleanupViewer(g, v)
    BY DEF IoClosed
  <1>4. <<>> \in Seq(Seq(Nat))
    BY EmptySeq
  <1> HIDE DEF w, in
  <1>5. y \in ViewerType
    BY <1>1, <1>2, <1>4 DEF ViewerType, SocketState
  <1>6. /\ x \in ViewerType /\ x.io = "closed" /\ x.control = w.control /\ x.frames = <<>>
        /\ x.flow = NoFlow /\ x.started = w.started /\ x.restore = w.restore
        /\ x.acks = w.acks /\ x.bootstrap = w.bootstrap
    BY <1>1, <1>2, <1>4, NoFlowType DEF ViewerType, SocketState
  <1> HIDE DEF y, k
  <1>7. Keeps(k, hub, v) /\ k.view[v] = y /\ k.members = hub.members /\ k \in HubType
    BY <1>1, <1>3, <1>5, SetView DEF Keeps
  <1>8. Keeps(g, k, v) /\ g.members = k.members /\ g.view[v] = x /\ g \in HubType
    BY <1>7, Closes DEF Keeps
  <1> HIDE DEF x, g
  <1>9. Keeps(g, hub, v)
    BY <1>7, <1>8, KeepsAll
  <1>10. /\ ~HasIo(g, v) /\ (HasControl(g, v) <=> in /\ w.control \in Attached)
    BY <1>6, <1>7, <1>8 DEF HasIo, HasControl, Attached, in
  <1>11. in
    BY <1>1 DEF Fine, Sockets, Attached
  <1>12. ~x.flow.live /\ x.flow.pending = <<>> /\ x.io \notin Attached
    BY <1>6 DEF NoFlow, Attached
  <1>13. ASSUME HasControl(g, v)
         PROVE  FineAt(g, v, c, p)
    <2>1. x.control \in Attached /\ ~Follows(x, in)
      BY <1>6, <1>10, <1>13 DEF Follows
    <2>2. Fine(hub.mirror, v, x, c, in, p)
      BY <1>1, <1>6, <1>11, <1>12, <2>1, FineLeave
    <2> QED BY <1>7, <1>8, <1>9, <2>2 DEF FineAt, Keeps, in
  <1>14. ASSUME ~HasControl(g, v), NEW z \in ViewerType,
                z = [g.view[v] EXCEPT !.bootstrap = <<>>, !.handshake = FALSE]
         PROVE  Fine(g.mirror, v, z, c, FALSE, p)
    <2>1. /\ z.io = x.io /\ z.control = x.control /\ z.frames = x.frames
          /\ z.flow = x.flow /\ z.started = x.started /\ z.restore = x.restore
          /\ z.acks = x.acks /\ z.bootstrap = <<>>
      BY <1>6, <1>8, <1>14 DEF ViewerType
    <2>2. PICK to \in BOOLEAN : to = FALSE
      OBVIOUS
    <2>3. z.control \notin Attached /\ ~Follows(z, to)
      BY <1>6, <1>10, <1>11, <1>14, <2>1, <2>2 DEF Follows
    <2>4. /\ z.io = "closed" /\ z.io \notin Attached /\ z.control = w.control /\ z.frames = <<>>
          /\ ~z.flow.live /\ z.flow.pending = <<>> /\ z.started = w.started
          /\ z.restore = w.restore /\ z.acks = w.acks /\ z.bootstrap = <<>>
          /\ w.io # "none"
      BY <1>1, <1>6, <1>12, <2>1
    <2>5. Fine(hub.mirror, v, z, c, to, p)
      BY <1>1, <2>2, <2>3, <2>4, FineLeave
    <2>6. g.mirror = hub.mirror
      BY <1>9 DEF Keeps
    <2> QED BY <2>2, <2>5, <2>6
  <1>15. CleanupViewer(g, v) \in HubType /\ Good(CleanupViewer(g, v), client, p)
    BY <1>1, <1>8, <1>9, <1>10, <1>13, <1>14, CleanupViewers
  <1>16. UNCHANGED <<run, client>>
    BY DEF IoClosed
  <1> QED BY <1>3, <1>15, <1>16, StepKeeps

(* The close event of the control socket.                                  *)
LEMMA ControlClosedStep ==
  ASSUME IInv, NEW v \in Viewers, ControlClosed(v)
  PROVE  IInv'
  <1> DEFINE w == hub.view[v]
             x == ControlEnds(w)
             k == [hub EXCEPT !.view[v] = ControlEnds(@)]
             in == v \in hub.members
             p == run.printed
             c == client[v]
  <1>1. /\ hub \in HubType /\ Good(hub, client, p) /\ w \in ViewerType /\ c \in ClientType
        /\ Fine(hub.mirror, v, w, c, in, p) /\ in \in BOOLEAN /\ w.control = "closing"
    BY ClientOf DEF FineAt, ControlClosed
  <1>2. x = [w EXCEPT !.control = "closed", !.restore = <<>>, !.acks = <<>>]
    BY DEF ControlEnds
  <1>3. k = [hub EXCEPT !.view[v] = x] /\ hub' = CleanupViewer(k, v)
    BY DEF ControlClosed
  <1>4. <<>> \in Seq(Nat)
    BY EmptySeq
  <1> HIDE DEF w, in
  <1>5. /\ x \in ViewerType /\ x.io = w.io /\ x.control = "closed" /\ x.frames = w.frames
        /\ x.flow = w.flow /\ x.started = w.started /\ x.restore = <<>>
        /\ x.acks = <<>> /\ x.bootstrap = w.bootstrap
    BY <1>1, <1>2, <1>4 DEF ViewerType, SocketState
  <1> HIDE DEF x, k
  <1>6. Keeps(k, hub, v) /\ k.view[v] = x /\ k.members = hub.members /\ k \in HubType
    BY <1>1, <1>3, <1>5, SetView DEF Keeps
  <1>7. /\ ~HasControl(k, v) /\ (HasIo(k, v) <=> in /\ w.io \in Attached)
    BY <1>5, <1>6 DEF HasIo, HasControl, Attached, in
  <1>8. in /\ Sockets(hub.mirror, v, w, c, in)
    BY <1>1 DEF Fine, Sockets, Attached
  <1>9. ASSUME HasIo(k, v)
        PROVE  FineAt(k, v, c, p)
    <2>1. Fine(hub.mirror, v, x, c, in, p)
      BY <1>1, <1>5, <1>7, <1>9, FineControlEnds
    <2> QED BY <1>6, <2>1 DEF FineAt, Keeps, in
  <1>10. ASSUME ~HasIo(k, v), NEW z \in ViewerType,
                z = [k.view[v] EXCEPT !.bootstrap = <<>>, !.handshake = FALSE]
         PROVE  Fine(k.mirror, v, z, c, FALSE, p)
    <2>1. /\ z.io = x.io /\ z.control = x.control /\ z.frames = x.frames
          /\ z.flow = x.flow /\ z.started = x.started /\ z.restore = x.restore
          /\ z.acks = x.acks /\ z.bootstrap = <<>>
      BY <1>5, <1>6, <1>10 DEF ViewerType
    <2>2. PICK to \in BOOLEAN : to = FALSE
      OBVIOUS
    <2>3. w.io \notin Attached /\ ~w.flow.live /\ w.frames = <<>> /\ w.flow.pending = <<>>
      BY <1>7, <1>8, <1>10 DEF Sockets
    <2>4. ~Follows(z, to) /\ z.control \notin Attached
      BY <1>5, <2>1, <2>2 DEF Follows, Attached
    <2>5. /\ z.io = w.io /\ z.io \notin Attached /\ z.control = "closed" /\ w.control # "none"
          /\ z.frames = <<>> /\ ~z.flow.live /\ z.flow.pending = <<>>
          /\ z.started = w.started /\ z.restore = <<>> /\ z.acks = <<>> /\ z.bootstrap = <<>>
      BY <1>1, <1>5, <2>1, <2>3
    <2>6. Fine(hub.mirror, v, z, c, to, p)
      BY <1>1, <2>2, <2>4, <2>5, FineLeave
    <2>7. k.mirror = hub.mirror
      BY <1>6 DEF Keeps
    <2> QED BY <2>2, <2>6, <2>7
  <1>11. CleanupViewer(k, v) \in HubType /\ Good(CleanupViewer(k, v), client, p)
    BY <1>1, <1>6, <1>7, <1>9, <1>10, CleanupViewers
  <1>12. UNCHANGED <<run, client>>
    BY DEF ControlClosed
  <1> QED BY <1>3, <1>11, <1>12, StepKeeps

-----------------------------------------------------------------------------
(* The mirror changes, and a viewer's snapshots move by d places with      *)
(* their screens: the viewer stays as good as it was.                      *)
LEMMA FineMoves ==
  ASSUME NEW h \in HubType, NEW g \in HubType, NEW v, NEW c, NEW p, NEW d \in Nat,
         FineAt(h, v, c, p), g.view[v] = h.view[v], v \in g.members <=> v \in h.members,
         \A q \in 1..Len(g.mirror.queue) : SnapshotAt(g.mirror, v, q) =>
           /\ q + d \in 1..Len(h.mirror.queue) /\ SnapshotAt(h.mirror, v, q + d)
           /\ \A b \in Nat : Shows(h.mirror, q + d, b) => Shows(g.mirror, q, b)
  PROVE  FineAt(g, v, c, p)
  <1> DEFINE in == v \in h.members
  <1>1. Fine(h.mirror, v, h.view[v], c, in, p)
    BY DEF FineAt
  <1>2. in = (v \in g.members)
    OBVIOUS
  <1> HIDE DEF in
  <1>3. Fine(g.mirror, v, h.view[v], c, in, p)
    BY <1>1, FineMirror
  <1> QED BY <1>2, <1>3 DEF FineAt

(* The mirror takes a chunk.                                               *)
LEMMA TakesChunk ==
  ASSUME NEW h \in HubType, NEW c, NEW p, Good(h, c, p), NEW k \in Nat
  PROVE  LET g == [h EXCEPT !.mirror = Write(@, k)]
         IN /\ g \in HubType /\ g.view = h.view /\ g.members = h.members
            /\ g.open = h.open /\ g.pressured = h.pressured
            /\ MirrorInv(g.mirror) /\ Shows(g.mirror, Len(g.mirror.queue) + 1, k)
            /\ \A v \in Viewers : FineAt(g, v, c[v], p)
  <1> DEFINE m == h.mirror
             n == Write(m, k)
             g == [h EXCEPT !.mirror = n]
  <1>1. m \in MirrorType /\ MirrorInv(m)
    BY DEF HubType, Good, MirrorGood
  <1> HIDE DEF m
  <1>2. /\ n \in MirrorType /\ MirrorInv(n) /\ Shows(n, Len(n.queue) + 1, k)
        /\ \A v : \A q \in 1..Len(n.queue) : SnapshotAt(n, v, q) =>
             /\ q \in 1..Len(m.queue) /\ SnapshotAt(m, v, q)
             /\ \A b \in Nat : Shows(m, q, b) => Shows(n, q, b)
    BY <1>1, Writes
  <1> HIDE DEF n
  <1>3. /\ g \in HubType /\ g.view = h.view /\ g.members = h.members
        /\ g.open = h.open /\ g.pressured = h.pressured /\ g.mirror = n
    BY <1>2 DEF HubType
  <1> HIDE DEF g
  <1>4. ASSUME NEW v \in Viewers PROVE FineAt(g, v, c[v], p)
    <2>1. FineAt(h, v, c[v], p)
      BY DEF Good
    <2>2. \A q \in 1..Len(n.queue) : q + 0 = q
      OBVIOUS
    <2>3. \A q \in 1..Len(n.queue) : SnapshotAt(n, v, q) =>
            /\ q + 0 \in 1..Len(m.queue) /\ SnapshotAt(m, v, q + 0)
            /\ \A b \in Nat : Shows(m, q + 0, b) => Shows(n, q, b)
      BY <1>2, <2>2
    <2> QED BY <1>3, <2>1, <2>3, FineMoves DEF m
  <1>5. g = [h EXCEPT !.mirror = Write(@, k)]
    BY DEF g, n, m
  <1> QED BY <1>2, <1>3, <1>4, <1>5

(* A chunk for all viewers.                                                *)
LEMMA DeliversAll ==
  ASSUME NEW h \in HubType, NEW c \in [Viewers -> ClientType], NEW p \in Nat,
         \A v \in Viewers : FineAt(h, v, c[v], p), NEW quick
  PROVE  LET g == DeliverAll(h, p + 1, quick)
         IN /\ g \in HubType /\ g.mirror = h.mirror /\ g.open = h.open
            /\ g.members \subseteq h.members
            /\ \A v \in Viewers : FineAt(g, v, c[v], p + 1)
  <1> DEFINE to(v) == Deliver(h, v, p + 1, v \in quick)
             told == [h EXCEPT !.members = {v \in @ : v \in to(v).members},
                               !.pressured = {v \in Viewers : v \in to(v).pressured},
                               !.view = [v \in Viewers |-> to(v).view[v]]]
             g == DeliverAll(h, p + 1, quick)
  <1>1. \A v \in Viewers : Keeps(to(v), h, v) /\ FineAt(to(v), v, c[v], p + 1)
    BY Delivers
  <1>2. g = IF told.members = h.members /\ told.pressured = h.pressured THEN told
            ELSE UpdateRunPressure(told)
    BY DEF DeliverAll
  <1> HIDE DEF to
  <1>3. \A v \in Viewers : /\ to(v) \in HubType /\ to(v).mirror = h.mirror
                           /\ to(v).members \subseteq h.members
    BY <1>1 DEF Keeps
  <1> DEFINE mem == {v \in h.members : v \in to(v).members}
             pre == {v \in Viewers : v \in to(v).pressured}
             view == [v \in Viewers |-> to(v).view[v]]
  <1>4. mem \subseteq h.members /\ mem \in SUBSET Viewers /\ pre \in SUBSET Viewers
    BY DEF HubType
  <1>5. \A v \in Viewers : to(v).view[v] \in ViewerType
    BY <1>3 DEF HubType
  <1>6. view \in [Viewers -> ViewerType] /\ \A v \in Viewers : view[v] = to(v).view[v]
    BY <1>5
  <1>7. \A v \in Viewers : (v \in mem) = (v \in to(v).members)
    BY <1>3
  <1>8. told = [h EXCEPT !.members = mem, !.pressured = pre, !.view = view]
    BY DEF HubType
  <1> HIDE DEF mem, pre, view, told, g
  <1>9. /\ told \in HubType /\ told.mirror = h.mirror /\ told.open = h.open
        /\ told.members = mem /\ told.view = view
    BY <1>4, <1>6, <1>8 DEF HubType
  <1>10. ASSUME NEW v \in Viewers PROVE FineAt(told, v, c[v], p + 1)
    <2>1. FineAt(to(v), v, c[v], p + 1)
      BY <1>1
    <2>2. /\ to(v).mirror = told.mirror /\ to(v).view[v] = told.view[v]
          /\ (v \in to(v).members) = (v \in told.members)
      BY <1>3, <1>6, <1>7, <1>9
    <2> QED BY <2>1, <2>2 DEF FineAt
  <1>11. g = told \/ g = UpdateRunPressure(told)
    BY <1>2
  <1>12. SameViews(told, told) /\ SameViews(UpdateRunPressure(told), told)
    BY <1>9, Pressure DEF SameViews
  <1>13. SameViews(g, told)
    BY <1>11, <1>12
  <1>14. \A v \in Viewers : FineAt(g, v, c[v], p + 1)
    BY <1>10, <1>13, SameKeeps
  <1> QED BY <1>4, <1>9, <1>13, <1>14 DEF SameViews, g

(* The PTY prints a chunk.                                                 *)
LEMMA OutputStep ==
  ASSUME IInv, Output
  PROVE  IInv'
  <1> DEFINE p == run.printed
             k == [hub EXCEPT !.mirror = Write(@, p + 1)]
  <1>1. /\ hub \in HubType /\ p \in Nat /\ Good(hub, client, p)
        /\ client \in [Viewers -> ClientType]
    BY ClientOf DEF IInv, Typed
  <1>2. PICK quick \in SUBSET hub.members :
          hub' = IF ~hub.open THEN hub ELSE DeliverAll(k, p + 1, quick)
    BY DEF Output
  <1>3. run' \in RunType /\ run'.printed = p + 1 /\ client' = client
    BY DEF Output, IInv, Typed, RunType
  <1>4. /\ k \in HubType /\ k.view = hub.view /\ k.members = hub.members
        /\ k.open = hub.open /\ k.pressured = hub.pressured
        /\ MirrorInv(k.mirror) /\ Shows(k.mirror, Len(k.mirror.queue) + 1, p + 1)
        /\ \A v \in Viewers : FineAt(k, v, client[v], p)
    <2>1. p + 1 \in Nat
      BY <1>1
    <2> QED BY <1>1, <2>1, TakesChunk
  <1> HIDE DEF k, p
  <1>5. hub' \in HubType /\ Good(hub', client, p + 1)
    <2>1. CASE ~hub.open
      <3>1. hub.members = {} /\ hub.mirror = NewMirror /\ MirrorInv(hub.mirror)
        BY <1>1, <2>1 DEF Good, MirrorGood
      <3>2. MirrorGood(hub, p + 1)
        BY <2>1, <3>1 DEF MirrorGood
      <3>3. ASSUME NEW v \in Viewers PROVE FineAt(hub, v, client[v], p + 1)
        <4> DEFINE in == v \in hub.members
        <4>1. Fine(hub.mirror, v, hub.view[v], client[v], in, p)
          BY <1>1 DEF Good, FineAt
        <4>2. ~Follows(hub.view[v], in)
          BY <3>1 DEF Follows
        <4> HIDE DEF in
        <4>3. Fine(hub.mirror, v, hub.view[v], client[v], in, p + 1)
          BY <4>1, <4>2, FineIdle
        <4> QED BY <4>3 DEF in, FineAt
      <3> QED BY <1>1, <1>2, <2>1, <3>2, <3>3 DEF Good
    <2>2. CASE hub.open
      <3> DEFINE g == DeliverAll(k, p + 1, quick)
      <3>1. /\ g \in HubType /\ g.mirror = k.mirror /\ g.open = k.open
            /\ \A v \in Viewers : FineAt(g, v, client[v], p + 1)
        BY <1>1, <1>4, DeliversAll
      <3> HIDE DEF g
      <3>2. MirrorGood(g, p + 1)
        BY <1>4, <2>2, <3>1 DEF MirrorGood
      <3>3. hub' = g
        BY <1>2, <2>2 DEF g
      <3> QED BY <3>1, <3>2, <3>3 DEF Good
    <2> QED BY <2>1, <2>2
  <1>6. client' \in [Viewers -> ClientType] /\ Good(hub', client', run'.printed)
    BY <1>1, <1>3, <1>5
  <1> QED BY <1>3, <1>5, <1>6 DEF IInv, Typed

(* The next entry of the queue of the mirror.                              *)
LEMMA MirrorTurnStep ==
  ASSUME IInv, MirrorTurn
  PROVE  IInv'
  <1> DEFINE m == hub.mirror
             head == Head(m.queue)
             tail == Tail(m.queue)
             pend == IF m.pending = 0 THEN 0 ELSE m.pending - 1
             rest == [m EXCEPT !.queue = tail, !.pending = pend]
             shown == [rest EXCEPT !.screen = head.upTo]
             p == run.printed
  <1>1. /\ hub \in HubType /\ p \in Nat /\ Good(hub, client, p) /\ m \in MirrorType
        /\ MirrorInv(m) /\ m.queue # <<>> /\ UNCHANGED <<run, client>>
        /\ \A v \in Viewers : client[v] \in ClientType /\ FineAt(hub, v, client[v], p)
    BY ClientOf DEF HubType, Good, MirrorGood, MirrorTurn
  <1>2. /\ m.queue \in Seq(Entry) /\ m.pending \in Nat /\ m.screen \in Nat
        /\ head \in Entry /\ tail \in Seq(Entry) /\ head = m.queue[1]
        /\ Len(m.queue) \in Nat /\ 1 \in 1..Len(m.queue)
    <2>1. m.queue \in Seq(Entry) /\ m.pending \in Nat /\ m.screen \in Nat
      BY <1>1, MirrorParts
    <2>2. Len(m.queue) \in Nat /\ Len(m.queue) # 0
      BY <1>1, <2>1, LenProperties, EmptySeq
    <2> QED BY <1>1, <2>1, <2>2, HeadTailProperties, ElementOfSeq
  <1>3. pend \in Nat
    BY <1>2
  <1>4. hub' = CASE head.op = "write" -> [hub EXCEPT !.mirror = shown]
                 [] head.op = "snapshot" ->
                      IF HasControl(hub, head.viewer) /\ hub.view[head.viewer].control = "open"
                      THEN [hub EXCEPT !.mirror = rest,
                                       !.view[head.viewer].restore = <<m.screen>>]
                      ELSE [hub EXCEPT !.mirror = rest]
    BY DEF MirrorTurn
  <1> HIDE DEF head, tail, pend, m, p
  <1>5. rest \in MirrorType /\ rest.queue = tail /\ rest.pending = pend /\ rest.screen = m.screen
    BY <1>1, <1>2, <1>3 DEF MirrorType
  <1>6. ASSUME NEW n \in MirrorType, n.queue = tail, n.pending = pend,
               n.screen = IF IsWrite(m, 1) THEN head.upTo ELSE m.screen
        PROVE  /\ MirrorInv(n)
               /\ Shows(m, Len(m.queue) + 1, p) => Shows(n, Len(n.queue) + 1, p)
               /\ \A v : \A q \in 1..Len(n.queue) : SnapshotAt(n, v, q) =>
                    /\ q + 1 \in 1..Len(m.queue) /\ SnapshotAt(m, v, q + 1)
                    /\ \A b \in Nat : Shows(m, q + 1, b) => Shows(n, q, b)
    <2>1. /\ n.queue = Tail(m.queue) /\ n.pending = IF m.pending = 0 THEN 0 ELSE m.pending - 1
          /\ n.screen = IF IsWrite(m, 1) THEN m.queue[1].upTo ELSE m.screen
      BY <1>2, <1>6 DEF tail, pend
    <2> QED BY <1>1, <2>1, Turns
  <1>7. hub.open
    <2>1. Len(NewMirror.queue) = 0 /\ NewMirror.queue = <<>>
      BY EmptySeq DEF NewMirror
    <2> QED BY <1>1, <2>1 DEF Good, MirrorGood, m
  <1>8. Shows(m, Len(m.queue) + 1, p)
    BY <1>1, <1>7 DEF Good, MirrorGood, m
  <1>9. CASE head.op = "write"
    <2>1. IsWrite(m, 1)
      BY <1>2, <1>9 DEF IsWrite
    <2>2. head.upTo \in Nat
      BY <1>2, <1>9 DEF Entry
    <2>3. /\ shown \in MirrorType /\ shown.queue = tail /\ shown.pending = pend
          /\ shown.screen = head.upTo
      BY <1>5, <2>2 DEF MirrorType
    <2> DEFINE g == [hub EXCEPT !.mirror = shown]
    <2>4. hub' = g
      BY <1>4, <1>9
    <2> HIDE DEF shown, rest
    <2>5. /\ g \in HubType /\ g.view = hub.view /\ g.members = hub.members
          /\ g.open = hub.open /\ g.mirror = shown
      BY <1>1, <2>3 DEF HubType
    <2> HIDE DEF g
    <2>6. /\ MirrorInv(shown) /\ Shows(shown, Len(shown.queue) + 1, p)
          /\ \A v : \A q \in 1..Len(shown.queue) : SnapshotAt(shown, v, q) =>
               /\ q + 1 \in 1..Len(m.queue) /\ SnapshotAt(m, v, q + 1)
               /\ \A b \in Nat : Shows(m, q + 1, b) => Shows(shown, q, b)
      BY <1>6, <1>8, <2>1, <2>3
    <2>7. \A v \in Viewers : FineAt(g, v, client[v], p)
      <3> TAKE v \in Viewers
      <3>1. FineAt(hub, v, client[v], p)
        BY <1>1
      <3> QED BY <1>1, <2>5, <2>6, <3>1, FineMoves DEF m
    <2>8. MirrorGood(g, p)
      BY <1>7, <2>5, <2>6 DEF MirrorGood
    <2> QED BY <1>1, <2>4, <2>5, <2>7, <2>8, StepKeeps DEF Good, p
  <1>10. CASE head.op = "snapshot"
    <2>1. ~IsWrite(m, 1)
      BY <1>2, <1>10 DEF IsWrite
    <2> DEFINE s == head.viewer
    <2>2. s \in Viewers /\ SnapshotAt(m, s, 1)
      BY <1>2, <1>10, <2>1 DEF Entry, SnapshotAt
    <2> HIDE DEF rest, s
    <2>3. /\ MirrorInv(rest) /\ Shows(rest, Len(rest.queue) + 1, p)
          /\ \A v : \A q \in 1..Len(rest.queue) : SnapshotAt(rest, v, q) =>
               /\ q + 1 \in 1..Len(m.queue) /\ SnapshotAt(m, v, q + 1)
               /\ \A b \in Nat : Shows(m, q + 1, b) => Shows(rest, q, b)
      BY <1>5, <1>6, <1>8, <2>1
    <2> DEFINE w == hub.view[s]
               x == [w EXCEPT !.restore = <<m.screen>>]
               f == [hub EXCEPT !.mirror = rest]
               g == [f EXCEPT !.view[s] = x]
    <2>4. w \in ViewerType /\ x \in ViewerType /\ x.restore = <<m.screen>>
      <3>1. w \in ViewerType /\ <<m.screen>> \in Seq(Nat)
        BY <1>1, <1>2, <2>2, ViewOf
      <3> HIDE DEF w
      <3> QED BY <3>1 DEF ViewerType
    <2>5. /\ f \in HubType /\ f.view = hub.view /\ f.members = hub.members
          /\ f.open = hub.open /\ f.mirror = rest
      BY <1>1, <1>5 DEF HubType
    <2>6. [hub EXCEPT !.mirror = rest, !.view[s].restore = <<m.screen>>] = g
      BY <1>1, <2>2 DEF HubType
    <2>7. hub' = f \/ hub' = g
      <3> HIDE DEF f, g
      <3> QED BY <1>4, <1>10, <2>6 DEF s, f
    <2> HIDE DEF f, x
    <2>8. Keeps(g, f, s) /\ g.view[s] = x /\ g.members = f.members
      BY <2>2, <2>4, <2>5, SetView
    <2> HIDE DEF g
    <2>9. ASSUME NEW h, h = f \/ h = g
          PROVE  /\ h \in HubType /\ h.mirror = rest /\ h.open = hub.open
                 /\ h.members = hub.members /\ h.view[s] \in {w, x}
                 /\ \A v \in Viewers \ {s} : h.view[v] = hub.view[v]
      BY <2>5, <2>8, <2>9 DEF Keeps
    <2>10. ASSUME NEW z \in {w, x} PROVE FineAt(hub, s, client[s], p) =>
             Fine(rest, s, z, client[s], s \in hub.members, p)
      <3> DEFINE in == s \in hub.members
      <3> SUFFICES ASSUME FineAt(hub, s, client[s], p)
                   PROVE  Fine(rest, s, z, client[s], in, p)
        OBVIOUS
      <3>1. Fine(m, s, w, client[s], in, p)
        BY DEF FineAt, m
      <3> HIDE DEF w, in
      <3>2. /\ Alike(z, [w EXCEPT !.restore = z.restore])
            /\ z.restore = <<m.screen>> \/ z.restore = w.restore
            /\ z.frames = w.frames /\ z.bootstrap = w.bootstrap /\ z.flow = w.flow
        BY <2>4 DEF x, ViewerType, Alike
      <3> QED BY <1>2, <2>2, <2>3, <2>4, <3>1, <3>2, FineSnapshot
    <2>11. hub' \in HubType /\ Good(hub', client, p)
      <3> DEFINE h == hub'
      <3>1. /\ h \in HubType /\ h.mirror = rest /\ h.open = hub.open
            /\ h.members = hub.members /\ h.view[s] \in {w, x}
            /\ \A v \in Viewers \ {s} : h.view[v] = hub.view[v]
        BY <2>7, <2>9
      <3> HIDE DEF h
      <3>2. ASSUME NEW v \in Viewers PROVE FineAt(h, v, client[v], p)
        <4>1. FineAt(hub, v, client[v], p)
          BY <1>1
        <4>2. CASE v = s
          BY <2>10, <3>1, <4>1, <4>2 DEF FineAt
        <4>3. CASE v # s
          <5>1. h.view[v] = hub.view[v]
            BY <3>1, <4>3
          <5> QED BY <1>1, <2>3, <3>1, <4>1, <5>1, FineMoves DEF m
        <4> QED BY <4>2, <4>3
      <3>3. MirrorGood(h, p)
        BY <1>7, <2>3, <3>1 DEF MirrorGood
      <3> QED BY <3>1, <3>2, <3>3 DEF Good, h
    <2> QED BY <1>1, <2>11, StepKeeps DEF p
  <1>11. head.op = "write" \/ head.op = "snapshot"
    BY <1>2 DEF Entry
  <1> QED BY <1>9, <1>10, <1>11

-----------------------------------------------------------------------------
(* A RunState of its own, or the one there is.                             *)
LEMMA GetsState ==
  ASSUME IInv
  PROVE  LET h == GetOrCreateState(hub)
         IN /\ h \in HubType /\ Good(h, client, run.printed) /\ h.open
            /\ h.view = hub.view /\ h.members = hub.members
  <1> DEFINE p == run.printed
             m == IF p > 0 THEN Write(NewMirror, p) ELSE NewMirror
             h == GetOrCreateState(hub)
  <1>1. /\ hub \in HubType /\ p \in Nat /\ Good(hub, client, p)
        /\ run.alive \in BOOLEAN
    BY ClientOf DEF IInv, Typed, RunType
  <1>2. CASE hub.open
    BY <1>1, <1>2 DEF GetOrCreateState
  <1>3. CASE ~hub.open
    <2>1. NewMirror \in MirrorType /\ Len(NewMirror.queue) = 0 /\ MirrorInv(NewMirror)
      BY NewMirrorType DEF MirrorInv, NewMirror
    <2>2. m \in MirrorType /\ MirrorInv(m) /\ Shows(m, Len(m.queue) + 1, p)
      <3>1. CASE p > 0
        BY <1>1, <2>1, <3>1, Writes
      <3>2. CASE ~(p > 0)
        <4>1. p = 0 /\ m = NewMirror
          BY <1>1, <3>2
        <4>2. Shows(NewMirror, 0 + 1, 0)
          <5>1. NewMirror.screen = 0 /\ 1..((0 + 1) - 1) = {}
            BY DEF NewMirror
          <5> QED BY <5>1 DEF Shows
        <4> QED BY <2>1, <4>1, <4>2
      <3> QED BY <3>1, <3>2
    <2>3. \A v, q : q \in 1..Len(m.queue) => ~SnapshotAt(m, v, q)
      <3>1. \A v, q : q \in 1..Len(NewMirror.queue) => FALSE
        BY <2>1
      <3>2. CASE p > 0
        BY <1>1, <2>1, <3>1, <3>2, Writes
      <3>3. CASE ~(p > 0)
        BY <3>1, <3>3
      <3> QED BY <3>2, <3>3
    <2> DEFINE e == ~run.alive
    <2>4. h = [hub EXCEPT !.open = TRUE, !.exited = e, !.mirror = m] /\ e \in BOOLEAN
      BY <1>3 DEF GetOrCreateState
    <2> HIDE DEF h, m, e, p
    <2>5. /\ h \in HubType /\ h.view = hub.view /\ h.members = hub.members
          /\ h.open = TRUE /\ h.mirror = m
      BY <1>1, <2>2, <2>4 DEF HubType
    <2>6. \A v \in Viewers : FineAt(h, v, client[v], p)
      <3> TAKE v \in Viewers
      <3>1. FineAt(hub, v, client[v], p) /\ 0 \in Nat
        BY <1>1 DEF Good
      <3> QED BY <1>1, <2>3, <2>5, <3>1, FineMoves
    <2>7. MirrorGood(h, p)
      BY <2>2, <2>5 DEF MirrorGood
    <2> QED BY <2>5, <2>6, <2>7 DEF Good, h, p
  <1> QED BY <1>2, <1>3

(* The viewer comes in by one of its sockets.                              *)
LEMMA AddsViewer ==
  ASSUME NEW h \in HubType, NEW v \in Viewers, NEW socket \in {"io", "control"}
  PROVE  LET g == AddViewer(h, v, socket)
             w == h.view[v]
             x == g.view[v]
         IN /\ g \in HubType /\ g.mirror = h.mirror /\ g.open = h.open
            /\ g.members = h.members \cup {v}
            /\ \A u \in Viewers \ {v} : g.view[u] = h.view[u]
            /\ x \in ViewerType /\ (x.started <=> w.started /\ v \in h.members)
            /\ x.bootstrap = w.bootstrap /\ x.flow = w.flow /\ x.frames = w.frames
            /\ x.restore = w.restore /\ x.acks = w.acks
            /\ socket = "io" => x.io = "open" /\ x.control = w.control
            /\ socket = "control" => x.control = "open" /\ x.io = w.io
  <1> DEFINE w == h.view[v]
             y == IF v \in h.members THEN w ELSE [w EXCEPT !.started = FALSE]
             z == [y EXCEPT ![socket] = "open"]
             added == [h EXCEPT !.members = @ \cup {v}, !.view[v] = z]
             hand == ~(HasControl(added, v) /\ HasIo(added, v))
             x == [z EXCEPT !.handshake = hand]
             g == AddViewer(h, v, socket)
  <1>1. w \in ViewerType
    BY ViewOf
  <1>2. g = [added EXCEPT !.view[v].handshake = hand] /\ hand \in BOOLEAN
    BY DEF AddViewer
  <1> HIDE DEF w, hand
  <1>3. /\ y \in ViewerType /\ (y.started <=> w.started /\ v \in h.members)
        /\ y.bootstrap = w.bootstrap /\ y.flow = w.flow /\ y.frames = w.frames
        /\ y.restore = w.restore /\ y.acks = w.acks
        /\ y.io = w.io /\ y.control = w.control
    <2>1. CASE v \in h.members
      BY <1>1, <2>1
    <2>2. CASE v \notin h.members
      <3>1. y = [w EXCEPT !.started = FALSE]
        BY <2>2
      <3> HIDE DEF y
      <3>2. y.started = FALSE /\ y \in ViewerType
        BY <1>1, <3>1 DEF ViewerType
      <3>3. /\ y.bootstrap = w.bootstrap /\ y.flow = w.flow /\ y.frames = w.frames
            /\ y.restore = w.restore /\ y.acks = w.acks
            /\ y.io = w.io /\ y.control = w.control
        BY <1>1, <3>1 DEF ViewerType
      <3> QED BY <2>2, <3>2, <3>3
    <2> QED BY <2>1, <2>2
  <1> HIDE DEF y
  <1>4. /\ z \in ViewerType /\ z.started = y.started
        /\ z.bootstrap = y.bootstrap /\ z.flow = y.flow /\ z.frames = y.frames
        /\ z.restore = y.restore /\ z.acks = y.acks
        /\ socket = "io" => z.io = "open" /\ z.control = y.control
        /\ socket = "control" => z.control = "open" /\ z.io = y.io
    <2>1. CASE socket = "io"
      <3>1. z = [y EXCEPT !.io = "open"]
        BY <2>1
      <3> HIDE DEF z
      <3> QED BY <1>3, <2>1, <3>1 DEF ViewerType, SocketState
    <2>2. CASE socket = "control"
      <3>1. z = [y EXCEPT !.control = "open"]
        BY <2>2
      <3> HIDE DEF z
      <3> QED BY <1>3, <2>2, <3>1 DEF ViewerType, SocketState
    <2> QED BY <2>1, <2>2
  <1> HIDE DEF z
  <1>5. /\ x \in ViewerType /\ x.started = z.started
        /\ x.bootstrap = z.bootstrap /\ x.flow = z.flow /\ x.frames = z.frames
        /\ x.restore = z.restore /\ x.acks = z.acks
        /\ x.io = z.io /\ x.control = z.control
    BY <1>2, <1>4 DEF ViewerType
  <1>6. /\ added \in HubType /\ added.mirror = h.mirror /\ added.open = h.open
        /\ added.members = h.members \cup {v} /\ added.view[v] = z
        /\ \A u \in Viewers \ {v} : added.view[u] = h.view[u]
    BY <1>4 DEF HubType
  <1> HIDE DEF added
  <1>7. g = [added EXCEPT !.view[v] = x]
    BY <1>2, <1>6 DEF HubType
  <1> HIDE DEF x, g
  <1>8. /\ g \in HubType /\ g.mirror = added.mirror /\ g.open = added.open
        /\ g.members = added.members /\ g.view[v] = x
        /\ \A u \in Viewers \ {v} : g.view[u] = added.view[u]
    BY <1>5, <1>6, <1>7 DEF HubType
  <1>9. (x.started <=> w.started /\ v \in h.members)
    BY <1>3, <1>4, <1>5
  <1>10. /\ g \in HubType /\ g.mirror = h.mirror /\ g.open = h.open
         /\ g.members = h.members \cup {v}
         /\ \A u \in Viewers \ {v} : g.view[u] = h.view[u]
    BY <1>6, <1>8
  <1>11. /\ x.bootstrap = w.bootstrap /\ x.flow = w.flow /\ x.frames = w.frames
         /\ x.restore = w.restore /\ x.acks = w.acks
         /\ socket = "io" => x.io = "open" /\ x.control = w.control
         /\ socket = "control" => x.control = "open" /\ x.io = w.io
    BY <1>3, <1>4, <1>5
  <1> QED BY <1>5, <1>8, <1>9, <1>10, <1>11 DEF w, g

(* A control socket attaches.                                              *)
LEMMA AttachControlStep ==
  ASSUME IInv, NEW v \in Viewers, AttachControl(v)
  PROVE  IInv'
  <1> DEFINE p == run.printed
             h == GetOrCreateState(hub)
             a == AddViewer(h, v, "control")
             n == Snapshot(a.mirror, v)
             w == h.view[v]
             y == a.view[v]
             x == [y EXCEPT !.started = TRUE]
             k == [a EXCEPT !.mirror = n]
             g == [k EXCEPT !.view[v] = x]
             c == client[v]
             in == v \in h.members
  <1>1. /\ hub.view[v].control = "none" /\ UNCHANGED <<run, client>>
        /\ hub' = [a EXCEPT !.mirror = n, !.view[v].started = TRUE]
    BY DEF AttachControl
  <1>2. c \in ClientType /\ p \in Nat
    BY ClientOf
  <1>3. /\ h \in HubType /\ Good(h, client, p) /\ h.open
        /\ h.view = hub.view /\ h.members = hub.members
    BY GetsState
  <1> HIDE DEF h, p
  <1>4. /\ a \in HubType /\ a.mirror = h.mirror /\ a.open = h.open
        /\ a.members = h.members \cup {v}
        /\ \A u \in Viewers \ {v} : a.view[u] = h.view[u]
        /\ y \in ViewerType
        /\ y.bootstrap = w.bootstrap /\ y.flow = w.flow /\ y.frames = w.frames
        /\ y.restore = w.restore /\ y.acks = w.acks
        /\ y.control = "open" /\ y.io = w.io
    <2> DEFINE socket == "control"
    <2>1. socket \in {"io", "control"}
      OBVIOUS
    <2> HIDE DEF socket
    <2>2. LET e == AddViewer(h, v, socket)
              z == e.view[v]
          IN /\ e \in HubType /\ e.mirror = h.mirror /\ e.open = h.open
             /\ e.members = h.members \cup {v}
             /\ \A u \in Viewers \ {v} : e.view[u] = h.view[u]
             /\ z \in ViewerType /\ (z.started <=> w.started /\ v \in h.members)
             /\ z.bootstrap = w.bootstrap /\ z.flow = w.flow /\ z.frames = w.frames
             /\ z.restore = w.restore /\ z.acks = w.acks
             /\ socket = "io" => z.io = "open" /\ z.control = w.control
             /\ socket = "control" => z.control = "open" /\ z.io = w.io
      BY <1>3, <2>1, AddsViewer
    <2> QED BY <2>2 DEF socket
  <1> HIDE DEF a, y
  <1>5. /\ x \in ViewerType /\ x.started
        /\ x.bootstrap = w.bootstrap /\ x.flow = w.flow /\ x.frames = w.frames
        /\ x.restore = w.restore /\ x.acks = w.acks
        /\ x.control = "open" /\ x.io = w.io
    BY <1>4 DEF ViewerType
  <1> DEFINE m == h.mirror
  <1>6. /\ n \in MirrorType /\ MirrorInv(n)
        /\ \A b \in Nat : Shows(m, Len(m.queue) + 1, b) =>
             /\ Shows(n, Len(n.queue), b)
             /\ Shows(n, Len(n.queue) + 1, b)
        /\ \A u : \A q \in 1..Len(n.queue) : SnapshotAt(n, u, q) =>
             \/ /\ q \in 1..Len(m.queue) /\ SnapshotAt(m, u, q)
                /\ \A b \in Nat : Shows(m, q, b) => Shows(n, q, b)
             \/ u = v /\ q = Len(n.queue)
    <2>1. m \in MirrorType
      BY <1>3 DEF HubType
    <2> QED BY <1>4, <2>1, Snaps
  <1>7. Shows(m, Len(m.queue) + 1, p)
    BY <1>3 DEF Good, MirrorGood
  <1> HIDE DEF n
  <1>8. /\ k \in HubType /\ k.mirror = n /\ k.open = h.open
        /\ k.members = h.members \cup {v} /\ k.view = a.view
    BY <1>4, <1>6 DEF HubType
  <1>9. hub' = g
    BY <1>1, <1>4 DEF HubType, y
  <1> HIDE DEF k, x, g
  <1>10. /\ g \in HubType /\ g.mirror = n /\ g.open = h.open
         /\ g.members = h.members \cup {v} /\ g.view[v] = x
         /\ \A u \in Viewers \ {v} : g.view[u] = h.view[u]
    BY <1>4, <1>5, <1>8 DEF HubType, g
  <1>11. FineAt(g, v, c, p)
    <2>1. w \in ViewerType /\ in \in BOOLEAN /\ Fine(m, v, w, c, in, p)
      BY <1>3, ViewOf DEF Good, FineAt
    <2>2. \A q \in 1..Len(n.queue) : SnapshotAt(n, v, q) =>
            SnapshotAt(m, v, q) \/ (q = Len(n.queue) /\ Shows(n, q, p))
      BY <1>2, <1>6, <1>7
    <2>3. w.control = "none"
      BY <1>1, <1>3
    <2> HIDE DEF w, in, m
    <2>6. PICK to \in BOOLEAN : to = TRUE
      OBVIOUS
    <2> HIDE DEF c
    <2>7. to <=> x.control \in Attached
      BY <1>5, <2>6 DEF Attached
    <2>4. Fine(n, v, x, c, to, p)
      BY <1>2, <1>5, <2>1, <2>2, <2>3, <2>7, FineAttachControl
    <2>5. (v \in g.members) = to
      BY <1>10, <2>6
    <2> QED BY <1>10, <2>4, <2>5 DEF FineAt, c
  <1>12. ASSUME NEW u \in Viewers, u # v PROVE FineAt(g, u, client[u], p)
    <2>1. FineAt(h, u, client[u], p) /\ 0 \in Nat
      BY <1>3 DEF Good
    <2>2. g.view[u] = h.view[u] /\ (u \in g.members <=> u \in h.members)
      BY <1>10, <1>12
    <2>3. \A q \in 1..Len(n.queue) : q + 0 = q
      OBVIOUS
    <2>4. \A q \in 1..Len(n.queue) : SnapshotAt(n, u, q) =>
            /\ q + 0 \in 1..Len(m.queue) /\ SnapshotAt(m, u, q + 0)
            /\ \A b \in Nat : Shows(m, q + 0, b) => Shows(n, q, b)
      BY <1>6, <1>12, <2>3
    <2> QED BY <1>3, <1>10, <2>1, <2>2, <2>4, FineMoves
  <1>13. \A u \in Viewers : FineAt(g, u, client[u], p)
    BY <1>11, <1>12
  <1>14. MirrorGood(g, p)
    BY <1>2, <1>3, <1>6, <1>7, <1>10 DEF MirrorGood
  <1>15. Good(g, client, p)
    BY <1>13, <1>14 DEF Good
  <1> QED BY <1>1, <1>9, <1>10, <1>15, StepKeeps DEF p

(* The chunks that waited for the socket: the first, and then the others.  *)
LEMMA TakesBootstrap ==
  ASSUME NEW h \in HubType, NEW v \in Viewers, NEW c \in ClientType, NEW p \in Nat,
         NEW quick, NEW s \in Seq(Nat), s # <<>>, From(s, p), FineAt(h, v, c, p),
         h.view[v].io \in Attached, h.view[v].started
  PROVE  LET g == Hold(Enqueue(h, v, Head(s), quick), v, Tail(s))
         IN Keeps(g, h, v) /\ FineAt(g, v, c, p + Len(s))
  <1> DEFINE t == Tail(s)
             l == Len(t)
             len == Len(s)
             e == Enqueue(h, v, p + 1, quick)
             g == Hold(e, v, t)
             one == p + 1
  <1>1. /\ t \in Seq(Nat) /\ l = len - 1 /\ Head(s) = s[1]
        /\ \A i \in 1..l : t[i] = s[i + 1]
    BY HeadTailProperties
  <1>2. l \in Nat /\ len \in Nat
    BY <1>1, LenProperties
  <1>3. \A i \in 1..len : s[i] = p + i
    BY DEF From
  <1>4. Keeps(e, h, v) /\ FineAt(e, v, c, p + 1) /\ e.view[v].started
    BY Enqueues
  <1>5. v \in e.members => e.view[v].io = h.view[v].io
    BY Enqueues
  <1> HIDE DEF t, l, len, e, g
  <1>6. Head(s) = p + 1 /\ one \in Nat /\ one + l = p + len
    BY <1>1, <1>2, <1>3
  <1>7. From(t, one)
    <2>1. \A i \in 1..l : t[i] = one + i
      <3> TAKE i \in 1..l
      <3>1. i + 1 \in 1..len /\ t[i] = s[i + 1]
        BY <1>1, <1>2
      <3>2. s[i + 1] = p + (i + 1)
        BY <1>3, <3>1
      <3> QED BY <3>1, <3>2
    <2> QED BY <2>1 DEF From, l
  <1>8. FineAt(e, v, c, one) /\ e \in HubType
    BY <1>4 DEF Keeps
  <1> HIDE DEF one
  <1>9. Keeps(g, e, v) /\ FineAt(g, v, c, one + l)
    <2>1. CASE e.view[v].io \in Attached
      BY <1>1, <1>4, <1>6, <1>7, <1>8, <2>1, Holding DEF g, l
    <2>2. CASE e.view[v].io \notin Attached
      <3> DEFINE z == e.view[v]
                 in == v \in e.members
      <3>1. ~in
        BY <1>5, <2>2
      <3>2. Fine(e.mirror, v, z, c, in, one)
        BY <1>8 DEF FineAt
      <3>3. ~Follows(z, in) /\ ~z.flow.live
        BY <2>2, <3>1, <3>2 DEF Follows, Fine, Sockets
      <3>4. g = e
        BY <3>3 DEF Hold, g
      <3> HIDE DEF z, in
      <3>5. Fine(e.mirror, v, z, c, in, one + l)
        BY <3>2, <3>3, FineIdle
      <3>6. Keeps(e, e, v)
        BY <1>8 DEF Keeps
      <3> QED BY <3>4, <3>5, <3>6 DEF FineAt, z, in
    <2> QED BY <2>1, <2>2
  <1>10. Keeps(g, h, v) /\ FineAt(g, v, c, p + len)
    BY <1>4, <1>6, <1>9, KeepsAll
  <1>11. g = Hold(Enqueue(h, v, Head(s), quick), v, Tail(s))
    BY <1>6 DEF g, e, t
  <1> QED BY <1>10, <1>11 DEF len

(* An io socket attaches, and takes what waited for it.                    *)
LEMMA AttachIoStep ==
  ASSUME IInv, NEW v \in Viewers, AttachIo(v)
  PROVE  IInv'
  <1> DEFINE p == run.printed
             h == GetOrCreateState(hub)
             a == AddViewer(h, v, "io")
             w == h.view[v]
             y == a.view[v]
             chunks == y.bootstrap
             x == [y EXCEPT !.flow = NewFlow, !.bootstrap = <<>>]
             k == [a EXCEPT !.view[v].flow = NewFlow, !.view[v].bootstrap = <<>>]
             fresh == UpdateRunPressure(k)
             c == client[v]
             in == v \in h.members
             r == p - Len(w.bootstrap)
  <1>1. hub.view[v].io = "none" /\ UNCHANGED <<run, client>>
    BY DEF AttachIo
  <1>2. PICK quick \in BOOLEAN :
          hub' = IF chunks = <<>> THEN fresh
                 ELSE Hold(Enqueue(fresh, v, Head(chunks), quick), v, Tail(chunks))
    BY DEF AttachIo
  <1>3. c \in ClientType /\ p \in Nat
    BY ClientOf
  <1>4. /\ h \in HubType /\ Good(h, client, p) /\ h.open
        /\ h.view = hub.view /\ h.members = hub.members
    BY GetsState
  <1> HIDE DEF h, p
  <1>5. /\ a \in HubType /\ a.mirror = h.mirror /\ a.open = h.open
        /\ a.members = h.members \cup {v}
        /\ \A u \in Viewers \ {v} : a.view[u] = h.view[u]
        /\ y \in ViewerType /\ (y.started <=> w.started /\ in)
        /\ y.bootstrap = w.bootstrap /\ y.flow = w.flow /\ y.frames = w.frames
        /\ y.restore = w.restore /\ y.acks = w.acks
        /\ y.io = "open" /\ y.control = w.control
    <2> DEFINE socket == "io"
    <2>1. socket \in {"io", "control"}
      OBVIOUS
    <2> HIDE DEF socket
    <2>2. LET e == AddViewer(h, v, socket)
              z == e.view[v]
          IN /\ e \in HubType /\ e.mirror = h.mirror /\ e.open = h.open
             /\ e.members = h.members \cup {v}
             /\ \A u \in Viewers \ {v} : e.view[u] = h.view[u]
             /\ z \in ViewerType /\ (z.started <=> w.started /\ v \in h.members)
             /\ z.bootstrap = w.bootstrap /\ z.flow = w.flow /\ z.frames = w.frames
             /\ z.restore = w.restore /\ z.acks = w.acks
             /\ socket = "io" => z.io = "open" /\ z.control = w.control
             /\ socket = "control" => z.control = "open" /\ z.io = w.io
      BY <1>4, <2>1, AddsViewer
    <2> QED BY <2>2 DEF socket
  <1>6. k = [a EXCEPT !.view[v] = x]
    BY <1>5 DEF HubType
  <1> HIDE DEF a, y
  <1>7. /\ x \in ViewerType /\ x.started = y.started
        /\ x.bootstrap = <<>> /\ x.flow = NewFlow /\ x.frames = y.frames
        /\ x.restore = y.restore /\ x.acks = y.acks
        /\ x.io = y.io /\ x.control = y.control
    BY <1>5, NoFlowType, EmptySeq DEF ViewerType
  <1> HIDE DEF x, k
  <1>8. /\ k \in HubType /\ k.mirror = h.mirror /\ k.open = h.open
        /\ k.members = h.members \cup {v} /\ k.view[v] = x
        /\ \A u \in Viewers \ {v} : k.view[u] = h.view[u]
    BY <1>5, <1>6, <1>7 DEF HubType
  <1>9. SameViews(fresh, k)
    BY <1>8, Pressure
  <1> HIDE DEF fresh
  <1>0. PICK to \in BOOLEAN : to = TRUE
    OBVIOUS
  <1>10. /\ r \in Nat /\ Fine(h.mirror, v, x, c, to, r) /\ From(w.bootstrap, r)
         /\ w.bootstrap # <<>> => x.started
    <2>1. w \in ViewerType /\ in \in BOOLEAN /\ Fine(h.mirror, v, w, c, in, p)
      BY <1>4, ViewOf DEF Good, FineAt
    <2>2. w.io = "none"
      BY <1>1, <1>4
    <2>3. x.started <=> w.started /\ in
      BY <1>5, <1>7
    <2> HIDE DEF w, in, c
    <2>4. /\ x.control = w.control /\ x.io = "open" /\ x.restore = w.restore
          /\ x.acks = w.acks /\ x.frames = w.frames
      BY <1>5, <1>7
    <2>5. to <=> x.io \in Attached
      BY <1>0, <2>4 DEF Attached
    <2> QED BY <1>3, <1>7, <2>1, <2>2, <2>3, <2>4, <2>5, FineAttachIo
  <1>11. FineAt(fresh, v, c, r)
    <2>1. (v \in fresh.members) = to /\ fresh.mirror = h.mirror /\ fresh.view[v] = x
      BY <1>0, <1>8, <1>9 DEF SameViews
    <2> HIDE DEF r
    <2> QED BY <1>10, <2>1 DEF FineAt
  <1>12. Keeps(hub', fresh, v) /\ FineAt(hub', v, c, p)
    <2>1. CASE chunks = <<>>
      <3>1. p - Len(w.bootstrap) = p
        BY <1>3, <1>5, <2>1, EmptySeq
      <3>2. Keeps(fresh, fresh, v)
        BY <1>9 DEF Keeps, SameViews
      <3> QED BY <1>2, <1>11, <2>1, <3>1, <3>2
    <2>2. CASE chunks # <<>>
      <3>1. /\ w.bootstrap \in Seq(Nat) /\ w.bootstrap # <<>> /\ From(w.bootstrap, r)
            /\ r \in Nat /\ x.started /\ Len(w.bootstrap) \in Nat
        BY <1>4, <1>5, <1>10, <2>2, ViewOf, LenProperties DEF ViewerType
      <3>2. r + Len(w.bootstrap) = p
        BY <1>3, <3>1
      <3>3. fresh \in HubType /\ fresh.view[v].io \in Attached /\ fresh.view[v].started
        BY <1>5, <1>7, <1>8, <1>9, <3>1 DEF SameViews, Attached
      <3>4. hub' = Hold(Enqueue(fresh, v, Head(w.bootstrap), quick), v, Tail(w.bootstrap))
        BY <1>2, <1>5, <2>2
      <3> HIDE DEF r, w, c
      <3>5. c \in ClientType /\ FineAt(fresh, v, c, r)
        BY <1>3, <1>11
      <3> QED BY <3>1, <3>2, <3>3, <3>4, <3>5, TakesBootstrap
    <2> QED BY <2>1, <2>2
  <1>13. Keeps(fresh, fresh, v) /\ fresh \in HubType
    BY <1>9 DEF Keeps, SameViews
  <1>14. \A u \in Viewers \ {v} :
           /\ hub'.view[u] = h.view[u] /\ (u \in hub'.members <=> u \in h.members)
    BY <1>8, <1>9, <1>12 DEF Keeps, SameViews
  <1>15. hub' \in HubType /\ hub'.mirror = h.mirror /\ hub'.open
    BY <1>4, <1>8, <1>9, <1>12 DEF Keeps, SameViews
  <1>16. ASSUME NEW u \in Viewers PROVE FineAt(hub', u, client[u], p)
    <2>1. CASE u = v
      BY <1>12, <2>1
    <2>2. CASE u # v
      <3>1. hub'.view[u] = h.view[u] /\ (u \in hub'.members) = (u \in h.members)
        BY <1>14, <2>2
      <3>2. FineAt(h, u, client[u], p)
        BY <1>4 DEF Good
      <3> QED BY <1>15, <3>1, <3>2 DEF FineAt
    <2> QED BY <2>1, <2>2
  <1>17. MirrorGood(hub', p)
    BY <1>4, <1>15 DEF Good, MirrorGood
  <1> QED BY <1>1, <1>15, <1>16, <1>17, StepKeeps DEF Good, p

-----------------------------------------------------------------------------
(* The browser acknowledges, or cannot.                                    *)
LEMMA Acknowledges ==
  ASSUME NEW h \in HubType, NEW v \in Viewers, NEW sizes \in Seq(Nat)
  PROVE  LET g == Acknowledge(h, v, sizes)
             w == h.view[v]
             x == g.view[v]
         IN /\ Keeps(g, h, v) /\ g.members = h.members /\ x \in ViewerType
            /\ x.control = w.control /\ x.io = w.io /\ x.started = w.started
            /\ x.restore = w.restore /\ x.flow = w.flow /\ x.frames = w.frames
            /\ x.bootstrap = w.bootstrap
            /\ x.acks = w.acks \/ x.acks = w.acks \o sizes
  <1> DEFINE w == h.view[v]
             acks == w.acks \o sizes
             x == [w EXCEPT !.acks = acks]
             k == [h EXCEPT !.view[v] = x]
             g == Acknowledge(h, v, sizes)
  <1>1. w \in ViewerType
    BY ViewOf
  <1>2. CASE w.control = "open"
    <2>1. g = k
      BY <1>2 DEF Acknowledge, HubType
    <2> HIDE DEF w
    <2>2. acks \in Seq(Nat)
      BY <1>1, ConcatProperties DEF ViewerType
    <2> HIDE DEF acks
    <2>3. /\ x \in ViewerType
          /\ x.control = w.control /\ x.io = w.io /\ x.started = w.started
          /\ x.restore = w.restore /\ x.flow = w.flow /\ x.frames = w.frames
          /\ x.bootstrap = w.bootstrap /\ x.acks = acks
      BY <1>1, <2>2 DEF ViewerType
    <2> HIDE DEF x
    <2>4. Keeps(k, h, v) /\ k.view[v] = x /\ k.members = h.members
      BY <2>3, SetView
    <2> HIDE DEF k, g
    <2> QED BY <2>1, <2>3, <2>4 DEF acks, w, g
  <1>3. CASE w.control # "open"
    <2>1. g = h
      BY <1>3 DEF Acknowledge
    <2> QED BY <1>1, <2>1 DEF Keeps
  <1> QED BY <1>2, <1>3

(* A step of one browser.                                                  *)
LEMMA BrowserKeeps ==
  ASSUME IInv, NEW v \in Viewers, NEW d \in ClientType, UNCHANGED run,
         client' = [client EXCEPT ![v] = d], Keeps(hub', hub, v),
         FineAt(hub', v, d, run.printed)
  PROVE  IInv'
  <1>1. hub \in HubType /\ Good(hub, client, run.printed) /\ client \in [Viewers -> ClientType]
    BY ClientOf DEF IInv, Typed
  <1>2. /\ client' \in [Viewers -> ClientType] /\ client'[v] = d
        /\ \A u \in Viewers \ {v} : client'[u] = client[u]
    BY <1>1
  <1>3. Good(hub', client', run.printed)
    BY <1>1, <1>2, GoodKeeps
  <1>4. hub' \in HubType
    BY DEF Keeps
  <1>5. run' \in RunType /\ run'.printed = run.printed
    BY DEF IInv, Typed
  <1> QED BY <1>2, <1>3, <1>4, <1>5 DEF IInv, Typed

(* A frame reaches the browser.                                            *)
LEMMA FrameArrivesStep ==
  ASSUME IInv, NEW v \in Viewers, FrameArrives(v)
  PROVE  IInv'
  <1> DEFINE p == run.printed
             w == hub.view[v]
             c == client[v]
             frame == Head(w.frames)
             rest == Tail(w.frames)
             sizes == <<Len(frame)>>
             y == [w EXCEPT !.frames = rest]
             taken == [hub EXCEPT !.view[v].frames = Tail(@)]
             g == Acknowledge(taken, v, sizes)
             in == v \in hub.members
             shown == c.shown \o frame
             pending == Append(c.pending, frame)
  <1>1. /\ hub \in HubType /\ w \in ViewerType /\ c \in ClientType
        /\ client \in [Viewers -> ClientType] /\ Fine(hub.mirror, v, w, c, in, p)
    BY ClientOf DEF IInv, Typed, FineAt
  <1>2. /\ w.frames # <<>> /\ UNCHANGED run
        /\ \/ /\ c.restored = "yes" /\ hub' = g
              /\ client' = [client EXCEPT ![v].shown = @ \o frame]
           \/ /\ c.restored # "yes" /\ hub' = taken
              /\ client' = [client EXCEPT ![v].pending = Append(@, frame)]
    BY DEF FrameArrives
  <1>3. taken = [hub EXCEPT !.view[v] = y]
    BY <1>1 DEF HubType
  <1> HIDE DEF w, c, in, p
  <1>4. frame \in Seq(Nat) /\ rest \in Seq(Seq(Nat)) /\ Len(frame) \in Nat /\ sizes \in Seq(Nat)
    <2>1. w.frames \in Seq(Seq(Nat))
      BY <1>1 DEF ViewerType
    <2>2. frame \in Seq(Nat) /\ rest \in Seq(Seq(Nat))
      BY <1>2, <2>1, HeadTailProperties
    <2>3. Len(frame) \in Nat
      BY <2>2, LenProperties
    <2> QED BY <2>2, <2>3
  <1>5. shown \in Seq(Nat) /\ pending \in Seq(Seq(Nat))
    BY <1>1, <1>4, ConcatProperties, AppendProperties DEF ClientType
  <1> HIDE DEF frame, rest, sizes, shown, pending
  <1>6. /\ y \in ViewerType /\ y.frames = rest
        /\ y.control = w.control /\ y.io = w.io /\ y.started = w.started
        /\ y.restore = w.restore /\ y.flow = w.flow /\ y.acks = w.acks
        /\ y.bootstrap = w.bootstrap
    BY <1>1, <1>4 DEF ViewerType
  <1> HIDE DEF y, taken
  <1>7. /\ Keeps(taken, hub, v) /\ taken.view[v] = y /\ taken.members = hub.members
        /\ taken \in HubType
    BY <1>1, <1>3, <1>6, SetView DEF Keeps
  <1>8. CASE c.restored = "yes"
    <2> DEFINE d == [c EXCEPT !.shown = shown]
               x == g.view[v]
    <2>1. client' = [client EXCEPT ![v] = d] /\ hub' = g
      BY <1>1, <1>2, <1>8 DEF shown, c
    <2>2. /\ d \in ClientType /\ d.restored = c.restored /\ d.base = c.base
          /\ d.shown = shown /\ d.pending = c.pending
      BY <1>1, <1>5 DEF ClientType
    <2> HIDE DEF d
    <2>3. /\ Keeps(g, taken, v) /\ g.members = taken.members /\ x \in ViewerType
          /\ x.control = y.control /\ x.io = y.io /\ x.started = y.started
          /\ x.restore = y.restore /\ x.flow = y.flow /\ x.frames = y.frames
          /\ x.bootstrap = y.bootstrap
          /\ x.acks = y.acks \/ x.acks = y.acks \o sizes
      BY <1>4, <1>7, Acknowledges
    <2> HIDE DEF g, x
    <2>4. Fine(hub.mirror, v, x, d, in, p)
      <3>1. /\ w.frames # <<>> /\ x.frames = Tail(w.frames)
            /\ x.control = w.control /\ x.io = w.io /\ x.started = w.started
            /\ x.restore = w.restore /\ x.flow = w.flow /\ x.bootstrap = w.bootstrap
        BY <1>2, <1>6, <2>3 DEF rest
      <3>2. /\ c.restored = "yes" /\ d.shown = c.shown \o Head(w.frames)
            /\ d.pending = c.pending
            /\ x.acks = w.acks \/ x.acks = w.acks \o <<Len(Head(w.frames))>>
        BY <1>6, <1>8, <2>2, <2>3 DEF frame, shown, sizes
      <3> QED BY <1>1, <2>2, <2>3, <3>1, <3>2, FineFrame
    <2>5. Keeps(g, hub, v) /\ g.members = hub.members
      BY <1>7, <2>3, KeepsAll
    <2>6. FineAt(g, v, d, p)
      BY <2>4, <2>5 DEF FineAt, Keeps, in, x
    <2> QED BY <1>2, <2>1, <2>2, <2>5, <2>6, BrowserKeeps DEF p
  <1>9. CASE c.restored # "yes"
    <2> DEFINE d == [c EXCEPT !.pending = pending]
    <2>1. client' = [client EXCEPT ![v] = d] /\ hub' = taken
      BY <1>1, <1>2, <1>9 DEF pending, c
    <2>2. /\ d \in ClientType /\ d.restored = c.restored /\ d.base = c.base
          /\ d.shown = c.shown /\ d.pending = pending
      BY <1>1, <1>5 DEF ClientType
    <2> HIDE DEF d
    <2>3. Fine(hub.mirror, v, y, d, in, p)
      BY <1>1, <1>2, <1>6, <1>9, <2>2, FineFrame DEF frame, rest, pending
    <2>4. FineAt(taken, v, d, p)
      BY <1>7, <2>3 DEF FineAt, Keeps, in
    <2> QED BY <1>2, <1>7, <2>1, <2>2, <2>4, BrowserKeeps DEF p
  <1> QED BY <1>8, <1>9

(* A snapshot reaches the browser.                                         *)
LEMMA RestoreArrivesStep ==
  ASSUME IInv, NEW v \in Viewers, RestoreArrives(v)
  PROVE  IInv'
  <1> DEFINE p == run.printed
             w == hub.view[v]
             c == client[v]
             b == Head(w.restore)
             x == [w EXCEPT !.restore = <<>>]
             d == [c EXCEPT !.restored = "writing", !.base = b]
             g == [hub EXCEPT !.view[v] = x]
             in == v \in hub.members
  <1>1. /\ hub \in HubType /\ w \in ViewerType /\ c \in ClientType
        /\ client \in [Viewers -> ClientType] /\ Fine(hub.mirror, v, w, c, in, p)
    BY ClientOf DEF IInv, Typed, FineAt
  <1>2. /\ w.restore # <<>> /\ UNCHANGED run
        /\ client' = [client EXCEPT ![v].restored = "writing", ![v].base = b]
        /\ hub' = [hub EXCEPT !.view[v].restore = <<>>]
    BY DEF RestoreArrives
  <1>3. hub' = g
    BY <1>1, <1>2 DEF HubType
  <1>4. client' = [client EXCEPT ![v] = d]
    <2> DEFINE e == [c EXCEPT !.restored = "writing"]
               k == [client EXCEPT ![v] = e]
    <2>1. client' = [k EXCEPT ![v].base = b]
      BY <1>1, <1>2
    <2>2. k[v] = e /\ d = [e EXCEPT !.base = b]
      BY <1>1
    <2>3. [k EXCEPT ![v].base = b] = [k EXCEPT ![v] = d]
      BY <2>2
    <2>4. [k EXCEPT ![v] = d] = [client EXCEPT ![v] = d]
      BY <1>1
    <2> QED BY <2>1, <2>3, <2>4
  <1> HIDE DEF w, c, in, p
  <1>5. b \in Nat
    <2>1. w.restore \in Seq(Nat)
      BY <1>1 DEF ViewerType
    <2> QED BY <1>2, <2>1, HeadTailProperties
  <1>6. d \in ClientType
    BY <1>1, <1>5 DEF ClientType
  <1>7. /\ x \in ViewerType /\ x.restore = <<>> /\ x.frames = w.frames
        /\ x.control = w.control /\ x.io = w.io /\ x.started = w.started
        /\ x.flow = w.flow /\ x.acks = w.acks /\ x.bootstrap = w.bootstrap
    BY <1>1, EmptySeq DEF ViewerType
  <1>8. d = [c EXCEPT !.restored = "writing", !.base = Head(w.restore)]
    OBVIOUS
  <1> HIDE DEF x, d, g
  <1>9. Fine(hub.mirror, v, x, d, in, p)
    BY <1>1, <1>2, <1>7, <1>8, FineRestore
  <1>10. Keeps(g, hub, v) /\ g.view[v] = x /\ g.members = hub.members
    BY <1>1, <1>7, SetView DEF g
  <1>11. FineAt(g, v, d, p)
    BY <1>9, <1>10 DEF FineAt, Keeps, in
  <1> QED BY <1>2, <1>3, <1>4, <1>6, <1>10, <1>11, BrowserKeeps DEF p

(* The browser has written the snapshot.                                   *)
LEMMA RestoreCompletesStep ==
  ASSUME IInv, NEW v \in Viewers, RestoreCompletes(v)
  PROVE  IInv'
  <1> DEFINE p == run.printed
             w == hub.view[v]
             c == client[v]
             shown == FlattenSeq(c.pending)
             sizes == Sizes(c.pending)
             d == [c EXCEPT !.restored = "yes", !.pending = <<>>, !.shown = shown]
             g == Acknowledge(hub, v, sizes)
             x == g.view[v]
             in == v \in hub.members
  <1>1. /\ hub \in HubType /\ w \in ViewerType /\ c \in ClientType
        /\ client \in [Viewers -> ClientType] /\ Fine(hub.mirror, v, w, c, in, p)
    BY ClientOf DEF IInv, Typed, FineAt
  <1>2. /\ c.restored = "writing" /\ UNCHANGED run /\ hub' = g
        /\ client' = [client EXCEPT ![v].restored = "yes", ![v].pending = <<>>,
                                    ![v].shown = shown]
    BY DEF RestoreCompletes
  <1>3. client' = [client EXCEPT ![v] = d]
    <2> DEFINE e == [c EXCEPT !.restored = "yes"]
               f == [e EXCEPT !.pending = <<>>]
               j == [client EXCEPT ![v] = e]
               k == [client EXCEPT ![v] = f]
    <2> HIDE DEF shown
    <2>1. client' = [[j EXCEPT ![v].pending = <<>>] EXCEPT ![v].shown = shown]
      BY <1>1, <1>2
    <2>2. j[v] = e /\ k[v] = f
      BY <1>1
    <2>3. [j EXCEPT ![v].pending = <<>>] = k
      BY <1>1, <2>2
    <2>4. d = [f EXCEPT !.shown = shown]
      OBVIOUS
    <2> HIDE DEF e, f, j, d
    <2>5. [k EXCEPT ![v].shown = shown] = [k EXCEPT ![v] = d]
      BY <2>2, <2>4
    <2>6. [k EXCEPT ![v] = d] = [client EXCEPT ![v] = d]
      BY <1>1
    <2> QED BY <2>1, <2>3, <2>5, <2>6
  <1> HIDE DEF w, c, in, p
  <1>4. shown \in Seq(Nat) /\ sizes \in Seq(Nat) /\ <<>> \in Seq(Seq(Nat))
    BY <1>1, FlattenType, OwedSizes, EmptySeq DEF ClientType
  <1> HIDE DEF shown, sizes
  <1>5. /\ d \in ClientType /\ d.restored = "yes" /\ d.base = c.base
        /\ d.pending = <<>> /\ d.shown = shown
    BY <1>1, <1>4 DEF ClientType
  <1> HIDE DEF d
  <1>6. /\ Keeps(g, hub, v) /\ g.members = hub.members /\ x \in ViewerType
        /\ x.control = w.control /\ x.io = w.io /\ x.started = w.started
        /\ x.restore = w.restore /\ x.flow = w.flow /\ x.frames = w.frames
        /\ x.bootstrap = w.bootstrap
        /\ x.acks = w.acks \/ x.acks = w.acks \o sizes
    BY <1>1, <1>4, Acknowledges DEF w
  <1> HIDE DEF g, x
  <1>7. Fine(hub.mirror, v, x, d, in, p)
    BY <1>1, <1>2, <1>5, <1>6, FineCompletes DEF shown, sizes
  <1>8. FineAt(g, v, d, p)
    BY <1>6, <1>7 DEF FineAt, Keeps, in, x
  <1> QED BY <1>2, <1>3, <1>5, <1>6, <1>8, BrowserKeeps DEF p

-----------------------------------------------------------------------------
(* The invariant holds at the start.                                       *)
LEMMA InitStreams == Init => IInv
  <1> SUFFICES ASSUME Init PROVE IInv
    OBVIOUS
  <1>1. /\ run = [printed |-> 0, alive |-> TRUE, closes |-> 0] /\ hub = NewHub
        /\ client = [v \in Viewers |-> NewClient]
    BY DEF Init
  <1>2. run \in RunType /\ run.printed = 0
    BY <1>1 DEF RunType
  <1>3. <<>> \in Seq(Nat) /\ <<>> \in Seq(Seq(Nat)) /\ Len(<<>>) = 0 /\ FlattenSeq(<<>>) = <<>>
    BY EmptySeq, FlattenNone
  <1>4. NewViewer \in ViewerType
    BY <1>3, NoFlowType DEF NewViewer, ViewerType, SocketState
  <1>5. NewMirror \in MirrorType /\ Len(NewMirror.queue) = 0
    BY NewMirrorType
  <1>6. hub \in HubType
    BY <1>1, <1>4, <1>5 DEF NewHub, HubType
  <1>7. NewClient \in ClientType
    BY <1>3 DEF NewClient, ClientType
  <1>8. client \in [Viewers -> ClientType]
    BY <1>1, <1>7
  <1>9. /\ hub.mirror = NewMirror /\ hub.members = {} /\ hub.open = FALSE
        /\ \A v \in Viewers : hub.view[v] = NewViewer /\ client[v] = NewClient
    BY <1>1 DEF NewHub
  <1>10. MirrorGood(hub, 0)
    BY <1>9 DEF MirrorGood, MirrorInv, NewMirror
  <1>11. ASSUME NEW v \in Viewers PROVE FineAt(hub, v, client[v], 0)
    <2> PICK in \in BOOLEAN : in = FALSE
      OBVIOUS
    <2> DEFINE w == NewViewer
               c == NewClient
    <2>1. /\ w.control = "none" /\ w.io = "none" /\ w.started = FALSE /\ w.bootstrap = <<>>
          /\ w.flow = NoFlow /\ w.flow.live = FALSE /\ w.flow.pending = <<>>
          /\ w.frames = <<>> /\ w.restore = <<>> /\ w.acks = <<>>
          /\ c.restored = "no" /\ c.base = 0 /\ c.pending = <<>> /\ c.shown = <<>>
      BY DEF NewViewer, NoFlow, NewClient
    <2> HIDE DEF w, c
    <2>2. \A q \in 1..Len(NewMirror.queue) : FALSE
      BY <1>5
    <2>3. Sockets(NewMirror, v, w, c, in)
      BY <2>1, <2>2 DEF Sockets, Attached
    <2>4. ViewerMax \in Nat
      BY TerminalAssumption
    <2>5. Credit(w, c)
      BY <1>3, <2>1, <2>4 DEF Credit
    <2>6. Streams(w, c, in, 0, 0)
      <3>1. ~Follows(w, in)
        BY DEF Follows
      <3>2. \A a : From(<<>>, a)
        BY FromNone
      <3> QED BY <1>3, <2>1, <3>1, <3>2 DEF Streams
    <2>7. Restores(NewMirror, v, w, c, 0)
      BY <2>1, <2>2 DEF Restores
    <2>8. 0 \in Nat
      OBVIOUS
    <2>9. Fine(NewMirror, v, w, c, in, 0)
      BY <2>3, <2>5, <2>6, <2>7, <2>8 DEF Fine
    <2>10. (v \in hub.members) = in /\ hub.view[v] = w /\ client[v] = c
      BY <1>9 DEF w, c
    <2> QED BY <1>9, <2>9, <2>10 DEF FineAt
  <1> QED BY <1>2, <1>6, <1>8, <1>10, <1>11 DEF IInv, Typed, Good

(* Every step keeps the invariant.                                         *)
LEMMA NextStreams == IInv /\ [Next]_vars => IInv'
  <1> SUFFICES ASSUME IInv, [Next]_vars PROVE IInv'
    OBVIOUS
  <1>1. CASE UNCHANGED vars
    BY <1>1 DEF vars, IInv, Typed
  <1>2. CASE Output
    BY <1>2, OutputStep
  <1>3. CASE Exit
    BY <1>3, ExitStep
  <1>4. CASE MirrorTurn
    BY <1>4, MirrorTurnStep
  <1>5. ASSUME NEW v \in Viewers,
               \/ AttachControl(v) \/ AttachIo(v) \/ PeerCloses(v) \/ IoClosed(v)
               \/ ControlClosed(v) \/ Timers(v) \/ AckArrives(v) \/ Browser(v)
        PROVE  IInv'
    <2>1. CASE AttachControl(v)
      BY <2>1, AttachControlStep
    <2>2. CASE AttachIo(v)
      BY <2>2, AttachIoStep
    <2>3. CASE PeerCloses(v)
      BY <2>3, PeerClosesStep
    <2>4. CASE IoClosed(v)
      BY <2>4, IoClosedStep
    <2>5. CASE ControlClosed(v)
      BY <2>5, ControlClosedStep
    <2>6. CASE Timers(v) \/ AckArrives(v)
      BY <2>6, TimersStep
    <2>7. CASE FrameArrives(v)
      BY <2>7, FrameArrivesStep
    <2>8. CASE RestoreArrives(v)
      BY <2>8, RestoreArrivesStep
    <2>9. CASE RestoreCompletes(v)
      BY <2>9, RestoreCompletesStep
    <2> QED BY <1>5, <2>1, <2>2, <2>3, <2>4, <2>5, <2>6, <2>7, <2>8, <2>9 DEF Browser
  <1> QED BY <1>1, <1>2, <1>3, <1>4, <1>5 DEF Next

(* The inductive invariant: every chunk that is under way to a terminal    *)
(* has one place, the places follow each other without a gap, and what the *)
(* browser still has to acknowledge is within the limit (terminal-stream-  *)
(* hub.ts:231, terminal-flow-control.ts:170).                              *)
THEOREM StreamsFollow == Spec => []IInv
  <1> QED BY InitStreams, NextStreams, PTL DEF Spec

(* The invariant implies what a terminal shows.                            *)
LEMMA InvShows == IInv => SnapshotThenStream
  <1> SUFFICES ASSUME IInv, NEW v \in Viewers
               PROVE  /\ client[v].restored = "yes" =>
                           \A i \in DOMAIN client[v].shown :
                             client[v].shown[i] = client[v].base + i
                      /\ Len(FlattenSeq(client[v].pending)) <= ViewerMax
    BY DEF SnapshotThenStream
  <1> DEFINE c == client[v]
  <1>1. c \in ClientType /\ FineAt(hub, v, c, run.printed)
    BY ClientOf
  <1> HIDE DEF c
  <1>2. Len(FlattenSeq(c.pending)) <= ViewerMax
    BY <1>1 DEF FineAt, Fine, Credit
  <1>3. PICK b \in Nat : From(c.shown, b) /\ (c.restored # "no" => c.base = b)
    BY <1>1 DEF FineAt, Fine, Streams, Restores
  <1>4. DOMAIN c.shown = 1..Len(c.shown)
    BY <1>1, LenProperties DEF ClientType
  <1>5. c.restored = "yes" => \A i \in DOMAIN c.shown : c.shown[i] = c.base + i
    BY <1>3, <1>4 DEF From
  <1> QED BY <1>2, <1>5 DEF c

(* A terminal shows the snapshot and then every later chunk once and in    *)
(* order, for any number of viewers and any limits (terminal-              *)
(* client.ts:149, terminal-stream-hub.ts:231).                             *)
THEOREM StreamFollowsSnapshot == Spec => []SnapshotThenStream
  BY StreamsFollow, InvShows, PTL

(* A terminal that is attached misses nothing: what it shows, what is on   *)
(* its socket, what waits for the flush and what waits for the socket are  *)
(* together the output since its snapshot.                                 *)
Ahead(w, c) == c.shown \o (FlattenSeq(w.frames) \o (w.flow.pending \o w.bootstrap))

NothingMissing ==
  \A v \in Viewers :
    client[v].restored = "yes" /\ Follows(hub.view[v], v \in hub.members) =>
      /\ From(Ahead(hub.view[v], client[v]), client[v].base)
      /\ client[v].base + Len(Ahead(hub.view[v], client[v])) = run.printed

(* The invariant implies that nothing is missing.                          *)
LEMMA InvMisses == IInv => NothingMissing
  <1> SUFFICES ASSUME IInv, NEW v \in Viewers, client[v].restored = "yes",
                      Follows(hub.view[v], v \in hub.members)
               PROVE  /\ From(Ahead(hub.view[v], client[v]), client[v].base)
                      /\ client[v].base + Len(Ahead(hub.view[v], client[v])) = run.printed
    BY DEF NothingMissing
  <1> DEFINE c == client[v]
             w == hub.view[v]
             p == run.printed
             s == c.shown
             f == FlattenSeq(w.frames)
             g == w.flow.pending
             h == w.bootstrap
             gh == g \o h
             fgh == f \o gh
             i == Len(s)
             j == Len(f)
             k == Len(g)
             l == Len(h)
             in == v \in hub.members
  <1>1. /\ c \in ClientType /\ w \in ViewerType /\ c.restored = "yes" /\ Follows(w, in)
        /\ Fine(hub.mirror, v, w, c, in, p)
    BY ClientOf DEF FineAt
  <1> HIDE DEF c, w, in, p
  <1>2. /\ s \in Seq(Nat) /\ f \in Seq(Nat) /\ g \in Seq(Nat) /\ h \in Seq(Nat)
        /\ i \in Nat /\ j \in Nat /\ k \in Nat /\ l \in Nat
    BY <1>1, PartTypes
  <1>3. PICK b \in Nat : Streams(w, c, in, p, b) /\ c.base = b /\ c.pending = <<>>
    BY <1>1 DEF Fine, Restores
  <1>4. Received(c) = i /\ Sent(w, c) = i + j
    <2>1. Len(FlattenSeq(c.pending)) = 0
      BY <1>3, FlattenNone, EmptySeq
    <2>2. Received(c) = i + 0 /\ Sent(w, c) = Received(c) + j
      BY <2>1 DEF Received, Sent
    <2> QED BY <1>2, <2>2
  <1>5. /\ From(s, b) /\ From(f, b + i) /\ From(g, b + (i + j))
        /\ From(h, b + (i + j) + k) /\ b + (i + j) + k + l = p
    BY <1>1, <1>3, <1>4 DEF Streams
  <1> HIDE DEF s, f, g, h, i, j, k, l
  <1>0. \A m, n, q, r, t \in Nat :
          /\ m + n \in Nat /\ (m + n) + q \in Nat /\ m + (n + q) = (m + n) + q
          /\ m + (n + q) + r = ((m + n) + q) + r
          /\ m + (n + (q + (r + t))) = m + (n + q) + r + t
    OBVIOUS
  <1>6. /\ b + i \in Nat /\ (b + i) + j \in Nat /\ b + (i + j) = (b + i) + j
        /\ b + (i + j) + k = ((b + i) + j) + k
        /\ b + (i + (j + (k + l))) = b + (i + j) + k + l
    BY <1>0, <1>2
  <1>7. gh \in Seq(Nat) /\ Len(gh) = k + l /\ From(gh, (b + i) + j)
    BY <1>2, <1>5, <1>6, FromConcat DEF k, l
  <1> HIDE DEF gh
  <1>8. fgh \in Seq(Nat) /\ Len(fgh) = j + (k + l) /\ From(fgh, b + i)
    <2>1. j = Len(f)
      BY DEF j
    <2>2. From(gh, (b + i) + Len(f))
      BY <1>7, <2>1
    <2>3. /\ fgh \in Seq(Nat) /\ Len(fgh) = Len(f) + Len(gh)
          /\ From(fgh, b + i) <=> From(f, b + i) /\ From(gh, (b + i) + Len(f))
      BY <1>2, <1>6, <1>7, FromConcat
    <2> QED BY <1>5, <1>7, <2>1, <2>2, <2>3
  <1> HIDE DEF fgh
  <1>9. Len(s \o fgh) = i + (j + (k + l)) /\ From(s \o fgh, b)
    <2>1. i = Len(s)
      BY DEF i
    <2>2. From(fgh, b + Len(s))
      BY <1>8, <2>1
    <2>3. /\ Len(s \o fgh) = Len(s) + Len(fgh)
          /\ From(s \o fgh, b) <=> From(s, b) /\ From(fgh, b + Len(s))
      BY <1>2, <1>8, FromConcat
    <2> QED BY <1>5, <1>8, <2>1, <2>2, <2>3
  <1>10. b + Len(s \o fgh) = p
    BY <1>5, <1>6, <1>9
  <1> QED BY <1>3, <1>9, <1>10 DEF Ahead, fgh, gh, s, f, g, h, c, w, p

(* No chunk is lost on its way to a terminal that is attached: those that  *)
(* it does not show yet are on its socket, wait for the flush or wait for  *)
(* the socket (terminal-stream-hub.ts:231, terminal-flow-control.ts:117).  *)
THEOREM AttachedMissesNothing == Spec => []NothingMissing
  BY StreamsFollow, InvMisses, PTL

=============================================================================
