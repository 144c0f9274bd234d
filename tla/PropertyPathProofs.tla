-------------------------- MODULE PropertyPathProofs ---------------------------
(****************************************************************************)
(* Paths are read as they are spelled, and what they name is found: for any *)
(* characters, any paths and any tree of properties.                        *)
(*                                                                          *)
(* The parser goes by characters and flags; that it reads a path as it is   *)
(* spelled is shown from both sides.  What it has read so far is a spelling *)
(* of what it holds (SpellingInv), so whatever is accepted was spelled.     *)
(* And of a path that spells keys it knows where it is in them (MeantInv),  *)
(* so whatever was spelled is accepted, as what was meant.                  *)
(****************************************************************************)
EXTENDS PropertyPath, SequenceTheorems, WellFoundedInduction, TLAPS
------------------------------------------------------------------------------
(* Lemmas on sequences of sequences and on flattening them, which           *)
(* SequencesExt defines by a recursive function.                            *)

(* The library's theorem of induction takes a predicate; this one, which    *)
(* follows from the well-foundedness of <, takes a set.                     *)
LEMMA Least ==
    ASSUME NEW T, T \subseteq Nat, T # {}
    PROVE  \E n \in T : \A m \in T : n <= m
  <1> DEFINE less == {ss \in Nat \X Nat : ss[1] < ss[2]}
  <1>1. IsWellFoundedOn(less, Nat)
    BY NatLessThanWellFounded DEF OpToRel
  <1>2. \A x, y \in Nat : x < y => <<x, y>> \in less
    OBVIOUS
  <1> HIDE DEF less
  <1>3. PICK n \in T : \A m \in T : ~ (<<m, n>> \in less)
    BY <1>1, WFMin
  <1>4. \A m \in T : ~(m < n)
    BY <1>2, <1>3
  <1> QED
    BY <1>4

(* Induction over the natural numbers, with a set of them for the           *)
(* predicate.                                                               *)
LEMMA Induction ==
    ASSUME NEW T, 0 \in T, \A n \in Nat : n \in T => n + 1 \in T
    PROVE  \A n \in Nat : n \in T
  <1> SUFFICES ASSUME NEW k \in Nat, k \notin T PROVE FALSE
    OBVIOUS
  <1> DEFINE others == {n \in Nat : n \notin T}
  <1>1. others \subseteq Nat /\ others # {}
    OBVIOUS
  <1>2. PICK n \in others : \A m \in others : n <= m
    <2> HIDE DEF others
    <2> QED
      BY <1>1, Least
  <1>3. n \in Nat /\ n # 0 /\ n - 1 \in Nat /\ n - 1 \notin others
    BY <1>2
  <1> QED
    BY <1>2, <1>3

(* The function by which FlattenSeq is defined, on the first n sequences.   *)
Flattens(f, ss, n) == f = [i \in 1 .. n |-> IF i = 1 THEN ss[i] ELSE f[i - 1] \o ss[i]]

(* Each of its values is the one before, and the next sequence after it.    *)
LEMMA FlattensAt ==
    ASSUME NEW f, NEW ss, NEW n, Flattens(f, ss, n), NEW i \in 1 .. n
    PROVE  f[i] = IF i = 1 THEN ss[i] ELSE f[i - 1] \o ss[i]
  BY DEF Flattens

(* There is such a function for every n, so that CHOOSE finds it.           *)
LEMMA FlatteningExists ==
    ASSUME NEW ss
    PROVE  \A n \in Nat : \E f : Flattens(f, ss, n)
  <1> DEFINE T == {n \in Nat : \E f : Flattens(f, ss, n)}
  <1>1. 0 \in T
    <2>1. Flattens([i \in 1 .. 0 |-> ss], ss, 0)
      BY DEF Flattens
    <2> QED
      BY <2>1
  <1>2. ASSUME NEW n \in Nat, n \in T
        PROVE  n + 1 \in T
    <2>1. PICK f : Flattens(f, ss, n)
      BY <1>2
    <2> DEFINE g == [i \in 1 .. n + 1 |->
                        IF i = n + 1 THEN IF i = 1 THEN ss[i] ELSE f[n] \o ss[i] ELSE f[i]]
    <2>2. ASSUME NEW i \in 1 .. n + 1
          PROVE  g[i] = IF i = 1 THEN ss[i] ELSE g[i - 1] \o ss[i]
      <3>1. CASE i = n + 1
        BY <3>1
      <3>2. CASE i # n + 1
        <4>1. i \in 1 .. n
          BY <3>2
        <4>2. f[i] = IF i = 1 THEN ss[i] ELSE f[i - 1] \o ss[i]
          BY <2>1, <4>1 DEF Flattens
        <4>3. i # 1 => i - 1 \in 1 .. n + 1 /\ i - 1 # n + 1
          BY <4>1
        <4> QED
          BY <3>2, <4>2, <4>3
      <3> QED
        BY <3>1, <3>2
    <2>3. Flattens(g, ss, n + 1)
      BY <2>2 DEF Flattens
    <2> QED
      BY <2>3
  <1> HIDE DEF T
  <1>3. \A n \in Nat : n \in T
    BY <1>1, <1>2, Induction
  <1> QED
    BY <1>3 DEF T

(* A flattened sequence is that function's last value.                      *)
LEMMA FlattenSeqIs ==
    ASSUME NEW ss, NEW n \in Nat \ {0}, Len(ss) = n
    PROVE  \E f : Flattens(f, ss, n) /\ FlattenSeq(ss) = f[n]
  <1> DEFINE F == CHOOSE f : f = [i \in 1 .. Len(ss) |->
                                     IF i = 1 THEN ss[i] ELSE f[i - 1] \o ss[i]]
  <1>1. \E f : Flattens(f, ss, n)
    BY FlatteningExists
  <1>2. Flattens(F, ss, n)
    BY <1>1 DEF Flattens
  <1>3. FlattenSeq(ss) = F[n]
    BY DEF FlattenSeq
  <1> QED
    BY <1>2, <1>3

(* Sequences that agree so far are flattened alike so far.                  *)
LEMMA FlatteningsAgree ==
    ASSUME NEW X, NEW ss, NEW tt, NEW m \in Nat, NEW n \in Nat, m <= n,
           \A i \in 1 .. m : ss[i] \in Seq(X) /\ tt[i] = ss[i],
           NEW f, Flattens(f, ss, m), NEW g, Flattens(g, tt, n)
    PROVE  \A i \in 1 .. m : f[i] = g[i] /\ f[i] \in Seq(X)
  <1> DEFINE T == {i \in Nat : i \in 1 .. m => f[i] = g[i] /\ f[i] \in Seq(X)}
  <1>1. 0 \in T
    OBVIOUS
  <1>2. ASSUME NEW i \in Nat, i \in T
        PROVE  i + 1 \in T
    <2> SUFFICES ASSUME i + 1 \in 1 .. m
                 PROVE  f[i + 1] = g[i + 1] /\ f[i + 1] \in Seq(X)
      OBVIOUS
    <2>1. f[i + 1] = IF i + 1 = 1 THEN ss[i + 1] ELSE f[i + 1 - 1] \o ss[i + 1]
      BY FlattensAt
    <2>2. g[i + 1] = IF i + 1 = 1 THEN tt[i + 1] ELSE g[i + 1 - 1] \o tt[i + 1]
      <3>1. i + 1 \in 1 .. n
        OBVIOUS
      <3> QED
        BY <3>1, FlattensAt
    <2>3. ss[i + 1] \in Seq(X) /\ tt[i + 1] = ss[i + 1] /\ i + 1 - 1 = i
      OBVIOUS
    <2>4. i + 1 # 1 => f[i] = g[i] /\ f[i] \in Seq(X)
      BY <1>2
    <2> QED
      BY <2>1, <2>2, <2>3, <2>4
  <1> HIDE DEF T
  <1>3. \A i \in Nat : i \in T
    BY <1>1, <1>2, Induction
  <1> QED
    BY <1>3 DEF T

(* Of no sequences nothing is made.                                         *)
LEMMA FlattenSeqOfNone == FlattenSeq(<<>>) = <<>>
  BY DEF FlattenSeq

(* Sequences over a set are flattened to one over it.                       *)
LEMMA FlattenSeqType ==
    ASSUME NEW X, NEW ss \in Seq(Seq(X))
    PROVE  FlattenSeq(ss) \in Seq(X)
  <1>1. CASE ss = <<>>
    <2>1. FlattenSeq(ss) = <<>>
      BY <1>1, FlattenSeqOfNone
    <2> QED
      BY <2>1
  <1>2. CASE ss # <<>>
    <2>1. PICK n \in Nat \ {0} : Len(ss) = n
      BY <1>2
    <2>2. PICK f : Flattens(f, ss, n) /\ FlattenSeq(ss) = f[n]
      BY <2>1, FlattenSeqIs
    <2>3. \A i \in 1 .. n : ss[i] \in Seq(X)
      BY <2>1
    <2>4. \A i \in 1 .. n : f[i] \in Seq(X)
      <3> n <= n
        OBVIOUS
      <3> QED
        BY <2>2, <2>3, FlatteningsAgree
    <2> QED
      BY <2>1, <2>2, <2>4
  <1> QED
    BY <1>1, <1>2

(* One sequence more is appended to what the others are flattened to.       *)
LEMMA FlattenSeqAppend ==
    ASSUME NEW X, NEW ss \in Seq(Seq(X)), NEW s \in Seq(X)
    PROVE  FlattenSeq(Append(ss, s)) = FlattenSeq(ss) \o s
  <1>1. PICK n \in Nat : n = Len(ss)
    OBVIOUS
  <1>2. PICK tt : tt = Append(ss, s)
    OBVIOUS
  <1>3. /\ Len(tt) = n + 1 /\ tt[n + 1] = s
        /\ \A i \in 1 .. n : ss[i] \in Seq(X) /\ tt[i] = ss[i]
    BY <1>1, <1>2
  <1>4. PICK g : Flattens(g, tt, n + 1) /\ FlattenSeq(tt) = g[n + 1]
    <2> n + 1 \in Nat \ {0}
      OBVIOUS
    <2> QED
      BY <1>3, FlattenSeqIs
  <1>5. FlattenSeq(tt) = IF n + 1 = 1 THEN s ELSE g[n] \o s
    <2>1. g[n + 1] = IF n + 1 = 1 THEN tt[n + 1] ELSE g[n + 1 - 1] \o tt[n + 1]
      <3> n + 1 \in 1 .. n + 1
        OBVIOUS
      <3> QED
        BY <1>4, FlattensAt
    <2>2. n + 1 - 1 = n
      OBVIOUS
    <2> QED
      BY <1>3, <1>4, <2>1, <2>2
  <1>6. CASE n = 0
    <2>1. ss = <<>>
      <3>1. Len(ss) = 0
        BY <1>1, <1>6
      <3> QED
        BY <3>1, EmptySeq
    <2>2. FlattenSeq(ss) = <<>>
      BY <2>1, FlattenSeqOfNone
    <2>3. FlattenSeq(tt) = s
      BY <1>5, <1>6
    <2> QED
      BY <1>2, <2>2, <2>3
  <1>7. CASE n # 0
    <2>1. PICK f : Flattens(f, ss, n) /\ FlattenSeq(ss) = f[n]
      BY <1>1, <1>7, FlattenSeqIs
    <2>2. \A i \in 1 .. n : f[i] = g[i] /\ f[i] \in Seq(X)
      <3> n <= n + 1 /\ n + 1 \in Nat
        OBVIOUS
      <3> QED
        BY <1>3, <1>4, <2>1, FlatteningsAgree
    <2>3. f[n] = g[n]
      BY <1>7, <2>2
    <2> QED
      BY <1>2, <1>5, <1>7, <2>1, <2>3
  <1> QED
    BY <1>6, <1>7

(* How long the first n of a list of sequences are together.                *)
Offset(ss, n) == Len(FlattenSeq(SubSeq(ss, 1, n)))

(* A function on 1 .. n is a sequence of n elements.                        *)
LEMMA FunctionIsSequence ==
    ASSUME NEW X, NEW n \in Nat, NEW f \in [1 .. n -> X]
    PROVE  f \in Seq(X) /\ Len(f) = n
  OBVIOUS

(* A sequence that agrees with another but for one element more.            *)
LEMMA OneMoreIsAppended ==
    ASSUME NEW X, NEW s \in Seq(X), NEW t \in Seq(X), NEW e \in X, NEW n \in Nat, Len(s) = n,
           Len(t) = n + 1, t[n + 1] = e, \A i \in 1 .. n : t[i] = s[i]
    PROVE  t = Append(s, e)
  OBVIOUS

(* t is s and e after it. *)
OneLonger(t, s, e) ==
    /\ Len(s) \in Nat /\ t # <<>> /\ Len(t) = Len(s) + 1 /\ t[Len(s) + 1] = e
    /\ \A i \in 1 .. Len(s) : t[i] = s[i]

(* Append, by its elements.                                                 *)
LEMMA AppendIs ==
    ASSUME NEW X, NEW s \in Seq(X), NEW e \in X
    PROVE  Append(s, e) \in Seq(X) /\ OneLonger(Append(s, e), s, e)
  BY DEF OneLonger

(* t is a and b after it. *)
Joined(t, a, b) ==
    /\ Len(a) \in Nat /\ Len(b) \in Nat /\ Len(t) = Len(a) + Len(b)
    /\ \A i \in 1 .. Len(a) : t[i] = a[i]
    /\ \A i \in 1 .. Len(b) : t[Len(a) + i] = b[i]

(* Concatenation, by its elements.                                          *)
LEMMA ConcatIs ==
    ASSUME NEW X, NEW a \in Seq(X), NEW b \in Seq(X)
    PROVE  a \o b \in Seq(X) /\ Joined(a \o b, a, b)
  BY DEF Joined

(* A prefix that is one element longer.                                     *)
LEMMA SubSeqAppend ==
    ASSUME NEW X, NEW s \in Seq(X), NEW n \in 0 .. Len(s) - 1
    PROVE  SubSeq(s, 1, n + 1) = Append(SubSeq(s, 1, n), s[n + 1])
  <1>1. n + 1 \in 1 .. Len(s) /\ n + 1 - 1 = n /\ 1 \in 1 .. Len(s) /\ n + 1 \in 1 .. Len(s)
    OBVIOUS
  <1>2. SubSeq(s, 1, n + 1) = SubSeq(s, 1, n) \o <<s[n + 1]>>
    BY <1>1, SubSeqRecursiveSecond
  <1>3. SubSeq(s, 1, n) \in Seq(X) /\ s[n + 1] \in X
    BY <1>1
  <1> QED
    BY <1>2, <1>3, AppendIsConcat

(* The first n + 1 sequences, flattened, are the first n and the next one.  *)
LEMMA FlattenOneMore ==
    ASSUME NEW X, NEW ss \in Seq(Seq(X)), NEW n \in 0 .. Len(ss) - 1
    PROVE  /\ FlattenSeq(SubSeq(ss, 1, n + 1)) = FlattenSeq(SubSeq(ss, 1, n)) \o ss[n + 1]
           /\ FlattenSeq(SubSeq(ss, 1, n)) \in Seq(X)
           /\ ss[n + 1] \in Seq(X)
  <1>1. SubSeq(ss, 1, n) \in Seq(Seq(X)) /\ ss[n + 1] \in Seq(X)
    <2>1. \A i \in 1 .. n : ss[i] \in Seq(X)
      OBVIOUS
    <2>2. SubSeq(ss, 1, n) \in Seq(Seq(X))
      <3> n \in Int /\ 1 \in Int
        OBVIOUS
      <3> QED
        BY <2>1, SubSeqProperties
    <2>3. ss[n + 1] \in Seq(X)
      OBVIOUS
    <2> QED
      BY <2>2, <2>3
  <1>2. SubSeq(ss, 1, n + 1) = Append(SubSeq(ss, 1, n), ss[n + 1])
    BY SubSeqAppend
  <1> QED
    BY <1>1, <1>2, FlattenSeqAppend, FlattenSeqType

(* Each offset is the one before and the length of the piece between them.  *)
LEMMA OffsetOneMore ==
    ASSUME NEW X, NEW ss \in Seq(Seq(X)), NEW n \in 0 .. Len(ss) - 1
    PROVE  Offset(ss, n) \in Nat /\ Offset(ss, n + 1) = Offset(ss, n) + Len(ss[n + 1])
  <1>1. /\ FlattenSeq(SubSeq(ss, 1, n + 1)) = FlattenSeq(SubSeq(ss, 1, n)) \o ss[n + 1]
        /\ FlattenSeq(SubSeq(ss, 1, n)) \in Seq(X)
        /\ ss[n + 1] \in Seq(X)
    BY FlattenOneMore
  <1>2. Len(FlattenSeq(SubSeq(ss, 1, n + 1))) = Len(FlattenSeq(SubSeq(ss, 1, n))) + Len(ss[n + 1])
    BY <1>1, ConcatProperties, Zenon
  <1>3. Len(FlattenSeq(SubSeq(ss, 1, n))) \in Nat
    BY <1>1, LenProperties, Zenon
  <1> QED
    BY <1>2, <1>3 DEF Offset

(* The first piece starts at the front.                                     *)
LEMMA OffsetOfNone ==
    ASSUME NEW ss
    PROVE  Offset(ss, 0) = 0
  <1>1. SubSeq(ss, 1, 0) = <<>>
    <2> 1 \in Int /\ 0 \in Int /\ 0 < 1
      OBVIOUS
    <2> QED
      BY SubSeqEmpty
  <1>2. Len(<<>>) = 0
    OBVIOUS
  <1> QED
    BY <1>1, <1>2, FlattenSeqOfNone DEF Offset

(* The last piece ends at the end.                                          *)
LEMMA OffsetOfAll ==
    ASSUME NEW X, NEW ss \in Seq(Seq(X))
    PROVE  Offset(ss, Len(ss)) = Len(FlattenSeq(ss))
  BY SubSeqFull DEF Offset

(* A piece of a sequence stays where it is when more is appended.           *)
LEMMA PieceStays ==
    ASSUME NEW X, NEW a \in Seq(X), NEW b \in Seq(X), NEW c \in Seq(X), NEW k \in Nat,
           k + Len(c) <= Len(a), \A i \in 1 .. Len(c) : a[k + i] = c[i]
    PROVE  /\ k + Len(c) <= Len(a \o b)
           /\ \A i \in 1 .. Len(c) : (a \o b)[k + i] = c[i]
  OBVIOUS

(* What is appended lies after what was there.                              *)
LEMMA PieceFollows ==
    ASSUME NEW X, NEW a \in Seq(X), NEW b \in Seq(X)
    PROVE  /\ Len(a) + Len(b) <= Len(a \o b)
           /\ \A i \in 1 .. Len(b) : (a \o b)[Len(a) + i] = b[i]
  OBVIOUS

(* Where the pieces of a flattened sequence are.                            *)
LEMMA PiecesLie ==
    ASSUME NEW X, NEW ss \in Seq(Seq(X)), NEW n \in 0 .. Len(ss) - 1
    PROVE  /\ Offset(ss, n + 1) <= Len(FlattenSeq(ss))
           /\ \A i \in 1 .. Len(ss[n + 1]) : FlattenSeq(ss)[Offset(ss, n) + i] = ss[n + 1][i]
  <1> DEFINE flat(m) == FlattenSeq(SubSeq(ss, 1, m))
             T == {m \in Nat : n < m /\ m <= Len(ss) =>
                      /\ flat(m) \in Seq(X)
                      /\ Offset(ss, n + 1) <= Len(flat(m))
                      /\ \A i \in 1 .. Len(ss[n + 1]) : flat(m)[Offset(ss, n) + i] = ss[n + 1][i]}
  <1>1. 0 \in T
    OBVIOUS
  <1>2. ASSUME NEW m \in Nat, m \in T
        PROVE  m + 1 \in T
    <2> SUFFICES ASSUME n < m + 1, m + 1 <= Len(ss)
                 PROVE  /\ flat(m + 1) \in Seq(X)
                        /\ Offset(ss, n + 1) <= Len(flat(m + 1))
                        /\ \A i \in 1 .. Len(ss[n + 1]) :
                              flat(m + 1)[Offset(ss, n) + i] = ss[n + 1][i]
      OBVIOUS
    <2>1. m \in 0 .. Len(ss) - 1
      OBVIOUS
    <2>2. flat(m + 1) = flat(m) \o ss[m + 1] /\ flat(m) \in Seq(X) /\ ss[m + 1] \in Seq(X)
      BY <2>1, FlattenOneMore
    <2>3. Offset(ss, n) \in Nat /\ Offset(ss, n + 1) = Offset(ss, n) + Len(ss[n + 1])
      BY OffsetOneMore
    <2>4. ss[n + 1] \in Seq(X)
      BY FlattenOneMore
    <2> HIDE DEF flat, T
    <2>5. flat(m + 1) \in Seq(X)
      BY <2>2, ConcatProperties, Zenon
    <2>6. CASE m = n
      <3>1. Len(flat(m)) = Offset(ss, n)
        BY <2>6 DEF Offset, flat
      <3>2. /\ Len(flat(m)) + Len(ss[m + 1]) <= Len(flat(m) \o ss[m + 1])
            /\ \A i \in 1 .. Len(ss[m + 1]) :
                  (flat(m) \o ss[m + 1])[Len(flat(m)) + i] = ss[m + 1][i]
        BY <2>2, PieceFollows, Zenon
      <3> QED
        BY <2>2, <2>3, <2>5, <2>6, <3>1, <3>2, Zenon
    <2>7. CASE m # n
      <3>1. /\ Offset(ss, n) + Len(ss[n + 1]) <= Len(flat(m))
            /\ \A i \in 1 .. Len(ss[n + 1]) : flat(m)[Offset(ss, n) + i] = ss[n + 1][i]
        <4> n < m /\ m <= Len(ss)
          BY <2>7
        <4> QED
          BY <1>2, <2>3 DEF flat, T
      <3>2. /\ Offset(ss, n) + Len(ss[n + 1]) <= Len(flat(m) \o ss[m + 1])
            /\ \A i \in 1 .. Len(ss[n + 1]) :
                  (flat(m) \o ss[m + 1])[Offset(ss, n) + i] = ss[n + 1][i]
        <4>1. PICK a, b, c, k : a = flat(m) /\ b = ss[m + 1] /\ c = ss[n + 1] /\ k = Offset(ss, n)
          OBVIOUS
        <4>2. /\ a \in Seq(X) /\ b \in Seq(X) /\ c \in Seq(X) /\ k \in Nat
              /\ k + Len(c) <= Len(a) /\ \A i \in 1 .. Len(c) : a[k + i] = c[i]
          BY <2>2, <2>3, <2>4, <3>1, <4>1, Zenon
        <4>3. k + Len(c) <= Len(a \o b) /\ \A i \in 1 .. Len(c) : (a \o b)[k + i] = c[i]
          BY <4>2, PieceStays
        <4> QED
          BY <4>1, <4>3, Zenon
      <3> QED
        BY <2>2, <2>3, <2>5, <3>2, Zenon
    <2> QED
      BY <2>6, <2>7
  <1>3. \A m \in Nat : m \in T
    <2> HIDE DEF T
    <2> QED
      BY <1>1, <1>2, Induction
  <1>4. Len(ss) \in T /\ n < Len(ss)
    BY <1>3
  <1>5. flat(Len(ss)) = FlattenSeq(ss)
    BY SubSeqFull
  <1> QED
    BY <1>4, <1>5

------------------------------------------------------------------------------
(* Types, and the walk down the properties.                                 *)

(* The types, with what an accepted path has: a key, and one to follow as   *)
(* long as its property is looked up.                                       *)
PathInv ==
    /\ PathTypeOK
    /\ parse = "accepted" => keys # <<>>
    /\ Looking => depth < Len(keys)
    /\ parse # "accepted" => depth = 0 /\ found = NotLooked
    /\ FindsWhatIsNamed

(* At first nothing has been read or looked up.                             *)
LEMMA PathInitially == PathInit => PathInv
  <1> SUFFICES ASSUME NEW u \in Use, NEW c \in Configured, PathStart(u, c) PROVE PathInv
    BY DEF PathInit
  <1>1. path \in Seq(Char) /\ meant \in Seq(Seq(Char))
    BY PathsAreText DEF PathStart
  <1>2. at \in 1 .. Len(path) + 1
    BY <1>1 DEF PathStart
  <1>3. parse \in {"verbatim", "segment"}
    BY DEF PathStart
  <1>4. /\ use \in Use /\ keys = <<>> /\ key = <<>> /\ afterDot = FALSE
        /\ depth = 0 /\ found = NotLooked
    BY DEF PathStart
  <1>5. keys \in Seq(Seq(Char)) /\ key \in Seq(Char) /\ Len(keys) = 0
    BY <1>4, EmptySeq
  <1>6. depth \in 0 .. Len(keys) /\ afterDot \in BOOLEAN
    <2>1. 0 \in 0 .. 0 /\ FALSE \in BOOLEAN
      OBVIOUS
    <2> QED
      BY <1>4, <1>5, <2>1, Zenon
  <1>7. PathTypeOK
    BY <1>1, <1>2, <1>3, <1>4, <1>5, <1>6, Zenon DEF PathTypeOK
  <1> QED
    BY <1>3, <1>4, <1>7 DEF PathInv, Looking, FindsWhatIsNamed

(* A sequence and one element more is a sequence, and not empty.            *)
LEMMA SequenceGrows ==
    ASSUME NEW X, NEW s \in Seq(X), NEW e \in X
    PROVE  /\ Append(s, e) \in Seq(X) /\ Append(s, e) # <<>>
           /\ Len(s) \in Nat /\ Len(Append(s, e)) = Len(s) + 1
  OBVIOUS

(* A key that is through leaves the parser within the path.                 *)
LEMMA KeysAreTyped ==
    ASSUME PathInv, parse # "accepted", NEW next \in 1 .. Len(path) + 1, EndKey(next)
    PROVE  PathInv'
  <1>1. /\ use \in Use /\ path \in Seq(Char) /\ meant \in Seq(Seq(Char))
        /\ keys \in Seq(Seq(Char)) /\ key \in Seq(Char) /\ depth = 0 /\ found = NotLooked
    BY DEF PathInv, PathTypeOK
  <1>2. /\ keys' = Append(keys, key) /\ key' = <<>> /\ at' = AfterKey(next)
        /\ afterDot' \in BOOLEAN /\ parse' \in {"accepted", "segment", "refused"}
        /\ UNCHANGED <<use, path, meant, depth, found>>
    BY DEF EndKey, configVars, lookVars
  <1>3. at' \in 1 .. Len(path) + 1
    BY <1>1, <1>2 DEF AfterKey
  <1>4. keys' \in Seq(Seq(Char)) /\ keys' # <<>> /\ Len(keys') = Len(keys) + 1 /\ Len(keys) \in Nat
    BY <1>1, <1>2, SequenceGrows, Zenon
  <1> QED
    BY <1>1, <1>2, <1>3, <1>4 DEF PathInv, PathTypeOK, Looking, FindsWhatIsNamed

(* A key that is read grows by characters of the path.                      *)
LEMMA CharactersAreTyped ==
    ASSUME PathInv, parse \in {"name", "quoted"}, NEW n \in 1 .. Len(path), NEW m \in {1, 2},
           key' = Append(key, path[n]), at' = at + m, at + m <= Len(path) + 1,
           UNCHANGED <<configVars, keys, afterDot, parse, lookVars>>
    PROVE  PathInv'
  <1>1. /\ path \in Seq(Char) /\ key \in Seq(Char) /\ at \in 1 .. Len(path) + 1
    BY DEF PathInv, PathTypeOK
  <1>2. path[n] \in Char /\ key' \in Seq(Char) /\ at' \in 1 .. Len(path) + 1
    BY <1>1
  <1> QED
    BY <1>2 DEF PathInv, PathTypeOK, Looking, FindsWhatIsNamed, configVars, lookVars

(* So does a step that takes note of a mark, or refuses the path.           *)
LEMMA MarksAreTyped ==
    ASSUME PathInv, parse # "accepted", parse' \in {"name", "quoted", "refused"},
           at' \in 1 .. Len(path) + 1, UNCHANGED <<configVars, keys, key, afterDot, lookVars>>
    PROVE  PathInv'
  BY DEF PathInv, PathTypeOK, Looking, FindsWhatIsNamed, configVars, lookVars

(* The walk stops at what the keys lead to, if they lead to anything: above *)
(* it there are only containers.                                            *)
LEMMA WalkFinds ==
    ASSUME PathInv, Descend
    PROVE  PathInv'
  <1> DEFINE next == depth + 1
  <1>1. /\ keys \in Seq(Seq(Char)) /\ depth \in 0 .. Len(keys) - 1 /\ Len(keys) \in Nat
        /\ Looking /\ depth' = next
        /\ UNCHANGED <<use, path, meant, at, keys, key, afterDot, parse>>
    BY DEF PathInv, PathTypeOK, Descend, configVars
  <1>2. found' = IF next = Len(keys) \/ Child(depth) \notin Containers
                 THEN IF next < Len(keys) THEN "nil" ELSE Child(depth)
                 ELSE NotLooked
    BY DEF Descend
  <1>3. Child(depth) = IF SubSeq(keys, 1, next) \in DOMAIN PropertyAt
                       THEN PropertyAt[SubSeq(keys, 1, next)] ELSE "nil"
    BY DEF Child, Node
  <1>4. Child(depth) # NotLooked
    BY <1>3, PropertiesAreTree DEF NotLooked
  <1>5. CASE next = Len(keys)
    <2>1. SubSeq(keys, 1, next) = keys
      BY <1>1, <1>5
    <2>2. found' = IF keys \in DOMAIN PropertyAt THEN PropertyAt[keys] ELSE "nil"
      <3>1. found' = Child(depth)
        BY <1>1, <1>2, <1>5
      <3> QED
        BY <1>3, <2>1, <3>1, Zenon
    <2>3. found' # NotLooked
      BY <1>2, <1>4, <1>5
    <2> QED
      BY <1>1, <1>5, <2>2, <2>3 DEF PathInv, PathTypeOK, Looking, FindsWhatIsNamed
  <1>6. CASE next # Len(keys) /\ Child(depth) \in Containers
    <2>1. found' = NotLooked
      BY <1>2, <1>6
    <2> QED
      BY <1>1, <1>6, <2>1 DEF PathInv, PathTypeOK, Looking, FindsWhatIsNamed
  <1>7. CASE next # Len(keys) /\ Child(depth) \notin Containers
    <2>1. next < Len(keys) /\ next \in 0 .. Len(keys) - 1
      BY <1>1, <1>7
    <2>2. found' = "nil"
      BY <1>2, <1>7, <2>1
    <2>3. keys \notin DOMAIN PropertyAt
      BY <1>3, <1>7, <2>1, PropertiesAreTree
    <2> QED
      BY <1>1, <2>1, <2>2, <2>3 DEF PathInv, PathTypeOK, Looking, FindsWhatIsNamed, NotLooked
  <1> QED
    BY <1>5, <1>6, <1>7

(* Every step of the parser and of the walk preserves the invariant.        *)
THEOREM PathInvariant == PathSpec => []PathInv
  <1>1. PathInv /\ [PathNext]_pathVars => PathInv'
    <2> SUFFICES ASSUME PathInv, [PathNext]_pathVars
                 PROVE  PathInv'
      OBVIOUS
    <2>1. path \in Seq(Char) /\ Len(path) \in Nat /\ at \in 1 .. Len(path) + 1
      BY DEF PathInv, PathTypeOK
    <2>2. CASE BeginName
      BY <2>1, <2>2, MarksAreTyped DEF BeginName
    <2>3. CASE ReadName
      <3>1. at \in 1 .. Len(path) /\ at + 1 <= Len(path) + 1
        BY <2>1, <2>3 DEF ReadName, PartOfName, More
      <3> QED
        BY <2>3, <3>1, CharactersAreTyped DEF ReadName
    <2>4. CASE EndName
      BY <2>1, <2>4, KeysAreTyped DEF EndName
    <2>5. CASE BeginBracket
      <3>1. at + 2 \in 1 .. Len(path) + 1
        BY <2>1, <2>5 DEF BeginBracket, Follows
      <3> QED
        BY <2>5, <3>1, MarksAreTyped DEF BeginBracket
    <2>6. CASE ReadQuoted
      <3>1. at \in 1 .. Len(path) /\ at + 1 <= Len(path) + 1
        BY <2>1, <2>6 DEF ReadQuoted, More
      <3> QED
        BY <2>6, <3>1, CharactersAreTyped DEF ReadQuoted
    <2>7. CASE ReadEscape
      <3>1. at + 1 \in 1 .. Len(path) /\ at + 2 <= Len(path) + 1
        BY <2>1, <2>7 DEF ReadEscape, More, Follows
      <3> QED
        BY <2>7, <3>1, CharactersAreTyped DEF ReadEscape
    <2>8. CASE EndQuoted
      <3>1. at + 2 \in 1 .. Len(path) + 1
        BY <2>1, <2>8 DEF EndQuoted, Follows
      <3> QED
        BY <2>8, <3>1, KeysAreTyped DEF EndQuoted
    <2>9. CASE Refuse
      <3>1. parse # "accepted"
        BY <2>9 DEF Refuse
      <3> QED
        BY <2>1, <2>9, <3>1, MarksAreTyped DEF Refuse
    <2>10. CASE Descend
      BY <2>10, WalkFinds
    <2>11. CASE UNCHANGED pathVars
      BY <2>11 DEF PathInv, PathTypeOK, Looking, FindsWhatIsNamed, pathVars, configVars, lookVars
    <2> QED
      BY <2>2, <2>3, <2>4, <2>5, <2>6, <2>7, <2>8, <2>9, <2>10, <2>11 DEF PathNext, PathDone
  <1> QED
    BY <1>1, PathInitially, PTL DEF PathSpec

(* The parser's variables keep their types, and it never reads past the end *)
(* of the path (router.go:368-483).                                         *)
THEOREM PathKeepsTypes == PathSpec => []PathTypeOK
  <1>1. PathInv => PathTypeOK
    BY DEF PathInv
  <1> QED
    BY <1>1, PathInvariant, PTL

(* For any tree of properties and any path, what is looked up is found      *)
(* exactly when the tree has it (getNestedProperty, router.go:488-559).     *)
THEOREM LookupIsExact == PathSpec => []FindsWhatIsNamed
  <1>1. PathInv => FindsWhatIsNamed
    BY DEF PathInv
  <1> QED
    BY <1>1, PathInvariant, PTL

------------------------------------------------------------------------------
(* How keys are spelled.                                                    *)

(* The spellings of the keys of a path, which the path consists of, and of  *)
(* the characters of a key in brackets.                                     *)
Segments(ks, inBrackets) == [n \in 1 .. Len(ks) |-> Spelled(ks[n], inBrackets[n], n = 1)]
EscapedChars(k) == [n \in 1 .. Len(k) |-> Escaped(k[n])]

(* The marks are characters.                                                *)
LEMMA MarksAreChars == Mark \subseteq Char
  BY DEF Char

(* Text is put together in any order.                                       *)
LEMMA TextIsAssociative == \A s, t, u \in Seq(Char) : (s \o t) \o u = s \o (t \o u)
  BY ConcatAssociative

(* A character is escaped by one or two characters.                         *)
LEMMA EscapedType ==
    ASSUME NEW c \in Char
    PROVE  Escaped(c) \in Seq(Char) /\ Len(Escaped(c)) \in {1, 2}
  BY MarksAreChars DEF Escaped, Mark

(* Sequences made from functions. *)
LEMMA EscapesType ==
    ASSUME NEW k \in Seq(Char)
    PROVE  EscapedChars(k) \in Seq(Seq(Char)) /\ Len(EscapedChars(k)) = Len(k)
  <1>1. PICK n \in Nat : n = Len(k)
    OBVIOUS
  <1>2. \A i \in 1 .. n : Escaped(k[i]) \in Seq(Char)
    BY <1>1, EscapedType
  <1>3. EscapedChars(k) \in [1 .. n -> Seq(Char)]
    BY <1>1, <1>2, Zenon DEF EscapedChars
  <1> QED
    BY <1>1, <1>3

(* A key that is escaped is text.                                           *)
LEMMA EscapeType ==
    ASSUME NEW k \in Seq(Char)
    PROVE  Escape(k) \in Seq(Char)
  <1>1. FlattenSeq(EscapedChars(k)) \in Seq(Char)
    BY EscapesType, FlattenSeqType
  <1> QED
    BY <1>1 DEF Escape, EscapedChars

(* A key is escaped character by character.                                 *)
LEMMA EscapeGrows ==
    ASSUME NEW k \in Seq(Char), NEW c \in Char
    PROVE  Escape(Append(k, c)) = Escape(k) \o Escaped(c)
  <1>1. PICK n \in Nat : n = Len(k)
    OBVIOUS
  <1>2. EscapedChars(Append(k, c)) = Append(EscapedChars(k), Escaped(c))
    <2>1. /\ Len(Append(k, c)) = n + 1 /\ Append(k, c)[n + 1] = c
          /\ \A i \in 1 .. n : Append(k, c)[i] = k[i]
      BY <1>1
    <2>2. \A i \in 1 .. n + 1 : EscapedChars(Append(k, c))[i] = Escaped(Append(k, c)[i])
      BY <2>1 DEF EscapedChars
    <2>3. \A i \in 1 .. n : EscapedChars(k)[i] = Escaped(k[i])
      BY <1>1 DEF EscapedChars
    <2>4. /\ EscapedChars(k) \in Seq(Seq(Char)) /\ Len(EscapedChars(k)) = n
          /\ EscapedChars(Append(k, c)) \in Seq(Seq(Char))
          /\ Len(EscapedChars(Append(k, c))) = n + 1
          /\ Escaped(c) \in Seq(Char)
      <3>1. Append(k, c) \in Seq(Char)
        OBVIOUS
      <3> QED
        BY <1>1, <2>1, <3>1, EscapesType, EscapedType
    <2>5. PICK ss, tt, e : ss = EscapedChars(k) /\ tt = EscapedChars(Append(k, c)) /\ e = Escaped(c)
      OBVIOUS
    <2>6. tt[n + 1] = e /\ \A i \in 1 .. n : tt[i] = ss[i]
      BY <2>1, <2>2, <2>3, <2>5
    <2>7. /\ ss \in Seq(Seq(Char)) /\ Len(ss) = n /\ tt \in Seq(Seq(Char)) /\ Len(tt) = n + 1
          /\ e \in Seq(Char)
      BY <2>4, <2>5, Zenon
    <2>8. tt = Append(ss, e)
      BY <2>6, <2>7, OneMoreIsAppended
    <2> QED
      BY <2>5, <2>8
  <1>3. FlattenSeq(Append(EscapedChars(k), Escaped(c))) = FlattenSeq(EscapedChars(k)) \o Escaped(c)
    BY EscapesType, EscapedType, FlattenSeqAppend
  <1>4. /\ Escape(k) = FlattenSeq(EscapedChars(k))
        /\ Escape(Append(k, c)) = FlattenSeq(EscapedChars(Append(k, c)))
    BY DEF Escape, EscapedChars
  <1> QED
    BY <1>2, <1>3, <1>4

(* A key that is spelled is text.                                           *)
LEMMA SpelledType ==
    ASSUME NEW k \in Seq(Char), NEW x \in BOOLEAN, NEW first \in BOOLEAN
    PROVE  Spelled(k, x, first) \in Seq(Char)
  <1>1. /\ <<"open", "quote">> \in Seq(Char) /\ <<"quote", "close">> \in Seq(Char)
        /\ <<"dot">> \in Seq(Char)
    BY MarksAreChars DEF Mark
  <1> QED
    BY <1>1, EscapeType DEF Spelled

(* The spellings of keys are as many as the keys.                           *)
LEMMA SegmentsType ==
    ASSUME NEW ks \in Seq(Seq(Char)), NEW b \in [1 .. Len(ks) -> BOOLEAN]
    PROVE  Segments(ks, b) \in Seq(Seq(Char)) /\ Len(Segments(ks, b)) = Len(ks)
  <1>1. PICK n \in Nat : n = Len(ks)
    OBVIOUS
  <1>2. \A i \in 1 .. n : ks[i] \in Seq(Char) /\ b[i] \in BOOLEAN /\ (i = 1) \in BOOLEAN
    BY <1>1
  <1>3. \A i \in 1 .. n : Spelled(ks[i], b[i], i = 1) \in Seq(Char)
    BY <1>2, SpelledType
  <1>4. Segments(ks, b) \in [1 .. n -> Seq(Char)]
    BY <1>1, <1>3, Zenon DEF Segments
  <1> QED
    BY <1>1, <1>4, FunctionIsSequence, Zenon

(* Keys that are spelled are text.                                          *)
LEMMA SpelledPathType ==
    ASSUME NEW ks \in Seq(Seq(Char)), NEW b \in [1 .. Len(ks) -> BOOLEAN]
    PROVE  SpelledPath(ks, b) \in Seq(Char)
  <1>1. FlattenSeq(Segments(ks, b)) \in Seq(Char)
    BY SegmentsType, FlattenSeqType
  <1> QED
    BY <1>1 DEF SpelledPath, Segments

(* One more key makes a path one piece longer.                              *)
KeyFollows(ks, b, k, x) ==
    /\ Append(b, x) \in [1 .. Len(Append(ks, k)) -> BOOLEAN]
    /\ SpelledPath(Append(ks, k), Append(b, x)) = SpelledPath(ks, b) \o Spelled(k, x, ks = <<>>)

(* A path of one key more is the path so far and the spelling of that key.  *)
LEMMA SpelledPathGrows ==
    ASSUME NEW ks \in Seq(Seq(Char)), NEW b \in [1 .. Len(ks) -> BOOLEAN],
           NEW k \in Seq(Char), NEW x \in BOOLEAN
    PROVE  KeyFollows(ks, b, k, x)
  <1>1. PICK n \in Nat : n = Len(ks)
    OBVIOUS
  <1>2. PICK ls, d : ls = Append(ks, k) /\ d = Append(b, x)
    OBVIOUS
  <1>3. /\ ls \in Seq(Seq(Char)) /\ Len(ls) = n + 1 /\ ls[n + 1] = k
        /\ \A i \in 1 .. n : ls[i] = ks[i]
    BY <1>1, <1>2, AppendProperties
  <1>4. d \in [1 .. n + 1 -> BOOLEAN] /\ d[n + 1] = x /\ \A i \in 1 .. n : d[i] = b[i]
    <2>1. b \in Seq(BOOLEAN) /\ Len(b) = n
      BY <1>1, FunctionIsSequence
    <2>2. /\ d \in Seq(BOOLEAN) /\ Len(d) = n + 1 /\ d[n + 1] = x
          /\ \A i \in 1 .. n : d[i] = b[i]
      BY <1>2, <2>1, AppendProperties
    <2> QED
      BY <2>2, LenProperties
  <1>5. PICK ss, tt, e : ss = Segments(ks, b) /\ tt = Segments(ls, d) /\ e = Spelled(k, x, n = 0)
    OBVIOUS
  <1>6. /\ ss \in Seq(Seq(Char)) /\ Len(ss) = n /\ tt \in Seq(Seq(Char)) /\ Len(tt) = n + 1
        /\ e \in Seq(Char)
    <2>1. d \in [1 .. Len(ls) -> BOOLEAN] /\ (n = 0) \in BOOLEAN
      BY <1>3, <1>4, Zenon
    <2>2. ss \in Seq(Seq(Char)) /\ Len(ss) = n
      BY <1>1, <1>5, SegmentsType
    <2>3. tt \in Seq(Seq(Char)) /\ Len(tt) = n + 1
      BY <1>3, <1>5, <2>1, SegmentsType
    <2>4. e \in Seq(Char)
      BY <1>5, <2>1, SpelledType, Zenon
    <2> QED
      BY <2>2, <2>3, <2>4
  <1>7. \A i \in 1 .. n : tt[i] = ss[i]
    <2>1. \A i \in 1 .. n : tt[i] = Spelled(ls[i], d[i], i = 1)
      BY <1>3, <1>5 DEF Segments
    <2>2. \A i \in 1 .. n : ss[i] = Spelled(ks[i], b[i], i = 1)
      BY <1>1, <1>5 DEF Segments
    <2> TAKE i \in 1 .. n
    <2>3. tt[i] = Spelled(ls[i], d[i], i = 1) /\ ss[i] = Spelled(ks[i], b[i], i = 1)
      BY <2>1, <2>2
    <2>4. ls[i] = ks[i] /\ d[i] = b[i]
      BY <1>3, <1>4
    <2> QED
      BY <2>3, <2>4, Zenon
  <1>8. tt[n + 1] = e
    <2>1. tt[n + 1] = Spelled(ls[n + 1], d[n + 1], n + 1 = 1)
      BY <1>3, <1>5 DEF Segments
    <2>2. (n + 1 = 1) = (n = 0)
      OBVIOUS
    <2> QED
      BY <2>1, <2>2, <1>3, <1>4, <1>5, Zenon
  <1>9. tt = Append(ss, e)
    BY <1>6, <1>7, <1>8, OneMoreIsAppended
  <1>10. FlattenSeq(tt) = FlattenSeq(ss) \o e
    BY <1>6, <1>9, FlattenSeqAppend
  <1>11. SpelledPath(ls, d) = FlattenSeq(tt) /\ SpelledPath(ks, b) = FlattenSeq(ss)
    BY <1>5, Zenon DEF SpelledPath, Segments
  <1>12. (n = 0) = (ks = <<>>)
    BY <1>1, EmptySeq
  <1>13. SpelledPath(ls, d) = SpelledPath(ks, b) \o Spelled(k, x, ks = <<>>)
    BY <1>5, <1>10, <1>11, <1>12, Zenon
  <1>14. d \in [1 .. Len(ls) -> BOOLEAN]
    BY <1>3, <1>4, Zenon
  <1> QED
    BY <1>2, <1>13, <1>14, Zenon DEF KeyFollows

------------------------------------------------------------------------------
(* What is accepted is a spelling.                                          *)

(* What has been written of the key that is being read, and the dot before  *)
(* it.                                                                      *)
Pending ==
    IF parse = "quoted" THEN <<"open", "quote">> \o Escape(key)
    ELSE (IF afterDot THEN <<"dot">> ELSE <<>>) \o key

(* Keys that may be spelled with these of them in brackets.                 *)
MaySpell(ks, inBrackets) ==
    /\ ks # <<>> => ~inBrackets[1]
    /\ \A n \in 1 .. Len(ks) : ks[n] # <<>> /\ (inBrackets[n] \/ IsName(ks[n]))

(* As far as it has been read, the path is a spelling of the keys.          *)
SpelledSoFar(b) ==
    /\ SubSeq(path, 1, at - 1) = SpelledPath(keys, b) \o Pending
    /\ MaySpell(keys, b)

(* Whatever has been read is such a spelling; at the start of a segment a   *)
(* bracket follows unless a dot was read, and a key that has been begun has *)
(* the mark before it that its place calls for.                             *)
SpellingInv ==
    /\ PathInv
    /\ parse \notin {"refused", "verbatim"} =>
          \E b \in [1 .. Len(keys) -> BOOLEAN] : SpelledSoFar(b)
    /\ parse = "accepted" => at = Len(path) + 1 /\ ~afterDot /\ key = <<>>
    /\ parse = "segment" =>
          /\ key = <<>> /\ (afterDot => keys # <<>>)
          /\ keys # <<>> /\ ~afterDot => More /\ path[at] = "open"
    /\ parse = "name" => (afterDot <=> keys # <<>>) /\ IsName(key) /\ (key = <<>> => PartOfName)
    /\ parse = "quoted" => keys # <<>>

(* The path read so far, one character on.                                  *)
LEMMA PrefixGrows ==
    ASSUME NEW X, NEW s \in Seq(X), NEW n \in 0 .. Len(s) - 1
    PROVE  /\ SubSeq(s, 1, n + 1) = SubSeq(s, 1, n) \o <<s[n + 1]>>
           /\ SubSeq(s, 1, n) \in Seq(X) /\ s[n + 1] \in X
  <1>1. n + 1 \in 1 .. Len(s) /\ n + 1 - 1 = n /\ 1 \in 1 .. Len(s)
    OBVIOUS
  <1> QED
    BY <1>1, SubSeqRecursiveSecond

(* A name is one as long as no mark is appended to it.                      *)
LEMMA NameGrows ==
    ASSUME NEW k \in Seq(Char), NEW c \in Char
    PROVE  IsName(Append(k, c)) <=> IsName(k) /\ c \notin {"dot", "open"}
  <1>1. PICK n \in Nat : n = Len(k)
    OBVIOUS
  <1>2. /\ Len(Append(k, c)) = n + 1 /\ Append(k, c)[n + 1] = c
        /\ \A i \in 1 .. n : Append(k, c)[i] = k[i]
    BY <1>1
  <1>3. \A m : Contains(Append(k, c), m) <=> Contains(k, m) \/ c = m
    BY <1>1, <1>2 DEF Contains
  <1> QED
    BY <1>3 DEF IsName

(* What has been written of a key is text.                                  *)
LEMMA PendingType ==
    ASSUME PathTypeOK
    PROVE  Pending \in Seq(Char)
  <1>1. <<"open", "quote">> \in Seq(Char) /\ <<"dot">> \in Seq(Char)
    BY MarksAreChars DEF Mark
  <1>2. key \in Seq(Char) /\ Escape(key) \in Seq(Char)
    BY EscapeType DEF PathTypeOK
  <1> QED
    BY <1>1, <1>2 DEF Pending

(* A character that is read is written, too.                                *)
LEMMA CharacterIsSpelled ==
    ASSUME SpellingInv, PathInv', parse \in {"segment", "name", "quoted"},
           parse' \in {"name", "quoted"},
           UNCHANGED <<path, keys>>,
           NEW more \in Seq(Char),
           SubSeq(path, 1, at' - 1) = SubSeq(path, 1, at - 1) \o more,
           Pending' = Pending \o more,
           parse' = "name" => (afterDot' <=> keys # <<>>) /\ IsName(key')
                                /\ (key' = <<>> => PartOfName'),
           parse' = "quoted" => keys # <<>>
    PROVE  SpellingInv'
  <1>1. PICK b \in [1 .. Len(keys) -> BOOLEAN] : SpelledSoFar(b)
    BY DEF SpellingInv
  <1>2. keys \in Seq(Seq(Char)) /\ SpelledPath(keys, b) \in Seq(Char) /\ Pending \in Seq(Char)
    BY SpelledPathType, PendingType DEF SpellingInv, PathInv, PathTypeOK
  <1>3. (SpelledPath(keys, b) \o Pending) \o more = SpelledPath(keys, b) \o (Pending \o more)
    <2>1. PICK s, t : s = SpelledPath(keys, b) /\ t = Pending
      OBVIOUS
    <2>2. s \in Seq(Char) /\ t \in Seq(Char)
      BY <1>2, <2>1
    <2>3. (s \o t) \o more = s \o (t \o more)
      BY <2>2, TextIsAssociative, Zenon
    <2> QED
      BY <2>1, <2>3
  <1>4. SubSeq(path, 1, at' - 1) = SpelledPath(keys, b) \o Pending'
    BY <1>1, <1>3 DEF SpelledSoFar
  <1>5. SpelledSoFar(b)'
    BY <1>1, <1>4 DEF SpelledSoFar, MaySpell
  <1>6. b \in [1 .. Len(keys') -> BOOLEAN]
    OBVIOUS
  <1> QED
    BY <1>5, <1>6 DEF SpellingInv

(* BeginName reads nothing.                                                 *)
LEMMA NameIsBegun ==
    ASSUME SpellingInv, PathInv', BeginName
    PROVE  SpellingInv'
  <1>1. /\ parse = "segment" /\ parse' = "name" /\ PartOfName
        /\ UNCHANGED <<path, at, keys, key, afterDot>>
    BY DEF BeginName, configVars
  <1>2. /\ path \in Seq(Char) /\ at \in 1 .. Len(path) + 1 /\ key = <<>>
        /\ (afterDot => keys # <<>>)
        /\ keys # <<>> /\ ~afterDot => path[at] = "open"
    BY <1>1 DEF SpellingInv, PathInv, PathTypeOK
  <1>3. afterDot <=> keys # <<>>
    BY <1>1, <1>2 DEF PartOfName
  <1>4. IsName(key)
    BY <1>2 DEF IsName, Contains
  <1>5. <<>> \in Seq(Char) /\ SubSeq(path, 1, at - 1) \in Seq(Char)
    BY <1>2
  <1>6. Pending \in Seq(Char)
    BY PendingType DEF SpellingInv, PathInv
  <1>7. Pending' = Pending
    BY <1>1 DEF Pending
  <1>8. Pending' = Pending \o <<>> /\ SubSeq(path, 1, at' - 1) = SubSeq(path, 1, at - 1) \o <<>>
    BY <1>1, <1>5, <1>6, <1>7, ConcatEmptySeq
  <1>9. PartOfName'
    BY <1>1 DEF PartOfName, More
  <1> QED
    BY <1>1, <1>3, <1>4, <1>5, <1>8, <1>9, CharacterIsSpelled

(* ReadName: a character of a name is written as it is.                     *)
LEMMA NameIsRead ==
    ASSUME SpellingInv, PathInv', ReadName
    PROVE  SpellingInv'
  <1>1. /\ parse = "name" /\ parse' = "name" /\ PartOfName /\ at' = at + 1
        /\ key' = Append(key, path[at]) /\ UNCHANGED <<path, keys, afterDot>>
    BY DEF ReadName, configVars
  <1>2. /\ path \in Seq(Char) /\ at \in 1 .. Len(path) + 1 /\ key \in Seq(Char)
        /\ (afterDot <=> keys # <<>>) /\ IsName(key)
    BY <1>1 DEF SpellingInv, PathInv, PathTypeOK
  <1>3. at - 1 \in 0 .. Len(path) - 1 /\ at - 1 + 1 = at /\ at' - 1 = at
        /\ path[at] \notin {"dot", "open"}
    BY <1>1, <1>2 DEF PartOfName, More
  <1>4. PICK c : c = path[at]
    OBVIOUS
  <1>5. c \in Char /\ SubSeq(path, 1, at) = SubSeq(path, 1, at - 1) \o <<c>>
    BY <1>2, <1>3, <1>4, PrefixGrows
  <1>6. IsName(key') /\ key' # <<>>
    <2>1. key' = Append(key, c) /\ c \notin {"dot", "open"}
      BY <1>1, <1>3, <1>4
    <2>2. IsName(Append(key, c)) /\ Append(key, c) # <<>>
      BY <1>2, <1>5, <2>1, NameGrows, SequenceGrows, Zenon
    <2> QED
      BY <2>1, <2>2, Zenon
  <1>7. <<"dot">> \in Seq(Char)
    BY MarksAreChars DEF Mark
  <1>8. Pending' = Pending \o <<c>>
    <2>1. PICK d : d = IF afterDot THEN <<"dot">> ELSE <<>>
      OBVIOUS
    <2>2. d \in Seq(Char)
      BY <1>7, <2>1
    <2>3. Pending = d \o key /\ Pending' = d \o Append(key, c)
      BY <1>1, <1>4, <2>1 DEF Pending
    <2>4. Append(key, c) = key \o <<c>> /\ <<c>> \in Seq(Char)
      BY <1>2, <1>5, AppendIsConcat
    <2>5. (d \o key) \o <<c>> = d \o (key \o <<c>>)
      BY <1>2, <2>2, <2>4, TextIsAssociative, Zenon
    <2> QED
      BY <2>3, <2>4, <2>5
  <1>9. <<c>> \in Seq(Char)
    BY <1>5
  <1> QED
    BY <1>1, <1>2, <1>3, <1>5, <1>6, <1>8, <1>9, CharacterIsSpelled

(* What a character in brackets is spelled as is appended to the brackets'. *)
LEMMA QuotedGrows ==
    ASSUME NEW k \in Seq(Char), NEW c \in Char
    PROVE  /\ <<"open", "quote">> \o Escape(Append(k, c)) =
                  (<<"open", "quote">> \o Escape(k)) \o Escaped(c)
           /\ Escaped(c) \in Seq(Char)
  <1>1. Escape(Append(k, c)) = Escape(k) \o Escaped(c)
    BY EscapeGrows
  <1>2. PICK s, t, u : s = <<"open", "quote">> /\ t = Escape(k) /\ u = Escaped(c)
    OBVIOUS
  <1>3. s \in Seq(Char) /\ t \in Seq(Char) /\ u \in Seq(Char)
    <2>1. <<"open", "quote">> \in Seq(Char)
      BY MarksAreChars DEF Mark
    <2> QED
      BY <1>2, <2>1, EscapeType, EscapedType, Zenon
  <1>4. (s \o t) \o u = s \o (t \o u)
    BY <1>3, TextIsAssociative, Zenon
  <1> QED
    BY <1>1, <1>2, <1>3, <1>4, Zenon

(* Two sequences of one element each make one of two.                       *)
LEMMA PairOfTwo ==
    ASSUME NEW X, NEW a \in X, NEW b \in X
    PROVE  <<a>> \o <<b>> = <<a, b>>
  <1>1. <<a>> \in Seq(X) /\ <<b>> \in Seq(X) /\ Len(<<a>>) = 1 /\ Len(<<b>>) = 1
        /\ <<a>>[1] = a /\ <<b>>[1] = b
    OBVIOUS
  <1>2. /\ <<a>> \o <<b>> \in Seq(X) /\ Len(<<a>> \o <<b>>) = 2
        /\ (<<a>> \o <<b>>)[1] = a /\ (<<a>> \o <<b>>)[2] = b
    <2>1. PICK s, t : s = <<a>> /\ t = <<b>>
      OBVIOUS
    <2>2. s \in Seq(X) /\ t \in Seq(X) /\ Len(s) = 1 /\ Len(t) = 1 /\ s[1] = a /\ t[1] = b
      BY <1>1, <2>1, Zenon
    <2>3. s \o t \in Seq(X) /\ Len(s \o t) = 2 /\ (s \o t)[1] = a /\ (s \o t)[2] = b
      <3>1. /\ s \o t \in Seq(X) /\ Len(s \o t) = 1 + 1
            /\ \A i \in 1 .. 1 + 1 : (s \o t)[i] = IF i <= 1 THEN s[i] ELSE t[i - 1]
        BY <2>2, ConcatProperties
      <3> QED
        BY <2>2, <3>1
    <2> QED
      BY <2>1, <2>3, Zenon
  <1>3. <<a, b>> \in Seq(X) /\ Len(<<a, b>>) = 2 /\ <<a, b>>[1] = a /\ <<a, b>>[2] = b
    OBVIOUS
  <1>4. PICK s, t : s = <<a>> \o <<b>> /\ t = <<a, b>>
    OBVIOUS
  <1>5. /\ s \in Seq(X) /\ Len(s) = 2 /\ s[1] = a /\ s[2] = b
        /\ t \in Seq(X) /\ Len(t) = 2 /\ t[1] = a /\ t[2] = b
    BY <1>2, <1>3, <1>4, Zenon
  <1>6. s = t
    BY <1>5, SeqEqual
  <1> QED
    BY <1>4, <1>6, Zenon

(* The path read so far is a character, or two, longer.                     *)
LEMMA TwoAreRead ==
    ASSUME NEW X, NEW s \in Seq(X), NEW n \in 0 .. Len(s) - 2
    PROVE  /\ SubSeq(s, 1, n + 2) = SubSeq(s, 1, n) \o <<s[n + 1], s[n + 2]>>
           /\ SubSeq(s, 1, n) \in Seq(X) /\ s[n + 1] \in X /\ s[n + 2] \in X
  <1>1. n \in 0 .. Len(s) - 1 /\ n + 1 \in 0 .. Len(s) - 1 /\ n + 1 + 1 = n + 2
    OBVIOUS
  <1>2. PICK p, a, b : p = SubSeq(s, 1, n) /\ a = s[n + 1] /\ b = s[n + 2]
    OBVIOUS
  <1>3. SubSeq(s, 1, n + 1) = p \o <<a>> /\ p \in Seq(X) /\ a \in X
    BY <1>1, <1>2, PrefixGrows
  <1>4. SubSeq(s, 1, n + 2) = SubSeq(s, 1, n + 1) \o <<b>> /\ b \in X
    BY <1>1, <1>2, PrefixGrows
  <1>5. (p \o <<a>>) \o <<b>> = p \o (<<a>> \o <<b>>)
    <2>1. <<a>> \in Seq(X) /\ <<b>> \in Seq(X)
      BY <1>3, <1>4
    <2> QED
      BY <1>3, <2>1, ConcatAssociative
  <1>6. <<a>> \o <<b>> = <<a, b>>
    BY <1>3, <1>4, PairOfTwo
  <1> QED
    BY <1>2, <1>3, <1>4, <1>5, <1>6, Zenon

(* BeginBracket: a bracket and a quote.                                     *)
LEMMA BracketIsBegun ==
    ASSUME SpellingInv, PathInv', BeginBracket
    PROVE  SpellingInv'
  <1>1. /\ parse = "segment" /\ parse' = "quoted" /\ at' = at + 2 /\ keys # <<>> /\ ~afterDot
        /\ More /\ path[at] = "open" /\ at < Len(path) /\ path[at + 1] = "quote"
        /\ UNCHANGED <<path, keys, key, afterDot>>
    BY DEF BeginBracket, BracketAllowed, Follows, configVars
  <1>2. path \in Seq(Char) /\ at \in 1 .. Len(path) + 1 /\ key = <<>>
    BY <1>1 DEF SpellingInv, PathInv, PathTypeOK
  <1>3. at - 1 \in 0 .. Len(path) - 2 /\ at - 1 + 1 = at /\ at - 1 + 2 = at + 1 /\ at' - 1 = at + 1
    BY <1>1, <1>2
  <1>4. SubSeq(path, 1, at' - 1) = SubSeq(path, 1, at - 1) \o <<"open", "quote">>
    BY <1>1, <1>2, <1>3, TwoAreRead
  <1>5. <<"open", "quote">> \in Seq(Char)
    BY MarksAreChars DEF Mark
  <1>6. Escape(<<>>) = <<>>
    BY FlattenSeqOfNone DEF Escape
  <1>7. Pending = <<>> \o <<>> /\ Pending' = <<"open", "quote">> \o <<>>
    BY <1>1, <1>2, <1>6 DEF Pending
  <1>8. Pending' = Pending \o <<"open", "quote">>
    BY <1>7
  <1> QED
    BY <1>1, <1>4, <1>5, <1>8, CharacterIsSpelled

(* ReadQuoted: a character in brackets that needs no escape.                *)
LEMMA QuotedIsRead ==
    ASSUME SpellingInv, PathInv', ReadQuoted
    PROVE  SpellingInv'
  <1>1. /\ parse = "quoted" /\ parse' = "quoted" /\ at' = at + 1 /\ at <= Len(path)
        /\ path[at] \notin {"quote", "backslash"}
        /\ key' = Append(key, path[at]) /\ UNCHANGED <<path, keys, afterDot>>
    BY DEF ReadQuoted, More, configVars
  <1>2. path \in Seq(Char) /\ at \in 1 .. Len(path) + 1 /\ key \in Seq(Char) /\ keys # <<>>
    BY <1>1 DEF SpellingInv, PathInv, PathTypeOK
  <1>3. at - 1 \in 0 .. Len(path) - 1 /\ at - 1 + 1 = at /\ at' - 1 = at
    BY <1>1, <1>2
  <1>4. PICK c : c = path[at]
    OBVIOUS
  <1>5. c \in Char /\ SubSeq(path, 1, at) = SubSeq(path, 1, at - 1) \o <<c>>
    BY <1>2, <1>3, <1>4, PrefixGrows
  <1>6. Escaped(c) = <<c>>
    BY <1>1, <1>4 DEF Escaped
  <1>7. Pending = <<"open", "quote">> \o Escape(key)
        /\ Pending' = <<"open", "quote">> \o Escape(Append(key, c))
    BY <1>1, <1>4 DEF Pending
  <1>8. Pending' = Pending \o <<c>> /\ <<c>> \in Seq(Char)
    BY <1>2, <1>5, <1>6, <1>7, QuotedGrows
  <1>9. SubSeq(path, 1, at' - 1) = SubSeq(path, 1, at - 1) \o <<c>>
    BY <1>3, <1>5
  <1> QED
    BY <1>1, <1>2, <1>8, <1>9, CharacterIsSpelled

(* ReadEscape: one that does, with the backslash before it.                 *)
LEMMA EscapeIsRead ==
    ASSUME SpellingInv, PathInv', ReadEscape
    PROVE  SpellingInv'
  <1>1. /\ parse = "quoted" /\ parse' = "quoted" /\ at' = at + 2 /\ at < Len(path)
        /\ path[at] = "backslash" /\ path[at + 1] \in {"quote", "backslash"}
        /\ key' = Append(key, path[at + 1]) /\ UNCHANGED <<path, keys, afterDot>>
    BY DEF ReadEscape, More, Follows, configVars
  <1>2. path \in Seq(Char) /\ at \in 1 .. Len(path) + 1 /\ key \in Seq(Char) /\ keys # <<>>
    BY <1>1 DEF SpellingInv, PathInv, PathTypeOK
  <1>3. at - 1 \in 0 .. Len(path) - 2 /\ at - 1 + 1 = at /\ at - 1 + 2 = at + 1 /\ at' - 1 = at + 1
    BY <1>1, <1>2
  <1>4. PICK c : c = path[at + 1]
    OBVIOUS
  <1>5. c \in Char /\ SubSeq(path, 1, at + 1) = SubSeq(path, 1, at - 1) \o <<"backslash", c>>
    BY <1>1, <1>2, <1>3, <1>4, TwoAreRead
  <1>6. Escaped(c) = <<"backslash", c>>
    BY <1>1, <1>4 DEF Escaped
  <1>7. Pending = <<"open", "quote">> \o Escape(key)
        /\ Pending' = <<"open", "quote">> \o Escape(Append(key, c))
    BY <1>1, <1>4 DEF Pending
  <1>8. Pending' = Pending \o <<"backslash", c>> /\ <<"backslash", c>> \in Seq(Char)
    BY <1>2, <1>5, <1>6, <1>7, QuotedGrows
  <1>9. SubSeq(path, 1, at' - 1) = SubSeq(path, 1, at - 1) \o <<"backslash", c>>
    BY <1>3, <1>5
  <1> QED
    BY <1>1, <1>2, <1>8, <1>9, CharacterIsSpelled

(* One more key may follow those that are spelled.                          *)
LEMMA KeyMayFollow ==
    ASSUME NEW ks \in Seq(Seq(Char)), NEW b \in [1 .. Len(ks) -> BOOLEAN], MaySpell(ks, b),
           NEW k \in Seq(Char), NEW x \in BOOLEAN, k # <<>>, x \/ IsName(k), ks = <<>> => ~x
    PROVE  MaySpell(Append(ks, k), Append(b, x))
  <1>1. PICK n \in Nat : n = Len(ks)
    OBVIOUS
  <1>2. (n = 0) = (ks = <<>>)
    BY <1>1, EmptySeq
  <1>3. PICK ls, d : ls = Append(ks, k) /\ d = Append(b, x)
    OBVIOUS
  <1>4. /\ ls \in Seq(Seq(Char)) /\ Len(ls) = n + 1 /\ ls # <<>> /\ ls[n + 1] = k
        /\ \A i \in 1 .. n : ls[i] = ks[i]
    <2>1. ls \in Seq(Seq(Char)) /\ OneLonger(ls, ks, k)
      BY <1>3, AppendIs, Zenon
    <2> QED
      BY <1>1, <2>1 DEF OneLonger
  <1>5. d[n + 1] = x /\ \A i \in 1 .. n : d[i] = b[i]
    <2>1. b \in Seq(BOOLEAN) /\ Len(b) = n
      BY <1>1, FunctionIsSequence
    <2> QED
      BY <1>3, <2>1, AppendProperties
  <1>6. \A i \in 1 .. n : ks[i] # <<>> /\ (b[i] \/ IsName(ks[i]))
    BY <1>1 DEF MaySpell
  <1>7. \A i \in 1 .. n + 1 : ls[i] # <<>> /\ (d[i] \/ IsName(ls[i]))
    <2> TAKE i \in 1 .. n + 1
    <2>1. CASE i = n + 1
      BY <2>1, <1>4, <1>5
    <2>2. CASE i # n + 1
      <3>1. i \in 1 .. n /\ d[i] = b[i] /\ ls[i] = ks[i]
        BY <2>2, <1>4, <1>5
      <3> QED
        BY <3>1, <1>6, Zenon
    <2> QED
      BY <2>1, <2>2
  <1>8. ~d[1]
    <2>1. CASE n = 0
      BY <2>1, <1>2, <1>5
    <2>2. CASE n # 0
      <3>1. 1 \in 1 .. n
        BY <2>2
      <3>2. ~b[1]
        BY <2>2, <1>2 DEF MaySpell
      <3> QED
        BY <3>1, <3>2, <1>5
    <2> QED
      BY <2>1, <2>2
  <1>9. MaySpell(ls, d)
    BY <1>4, <1>7, <1>8, Zenon DEF MaySpell
  <1> QED
    BY <1>3, <1>9, Zenon

(* A key that is through has been spelled whole, and so has the dot that    *)
(* was skipped after it.                                                    *)
LEMMA KeyIsSpelled ==
    ASSUME SpellingInv, PathInv', parse \in {"name", "quoted"}, NEW next \in 1 .. Len(path) + 1,
           EndKey(next), NEW x \in BOOLEAN, keys = <<>> => ~x, key # <<>>, x \/ IsName(key),
           NEW b \in [1 .. Len(keys) -> BOOLEAN], SpelledSoFar(b),
           SubSeq(path, 1, next - 1) = SpelledPath(keys, b) \o Spelled(key, x, keys = <<>>)
    PROVE  SpellingInv'
  <1> DEFINE dot == next <= Len(path) /\ path[next] = "dot"
  <1>1. /\ keys' = Append(keys, key) /\ key' = <<>> /\ afterDot' = dot /\ path' = path
        /\ at' = IF dot THEN next + 1 ELSE next
        /\ parse' = IF next > Len(path) THEN "accepted"
                    ELSE IF path[next] = "open" \/ (dot /\ next < Len(path)) THEN "segment"
                    ELSE "refused"
    BY DEF EndKey, AfterKey, configVars
  <1>2. path \in Seq(Char) /\ keys \in Seq(Seq(Char)) /\ key \in Seq(Char)
    BY DEF SpellingInv, PathInv, PathTypeOK
  <1>3. PICK ks, d : ks = Append(keys, key) /\ d = Append(b, x)
    OBVIOUS
  <1>4. /\ d \in [1 .. Len(ks) -> BOOLEAN] /\ MaySpell(ks, d)
        /\ SpelledPath(ks, d) = SpelledPath(keys, b) \o Spelled(key, x, keys = <<>>)
    <2>1. MaySpell(keys, b)
      BY DEF SpelledSoFar
    <2>2. MaySpell(Append(keys, key), Append(b, x))
      BY <1>2, <2>1, KeyMayFollow
    <2>3. KeyFollows(keys, b, key, x)
      BY <1>2, SpelledPathGrows, Zenon
    <2> QED
      BY <1>3, <2>2, <2>3, Zenon DEF KeyFollows
  <1>5. ks \in Seq(Seq(Char)) /\ ks # <<>>
    BY <1>2, <1>3, SequenceGrows, Zenon
  <1>6. Pending' = IF dot THEN <<"dot">> ELSE <<>>
    <2>1. Pending' = (IF dot THEN <<"dot">> ELSE <<>>) \o <<>>
      BY <1>1 DEF Pending
    <2>2. <<"dot">> \o <<>> = <<"dot">> /\ <<>> \o <<>> = <<>>
      OBVIOUS
    <2> QED
      BY <2>1, <2>2
  <1>7. SubSeq(path, 1, at' - 1) = SpelledPath(ks, d) \o Pending'
    <2>1. SpelledPath(ks, d) \in Seq(Char)
      BY <1>4, <1>5, SpelledPathType, Zenon
    <2>2. CASE dot
      <3>1. next - 1 \in 0 .. Len(path) - 1 /\ next - 1 + 1 = next /\ at' - 1 = next
        BY <1>1, <1>2, <2>2
      <3>2. SubSeq(path, 1, next) = SubSeq(path, 1, next - 1) \o <<path[next]>>
        BY <1>2, <3>1, PrefixGrows
      <3> QED
        BY <1>4, <1>6, <2>2, <3>1, <3>2
    <2>3. CASE ~dot
      BY <1>1, <1>4, <1>6, <2>1, <2>3, ConcatEmptySeq
    <2> QED
      BY <2>2, <2>3
  <1>8. SpelledSoFar(d)'
    <2>1. d' = d
      OBVIOUS
    <2> QED
      BY <1>1, <1>3, <1>4, <1>7, Zenon DEF SpelledSoFar, MaySpell
  <1>9. \E d1 \in [1 .. Len(keys') -> BOOLEAN] : SpelledSoFar(d1)'
    BY <1>1, <1>3, <1>4, <1>8, Zenon
  <1>10. parse' = "accepted" => at' = Len(path) + 1 /\ ~afterDot' /\ key' = <<>>
    <2>1. parse' = "accepted" => next > Len(path)
      BY <1>1
    <2>2. next > Len(path) => next = Len(path) + 1 /\ ~dot
      BY <1>2
    <2> QED
      BY <1>1, <2>1, <2>2, Zenon
  <1>11. parse' = "segment" /\ ~afterDot' => at' <= Len(path) /\ path[at'] = "open"
    <2>1. parse' = "segment" => ~(next > Len(path)) /\ (path[next] = "open" \/ dot)
      BY <1>1
    <2>2. ~(next > Len(path)) => next <= Len(path)
      BY <1>2
    <2> QED
      BY <1>1, <2>1, <2>2, Zenon
  <1>12. parse' \in {"accepted", "segment", "refused"} /\ keys' # <<>>
    BY <1>1, <1>3, <1>5
  <1> QED
    BY <1>1, <1>9, <1>10, <1>11, <1>12 DEF SpellingInv, More

(* EndName: the key was written with the dot before it, unless it is the    *)
(* first.                                                                   *)
LEMMA NameIsEnded ==
    ASSUME SpellingInv, PathInv', EndName
    PROVE  SpellingInv'
  <1>1. parse = "name" /\ ~PartOfName /\ EndKey(at)
    BY DEF EndName
  <1>2. /\ (afterDot <=> keys # <<>>) /\ IsName(key) /\ key # <<>>
        /\ at \in 1 .. Len(path) + 1 /\ keys \in Seq(Seq(Char)) /\ key \in Seq(Char)
    BY <1>1 DEF SpellingInv, PathInv, PathTypeOK
  <1>3. PICK b \in [1 .. Len(keys) -> BOOLEAN] : SpelledSoFar(b)
    BY <1>1 DEF SpellingInv
  <1>4. Pending = Spelled(key, FALSE, keys = <<>>)
    <2>1. <<>> \o key = key
      BY <1>2, ConcatEmptySeq, Zenon
    <2> QED
      BY <1>1, <1>2, <2>1 DEF Pending, Spelled
  <1>5. SubSeq(path, 1, at - 1) = SpelledPath(keys, b) \o Spelled(key, FALSE, keys = <<>>)
    BY <1>3, <1>4, Zenon DEF SpelledSoFar
  <1>6. FALSE \in BOOLEAN /\ (keys = <<>> => ~FALSE) /\ (FALSE \/ IsName(key))
        /\ parse \in {"name", "quoted"}
    BY <1>1, <1>2
  <1> QED
    BY <1>1, <1>2, <1>3, <1>5, <1>6, KeyIsSpelled

(* EndQuoted: the key was written in brackets and quotes.                   *)
LEMMA QuotedIsEnded ==
    ASSUME SpellingInv, PathInv', EndQuoted
    PROVE  SpellingInv'
  <1>1. /\ parse = "quoted" /\ path[at] = "quote" /\ at < Len(path) /\ path[at + 1] = "close"
        /\ key # <<>> /\ EndKey(at + 2)
    BY DEF EndQuoted, Follows
  <1>2. /\ keys # <<>> /\ path \in Seq(Char) /\ at \in 1 .. Len(path) + 1
        /\ keys \in Seq(Seq(Char)) /\ key \in Seq(Char)
    BY <1>1 DEF SpellingInv, PathInv, PathTypeOK
  <1>3. PICK b \in [1 .. Len(keys) -> BOOLEAN] : SpelledSoFar(b)
    BY <1>1 DEF SpellingInv
  <1>4. /\ at - 1 \in 0 .. Len(path) - 2 /\ at - 1 + 1 = at /\ at - 1 + 2 = at + 1
        /\ at + 2 - 1 = at + 1
        /\ at + 2 \in 1 .. Len(path) + 1
    BY <1>1, <1>2
  <1>5. SubSeq(path, 1, at + 1) = SubSeq(path, 1, at - 1) \o <<"quote", "close">>
    BY <1>1, <1>2, <1>4, TwoAreRead
  <1>6. PICK s, t, u : s = SpelledPath(keys, b) /\ t = Pending /\ u = <<"quote", "close">>
    OBVIOUS
  <1>7. s \in Seq(Char) /\ t \in Seq(Char) /\ u \in Seq(Char)
    <2>1. <<"quote", "close">> \in Seq(Char)
      BY MarksAreChars DEF Mark
    <2>2. Pending \in Seq(Char)
      BY PendingType DEF SpellingInv, PathInv
    <2>3. SpelledPath(keys, b) \in Seq(Char)
      BY <1>2, SpelledPathType, Zenon
    <2> QED
      BY <1>6, <2>1, <2>2, <2>3, Zenon
  <1>8. (s \o t) \o u = s \o (t \o u)
    BY <1>7, TextIsAssociative, Zenon
  <1>9. PICK x : x \in BOOLEAN /\ x
    OBVIOUS
  <1>10. t \o u = Spelled(key, x, keys = <<>>)
    <2>1. t = <<"open", "quote">> \o Escape(key)
      BY <1>1, <1>6 DEF Pending
    <2> QED
      BY <1>6, <1>9, <2>1, Zenon DEF Spelled
  <1>11. PICK next : next = at + 2
    OBVIOUS
  <1>12. SubSeq(path, 1, next - 1) = SpelledPath(keys, b) \o Spelled(key, x, keys = <<>>)
    <2>1. SubSeq(path, 1, at - 1) = s \o t
      BY <1>3, <1>6, Zenon DEF SpelledSoFar
    <2>2. next - 1 = at + 1
      BY <1>4, <1>11
    <2>3. SubSeq(path, 1, at + 1) = (s \o t) \o u
      BY <1>5, <1>6, <2>1, Zenon
    <2>4. SubSeq(path, 1, next - 1) = s \o (t \o u)
      BY <1>8, <2>2, <2>3, Zenon
    <2> QED
      BY <1>6, <1>10, <2>4, Zenon
  <1>13. /\ next \in 1 .. Len(path) + 1 /\ EndKey(next) /\ parse \in {"name", "quoted"}
         /\ (keys = <<>> => ~x) /\ (x \/ IsName(key))
    BY <1>1, <1>2, <1>4, <1>9, <1>11, Zenon
  <1> QED
    BY <1>1, <1>3, <1>9, <1>12, <1>13, KeyIsSpelled

(* At first the path is read as no keys.                                    *)
LEMMA SpelledFromTheStart == PathInit => SpellingInv
  <1> SUFFICES ASSUME NEW u \in Use, NEW c \in Configured, PathStart(u, c)
               PROVE  SpellingInv
    BY DEF PathInit
  <1>1. PathInv
    BY PathInitially DEF PathInit
  <1>2. /\ at = 1 /\ keys = <<>> /\ key = <<>> /\ ~afterDot
        /\ parse \in {"verbatim", "segment"}
    BY DEF PathStart
  <1>3. PICK b : b = [n \in 1 .. 0 |-> FALSE]
    OBVIOUS
  <1>4. b \in [1 .. 0 -> BOOLEAN] /\ Len(<<>>) = 0
    BY <1>3
  <1>5. SpelledPath(<<>>, b) = <<>>
    <2>1. [n \in 1 .. Len(<<>>) |-> Spelled(<<>>[n], b[n], n = 1)] = <<>>
      BY <1>4
    <2> QED
      BY <2>1, FlattenSeqOfNone DEF SpelledPath
  <1>6. SubSeq(path, 1, at - 1) = <<>>
    BY <1>2
  <1>7. Pending = <<>>
    BY <1>2 DEF Pending
  <1>8. SpelledSoFar(b)
    <2>1. <<>> = SpelledPath(<<>>, b) \o <<>>
      BY <1>5
    <2>2. SubSeq(path, 1, at - 1) = SpelledPath(keys, b) \o Pending
      BY <1>2, <1>6, <1>7, <2>1, Zenon
    <2>3. MaySpell(<<>>, b)
      BY <1>4 DEF MaySpell
    <2> QED
      BY <1>2, <2>2, <2>3, Zenon DEF SpelledSoFar
  <1>9. \E d \in [1 .. Len(keys) -> BOOLEAN] : SpelledSoFar(d)
    BY <1>2, <1>4, <1>8, Zenon
  <1> QED
    BY <1>1, <1>2, <1>9 DEF SpellingInv

(* What the parser has read is, at each moment, a spelling of the keys it   *)
(* holds and of the part of a key it is in (parsePropertyPath,              *)
(* router.go:368-483).                                                      *)
THEOREM SpellingInvariant == PathSpec => []SpellingInv
  <1>1. SpellingInv /\ PathInv' /\ [PathNext]_pathVars => SpellingInv'
    <2> SUFFICES ASSUME SpellingInv, PathInv', [PathNext]_pathVars
                 PROVE  SpellingInv'
      OBVIOUS
    <2>1. CASE BeginName
      BY <2>1, NameIsBegun
    <2>2. CASE ReadName
      BY <2>2, NameIsRead
    <2>3. CASE EndName
      BY <2>3, NameIsEnded
    <2>4. CASE BeginBracket
      BY <2>4, BracketIsBegun
    <2>5. CASE ReadQuoted
      BY <2>5, QuotedIsRead
    <2>6. CASE ReadEscape
      BY <2>6, EscapeIsRead
    <2>7. CASE EndQuoted
      BY <2>7, QuotedIsEnded
    <2>8. CASE Refuse
      BY <2>8 DEF Refuse, SpellingInv
    <2>9. CASE Descend
      BY <2>9 DEF Descend, configVars, SpellingInv, SpelledSoFar, MaySpell, Pending, More,
         PartOfName, Looking
    <2>10. CASE UNCHANGED pathVars
      BY <2>10 DEF pathVars, configVars, lookVars, SpellingInv, SpelledSoFar, MaySpell, Pending,
         More, PartOfName
    <2> QED
      BY <2>1, <2>2, <2>3, <2>4, <2>5, <2>6, <2>7, <2>8, <2>9, <2>10 DEF PathNext, PathDone
  <1> QED
    BY <1>1, SpelledFromTheStart, PathInvariant, PTL DEF PathSpec

(* What is accepted is a spelling. *)
LEMMA AcceptedIsSpelled ==
    ASSUME SpellingInv, parse = "accepted"
    PROVE  \E b \in [1 .. Len(keys) -> BOOLEAN] : Spells(path, keys, b)
  <1>1. PICK b \in [1 .. Len(keys) -> BOOLEAN] : SpelledSoFar(b)
    BY DEF SpellingInv
  <1>2. /\ at = Len(path) + 1 /\ ~afterDot /\ key = <<>> /\ keys # <<>>
        /\ path \in Seq(Char) /\ keys \in Seq(Seq(Char)) /\ Len(path) \in Nat
    BY DEF SpellingInv, PathInv, PathTypeOK
  <1>3. SubSeq(path, 1, at - 1) = path
    <2>1. at - 1 = Len(path)
      BY <1>2
    <2> QED
      BY <1>2, <2>1, SubSeqFull, Zenon
  <1>4. Pending = <<>>
    <2>1. <<>> \o <<>> = <<>>
      OBVIOUS
    <2> QED
      BY <1>2, <2>1 DEF Pending
  <1>5. SpelledPath(keys, b) \o <<>> = SpelledPath(keys, b)
    BY <1>2, SpelledPathType, ConcatEmptySeq, Zenon
  <1>6. path = SpelledPath(keys, b)
    BY <1>1, <1>3, <1>4, <1>5, Zenon DEF SpelledSoFar
  <1>7. Spells(path, keys, b)
    BY <1>1, <1>2, <1>6, Zenon DEF SpelledSoFar, MaySpell, Spells
  <1> QED
    BY <1>7

------------------------------------------------------------------------------
(* Where the characters of a spelling lie.                                  *)

(* Where a character of a key in brackets lies.                             *)
CharLies(E, e, next, c) ==
    /\ e \in Nat /\ next \in Nat /\ next <= Len(E)
    /\ IF c \in {"quote", "backslash"}
       THEN next = e + 2 /\ E[e + 1] = "backslash" /\ E[e + 2] = c
       ELSE next = e + 1 /\ E[e + 1] = c
EscapeLies(k, m) ==
    CharLies(Escape(k), Offset(EscapedChars(k), m), Offset(EscapedChars(k), m + 1), k[m + 1])

(* An escaped key is made of its characters' escapes, one after the other.  *)
LEMMA EscapedCharactersLie ==
    ASSUME NEW k \in Seq(Char), NEW m \in 0 .. Len(k) - 1
    PROVE  EscapeLies(k, m)
  <1>1. PICK n \in Nat : n = Len(k)
    OBVIOUS
  <1>2. PICK ss, c : ss = EscapedChars(k) /\ c = k[m + 1]
    OBVIOUS
  <1>3. m \in 0 .. n - 1 /\ m + 1 \in 1 .. n /\ c \in Char
    BY <1>1, <1>2
  <1>4. ss \in Seq(Seq(Char)) /\ Len(ss) = n
    BY <1>1, <1>2, EscapesType
  <1>5. ss[m + 1] = Escaped(c)
    BY <1>1, <1>2, <1>3 DEF EscapedChars
  <1>6. m \in 0 .. Len(ss) - 1
    BY <1>3, <1>4, Zenon
  <1>7. /\ Offset(ss, m) \in Nat /\ Offset(ss, m + 1) = Offset(ss, m) + Len(ss[m + 1])
        /\ Offset(ss, m + 1) <= Len(FlattenSeq(ss))
        /\ \A i \in 1 .. Len(ss[m + 1]) : FlattenSeq(ss)[Offset(ss, m) + i] = ss[m + 1][i]
    <2>1. Offset(ss, m) \in Nat /\ Offset(ss, m + 1) = Offset(ss, m) + Len(ss[m + 1])
      BY <1>4, <1>6, OffsetOneMore
    <2>2. /\ Offset(ss, m + 1) <= Len(FlattenSeq(ss))
          /\ \A i \in 1 .. Len(ss[m + 1]) : FlattenSeq(ss)[Offset(ss, m) + i] = ss[m + 1][i]
      BY <1>4, <1>6, PiecesLie
    <2> QED
      BY <2>1, <2>2, Zenon
  <1>8. FlattenSeq(ss) = Escape(k)
    BY <1>2 DEF Escape, EscapedChars
  <1>9. PICK e, next, E, p : /\ e = Offset(ss, m) /\ next = Offset(ss, m + 1)
                             /\ E = Escape(k) /\ p = Escaped(c)
    OBVIOUS
  <1>10. /\ e \in Nat /\ next = e + Len(p) /\ next <= Len(E)
         /\ \A i \in 1 .. Len(p) : E[e + i] = p[i]
    BY <1>5, <1>7, <1>8, <1>9, Zenon
  <1>11. CASE c \in {"quote", "backslash"}
    <2>1. p = <<"backslash", c>>
      BY <1>9, <1>11 DEF Escaped
    <2>2. Len(p) = 2 /\ p[1] = "backslash" /\ p[2] = c
      BY <2>1
    <2>3. next = e + 2 /\ E[e + 1] = "backslash" /\ E[e + 2] = c /\ next \in Nat
      BY <1>10, <2>2
    <2> QED
      BY <1>2, <1>9, <1>10, <1>11, <2>3, Zenon DEF EscapeLies, CharLies
  <1>12. CASE c \notin {"quote", "backslash"}
    <2>1. p = <<c>>
      BY <1>9, <1>12 DEF Escaped
    <2>2. Len(p) = 1 /\ p[1] = c
      BY <2>1
    <2>3. next = e + 1 /\ E[e + 1] = c /\ next \in Nat
      BY <1>10, <2>2
    <2> QED
      BY <1>2, <1>9, <1>10, <1>12, <2>3, Zenon DEF EscapeLies, CharLies
  <1> QED
    BY <1>11, <1>12

(* They fill it from the front to the end.                                  *)
LEMMA EscapeEnds ==
    ASSUME NEW k \in Seq(Char)
    PROVE  /\ Offset(EscapedChars(k), 0) = 0
           /\ Offset(EscapedChars(k), Len(k)) = Len(Escape(k))
           /\ Len(Escape(k)) \in Nat
  <1>1. EscapedChars(k) \in Seq(Seq(Char)) /\ Len(EscapedChars(k)) = Len(k)
    BY EscapesType
  <1>2. Offset(EscapedChars(k), Len(EscapedChars(k))) = Len(FlattenSeq(EscapedChars(k)))
    BY <1>1, OffsetOfAll, Zenon
  <1>3. FlattenSeq(EscapedChars(k)) = Escape(k)
    BY DEF Escape, EscapedChars
  <1>4. Escape(k) \in Seq(Char)
    BY EscapeType
  <1>5. Len(Escape(k)) \in Nat
    BY <1>4, LenProperties, Zenon
  <1> QED
    BY <1>1, <1>2, <1>3, <1>5, OffsetOfNone, Zenon

(* Where the spelling of the n-th key lies.                                 *)
LiesAt(text, o, p, k, x, n) ==
    /\ o \in Nat /\ p \in Nat /\ p <= Len(text)
    /\ k \in Seq(Char) /\ k # <<>> /\ Len(k) \in Nat \ {0}
    /\ x \in BOOLEAN
    /\ x =>
          /\ n > 0 /\ p = o + 4 + Len(Escape(k))
          /\ text[o + 1] = "open" /\ text[o + 2] = "quote"
          /\ \A i \in 1 .. Len(Escape(k)) : text[o + 2 + i] = Escape(k)[i]
          /\ text[o + 3 + Len(Escape(k))] = "quote" /\ text[o + 4 + Len(Escape(k))] = "close"
    /\ ~x =>
          /\ IsName(k) /\ p = o + (IF n = 0 THEN 0 ELSE 1) + Len(k)
          /\ n > 0 => text[o + 1] = "dot"
          /\ \A i \in 1 .. Len(k) : text[o + (IF n = 0 THEN 0 ELSE 1) + i] = k[i]
KeyLies(text, ks, b, n) ==
    LiesAt(text, Offset(Segments(ks, b), n), Offset(Segments(ks, b), n + 1), ks[n + 1], b[n + 1], n)

(* A key in brackets, character by character.                               *)
LEMMA InBracketsLies ==
    ASSUME NEW E \in Seq(Char)
    PROVE  LET q == <<"open", "quote">> \o E \o <<"quote", "close">> IN
           /\ Len(q) = Len(E) + 4 /\ q[1] = "open" /\ q[2] = "quote"
           /\ \A i \in 1 .. Len(E) : q[2 + i] = E[i]
           /\ q[3 + Len(E)] = "quote" /\ q[4 + Len(E)] = "close"
  <1>1. PICK a, z : a = <<"open", "quote">> /\ z = <<"quote", "close">>
    OBVIOUS
  <1>2. a \in Seq(Char) /\ Len(a) = 2 /\ a[1] = "open" /\ a[2] = "quote"
    BY <1>1, MarksAreChars DEF Mark
  <1>3. z \in Seq(Char) /\ Len(z) = 2 /\ z[1] = "quote" /\ z[2] = "close"
    BY <1>1, MarksAreChars DEF Mark
  <1>4. PICK m \in Nat : m = Len(E)
    OBVIOUS
  <1>5. PICK s : s = a \o E
    OBVIOUS
  <1>6. /\ s \in Seq(Char) /\ Len(s) = m + 2 /\ s[1] = "open" /\ s[2] = "quote"
        /\ \A i \in 1 .. m : s[2 + i] = E[i]
    <2>1. s \in Seq(Char) /\ Joined(s, a, E)
      BY <1>2, <1>5, ConcatIs, Zenon
    <2> QED
      BY <1>2, <1>4, <2>1 DEF Joined
  <1>7. PICK q : q = s \o z
    OBVIOUS
  <1>8. /\ Len(q) = m + 4 /\ q[1] = "open" /\ q[2] = "quote"
        /\ \A i \in 1 .. m : q[2 + i] = E[i]
        /\ q[3 + m] = "quote" /\ q[4 + m] = "close"
    <2>1. Joined(q, s, z)
      BY <1>3, <1>6, <1>7, ConcatIs, Zenon
    <2> QED
      BY <1>3, <1>4, <1>6, <2>1 DEF Joined
  <1> QED
    BY <1>1, <1>4, <1>5, <1>7, <1>8

(* A path is made of its keys' spellings, one after the other.              *)
LEMMA KeysLie ==
    ASSUME NEW text, NEW ks \in Seq(Seq(Char)), NEW b \in [1 .. Len(ks) -> BOOLEAN],
           Spells(text, ks, b), NEW n \in 0 .. Len(ks) - 1
    PROVE  KeyLies(text, ks, b, n)
  <1>1. PICK N \in Nat : N = Len(ks)
    OBVIOUS
  <1>2. PICK ss, k, x : ss = Segments(ks, b) /\ k = ks[n + 1] /\ x = b[n + 1]
    OBVIOUS
  <1>3. n \in 0 .. N - 1 /\ n + 1 \in 1 .. N
    BY <1>1
  <1>4. k \in Seq(Char) /\ x \in BOOLEAN /\ k # <<>> /\ (x \/ IsName(k)) /\ (n = 0 => ~x)
    <2>1. ks[n + 1] \in Seq(Char) /\ b[n + 1] \in BOOLEAN
      BY <1>1, <1>3
    <2>2. ks[n + 1] # <<>> /\ (b[n + 1] \/ IsName(ks[n + 1])) /\ ~b[1]
      BY <1>1, <1>3 DEF Spells
    <2>3. n = 0 => n + 1 = 1
      OBVIOUS
    <2> QED
      BY <1>2, <2>1, <2>2, <2>3, Zenon
  <1>5. Len(k) \in Nat \ {0}
    BY <1>4, EmptySeq
  <1>6. ss \in Seq(Seq(Char)) /\ Len(ss) = N /\ n \in 0 .. Len(ss) - 1
    BY <1>1, <1>2, <1>3, SegmentsType
  <1>7. PICK seg : seg = ss[n + 1]
    OBVIOUS
  <1>8. seg = Spelled(k, x, n = 0)
    <2>1. ss[n + 1] = Spelled(ks[n + 1], b[n + 1], n + 1 = 1)
      BY <1>1, <1>2, <1>3 DEF Segments
    <2>2. (n + 1 = 1) = (n = 0)
      OBVIOUS
    <2> QED
      BY <1>2, <1>7, <2>1, <2>2, Zenon
  <1>9. text = FlattenSeq(ss)
    BY <1>2, Zenon DEF Spells, SpelledPath, Segments
  <1>10. PICK o, p : o = Offset(ss, n) /\ p = Offset(ss, n + 1)
    OBVIOUS
  <1>11. /\ o \in Nat /\ p = o + Len(seg) /\ p <= Len(text)
         /\ \A i \in 1 .. Len(seg) : text[o + i] = seg[i]
    <2>1. Offset(ss, n) \in Nat /\ Offset(ss, n + 1) = Offset(ss, n) + Len(ss[n + 1])
      BY <1>6, OffsetOneMore
    <2>2. /\ Offset(ss, n + 1) <= Len(FlattenSeq(ss))
          /\ \A i \in 1 .. Len(ss[n + 1]) : FlattenSeq(ss)[Offset(ss, n) + i] = ss[n + 1][i]
      BY <1>6, PiecesLie
    <2> QED
      BY <1>7, <1>9, <1>10, <2>1, <2>2, Zenon
  <1>12. PICK E, m : E = Escape(k) /\ m = Len(E)
    OBVIOUS
  <1>13. E \in Seq(Char) /\ m \in Nat
    BY <1>4, <1>12, EscapeType
  <1>14. CASE x
    <2>1. seg = <<"open", "quote">> \o E \o <<"quote", "close">>
      BY <1>8, <1>12, <1>14, Zenon DEF Spelled
    <2>2. /\ Len(seg) = m + 4 /\ seg[1] = "open" /\ seg[2] = "quote"
          /\ \A i \in 1 .. m : seg[2 + i] = E[i]
          /\ seg[3 + m] = "quote" /\ seg[4 + m] = "close"
      BY <1>12, <1>13, <2>1, InBracketsLies
    <2>3. /\ p = o + 4 + m /\ text[o + 1] = "open" /\ text[o + 2] = "quote"
          /\ text[o + 3 + m] = "quote" /\ text[o + 4 + m] = "close" /\ p \in Nat /\ n > 0
      BY <1>3, <1>4, <1>11, <1>13, <1>14, <2>2
    <2>4. \A i \in 1 .. m : text[o + 2 + i] = E[i]
      <3> TAKE i \in 1 .. m
      <3>1. 2 + i \in 1 .. Len(seg) /\ o + (2 + i) = o + 2 + i
        BY <1>11, <1>13, <2>2
      <3> QED
        BY <1>11, <2>2, <3>1, Zenon
    <2> QED
      BY <1>2, <1>4, <1>5, <1>10, <1>11, <1>12, <1>14, <2>3, <2>4, Zenon DEF KeyLies, LiesAt
  <1>15. CASE ~x /\ n = 0
    <2>1. seg = k
      BY <1>8, <1>15 DEF Spelled
    <2>2. /\ p = o + 0 + Len(k) /\ (\A i \in 1 .. Len(k) : text[o + 0 + i] = k[i])
          /\ p \in Nat /\ ~(n > 0)
      BY <1>5, <1>11, <1>15, <2>1
    <2> QED
      BY <1>2, <1>4, <1>5, <1>10, <1>11, <1>15, <2>2, Zenon DEF KeyLies, LiesAt
  <1>16. CASE ~x /\ n # 0
    <2>1. seg = <<"dot">> \o k
      BY <1>8, <1>16 DEF Spelled
    <2>2. Len(seg) = 1 + Len(k) /\ seg[1] = "dot" /\ \A i \in 1 .. Len(k) : seg[1 + i] = k[i]
      <3>1. PICK d : d = <<"dot">>
        OBVIOUS
      <3>2. d \in Seq(Char) /\ Len(d) = 1 /\ d[1] = "dot"
        BY <3>1, MarksAreChars DEF Mark
      <3>3. Joined(seg, d, k)
        BY <1>4, <2>1, <3>1, <3>2, ConcatIs, Zenon
      <3> QED
        BY <1>5, <3>2, <3>3 DEF Joined
    <2>3. /\ p = o + 1 + Len(k) /\ text[o + 1] = "dot" /\ p \in Nat
      BY <1>5, <1>11, <2>2
    <2>4. \A i \in 1 .. Len(k) : text[o + 1 + i] = k[i]
      BY <1>5, <1>11, <2>2
    <2> QED
      BY <1>2, <1>4, <1>5, <1>10, <1>11, <1>16, <2>3, <2>4, Zenon DEF KeyLies, LiesAt
  <1> QED
    BY <1>4, <1>14, <1>15, <1>16

(* They fill it from the front to the end.                                  *)
LEMMA KeysEnd ==
    ASSUME NEW text, NEW ks \in Seq(Seq(Char)), NEW b \in [1 .. Len(ks) -> BOOLEAN],
           Spells(text, ks, b)
    PROVE  /\ Offset(Segments(ks, b), 0) = 0
           /\ Offset(Segments(ks, b), Len(ks)) = Len(text)
  <1>1. Segments(ks, b) \in Seq(Seq(Char)) /\ Len(Segments(ks, b)) = Len(ks)
    BY SegmentsType
  <1>2. text = FlattenSeq(Segments(ks, b))
    BY DEF Spells, SpelledPath, Segments
  <1>3. Offset(Segments(ks, b), Len(Segments(ks, b))) = Len(FlattenSeq(Segments(ks, b)))
    BY <1>1, OffsetOfAll, Zenon
  <1> QED
    BY <1>1, <1>2, <1>3, OffsetOfNone, Zenon

------------------------------------------------------------------------------
(* What is spelled is accepted as it is meant.                              *)

(* What follows the n-th key.                                               *)
EndsAt(text, ks, b, n, p) ==
    IF n + 1 = Len(ks) THEN p = Len(text)
    ELSE /\ p < Len(text) /\ b[n + 2] \in BOOLEAN
         /\ IF b[n + 2] THEN text[p + 1] = "open"
            ELSE text[p + 1] = "dot" /\ p + 1 < Len(text)

(* After the last key the path ends; any other is followed by a bracket, or *)
(* by a dot and something after it.                                         *)
LEMMA KeysAreFollowed ==
    ASSUME NEW text, NEW ks \in Seq(Seq(Char)), NEW b \in [1 .. Len(ks) -> BOOLEAN],
           Spells(text, ks, b), NEW n \in 0 .. Len(ks) - 1, Len(text) \in Nat
    PROVE  EndsAt(text, ks, b, n, Offset(Segments(ks, b), n + 1))
  <1>1. PICK N \in Nat : N = Len(ks)
    OBVIOUS
  <1>2. CASE n + 1 = N
    <2>1. Offset(Segments(ks, b), N) = Len(text)
      BY <1>1, KeysEnd, Zenon
    <2> QED
      BY <1>1, <1>2, <2>1, Zenon DEF EndsAt
  <1>3. CASE n + 1 # N
    <2>1. PICK m : m = n + 1
      OBVIOUS
    <2>2. m \in 0 .. Len(ks) - 1 /\ m + 1 = n + 2 /\ m > 0 /\ m # 0
      BY <1>1, <1>3, <2>1
    <2>3. KeyLies(text, ks, b, m)
      BY <2>2, KeysLie
    <2>4. PICK p, q, k, x : /\ p = Offset(Segments(ks, b), m) /\ q = Offset(Segments(ks, b), m + 1)
                            /\ k = ks[m + 1] /\ x = b[m + 1]
      OBVIOUS
    <2>5. LiesAt(text, p, q, k, x, m)
      BY <2>3, <2>4, Zenon DEF KeyLies
    <2>6. Len(Escape(k)) \in Nat
      <3>1. k \in Seq(Char)
        BY <2>5 DEF LiesAt
      <3> QED
        BY <3>1, EscapeEnds
    <2>7. p < Len(text) /\ x \in BOOLEAN
      BY <2>2, <2>5, <2>6 DEF LiesAt
    <2>8. IF x THEN text[p + 1] = "open" ELSE text[p + 1] = "dot" /\ p + 1 < Len(text)
      BY <2>2, <2>5, <2>6 DEF LiesAt
    <2> QED
      BY <1>1, <1>3, <2>1, <2>2, <2>4, <2>7, <2>8, Zenon DEF EndsAt
  <1> QED
    BY <1>2, <1>3

(* Where the parser is in the spelling of the n-th key.                     *)
InSegment(o, x, n) ==
    key = <<>> /\ (afterDot <=> n > 0 /\ ~x) /\ at = o + (IF afterDot THEN 2 ELSE 1)
InName(o, x, n) == ~x /\ at = o + (IF n = 0 THEN 1 ELSE 2) + Len(key)
InQuotes(o, x, n, e) == n > 0 /\ x /\ at = o + 3 + e
(* What was read of key k, which is spelled after o, is how k begins.       *)
InKey(o, k, x, n) ==
    /\ Len(key) <= Len(k) /\ key = SubSeq(k, 1, Len(key))
    /\ parse = "segment" => InSegment(o, x, n)
    /\ parse = "name" => InName(o, x, n)
    /\ parse = "quoted" => InQuotes(o, x, n, Offset(EscapedChars(k), Len(key)))

(* The keys read so far, and the one being read, are the first that are     *)
(* meant.                                                                   *)
Followed(b) ==
    LET n == Len(keys) IN
    /\ n <= Len(meant) /\ keys = SubSeq(meant, 1, n)
    /\ parse \in {"segment", "name", "quoted"} =>
          n < Len(meant) /\ InKey(Offset(Segments(meant, b), n), meant[n + 1], b[n + 1], n)

(* A spelling of what is meant is never refused, and is read as that.       *)
ReadAsMeant(b) ==
    /\ Spells(path, meant, b)
    /\ parse # "refused"
    /\ parse = "accepted" => keys = meant
    /\ parse # "verbatim" => Followed(b)

(* If the path was made to mean some keys, by a choice of those in          *)
(* brackets, it is read as those.                                           *)
MeantInv ==
    /\ PathInv
    /\ parse = "verbatim" <=> Verbatim(use, path)
    /\ meant # <<>> => \E b \in [1 .. Len(meant) -> BOOLEAN] : ReadAsMeant(b)

(* The key the parser is in, by name.                                       *)
KeyBeingRead(b, n, o, p, k, x) ==
    /\ n = Len(keys) /\ n \in 0 .. Len(meant) - 1 /\ keys = SubSeq(meant, 1, n)
    /\ o = Offset(Segments(meant, b), n) /\ p = Offset(Segments(meant, b), n + 1)
    /\ k = meant[n + 1] /\ x = b[n + 1]
    /\ InKey(o, k, x, n)
    /\ LiesAt(path, o, p, k, x, n) /\ EndsAt(path, meant, b, n, p)

(* Where it stands in a key, the parser is in the spelling of one that is   *)
(* meant.                                                                   *)
LEMMA AKeyIsRead ==
    ASSUME PathInv, NEW b \in [1 .. Len(meant) -> BOOLEAN], ReadAsMeant(b),
           parse \in {"segment", "name", "quoted"}
    PROVE  \E n, o, p, k, x : KeyBeingRead(b, n, o, p, k, x)
  <1>1. keys \in Seq(Seq(Char)) /\ meant \in Seq(Seq(Char)) /\ path \in Seq(Char)
    BY DEF PathInv, PathTypeOK
  <1>2. Len(keys) \in Nat /\ Len(meant) \in Nat /\ Len(path) \in Nat
    BY <1>1
  <1>3. PICK n, o, p, k, x :
          /\ n = Len(keys) /\ o = Offset(Segments(meant, b), n)
          /\ p = Offset(Segments(meant, b), n + 1) /\ k = meant[n + 1] /\ x = b[n + 1]
    OBVIOUS
  <1>4. Spells(path, meant, b) /\ Followed(b)
    BY DEF ReadAsMeant
  <1>5. n < Len(meant) /\ keys = SubSeq(meant, 1, n) /\ InKey(o, k, x, n)
    BY <1>3, <1>4, Zenon DEF Followed
  <1>6. n \in 0 .. Len(meant) - 1
    BY <1>2, <1>3, <1>5
  <1>7. LiesAt(path, o, p, k, x, n)
    <2>1. KeyLies(path, meant, b, n)
      BY <1>1, <1>4, <1>6, KeysLie
    <2> QED
      BY <1>3, <2>1, Zenon DEF KeyLies
  <1>8. EndsAt(path, meant, b, n, p)
    BY <1>1, <1>2, <1>3, <1>4, <1>6, KeysAreFollowed, Zenon
  <1> QED
    BY <1>3, <1>5, <1>6, <1>7, <1>8, Zenon DEF KeyBeingRead

(* A step within the key leaves it being read.                              *)
LEMMA KeyIsReadOn ==
    ASSUME NEW b, ReadAsMeant(b), NEW n, NEW o, NEW p, NEW k, NEW x, KeyBeingRead(b, n, o, p, k, x),
           UNCHANGED <<path, meant, keys>>, parse' \in {"name", "quoted"}, n < Len(meant),
           InKey(o, k, x, n)'
    PROVE  ReadAsMeant(b)'
  <1>1. Spells(path', meant', b)
    BY DEF ReadAsMeant
  <1>2. n = Len(keys') /\ keys' = SubSeq(meant', 1, n) /\ k = meant'[n + 1] /\ x = b[n + 1]
        /\ o = Offset(Segments(meant', b), n) /\ n < Len(meant')
    BY DEF KeyBeingRead
  <1>3. n <= Len(meant')
    BY DEF KeyBeingRead
  <1> QED
    BY <1>1, <1>2, <1>3, Zenon DEF ReadAsMeant, Followed, InKey, InSegment, InName, InQuotes

(* The part of a key that has been read, one character on.                           *)
LEMMA PrefixIsOneLonger ==
    ASSUME NEW k \in Seq(Char), NEW m \in 0 .. Len(k) - 1
    PROVE  /\ SubSeq(k, 1, m + 1) = Append(SubSeq(k, 1, m), k[m + 1])
           /\ Len(SubSeq(k, 1, m + 1)) = m + 1
           /\ k[m + 1] \in Char
  <1>1. SubSeq(k, 1, m + 1) = Append(SubSeq(k, 1, m), k[m + 1])
    BY SubSeqAppend
  <1> QED
    BY <1>1

(* A name has neither a dot nor a bracket in it.                            *)
LEMMA NameHasNoMark ==
    ASSUME NEW k \in Seq(Char), IsName(k), NEW i \in 1 .. Len(k)
    PROVE  k[i] \notin {"dot", "open"}
  BY DEF IsName, Contains

(* BeginName: what begins with neither a dot nor a bracket is meant as a    *)
(* name.                                                                    *)
LEMMA MeantNameIsBegun ==
    ASSUME PathInv, NEW b \in [1 .. Len(meant) -> BOOLEAN], ReadAsMeant(b), BeginName
    PROVE  ReadAsMeant(b)'
  <1>1. /\ parse = "segment" /\ parse' = "name" /\ path[at] \notin {"dot", "open"}
        /\ UNCHANGED <<path, meant, at, keys, key, afterDot>>
    BY DEF BeginName, configVars, PartOfName
  <1>2. PICK n, o, p, k, x : KeyBeingRead(b, n, o, p, k, x)
    BY <1>1, AKeyIsRead
  <1>3. n < Len(meant) /\ n \in Nat /\ Len(meant) \in Nat
    BY <1>2 DEF KeyBeingRead, PathInv, PathTypeOK
  <1>4. LiesAt(path, o, p, k, x, n) /\ InKey(o, k, x, n)
    BY <1>2 DEF KeyBeingRead
  <1>5. InSegment(o, x, n) /\ Len(key) <= Len(k) /\ key = SubSeq(k, 1, Len(key))
    BY <1>1, <1>4 DEF InKey
  <1>6. ~x
    <2> SUFFICES ASSUME x PROVE FALSE
      BY <1>4 DEF LiesAt
    <2>1. path[o + 1] = "open"
      BY <1>4 DEF LiesAt
    <2> QED
      BY <1>1, <1>5, <2>1 DEF InSegment
  <1>7. InName(o, x, n)
    <2>1. Len(key) = 0 /\ (afterDot <=> n > 0) /\ at = o + (IF afterDot THEN 2 ELSE 1)
      BY <1>5, <1>6 DEF InSegment
    <2>2. o \in Nat
      BY <1>4 DEF LiesAt
    <2> QED
      BY <1>3, <1>6, <2>1, <2>2 DEF InName
  <1>8. InKey(o, k, x, n)'
    BY <1>1, <1>5, <1>7 DEF InKey, InName
  <1> QED
    BY <1>1, <1>2, <1>3, <1>8, KeyIsReadOn

(* ReadName: a name is not through, or a mark would follow.                 *)
LEMMA MeantNameIsRead ==
    ASSUME PathInv, NEW b \in [1 .. Len(meant) -> BOOLEAN], ReadAsMeant(b), ReadName
    PROVE  ReadAsMeant(b)'
  <1>1. /\ parse = "name" /\ parse' = "name" /\ at <= Len(path) /\ path[at] \notin {"dot", "open"}
        /\ key' = Append(key, path[at]) /\ at' = at + 1
        /\ UNCHANGED <<path, meant, keys, afterDot>>
    BY DEF ReadName, configVars, PartOfName, More
  <1>2. PICK n, o, p, k, x : KeyBeingRead(b, n, o, p, k, x)
    BY <1>1, AKeyIsRead
  <1>3. n < Len(meant) /\ n \in Nat /\ Len(meant) \in Nat /\ Len(path) \in Nat
    BY <1>2 DEF KeyBeingRead, PathInv, PathTypeOK
  <1>4. LiesAt(path, o, p, k, x, n) /\ InKey(o, k, x, n) /\ EndsAt(path, meant, b, n, p)
    BY <1>2 DEF KeyBeingRead
  <1>5. InName(o, x, n) /\ Len(key) <= Len(k) /\ key = SubSeq(k, 1, Len(key))
    BY <1>1, <1>4 DEF InKey
  <1>6. PICK m, s : m = Len(key) /\ s = IF n = 0 THEN 0 ELSE 1
    OBVIOUS
  <1>7. m \in Nat /\ s \in {0, 1}
    BY <1>6 DEF PathInv, PathTypeOK
  <1>8. /\ o \in Nat /\ k \in Seq(Char) /\ Len(k) \in Nat /\ p = o + s + Len(k)
        /\ \A i \in 1 .. Len(k) : path[o + s + i] = k[i]
    BY <1>4, <1>5, <1>6 DEF LiesAt, InName
  <1>9. at = o + s + m + 1
    BY <1>5, <1>6, <1>7, <1>8 DEF InName
  <1>10. m # Len(k)
    <2> SUFFICES ASSUME m = Len(k) PROVE FALSE
      OBVIOUS
    <2>1. at = p + 1
      BY <1>7, <1>8, <1>9
    <2>2. p < Len(path)
      BY <1>1, <1>3, <1>7, <1>8, <2>1
    <2>3. path[p + 1] \in {"open", "dot"}
      BY <1>4, <2>2, <1>3 DEF EndsAt
    <2> QED
      BY <1>1, <2>1, <2>3
  <1>11. m \in 0 .. Len(k) - 1
    BY <1>5, <1>6, <1>7, <1>8, <1>10
  <1>12. path[at] = k[m + 1]
    BY <1>7, <1>8, <1>9, <1>11
  <1>13. key' = SubSeq(k, 1, m + 1) /\ Len(key') = m + 1
    <2>1. key' = Append(SubSeq(k, 1, m), k[m + 1])
      BY <1>1, <1>5, <1>6, <1>12
    <2> QED
      BY <1>8, <1>11, <2>1, PrefixIsOneLonger
  <1>14. InName(o, x, n)'
    <2>1. s + 1 = IF n = 0 THEN 1 ELSE 2
      BY <1>6
    <2>2. at' = o + (s + 1) + (m + 1)
      BY <1>1, <1>7, <1>8, <1>9
    <2> QED
      BY <1>5, <1>13, <2>1, <2>2, Zenon DEF InName
  <1>15. InKey(o, k, x, n)'
    <2>1. Len(key') <= Len(k) /\ key' = SubSeq(k, 1, Len(key'))
      BY <1>8, <1>11, <1>13
    <2> QED
      BY <1>1, <1>14, <2>1 DEF InKey, InName
  <1> QED
    BY <1>1, <1>2, <1>3, <1>15, KeyIsReadOn

(* BeginBracket: what begins with a bracket is meant as a key in brackets.  *)
LEMMA MeantBracketIsBegun ==
    ASSUME PathInv, NEW b \in [1 .. Len(meant) -> BOOLEAN], ReadAsMeant(b), BeginBracket
    PROVE  ReadAsMeant(b)'
  <1>1. /\ parse = "segment" /\ parse' = "quoted" /\ at' = at + 2 /\ keys # <<>> /\ ~afterDot
        /\ UNCHANGED <<path, meant, keys, key, afterDot>>
    BY DEF BeginBracket, BracketAllowed, configVars
  <1>2. PICK n, o, p, k, x : KeyBeingRead(b, n, o, p, k, x)
    BY <1>1, AKeyIsRead
  <1>3. n < Len(meant) /\ n \in Nat /\ Len(meant) \in Nat /\ n # 0
    BY <1>1, <1>2, EmptySeq DEF KeyBeingRead, PathInv, PathTypeOK
  <1>4. LiesAt(path, o, p, k, x, n) /\ InKey(o, k, x, n)
    BY <1>2 DEF KeyBeingRead
  <1>5. InSegment(o, x, n) /\ Len(key) <= Len(k) /\ key = SubSeq(k, 1, Len(key))
    BY <1>1, <1>4 DEF InKey
  <1>6. x /\ key = <<>> /\ at = o + 1 /\ n > 0
    BY <1>1, <1>3, <1>5 DEF InSegment
  <1>7. o \in Nat /\ k \in Seq(Char)
    BY <1>4 DEF LiesAt
  <1>8. Len(key') = 0 /\ Offset(EscapedChars(k), 0) = 0
    BY <1>1, <1>6, <1>7, EscapeEnds
  <1>9. InQuotes(o, x, n, 0)'
    BY <1>1, <1>6, <1>7 DEF InQuotes
  <1>10. Len(key') <= Len(k) /\ key' = SubSeq(k, 1, Len(key'))
    BY <1>1, <1>5
  <1>11. InKey(o, k, x, n)'
    BY <1>1, <1>8, <1>9, <1>10 DEF InKey, InQuotes
  <1> QED
    BY <1>1, <1>2, <1>3, <1>11, KeyIsReadOn

(* The character in brackets at which the parser is.                        *)
QuotedAt(o, k, p, m, e, next) ==
    /\ m = Len(key) /\ m \in 0 .. Len(k) /\ key = SubSeq(k, 1, m)
    /\ e \in Nat /\ at = o + 3 + e
    /\ m = Len(k) => at + 1 = p /\ path[at] = "quote" /\ path[at + 1] = "close"
    /\ m # Len(k) =>
          IF k[m + 1] \in {"quote", "backslash"}
          THEN next = e + 2 /\ at + 1 < p /\ path[at] = "backslash" /\ path[at + 1] = k[m + 1]
          ELSE next = e + 1 /\ at < p /\ path[at] = k[m + 1]

(* In brackets the parser is at a character of the key, or at its end.      *)
LEMMA QuotedLies ==
    ASSUME PathInv, NEW b, NEW n, NEW o, NEW p, NEW k, NEW x, KeyBeingRead(b, n, o, p, k, x),
           parse = "quoted"
    PROVE  /\ x /\ n > 0
           /\ QuotedAt(o, k, p, Len(key), Offset(EscapedChars(k), Len(key)),
                       Offset(EscapedChars(k), Len(key) + 1))
  <1>1. LiesAt(path, o, p, k, x, n) /\ InKey(o, k, x, n)
    BY DEF KeyBeingRead
  <1>2. PICK m, e, next, E, l : /\ m = Len(key) /\ e = Offset(EscapedChars(k), m)
                                /\ next = Offset(EscapedChars(k), m + 1)
                                /\ E = Escape(k) /\ l = Len(E)
    OBVIOUS
  <1>3. /\ InQuotes(o, x, n, e) /\ m <= Len(k) /\ key = SubSeq(k, 1, m)
    BY <1>1, <1>2, Zenon DEF InKey
  <1>4. x /\ n > 0 /\ at = o + 3 + e
    BY <1>3 DEF InQuotes
  <1>5. /\ o \in Nat /\ k \in Seq(Char) /\ Len(k) \in Nat /\ p = o + 4 + l
        /\ \A i \in 1 .. l : path[o + 2 + i] = E[i]
        /\ path[o + 3 + l] = "quote" /\ path[o + 4 + l] = "close"
    BY <1>1, <1>2, <1>4, Zenon DEF LiesAt
  <1>6. Len(k) \in Nat
    BY <1>5
  <1>7. m \in Nat /\ m \in 0 .. Len(k) /\ l \in Nat
    <2>1. m \in Nat
      BY <1>2 DEF PathInv, PathTypeOK
    <2>2. l \in Nat
      BY <1>2, <1>5, EscapeEnds, Zenon
    <2> QED
      BY <1>3, <1>6, <2>1, <2>2
  <1>8. CASE m = Len(k)
    <2>1. e = l
      BY <1>2, <1>5, <1>8, EscapeEnds, Zenon
    <2>2. at + 1 = p /\ path[at] = "quote" /\ path[at + 1] = "close" /\ e \in Nat
      <3>1. at = o + 3 + l /\ at + 1 = o + 4 + l
        BY <1>4, <1>5, <1>7, <2>1
      <3> QED
        BY <1>5, <1>7, <2>1, <3>1, Zenon
    <2> QED
      BY <1>2, <1>3, <1>4, <1>7, <1>8, <2>2, Zenon DEF QuotedAt
  <1>9. CASE m # Len(k)
    <2>1. PICK c : c = k[m + 1]
      OBVIOUS
    <2>2. CharLies(E, e, next, c)
      <3>1. m \in 0 .. Len(k) - 1
        BY <1>6, <1>7, <1>9
      <3>2. EscapeLies(k, m)
        BY <1>5, <3>1, EscapedCharactersLie, Zenon
      <3> QED
        BY <1>2, <2>1, <3>2, Zenon DEF EscapeLies
    <2>3. CASE c \in {"quote", "backslash"}
      <3>1. e \in Nat /\ next = e + 2 /\ next <= l /\ E[e + 1] = "backslash" /\ E[e + 2] = c
        BY <1>2, <2>2, <2>3 DEF CharLies
      <3>2. /\ path[o + 2 + (e + 1)] = "backslash" /\ path[o + 2 + (e + 2)] = c
            /\ o + 2 + (e + 1) = at /\ o + 2 + (e + 2) = at + 1 /\ at + 1 < p
        BY <1>4, <1>5, <1>7, <3>1
      <3> QED
        BY <1>2, <1>3, <1>4, <1>7, <1>9, <2>1, <2>3, <3>1, <3>2, Zenon DEF QuotedAt
    <2>4. CASE c \notin {"quote", "backslash"}
      <3>1. e \in Nat /\ next = e + 1 /\ next <= l /\ E[e + 1] = c
        BY <1>2, <2>2, <2>4 DEF CharLies
      <3>2. path[o + 2 + (e + 1)] = c /\ o + 2 + (e + 1) = at /\ at < p
        BY <1>4, <1>5, <1>7, <3>1
      <3> QED
        BY <1>2, <1>3, <1>4, <1>7, <1>9, <2>1, <2>4, <3>1, <3>2, Zenon DEF QuotedAt
    <2> QED
      BY <2>3, <2>4
  <1> QED
    BY <1>8, <1>9, <1>4

(* ReadQuoted and ReadEscape read the character that is meant, escaped or   *)
(* not.                                                                     *)
LEMMA MeantQuotedIsRead ==
    ASSUME PathInv, NEW b \in [1 .. Len(meant) -> BOOLEAN], ReadAsMeant(b), ReadQuoted \/ ReadEscape
    PROVE  ReadAsMeant(b)'
  <1>1. /\ parse = "quoted" /\ parse' = "quoted"
        /\ UNCHANGED <<path, meant, keys, afterDot>>
    BY DEF ReadQuoted, ReadEscape, configVars
  <1>2. PICK n, o, p, k, x : KeyBeingRead(b, n, o, p, k, x)
    BY <1>1, AKeyIsRead
  <1>3. n < Len(meant) /\ k \in Seq(Char) /\ Len(k) \in Nat /\ o \in Nat
    BY <1>2 DEF KeyBeingRead, PathInv, PathTypeOK, LiesAt
  <1>4. PICK m, e, next : /\ m = Len(key) /\ e = Offset(EscapedChars(k), m)
                          /\ next = Offset(EscapedChars(k), m + 1)
    OBVIOUS
  <1>5. x /\ n > 0 /\ QuotedAt(o, k, p, m, e, next)
    <2>1. /\ x /\ n > 0
          /\ QuotedAt(o, k, p, Len(key), Offset(EscapedChars(k), Len(key)),
                      Offset(EscapedChars(k), Len(key) + 1))
      BY <1>1, <1>2, QuotedLies
    <2> QED
      BY <1>4, <2>1, Zenon
  <1>6. key' = Append(key, k[m + 1]) /\ m # Len(k) /\ at' = o + 3 + next
    <2>1. CASE ReadQuoted
      <3>1. path[at] \notin {"quote", "backslash"} /\ key' = Append(key, path[at]) /\ at' = at + 1
        BY <2>1 DEF ReadQuoted
      <3>2. /\ m # Len(k) /\ k[m + 1] \notin {"quote", "backslash"} /\ path[at] = k[m + 1]
            /\ next = e + 1
        BY <1>5, <3>1, Zenon DEF QuotedAt
      <3>3. at' = o + 3 + next
        BY <1>3, <1>5, <3>1, <3>2 DEF QuotedAt
      <3> QED
        BY <3>1, <3>2, <3>3
    <2>2. CASE ReadEscape
      <3>1. path[at] = "backslash" /\ path[at + 1] \in {"quote", "backslash"}
            /\ key' = Append(key, path[at + 1]) /\ at' = at + 2
        BY <2>2 DEF ReadEscape, Follows
      <3>2. m # Len(k)
        BY <1>5, <3>1 DEF QuotedAt
      <3>3. k[m + 1] \in {"quote", "backslash"}
        BY <1>5, <3>1, <3>2 DEF QuotedAt
      <3>4. path[at + 1] = k[m + 1] /\ next = e + 2
        BY <1>5, <3>2, <3>3, Zenon DEF QuotedAt
      <3>5. at' = o + 3 + next
        BY <1>3, <1>5, <3>1, <3>4 DEF QuotedAt
      <3> QED
        BY <3>1, <3>2, <3>4, <3>5, Zenon
    <2> QED
      BY <2>1, <2>2
  <1>7. m \in 0 .. Len(k) - 1 /\ key = SubSeq(k, 1, m)
    BY <1>3, <1>5, <1>6 DEF QuotedAt
  <1>8. key' = SubSeq(k, 1, m + 1) /\ Len(key') = m + 1 /\ m + 1 <= Len(k)
    BY <1>3, <1>6, <1>7, PrefixIsOneLonger
  <1>9. InQuotes(o, x, n, next)'
    BY <1>5, <1>6 DEF InQuotes
  <1>10. InKey(o, k, x, n)'
    BY <1>1, <1>4, <1>8, <1>9, Zenon DEF InKey, InQuotes
  <1> QED
    BY <1>1, <1>2, <1>3, <1>10, KeyIsReadOn

(* A key is through with the last character it is spelled with.             *)
LEMMA MeantKeyIsEnded ==
    ASSUME PathInv, PathInv', NEW b \in [1 .. Len(meant) -> BOOLEAN], ReadAsMeant(b),
           NEW n, NEW o, NEW p, NEW k, NEW x, KeyBeingRead(b, n, o, p, k, x),
           key = k, NEW next, next = p + 1, EndKey(next)
    PROVE  ReadAsMeant(b)'
  <1>1. /\ keys' = Append(keys, key) /\ key' = <<>>
        /\ afterDot' = (next <= Len(path) /\ path[next] = "dot")
        /\ at' = IF next <= Len(path) /\ path[next] = "dot" THEN next + 1 ELSE next
        /\ parse' = IF next > Len(path) THEN "accepted"
                    ELSE IF path[next] = "open" \/ (path[next] = "dot" /\ next < Len(path))
                    THEN "segment" ELSE "refused"
        /\ UNCHANGED <<path, meant>>
    BY DEF EndKey, AfterKey, configVars
  <1>2. /\ n \in 0 .. Len(meant) - 1 /\ keys = SubSeq(meant, 1, n)
        /\ p = Offset(Segments(meant, b), n + 1) /\ k = meant[n + 1]
        /\ LiesAt(path, o, p, k, x, n) /\ EndsAt(path, meant, b, n, p)
    BY DEF KeyBeingRead
  <1>3. meant \in Seq(Seq(Char)) /\ path \in Seq(Char)
    BY DEF PathInv, PathTypeOK
  <1>4. Len(meant) \in Nat /\ Len(path) \in Nat /\ p \in Nat /\ n \in Nat /\ Spells(path, meant, b)
    BY <1>2, <1>3 DEF LiesAt, ReadAsMeant
  <1>5. keys' = SubSeq(meant, 1, n + 1)
    BY <1>1, <1>2, <1>3, SubSeqAppend
  <1>6. Len(keys') = n + 1
    <2>1. n + 1 \in 0 .. Len(meant)
      BY <1>2, <1>4
    <2> QED
      BY <1>3, <1>5, <2>1
  <1>7. CASE n + 1 = Len(meant)
    <2>1. p = Len(path)
      BY <1>2, <1>7 DEF EndsAt
    <2>2. parse' = "accepted"
      BY <1>1, <1>4, <2>1
    <2>3. keys' = meant
      BY <1>3, <1>5, <1>7, SubSeqFull, Zenon
    <2>4. n + 1 <= Len(meant)
      BY <1>4, <1>7
    <2>5. Len(keys') <= Len(meant') /\ keys' = SubSeq(meant', 1, Len(keys'))
      BY <1>1, <1>5, <1>6, <2>4, Zenon
    <2>6. Followed(b)'
      BY <2>2, <2>5 DEF Followed
    <2> QED
      BY <1>1, <1>4, <2>2, <2>3, <2>6 DEF ReadAsMeant
  <1>8. CASE n + 1 # Len(meant)
    <2>1. PICK y : y = b[n + 2]
      OBVIOUS
    <2>2. /\ p < Len(path) /\ y \in BOOLEAN
          /\ IF y THEN path[p + 1] = "open" ELSE path[p + 1] = "dot" /\ p + 1 < Len(path)
      BY <1>2, <1>8, <2>1, Zenon DEF EndsAt
    <2>3. n + 1 < Len(meant) /\ n + 1 <= Len(meant) /\ n + 1 > 0 /\ n + 1 + 1 = n + 2
      BY <1>2, <1>4, <1>8
    <2>4. next \in Nat /\ next <= Len(path) /\ ~(next > Len(path))
      BY <1>4, <2>2
    <2>5. /\ parse' = "segment" /\ (afterDot' <=> ~y)
          /\ at' = p + (IF afterDot' THEN 2 ELSE 1)
      <3>1. CASE y
        <4>1. path[next] = "open"
          BY <2>2, <3>1
        <4>2. parse' = "segment" /\ ~afterDot' /\ at' = next
          BY <1>1, <2>4, <4>1
        <4> QED
          BY <1>4, <3>1, <4>2
      <3>2. CASE ~y
        <4>1. path[next] = "dot" /\ next < Len(path)
          BY <2>2, <3>2
        <4>2. parse' = "segment" /\ afterDot' /\ at' = next + 1
          BY <1>1, <2>4, <4>1
        <4> QED
          BY <1>4, <3>2, <4>2
      <3> QED
        BY <3>1, <3>2
    <2>6. PICK l : l = meant[n + 2]
      OBVIOUS
    <2>7. Len(key') = 0 /\ Len(key') <= Len(l) /\ key' = SubSeq(l, 1, Len(key'))
      <3>1. l \in Seq(Char)
        <4>1. n + 2 \in 1 .. Len(meant)
          BY <1>4, <2>3
        <4> QED
          BY <1>3, <2>6, <4>1, ElementOfSeq
      <3> QED
        BY <1>1, <3>1
    <2>8. InSegment(p, y, n + 1)'
      BY <1>1, <2>3, <2>5 DEF InSegment
    <2>9. InKey(p, l, y, n + 1)'
      BY <2>5, <2>7, <2>8 DEF InKey, InSegment
    <2>10. Followed(b)'
      <3>1. PICK m : m = n + 1
        OBVIOUS
      <3>2. /\ m = Len(keys') /\ m < Len(meant') /\ m <= Len(meant') /\ keys' = SubSeq(meant', 1, m)
            /\ p = Offset(Segments(meant', b), m) /\ l = meant'[m + 1] /\ y = b[m + 1]
        BY <1>1, <1>2, <1>5, <1>6, <2>1, <2>3, <2>6, <3>1, Zenon
      <3>3. InKey(p, l, y, m)'
        BY <2>9, <3>1
      <3> QED
        BY <3>2, <3>3, Zenon DEF Followed, InKey, InSegment, InName, InQuotes
    <2> QED
      BY <1>1, <1>4, <2>5, <2>10 DEF ReadAsMeant
  <1> QED
    BY <1>7, <1>8

(* EndName: a name ends where it is meant to, for it has no mark in it.     *)
LEMMA MeantNameIsEnded ==
    ASSUME PathInv, PathInv', NEW b \in [1 .. Len(meant) -> BOOLEAN], ReadAsMeant(b), EndName
    PROVE  ReadAsMeant(b)'
  <1>1. parse = "name" /\ EndKey(at) /\ (at <= Len(path) => path[at] \in {"dot", "open"})
    BY DEF EndName, PartOfName, More
  <1>2. PICK n, o, p, k, x : KeyBeingRead(b, n, o, p, k, x)
    BY <1>1, AKeyIsRead
  <1>3. LiesAt(path, o, p, k, x, n) /\ InKey(o, k, x, n)
    BY <1>2 DEF KeyBeingRead
  <1>4. InName(o, x, n) /\ Len(key) <= Len(k) /\ key = SubSeq(k, 1, Len(key))
    BY <1>1, <1>3 DEF InKey
  <1>5. PICK m, s : m = Len(key) /\ s = IF n = 0 THEN 0 ELSE 1
    OBVIOUS
  <1>6. m \in Nat /\ s \in {0, 1}
    BY <1>5 DEF PathInv, PathTypeOK
  <1>7. /\ o \in Nat /\ k \in Seq(Char) /\ Len(k) \in Nat /\ p = o + s + Len(k) /\ IsName(k)
        /\ \A i \in 1 .. Len(k) : path[o + s + i] = k[i]
    BY <1>3, <1>4, <1>5 DEF LiesAt, InName
  <1>8. at = o + s + m + 1 /\ p <= Len(path) /\ Len(path) \in Nat
    BY <1>3, <1>4, <1>5, <1>6, <1>7 DEF InName, LiesAt, PathInv, PathTypeOK
  <1>9. m = Len(k)
    <2> SUFFICES ASSUME m # Len(k) PROVE FALSE
      OBVIOUS
    <2>1. m + 1 \in 1 .. Len(k)
      BY <1>4, <1>5, <1>6, <1>7
    <2>2. o + s + (m + 1) = at /\ at <= Len(path)
      BY <1>6, <1>7, <1>8, <2>1
    <2>3. path[at] = k[m + 1]
      BY <1>7, <2>1, <2>2, Zenon
    <2>4. k[m + 1] \notin {"dot", "open"}
      BY <1>7, <2>1, NameHasNoMark
    <2> QED
      BY <1>1, <2>2, <2>3, <2>4, Zenon
  <1>10. key = k
    BY <1>4, <1>5, <1>7, <1>9, SubSeqFull, Zenon
  <1>11. at = p + 1
    BY <1>6, <1>7, <1>8, <1>9
  <1> QED
    BY <1>1, <1>2, <1>10, <1>11, MeantKeyIsEnded

(* EndQuoted: a quote that is not escaped is the one after the key.         *)
LEMMA MeantQuotedIsEnded ==
    ASSUME PathInv, PathInv', NEW b \in [1 .. Len(meant) -> BOOLEAN], ReadAsMeant(b), EndQuoted
    PROVE  ReadAsMeant(b)'
  <1>1. parse = "quoted" /\ EndKey(at + 2) /\ path[at] = "quote"
    BY DEF EndQuoted
  <1>2. PICK n, o, p, k, x : KeyBeingRead(b, n, o, p, k, x)
    BY <1>1, AKeyIsRead
  <1>3. PICK m, e, next : /\ m = Len(key) /\ e = Offset(EscapedChars(k), m)
                          /\ next = Offset(EscapedChars(k), m + 1)
    OBVIOUS
  <1>4. QuotedAt(o, k, p, m, e, next)
    <2>1. QuotedAt(o, k, p, Len(key), Offset(EscapedChars(k), Len(key)),
                   Offset(EscapedChars(k), Len(key) + 1))
      BY <1>1, <1>2, QuotedLies
    <2> QED
      BY <1>3, <2>1, Zenon
  <1>5. m = Len(k)
    BY <1>1, <1>4 DEF QuotedAt
  <1>6. k \in Seq(Char) /\ o \in Nat /\ p \in Nat
    BY <1>2 DEF KeyBeingRead, LiesAt
  <1>7. key = k
    BY <1>4, <1>5, <1>6, SubSeqFull, Zenon DEF QuotedAt
  <1>8. at + 2 = p + 1
    BY <1>4, <1>5, <1>6 DEF QuotedAt
  <1> QED
    BY <1>1, <1>2, <1>7, <1>8, MeantKeyIsEnded

(* Nothing that is spelled is refused.                                      *)
LEMMA MeantIsNotRefused ==
    ASSUME PathInv, NEW b \in [1 .. Len(meant) -> BOOLEAN], ReadAsMeant(b)
    PROVE  ~Refuse
  <1> SUFFICES ASSUME parse \in {"segment", "quoted"}
               PROVE  ~Refuse
    BY DEF Refuse
  <1>1. PICK n, o, p, k, x : KeyBeingRead(b, n, o, p, k, x)
    BY AKeyIsRead
  <1>2. LiesAt(path, o, p, k, x, n) /\ InKey(o, k, x, n)
    BY <1>1 DEF KeyBeingRead
  <1>3. n \in Nat /\ (keys # <<>> <=> n > 0) /\ Len(path) \in Nat
    <2>1. n = Len(keys) /\ keys \in Seq(Seq(Char)) /\ path \in Seq(Char)
      BY <1>1 DEF KeyBeingRead, PathInv, PathTypeOK
    <2>2. n \in Nat /\ (n = 0 <=> keys = <<>>)
      BY <2>1, EmptySeq
    <2> QED
      BY <2>1, <2>2
  <1>4. CASE parse = "segment"
    <2>1. (afterDot <=> n > 0 /\ ~x) /\ at = o + (IF afterDot THEN 2 ELSE 1)
      BY <1>2, <1>4 DEF InKey, InSegment
    <2>2. CASE x
      <3>1. /\ n > 0 /\ p = o + 4 + Len(Escape(k)) /\ path[o + 1] = "open" /\ path[o + 2] = "quote"
            /\ o \in Nat /\ p <= Len(path) /\ p \in Nat /\ k \in Seq(Char)
        BY <1>2, <2>2 DEF LiesAt
      <3>2. Len(Escape(k)) \in Nat
        BY <3>1, EscapeEnds
      <3>3. at = o + 1 /\ at < Len(path) /\ at <= Len(path) /\ at + 1 = o + 2 /\ ~afterDot
        BY <1>3, <2>1, <2>2, <3>1, <3>2
      <3> QED
        BY <1>3, <1>4, <3>1, <3>3 DEF Refuse, More, BracketAllowed, Follows
    <2>3. CASE ~x
      <3>1. PICK s : s = IF n = 0 THEN 0 ELSE 1
        OBVIOUS
      <3>2. /\ IsName(k) /\ p = o + s + Len(k) /\ k \in Seq(Char) /\ Len(k) \in Nat \ {0}
            /\ o \in Nat /\ p <= Len(path) /\ \A i \in 1 .. Len(k) : path[o + s + i] = k[i]
        BY <1>2, <2>3, <3>1 DEF LiesAt
      <3>3. at = o + s + 1 /\ at <= Len(path)
        BY <1>3, <2>1, <2>3, <3>1, <3>2
      <3>4. 1 \in 1 .. Len(k)
        BY <3>2
      <3>5. path[at] = k[1] /\ k[1] \notin {"dot", "open"}
        BY <3>2, <3>3, <3>4, NameHasNoMark
      <3> QED
        BY <1>4, <3>3, <3>5 DEF Refuse, More
    <2>4. x \in BOOLEAN
      BY <1>2 DEF LiesAt
    <2> QED
      BY <2>2, <2>3, <2>4
  <1>5. CASE parse = "quoted"
    <2>1. PICK m, e, next : /\ m = Len(key) /\ e = Offset(EscapedChars(k), m)
                            /\ next = Offset(EscapedChars(k), m + 1)
      OBVIOUS
    <2>2. QuotedAt(o, k, p, m, e, next)
      <3>1. QuotedAt(o, k, p, Len(key), Offset(EscapedChars(k), Len(key)),
                     Offset(EscapedChars(k), Len(key) + 1))
        BY <1>1, <1>5, QuotedLies
      <3> QED
        BY <2>1, <3>1, Zenon
    <2>3. at \in Nat /\ p \in Nat /\ p <= Len(path) /\ k # <<>> /\ k \in Seq(Char) /\ Len(k) \in Nat
      BY <1>2 DEF LiesAt, PathInv, PathTypeOK
    <2>4. CASE m = Len(k)
      <3>1. at + 1 = p /\ path[at] = "quote" /\ path[at + 1] = "close"
        BY <2>2, <2>4 DEF QuotedAt
      <3>2. at <= Len(path) /\ at < Len(path)
        BY <1>3, <2>3, <3>1
      <3>3. key # <<>>
        BY <2>2, <2>3, <2>4, SubSeqFull, Zenon DEF QuotedAt
      <3> QED
        BY <1>5, <3>1, <3>2, <3>3 DEF Refuse, More, Follows
    <2>5. CASE m # Len(k)
      <3>1. CASE k[m + 1] \in {"quote", "backslash"}
        <4>1. at + 1 < p /\ path[at] = "backslash" /\ path[at + 1] \in {"quote", "backslash"}
          BY <2>2, <2>5, <3>1 DEF QuotedAt
        <4>2. at <= Len(path) /\ at < Len(path)
          BY <1>3, <2>3, <4>1
        <4> QED
          BY <1>5, <4>1, <4>2 DEF Refuse, More, Follows
      <3>2. CASE k[m + 1] \notin {"quote", "backslash"}
        <4>1. at < p /\ path[at] \notin {"quote", "backslash"}
          BY <2>2, <2>5, <3>2 DEF QuotedAt
        <4>2. at <= Len(path)
          BY <1>3, <2>3, <4>1
        <4> QED
          BY <1>5, <4>1, <4>2 DEF Refuse, More
      <3> QED
        BY <3>1, <3>2
    <2> QED
      BY <2>4, <2>5
  <1> QED
    BY <1>4, <1>5

(* At first the parser is at the first key that is meant.                   *)
LEMMA MeantFromTheStart == PathInit => MeantInv
  <1> SUFFICES ASSUME NEW u \in Use, NEW c \in Configured, PathStart(u, c)
               PROVE  MeantInv
    BY DEF PathInit
  <1>1. PathInv
    BY PathInitially DEF PathInit
  <1>2. /\ at = 1 /\ keys = <<>> /\ key = <<>> /\ ~afterDot
        /\ parse = IF Verbatim(use, path) THEN "verbatim" ELSE "segment"
        /\ path = c.text /\ meant = c.meant
    BY DEF PathStart
  <1>3. parse = "verbatim" <=> Verbatim(use, path)
    BY <1>2
  <1>4. ASSUME meant # <<>>
        PROVE  \E b \in [1 .. Len(meant) -> BOOLEAN] : ReadAsMeant(b)
    <2>1. PICK b \in [1 .. Len(meant) -> BOOLEAN] : Spells(path, meant, b)
      BY <1>2, <1>4, PathsAreText, Zenon
    <2>2. ~b[1]
      BY <2>1 DEF Spells
    <2>3. meant \in Seq(Seq(Char))
      BY <1>1 DEF PathInv, PathTypeOK
    <2>4. meant[1] \in Seq(Char) /\ 0 < Len(meant) /\ 0 <= Len(meant)
      BY <1>4, <2>3
    <2>5. PICK o, k, x : o = Offset(Segments(meant, b), 0) /\ k = meant[1] /\ x = b[1]
      OBVIOUS
    <2>6. o = 0
      BY <2>5, OffsetOfNone
    <2>7. Len(key) <= Len(k) /\ key = SubSeq(k, 1, Len(key))
      BY <1>2, <2>4, <2>5
    <2>8. InSegment(o, x, 0)
      BY <1>2, <2>2, <2>5, <2>6 DEF InSegment
    <2>9. InKey(o, k, x, 0)
      BY <1>2, <2>7, <2>8 DEF InKey
    <2>10. Followed(b)
      <3>1. Len(keys) = 0 /\ keys = SubSeq(meant, 1, 0)
        BY <1>2, <2>3
      <3>2. 0 + 1 = 1
        OBVIOUS
      <3> QED
        BY <2>4, <2>5, <2>9, <3>1, <3>2, Zenon DEF Followed
    <2>11. parse # "refused" /\ parse # "accepted"
      BY <1>2
    <2> QED
      BY <2>1, <2>10, <2>11 DEF ReadAsMeant
  <1> QED
    BY <1>1, <1>3, <1>4 DEF MeantInv

(* However a path is spelled, the parser goes through the keys that are     *)
(* meant, one character after the other (parsePropertyPath,                 *)
(* router.go:368-483).                                                      *)
THEOREM MeantInvariant == PathSpec => []MeantInv
  <1>1. MeantInv /\ PathInv' /\ [PathNext]_pathVars => MeantInv'
    <2> SUFFICES ASSUME MeantInv, PathInv', [PathNext]_pathVars
                 PROVE  MeantInv'
      OBVIOUS
    <2>1. UNCHANGED <<use, path, meant>> /\ (parse' = "verbatim" <=> parse = "verbatim")
      BY DEF PathNext, BeginName, ReadName, EndName, BeginBracket, ReadQuoted, ReadEscape,
         EndQuoted, Refuse, Descend, PathDone, EndKey, Looking, configVars, pathVars
    <2>2. (parse = "verbatim" <=> Verbatim(use, path))'
      BY <2>1 DEF MeantInv, Verbatim
    <2>3. ASSUME meant # <<>>
          PROVE  \E b \in [1 .. Len(meant) -> BOOLEAN] : ReadAsMeant(b)'
      <3>1. PathInv
        BY DEF MeantInv
      <3>2. PICK b \in [1 .. Len(meant) -> BOOLEAN] : ReadAsMeant(b)
        BY <2>3 DEF MeantInv
      <3>3. CASE BeginName
        BY <3>1, <3>2, <3>3, MeantNameIsBegun
      <3>4. CASE ReadName
        BY <3>1, <3>2, <3>4, MeantNameIsRead
      <3>5. CASE EndName
        BY <3>1, <3>2, <3>5, MeantNameIsEnded
      <3>6. CASE BeginBracket
        BY <3>1, <3>2, <3>6, MeantBracketIsBegun
      <3>7. CASE ReadQuoted \/ ReadEscape
        BY <3>1, <3>2, <3>7, MeantQuotedIsRead
      <3>8. CASE EndQuoted
        BY <3>1, <3>2, <3>8, MeantQuotedIsEnded
      <3>9. CASE Refuse
        BY <3>1, <3>2, <3>9, MeantIsNotRefused
      <3>10. CASE Descend \/ UNCHANGED pathVars
        <4>1. UNCHANGED <<path, meant, at, keys, key, afterDot, parse>>
          BY <3>10 DEF Descend, pathVars, configVars
        <4>2. ReadAsMeant(b)'
          BY <3>2, <4>1 DEF ReadAsMeant, Followed, InKey, InSegment, InName, InQuotes
        <4> QED
          BY <4>2
      <3> QED
        BY <3>3, <3>4, <3>5, <3>6, <3>7, <3>8, <3>9, <3>10 DEF PathNext, PathDone
    <2>4. meant' # <<>> => \E b \in [1 .. Len(meant') -> BOOLEAN] : ReadAsMeant(b)'
      <3>1. meant' = meant
        BY <2>1
      <3> QED
        BY <2>3, <3>1, Zenon
    <2> QED
      BY <2>2, <2>4 DEF MeantInv
  <1> QED
    BY <1>1, MeantFromTheStart, PathInvariant, PTL DEF PathSpec

(* Without a bracket a path is its keys with dots between them.             *)
LEMMA DottedIsJoined ==
    ASSUME NEW text \in Seq(Char), ~Contains(text, "open"), NEW ks \in Seq(Seq(Char)),
           NEW b \in [1 .. Len(ks) -> BOOLEAN], Spells(text, ks, b)
    PROVE  text = Join(ks)
  <1>1. PICK N \in Nat : N = Len(ks)
    OBVIOUS
  <1>2. ASSUME NEW i \in 1 .. N
        PROVE  ~b[i]
    <2>1. PICK n : n = i - 1
      OBVIOUS
    <2>2. n \in 0 .. Len(ks) - 1 /\ n + 1 = i
      BY <1>1, <2>1
    <2>3. KeyLies(text, ks, b, n)
      BY <2>2, KeysLie
    <2>4. PICK o, p, k, x : /\ o = Offset(Segments(ks, b), n) /\ p = Offset(Segments(ks, b), n + 1)
                            /\ k = ks[n + 1] /\ x = b[n + 1]
      OBVIOUS
    <2>5. LiesAt(text, o, p, k, x, n)
      BY <2>3, <2>4, Zenon DEF KeyLies
    <2>6. ~x
      <3> SUFFICES ASSUME x PROVE FALSE
        BY <2>5 DEF LiesAt
      <3>1. /\ p = o + 4 + Len(Escape(k)) /\ text[o + 1] = "open" /\ o \in Nat /\ p <= Len(text)
            /\ k \in Seq(Char)
        BY <2>5 DEF LiesAt
      <3>2. Len(Escape(k)) \in Nat
        BY <3>1, EscapeEnds
      <3>3. o + 1 \in 1 .. Len(text)
        BY <3>1, <3>2
      <3> QED
        BY <3>1, <3>3, Zenon DEF Contains
    <2> QED
      BY <2>2, <2>4, <2>6
  <1>3. ASSUME NEW i \in 1 .. N
        PROVE  Spelled(ks[i], b[i], i = 1) = IF i = 1 THEN ks[1] ELSE <<"dot">> \o ks[i]
    BY <1>2, Zenon DEF Spelled
  <1>4. Segments(ks, b) = [i \in 1 .. Len(ks) |-> IF i = 1 THEN ks[1] ELSE <<"dot">> \o ks[i]]
    BY <1>1, <1>3, Zenon DEF Segments
  <1>5. text = FlattenSeq(Segments(ks, b))
    BY Zenon DEF Spells, SpelledPath, Segments
  <1> QED
    BY <1>4, <1>5, Zenon DEF Join

(* What is meant is read.                                                   *)
LEMMA MeantIsRead ==
    ASSUME MeantInv, parse \in {"accepted", "refused", "verbatim"}, meant # <<>>
    PROVE  IF use = "endpoint_property" THEN parse = "accepted" /\ keys = meant
           ELSE parse # "refused" /\ AttributeName = Join(meant)
  <1>1. PICK b \in [1 .. Len(meant) -> BOOLEAN] : ReadAsMeant(b)
    BY DEF MeantInv
  <1>2. /\ Spells(path, meant, b) /\ parse # "refused" /\ (parse = "accepted" => keys = meant)
        /\ (parse = "verbatim" <=> Verbatim(use, path))
        /\ path \in Seq(Char) /\ meant \in Seq(Seq(Char))
    BY <1>1 DEF ReadAsMeant, MeantInv, PathInv, PathTypeOK
  <1>3. CASE parse = "accepted"
    BY <1>2, <1>3, Zenon DEF AttributeName
  <1>4. CASE parse = "verbatim"
    <2>1. use = "resource_attribute" /\ ~Contains(path, "open")
      BY <1>2, <1>4 DEF Verbatim
    <2>2. path = Join(meant)
      BY <1>2, <2>1, DottedIsJoined
    <2> QED
      BY <1>4, <2>1, <2>2 DEF AttributeName
  <1> QED
    BY <1>2, <1>3, <1>4

(* For any keys and any path: keys that are spelled are read back as they   *)
(* were meant, and what is accepted is a spelling of the keys it is read as *)
(* (parsePropertyPath, parseBracketedKey and resolveAttributeName,          *)
(* router.go:368-486).                                                      *)
THEOREM WrittenIsRead == PathSpec => []ReadsAsSpelled
  <1>1. SpellingInv /\ MeantInv => ReadsAsSpelled
    BY AcceptedIsSpelled, MeantIsRead DEF ReadsAsSpelled
  <1> QED
    BY <1>1, SpellingInvariant, MeantInvariant, PTL

(* A rule whose path is spelled as its author was told finds the property   *)
(* that is meant, and nothing if there is none.                             *)
FoundAsMeant ==
    use = "endpoint_property" /\ meant # <<>> /\ parse \in {"accepted", "refused"} =>
        /\ parse = "accepted"
        /\ found # NotLooked =>
              found = IF meant \in DOMAIN PropertyAt THEN PropertyAt[meant] ELSE "nil"

(* For any keys, however they are spelled, and any tree of properties: the  *)
(* path is accepted, and what is found is what the keys name                *)
(* (parsePropertyPath and getNestedProperty, router.go:368-559).            *)
THEOREM MeantIsFound == PathSpec => []FoundAsMeant
  <1>1. ReadsAsSpelled /\ FindsWhatIsNamed => FoundAsMeant
    BY Zenon DEF ReadsAsSpelled, FindsWhatIsNamed, FoundAsMeant
  <1> QED
    BY <1>1, WrittenIsRead, LookupIsExact, PTL
===============================================================================
