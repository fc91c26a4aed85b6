------------------------- MODULE FrameStreamProofs -------------------------
(***************************************************************************)
(* Proofs about FrameStream, for any bytes on the wire, cut into reads in  *)
(* any way, by sessions that begin anywhere.                               *)
(*                                                                         *)
(* The receiver sees a buffer and an offset; the properties speak of the   *)
(* wire.  Window ties the two together: every byte of the buffer is the    *)
(* byte of the wire `Base' further down.  With it each search of           *)
(* next_frame() is a search of the wire that resumes at `Cursor'.          *)
(*                                                                         *)
(* Kept ties what was written to what was sent: in a session that begins   *)
(* where the stream does the cursor is always at the end of a frame that   *)
(* was sent, and the output is the video of the frames before it, from the *)
(* first SPS on.                                                           *)
(***************************************************************************)
EXTENDS FrameStream, WellFoundedInduction, SequenceTheorems, TLAPS

-----------------------------------------------------------------------------
(* Least and greatest elements.                                            *)

\* A set of naturals that has a member has a least one.
LEMMA MinOfNaturals ==
    ASSUME NEW S, S \subseteq Nat, S # {}
    PROVE  Min(S) \in S /\ \A y \in S : Min(S) <= y
PROOF
<1> DEFINE R == OpToRel(<, Nat)
<1>1. \A x, y \in Nat : y < x => <<y, x>> \in R
  BY DEF OpToRel
<1>2. PICK x \in S : \A y \in S : <<y, x>> \notin R
  <2>1. IsWellFoundedOn(R, Nat)
    BY NatLessThanWellFounded
  <2> HIDE DEF R
  <2> QED BY <2>1, WFMin, Zenon
<1>3. \A y \in S : x <= y
  <2> SUFFICES ASSUME NEW y \in S PROVE x <= y
    OBVIOUS
  <2>1. ~(y < x)
    BY <1>1, <1>2
  <2> QED BY <2>1
<1> QED BY <1>3, Zenon DEF Min

LEMMA MaxOfTwo ==
    ASSUME NEW a \in Int, NEW b \in Int
    PROVE  Max({a, b}) = IF a >= b THEN a ELSE b
PROOF
<1>1. Max({a, b}) \in {a, b} /\ \A y \in {a, b} : Max({a, b}) >= y
  <2>1. \E x \in {a, b} : \A y \in {a, b} : x >= y
    <3>1. CASE a >= b BY <3>1
    <3>2. CASE ~(a >= b)
      <4>1. b >= a /\ b >= b BY <3>2
      <4> QED BY <4>1
    <3> QED BY <3>1, <3>2
  <2> QED BY <2>1, Zenon DEF Max
<1> QED BY <1>1

\* What next_frame() skips holds no place where a frame could begin, and it
\* stops at one unless less than a header is left.
LEMMA SkipProperties ==
    ASSUME NEW b \in Seq(Byte), NEW start \in 0 .. Len(b)
    PROVE  /\ SkipTo(b, start) \in start .. Len(b)
           /\ \A q \in start .. SkipTo(b, start) - 1 :
                 q + FRAME_HEADER <= Len(b) /\ ~SyncAt(b, q)
           /\ \/ SkipTo(b, start) + FRAME_HEADER > Len(b)
              \/ SyncAt(b, SkipTo(b, start))
PROOF
<1> DEFINE p == SkipTo(b, start)
<1>0. Len(b) \in Nat
  OBVIOUS
<1>1. \A q : q \in Syncs(b, start) <=>
                q \in start .. Len(b) - FRAME_HEADER /\ SyncAt(b, q)
  BY Zenon DEF Syncs
<1>2. CASE Syncs(b, start) # {}
  <2>1. Syncs(b, start) \subseteq Nat
    BY <1>0, <1>1 DEF FRAME_HEADER
  <2>2. p \in Syncs(b, start) /\ \A y \in Syncs(b, start) : p <= y
    BY <1>2, <2>1, MinOfNaturals, Zenon DEF SkipTo
  <2>3. p \in start .. Len(b) - 8 /\ SyncAt(b, p)
    BY <1>1, <2>2 DEF FRAME_HEADER
  <2>4. \A q \in start .. p - 1 : q + FRAME_HEADER <= Len(b) /\ ~SyncAt(b, q)
    <3> SUFFICES ASSUME NEW q \in start .. p - 1
                 PROVE  q + FRAME_HEADER <= Len(b) /\ ~SyncAt(b, q)
      OBVIOUS
    <3> HIDE DEF p
    <3>1. q < p /\ q \in start .. Len(b) - 8
      BY <1>0, <2>3
    <3>2. q \notin Syncs(b, start)
      BY <1>0, <2>2, <2>3, <3>1
    <3> QED BY <1>0, <1>1, <3>1, <3>2 DEF FRAME_HEADER
  <2> HIDE DEF p
  <2>5. p \in start .. Len(b)
    BY <1>0, <2>3
  <2> QED BY <2>3, <2>4, <2>5, Zenon DEF p
<1>3. CASE Syncs(b, start) = {}
  <2>1. p = IF start >= Len(b) - 7 THEN start ELSE Len(b) - 7
    <3>1. p = Max({start, Len(b) - FRAME_HEADER + 1})
      BY <1>3 DEF SkipTo
    <3>2. Len(b) - FRAME_HEADER + 1 = Len(b) - 7 /\ Len(b) - 7 \in Int
      BY <1>0 DEF FRAME_HEADER
    <3> QED BY <1>0, <3>1, <3>2, MaxOfTwo
  <2> HIDE DEF p
  <2>2. p \in start .. Len(b) /\ p + FRAME_HEADER > Len(b)
    BY <1>0, <2>1 DEF FRAME_HEADER
  <2>3. \A q \in start .. p - 1 : q + FRAME_HEADER <= Len(b) /\ ~SyncAt(b, q)
    <3> SUFFICES ASSUME NEW q \in start .. p - 1
                 PROVE  q + FRAME_HEADER <= Len(b) /\ ~SyncAt(b, q)
      OBVIOUS
    <3>1. q \in start .. Len(b) - 8
      BY <1>0, <2>1
    <3> QED BY <1>0, <1>1, <1>3, <3>1 DEF FRAME_HEADER
  <2> QED BY <2>2, <2>3, Zenon DEF p
<1> QED BY <1>2, <1>3

\* SkipTo() is the loop of next_frame(): as long as a whole header is left and
\* does not begin with the sync bytes it goes on one byte further
\* (common.rs:186-191).
THEOREM SkipToIsTheLoop ==
    ASSUME NEW b \in Seq(Byte), NEW p \in 0 .. Len(b)
    PROVE  SkipTo(b, p) = IF p + FRAME_HEADER <= Len(b) /\ ~SyncAt(b, p)
                          THEN SkipTo(b, p + 1) ELSE p
PROOF
<1>0. Len(b) \in Nat
  OBVIOUS
<1>1. PICK s \in p .. Len(b) :
         /\ s = SkipTo(b, p)
         /\ \A q \in p .. s - 1 : q + FRAME_HEADER <= Len(b) /\ ~SyncAt(b, q)
         /\ s + FRAME_HEADER > Len(b) \/ SyncAt(b, s)
  BY SkipProperties, Zenon
<1>2. CASE p + FRAME_HEADER <= Len(b) /\ ~SyncAt(b, p)
  <2>0. PICK n \in 0 .. Len(b) : n = p + 1
    <3>1. p + 1 \in 0 .. Len(b)
      BY <1>0, <1>2 DEF FRAME_HEADER
    <3> QED BY <3>1, Zenon
  <2>1. PICK t \in n .. Len(b) :
           /\ t = SkipTo(b, n)
           /\ \A q \in n .. t - 1 : q + FRAME_HEADER <= Len(b) /\ ~SyncAt(b, q)
           /\ t + FRAME_HEADER > Len(b) \/ SyncAt(b, t)
    BY SkipProperties, Zenon
  <2>2. s # p
    BY <1>0, <1>1, <1>2 DEF FRAME_HEADER
  <2>3. ~(s < t)
    <3> SUFFICES ASSUME s < t PROVE FALSE
      OBVIOUS
    <3>1. s \in n .. t - 1
      BY <1>0, <1>1, <2>0, <2>1, <2>2
    <3>2. s + FRAME_HEADER <= Len(b) /\ ~SyncAt(b, s)
      BY <2>1, <3>1, Zenon
    <3> QED BY <1>0, <1>1, <3>2 DEF FRAME_HEADER
  <2>4. ~(t < s)
    <3> SUFFICES ASSUME t < s PROVE FALSE
      OBVIOUS
    <3>1. t \in p .. s - 1
      BY <1>0, <1>1, <2>0, <2>1
    <3>2. t + FRAME_HEADER <= Len(b) /\ ~SyncAt(b, t)
      BY <1>1, <3>1, Zenon
    <3> QED BY <1>0, <2>0, <2>1, <3>2 DEF FRAME_HEADER
  <2>5. s = t
    BY <1>0, <1>1, <2>0, <2>1, <2>3, <2>4
  <2> QED BY <1>1, <1>2, <2>0, <2>1, <2>5
<1>3. CASE ~(p + FRAME_HEADER <= Len(b) /\ ~SyncAt(b, p))
  <2>1. s = p
    <3> SUFFICES ASSUME s # p PROVE FALSE
      OBVIOUS
    <3>1. p \in p .. s - 1
      BY <1>0, <1>1
    <3> QED BY <1>1, <1>3, <3>1, Zenon
  <2> QED BY <1>1, <1>3, <2>1
<1> QED BY <1>2, <1>3

-----------------------------------------------------------------------------
(* Pieces that are joined.                                                 *)

\* The function by which FlattenSeq joins the first n of s.
Flattens(f, s, n) ==
    f = [i \in 1 .. n |-> IF i = 1 THEN s[i] ELSE f[i - 1] \o s[i]]

LEMMA FlattensExists == \A s : \A n \in Nat : \E f : Flattens(f, s, n)
PROOF
<1> SUFFICES ASSUME NEW s PROVE \A n \in Nat : \E f : Flattens(f, s, n)
  OBVIOUS
<1> DEFINE Bad == {n \in Nat : ~ \E f : Flattens(f, s, n)}
<1> SUFFICES ASSUME Bad # {} PROVE FALSE
  OBVIOUS
<1>1. Min(Bad) \in Bad /\ \A y \in Bad : Min(Bad) <= y
  <2>1. Bad \subseteq Nat
    OBVIOUS
  <2> HIDE DEF Bad
  <2> QED BY <2>1, MinOfNaturals
<1>2. PICK n \in Bad : \A y \in Bad : n <= y
  BY <1>1, Zenon
<1>3. CASE n = 0
  <2> DEFINE f == [i \in 1 .. 0 |-> <<>>]
  <2>1. \A i : i \notin 1 .. 0
    OBVIOUS
  <2>2. f = [i \in 1 .. 0 |-> IF i = 1 THEN s[i] ELSE f[i - 1] \o s[i]]
    BY <2>1, Zenon
  <2> HIDE DEF f
  <2>3. Flattens(f, s, 0)
    BY <2>2, Zenon DEF Flattens
  <2> QED BY <1>2, <1>3, <2>3, Zenon
<1>4. CASE n # 0
  <2>1. n - 1 \in Nat /\ n - 1 \notin Bad /\ n \in Nat
    BY <1>2, <1>4
  <2>2. PICK g : Flattens(g, s, n - 1)
    BY <2>1, Zenon
  <2> DEFINE f == [i \in 1 .. n |-> IF i = 1 THEN s[i] ELSE g[i - 1] \o s[i]]
  <2>3. ASSUME NEW i \in 1 .. n, i # 1 PROVE g[i - 1] = f[i - 1]
    <3>1. i - 1 \in 1 .. n - 1 /\ i - 1 \in 1 .. n
      BY <2>1, <2>3
    <3> QED BY <2>2, <3>1, Zenon DEF Flattens
  <2>4. f = [i \in 1 .. n |-> IF i = 1 THEN s[i] ELSE f[i - 1] \o s[i]]
    <3>1. \A i \in 1 .. n : f[i] = IF i = 1 THEN s[i] ELSE g[i - 1] \o s[i]
      BY Zenon
    <3>2. f = [i \in 1 .. n |-> f[i]]
      BY Zenon
    <3> HIDE DEF f
    <3> QED BY <2>3, <3>1, <3>2, Zenon
  <2> HIDE DEF f
  <2>5. Flattens(f, s, n)
    BY <2>4, Zenon DEF Flattens
  <2> QED BY <1>2, <2>5, Zenon
<1> QED BY <1>3, <1>4

\* It depends on no piece further on.
LEMMA FlattensAgree ==
    ASSUME NEW s, NEW t, NEW n \in Nat, NEW m \in Nat, n <= m,
           \A i \in 1 .. n : s[i] = t[i],
           NEW f, Flattens(f, s, n), NEW g, Flattens(g, t, m)
    PROVE  \A i \in 1 .. n : f[i] = g[i]
PROOF
<1> DEFINE Bad == {i \in 1 .. n : f[i] # g[i]}
<1> SUFFICES ASSUME Bad # {} PROVE FALSE
  BY Zenon
<1>1. Min(Bad) \in Bad /\ \A y \in Bad : Min(Bad) <= y
  <2>1. Bad \subseteq Nat
    OBVIOUS
  <2> HIDE DEF Bad
  <2> QED BY <2>1, MinOfNaturals
<1>2. PICK i \in Bad : \A y \in Bad : i <= y
  BY <1>1, Zenon
<1>3. i \in 1 .. n /\ i \in 1 .. m /\ f[i] # g[i] /\ s[i] = t[i]
  BY <1>2
<1>4. /\ i = 1 => f[i] = s[i] /\ g[i] = t[i]
      /\ i # 1 => f[i] = f[i - 1] \o s[i] /\ g[i] = g[i - 1] \o t[i]
  BY <1>3, Zenon DEF Flattens
<1>5. i # 1 => f[i - 1] = g[i - 1]
  <2>1. i # 1 => i - 1 \in 1 .. n /\ ~(i <= i - 1)
    BY <1>3
  <2> QED BY <1>2, <2>1, Zenon
<1>6. CASE i = 1
  BY <1>3, <1>4, <1>6
<1>7. CASE i # 1
  BY <1>3, <1>4, <1>5, <1>7
<1> QED BY <1>6, <1>7

LEMMA JoinedByFlatten ==
    ASSUME NEW s, NEW n \in Nat \ {0}
    PROVE  \E f : Flattens(f, [i \in 1 .. n |-> s[i]], n) /\ Joined(s, n) = f[n]
PROOF
<1> DEFINE t == [i \in 1 .. n |-> s[i]]
           f == CHOOSE f : Flattens(f, t, n)
<1>1. Len(t) = n
  OBVIOUS
<1>2. FlattenSeq(t) = f[n]
  <2> HIDE DEF t
  <2> QED BY <1>1 DEF FlattenSeq, Flattens
<1>3. Flattens(f, t, n)
  <2> HIDE DEF t
  <2> QED BY FlattensExists, Zenon
<1> HIDE DEF f
<1> QED BY <1>2, <1>3, Zenon DEF Joined

LEMMA JoinedNone == \A s : Joined(s, 0) = <<>>
PROOF
<1> SUFFICES ASSUME NEW s PROVE Joined(s, 0) = <<>>
  OBVIOUS
<1>1. [i \in 1 .. 0 |-> s[i]] = <<>>
  OBVIOUS
<1>2. Len(<<>>) = 0
  OBVIOUS
<1> QED BY <1>1, <1>2, Zenon DEF Joined, FlattenSeq

\* One piece more, after the first.
LEMMA JoinedNext ==
    ASSUME NEW s, NEW n \in Nat \ {0}
    PROVE  Joined(s, n + 1) = Joined(s, n) \o s[n + 1]
PROOF
<1>0. PICK m \in Nat \ {0} : m = n + 1 /\ m - 1 = n /\ m \in 1 .. m /\ n <= m /\ m # 1
  <2>1. /\ n + 1 \in Nat \ {0} /\ (n + 1) - 1 = n /\ n + 1 \in 1 .. n + 1
        /\ n <= n + 1 /\ n + 1 # 1
    OBVIOUS
  <2> QED BY <2>1, Zenon
<1>t. PICK t : t = [i \in 1 .. m |-> s[i]]
  OBVIOUS
<1>u. PICK u : u = [i \in 1 .. n |-> s[i]]
  OBVIOUS
<1>1. PICK f : Flattens(f, t, m) /\ Joined(s, m) = f[m]
  BY <1>t, JoinedByFlatten, Zenon
<1>2. PICK g : Flattens(g, u, n) /\ Joined(s, n) = g[n]
  BY <1>u, JoinedByFlatten, Zenon
<1>3. t[m] = s[m] /\ \A i \in 1 .. n : u[i] = t[i]
  BY <1>0, <1>t, <1>u
<1>4. f[m] = f[n] \o t[m]
  BY <1>0, <1>1, Zenon DEF Flattens
<1>5. \A i \in 1 .. n : g[i] = f[i]
  BY <1>0, <1>1, <1>2, <1>3, FlattensAgree
<1>6. n \in 1 .. n
  OBVIOUS
<1> QED BY <1>0, <1>1, <1>2, <1>3, <1>4, <1>5, <1>6, Zenon

LEMMA JoinedMore ==
    ASSUME NEW s \in Seq(Seq(Byte)), NEW n \in Nat, n < Len(s)
    PROVE  Joined(s, n + 1) = Joined(s, n) \o s[n + 1]
PROOF
<1>1. CASE n = 0
  <2>0. 1 \in Nat \ {0} /\ 1 \in 1 .. 1 /\ n + 1 = 1
    BY <1>1
  <2>1. s[1] \in Seq(Byte)
    BY <1>1, ElementOfSeq
  <2>2. PICK f : Flattens(f, [i \in 1 .. 1 |-> s[i]], 1) /\ Joined(s, 1) = f[1]
    BY <2>0, JoinedByFlatten, Zenon
  <2>3. f[1] = s[1]
    BY <2>0, <2>2, Zenon DEF Flattens
  <2>4. <<>> \o s[1] = s[1]
    BY <2>1, ConcatEmptySeq
  <2> QED BY <1>1, <2>0, <2>2, <2>3, <2>4, JoinedNone, Zenon
<1>2. CASE n # 0
  BY <1>2, JoinedNext
<1> QED BY <1>1, <1>2

LEMMA JoinedProperties ==
    ASSUME NEW s \in Seq(Seq(Byte))
    PROVE  \A n \in 0 .. Len(s) :
              /\ Joined(s, n) \in Seq(Byte)
              /\ n < Len(s) => Joined(s, n + 1) = Joined(s, n) \o s[n + 1]
PROOF
<1>0. Len(s) \in Nat
  OBVIOUS
<1> DEFINE Bad == {n \in 0 .. Len(s) : Joined(s, n) \notin Seq(Byte)}
<1>1. ASSUME Bad # {} PROVE FALSE
  <2>1. Min(Bad) \in Bad /\ \A y \in Bad : Min(Bad) <= y
    <3>1. Bad \subseteq Nat
      OBVIOUS
    <3> HIDE DEF Bad
    <3> QED BY <1>1, <3>1, MinOfNaturals
  <2>2. PICK n \in Bad : \A y \in Bad : n <= y
    BY <2>1, Zenon
  <2>3. n \in 0 .. Len(s) /\ Joined(s, n) \notin Seq(Byte)
    BY <2>2
  <2>4. n # 0
    <3>1. <<>> \in Seq(Byte)
      OBVIOUS
    <3> QED BY <2>3, <3>1, JoinedNone, Zenon
  <2> DEFINE m == n - 1
  <2>5. m \in Nat /\ m < Len(s) /\ m \in 0 .. Len(s) /\ ~(n <= m) /\ m + 1 = n
    BY <1>0, <2>3, <2>4
  <2> HIDE DEF m
  <2>6. Joined(s, m) \in Seq(Byte)
    BY <2>2, <2>5, Zenon
  <2>7. Joined(s, n) = Joined(s, m) \o s[n]
    BY <2>5, <2>6, JoinedMore, Zenon
  <2>8. s[n] \in Seq(Byte)
    BY <2>3, <2>4, ElementOfSeq
  <2>9. Joined(s, n) \in Seq(Byte)
    BY <2>6, <2>7, <2>8, ConcatProperties, Zenon
  <2> QED BY <2>3, <2>9
<1>2. \A n \in 0 .. Len(s) : n \in Nat
  OBVIOUS
<1>3. \A n \in 0 .. Len(s) : Joined(s, n) \in Seq(Byte)
  BY <1>1, Zenon
<1> QED BY <1>2, <1>3, JoinedMore, Zenon

\* What is joined stays where it is when more comes.
LEMMA JoinedPrefix ==
    ASSUME NEW s \in Seq(Seq(Byte)), NEW n \in 0 .. Len(s)
    PROVE  \A m \in n .. Len(s) :
              /\ Len(Joined(s, n)) <= Len(Joined(s, m))
              /\ \A i \in 1 .. Len(Joined(s, n)) : Joined(s, m)[i] = Joined(s, n)[i]
PROOF
<1>0. Len(s) \in Nat
  OBVIOUS
<1> DEFINE Keeps(m) == /\ Len(Joined(s, n)) <= Len(Joined(s, m))
                       /\ \A i \in 1 .. Len(Joined(s, n)) : Joined(s, m)[i] = Joined(s, n)[i]
           Bad == {m \in n .. Len(s) : ~Keeps(m)}
<1>1. Joined(s, n) \in Seq(Byte) /\ Len(Joined(s, n)) \in Nat
  BY JoinedProperties, LenProperties, Zenon
<1>2. ASSUME Bad # {} PROVE FALSE
  <2>1. Min(Bad) \in Bad /\ \A y \in Bad : Min(Bad) <= y
    <3>1. Bad \subseteq Nat
      OBVIOUS
    <3> HIDE DEF Bad
    <3> QED BY <1>2, <3>1, MinOfNaturals
  <2>2. PICK m \in Bad : \A y \in Bad : m <= y
    BY <2>1, Zenon
  <2>3. m \in n .. Len(s) /\ ~Keeps(m)
    BY <2>2, Zenon
  <2>4. Keeps(n)
    BY <1>1
  <2>5. m # n
    BY <2>3, <2>4, Zenon
  <2> DEFINE k == m - 1
  <2>6. /\ k \in n .. Len(s) /\ k \in 0 .. Len(s) /\ k < Len(s) /\ ~(m <= k) /\ k + 1 = m
        /\ m \in 1 .. Len(s)
    BY <1>0, <2>3, <2>5
  <2> HIDE DEF k
  <2>7. Keeps(k)
    BY <2>2, <2>6, Zenon
  <2>8. /\ Joined(s, k) \in Seq(Byte) /\ s[m] \in Seq(Byte)
        /\ Joined(s, m) = Joined(s, k) \o s[m]
    BY <2>6, JoinedProperties, ElementOfSeq, Zenon
  <2>9. /\ Len(Joined(s, k)) \in Nat /\ Len(s[m]) \in Nat
        /\ Len(Joined(s, m)) = Len(Joined(s, k)) + Len(s[m])
        /\ \A i \in 1 .. Len(Joined(s, k)) : Joined(s, m)[i] = Joined(s, k)[i]
    BY <2>8, ConcatProperties, LenProperties
  <2>10. Keeps(m)
    <3>1. Len(Joined(s, n)) <= Len(Joined(s, m))
      BY <1>1, <2>7, <2>9
    <3>2. \A i \in 1 .. Len(Joined(s, n)) : i \in 1 .. Len(Joined(s, k))
      BY <1>1, <2>7, <2>9
    <3> QED BY <2>7, <2>9, <3>1, <3>2, Zenon
  <2> QED BY <2>3, <2>10, Zenon
<1> QED BY <1>2, Zenon

\* Where a piece lies.
LEMMA JoinedPiece ==
    ASSUME NEW s \in Seq(Seq(Byte)), NEW n \in 0 .. Len(s) - 1, NEW m \in n + 1 .. Len(s)
    PROVE  /\ Len(Joined(s, n + 1)) = Len(Joined(s, n)) + Len(s[n + 1])
           /\ Len(Joined(s, n)) + Len(s[n + 1]) <= Len(Joined(s, m))
           /\ \A j \in 1 .. Len(s[n + 1]) :
                 Joined(s, m)[Len(Joined(s, n)) + j] = s[n + 1][j]
PROOF
<1>0. /\ Len(s) \in Nat /\ n \in 0 .. Len(s) /\ n < Len(s) /\ n + 1 \in 0 .. Len(s)
      /\ n + 1 \in 1 .. Len(s)
  OBVIOUS
<1> DEFINE a == Joined(s, n)
           b == s[n + 1]
           c == Joined(s, n + 1)
<1>1. a \in Seq(Byte) /\ b \in Seq(Byte) /\ c = a \o b
  BY <1>0, JoinedProperties, ElementOfSeq, Zenon
<1>2. /\ Len(c) <= Len(Joined(s, m))
      /\ \A i \in 1 .. Len(c) : Joined(s, m)[i] = c[i]
  BY <1>0, JoinedPrefix, Zenon
<1> HIDE DEF a, b, c
<1>3. /\ Len(c) = Len(a) + Len(b) /\ Len(a) \in Nat /\ Len(b) \in Nat
      /\ \A j \in 1 .. Len(b) : c[Len(a) + j] = b[j] /\ Len(a) + j \in 1 .. Len(c)
  <2>1. /\ Len(c) = Len(a) + Len(b) /\ Len(a) \in Nat /\ Len(b) \in Nat
        /\ \A i \in 1 .. Len(a) + Len(b) : c[i] = IF i <= Len(a) THEN a[i] ELSE b[i - Len(a)]
    BY <1>1, ConcatProperties, LenProperties
  <2>2. ASSUME NEW j \in 1 .. Len(b)
        PROVE  c[Len(a) + j] = b[j] /\ Len(a) + j \in 1 .. Len(c)
    <3>1. /\ Len(a) + j \in 1 .. Len(a) + Len(b) /\ ~(Len(a) + j <= Len(a))
          /\ Len(a) + j - Len(a) = j
      BY <2>1
    <3> QED BY <2>1, <3>1
  <2> QED BY <2>1, <2>2
<1> QED BY <1>2, <1>3, Zenon DEF a, b, c

-----------------------------------------------------------------------------
(* The bytes of a stream.                                                  *)

LEMMA EncodeProperties ==
    ASSUME NEW f \in Frames, Len(f.payload) <= MAX_PAYLOAD
    PROVE  /\ f.payload \in Seq(Byte) /\ Len(f.payload) \in Nat
           /\ Encode(f) \in Seq(Byte)
           /\ Len(Encode(f)) = FRAME_HEADER + Len(f.payload)
           /\ SyncAt(Encode(f), 0) /\ Encode(f)[3] = f.channel
           /\ LengthAt(Encode(f), 0) = Len(f.payload)
           /\ \A j \in 1 .. Len(f.payload) : Encode(f)[FRAME_HEADER + j] = f.payload[j]
PROOF
<1>1. f.payload \in Seq(Byte) /\ f.channel \in Byte
  BY DEF Frames
<1>2. PICK n \in Nat : n = Len(f.payload) /\ n <= MAX_PAYLOAD
  BY <1>1
<1>3. n % 256 \in 0 .. 255 /\ n \div 256 \in 0 .. 255 /\ (n % 256) + 256 * (n \div 256) = n
  <2>1. n % 256 \in 0 .. 255
    OBVIOUS
  <2>2. (n % 256) + 256 * (n \div 256) = n /\ n \div 256 \in Nat
    OBVIOUS
  <2>3. n <= 65535
    BY <1>2, SMT DEF MAX_PAYLOAD
  <2>4. n \div 256 <= 255
    BY <2>1, <2>2, <2>3, SMT
  <2> QED BY <2>1, <2>2, <2>4
<1> DEFINE h == <<85, 204, f.channel, 0, n % 256, n \div 256, 0, 0>>
<1>4. /\ h \in Seq(Byte) /\ Len(h) = 8 /\ h[1] = 85 /\ h[2] = 204
      /\ h[3] = f.channel /\ h[5] = n % 256 /\ h[6] = n \div 256
  BY <1>1, <1>3 DEF Byte
<1>5. Encode(f) = h \o f.payload
  BY <1>2, Zenon DEF Encode
<1> HIDE DEF h
<1>6. /\ Encode(f) \in Seq(Byte) /\ Len(Encode(f)) = 8 + n
      /\ \A i \in 1 .. 8 + n : Encode(f)[i] = IF i <= 8 THEN h[i] ELSE f.payload[i - 8]
  <2>1. /\ h \o f.payload \in Seq(Byte)
        /\ Len(h \o f.payload) = Len(h) + Len(f.payload)
        /\ \A i \in 1 .. Len(h) + Len(f.payload) : (h \o f.payload)[i] =
              IF i <= Len(h) THEN h[i] ELSE f.payload[i - Len(h)]
    <3>1. h \in Seq(Byte) /\ f.payload \in Seq(Byte)
      BY <1>1, <1>4
    <3> QED BY <3>1, ConcatProperties
  <2>2. Len(h) = 8 /\ Len(f.payload) = n
    BY <1>2, <1>4
  <2> QED BY <1>5, <2>1, <2>2
<1>7. /\ Encode(f)[1] = 85 /\ Encode(f)[2] = 204 /\ Encode(f)[3] = f.channel
      /\ Encode(f)[5] = n % 256 /\ Encode(f)[6] = n \div 256
  BY <1>4, <1>6
<1>8. ASSUME NEW j \in 1 .. n PROVE Encode(f)[8 + j] = f.payload[j]
  <2>1. 8 + j \in 1 .. 8 + n /\ ~(8 + j <= 8) /\ (8 + j) - 8 = j
    OBVIOUS
  <2> QED BY <1>6, <2>1
<1>9. 0 + 1 = 1 /\ 0 + 2 = 2 /\ 0 + 5 = 5 /\ 0 + 6 = 6
  OBVIOUS
<1>10. SyncAt(Encode(f), 0)
  BY <1>7, <1>9, Zenon DEF SyncAt
<1>11. LengthAt(Encode(f), 0) = n
  BY <1>3, <1>7, <1>9, Zenon DEF LengthAt
<1> QED BY <1>1, <1>2, <1>6, <1>7, <1>8, <1>10, <1>11, Zenon DEF FRAME_HEADER

\* The frames of the stream, as they are sent, and what they add to the video.
Sent == [i \in DOMAIN stream.frames |-> Encode(stream.frames[i])]
Videos == [i \in DOMAIN stream.frames |-> VideoIn(stream.frames[i])]
Total == Len(stream.frames)

LEMMA StreamTyped ==
    ASSUME stream \in Streams
    PROVE  /\ stream.junk \in Seq(Byte) /\ Total \in Nat /\ DOMAIN stream.frames = 1 .. Total
           /\ \A i \in 1 .. Total : /\ stream.frames[i] \in Frames
                                      /\ Len(stream.frames[i].payload) <= MAX_PAYLOAD
                                      /\ Sent[i] = Encode(stream.frames[i])
                                      /\ Videos[i] = VideoIn(stream.frames[i])
           /\ Sent \in Seq(Seq(Byte)) /\ Len(Sent) = Total
           /\ Videos \in Seq(Seq(Byte)) /\ Len(Videos) = Total
           /\ Wire = stream.junk \o Joined(Sent, Total)
PROOF
<1>1. stream.junk \in Seq(Byte) /\ stream.frames \in Seq(Frames)
  BY FrameStreamAssumption
<1>2. Total \in Nat /\ DOMAIN stream.frames = 1 .. Total
  BY <1>1 DEF Total
<1>3. \A i \in 1 .. Total : stream.frames[i] \in Frames /\ Len(stream.frames[i].payload) <= MAX_PAYLOAD
  <2>1. \A i \in 1 .. Total : stream.frames[i] \in Frames
    BY <1>1, <1>2, ElementOfSeq DEF Total
  <2> QED BY <1>2, <2>1, FrameStreamAssumption
<1>4. \A i \in 1 .. Total : /\ Sent[i] = Encode(stream.frames[i])
                             /\ Videos[i] = VideoIn(stream.frames[i])
  BY <1>2, Zenon DEF Sent, Videos
<1>5. \A i \in 1 .. Total : Encode(stream.frames[i]) \in Seq(Byte)
  BY <1>3, EncodeProperties, Zenon
<1>6. \A i \in 1 .. Total : VideoIn(stream.frames[i]) \in Seq(Byte)
  <2>1. <<>> \in Seq(Byte)
    OBVIOUS
  <2> QED BY <1>3, <2>1, EncodeProperties, Zenon DEF VideoIn
<1>7. Sent \in Seq(Seq(Byte)) /\ Len(Sent) = Total
  <2>1. Sent = [i \in 1 .. Total |-> Encode(stream.frames[i])]
    BY <1>2, Zenon DEF Sent
  <2> QED BY <1>2, <1>5, <2>1
<1>8. Videos \in Seq(Seq(Byte)) /\ Len(Videos) = Total
  <2>1. Videos = [i \in 1 .. Total |-> VideoIn(stream.frames[i])]
    BY <1>2, Zenon DEF Videos
  <2> QED BY <1>2, <1>6, <2>1
<1>9. Wire = stream.junk \o Joined(Sent, Total)
  <2>1. Sent = [i \in 1 .. Total |-> Sent[i]]
    BY <1>2, Zenon DEF Sent
  <2>2. FlattenSeq(Sent) = Joined(Sent, Total)
    BY <2>1, Zenon DEF Joined
  <2> QED BY <2>2, Zenon DEF Wire, WireOf, Sent
<1> QED BY <1>1, <1>2, <1>3, <1>4, <1>7, <1>8, <1>9, Zenon

-----------------------------------------------------------------------------
(* The buffer is a window on the wire.                                     *)

Base == rx - Len(buf)
Cursor == Base + pos

\* The types, with the window said byte by byte.
Types ==
    /\ stream \in Streams
    /\ rx \in 0 .. Len(Wire) /\ from \in 0 .. rx
    /\ pc \in {"read", "parse"} /\ started \in BOOLEAN
    /\ buf \in Seq(Byte) /\ Len(buf) <= rx - from
    /\ pos \in 0 .. Len(buf) /\ (pc = "read" => pos = 0)

Window == \A i \in 1 .. Len(buf) : buf[i] = Wire[Base + i]

\* Where the search of the wire resumes after the i-th frame found.
Resume(i) == IF i = 0 THEN from ELSE EndAt(Wire, found[i])

\* The frames found are a framing of the wire up to the cursor.
Framed ==
    /\ found \in Seq(Nat)
    /\ \A i \in 1 .. Len(found) :
          /\ found[i] + FRAME_HEADER <= rx /\ SyncAt(Wire, found[i])
          /\ EndAt(Wire, found[i]) <= rx
          /\ found[i] >= Resume(i - 1)
          /\ \A p \in Resume(i - 1) .. found[i] - 1 : ~SyncAt(Wire, p)
    /\ Resume(Len(found)) <= Cursor
    /\ \A p \in Resume(Len(found)) .. Cursor - 1 : ~SyncAt(Wire, p)

Inv == Types /\ Window /\ Framed /\ HeldIsOneFrame

LEMMA WireTyped ==
    ASSUME stream \in Streams
    PROVE  Wire \in Seq(Byte) /\ Len(Wire) \in Nat
           /\ \A i \in 1 .. Len(Wire) : Wire[i] \in Byte
PROOF
<1>1. Wire \in Seq(Byte)
  <2>1. Joined(Sent, Total) \in Seq(Byte)
    <3>1. Total \in 0 .. Len(Sent)
      BY StreamTyped
    <3> QED BY <3>1, StreamTyped, JoinedProperties, Zenon
  <2> QED BY <2>1, StreamTyped, ConcatProperties, Zenon
<1> QED BY <1>1, LenProperties, ElementOfSeq, Zenon

\* A frame ends behind its header.
LEMMA EndProperties ==
    ASSUME NEW b \in Seq(Byte), NEW p \in Nat, p + FRAME_HEADER <= Len(b)
    PROVE  /\ LengthAt(b, p) \in Nat /\ EndAt(b, p) \in Nat
           /\ EndAt(b, p) >= p + FRAME_HEADER
PROOF
<1>1. b[p + 5] \in Byte /\ b[p + 6] \in Byte
  BY ElementOfSeq DEF FRAME_HEADER
<1>2. LengthAt(b, p) \in Nat
  <2> SUFFICES ASSUME NEW m \in 0 .. 255, NEW n \in 0 .. 255
               PROVE  m + 256 * n \in Nat
    BY <1>1, Zenon DEF LengthAt, Byte
  <2> QED OBVIOUS
<1> QED BY <1>2 DEF EndAt, FRAME_HEADER

\* A window shows the same headers as what it is a window on.
LEMMA WindowHeaders ==
    ASSUME NEW b \in Seq(Byte), NEW w, NEW base \in Nat,
           \A i \in 1 .. Len(b) : b[i] = w[base + i],
           NEW p \in Nat, p + FRAME_HEADER <= Len(b)
    PROVE  (SyncAt(b, p) <=> SyncAt(w, base + p)) /\ EndAt(w, base + p) = base + EndAt(b, p)
PROOF
<1>0. Len(b) \in Nat
  OBVIOUS
<1>1. /\ b[p + 1] = w[base + (p + 1)] /\ b[p + 2] = w[base + (p + 2)]
      /\ b[p + 5] = w[base + (p + 5)] /\ b[p + 6] = w[base + (p + 6)]
  <2>1. /\ p + 1 \in 1 .. Len(b) /\ p + 2 \in 1 .. Len(b)
        /\ p + 5 \in 1 .. Len(b) /\ p + 6 \in 1 .. Len(b)
    BY <1>0 DEF FRAME_HEADER
  <2> QED BY <2>1, Zenon
<1>2. /\ b[p + 1] = w[(base + p) + 1] /\ b[p + 2] = w[(base + p) + 2]
      /\ b[p + 5] = w[(base + p) + 5] /\ b[p + 6] = w[(base + p) + 6]
  <2>1. /\ base + (p + 1) = (base + p) + 1 /\ base + (p + 2) = (base + p) + 2
        /\ base + (p + 5) = (base + p) + 5 /\ base + (p + 6) = (base + p) + 6
    OBVIOUS
  <2> QED BY <1>1, <2>1, Zenon
<1>3. SyncAt(b, p) <=> SyncAt(w, base + p)
  BY <1>2, Zenon DEF SyncAt
<1>4. LengthAt(b, p) = LengthAt(w, base + p)
  BY <1>2, Zenon DEF LengthAt
<1>5. LengthAt(b, p) \in Nat
  BY EndProperties, Zenon
<1>6. EndAt(w, base + p) = base + EndAt(b, p)
  BY <1>4, <1>5 DEF EndAt, FRAME_HEADER
<1> QED BY <1>3, <1>6

\* What the invariant says of the numbers, and of the bytes from the cursor on.
LEMMA Offsets ==
    ASSUME Types
    PROVE  /\ rx \in Nat /\ from \in Nat /\ pos \in Nat /\ Len(buf) \in Nat
           /\ Base \in Nat /\ Cursor \in Nat
           /\ from <= Base /\ Base <= Cursor /\ Cursor <= rx /\ rx <= Len(Wire)
           /\ Wire \in Seq(Byte) /\ Len(Wire) \in Nat
PROOF
<1>1. Wire \in Seq(Byte) /\ Len(Wire) \in Nat
  BY WireTyped DEF Types
<1>2. Len(buf) \in Nat
  BY DEF Types
<1> QED BY <1>1, <1>2 DEF Types, Base, Cursor

\* The frames found lie on the wire.
LEMMA FoundTyped ==
    ASSUME Types, Framed, NEW i \in 1 .. Len(found)
    PROVE  /\ found[i] \in Nat /\ found[i] + FRAME_HEADER <= Len(Wire)
           /\ EndAt(Wire, found[i]) \in Nat /\ Resume(i) \in Nat
           /\ EndAt(Wire, found[i]) >= found[i] + FRAME_HEADER
PROOF
<1>1. found[i] \in Nat /\ found[i] + FRAME_HEADER <= rx
  BY ElementOfSeq DEF Framed
<1>2. found[i] + FRAME_HEADER <= Len(Wire)
  BY <1>1, Offsets DEF FRAME_HEADER
<1>3. EndAt(Wire, found[i]) \in Nat /\ EndAt(Wire, found[i]) >= found[i] + FRAME_HEADER
  BY <1>1, <1>2, Offsets, EndProperties, Zenon
<1>4. i # 0
  OBVIOUS
<1> QED BY <1>1, <1>2, <1>3, <1>4, Zenon DEF Resume

LEMMA Headers ==
    ASSUME Types, Window, NEW p \in Nat, p + FRAME_HEADER <= Len(buf)
    PROVE  /\ SyncAt(buf, p) <=> SyncAt(Wire, Base + p)
           /\ EndAt(Wire, Base + p) = Base + EndAt(buf, p)
           /\ EndAt(buf, p) \in Nat /\ EndAt(buf, p) >= p + FRAME_HEADER
PROOF
<1>1. buf \in Seq(Byte) /\ Base \in Nat
  BY Offsets DEF Types
<1>2. \A i \in 1 .. Len(buf) : buf[i] = Wire[Base + i]
  BY DEF Window
<1>3. (SyncAt(buf, p) <=> SyncAt(Wire, Base + p)) /\ EndAt(Wire, Base + p) = Base + EndAt(buf, p)
  BY <1>1, <1>2, WindowHeaders, Zenon
<1>4. EndAt(buf, p) \in Nat /\ EndAt(buf, p) >= p + FRAME_HEADER
  BY <1>1, EndProperties, Zenon
<1> QED BY <1>3, <1>4, Zenon

\* The search of the buffer from `pos' on, said of the wire.
LEMMA SearchOfWire ==
    ASSUME Types, Window, pc = "parse"
    PROVE  /\ SkipTo(buf, pos) \in pos .. Len(buf)
           /\ \A q \in Cursor .. Base + SkipTo(buf, pos) - 1 : ~SyncAt(Wire, q)
           /\ \/ SkipTo(buf, pos) + FRAME_HEADER > Len(buf)
              \/ SyncAt(buf, SkipTo(buf, pos))
PROOF
<1> DEFINE p == SkipTo(buf, pos)
<1>1. buf \in Seq(Byte) /\ pos \in 0 .. Len(buf)
  BY DEF Types
<1>2. /\ p \in pos .. Len(buf)
      /\ \A q \in pos .. p - 1 : q + FRAME_HEADER <= Len(buf) /\ ~SyncAt(buf, q)
      /\ p + FRAME_HEADER > Len(buf) \/ SyncAt(buf, p)
  BY <1>1, SkipProperties, Zenon
<1> HIDE DEF p
<1>3. ASSUME NEW q \in Cursor .. Base + p - 1
      PROVE  ~SyncAt(Wire, q)
  <2> DEFINE r == q - Base
  <2>1. r \in pos .. p - 1 /\ r \in Nat /\ Base + r = q
    BY <1>2, Offsets DEF Cursor
  <2> HIDE DEF r
  <2>2. r + FRAME_HEADER <= Len(buf) /\ ~SyncAt(buf, r)
    BY <1>2, <2>1
  <2> QED BY <2>1, <2>2, Headers, Zenon
<1> QED BY <1>2, <1>3, Zenon DEF p

-----------------------------------------------------------------------------
(* Each action.                                                            *)

LEMMA InitHolds == Init => Inv
PROOF
<1> SUFFICES ASSUME Init PROVE Inv
  OBVIOUS
<1>1. Types
  <2>1. Len(Wire) \in Nat
    BY WireTyped, Zenon DEF Init
  <2>2. rx \in 0 .. Len(Wire) /\ from \in 0 .. rx
    BY <2>1 DEF Init
  <2>3. buf \in Seq(Byte) /\ Len(buf) <= rx - from /\ pos \in 0 .. Len(buf)
    BY DEF Init
  <2> QED BY <2>2, <2>3, Zenon DEF Init, Types
<1>2. Window
  BY DEF Init, Window
<1>3. Framed
  BY DEF Init, Framed, Resume, Cursor, Base
<1>4. HeldIsOneFrame
  BY DEF Init, HeldIsOneFrame, FRAME_HEADER
<1> QED BY <1>1, <1>2, <1>3, <1>4 DEF Inv

LEMMA ReadKeeps == Inv /\ Read => Inv' /\ Cursor' = Cursor
PROOF
<1> SUFFICES ASSUME Inv, Read PROVE Inv' /\ Cursor' = Cursor
  OBVIOUS
<1> USE DEF Inv
<1>0. Wire' = Wire
  BY DEF Read, Wire
<1>n. /\ rx \in Nat /\ Len(buf) \in Nat /\ Base \in Nat /\ Cursor \in Nat
      /\ Base = rx - Len(buf) /\ Cursor = Base
  <2>1. pos = 0
    BY DEF Read, Types
  <2> QED BY <2>1, Offsets DEF Base, Cursor
<1>1. PICK n \in 1 .. MaxRead :
         /\ rx + n <= Len(Wire) /\ rx' = rx + n
         /\ buf' = buf \o SubSeq(Wire, rx + 1, rx + n)
  BY DEF Read
<1>2. n \in Nat \ {0}
  BY FrameStreamAssumption
<1> DEFINE new == SubSeq(Wire, rx + 1, rx + n)
<1>3. /\ new \in Seq(Byte) /\ Len(new) = n
      /\ \A i \in 1 .. n : new[i] = Wire[rx + i]
  <2>1. \A i \in rx + 1 .. rx + n : Wire[i] \in Byte
    BY <1>1, <1>2, Offsets, ElementOfSeq
  <2>2. rx + 1 \in Int /\ rx + n \in Int
    BY <1>2, Offsets
  <2>3. /\ new \in Seq(Byte)
        /\ Len(new) = IF rx + 1 <= rx + n THEN (rx + n) - (rx + 1) + 1 ELSE 0
        /\ \A i \in 1 .. (rx + n) - (rx + 1) + 1 : new[i] = Wire[rx + 1 + i - 1]
    BY <2>1, <2>2, SubSeqProperties
  <2> HIDE DEF new
  <2>4. \A i \in 1 .. n : i \in 1 .. (rx + n) - (rx + 1) + 1 /\ rx + 1 + i - 1 = rx + i
    BY <1>2, <1>n
  <2>5. Len(new) = n
    BY <1>2, <1>n, <2>3
  <2>6. \A i \in 1 .. n : new[i] = Wire[rx + i]
    <3> SUFFICES ASSUME NEW i \in 1 .. n PROVE new[i] = Wire[rx + i]
      OBVIOUS
    <3>1. new[i] = Wire[rx + 1 + i - 1]
      BY <2>3, <2>4, Zenon
    <3> QED BY <2>4, <3>1, Zenon
  <2> QED BY <2>3, <2>5, <2>6, Zenon
<1> HIDE DEF new
<1>4. /\ buf' \in Seq(Byte) /\ Len(buf') = Len(buf) + n
      /\ \A i \in 1 .. Len(buf) + n :
            buf'[i] = IF i <= Len(buf) THEN buf[i] ELSE new[i - Len(buf)]
  <2>1. buf \in Seq(Byte) /\ buf' = buf \o new
    BY <1>1 DEF Types, new
  <2> QED BY <1>3, <2>1, ConcatProperties
<1>5. Base' = Base /\ Cursor' = Cursor
  <2>1. pos' = 0
    BY DEF Read
  <2>2. rx' - Len(buf') = rx - Len(buf)
    BY <1>1, <1>2, <1>4, <1>n
  <2> QED BY <1>n, <2>1, <2>2 DEF Base, Cursor
<1>6. Types'
  BY <1>0, <1>1, <1>2, <1>4, Offsets DEF Types, Read
<1>7. Window'
  <2> SUFFICES ASSUME NEW i \in 1 .. Len(buf')
               PROVE  buf'[i] = Wire[Base + i]
    BY <1>0, <1>5 DEF Window
  <2>1. CASE i <= Len(buf)
    BY <1>4, <2>1, Offsets DEF Window
  <2>2. CASE ~(i <= Len(buf))
    <3>1. i - Len(buf) \in 1 .. n /\ buf'[i] = new[i - Len(buf)]
      BY <1>2, <1>4, <2>2, Offsets
    <3>2. rx + (i - Len(buf)) = Base + i
      BY <1>4, Offsets DEF Base
    <3> QED BY <1>3, <3>1, <3>2
  <2> QED BY <2>1, <2>2
<1>8. Framed'
  <2>1. found' = found /\ from' = from
    BY DEF Read
  <2>2. \A i : Resume(i)' = Resume(i)
    BY <1>0, <2>1, Zenon DEF Resume
  <2>3. \A i \in 1 .. Len(found) : /\ found[i] + FRAME_HEADER <= rx'
                                    /\ EndAt(Wire, found[i]) <= rx'
    <3> SUFFICES ASSUME NEW i \in 1 .. Len(found)
                 PROVE  /\ found[i] + FRAME_HEADER <= rx'
                        /\ EndAt(Wire, found[i]) <= rx'
      OBVIOUS
    <3>1. found[i] + FRAME_HEADER <= rx /\ EndAt(Wire, found[i]) <= rx
      BY DEF Framed
    <3>2. EndAt(Wire, found[i]) \in Nat /\ found[i] + FRAME_HEADER \in Nat
      BY FoundTyped DEF FRAME_HEADER
    <3> QED BY <1>1, <1>2, <1>n, <3>1, <3>2
  <2> QED BY <1>0, <1>5, <2>1, <2>2, <2>3, Zenon DEF Framed
<1>9. HeldIsOneFrame'
  BY DEF HeldIsOneFrame, Read
<1> QED BY <1>5, <1>6, <1>7, <1>8, <1>9, Zenon

\* A frame that is whole in the buffer, as the wire has it.
LEMMA FrameHere ==
    ASSUME Types, Window, pc = "parse"
    PROVE  LET p == SkipTo(buf, pos)
           IN  /\ p \in Nat /\ p \in pos .. Len(buf)
               /\ FrameAt(buf, p) <=> /\ p + FRAME_HEADER <= Len(buf)
                                      /\ EndAt(buf, p) <= Len(buf)
               /\ p + FRAME_HEADER <= Len(buf) =>
                     /\ SyncAt(buf, p) /\ SyncAt(Wire, Base + p)
                     /\ EndAt(Wire, Base + p) = Base + EndAt(buf, p)
                     /\ EndAt(buf, p) \in Nat /\ EndAt(buf, p) >= p + FRAME_HEADER
               /\ FrameAt(buf, p) =>
                     SubSeq(buf, p + FRAME_HEADER + 1, EndAt(buf, p)) \in Seq(Byte)
PROOF
<1> DEFINE p == SkipTo(buf, pos)
<1>n. Len(buf) \in Nat /\ pos \in Nat /\ buf \in Seq(Byte)
  BY Offsets DEF Types
<1>1. /\ p \in pos .. Len(buf)
      /\ p + FRAME_HEADER > Len(buf) \/ SyncAt(buf, p)
  BY SearchOfWire, Zenon
<1> HIDE DEF p
<1>2. p \in Nat
  BY <1>1, <1>n
<1>3. p \in Syncs(buf, p) <=> p + FRAME_HEADER <= Len(buf)
  <2>1. p \in Syncs(buf, p) <=> p \in p .. Len(buf) - FRAME_HEADER /\ SyncAt(buf, p)
    BY Zenon DEF Syncs
  <2>2. p \in p .. Len(buf) - FRAME_HEADER <=> p + FRAME_HEADER <= Len(buf)
    BY <1>n, <1>2 DEF FRAME_HEADER
  <2>3. p + FRAME_HEADER <= Len(buf) => SyncAt(buf, p)
    BY <1>1, <1>2, <1>n DEF FRAME_HEADER
  <2> QED BY <2>1, <2>2, <2>3, Zenon
<1>4. ASSUME p + FRAME_HEADER <= Len(buf)
      PROVE  /\ SyncAt(buf, p) /\ SyncAt(Wire, Base + p)
             /\ EndAt(Wire, Base + p) = Base + EndAt(buf, p)
             /\ EndAt(buf, p) \in Nat /\ EndAt(buf, p) >= p + FRAME_HEADER
  <2>1. SyncAt(buf, p)
    BY <1>1, <1>2, <1>4, <1>n DEF FRAME_HEADER
  <2> QED BY <1>2, <1>4, <2>1, Headers, Zenon
<1>5. ASSUME FrameAt(buf, p)
      PROVE  SubSeq(buf, p + FRAME_HEADER + 1, EndAt(buf, p)) \in Seq(Byte)
  <2>1. EndAt(buf, p) \in Nat /\ EndAt(buf, p) <= Len(buf)
    BY <1>3, <1>4, <1>5, Zenon DEF FrameAt
  <2>2. \A i \in p + FRAME_HEADER + 1 .. EndAt(buf, p) : buf[i] \in Byte
    BY <1>2, <1>n, <2>1, ElementOfSeq DEF FRAME_HEADER
  <2>3. p + FRAME_HEADER + 1 \in Int /\ EndAt(buf, p) \in Int
    BY <1>2, <2>1 DEF FRAME_HEADER
  <2> QED BY <2>2, <2>3, SubSeqProperties
<1>6. FrameAt(buf, p) <=> p + FRAME_HEADER <= Len(buf) /\ EndAt(buf, p) <= Len(buf)
  BY <1>3, Zenon DEF FrameAt
<1> QED BY <1>1, <1>2, <1>4, <1>5, <1>6, Zenon DEF p

LEMMA DrainKeeps == Inv /\ Drain => Inv' /\ Cursor' = Base + SkipTo(buf, pos)
PROOF
<1> SUFFICES ASSUME Inv, Drain PROVE Inv' /\ Cursor' = Base + SkipTo(buf, pos)
  OBVIOUS
<1> USE DEF Inv
<1>0. Wire' = Wire
  BY DEF Drain, Wire
<1> DEFINE p == SkipTo(buf, pos)
<1>1. /\ pc = "parse" /\ ~FrameAt(buf, p) /\ pc' = "read" /\ pos' = 0
      /\ buf' = SubSeq(buf, p + 1, Len(buf)) /\ rx' = rx
      /\ stream' = stream /\ from' = from /\ found' = found /\ started' = started
  BY Zenon DEF Drain
<1>2. /\ p \in Nat /\ p \in pos .. Len(buf)
      /\ FrameAt(buf, p) <=> p + FRAME_HEADER <= Len(buf) /\ EndAt(buf, p) <= Len(buf)
      /\ p + FRAME_HEADER <= Len(buf) =>
            /\ SyncAt(buf, p) /\ EndAt(Wire, Base + p) = Base + EndAt(buf, p)
            /\ EndAt(buf, p) \in Nat
  BY <1>1, FrameHere, Zenon
<1>3. \A q \in Cursor .. Base + p - 1 : ~SyncAt(Wire, q)
  BY <1>1, SearchOfWire, Zenon
<1> HIDE DEF p
<1>n. /\ rx \in Nat /\ Len(buf) \in Nat /\ Base \in Nat /\ Cursor \in Nat
      /\ pos \in Nat /\ Base = rx - Len(buf) /\ Cursor = Base + pos
  BY Offsets DEF Base, Cursor
<1>4. /\ buf' \in Seq(Byte) /\ Len(buf') = Len(buf) - p
      /\ \A i \in 1 .. Len(buf) - p : buf'[i] = buf[p + i]
  <2>1. \A i \in p + 1 .. Len(buf) : buf[i] \in Byte
    BY <1>2, <1>n, ElementOfSeq DEF Types
  <2>2. p + 1 \in Int /\ Len(buf) \in Int
    BY <1>2, <1>n
  <2>3. /\ buf' \in Seq(Byte)
        /\ Len(buf') = IF p + 1 <= Len(buf) THEN Len(buf) - (p + 1) + 1 ELSE 0
        /\ \A i \in 1 .. Len(buf) - (p + 1) + 1 : buf'[i] = buf[p + 1 + i - 1]
    BY <1>1, <2>1, <2>2, SubSeqProperties
  <2>4. Len(buf') = Len(buf) - p
    BY <1>2, <1>n, <2>3
  <2>5. \A i \in 1 .. Len(buf) - p :
           i \in 1 .. Len(buf) - (p + 1) + 1 /\ p + 1 + i - 1 = p + i
    BY <1>2, <1>n
  <2> QED BY <2>3, <2>4, <2>5, Zenon
<1>5. Base' = Base + p /\ Cursor' = Base + p
  <2>1. Base' = rx' - Len(buf') /\ Cursor' = Base' + pos'
    BY Zenon DEF Base, Cursor
  <2>2. rx' = rx /\ pos' = 0 /\ Len(buf') = Len(buf) - p
    BY <1>1, <1>4, Zenon
  <2>3. p \in Nat
    BY <1>2, Zenon
  <2>4. rx - (Len(buf) - p) = Base + p /\ (Base + p) + 0 = Base + p
    BY <1>n, <2>3
  <2> QED BY <2>1, <2>2, <2>4, Zenon
<1>6. Types'
  <2>1. Len(buf') <= rx' - from' /\ pos' \in 0 .. Len(buf')
    BY <1>1, <1>2, <1>4, <1>n, Offsets DEF Types
  <2> QED BY <1>0, <1>1, <1>4, <2>1, Zenon DEF Types
<1>7. Window'
  <2> SUFFICES ASSUME NEW i \in 1 .. Len(buf')
               PROVE  buf'[i] = Wire[(Base + p) + i]
    BY <1>0, <1>5, Zenon DEF Window
  <2>1. i \in 1 .. Len(buf) - p /\ p + i \in 1 .. Len(buf) /\ Base + (p + i) = (Base + p) + i
    BY <1>2, <1>4, <1>n
  <2> QED BY <1>4, <2>1, Zenon DEF Window
<1>8. Framed'
  <2>1. \A i : Resume(i)' = Resume(i)
    BY <1>0, <1>1, Zenon DEF Resume
  <2>2. Resume(Len(found)) <= Cursor /\ Resume(Len(found)) \in Nat
    BY <1>n, FoundTyped, Offsets DEF Framed, Resume
  <2>3. Resume(Len(found)) <= Cursor'
    BY <1>2, <1>5, <1>n, <2>2
  <2>4. \A q \in Resume(Len(found)) .. Cursor' - 1 : ~SyncAt(Wire, q)
    <3> SUFFICES ASSUME NEW q \in Resume(Len(found)) .. Cursor' - 1
                 PROVE  ~SyncAt(Wire, q)
      OBVIOUS
    <3>1. q \in Resume(Len(found)) .. Cursor - 1 \/ q \in Cursor .. Base + p - 1
      BY <1>2, <1>5, <1>n, <2>2
    <3> QED BY <1>3, <3>1, Zenon DEF Framed
  <2> QED BY <1>0, <1>1, <2>1, <2>3, <2>4, Zenon DEF Framed
<1>9. HeldIsOneFrame'
  <2> SUFFICES ASSUME Len(buf') >= FRAME_HEADER
               PROVE  SyncAt(buf', 0) /\ Len(buf') < EndAt(buf', 0)
    BY Zenon DEF HeldIsOneFrame
  <2>1. p + FRAME_HEADER <= Len(buf)
    BY <1>2, <1>4, <1>n DEF FRAME_HEADER
  <2>2. EndAt(buf, p) > Len(buf) /\ EndAt(buf, p) \in Nat /\ SyncAt(buf, p)
    BY <1>1, <1>2, <1>n, <2>1
  <2>3. \A i \in 1 .. Len(buf') : buf'[i] = buf[p + i]
    BY <1>4, Zenon
  <2>4. 0 \in Nat /\ 0 + FRAME_HEADER <= Len(buf')
    BY DEF FRAME_HEADER
  <2>5. (SyncAt(buf', 0) <=> SyncAt(buf, p + 0)) /\ EndAt(buf, p + 0) = p + EndAt(buf', 0)
    BY <1>2, <1>4, <2>3, <2>4, WindowHeaders, Zenon
  <2>6. EndAt(buf', 0) \in Nat
    BY <1>4, <2>4, EndProperties, Zenon
  <2>7. p + 0 = p
    BY <1>2
  <2>8. Len(buf') < EndAt(buf', 0)
    BY <1>2, <1>4, <1>n, <2>2, <2>5, <2>6, <2>7
  <2> QED BY <2>2, <2>5, <2>7, <2>8, Zenon
<1> QED BY <1>5, <1>6, <1>7, <1>8, <1>9, Zenon DEF p

LEMMA TakeKeeps == Inv /\ TakeFrame => Inv' /\ Cursor' = Base + EndAt(buf, SkipTo(buf, pos))
PROOF
<1> SUFFICES ASSUME Inv, TakeFrame PROVE Inv' /\ Cursor' = Base + EndAt(buf, SkipTo(buf, pos))
  OBVIOUS
<1> USE DEF Inv
<1>0. Wire' = Wire
  BY Zenon DEF TakeFrame, Wire
<1> DEFINE p == SkipTo(buf, pos)
           at == rx - Len(buf) + p
<1>1. /\ pc = "parse" /\ FrameAt(buf, p) /\ pos' = EndAt(buf, p)
      /\ found' = Append(found, at)
      /\ stream' = stream /\ rx' = rx /\ pc' = pc /\ buf' = buf /\ from' = from
  BY Zenon DEF TakeFrame
<1>2. /\ p \in Nat /\ p \in pos .. Len(buf)
      /\ p + FRAME_HEADER <= Len(buf) /\ EndAt(buf, p) <= Len(buf)
      /\ SyncAt(Wire, Base + p) /\ EndAt(Wire, Base + p) = Base + EndAt(buf, p)
      /\ EndAt(buf, p) \in Nat /\ EndAt(buf, p) >= p + FRAME_HEADER
  BY <1>1, FrameHere, Zenon
<1>3. \A q \in Cursor .. Base + p - 1 : ~SyncAt(Wire, q)
  BY <1>1, SearchOfWire, Zenon
<1>s. started' \in BOOLEAN
  BY Zenon DEF TakeFrame, Types
<1>a. at = Base + p
  BY Zenon DEF Base
<1> HIDE DEF p, at
<1>n. /\ rx \in Nat /\ Len(buf) \in Nat /\ Base \in Nat /\ Cursor \in Nat
      /\ pos \in Nat /\ Base = rx - Len(buf) /\ Cursor = Base + pos
  BY Offsets DEF Base, Cursor
<1>4. /\ at \in Nat /\ at >= Cursor /\ at + FRAME_HEADER <= rx
      /\ SyncAt(Wire, at) /\ EndAt(Wire, at) \in Nat
      /\ EndAt(Wire, at) = Base + EndAt(buf, p) /\ EndAt(Wire, at) <= rx
      /\ EndAt(Wire, at) >= at
  BY <1>2, <1>a, <1>n DEF FRAME_HEADER
<1>g. \A q \in Cursor .. at - 1 : ~SyncAt(Wire, q)
  <2> SUFFICES ASSUME NEW q \in Cursor .. at - 1 PROVE ~SyncAt(Wire, q)
    OBVIOUS
  <2>1. q \in Cursor .. Base + p - 1
    BY <1>2, <1>4, <1>a, <1>n
  <2> QED BY <1>3, <2>1
<1>5. Base' = Base /\ Cursor' = EndAt(Wire, at)
  <2>1. Base' = Base /\ Cursor' = Base' + pos'
    BY <1>1, Zenon DEF Base, Cursor
  <2> QED BY <1>1, <1>4, <2>1, Zenon
<1>6. Types'
  <2>1. pos' \in 0 .. Len(buf)
    BY <1>1, <1>2, <1>n
  <2> QED BY <1>0, <1>1, <1>s, <2>1, Zenon DEF Types
<1>7. Window'
  BY <1>0, <1>1, <1>5, Zenon DEF Window
<1>8. Framed'
  <2>k. PICK k \in Nat : k = Len(found)
    BY DEF Framed
  <2>1. found \in Seq(Nat)
    BY DEF Framed
  <2>2. /\ found' \in Seq(Nat) /\ Len(found') = k + 1
        /\ \A i \in 1 .. k : found'[i] = found[i]
        /\ found'[k + 1] = at
    BY <1>1, <1>4, <2>1, <2>k, AppendProperties
  <2>3. \A i \in 0 .. k : Resume(i)' = Resume(i)
    <3> SUFFICES ASSUME NEW i \in 0 .. k PROVE Resume(i)' = Resume(i)
      OBVIOUS
    <3>1. CASE i = 0
      BY <1>1, <3>1, Zenon DEF Resume
    <3>2. CASE i # 0
      <4>1. i \in 1 .. k
        BY <2>1, <3>2
      <4> QED BY <1>0, <2>2, <4>1, <3>2, Zenon DEF Resume
    <3> QED BY <3>1, <3>2, Zenon
  <2>4. Resume(k + 1)' = EndAt(Wire, at)
    <3>1. k + 1 # 0
      BY <2>1
    <3> QED BY <1>0, <2>2, <3>1, Zenon DEF Resume
  <2>5. Resume(k) <= Cursor /\ Resume(k) \in Nat
    <3>1. Resume(Len(found)) <= Cursor
      BY DEF Framed
    <3>2. Resume(Len(found)) \in Nat
      BY FoundTyped, Offsets DEF Framed, Resume
    <3> QED BY <2>k, <3>1, <3>2, Zenon
  <2>6. \A q \in Resume(k) .. at - 1 : ~SyncAt(Wire, q)
    <3> SUFFICES ASSUME NEW q \in Resume(k) .. at - 1 PROVE ~SyncAt(Wire, q)
      OBVIOUS
    <3>1. q \in Resume(k) .. Cursor - 1 \/ q \in Cursor .. at - 1
      BY <1>4, <1>n, <2>5
    <3>2. \A r \in Resume(k) .. Cursor - 1 : ~SyncAt(Wire, r)
      BY <2>k, Zenon DEF Framed
    <3> QED BY <1>g, <3>1, <3>2, Zenon
  <2>7. ASSUME NEW i \in 1 .. Len(found')
        PROVE  /\ found'[i] + FRAME_HEADER <= rx /\ SyncAt(Wire, found'[i])
               /\ EndAt(Wire, found'[i]) <= rx
               /\ found'[i] >= Resume(i - 1)'
               /\ \A q \in Resume(i - 1)' .. found'[i] - 1 : ~SyncAt(Wire, q)
    <3>1. CASE i \in 1 .. k
      <4>1. i - 1 \in 0 .. k
        BY <2>1, <3>1
      <4>2. found'[i] = found[i] /\ Resume(i - 1)' = Resume(i - 1)
        BY <2>2, <2>3, <3>1, <4>1, Zenon
      <4> QED BY <2>k, <3>1, <4>2, Zenon DEF Framed
    <3>2. CASE i \notin 1 .. k
      <4>1. i = k + 1 /\ i - 1 = k /\ k \in 0 .. k
        BY <2>1, <2>2, <3>2
      <4>2. found'[i] = at /\ Resume(i - 1)' = Resume(k)
        BY <2>2, <2>3, <4>1, Zenon
      <4>3. at >= Resume(k)
        BY <1>4, <1>n, <2>5
      <4> QED BY <1>4, <2>6, <4>2, <4>3, Zenon
    <3> QED BY <3>1, <3>2, Zenon
  <2>8. Resume(Len(found))' = EndAt(Wire, at)
    BY <2>2, <2>4, Zenon DEF Resume
  <2>9. /\ Resume(Len(found))' <= Cursor'
        /\ \A q \in Resume(Len(found))' .. Cursor' - 1 : ~SyncAt(Wire, q)
    <3>1. Resume(Len(found))' = Cursor' /\ Cursor' \in Nat
      BY <1>4, <1>5, <2>8, Zenon
    <3>2. \A q : q \notin Cursor' .. Cursor' - 1
      BY <3>1
    <3>3. Cursor' <= Cursor'
      BY <3>1
    <3> QED BY <3>1, <3>2, <3>3, Zenon
  <2> QED BY <1>0, <1>1, <2>2, <2>7, <2>9, Zenon DEF Framed
<1>9. HeldIsOneFrame'
  BY <1>1 DEF HeldIsOneFrame
<1> QED BY <1>4, <1>5, <1>6, <1>7, <1>8, <1>9, Zenon DEF p

LEMMA SessionKeeps == Inv /\ NextSession => Inv' /\ Cursor' = rx'
PROOF
<1> SUFFICES ASSUME Inv, NextSession PROVE Inv' /\ Cursor' = rx'
  OBVIOUS
<1> USE DEF Inv
<1>0. Wire' = Wire
  BY DEF NextSession, Wire
<1>1. /\ rx' \in rx .. Len(Wire) /\ from' = rx' /\ stream' = stream
      /\ pc' = "read" /\ buf' = <<>> /\ pos' = 0 /\ started' = FALSE
      /\ found' = <<>>
  BY DEF NextSession
<1>n. rx \in Nat /\ Len(Wire) \in Nat /\ rx' \in Nat
  BY <1>1, Offsets
<1>2. Len(<<>>) = 0 /\ <<>> \in Seq(Byte) /\ <<>> \in Seq(Nat)
  OBVIOUS
<1>3. Cursor' = rx' /\ Resume(Len(found))' = rx'
  <2>1. Cursor' = rx' - Len(buf') + pos' /\ Len(buf') = 0 /\ Len(found') = 0
    BY <1>1, <1>2, Zenon DEF Cursor, Base
  <2>2. Cursor' = rx'
    <3>1. \A n \in Nat : n - 0 + 0 = n
      OBVIOUS
    <3> QED BY <1>1, <1>n, <2>1, <3>1, Zenon
  <2> QED BY <1>1, <2>1, <2>2, Zenon DEF Resume
<1>4. Types'
  <2>1. rx' \in 0 .. Len(Wire) /\ from' \in 0 .. rx'
    BY <1>1, <1>n
  <2>2. Len(buf') <= rx' - from' /\ pos' \in 0 .. Len(buf')
    <3>1. 0 \in 0 .. 0 /\ \A n \in Nat : 0 <= n - n
      OBVIOUS
    <3> QED BY <1>1, <1>2, <1>n, <3>1, Zenon
  <2> QED BY <1>0, <1>1, <1>2, <2>1, <2>2, Zenon DEF Types
<1>5. Window'
  <2>1. \A i : i \notin 1 .. Len(buf')
    BY <1>1, <1>2
  <2> QED BY <2>1, Zenon DEF Window
<1>6. Framed'
  <2>1. \A i : i \notin 1 .. Len(found')
    BY <1>1, <1>2
  <2>2. \A q : q \notin rx' .. rx' - 1
    BY <1>n
  <2>3. rx' <= rx'
    BY <1>n
  <2> QED BY <1>1, <1>2, <1>3, <2>1, <2>2, <2>3, Zenon DEF Framed
<1>7. HeldIsOneFrame'
  <2>1. ~(Len(buf') >= FRAME_HEADER)
    BY <1>1, <1>2 DEF FRAME_HEADER
  <2> QED BY <2>1, Zenon DEF HeldIsOneFrame
<1> QED BY <1>3, <1>4, <1>5, <1>6, <1>7, Zenon

\* Inv holds in every reachable state.
THEOREM Invariance == Spec => []Inv
PROOF
<1>1. Inv /\ [Next]_vars => Inv'
  <2> SUFFICES ASSUME Inv, [Next]_vars PROVE Inv'
    OBVIOUS
  <2>1. CASE Read
    BY <2>1, ReadKeeps
  <2>2. CASE TakeFrame
    BY <2>2, TakeKeeps
  <2>3. CASE Drain
    BY <2>3, DrainKeeps
  <2>4. CASE NextSession
    BY <2>4, SessionKeeps
  <2>5. CASE UNCHANGED vars
    <3>1. Wire' = Wire
      BY <2>5, Zenon DEF vars, Wire
    <3>2. \A i : Resume(i)' = Resume(i)
      BY <2>5, <3>1, Zenon DEF vars, Resume
    <3>3. Base' = Base /\ Cursor' = Cursor
      BY <2>5, Zenon DEF vars, Base, Cursor
    <3>4. Types' /\ Window'
      BY <2>5, <3>1, <3>3, Zenon DEF Inv, vars, Types, Window
    <3>5. Framed'
      BY <2>5, <3>1, <3>2, <3>3, Zenon DEF Inv, vars, Framed
    <3>6. HeldIsOneFrame'
      BY <2>5, Zenon DEF Inv, vars, HeldIsOneFrame
    <3> QED BY <3>4, <3>5, <3>6, Zenon DEF Inv
  <2> QED BY <2>1, <2>2, <2>3, <2>4, <2>5 DEF Next
<1> QED BY InitHolds, <1>1, PTL DEF Spec

\* The buffer is the end of what was read: no read and no drain loses, repeats
\* or moves a byte (capture.rs:323-360).
THEOREM TypeCorrect == Spec => []TypeOK
PROOF
<1>1. Inv => TypeOK
  <2> SUFFICES ASSUME Inv PROVE TypeOK
    OBVIOUS
  <2>n. /\ rx \in Nat /\ Len(buf) \in Nat /\ Base \in Nat /\ rx <= Len(Wire)
        /\ Base = rx - Len(buf) /\ Wire \in Seq(Byte) /\ buf \in Seq(Byte)
        /\ Len(Wire) \in Nat
    BY Offsets DEF Inv, Types, Base
  <2> DEFINE w == SubSeq(Wire, rx - Len(buf) + 1, rx)
  <2>1. /\ w \in Seq(Byte) /\ Len(w) = Len(buf)
        /\ \A i \in 1 .. Len(buf) : w[i] = Wire[Base + i]
    <3>1. \A i \in Base + 1 .. rx : Wire[i] \in Byte
      BY <2>n, ElementOfSeq
    <3>2. Base + 1 \in Int /\ rx \in Int
      BY <2>n
    <3>3. w = SubSeq(Wire, Base + 1, rx)
      BY <2>n, Zenon
    <3> HIDE DEF w
    <3>4. /\ w \in Seq(Byte)
          /\ Len(w) = IF Base + 1 <= rx THEN rx - (Base + 1) + 1 ELSE 0
          /\ \A i \in 1 .. rx - (Base + 1) + 1 : w[i] = Wire[Base + 1 + i - 1]
      BY <3>1, <3>2, <3>3, SubSeqProperties
    <3>5. Len(w) = Len(buf)
      BY <2>n, <3>4
    <3>6. \A i \in 1 .. Len(buf) : i \in 1 .. rx - (Base + 1) + 1 /\ Base + 1 + i - 1 = Base + i
      BY <2>n
    <3> QED BY <3>4, <3>5, <3>6, Zenon
  <2>2. buf = w
    <3> HIDE DEF w
    <3> QED BY <2>n, <2>1, SeqEqual, Zenon DEF Inv, Window
  <2> QED BY <2>2, Zenon DEF Inv, Types, TypeOK
<1> QED BY Invariance, <1>1, PTL

\* Whatever bytes come, in whatever pieces, between two reads the buffer holds
\* less than a header or the beginning of one frame: garbage does not pile up
\* (common.rs:183-203, capture.rs:323-360).
THEOREM BufferIsBounded == Spec => []HeldIsOneFrame
PROOF
<1>1. Inv => HeldIsOneFrame
  BY DEF Inv
<1> QED BY Invariance, <1>1, PTL

\* What does not fill the frame it begins is no longer than the longest frame.
LEMMA OneFrameFits ==
    ASSUME NEW b \in Seq(Byte),
           Len(b) >= FRAME_HEADER => Len(b) < EndAt(b, 0)
    PROVE  Len(b) <= FRAME_HEADER + MAX_PAYLOAD
PROOF
<1>1. Len(b) \in Nat
  OBVIOUS
<1>2. CASE Len(b) >= FRAME_HEADER
  <2>1. 5 \in 1 .. Len(b) /\ 6 \in 1 .. Len(b)
    BY <1>1, <1>2 DEF FRAME_HEADER
  <2>2. b[5] \in 0 .. 255 /\ b[6] \in 0 .. 255
    BY <2>1, ElementOfSeq DEF Byte
  <2>3. Len(b) < 0 + FRAME_HEADER + (b[0 + 5] + 256 * b[0 + 6])
    BY <1>2, Zenon DEF EndAt, LengthAt
  <2>4. PICK n \in Nat, lo \in 0 .. 255, hi \in 0 .. 255 :
           n = Len(b) /\ lo = b[0 + 5] /\ hi = b[0 + 6]
    <3>1. 0 + 5 = 5 /\ 0 + 6 = 6
      OBVIOUS
    <3> QED BY <1>1, <2>2, <3>1, Zenon
  <2>5. n < 0 + 8 + (lo + 256 * hi) => n <= 8 + 65535
    OBVIOUS
  <2> QED BY <2>3, <2>4, <2>5 DEF FRAME_HEADER, MAX_PAYLOAD
<1> QED BY <1>1, <1>2 DEF FRAME_HEADER, MAX_PAYLOAD

\* The buffer is no larger than one frame and one read, garbage or not: a
\* header, the longest payload its length field can name, and a read more
\* (capture.rs:323-360).
THEOREM BufferFits ==
    Spec => [](Len(buf) <= FRAME_HEADER + MAX_PAYLOAD + MaxRead)
PROOF
<1> DEFINE Fits == Len(buf) <= FRAME_HEADER + MAX_PAYLOAD + MaxRead
<1>0. FRAME_HEADER \in Nat /\ MAX_PAYLOAD \in Nat /\ MaxRead \in Nat
  BY FrameStreamAssumption DEF FRAME_HEADER, MAX_PAYLOAD
<1>1. Init => Fits
  BY <1>0 DEF Init
<1>2. Inv /\ Inv' /\ Fits /\ [Next]_vars => Fits'
  <2> SUFFICES ASSUME Inv, Inv', Fits, [Next]_vars PROVE Fits'
    OBVIOUS
  <2>1. /\ buf \in Seq(Byte) /\ buf' \in Seq(Byte)
        /\ Len(buf) \in Nat /\ Len(buf') \in Nat
        /\ rx \in Nat /\ Wire \in Seq(Byte) /\ Len(Wire) \in Nat
    BY Offsets DEF Inv, Types
  <2>2. CASE Read
    <3>1. PICK n \in 1 .. MaxRead : /\ rx + n <= Len(Wire) /\ rx' = rx + n
                                    /\ buf' = buf \o SubSeq(Wire, rx + 1, rx + n)
      BY <2>2 DEF Read
    <3>2. n \in Nat /\ n <= MaxRead
      BY <1>0, <3>1
    <3>3. SubSeq(Wire, rx + 1, rx + n) \in Seq(Byte) /\ Len(SubSeq(Wire, rx + 1, rx + n)) = n
      BY <2>1, <3>1, <3>2
    <3>4. Len(buf') = Len(buf) + n
      BY <2>1, <3>1, <3>3
    <3>5. Len(buf) <= FRAME_HEADER + MAX_PAYLOAD
      BY <2>1, <2>2, OneFrameFits DEF Inv, HeldIsOneFrame, Read
    <3> QED BY <1>0, <2>1, <3>2, <3>4, <3>5
  <2>3. CASE Drain \/ NextSession
    <3>1. pc' = "read"
      BY <2>3 DEF Drain, NextSession
    <3>2. Len(buf') <= FRAME_HEADER + MAX_PAYLOAD
      BY <2>1, <3>1, OneFrameFits DEF Inv, HeldIsOneFrame
    <3> QED BY <1>0, <2>1, <3>2
  <2>4. CASE TakeFrame \/ UNCHANGED vars
    BY <2>4, Zenon DEF TakeFrame, vars
  <2> QED BY <2>2, <2>3, <2>4 DEF Next
<1> QED BY <1>1, <1>2, Invariance, PTL DEF Spec

\* How the stream is cut into reads neither loses, adds nor moves a frame: what
\* next_frame() finds is the framing of the wire itself (common.rs:183-203).
THEOREM FramesAreThoseOfTheWire == Spec => []CutsDoNotMatter
PROOF
<1>1. Inv => CutsDoNotMatter
  <2> SUFFICES ASSUME Inv, pc = "read" PROVE IsFraming(found, from, rx)
    BY DEF CutsDoNotMatter
  <2> USE DEF Inv
  <2>n. /\ rx \in Nat /\ from \in Nat /\ Len(buf) \in Nat /\ Base \in Nat
        /\ rx <= Len(Wire) /\ Base <= rx /\ Base = rx - Len(buf)
        /\ Wire \in Seq(Byte) /\ Len(Wire) \in Nat
    BY Offsets DEF Base
  <2>c. Cursor = Base
    <3>1. pos = 0 BY DEF Types
    <3> QED BY <2>n, <3>1 DEF Cursor
  <2> DEFINE bytes == SubSeq(Wire, 1, rx)
             resume(i) == IF i = 0 THEN from ELSE EndAt(bytes, found[i])
             rest == Syncs(bytes, resume(Len(found)))
  <2>1. /\ bytes \in Seq(Byte) /\ Len(bytes) = rx
        /\ \A i \in 1 .. rx : bytes[i] = Wire[0 + i]
    <3>1. \A i \in 1 .. rx : Wire[i] \in Byte
      BY <2>n, ElementOfSeq
    <3>2. 1 \in Int /\ rx \in Int
      BY <2>n
    <3>4. /\ bytes \in Seq(Byte)
          /\ Len(bytes) = IF 1 <= rx THEN rx - 1 + 1 ELSE 0
          /\ \A i \in 1 .. rx - 1 + 1 : bytes[i] = Wire[1 + i - 1]
      BY <3>1, <3>2, SubSeqProperties
    <3> HIDE DEF bytes
    <3>5. Len(bytes) = rx
      BY <2>n, <3>4
    <3>6. \A i \in 1 .. rx : i \in 1 .. rx - 1 + 1 /\ 1 + i - 1 = 0 + i
      BY <2>n
    <3> QED BY <3>4, <3>5, <3>6, Zenon
  <2>2. ASSUME NEW p \in Nat, p + FRAME_HEADER <= rx
        PROVE  /\ SyncAt(bytes, p) <=> SyncAt(Wire, p)
               /\ EndAt(Wire, p) = EndAt(bytes, p) /\ EndAt(bytes, p) \in Nat
    <3> HIDE DEF bytes
    <3>1. /\ SyncAt(bytes, p) <=> SyncAt(Wire, 0 + p)
          /\ EndAt(Wire, 0 + p) = 0 + EndAt(bytes, p)
      BY <2>1, <2>2, WindowHeaders, 0 \in Nat, Zenon
    <3>2. EndAt(bytes, p) \in Nat
      BY <2>1, <2>2, EndProperties, Zenon
    <3>3. \A n \in Nat : 0 + n = n
      OBVIOUS
    <3> QED BY <3>1, <3>2, <3>3, Zenon
  <2>3. \A i \in 1 .. Len(found) :
           /\ found[i] \in Nat /\ found[i] + FRAME_HEADER <= rx
           /\ SyncAt(bytes, found[i]) /\ EndAt(bytes, found[i]) <= rx
           /\ EndAt(Wire, found[i]) = EndAt(bytes, found[i])
    BY <2>2, FoundTyped, Zenon DEF Framed
  <2>4. \A i \in 0 .. Len(found) : resume(i) = Resume(i) /\ resume(i) \in Nat
    <3> SUFFICES ASSUME NEW i \in 0 .. Len(found)
                 PROVE  resume(i) = Resume(i) /\ resume(i) \in Nat
      OBVIOUS
    <3>1. CASE i = 0
      BY <2>n, <3>1, Zenon DEF Resume
    <3>2. CASE i # 0
      <4>1. i \in 1 .. Len(found)
        BY <3>2
      <4> QED BY <2>3, <3>2, <4>1, FoundTyped, Zenon DEF Resume
    <3> QED BY <3>1, <3>2, Zenon
  <2>5. Len(found) \in Nat
    BY DEF Framed
  <2> HIDE DEF bytes
  <2>6. ASSUME NEW i \in 1 .. Len(found)
        PROVE  /\ FrameAt(bytes, found[i]) /\ found[i] >= resume(i - 1)
               /\ \A p \in resume(i - 1) .. found[i] - 1 : ~SyncAt(bytes, p)
    <3>1. i - 1 \in 0 .. Len(found)
      BY <2>5
    <3>2. resume(i - 1) = Resume(i - 1) /\ resume(i - 1) \in Nat
      BY <2>4, <3>1, Zenon
    <3> HIDE DEF resume
    <3>3. FrameAt(bytes, found[i])
      <4>1. found[i] \in found[i] .. Len(bytes) - FRAME_HEADER
        BY <2>1, <2>3, <2>n DEF FRAME_HEADER
      <4>2. EndAt(bytes, found[i]) <= Len(bytes)
        BY <2>1, <2>3, Zenon
      <4> QED BY <2>3, <4>1, <4>2, Zenon DEF FrameAt, Syncs
    <3>4. ASSUME NEW p \in resume(i - 1) .. found[i] - 1
          PROVE  ~SyncAt(bytes, p)
      <4>1. found[i] \in Nat /\ found[i] + FRAME_HEADER <= rx
        BY <2>3, Zenon
      <4>2. p \in Nat /\ p + FRAME_HEADER <= rx
        BY <2>n, <3>2, <4>1 DEF FRAME_HEADER
      <4>3. ~SyncAt(Wire, p)
        BY <3>2, Zenon DEF Framed
      <4> QED BY <2>2, <4>2, <4>3, Zenon
    <3> QED BY <3>2, <3>3, <3>4, Zenon DEF Framed
  <2>7. ASSUME rest # {} PROVE ~FrameAt(bytes, Min(rest))
    <3> DEFINE k == Len(found)
               m == Min(rest)
    <3>1. resume(k) = Resume(k) /\ resume(k) \in Nat
      <4>1. k \in 0 .. Len(found)
        BY <2>5
      <4> QED BY <2>4, <4>1, Zenon
    <3> HIDE DEF resume
    <3>2. \A p : p \in rest <=> /\ p \in resume(k) .. Len(bytes) - FRAME_HEADER
                                /\ SyncAt(bytes, p)
      BY Zenon DEF Syncs
    <3>3. rest \subseteq Nat
      BY <2>1, <2>n, <3>1, <3>2 DEF FRAME_HEADER
    <3>4. m \in rest /\ \A y \in rest : m <= y
      BY <2>7, <3>3, MinOfNaturals, Zenon
    <3> HIDE DEF m, k, rest
    <3>5. m \in Nat /\ resume(k) <= m /\ m + FRAME_HEADER <= rx /\ SyncAt(bytes, m)
      BY <2>1, <2>n, <3>1, <3>2, <3>4 DEF FRAME_HEADER
    <3>6. Base <= m
      <4>1. SyncAt(Wire, m)
        BY <2>2, <3>5, Zenon
      <4>2. ~(m \in Resume(k) .. Base - 1)
        BY <2>c, <4>1, Zenon DEF Framed, k
      <4> QED BY <2>n, <3>1, <3>5, <4>2
    <3>7. Len(buf) >= FRAME_HEADER
      BY <2>n, <3>5, <3>6 DEF FRAME_HEADER
    <3>8. SyncAt(buf, 0) /\ Len(buf) < EndAt(buf, 0)
      BY <3>7 DEF HeldIsOneFrame
    <3>9. /\ SyncAt(Wire, Base) /\ EndAt(Wire, Base) = Base + EndAt(buf, 0)
          /\ EndAt(buf, 0) \in Nat
      <4>1. 0 \in Nat /\ 0 + FRAME_HEADER <= Len(buf) /\ Base + 0 = Base
        BY <2>n, <3>7 DEF FRAME_HEADER
      <4>2. /\ SyncAt(buf, 0) <=> SyncAt(Wire, Base + 0)
            /\ EndAt(Wire, Base + 0) = Base + EndAt(buf, 0) /\ EndAt(buf, 0) \in Nat
        BY <4>1, Headers, Zenon
      <4> QED BY <3>8, <4>1, <4>2, Zenon
    <3>10. Base + FRAME_HEADER <= rx
      BY <2>n, <3>7 DEF FRAME_HEADER
    <3>11. SyncAt(bytes, Base) /\ EndAt(bytes, Base) = EndAt(Wire, Base)
      BY <2>2, <2>n, <3>9, <3>10, Zenon
    <3>12. Base \in rest
      <4>1. Resume(k) <= Base
        BY <2>c, Zenon DEF Framed, k
      <4>2. Base \in resume(k) .. Len(bytes) - FRAME_HEADER
        BY <2>1, <2>n, <3>1, <3>10, <4>1 DEF FRAME_HEADER
      <4> QED BY <3>2, <3>11, <4>2, Zenon
    <3>13. m = Base
      BY <2>n, <3>4, <3>5, <3>6, <3>12
    <3>14. EndAt(bytes, m) > Len(bytes)
      BY <2>1, <2>n, <3>8, <3>9, <3>11, <3>13
    <3>15. EndAt(bytes, m) \in Nat
      BY <2>2, <3>5, Zenon
    <3>16. ~(EndAt(bytes, m) <= Len(bytes))
      BY <2>1, <2>n, <3>14, <3>15
    <3> QED BY <3>16, Zenon DEF FrameAt, m
  <2> QED BY <2>6, <2>7, Zenon DEF IsFraming, bytes
<1> QED BY Invariance, <1>1, PTL

\* A framing is one of its stretch of the wire alone: two sessions that began
\* at the same byte and read as far have found the same frames, whatever their
\* reads were (common.rs:183-203).
THEOREM FramingIsUnique ==
    ASSUME stream \in Streams, NEW first \in Nat, NEW last \in 0 .. Len(Wire),
           NEW s \in Seq(Nat), NEW t \in Seq(Nat),
           IsFraming(s, first, last), IsFraming(t, first, last)
    PROVE  s = t
PROOF
<1> DEFINE bytes == SubSeq(Wire, 1, last)
           resume(u, i) == IF i = 0 THEN first ELSE EndAt(bytes, u[i])
           Framing(u) ==
              /\ \A i \in 1 .. Len(u) :
                    /\ FrameAt(bytes, u[i]) /\ u[i] >= resume(u, i - 1)
                    /\ \A p \in resume(u, i - 1) .. u[i] - 1 : ~SyncAt(bytes, p)
              /\ LET rest == Syncs(bytes, resume(u, Len(u)))
                 IN  rest # {} => ~FrameAt(bytes, Min(rest))
<1>1. Framing(s) /\ Framing(t)
  BY Zenon DEF IsFraming
<1>2. bytes \in Seq(Byte)
  <2>1. Wire \in Seq(Byte) /\ Len(Wire) \in Nat
    BY WireTyped
  <2>2. 1 \in Int /\ last \in Int /\ \A i \in 1 .. last : i \in 1 .. Len(Wire)
    BY <2>1
  <2>3. \A i \in 1 .. last : Wire[i] \in Byte
    BY <2>1, <2>2, ElementOfSeq, Zenon
  <2> QED BY <2>2, <2>3, SubSeqProperties
<1> HIDE DEF bytes
<1>3. Len(bytes) \in Nat
  BY <1>2
<1>4. ASSUME NEW p \in Nat, FrameAt(bytes, p)
      PROVE  SyncAt(bytes, p) /\ p + FRAME_HEADER <= Len(bytes) /\ EndAt(bytes, p) \in Nat
  <2>1. p \in p .. Len(bytes) - FRAME_HEADER /\ SyncAt(bytes, p)
    BY <1>4, Zenon DEF FrameAt, Syncs
  <2>2. p + FRAME_HEADER <= Len(bytes)
    BY <1>3, <2>1 DEF FRAME_HEADER
  <2> QED BY <1>2, <2>1, <2>2, EndProperties, Zenon
<1>5. ASSUME NEW u \in Seq(Nat), Framing(u), NEW i \in 1 .. Len(u)
      PROVE  /\ u[i] \in Nat /\ FrameAt(bytes, u[i]) /\ SyncAt(bytes, u[i])
             /\ u[i] + FRAME_HEADER <= Len(bytes) /\ resume(u, i) \in Nat
             /\ u[i] >= resume(u, i - 1)
             /\ \A p \in resume(u, i - 1) .. u[i] - 1 : ~SyncAt(bytes, p)
  <2>1. u[i] \in Nat
    BY ElementOfSeq
  <2>2. /\ FrameAt(bytes, u[i]) /\ u[i] >= resume(u, i - 1)
        /\ \A p \in resume(u, i - 1) .. u[i] - 1 : ~SyncAt(bytes, p)
    BY <1>5, Zenon
  <2>3. SyncAt(bytes, u[i]) /\ u[i] + FRAME_HEADER <= Len(bytes) /\ EndAt(bytes, u[i]) \in Nat
    BY <1>4, <2>1, <2>2, Zenon
  <2>4. resume(u, i) \in Nat
    BY <2>3
  <2> QED BY <2>1, <2>2, <2>3, <2>4, Zenon
<1>6. ASSUME NEW u \in Seq(Nat), Framing(u), NEW i \in 0 .. Len(u)
      PROVE  resume(u, i) \in Nat
  <2>1. CASE i = 0
    BY <2>1
  <2>2. CASE i # 0
    <3>1. i \in 1 .. Len(u)
      BY <2>2
    <3> QED BY <1>5, <1>6, <3>1, Zenon
  <2> QED BY <2>1, <2>2
<1> HIDE DEF Framing
\* As far as both go they agree.
<1>7. ASSUME NEW i \in 1 .. Len(s), i <= Len(t), s[i] # t[i] PROVE FALSE
  <2> DEFINE Bad == {n \in 1 .. Len(s) : n <= Len(t) /\ s[n] # t[n]}
  <2>1. PICK n \in Bad : \A m \in Bad : n <= m
    <3>1. Bad \subseteq Nat /\ i \in Bad
      BY <1>7
    <3> HIDE DEF Bad
    <3> QED BY <3>1, MinOfNaturals, Zenon
  <2>2. n \in 1 .. Len(s) /\ n \in 1 .. Len(t) /\ s[n] # t[n]
    BY <2>1
  <2>3. PICK r \in Nat : r = resume(s, n - 1) /\ r = resume(t, n - 1)
    <3>1. n - 1 \in 0 .. Len(s)
      BY <2>2
    <3>2. resume(s, n - 1) \in Nat
      <4> HIDE DEF resume
      <4> QED BY <1>1, <1>6, <3>1, Zenon
    <3>3. CASE n - 1 = 0
      BY <3>2, <3>3
    <3>4. CASE n - 1 # 0
      <4>1. n - 1 \in 1 .. Len(s) /\ n - 1 <= Len(t) /\ ~(n <= n - 1)
        BY <2>2, <3>4
      <4>2. n - 1 \notin Bad
        BY <2>1, <4>1, Zenon
      <4>3. s[n - 1] = t[n - 1]
        BY <4>1, <4>2, Zenon
      <4> QED BY <3>2, <3>4, <4>3, Zenon
    <3> QED BY <3>3, <3>4, Zenon
  <2> HIDE DEF resume, Bad
  <2>4. /\ s[n] \in Nat /\ SyncAt(bytes, s[n]) /\ s[n] >= r
        /\ \A p \in r .. s[n] - 1 : ~SyncAt(bytes, p)
    BY <1>1, <1>5, <2>2, <2>3, Zenon
  <2>5. /\ t[n] \in Nat /\ SyncAt(bytes, t[n]) /\ t[n] >= r
        /\ \A p \in r .. t[n] - 1 : ~SyncAt(bytes, p)
    BY <1>1, <1>5, <2>2, <2>3, Zenon
  <2>6. ~(s[n] \in r .. t[n] - 1) /\ ~(t[n] \in r .. s[n] - 1)
    BY <2>4, <2>5, Zenon
  <2>7. s[n] = t[n]
    <3>1. PICK a \in Nat, b \in Nat : /\ a = s[n] /\ b = t[n] /\ a >= r /\ b >= r
                                      /\ ~(a \in r .. b - 1) /\ ~(b \in r .. a - 1)
      BY <2>4, <2>5, <2>6, Zenon
    <3>2. a = b
      BY <3>1, SMT
    <3> QED BY <3>1, <3>2, Zenon
  <2> QED BY <2>2, <2>7
\* And neither goes further.
<1>8. ASSUME NEW u \in Seq(Nat), NEW w \in Seq(Nat), Framing(u), Framing(w),
             \A i \in 1 .. Len(u) : i <= Len(w) => u[i] = w[i]
      PROVE  ~(Len(u) < Len(w))
  <2> SUFFICES ASSUME Len(u) < Len(w) PROVE FALSE
    OBVIOUS
  <2>1. PICK k \in Nat, n \in 1 .. Len(w) :
           k = Len(u) /\ n = k + 1 /\ n - 1 = k /\ k \in 0 .. Len(w)
    <3>1. PICK k \in Nat : k = Len(u) /\ k < Len(w)
      BY Zenon, LenProperties
    <3>2. k + 1 \in 1 .. Len(w) /\ (k + 1) - 1 = k /\ k \in 0 .. Len(w)
      BY <3>1
    <3> QED BY <3>1, <3>2, Zenon
  <2>2. PICK r \in Nat : r = resume(u, k) /\ r = resume(w, k)
    <3>1. resume(w, k) \in Nat
      <4> HIDE DEF resume
      <4> QED BY <1>6, <1>8, <2>1, Zenon
    <3>2. CASE k = 0
      BY <3>1, <3>2
    <3>3. CASE k # 0
      <4>1. k \in 1 .. Len(u) /\ k <= Len(w)
        BY <2>1, <3>3
      <4> QED BY <1>8, <3>1, <3>3, <4>1, Zenon
    <3> QED BY <3>2, <3>3, Zenon
  <2>3. Syncs(bytes, r) # {} => ~FrameAt(bytes, Min(Syncs(bytes, r)))
    BY <1>8, <2>1, <2>2, Zenon DEF Framing
  <2> HIDE DEF resume
  <2>4. /\ w[n] \in Nat /\ FrameAt(bytes, w[n]) /\ SyncAt(bytes, w[n])
        /\ w[n] + FRAME_HEADER <= Len(bytes) /\ w[n] >= r
        /\ \A p \in r .. w[n] - 1 : ~SyncAt(bytes, p)
    BY <1>5, <1>8, <2>1, <2>2, Zenon
  <2>5. \A p : p \in Syncs(bytes, r) <=> p \in r .. Len(bytes) - FRAME_HEADER /\ SyncAt(bytes, p)
    BY Zenon DEF Syncs
  <2>6. w[n] \in Syncs(bytes, r)
    <3>1. w[n] \in r .. Len(bytes) - FRAME_HEADER
      BY <1>3, <2>4 DEF FRAME_HEADER
    <3> QED BY <2>4, <2>5, <3>1, Zenon
  <2>7. Syncs(bytes, r) \subseteq Nat
    BY <1>3, <2>5 DEF FRAME_HEADER
  <2>8. PICK m \in Nat : m = Min(Syncs(bytes, r)) /\ m \in Syncs(bytes, r) /\ m <= w[n]
    BY <2>6, <2>7, MinOfNaturals, Zenon
  <2>9. r <= m /\ SyncAt(bytes, m)
    BY <1>3, <2>5, <2>8 DEF FRAME_HEADER
  <2>10. ~(m \in r .. w[n] - 1)
    BY <2>4, <2>9, Zenon
  <2>11. m = w[n]
    BY <2>4, <2>8, <2>9, <2>10
  <2> QED BY <2>3, <2>4, <2>6, <2>8, <2>11, Zenon
<1> HIDE DEF resume
<1>9. Len(s) \in Nat /\ Len(t) \in Nat
  OBVIOUS
<1>10. /\ \A i \in 1 .. Len(s) : i <= Len(t) => s[i] = t[i]
       /\ \A i \in 1 .. Len(t) : i <= Len(s) => t[i] = s[i]
  <2>1. \A i \in 1 .. Len(s) : i <= Len(t) => s[i] = t[i]
    BY <1>7
  <2>2. \A i \in 1 .. Len(t) : i <= Len(s) => i \in 1 .. Len(s) /\ i <= Len(t)
    BY <1>9
  <2> QED BY <2>1, <2>2
<1>11. ~(Len(s) < Len(t)) /\ ~(Len(t) < Len(s))
  BY <1>1, <1>8, <1>10, Zenon
<1>12. Len(s) = Len(t) /\ \A i \in 1 .. Len(s) : i <= Len(t)
  BY <1>9, <1>11
<1> QED BY <1>10, <1>12, SeqEqual

-----------------------------------------------------------------------------
(* The first bytes of a session's output.                                  *)

\* More output keeps them.
LEMMA SpsKept ==
    ASSUME NEW a \in Seq(Byte), NEW b \in Seq(Byte), Len(a) >= 5, IsSps(a, 0)
    PROVE  Len(a \o b) >= 5 /\ IsSps(a \o b, 0)
PROOF
<1>1. /\ Len(a) \in Nat /\ Len(b) \in Nat /\ Len(a \o b) = Len(a) + Len(b)
      /\ (a \o b)[5] = a[5]
  BY ConcatProperties
<1>2. SubSeq(a \o b, 1, 4) = SubSeq(a, 1, 4)
  <2>1. 1 \in 1 .. Len(a) /\ 4 \in 1 .. Len(a)
    BY <1>1
  <2> QED BY <2>1, SubSeqOfConcat1, Zenon
<1>3. 0 + 1 = 1 /\ 0 + 4 = 4 /\ 0 + 5 = 5
  OBVIOUS
<1>4. Len(a \o b) >= 5
  BY <1>1
<1> QED BY <1>1, <1>2, <1>3, <1>4, Zenon DEF IsSps

\* What find_sps() leaves of a payload begins with an SPS.
LEMMA FromSpsProperties ==
    ASSUME NEW p \in Seq(Byte), SpsOffsets(p) # {}
    PROVE  FromSps(p) \in Seq(Byte) /\ Len(FromSps(p)) >= 5 /\ IsSps(FromSps(p), 0)
PROOF
<1>0. Len(p) \in Nat
  OBVIOUS
<1>1. \A i : i \in SpsOffsets(p) <=> i \in 0 .. Len(p) - 5 /\ IsSps(p, i)
  BY Zenon DEF SpsOffsets
<1>2. SpsOffsets(p) \subseteq Nat
  BY <1>0, <1>1
<1>3. PICK m \in Nat : m = Min(SpsOffsets(p)) /\ m + 5 <= Len(p) /\ IsSps(p, m)
  <2>1. Min(SpsOffsets(p)) \in SpsOffsets(p)
    BY <1>2, MinOfNaturals, Zenon
  <2>2. \A i \in SpsOffsets(p) : i \in Nat /\ i + 5 <= Len(p) /\ IsSps(p, i)
    BY <1>0, <1>1
  <2> QED BY <2>1, <2>2, Zenon
<1> DEFINE s == SubSeq(p, m + 1, Len(p))
<1>4. /\ s \in Seq(Byte) /\ Len(s) >= 5 /\ s[5] = p[m + 5]
  <2>1. \A i \in m + 1 .. Len(p) : p[i] \in Byte
    BY <1>0, ElementOfSeq
  <2>2. m + 1 \in Int /\ Len(p) \in Int
    BY <1>0
  <2>3. /\ s \in Seq(Byte)
        /\ Len(s) = IF m + 1 <= Len(p) THEN Len(p) - (m + 1) + 1 ELSE 0
        /\ \A i \in 1 .. Len(p) - (m + 1) + 1 : s[i] = p[m + 1 + i - 1]
    BY <2>1, <2>2, SubSeqProperties
  <2> HIDE DEF s
  <2>4. 5 \in 1 .. Len(p) - (m + 1) + 1 /\ m + 1 + 5 - 1 = m + 5
    BY <1>0, <1>3
  <2>5. s[5] = p[m + 5]
    BY <2>3, <2>4, Zenon
  <2>6. Len(s) >= 5
    BY <1>0, <1>3, <2>3
  <2> QED BY <2>3, <2>5, <2>6, Zenon
<1>5. SubSeq(s, 1, 4) = SubSeq(p, m + 1, m + 4)
  <2>1. /\ m + 1 \in 1 .. Len(p) /\ Len(p) \in 1 .. Len(p)
        /\ 1 \in 1 .. Len(p) - (m + 1) + 1 /\ 4 \in 1 .. Len(p) - (m + 1) + 1
    BY <1>0, <1>3
  <2>2. SubSeq(s, 1, 4) = SubSeq(p, (m + 1) + 1 - 1, (m + 1) + 4 - 1)
    BY <2>1, SubSeqOfSubSeq
  <2>3. (m + 1) + 1 - 1 = m + 1 /\ (m + 1) + 4 - 1 = m + 4
    OBVIOUS
  <2> QED BY <2>2, <2>3, Zenon
<1>6. FromSps(p) = s
  BY <1>3, Zenon DEF FromSps
<1> HIDE DEF s
<1>7. 0 + 1 = 1 /\ 0 + 4 = 4 /\ 0 + 5 = 5
  OBVIOUS
<1> QED BY <1>3, <1>4, <1>5, <1>6, <1>7, Zenon DEF IsSps

\* Nothing is written before the stream started, and what is begins with an SPS.
Begun ==
    /\ out \in Seq(Byte)
    /\ ~started => out = <<>>
    /\ started => Len(out) >= 5 /\ IsSps(out, 0)

LEMMA TakeBegun == Inv /\ Begun /\ TakeFrame => Begun'
PROOF
<1> SUFFICES ASSUME Inv, Begun, TakeFrame PROVE Begun'
  OBVIOUS
<1> DEFINE p == SkipTo(buf, pos)
           payload == SubSeq(buf, p + FRAME_HEADER + 1, EndAt(buf, p))
<1>1. /\ pc = "parse" /\ FrameAt(buf, p)
      /\ \/ started' = started /\ out' = out
         \/ /\ started' = (started \/ SpsOffsets(payload) # {})
            /\ out' = CASE started -> out \o payload
                        [] ~started /\ started' -> out \o FromSps(payload)
                        [] OTHER -> out
  BY Zenon DEF TakeFrame
<1>2. payload \in Seq(Byte)
  BY <1>1, FrameHere, Zenon DEF Inv
<1> HIDE DEF payload, p
<1>3. CASE started' = started /\ out' = out
  BY <1>3, Zenon DEF Begun
<1>4. CASE /\ started' = (started \/ SpsOffsets(payload) # {})
           /\ out' = CASE started -> out \o payload
                       [] ~started /\ started' -> out \o FromSps(payload)
                       [] OTHER -> out
  <2>1. CASE started
    <3>1. started' /\ out' = out \o payload
      BY <1>4, <2>1
    <3>2. out \in Seq(Byte) /\ Len(out) >= 5 /\ IsSps(out, 0)
      BY <2>1, Zenon DEF Begun
    <3>3. out \o payload \in Seq(Byte)
      BY <1>2, <3>2
    <3> QED BY <1>2, <3>1, <3>2, <3>3, SpsKept, Zenon DEF Begun
  <2>2. CASE ~started /\ started'
    <3>1. SpsOffsets(payload) # {} /\ out' = out \o FromSps(payload) /\ out = <<>>
      BY <1>4, <2>2 DEF Begun
    <3>2. /\ FromSps(payload) \in Seq(Byte) /\ Len(FromSps(payload)) >= 5
          /\ IsSps(FromSps(payload), 0)
      BY <1>2, <3>1, FromSpsProperties, Zenon
    <3>3. out' = FromSps(payload)
      BY <3>1, <3>2, ConcatEmptySeq
    <3> QED BY <2>2, <3>2, <3>3, Zenon DEF Begun
  <2>3. CASE ~started /\ ~started'
    <3>1. out' = out
      BY <1>4, <2>3
    <3> QED BY <2>3, <3>1, Zenon DEF Begun
  <2> QED BY <2>1, <2>2, <2>3
<1> QED BY <1>1, <1>3, <1>4, Zenon

LEMMA BeginIsKept == Spec => []Begun
PROOF
<1>1. Init => Begun
  <2>1. <<>> \in Seq(Byte)
    OBVIOUS
  <2> QED BY <2>1, Zenon DEF Init, Begun
<1>2. Inv /\ Begun /\ [Next]_vars => Begun'
  <2> SUFFICES ASSUME Inv, Begun, [Next]_vars PROVE Begun'
    OBVIOUS
  <2>1. CASE TakeFrame
    BY <2>1, TakeBegun
  <2>2. CASE NextSession
    <3>1. <<>> \in Seq(Byte)
      OBVIOUS
    <3> QED BY <2>2, <3>1, Zenon DEF NextSession, Begun
  <2>3. CASE Read \/ Drain \/ UNCHANGED vars
    <3>1. out' = out /\ started' = started
      BY <2>3, Zenon DEF Read, Drain, vars
    <3> QED BY <3>1, Zenon DEF Begun
  <2> QED BY <2>1, <2>2, <2>3 DEF Next
<1> QED BY Invariance, <1>1, <1>2, PTL DEF Spec

-----------------------------------------------------------------------------
(* The video of a stream that is received from its first byte on.          *)

\* Frames of the stream in which find_sps() would find something.
HasSps(i) == SpsOffsets(Videos[i]) # {}
FirstSps(i) == HasSps(i) /\ \A j \in 1 .. i - 1 : ~HasSps(j)

\* Where the video of the first n frames ends, and where it begins if the i-th
\* is the first with an SPS.
Mark(n) == Len(Joined(Videos, n))
Begin(i) == Mark(i - 1) + Min(SpsOffsets(Videos[i])) + 1

VideoFrom(i, n) == SubSeq(Joined(Videos, n), Begin(i), Mark(n))

LEMMA Marks ==
    ASSUME stream \in Streams
    PROVE  /\ \A n \in 0 .. Total : Joined(Videos, n) \in Seq(Byte) /\ Mark(n) \in Nat
           /\ \A n \in 0 .. Total : \A m \in n .. Total : Mark(n) <= Mark(m)
           /\ \A i \in 1 .. Total : /\ Videos[i] \in Seq(Byte) /\ Len(Videos[i]) \in Nat
                                      /\ Mark(i) = Mark(i - 1) + Len(Videos[i])
PROOF
<1>0. /\ Total \in Nat /\ Len(Videos) = Total /\ Videos \in Seq(Seq(Byte))
  BY StreamTyped
<1>1. \A n \in 0 .. Total : Joined(Videos, n) \in Seq(Byte) /\ Mark(n) \in Nat
  BY <1>0, JoinedProperties, LenProperties, Zenon DEF Mark
<1>2. \A n \in 0 .. Total : \A m \in n .. Total : Mark(n) <= Mark(m)
  BY <1>0, JoinedPrefix, Zenon DEF Mark
<1>3. ASSUME NEW i \in 1 .. Total
      PROVE  /\ Videos[i] \in Seq(Byte) /\ Len(Videos[i]) \in Nat
             /\ Mark(i) = Mark(i - 1) + Len(Videos[i])
  <2>1. PICK n \in 0 .. Total - 1 : n = i - 1 /\ n + 1 = i /\ i \in n + 1 .. Total
    <3>1. /\ i - 1 \in 0 .. Total - 1 /\ (i - 1) + 1 = i /\ i \in (i - 1) + 1 .. Total
      BY <1>0
    <3> QED BY <3>1, Zenon
  <2>2. Videos[i] \in Seq(Byte)
    BY <1>0, ElementOfSeq
  <2>3. Len(Joined(Videos, n + 1)) = Len(Joined(Videos, n)) + Len(Videos[n + 1])
    BY <1>0, <2>1, JoinedPiece
  <2> QED BY <2>1, <2>2, <2>3, LenProperties, Zenon DEF Mark
<1> QED BY <1>1, <1>2, <1>3

\* Where find_sps() finds one first.
LEMMA FirstOffset ==
    ASSUME NEW p \in Seq(Byte), SpsOffsets(p) # {}
    PROVE  LET m == Min(SpsOffsets(p))
           IN  /\ m \in Nat /\ m + 5 <= Len(p) /\ IsSps(p, m)
               /\ \A o \in SpsOffsets(p) : m <= o
PROOF
<1>0. Len(p) \in Nat
  OBVIOUS
<1>1. \A i : i \in SpsOffsets(p) <=> i \in 0 .. Len(p) - 5 /\ IsSps(p, i)
  BY Zenon DEF SpsOffsets
<1>2. SpsOffsets(p) \subseteq Nat
  BY <1>0, <1>1
<1> DEFINE m == Min(SpsOffsets(p))
<1>3. m \in SpsOffsets(p) /\ \A o \in SpsOffsets(p) : m <= o
  BY <1>2, MinOfNaturals, Zenon
<1> HIDE DEF m
<1>4. m \in 0 .. Len(p) - 5 /\ IsSps(p, m)
  BY <1>1, <1>3, Zenon
<1>5. m \in Nat /\ m + 5 <= Len(p)
  BY <1>0, <1>4
<1> QED BY <1>3, <1>4, <1>5, Zenon DEF m

\* The end of what was joined grows with it.
LEMMA EndGrows ==
    ASSUME NEW x \in Seq(Byte), NEW y \in Seq(Byte), NEW b \in 1 .. Len(x) + 1
    PROVE  SubSeq(x \o y, b, Len(x \o y)) = SubSeq(x, b, Len(x)) \o y
PROOF
<1>0. Len(x) \in Nat /\ Len(y) \in Nat /\ b \in Int
  OBVIOUS
<1> DEFINE xy == x \o y
           s == SubSeq(xy, b, Len(x) + Len(y))
           t == SubSeq(x, b, Len(x))
<1>1. /\ xy \in Seq(Byte) /\ Len(xy) = Len(x) + Len(y)
      /\ \A i \in 1 .. Len(x) + Len(y) : xy[i] = IF i <= Len(x) THEN x[i] ELSE y[i - Len(x)]
  BY ConcatProperties
<1> HIDE DEF xy
<1>2. /\ s \in Seq(Byte) /\ Len(s) = Len(x) + Len(y) - b + 1
      /\ \A j \in 1 .. Len(x) + Len(y) - b + 1 : s[j] = xy[b + j - 1]
  <2>1. \A i \in b .. Len(x) + Len(y) : xy[i] \in Byte
    BY <1>0, <1>1, ElementOfSeq
  <2>2. /\ s \in Seq(Byte)
        /\ Len(s) = IF b <= Len(x) + Len(y) THEN Len(x) + Len(y) - b + 1 ELSE 0
        /\ \A j \in 1 .. Len(x) + Len(y) - b + 1 : s[j] = xy[b + j - 1]
    BY <1>0, <2>1, SubSeqProperties
  <2> HIDE DEF s
  <2> QED BY <1>0, <2>2
<1>3. /\ t \in Seq(Byte) /\ Len(t) = Len(x) - b + 1
      /\ \A j \in 1 .. Len(x) - b + 1 : t[j] = x[b + j - 1]
  <2>1. \A i \in b .. Len(x) : x[i] \in Byte
    BY <1>0, ElementOfSeq
  <2>2. /\ t \in Seq(Byte)
        /\ Len(t) = IF b <= Len(x) THEN Len(x) - b + 1 ELSE 0
        /\ \A j \in 1 .. Len(x) - b + 1 : t[j] = x[b + j - 1]
    BY <1>0, <2>1, SubSeqProperties
  <2> HIDE DEF t
  <2> QED BY <1>0, <2>2
<1> HIDE DEF s, t
<1>4. /\ t \o y \in Seq(Byte) /\ Len(t \o y) = Len(s)
      /\ \A j \in 1 .. Len(s) : (t \o y)[j] = IF j <= Len(t) THEN t[j] ELSE y[j - Len(t)]
  <2>1. /\ t \o y \in Seq(Byte) /\ Len(t \o y) = Len(t) + Len(y)
        /\ \A j \in 1 .. Len(t) + Len(y) : (t \o y)[j] = IF j <= Len(t) THEN t[j] ELSE y[j - Len(t)]
    BY <1>3, ConcatProperties
  <2>2. Len(t) + Len(y) = Len(s)
    BY <1>0, <1>2, <1>3
  <2> QED BY <2>1, <2>2, Zenon
<1>5. ASSUME NEW j \in 1 .. Len(s) PROVE s[j] = (t \o y)[j]
  <2>0. j \in 1 .. Len(x) + Len(y) - b + 1 /\ b + j - 1 \in 1 .. Len(x) + Len(y)
    BY <1>0, <1>2
  <2>1. s[j] = IF b + j - 1 <= Len(x) THEN x[b + j - 1] ELSE y[b + j - 1 - Len(x)]
    BY <1>1, <1>2, <2>0
  <2>2. CASE j <= Len(t)
    <3>1. b + j - 1 <= Len(x) /\ j \in 1 .. Len(x) - b + 1
      BY <1>0, <1>3, <2>0, <2>2
    <3> QED BY <1>3, <1>4, <2>1, <2>2, <3>1, Zenon
  <2>3. CASE ~(j <= Len(t))
    <3>1. ~(b + j - 1 <= Len(x)) /\ b + j - 1 - Len(x) = j - Len(t)
      BY <1>0, <1>3, <2>0, <2>3
    <3> QED BY <1>4, <2>1, <2>3, <3>1, Zenon
  <2> QED BY <2>2, <2>3
<1>6. s = t \o y
  BY <1>2, <1>4, <1>5, SeqEqual, Zenon
<1> QED BY <1>1, <1>6, Zenon DEF s, t, xy

\* The video begins inside the frame with the first SPS.
LEMMA BeginInside ==
    ASSUME stream \in Streams, NEW i \in 1 .. Total, HasSps(i)
    PROVE  /\ Begin(i) \in Nat /\ Begin(i) > Mark(i - 1) /\ Begin(i) + 4 <= Mark(i)
           /\ Mark(i - 1) \in Nat
PROOF
<1>0. Total \in Nat
  BY StreamTyped
<1>1. /\ Videos[i] \in Seq(Byte) /\ Len(Videos[i]) \in Nat
      /\ Mark(i) = Mark(i - 1) + Len(Videos[i])
  BY Marks
<1>2. Mark(i - 1) \in Nat
  <2>1. i - 1 \in 0 .. Total
    BY <1>0
  <2> QED BY <2>1, Marks
<1>3. PICK m \in Nat : m = Min(SpsOffsets(Videos[i])) /\ m + 5 <= Len(Videos[i])
  BY <1>1, FirstOffset, Zenon DEF HasSps
<1>4. Begin(i) = Mark(i - 1) + m + 1
  BY <1>3, Zenon DEF Begin
<1> QED BY <1>1, <1>2, <1>3, <1>4

\* A frame more adds what it has of video.
LEMMA VideoGrows ==
    ASSUME stream \in Streams, NEW k \in 0 .. Total - 1
    PROVE  /\ \A i \in 1 .. k : HasSps(i) =>
                 VideoFrom(i, k + 1) = VideoFrom(i, k) \o Videos[k + 1]
           /\ HasSps(k + 1) => VideoFrom(k + 1, k + 1) = FromSps(Videos[k + 1])
PROOF
<1>0. PICK n \in 1 .. Total : n = k + 1 /\ k \in 0 .. Total /\ k < Total /\ n - 1 = k
  <2>1. Total \in Nat
    BY StreamTyped
  <2>2. k + 1 \in 1 .. Total /\ k \in 0 .. Total /\ k < Total /\ (k + 1) - 1 = k
    BY <2>1
  <2> QED BY <2>2, Zenon
<1> DEFINE x == Joined(Videos, k)
           y == Videos[n]
<1>1. x \in Seq(Byte) /\ y \in Seq(Byte) /\ Joined(Videos, n) = x \o y
  <2>1. Joined(Videos, k + 1) = x \o Videos[k + 1]
    BY <1>0, StreamTyped, JoinedProperties, Zenon
  <2> QED BY <1>0, <2>1, Marks, Zenon
<1>2. Mark(k) = Len(x) /\ Mark(n) = Len(x \o y)
  BY <1>1, Zenon DEF Mark
<1>3. Len(x) \in Nat /\ Len(y) \in Nat /\ Len(x \o y) = Len(x) + Len(y)
  BY <1>1, ConcatProperties, LenProperties
<1> HIDE DEF x, y
<1>4. ASSUME NEW i \in 1 .. k, HasSps(i)
      PROVE  VideoFrom(i, n) = VideoFrom(i, k) \o y
  <2>0. i \in 1 .. Total /\ i \in 0 .. Total /\ k \in i .. Total
    <3>1. Total \in Nat
      BY StreamTyped
    <3>2. k \in 0 .. Total
      BY <1>0
    <3> QED BY <3>1, <3>2
  <2>1. Begin(i) \in 1 .. Len(x) + 1
    <3>1. Begin(i) \in Nat /\ Begin(i) > Mark(i - 1) /\ Begin(i) + 4 <= Mark(i) /\ Mark(i - 1) \in Nat
      BY <1>4, <2>0, BeginInside
    <3>2. Mark(i) <= Len(x) /\ Mark(i) \in Nat
      BY <1>2, <2>0, Marks
    <3> QED BY <1>3, <3>1, <3>2
  <2>2. SubSeq(x \o y, Begin(i), Len(x \o y)) = SubSeq(x, Begin(i), Len(x)) \o y
    BY <1>1, <2>1, EndGrows
  <2> QED BY <1>1, <1>2, <2>2, Zenon DEF VideoFrom, x
<1>5. ASSUME HasSps(n) PROVE VideoFrom(n, n) = FromSps(y)
  <2>1. PICK m \in Nat : m = Min(SpsOffsets(y)) /\ m + 5 <= Len(y)
    BY <1>1, <1>5, FirstOffset, Zenon DEF HasSps, y
  <2>2. Begin(n) = Len(x) + m + 1
    BY <1>0, <1>2, <2>1, Zenon DEF Begin, y
  <2>3. PICK b \in Nat, e \in Nat :
              /\ b = Begin(n) /\ e = Len(x) + Len(y)
              /\ b \in Len(x) + 1 .. Len(x) + Len(y) /\ e \in Len(x) + 1 .. Len(x) + Len(y)
              /\ b - Len(x) = m + 1 /\ e - Len(x) = Len(y)
    <3>1. /\ Len(x) + m + 1 \in Nat /\ Len(x) + Len(y) \in Nat
          /\ Len(x) + m + 1 \in Len(x) + 1 .. Len(x) + Len(y)
          /\ Len(x) + Len(y) \in Len(x) + 1 .. Len(x) + Len(y)
          /\ (Len(x) + m + 1) - Len(x) = m + 1 /\ (Len(x) + Len(y)) - Len(x) = Len(y)
      BY <1>3, <2>1
    <3> QED BY <2>2, <3>1, Zenon
  <2>4. SubSeq(x \o y, b, e) = SubSeq(y, b - Len(x), e - Len(x))
    BY <1>1, <2>3, SubSeqOfConcat2
  <2>5. SubSeq(x \o y, Begin(n), Len(x) + Len(y)) = SubSeq(y, m + 1, Len(y))
    BY <2>3, <2>4, Zenon
  <2> QED BY <1>1, <1>2, <1>3, <2>1, <2>5, Zenon DEF VideoFrom, FromSps
<1> QED BY <1>0, <1>4, <1>5, Zenon DEF y

\* Where the n-th frame of such a stream ends on the wire.
Whole == from = 0 /\ stream.junk = <<>>
At(n) == Len(Joined(Sent, n))

LEMMA Ends ==
    ASSUME stream \in Streams, stream.junk = <<>>
    PROVE  /\ Total \in Nat /\ At(0) = 0 /\ At(Total) = Len(Wire)
           /\ \A n \in 0 .. Total : At(n) \in Nat /\ At(n) <= Len(Wire)
PROOF
<1>0. /\ Total \in Nat /\ Len(Sent) = Total /\ Sent \in Seq(Seq(Byte))
      /\ Wire = stream.junk \o Joined(Sent, Total)
  BY StreamTyped, Zenon
<1>1. \A n \in 0 .. Total : Joined(Sent, n) \in Seq(Byte) /\ At(n) \in Nat
  BY <1>0, JoinedProperties, LenProperties, Zenon DEF At
<1>2. Total \in 0 .. Total /\ \A n \in 0 .. Total : Total \in n .. Total
  BY <1>0
<1>3. Wire = Joined(Sent, Total)
  <2>1. Joined(Sent, Total) \in Seq(Byte)
    BY <1>1, <1>2
  <2>2. <<>> \o Joined(Sent, Total) = Joined(Sent, Total)
    BY <2>1, ConcatEmptySeq
  <2> QED BY <1>0, <2>2, Zenon
<1>4. At(0) = 0
  BY JoinedNone, EmptySeq, Zenon DEF At
<1>5. At(Total) = Len(Wire)
  BY <1>3, Zenon DEF At
<1>6. \A n \in 0 .. Total : At(n) <= Len(Wire)
  BY <1>0, <1>2, <1>5, JoinedPrefix, Zenon DEF At
<1> QED BY <1>0, <1>1, <1>4, <1>5, <1>6, Zenon

\* There, the next frame lies.
LEMMA NextOnWire ==
    ASSUME stream \in Streams, stream.junk = <<>>, NEW k \in 0 .. Total - 1
    PROVE  LET f == stream.frames[k + 1]
           IN  /\ SyncAt(Wire, At(k)) /\ Wire[At(k) + 3] = f.channel
               /\ EndAt(Wire, At(k)) = At(k + 1)
               /\ At(k + 1) = At(k) + FRAME_HEADER + Len(f.payload)
               /\ f.payload \in Seq(Byte) /\ Len(f.payload) \in Nat
               /\ \A j \in 1 .. Len(f.payload) :
                     Wire[At(k) + FRAME_HEADER + j] = f.payload[j]
PROOF
<1>0. PICK n \in 1 .. Total : n = k + 1 /\ k \in 0 .. Total /\ Total \in n .. Total
  <2>1. Total \in Nat
    BY StreamTyped
  <2>2. k + 1 \in 1 .. Total /\ k \in 0 .. Total /\ Total \in k + 1 .. Total
    BY <2>1
  <2> QED BY <2>2, Zenon
<1>1. PICK f \in Frames : f = stream.frames[n] /\ Len(f.payload) <= MAX_PAYLOAD
                          /\ Sent[n] = Encode(f)
  BY StreamTyped, Zenon
<1>2. /\ f.payload \in Seq(Byte) /\ Len(f.payload) \in Nat
      /\ Encode(f) \in Seq(Byte)
      /\ Len(Encode(f)) = FRAME_HEADER + Len(f.payload)
      /\ SyncAt(Encode(f), 0) /\ Encode(f)[3] = f.channel
      /\ LengthAt(Encode(f), 0) = Len(f.payload)
      /\ \A j \in 1 .. Len(f.payload) : Encode(f)[FRAME_HEADER + j] = f.payload[j]
  BY <1>1, EncodeProperties, Zenon
<1>3. PICK a \in Nat : a = At(k)
  BY <1>0, Ends, Zenon
<1>4. Wire = Joined(Sent, Total)
  <2>1. /\ Joined(Sent, Total) \in Seq(Byte) /\ Wire = <<>> \o Joined(Sent, Total)
    <3>1. Total \in 0 .. Total
      BY <1>0
    <3> QED BY <3>1, StreamTyped, JoinedProperties, Zenon
  <2> QED BY <2>1, ConcatEmptySeq
<1>5. /\ At(n) = a + Len(Encode(f))
      /\ \A j \in 1 .. Len(Encode(f)) : Wire[a + j] = Encode(f)[j]
  <2>1. PICK w : w = Sent /\ w \in Seq(Seq(Byte)) /\ Len(w) = Total
    BY StreamTyped, Zenon
  <2>2. k \in 0 .. Len(w) - 1 /\ Total \in k + 1 .. Len(w)
    BY <1>0, <2>1, Zenon
  <2>3. /\ Len(Joined(w, k + 1)) = Len(Joined(w, k)) + Len(w[k + 1])
        /\ \A j \in 1 .. Len(w[k + 1]) :
              Joined(w, Total)[Len(Joined(w, k)) + j] = w[k + 1][j]
    BY <2>1, <2>2, JoinedPiece
  <2> QED BY <1>0, <1>1, <1>3, <1>4, <2>1, <2>3, Zenon DEF At
<1> DEFINE e == Encode(f)
           len == Len(f.payload)
<1> HIDE DEF e, len
<1>6. /\ e \in Seq(Byte) /\ len \in Nat /\ Len(e) = FRAME_HEADER + len
      /\ SyncAt(e, 0) /\ e[3] = f.channel /\ LengthAt(e, 0) = len
      /\ At(n) = a + Len(e) /\ \A j \in 1 .. Len(e) : Wire[a + j] = e[j]
      /\ \A j \in 1 .. len : e[FRAME_HEADER + j] = f.payload[j]
  BY <1>2, <1>5, Zenon DEF e, len
<1>7. /\ Wire[a + 1] = e[1] /\ Wire[a + 2] = e[2] /\ Wire[a + 3] = e[3]
      /\ Wire[a + 5] = e[5] /\ Wire[a + 6] = e[6]
  BY <1>6 DEF FRAME_HEADER
<1>8. SyncAt(Wire, a) /\ Wire[a + 3] = f.channel /\ LengthAt(Wire, a) = len
  <2>1. 0 + 1 = 1 /\ 0 + 2 = 2 /\ 0 + 5 = 5 /\ 0 + 6 = 6
    OBVIOUS
  <2>2. e[1] = 85 /\ e[2] = 204 /\ e[5] + 256 * e[6] = len
    BY <1>6, <2>1 DEF SyncAt, LengthAt
  <2> QED BY <1>6, <1>7, <2>2, Zenon DEF SyncAt, LengthAt
<1>9. EndAt(Wire, a) = At(n) /\ At(n) = a + FRAME_HEADER + len
  <2>1. EndAt(Wire, a) = a + FRAME_HEADER + len
    BY <1>8, Zenon DEF EndAt
  <2> QED BY <1>6, <2>1 DEF FRAME_HEADER
<1>10. ASSUME NEW j \in 1 .. len PROVE Wire[a + FRAME_HEADER + j] = f.payload[j]
  <2>1. FRAME_HEADER + j \in 1 .. Len(e) /\ a + (FRAME_HEADER + j) = a + FRAME_HEADER + j
    BY <1>6 DEF FRAME_HEADER
  <2>2. Wire[a + (FRAME_HEADER + j)] = e[FRAME_HEADER + j]
    BY <1>6, <2>1
  <2> QED BY <1>6, <2>1, <2>2, Zenon
<1> QED BY <1>0, <1>1, <1>2, <1>3, <1>8, <1>9, <1>10, Zenon DEF len

\* The receiver finds the frames as they were sent ...
Aligned == Len(found) <= Total /\ Cursor = At(Len(found))

\* ... and wrote what they have of video from the first SPS on.
Copied ==
    /\ ~started => out = <<>> /\ \A i \in 1 .. Len(found) : ~HasSps(i)
    /\ started => \E i \in 1 .. Len(found) :
                     FirstSps(i) /\ out = VideoFrom(i, Len(found))

Kept == Whole => Aligned /\ Copied

\* A slice, from what its elements are.
LEMMA SliceIs ==
    ASSUME NEW x \in Seq(Byte), NEW y \in Seq(Byte), NEW m \in Nat,
           m + Len(y) <= Len(x), \A j \in 1 .. Len(y) : x[m + j] = y[j]
    PROVE  SubSeq(x, m + 1, m + Len(y)) = y
PROOF
<1>0. Len(x) \in Nat /\ Len(y) \in Nat
  OBVIOUS
<1>1. PICK h \in Nat, e \in Nat : h = m + 1 /\ e = m + Len(y)
  <2>1. m + 1 \in Nat /\ m + Len(y) \in Nat
    BY <1>0
  <2> QED BY <2>1, Zenon
<1> DEFINE s == SubSeq(x, h, e)
<1>2. \A i \in h .. e : x[i] \in Byte
  <2>1. \A i \in h .. e : i \in 1 .. Len(x)
    BY <1>0, <1>1
  <2> QED BY <2>1, ElementOfSeq, Zenon
<1>3. /\ s \in Seq(Byte) /\ Len(s) = IF h <= e THEN e - h + 1 ELSE 0
      /\ \A i \in 1 .. e - h + 1 : s[i] = x[h + i - 1]
  BY <1>1, <1>2, SubSeqProperties
<1> HIDE DEF s
<1>4. Len(s) = Len(y)
  BY <1>0, <1>1, <1>3
<1>5. ASSUME NEW j \in 1 .. Len(s) PROVE s[j] = y[j]
  <2>1. j \in 1 .. e - h + 1 /\ h + j - 1 = m + j /\ j \in 1 .. Len(y)
    BY <1>0, <1>1, <1>4
  <2> QED BY <1>3, <2>1, Zenon
<1>6. s = y
  BY <1>3, <1>4, <1>5, SeqEqual, Zenon
<1> QED BY <1>1, <1>6, Zenon DEF s

\* What next_frame() looks at is the next frame that was sent.
LEMMA NextIsHere ==
    ASSUME Inv, Whole, Aligned, pc = "parse"
    PROVE  LET k == Len(found)
               p == SkipTo(buf, pos)
           IN  /\ k \in 0 .. Total /\ Base + p = Cursor
               /\ FrameAt(buf, p) =>
                     /\ k \in 0 .. Total - 1 /\ Base + EndAt(buf, p) = At(k + 1)
                     /\ buf[p + 3] = stream.frames[k + 1].channel
                     /\ SubSeq(buf, p + FRAME_HEADER + 1, EndAt(buf, p))
                        = stream.frames[k + 1].payload
PROOF
<1>0. PICK k \in 0 .. Total : k = Len(found)
  <2>1. Len(found) \in Nat /\ Total \in Nat
    BY Ends DEF Inv, Types, Framed, Whole
  <2> QED BY <2>1 DEF Aligned
<1>1. /\ At(k) \in Nat /\ At(k) <= Len(Wire) /\ At(Total) = Len(Wire) /\ Total \in Nat
      /\ Cursor = At(k) /\ stream \in Streams /\ stream.junk = <<>>
  BY <1>0, Ends, Zenon DEF Inv, Types, Whole, Aligned
<1>2. PICK p \in pos .. Len(buf) :
            /\ p = SkipTo(buf, pos) /\ p \in Nat
            /\ FrameAt(buf, p) <=> p + FRAME_HEADER <= Len(buf) /\ EndAt(buf, p) <= Len(buf)
            /\ p + FRAME_HEADER <= Len(buf) =>
                  EndAt(Wire, Base + p) = Base + EndAt(buf, p) /\ EndAt(buf, p) \in Nat
  BY FrameHere, Zenon DEF Inv
<1>3. \A q \in Cursor .. Base + p - 1 : ~SyncAt(Wire, q)
  BY <1>2, SearchOfWire, Zenon DEF Inv
<1>4. /\ rx \in Nat /\ pos \in Nat /\ Len(buf) \in Nat /\ Base \in Nat /\ Cursor \in Nat
      /\ Base = rx - Len(buf) /\ Cursor = Base + pos /\ Cursor <= rx /\ rx <= Len(Wire)
      /\ Len(Wire) \in Nat
  BY Offsets, Zenon DEF Inv, Base, Cursor
<1>5. p = pos
  <2> SUFFICES ASSUME p # pos PROVE FALSE
    OBVIOUS
  <2>1. pos < p /\ Cursor \in Cursor .. Base + p - 1
    BY <1>2, <1>4
  <2>2. CASE k = Total
    <3>1. Cursor = Len(Wire)
      BY <1>1, <2>2, Zenon
    <3> QED BY <1>2, <1>4, <2>1, <3>1
  <2>3. CASE k # Total
    <3>1. k \in 0 .. Total - 1
      BY <1>1, <2>3
    <3>2. SyncAt(Wire, Cursor)
      BY <1>1, <3>1, NextOnWire, Zenon
    <3> QED BY <1>3, <2>1, <3>2, Zenon
  <2> QED BY <2>2, <2>3
<1>6. Base + p = Cursor
  BY <1>4, <1>5
<1>7. ASSUME FrameAt(buf, p)
      PROVE  /\ k \in 0 .. Total - 1 /\ Base + EndAt(buf, p) = At(k + 1)
             /\ buf[p + 3] = stream.frames[k + 1].channel
             /\ SubSeq(buf, p + FRAME_HEADER + 1, EndAt(buf, p)) = stream.frames[k + 1].payload
  <2>1. /\ p + FRAME_HEADER <= Len(buf) /\ EndAt(buf, p) <= Len(buf) /\ EndAt(buf, p) \in Nat
        /\ EndAt(Wire, Base + p) = Base + EndAt(buf, p)
    BY <1>2, <1>7, Zenon
  <2>2. k \in 0 .. Total - 1
    <3>1. k # Total
      <4> SUFFICES ASSUME k = Total PROVE FALSE
        OBVIOUS
      <4>1. Cursor = Len(Wire)
        BY <1>1, Zenon
      <4> QED BY <1>2, <1>4, <1>6, <2>1, <4>1 DEF FRAME_HEADER
    <3> QED BY <1>1, <3>1
  <2>3. PICK f : /\ f = stream.frames[k + 1]
                 /\ Wire[Cursor + 3] = f.channel /\ EndAt(Wire, Cursor) = At(k + 1)
                 /\ At(k + 1) = Cursor + FRAME_HEADER + Len(f.payload)
                 /\ f.payload \in Seq(Byte) /\ Len(f.payload) \in Nat
                 /\ \A j \in 1 .. Len(f.payload) :
                       Wire[Cursor + FRAME_HEADER + j] = f.payload[j]
    BY <1>1, <2>2, NextOnWire, Zenon
  <2>4. Base + EndAt(buf, p) = At(k + 1)
    BY <1>6, <2>1, <2>3, Zenon
  <2>5. \A i \in 1 .. Len(buf) : buf[i] = Wire[Base + i]
    BY DEF Inv, Window
  <2>6. buf[p + 3] = f.channel
    <3>1. p + 3 \in 1 .. Len(buf) /\ Base + (p + 3) = Cursor + 3
      BY <1>2, <1>4, <1>6, <2>1 DEF FRAME_HEADER
    <3> QED BY <2>3, <2>5, <3>1, Zenon
  <2>7. PICK e \in Nat : /\ e = EndAt(buf, p) /\ e = p + FRAME_HEADER + Len(f.payload)
                         /\ e <= Len(buf)
    <3>1. PICK e \in Nat, len \in Nat : e = EndAt(buf, p) /\ len = Len(f.payload)
      BY <2>1, <2>3, Zenon
    <3>2. Base + e = Cursor + FRAME_HEADER + len
      BY <2>3, <2>4, <3>1, Zenon
    <3>3. e = p + FRAME_HEADER + len
      BY <1>4, <1>5, <3>2 DEF FRAME_HEADER
    <3> QED BY <2>1, <3>1, <3>3, Zenon
  <2>8. SubSeq(buf, p + FRAME_HEADER + 1, e) = f.payload
    <3>1. PICK m \in Nat : m = p + FRAME_HEADER
      BY <1>2 DEF FRAME_HEADER
    <3>7. PICK payload \in Seq(Byte), len \in Nat :
                payload = f.payload /\ len = Len(payload) /\ e = m + len
      BY <2>3, <2>7, <3>1, Zenon
    <3>2. Base + m = Cursor + FRAME_HEADER
      <4>1. PICK b, q, c : b = Base /\ q = p /\ c = Cursor
        OBVIOUS
      <4>2. b \in Nat /\ q \in Nat /\ c = b + q /\ m = q + FRAME_HEADER
        BY <1>2, <1>4, <1>6, <3>1, <4>1, Zenon
      <4>3. b + m = c + FRAME_HEADER
        BY <4>2, SMT DEF FRAME_HEADER
      <4> QED BY <4>1, <4>3, Zenon
    <3>8. e \in Nat /\ e <= Len(buf)
      BY <2>7, Zenon
    <3>3. ASSUME NEW j \in 1 .. len PROVE buf[m + j] = payload[j]
      <4>1. m + j \in 1 .. Len(buf) /\ Base + (m + j) = (Base + m) + j
        <5>1. PICK b, n : b = Base /\ n = Len(buf)
          OBVIOUS
        <5>2. b \in Nat /\ n \in Nat /\ e \in Nat /\ e <= n /\ e = m + len
          BY <1>4, <3>7, <3>8, <5>1, Zenon
        <5>3. m + j \in 1 .. n /\ b + (m + j) = (b + m) + j
          BY <5>2, SMT
        <5> QED BY <5>1, <5>3, Zenon
      <4>2. buf[m + j] = Wire[Cursor + FRAME_HEADER + j]
        BY <2>5, <3>2, <4>1, Zenon
      <4> QED BY <2>3, <3>7, <4>2, Zenon
    <3>4. buf \in Seq(Byte) /\ m + Len(payload) <= Len(buf)
      BY <3>7, <3>8, Zenon DEF Inv, Types
    <3>5. SubSeq(buf, m + 1, m + Len(payload)) = payload
      BY <3>7, <3>1, <3>3, <3>4, SliceIs, Zenon
    <3> QED BY <2>7, <3>1, <3>7, <3>5, Zenon
  <2> QED BY <2>2, <2>3, <2>4, <2>6, <2>7, <2>8, Zenon
<1> QED BY <1>0, <1>2, <1>6, <1>7, Zenon

LEMMA InitKept == Init => Kept
PROOF
<1> SUFFICES ASSUME Init, Whole PROVE Aligned /\ Copied
  BY Zenon DEF Kept
<1>1. stream \in Streams /\ stream.junk = <<>> /\ found = <<>> /\ buf = <<>>
      /\ rx = 0 /\ pos = 0 /\ ~started /\ out = <<>>
  BY Zenon DEF Init, Whole
<1>2. Len(<<>>) = 0 /\ 0 - 0 + 0 = 0 /\ \A i : i \notin 1 .. 0
  OBVIOUS
<1>3. Cursor = 0
  BY <1>1, <1>2, Zenon DEF Cursor, Base
<1>4. At(0) = 0 /\ 0 <= Total
  BY <1>1, Ends
<1> QED BY <1>1, <1>2, <1>3, <1>4, Zenon DEF Aligned, Copied

\* A step that leaves the cursor and the frames found alone.
LEMMA KeptIfUntouched ==
    ASSUME Kept, Cursor' = Cursor, from' = from,
           stream' = stream, found' = found, started' = started, out' = out
    PROVE  Kept'
PROOF
<1>1. /\ Total' = Total /\ \A n : At(n)' = At(n)
      /\ \A i : HasSps(i)' = HasSps(i) /\ FirstSps(i)' = FirstSps(i)
      /\ \A i, n : VideoFrom(i, n)' = VideoFrom(i, n)
  BY Zenon DEF Total, At, Sent, Videos, HasSps, FirstSps, VideoFrom, Begin, Mark
<1>2. Whole' = Whole
  BY Zenon DEF Whole
<1>3. Aligned => Aligned'
  BY <1>1, Zenon DEF Aligned
<1>4. Copied => Copied'
  BY <1>1, Zenon DEF Copied
<1> QED BY <1>2, <1>3, <1>4, Zenon DEF Kept

LEMMA SessionKept == Inv /\ NextSession => Kept'
PROOF
<1> SUFFICES ASSUME Inv, NextSession, Whole' PROVE Aligned' /\ Copied'
  BY Zenon DEF Kept
<1>1. /\ stream \in Streams /\ stream.junk = <<>> /\ stream' = stream
      /\ rx' = 0 /\ found' = <<>> /\ ~started' /\ out' = <<>>
  BY Zenon DEF NextSession, Whole, Inv, Types
<1>2. Len(<<>>) = 0 /\ \A i : i \notin 1 .. 0
  OBVIOUS
<1>3. Cursor' = 0
  BY <1>1, SessionKeeps, Zenon
<1>4. At(0)' = 0 /\ 0 <= Total'
  <2>1. At(0)' = At(0) /\ Total' = Total
    BY <1>1, Zenon DEF At, Sent, Total
  <2>2. At(0) = 0 /\ Total \in Nat
    BY <1>1, Ends, Zenon
  <2>3. 0 <= Total
    BY <2>2
  <2> QED BY <2>1, <2>2, <2>3, Zenon
<1> QED BY <1>1, <1>2, <1>3, <1>4, Zenon DEF Aligned, Copied

LEMMA DrainKept == Inv /\ Kept /\ Drain => Kept'
PROOF
<1> SUFFICES ASSUME Inv, Kept, Drain PROVE Kept'
  OBVIOUS
<1>1. /\ pc = "parse" /\ stream' = stream /\ from' = from /\ found' = found
      /\ started' = started /\ out' = out
  BY Zenon DEF Drain
<1>2. CASE Whole
  <2>1. Cursor' = Cursor
    BY <1>1, <1>2, NextIsHere, DrainKeeps, Zenon DEF Kept
  <2> QED BY <1>1, <2>1, KeptIfUntouched, Zenon
<1>3. CASE ~Whole
  BY <1>1, <1>3, Zenon DEF Kept, Whole
<1> QED BY <1>2, <1>3

\* What is written of the next frame is what it has of video.
LEMMA TakeCopies ==
    ASSUME Inv, Begun, Whole, Aligned, Copied, TakeFrame,
           NEW n \in 1 .. Total, n - 1 = Len(found), n - 1 \in 0 .. Total - 1
    PROVE  /\ ~started' => out' = <<>> /\ \A i \in 1 .. n : ~HasSps(i)
           /\ started' => \E i \in 1 .. n : FirstSps(i) /\ out' = VideoFrom(i, n)
PROOF
<1> DEFINE p == SkipTo(buf, pos)
           payload == SubSeq(buf, p + FRAME_HEADER + 1, EndAt(buf, p))
           k == n - 1
           v == Videos[n]
<1>0. /\ k \in 0 .. Total - 1 /\ k + 1 = n /\ k = Len(found) /\ n \in 1 .. n
      /\ \A i \in 1 .. n : i \in 1 .. k \/ i = n
      /\ \A i \in 1 .. k : i \in 1 .. n
  <2>1. Total \in Nat
    BY StreamTyped DEF Inv, Types
  <2> QED BY <2>1
<1> HIDE DEF k
<1>1. /\ pc = "parse" /\ FrameAt(buf, p)
      /\ \/ /\ buf[p + 3] # VIDEO_CHANNEL \/ payload = <<>>
            /\ started' = started /\ out' = out
         \/ /\ buf[p + 3] = VIDEO_CHANNEL /\ payload # <<>>
            /\ started' = (started \/ SpsOffsets(payload) # {})
            /\ out' = CASE started -> out \o payload
                        [] ~started /\ started' -> out \o FromSps(payload)
                        [] OTHER -> out
  BY Zenon DEF TakeFrame
<1>2. /\ buf[p + 3] = stream.frames[n].channel /\ payload = stream.frames[n].payload
  BY <1>0, <1>1, NextIsHere, Zenon
<1>3. /\ v \in Seq(Byte) /\ v = VideoIn(stream.frames[n])
      /\ \A i \in 1 .. k : HasSps(i) => VideoFrom(i, n) = VideoFrom(i, k) \o v
      /\ HasSps(n) => VideoFrom(n, n) = FromSps(v)
  BY <1>0, StreamTyped, Marks, VideoGrows, Zenon DEF Inv, Types
<1>4. HasSps(n) <=> SpsOffsets(v) # {}
  BY Zenon DEF HasSps
<1> HIDE DEF p, payload
<1>5. out \in Seq(Byte)
  BY Zenon DEF Begun
<1>6. CASE /\ buf[p + 3] # VIDEO_CHANNEL \/ payload = <<>>
           /\ started' = started /\ out' = out
  <2>1. v = <<>>
    BY <1>2, <1>3, <1>6, Zenon DEF VideoIn
  <2>2. ~HasSps(n)
    <3>1. SpsOffsets(<<>>) = {}
      BY DEF SpsOffsets
    <3> QED BY <1>4, <2>1, <3>1, Zenon
  <2>3. CASE ~started
    BY <1>0, <1>6, <2>2, <2>3, Zenon DEF Copied
  <2>4. CASE started
    <3>1. PICK i \in 1 .. k : FirstSps(i) /\ out = VideoFrom(i, k)
      BY <1>0, <2>4, Zenon DEF Copied
    <3>2. VideoFrom(i, n) = out \o <<>>
      BY <1>3, <2>1, <3>1, Zenon DEF FirstSps
    <3>3. out \o <<>> = out
      BY <1>5, ConcatEmptySeq
    <3> QED BY <1>0, <1>6, <2>4, <3>1, <3>2, <3>3, Zenon
  <2> QED BY <2>3, <2>4, Zenon
<1>7. CASE /\ buf[p + 3] = VIDEO_CHANNEL /\ payload # <<>>
           /\ started' = (started \/ SpsOffsets(payload) # {})
           /\ out' = CASE started -> out \o payload
                       [] ~started /\ started' -> out \o FromSps(payload)
                       [] OTHER -> out
  <2>1. v = payload
    BY <1>2, <1>3, <1>7, Zenon DEF VideoIn
  <2>2. CASE started
    <3>1. PICK i \in 1 .. k : FirstSps(i) /\ out = VideoFrom(i, k)
      BY <1>0, <2>2, Zenon DEF Copied
    <3>2. started' /\ out' = out \o v
      BY <1>7, <2>1, <2>2
    <3>3. VideoFrom(i, n) = out \o v
      BY <1>3, <3>1, Zenon DEF FirstSps
    <3> QED BY <1>0, <3>1, <3>2, <3>3, Zenon
  <2>3. CASE ~started /\ started'
    <3>1. SpsOffsets(v) # {} /\ out' = out \o FromSps(v) /\ out = <<>>
      BY <1>7, <2>1, <2>3 DEF Copied
    <3>2. FromSps(v) \in Seq(Byte)
      BY <1>3, <3>1, FromSpsProperties, Zenon
    <3>3. out' = FromSps(v)
      BY <3>1, <3>2, ConcatEmptySeq
    <3>4. FirstSps(n)
      <4>1. \A i \in 1 .. k : ~HasSps(i)
        BY <1>0, <2>3, Zenon DEF Copied
      <4> QED BY <1>4, <3>1, <4>1, Zenon DEF FirstSps, k
    <3>5. out' = VideoFrom(n, n)
      BY <1>3, <1>4, <3>1, <3>3, Zenon
    <3> QED BY <1>0, <2>3, <3>4, <3>5, Zenon
  <2>4. CASE ~started /\ ~started'
    <3>1. out' = out /\ SpsOffsets(v) = {}
      BY <1>7, <2>1, <2>4
    <3>2. out = <<>> /\ \A i \in 1 .. k : ~HasSps(i)
      BY <1>0, <2>4, Zenon DEF Copied
    <3> QED BY <1>0, <1>4, <2>4, <3>1, <3>2, Zenon
  <2> QED BY <2>2, <2>3, <2>4, Zenon
<1> QED BY <1>1, <1>6, <1>7, Zenon DEF p, payload

LEMMA TakeKept == Inv /\ Begun /\ Kept /\ TakeFrame => Kept'
PROOF
<1> SUFFICES ASSUME Inv, Begun, Kept, TakeFrame, Whole' PROVE Aligned' /\ Copied'
  BY Zenon DEF Kept
<1> DEFINE k == Len(found)
           p == SkipTo(buf, pos)
<1>1. /\ pc = "parse" /\ FrameAt(buf, p) /\ stream' = stream /\ from' = from
      /\ found' = Append(found, rx - Len(buf) + p)
  BY Zenon DEF TakeFrame
<1>2. Whole /\ Aligned /\ Copied
  BY <1>1, Zenon DEF Kept, Whole
<1>3. /\ k \in 0 .. Total - 1 /\ Base + EndAt(buf, p) = At(k + 1)
  BY <1>1, <1>2, NextIsHere, Zenon
<1>4. Cursor' = At(k + 1)
  BY <1>3, TakeKeeps, Zenon
<1>5. Len(found') = k + 1
  BY <1>1 DEF Inv, Framed
<1>6. PICK n \in 1 .. Total : n = k + 1 /\ n - 1 = k /\ n <= Total
  <2>1. Total \in Nat
    BY StreamTyped DEF Inv, Types
  <2>2. k + 1 \in 1 .. Total /\ (k + 1) - 1 = k /\ k + 1 <= Total
    <3> HIDE DEF k
    <3> QED BY <1>3, <2>1
  <2> QED BY <2>2, Zenon
<1>7. /\ ~started' => out' = <<>> /\ \A i \in 1 .. n : ~HasSps(i)
      /\ started' => \E i \in 1 .. n : FirstSps(i) /\ out' = VideoFrom(i, n)
  BY <1>2, <1>3, <1>6, TakeCopies, Zenon
<1>8. /\ Total' = Total /\ \A m : At(m)' = At(m)
      /\ \A i : HasSps(i)' = HasSps(i) /\ FirstSps(i)' = FirstSps(i)
      /\ \A i, m : VideoFrom(i, m)' = VideoFrom(i, m)
  BY <1>1, Zenon DEF Total, At, Sent, Videos, HasSps, FirstSps, VideoFrom, Begin, Mark
<1> HIDE DEF k, p
<1>9. Aligned'
  BY <1>4, <1>5, <1>6, <1>8, Zenon DEF Aligned
<1>10. Copied'
  BY <1>5, <1>6, <1>7, <1>8, Zenon DEF Copied
<1> QED BY <1>9, <1>10

\* An SPS is the same wherever its bytes lie.
LEMMA SameSps ==
    ASSUME NEW x \in Seq(Byte), NEW y \in Seq(Byte), NEW a \in Nat, NEW b \in Nat,
           a + 5 <= Len(x), b + 5 <= Len(y), \A j \in 1 .. 5 : x[a + j] = y[b + j]
    PROVE  IsSps(x, a) <=> IsSps(y, b)
PROOF
<1>0. Len(x) \in Nat /\ Len(y) \in Nat
  OBVIOUS
<1>1. PICK m \in Nat, n \in Nat : m = b + 1 /\ n = b + 4
  <2>1. b + 1 \in Nat /\ b + 4 \in Nat
    OBVIOUS
  <2> QED BY <2>1, Zenon
<1> DEFINE z == SubSeq(y, m, n)
<1>2. /\ z \in Seq(Byte) /\ Len(z) = 4 /\ \A j \in 1 .. 4 : z[j] = y[b + j]
  <2>1. \A i \in m .. n : i \in 1 .. Len(y)
    BY <1>0, <1>1
  <2>2. \A i \in m .. n : y[i] \in Byte
    BY <2>1, ElementOfSeq, Zenon
  <2>3. /\ z \in Seq(Byte) /\ Len(z) = IF m <= n THEN n - m + 1 ELSE 0
        /\ \A j \in 1 .. n - m + 1 : z[j] = y[m + j - 1]
    BY <1>1, <2>2, SubSeqProperties
  <2> HIDE DEF z
  <2>4. m <= n /\ n - m + 1 = 4 /\ \A j \in 1 .. 4 : m + j - 1 = b + j
    BY <1>1
  <2> QED BY <2>3, <2>4, Zenon
<1> HIDE DEF z
<1>3. SubSeq(x, a + 1, a + 4) = z
  <2>1. a + Len(z) <= Len(x) /\ \A j \in 1 .. Len(z) : j \in 1 .. 5 /\ j \in 1 .. 4
    BY <1>0, <1>2
  <2>2. \A j \in 1 .. Len(z) : x[a + j] = z[j]
    BY <1>2, <2>1, Zenon
  <2>3. SubSeq(x, a + 1, a + Len(z)) = z
    BY <1>2, <2>1, <2>2, SliceIs, Zenon
  <2> QED BY <1>2, <2>3, Zenon
<1>4. SubSeq(y, b + 1, b + 4) = z
  BY <1>1, Zenon DEF z
<1>5. x[a + 5] = y[b + 5]
  <2>1. 5 \in 1 .. 5
    OBVIOUS
  <2> QED BY <2>1, Zenon
<1> QED BY <1>3, <1>4, <1>5, Zenon DEF IsSps

\* The SPS units of all the video are those of its frames.
LEMMA SpsInAll ==
    ASSUME stream \in Streams, NEW i \in 1 .. Total, NEW o \in Nat,
           o + 5 <= Len(Videos[i])
    PROVE  IsSps(Joined(Videos, Total), Mark(i - 1) + o) <=> o \in SpsOffsets(Videos[i])
PROOF
<1>0. PICK n \in 0 .. Total - 1 :
         /\ n = i - 1 /\ n + 1 = i /\ Total \in n + 1 .. Total /\ n \in 0 .. Total
         /\ Total \in Nat /\ Total \in i .. Total /\ i \in 0 .. Total /\ Total \in 0 .. Total
  <2>1. Total \in Nat
    BY StreamTyped
  <2>2. /\ i - 1 \in 0 .. Total - 1 /\ (i - 1) + 1 = i /\ Total \in (i - 1) + 1 .. Total
        /\ i - 1 \in 0 .. Total /\ Total \in i .. Total /\ i \in 0 .. Total /\ Total \in 0 .. Total
    BY <2>1
  <2> QED BY <2>1, <2>2, Zenon
<1> DEFINE all == Joined(Videos, Total)
           v == Videos[i]
           a == Mark(n)
<1>1. /\ all \in Seq(Byte) /\ v \in Seq(Byte) /\ a \in Nat /\ Mark(i) \in Nat
      /\ Mark(i) = a + Len(v) /\ Mark(i) <= Mark(Total)
  BY <1>0, Marks, Zenon
<1>2. Mark(Total) = Len(all)
  BY Zenon DEF Mark
<1>3. \A j \in 1 .. Len(v) : all[a + j] = v[j]
  <2>1. PICK w : w = Videos /\ w \in Seq(Seq(Byte)) /\ Len(w) = Total
    BY StreamTyped, Zenon
  <2>2. n \in 0 .. Len(w) - 1 /\ Total \in n + 1 .. Len(w)
    BY <1>0, <2>1, Zenon
  <2>3. \A j \in 1 .. Len(w[n + 1]) : Joined(w, Total)[Len(Joined(w, n)) + j] = w[n + 1][j]
    BY <2>1, <2>2, JoinedPiece
  <2> QED BY <1>0, <2>1, <2>3, Zenon DEF Mark
<1>4. Mark(i - 1) + o = a + o
  BY <1>0, Zenon
<1> HIDE DEF all, v, a
<1>5. o + 5 <= Len(v) /\ Len(v) \in Nat /\ Len(all) \in Nat
  BY <1>1, LenProperties, Zenon DEF v
<1>6. (a + o) + 5 <= Len(all) /\ a + o \in Nat
  BY <1>1, <1>2, <1>5
<1>7. \A j \in 1 .. 5 : all[(a + o) + j] = v[o + j]
  <2> SUFFICES ASSUME NEW j \in 1 .. 5 PROVE all[(a + o) + j] = v[o + j]
    OBVIOUS
  <2>1. o + j \in 1 .. Len(v) /\ (a + o) + j = a + (o + j)
    BY <1>1, <1>5
  <2> QED BY <1>3, <2>1, Zenon
<1>8. IsSps(all, a + o) <=> IsSps(v, o)
  BY <1>1, <1>5, <1>6, <1>7, SameSps, Zenon
<1>9. IsSps(v, o) <=> o \in SpsOffsets(v)
  <2>1. o \in 0 .. Len(v) - 5
    BY <1>5
  <2> QED BY <2>1, Zenon DEF SpsOffsets
<1> QED BY <1>4, <1>8, <1>9, Zenon DEF all, v

\* Where VideoOf() may begin.
Starts ==
    {k \in DOMAIN Joined(Videos, Total) : \E i \in DOMAIN stream.frames :
        /\ Mark(i - 1) < k /\ k + 4 <= Mark(i)
        /\ IsSps(Joined(Videos, Total), k - 1)}

LEMMA StartsProperties ==
    ASSUME stream \in Streams
    PROVE  /\ Starts \subseteq Nat
           /\ \A i \in 1 .. Total : HasSps(i) => Begin(i) \in Starts
           /\ \A k \in Starts : \E i \in 1 .. Total :
                 HasSps(i) /\ Mark(i - 1) < k /\ Begin(i) <= k
PROOF
<1>0. Total \in Nat /\ DOMAIN stream.frames = 1 .. Total /\ Total \in 0 .. Total
  <2>1. Total \in Nat /\ DOMAIN stream.frames = 1 .. Total
    BY StreamTyped, Zenon
  <2> QED BY <2>1
<1>1. /\ Joined(Videos, Total) \in Seq(Byte) /\ Mark(Total) \in Nat
      /\ DOMAIN Joined(Videos, Total) = 1 .. Mark(Total)
  BY <1>0, Marks, LenProperties, Zenon DEF Mark
<1>2. Starts \subseteq Nat
  <2>1. \A k \in 1 .. Mark(Total) : k \in Nat
    BY <1>1
  <2> QED BY <1>1, <2>1, Zenon DEF Starts
<1>3. ASSUME NEW i \in 1 .. Total
      PROVE  /\ i - 1 \in 0 .. Total /\ Mark(i - 1) \in Nat /\ Mark(i) \in Nat
             /\ Mark(i) <= Mark(Total) /\ Videos[i] \in Seq(Byte) /\ Len(Videos[i]) \in Nat
             /\ Mark(i) = Mark(i - 1) + Len(Videos[i])
  <2>1. i - 1 \in 0 .. Total /\ i \in 0 .. Total /\ Total \in i .. Total
    BY <1>0
  <2> QED BY <2>1, Marks, Zenon
<1>4. ASSUME NEW i \in 1 .. Total, HasSps(i)
      PROVE  Begin(i) \in Starts
  <2>1. PICK m \in Nat : /\ m = Min(SpsOffsets(Videos[i])) /\ m + 5 <= Len(Videos[i])
                         /\ m \in SpsOffsets(Videos[i])
    <3>1. SpsOffsets(Videos[i]) \subseteq Nat
      BY DEF SpsOffsets
    <3> QED BY <1>3, <1>4, <3>1, FirstOffset, MinOfNaturals, Zenon DEF HasSps
  <2>2. IsSps(Joined(Videos, Total), Mark(i - 1) + m)
    BY <2>1, SpsInAll, Zenon
  <2>3. Begin(i) = Mark(i - 1) + m + 1
    BY <2>1, Zenon DEF Begin
  <2>4. PICK a \in Nat, e \in Nat, t \in Nat, len \in Nat :
           /\ a = Mark(i - 1) /\ e = Mark(i) /\ t = Mark(Total) /\ len = Len(Videos[i])
           /\ e = a + len /\ e <= t /\ m + 5 <= len
    BY <1>1, <1>3, <2>1, Zenon
  <2>5. /\ a + m + 1 \in 1 .. t /\ a < a + m + 1 /\ (a + m + 1) + 4 <= e
        /\ (a + m + 1) - 1 = a + m
    BY <2>1, <2>4
  <2>6. /\ Begin(i) \in 1 .. Mark(Total) /\ Mark(i - 1) < Begin(i)
        /\ Begin(i) + 4 <= Mark(i) /\ Begin(i) - 1 = Mark(i - 1) + m
    BY <2>3, <2>4, <2>5, Zenon
  <2> QED BY <1>0, <1>1, <2>2, <2>6, Zenon DEF Starts
<1>5. ASSUME NEW k \in Starts
      PROVE  \E i \in 1 .. Total : HasSps(i) /\ Mark(i - 1) < k /\ Begin(i) <= k
  <2>1. k \in Nat
    BY <1>2
  <2>2. PICK i \in 1 .. Total : /\ Mark(i - 1) < k /\ k + 4 <= Mark(i)
                                /\ IsSps(Joined(Videos, Total), k - 1)
    BY <1>0, Zenon DEF Starts
  <2>3. PICK a \in Nat, len \in Nat : /\ a = Mark(i - 1) /\ len = Len(Videos[i])
                                      /\ a < k /\ k + 4 <= a + len
    BY <1>3, <2>2, Zenon
  <2>4. PICK o \in Nat : o = k - 1 - a /\ o + 5 <= len /\ a + o = k - 1
    <3>1. k - 1 - a \in Nat /\ (k - 1 - a) + 5 <= len /\ a + (k - 1 - a) = k - 1
      BY <2>1, <2>3
    <3> QED BY <3>1, Zenon
  <2>5. IsSps(Joined(Videos, Total), Mark(i - 1) + o)
    BY <2>2, <2>3, <2>4, Zenon
  <2>6. o \in SpsOffsets(Videos[i])
    BY <2>3, <2>4, <2>5, SpsInAll, Zenon
  <2>7. PICK m \in Nat : m = Min(SpsOffsets(Videos[i])) /\ m <= o
    BY <1>3, <2>6, FirstOffset, Zenon
  <2>8. Begin(i) = a + m + 1
    BY <2>3, <2>7, Zenon DEF Begin
  <2>9. a + m + 1 <= k
    BY <2>1, <2>3, <2>4, <2>7
  <2> QED BY <2>2, <2>6, <2>8, <2>9, Zenon DEF HasSps
<1> QED BY <1>2, <1>4, <1>5

\* What VideoOf() is, by the first frame with an SPS.
LEMMA VideoOfStream ==
    ASSUME stream \in Streams
    PROVE  /\ (\A i \in 1 .. Total : ~HasSps(i)) => VideoOf(stream.frames) = <<>>
           /\ \A i \in 1 .. Total :
                 FirstSps(i) => VideoOf(stream.frames) = VideoFrom(i, Total)
PROOF
<1>0. Total \in Nat /\ DOMAIN stream.frames = 1 .. Total
  BY StreamTyped, Zenon
<1>1. VideoOf(stream.frames)
      = IF Starts = {} THEN <<>>
        ELSE SubSeq(Joined(Videos, Total), Min(Starts), Len(Joined(Videos, Total)))
  BY Zenon DEF VideoOf, Starts, Videos, Total, Mark
<1>2. ASSUME \A i \in 1 .. Total : ~HasSps(i) PROVE VideoOf(stream.frames) = <<>>
  <2>1. Starts = {}
    BY <1>2, StartsProperties, Zenon
  <2> QED BY <1>1, <2>1
<1>3. ASSUME NEW i \in 1 .. Total, FirstSps(i)
      PROVE  VideoOf(stream.frames) = VideoFrom(i, Total)
  <2>1. HasSps(i) /\ \A j \in 1 .. i - 1 : ~HasSps(j)
    BY <1>3, Zenon DEF FirstSps
  <2>2. Begin(i) \in Starts /\ Starts \subseteq Nat
    BY <2>1, StartsProperties, Zenon
  <2>3. ASSUME NEW k \in Starts PROVE Begin(i) <= k
    <3>1. PICK j \in 1 .. Total : HasSps(j) /\ Mark(j - 1) < k /\ Begin(j) <= k
      BY StartsProperties, Zenon
    <3>2. CASE j = i
      BY <3>1, <3>2
    <3>3. CASE j # i
      <4>1. j \notin 1 .. i - 1
        BY <2>1, <3>1, Zenon
      <4>2. j - 1 \in i .. Total /\ i \in 0 .. Total /\ j - 1 \in 0 .. Total
        BY <1>0, <3>3, <4>1
      <4>3. Mark(i) <= Mark(j - 1) /\ Mark(i) \in Nat /\ Mark(j - 1) \in Nat
        BY <4>2, Marks, Zenon
      <4>4. Begin(i) + 4 <= Mark(i) /\ Begin(i) \in Nat
        BY <2>1, BeginInside, Zenon
      <4>5. k \in Nat
        BY <2>2
      <4> QED BY <3>1, <4>3, <4>4, <4>5
    <3> QED BY <3>2, <3>3
  <2>4. Min(Starts) \in Starts /\ \A k \in Starts : Min(Starts) <= k
    BY <2>2, MinOfNaturals, Zenon
  <2>5. Min(Starts) = Begin(i)
    <3>1. PICK m \in Nat, b \in Nat : m = Min(Starts) /\ b = Begin(i) /\ m <= b /\ b <= m
      BY <2>2, <2>3, <2>4, Zenon
    <3>2. m = b
      BY <3>1
    <3> QED BY <3>1, <3>2, Zenon
  <2>6. Starts # {}
    BY <2>2
  <2>7. VideoOf(stream.frames)
        = SubSeq(Joined(Videos, Total), Min(Starts), Len(Joined(Videos, Total)))
    BY <1>1, <2>6
  <2> QED BY <2>5, <2>7, Zenon DEF VideoFrom, Mark
<1> QED BY <1>2, <1>3

LEMMA VideoOfTyped ==
    ASSUME stream \in Streams
    PROVE  VideoOf(stream.frames) \in Seq(Byte)
PROOF
<1>0. Total \in Nat /\ Total \in 0 .. Total
  <2>1. Total \in Nat
    BY StreamTyped, Zenon
  <2> QED BY <2>1
<1> DEFINE all == Joined(Videos, Total)
<1>1. all \in Seq(Byte) /\ Len(all) \in Nat
  BY <1>0, Marks, LenProperties, Zenon
<1>2. VideoOf(stream.frames)
      = IF Starts = {} THEN <<>> ELSE SubSeq(all, Min(Starts), Len(all))
  BY Zenon DEF VideoOf, Starts, Videos, Total, Mark
<1> HIDE DEF all
<1>3. CASE Starts = {}
  <2>1. <<>> \in Seq(Byte)
    OBVIOUS
  <2> QED BY <1>2, <1>3, <2>1
<1>4. CASE Starts # {}
  <2>1. Min(Starts) \in Starts /\ Starts \subseteq 1 .. Len(all)
    <3>1. Starts \subseteq Nat /\ DOMAIN all = 1 .. Len(all)
      BY <1>1, StartsProperties, LenProperties, Zenon
    <3>2. Starts \subseteq DOMAIN all
      BY Zenon DEF Starts, all
    <3> QED BY <1>4, <3>1, <3>2, MinOfNaturals, Zenon
  <2>2. PICK m \in 1 .. Len(all) : m = Min(Starts)
    BY <2>1, Zenon
  <2>3. m \in Int /\ \A i \in m .. Len(all) : i \in 1 .. Len(all)
    BY <1>1, <2>2
  <2>4. \A i \in m .. Len(all) : all[i] \in Byte
    BY <1>1, <2>3, ElementOfSeq, Zenon
  <2>5. SubSeq(all, m, Len(all)) \in Seq(Byte)
    BY <1>1, <2>3, <2>4, SubSeqProperties
  <2> QED BY <1>2, <1>4, <2>2, <2>5
<1> QED BY <1>3, <1>4

\* Video that is written is a beginning of all of it.
LEMMA VideoIsPrefix ==
    ASSUME stream \in Streams, NEW k \in 0 .. Total, NEW i \in 1 .. k, HasSps(i)
    PROVE  IsPrefix(VideoFrom(i, k), VideoFrom(i, Total))
PROOF
<1>0. /\ Total \in Nat /\ Total \in k .. Total /\ Total \in 0 .. Total
      /\ k \in i .. Total /\ i \in 1 .. Total /\ i \in 0 .. Total
  <2>1. Total \in Nat
    BY StreamTyped
  <2> QED BY <2>1
<1> DEFINE x == Joined(Videos, k)
           y == Joined(Videos, Total)
<1>1. /\ x \in Seq(Byte) /\ y \in Seq(Byte) /\ Len(x) = Mark(k) /\ Len(y) = Mark(Total)
      /\ \A j \in 1 .. Len(x) : y[j] = x[j]
  BY <1>0, StreamTyped, Marks, JoinedPrefix, Zenon DEF Mark
<1>2. PICK b \in Nat, m \in Nat, n \in Nat :
         b = Begin(i) /\ m = Mark(k) /\ n = Mark(Total) /\ 1 <= b /\ b <= m /\ m <= n
  <2>1. /\ Begin(i) \in Nat /\ Begin(i) > Mark(i - 1) /\ Begin(i) + 4 <= Mark(i)
        /\ Mark(i - 1) \in Nat
    BY <1>0, BeginInside, Zenon
  <2>2. /\ Mark(i) \in Nat /\ Mark(k) \in Nat /\ Mark(Total) \in Nat
        /\ Mark(i) <= Mark(k) /\ Mark(k) <= Mark(Total)
    BY <1>0, Marks, Zenon
  <2>3. 1 <= Begin(i) /\ Begin(i) <= Mark(k)
    BY <2>1, <2>2
  <2> QED BY <2>1, <2>2, <2>3, Zenon
<1> HIDE DEF x, y
<1> DEFINE s == SubSeq(x, b, m)
           t == SubSeq(y, b, n)
<1>3. /\ s \in Seq(Byte) /\ Len(s) = m - b + 1
      /\ \A j \in 1 .. m - b + 1 : s[j] = x[b + j - 1]
  <2>1. \A j \in b .. m : j \in 1 .. Len(x)
    BY <1>1, <1>2
  <2>2. \A j \in b .. m : x[j] \in Byte
    BY <1>1, <2>1, ElementOfSeq, Zenon
  <2>3. /\ s \in Seq(Byte) /\ Len(s) = IF b <= m THEN m - b + 1 ELSE 0
        /\ \A j \in 1 .. m - b + 1 : s[j] = x[b + j - 1]
    BY <1>2, <2>2, SubSeqProperties
  <2> HIDE DEF s
  <2> QED BY <1>2, <2>3
<1>4. /\ t \in Seq(Byte) /\ Len(t) = n - b + 1
      /\ \A j \in 1 .. n - b + 1 : t[j] = y[b + j - 1]
  <2>1. \A j \in b .. n : j \in 1 .. Len(y)
    BY <1>1, <1>2
  <2>2. \A j \in b .. n : y[j] \in Byte
    BY <1>1, <2>1, ElementOfSeq, Zenon
  <2>3. /\ t \in Seq(Byte) /\ Len(t) = IF b <= n THEN n - b + 1 ELSE 0
        /\ \A j \in 1 .. n - b + 1 : t[j] = y[b + j - 1]
    BY <1>2, <2>2, SubSeqProperties
  <2> HIDE DEF t
  <2> QED BY <1>2, <2>3
<1> HIDE DEF s, t
<1>5. Len(s) \in Nat /\ Len(s) <= Len(t) /\ 0 + Len(s) = Len(s) /\ 0 + 1 = 1
  <2>1. m - b + 1 \in Nat /\ m - b + 1 <= n - b + 1 /\ 0 + (m - b + 1) = m - b + 1
    BY <1>2
  <2>2. 0 + 1 = 1
    OBVIOUS
  <2> QED BY <1>3, <1>4, <2>1, <2>2, Zenon
<1>6. ASSUME NEW j \in 1 .. Len(s) PROVE t[j] = s[j]
  <2>1. j \in 1 .. m - b + 1 /\ j \in 1 .. n - b + 1 /\ b + j - 1 \in 1 .. m
    BY <1>2, <1>3
  <2> QED BY <1>1, <1>2, <1>3, <1>4, <2>1, Zenon
<1>7. SubSeq(t, 1, Len(s)) = s
  <2>1. \A j \in 1 .. Len(s) : 0 + j = j
    OBVIOUS
  <2>2. \A j \in 1 .. Len(s) : t[0 + j] = s[j]
    BY <1>6, <2>1, Zenon
  <2>3. 0 \in Nat /\ 0 + Len(s) <= Len(t)
    BY <1>5
  <2>4. SubSeq(t, 0 + 1, 0 + Len(s)) = s
    BY <1>3, <1>4, <2>2, <2>3, SliceIs
  <2> QED BY <1>5, <2>4, Zenon
<1>8. SubSeq(s, 1, Len(s)) = s
  <2>1. \A j \in 1 .. Len(s) : 0 + j = j
    OBVIOUS
  <2>2. \A j \in 1 .. Len(s) : s[0 + j] = s[j]
    BY <2>1, Zenon
  <2>3. 0 \in Nat /\ 0 + Len(s) <= Len(s)
    BY <1>5
  <2>4. SubSeq(s, 0 + 1, 0 + Len(s)) = s
    BY <1>3, <2>2, <2>3, SliceIs
  <2> QED BY <1>5, <2>4, Zenon
<1>9. IsPrefix(s, t)
  BY <1>5, <1>7, <1>8, Zenon DEF IsPrefix
<1>10. VideoFrom(i, k) = s /\ VideoFrom(i, Total) = t
  BY <1>2, Zenon DEF VideoFrom, s, t, x, y
<1> QED BY <1>9, <1>10, Zenon

\* When all was read, all frames were found.
LEMMA AllFound ==
    ASSUME Inv, Whole, Aligned, pc = "read", rx = Len(Wire)
    PROVE  Len(found) = Total
PROOF
<1>0. PICK k \in 0 .. Total : k = Len(found) /\ Total \in Nat
  <2>1. Len(found) \in Nat /\ Total \in Nat
    BY Ends DEF Inv, Types, Framed, Whole
  <2> QED BY <2>1 DEF Aligned
<1> SUFFICES ASSUME k # Total PROVE FALSE
  BY <1>0
<1>1. k \in 0 .. Total - 1 /\ k + 1 \in 0 .. Total
  BY <1>0
<1>2. PICK n \in Nat, len \in Nat :
         /\ EndAt(Wire, Cursor) = n /\ n = Cursor + FRAME_HEADER + len
         /\ n <= Len(Wire) /\ SyncAt(Wire, Cursor)
  <2>1. /\ stream \in Streams /\ stream.junk = <<>> /\ Cursor = At(k)
    BY <1>0, Zenon DEF Inv, Types, Whole, Aligned
  <2>2. /\ EndAt(Wire, Cursor) = At(k + 1) /\ SyncAt(Wire, Cursor)
        /\ At(k + 1) = Cursor + FRAME_HEADER + Len(stream.frames[k + 1].payload)
        /\ Len(stream.frames[k + 1].payload) \in Nat
    BY <1>1, <2>1, NextOnWire, Zenon
  <2>3. At(k + 1) \in Nat /\ At(k + 1) <= Len(Wire)
    BY <1>1, <2>1, Ends, Zenon
  <2> QED BY <2>2, <2>3, Zenon
<1>3. /\ rx \in Nat /\ Len(buf) \in Nat /\ Base \in Nat /\ Cursor \in Nat
      /\ Base = rx - Len(buf) /\ Cursor = Base + 0 /\ rx = Len(Wire)
  <2>1. pos = 0
    BY DEF Inv, Types
  <2> QED BY <2>1, Offsets, Zenon DEF Inv, Base, Cursor
<1>4. Len(buf) >= FRAME_HEADER /\ 0 + FRAME_HEADER <= Len(buf) /\ 0 \in Nat
  BY <1>2, <1>3 DEF FRAME_HEADER
<1>5. Len(buf) < EndAt(buf, 0)
  BY <1>4, Zenon DEF Inv, HeldIsOneFrame
<1>6. EndAt(Wire, Cursor) = Base + EndAt(buf, 0) /\ EndAt(buf, 0) \in Nat
  BY <1>3, <1>4, Headers, Zenon DEF Inv
<1> QED BY <1>2, <1>3, <1>5, <1>6

LEMMA KeptIsEnough == Inv /\ Begun /\ Kept => StreamIsClean
PROOF
<1> SUFFICES ASSUME Inv, Begun, Kept PROVE StreamIsClean
  OBVIOUS
<1>1. BeginsWithSps
  BY Zenon DEF Begun, BeginsWithSps
<1>2. ASSUME Whole
      PROVE  /\ IsPrefix(out, VideoOf(stream.frames))
             /\ pc = "read" /\ rx = Len(Wire) => out = VideoOf(stream.frames)
  <2>1. stream \in Streams /\ Aligned /\ Copied
    BY <1>2, Zenon DEF Inv, Types, Kept
  <2>2. PICK k \in 0 .. Total : k = Len(found) /\ \A i \in 1 .. k : i \in 1 .. Total
    <3>1. Len(found) \in Nat /\ Total \in Nat
      BY <1>2, Ends DEF Inv, Types, Framed, Whole
    <3>2. Len(found) \in 0 .. Total /\ \A i \in 1 .. Len(found) : i \in 1 .. Total
      BY <2>1, <3>1 DEF Aligned
    <3> QED BY <3>2, Zenon
  <2>3. pc = "read" /\ rx = Len(Wire) => k = Total
    BY <1>2, <2>1, <2>2, AllFound, Zenon
  <2>4. CASE ~started
    <3>1. out = <<>> /\ \A i \in 1 .. k : ~HasSps(i)
      BY <2>1, <2>2, <2>4, Zenon DEF Copied
    <3>2. k = Total => VideoOf(stream.frames) = <<>>
      BY <2>1, <3>1, VideoOfStream, Zenon
    <3>3. IsPrefix(<<>>, VideoOf(stream.frames))
      <4>1. VideoOf(stream.frames) \in Seq(Byte)
        BY <2>1, VideoOfTyped, Zenon
      <4>2. Len(<<>>) = 0 /\ 0 <= Len(VideoOf(stream.frames))
        BY <4>1
      <4>3. SubSeq(<<>>, 1, 0) = <<>> /\ SubSeq(VideoOf(stream.frames), 1, 0) = <<>>
        BY SubSeqEmpty
      <4> QED BY <4>2, <4>3, Zenon DEF IsPrefix
    <3> QED BY <2>3, <3>1, <3>2, <3>3, Zenon
  <2>5. CASE started
    <3>1. PICK i \in 1 .. k : FirstSps(i) /\ HasSps(i) /\ out = VideoFrom(i, k)
      BY <2>1, <2>2, <2>5, Zenon DEF Copied, FirstSps
    <3>2. VideoOf(stream.frames) = VideoFrom(i, Total)
      BY <2>1, <2>2, <3>1, VideoOfStream, Zenon
    <3>3. IsPrefix(out, VideoOf(stream.frames))
      BY <2>1, <3>1, <3>2, VideoIsPrefix, Zenon
    <3> QED BY <2>3, <3>1, <3>2, <3>3, Zenon
  <2> QED BY <2>4, <2>5
<1>3. VideoIsKept
  BY <1>2, Zenon DEF VideoIsKept, Whole
<1> QED BY <1>1, <1>3, Zenon DEF StreamIsClean

\* What a session writes begins with an SPS; and one that begins where the
\* stream does writes the video that was sent, from the first SPS in one frame
\* on, and all of it once all was read: whatever the payloads look like and
\* however the stream is cut (capture.rs:290-291, 322-361, common.rs:183-203).
THEOREM WritesTheVideo == Spec => []StreamIsClean
PROOF
<1>1. Inv /\ Begun /\ Kept /\ [Next]_vars => Kept'
  <2> SUFFICES ASSUME Inv, Begun, Kept, [Next]_vars PROVE Kept'
    OBVIOUS
  <2>1. CASE TakeFrame
    BY <2>1, TakeKept
  <2>2. CASE Drain
    BY <2>2, DrainKept
  <2>3. CASE NextSession
    BY <2>3, SessionKept
  <2>4. CASE Read
    <3>1. /\ from' = from /\ stream' = stream /\ found' = found
          /\ started' = started /\ out' = out
      BY <2>4, Zenon DEF Read
    <3> QED BY <2>4, <3>1, ReadKeeps, KeptIfUntouched, Zenon
  <2>5. CASE UNCHANGED vars
    <3>1. /\ from' = from /\ stream' = stream /\ found' = found
          /\ started' = started /\ out' = out
          /\ rx' = rx /\ buf' = buf /\ pos' = pos
      BY <2>5, Zenon DEF vars
    <3>2. Cursor' = Cursor
      BY <3>1, Zenon DEF Cursor, Base
    <3> QED BY <3>1, <3>2, KeptIfUntouched, Zenon
  <2> QED BY <2>1, <2>2, <2>3, <2>4, <2>5 DEF Next
<1> QED BY Invariance, BeginIsKept, InitKept, <1>1, KeptIsEnough, PTL DEF Spec
=============================================================================
