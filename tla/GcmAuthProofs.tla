--------------------------- MODULE GcmAuthProofs ----------------------------
(***************************************************************************)
(* What is opened is what was sealed, for any messages and any damage of   *)
(* the kinds of GcmAuth: with ideal cipher and hash, a tag stands for one  *)
(* IV, one additional data and one ciphertext.                             *)
(***************************************************************************)
EXTENDS GcmAuth, GcmModeProofs

(***************************************************************************)
(* What the hash keeps of its input.                                       *)
(***************************************************************************)
LEMMA SignificantSame ==
  ASSUME NEW as, NEW bs, IsSeq(as), IsSeq(bs), Len(as) = Len(bs),
         Significant(as) = Significant(bs)
  PROVE  as = bs
<1> DEFINE N == Len(as)
<1>1. PICK m \in 0..N : ZerosBefore(as, m)
  BY SignificantIs
<1>2. PICK n \in 0..N : ZerosBefore(bs, n)
  BY SignificantIs
<1>3. /\ Len(Significant(as)) = N - m /\ Len(Significant(bs)) = N - n
      /\ \A i \in 1..(N - m) : Significant(as)[i] = as[m + i]
      /\ \A i \in 1..(N - n) : Significant(bs)[i] = bs[n + i]
  BY <1>1, <1>2, SignificantFrom
<1>4. N \in Nat
  BY DEF IsSeq
<1> HIDE DEF N
<1>5. m = n
  BY <1>3, <1>4
<1>6. \A k \in 1..N : as[k] = bs[k]
  <2> TAKE k \in 1..N
  <2>1. CASE k <= m
    <3>1. k \in 1..m
      BY <1>4, <2>1
    <3> QED
      BY <1>1, <1>2, <1>5, <3>1 DEF ZerosBefore
  <2>2. CASE ~ (k <= m)
    <3>1. PICK i \in 1..(N - m) : k = m + i
      <4>1. k - m \in 1..(N - m) /\ k = m + (k - m)
        BY <1>4, <2>2
      <4> QED
        BY <4>1
    <3>2. Significant(as)[i] = as[m + i] /\ Significant(bs)[i] = bs[m + i]
      BY <1>3, <1>5, <3>1
    <3> QED
      BY <3>1, <3>2
  <2> QED
    BY <2>1, <2>2
<1> QED
  BY <1>6, SameSeq DEF N

LEMMA ConcatOne ==
  ASSUME NEW bs, IsSeq(bs), NEW b
  PROVE  bs \o <<b>> = Append(bs, b)
<1> DEFINE A == {bs[i] : i \in 1..Len(bs)}
           S == A \cup {b}
<1>1. bs \in Seq(A) /\ A \subseteq S /\ b \in S
  BY SeqElements
<1> HIDE DEF A, S
<1>2. bs \in Seq(S)
  BY <1>1, SeqMonotonic
<1> QED
  BY <1>1, <1>2, AppendIsConcat

\* Blocks closed with a block that is zero only if there are no others.
LEMMA ClosedBlocks ==
  ASSUME NEW as, NEW bs, IsSeq(as), IsSeq(bs), NEW a, NEW b,
         a = ZeroBlock => as = <<>>, b = ZeroBlock => bs = <<>>,
         Significant(as \o <<a>>) = Significant(bs \o <<b>>)
  PROVE  a = b /\ (Len(as) = Len(bs) => as = bs)
<1>1. Significant(Append(as, a)) = Significant(Append(bs, b))
  BY ConcatOne
<1>2. \A cs, c : IsSeq(cs) /\ (c = ZeroBlock => cs = <<>>) =>
        Significant(Append(cs, c))
          = IF c = ZeroBlock THEN <<>> ELSE Append(Significant(cs), c)
  <2> TAKE cs, c
  <2> SUFFICES ASSUME IsSeq(cs), c = ZeroBlock => cs = <<>>
               PROVE  Significant(Append(cs, c))
                        = IF c = ZeroBlock THEN <<>>
                          ELSE Append(Significant(cs), c)
    OBVIOUS
  <2>1. Significant(<<>>) = <<>>
    BY NoBlocks DEF HashOf, HashZero, running_hash
  <2> QED
    BY <2>1, SignificantAppend
<1>3. IsSeq(Significant(as)) /\ IsSeq(Significant(bs))
  BY SignificantIs, SignificantFrom
<1>4. \A s, t, c, d : IsSeq(s) /\ IsSeq(t) =>
        /\ Append(s, c) # <<>>
        /\ Append(s, c) = Append(t, d) => s = t /\ c = d
  <2> TAKE s, t, c, d
  <2> SUFFICES ASSUME IsSeq(s), IsSeq(t)
               PROVE  /\ Append(s, c) # <<>>
                      /\ Append(s, c) = Append(t, d) => s = t /\ c = d
    OBVIOUS
  <2>1. Len(s) \in Nat /\ Len(t) \in Nat
    BY DEF IsSeq
  <2>2. Append(s, c) # <<>>
    BY <2>1, AppendIs, EmptyIs
  <2>3. ASSUME Append(s, c) = Append(t, d) PROVE s = t /\ c = d
    <3>1. PICK e : e = Append(s, c)
      OBVIOUS
    <3>2. /\ Len(e) = Len(s) + 1 /\ Len(e) = Len(t) + 1
          /\ e[Len(s) + 1] = c /\ e[Len(t) + 1] = d
          /\ \A i \in 1..Len(s) : e[i] = s[i]
          /\ \A i \in 1..Len(t) : e[i] = t[i]
      BY <2>3, <3>1, AppendIs
    <3>3. Len(s) = Len(t)
      BY <2>1, <3>2
    <3> QED
      BY <3>2, <3>3, SameSeq
  <2> QED
    BY <2>2, <2>3
<1>5. PICK s, t : s = Significant(as) /\ t = Significant(bs)
  OBVIOUS
<1>6. Significant(Append(as, a)) = IF a = ZeroBlock THEN <<>> ELSE Append(s, a)
  BY <1>2, <1>5
<1>7. Significant(Append(bs, b)) = IF b = ZeroBlock THEN <<>> ELSE Append(t, b)
  BY <1>2, <1>5
<1>8. IsSeq(s) /\ IsSeq(t)
  BY <1>3, <1>5
<1>9. PICK sa, tb : sa = Append(s, a) /\ tb = Append(t, b)
  OBVIOUS
<1>10. sa # <<>> /\ tb # <<>> /\ (sa = tb => s = t /\ a = b)
  BY <1>4, <1>8, <1>9
<1>11. (IF a = ZeroBlock THEN <<>> ELSE sa) = (IF b = ZeroBlock THEN <<>> ELSE tb)
  BY <1>1, <1>6, <1>7, <1>9
<1>12. CASE a = ZeroBlock
  <2>1. b = ZeroBlock
    BY <1>10, <1>11, <1>12
  <2>2. as = <<>> /\ bs = <<>>
    BY <1>12, <2>1
  <2> QED
    BY <1>12, <2>1, <2>2
<1>13. CASE a # ZeroBlock
  <2>1. s = t /\ a = b
    BY <1>10, <1>11, <1>13
  <2> QED
    BY <1>5, <2>1, SignificantSame
<1> QED
  BY <1>12, <1>13

\* Bytes of the same length in the same blocks are the same.
LEMMA PaddedSame ==
  ASSUME NEW s, NEW t, IsSeq(s), IsSeq(t), Len(s) = Len(t), Padded(s) = Padded(t)
  PROVE  s = t
<1>1. \A x \in 1..Len(s) : s[x] = t[x]
  <2> TAKE x \in 1..Len(s)
  <2> DEFINE q == (x - 1) \div BLOCK_LEN
             r == (x - 1) % BLOCK_LEN
             n == Len(s)
             B == Blocks(n)
  <2>1. n \in Nat /\ x \in Nat /\ x >= 1 /\ x <= n
    BY DEF IsSeq
  <2>2. q \in Nat /\ r \in Nat /\ r < BLOCK_LEN /\ x - 1 = q * BLOCK_LEN + r
    <3>1. x - 1 \in Nat
      BY <2>1
    <3> QED
      BY <3>1, BlockLength
  <2>3. B \in Nat /\ n <= B * BLOCK_LEN
    BY <2>1, BlocksFacts
  <2> HIDE DEF q, r, n, B
  <2>4. q + 1 \in 1..B
    <3>1. ASSUME q >= B PROVE FALSE
      <4>1. PICK e \in Nat : q = B + e
        <5>1. q - B \in Nat
          BY <2>2, <2>3, <3>1
        <5> QED
          BY <2>2, <2>3, <5>1
      <4>2. q * BLOCK_LEN = B * BLOCK_LEN + e * BLOCK_LEN
            /\ B * BLOCK_LEN \in Nat /\ e * BLOCK_LEN \in Nat
        BY <2>3, <4>1, BlockLength
      <4> QED
        BY <2>1, <2>2, <2>3, <4>2
    <3> QED
      BY <2>2, <2>3, <3>1
  <2>5. /\ r + 1 \in 1..BLOCK_LEN
        /\ ((q + 1) - 1) * BLOCK_LEN + (r + 1) = x
    <3>1. (q + 1) - 1 = q /\ q * BLOCK_LEN \in Nat
      BY <2>2, BlockLength
    <3> QED
      BY <2>1, <2>2, <3>1, BlockLength
  <2>6. ASSUME NEW u, Len(u) = n
        PROVE  Padded(u)[q + 1][r + 1] = u[x]
    <3>1. Padded(u)[q + 1] = [i \in 1..BLOCK_LEN |->
            IF ((q + 1) - 1) * BLOCK_LEN + i <= n
            THEN u[((q + 1) - 1) * BLOCK_LEN + i] ELSE {}]
      BY <2>4, <2>6 DEF Padded, B
    <3> QED
      BY <2>1, <2>5, <3>1
  <2> QED
    BY <2>6 DEF n
<1> QED
  BY <1>1, SameSeq

-----------------------------------------------------------------------------
(***************************************************************************)
(* What closes a hash tells its length or lengths.                         *)
(***************************************************************************)
LEMMA LengthBlockTells ==
  ASSUME NEW m \in Nat, NEW n \in Nat
  PROVE  /\ length_block(m, n) = ZeroBlock => m = 0 /\ n = 0
         /\ \A p, q \in Nat : length_block(m, n) = length_block(p, q) =>
                                m = p /\ n = q
<1>1. \A p, q \in Nat : length_block(p, q)[1] =
        IF p = 0 /\ q = 0 THEN {} ELSE {[add |-> p, len |-> q]}
  <2>1. 1 \in 1..BLOCK_LEN
    BY BlockLength
  <2> QED
    BY <2>1 DEF length_block, ZeroBlock
<1>2. ZeroBlock[1] = {}
  BY BlockLength DEF ZeroBlock
<1>3. ASSUME length_block(m, n) = ZeroBlock PROVE m = 0 /\ n = 0
  BY <1>1, <1>2, <1>3
<1>4. ASSUME NEW p \in Nat, NEW q \in Nat,
             length_block(m, n) = length_block(p, q)
      PROVE  m = p /\ n = q
  <2>1. (IF m = 0 /\ n = 0 THEN {} ELSE {[add |-> m, len |-> n]})
          = (IF p = 0 /\ q = 0 THEN {} ELSE {[add |-> p, len |-> q]})
    BY <1>1, <1>4
  <2>2. [add |-> m, len |-> n] = [add |-> p, len |-> q] => m = p /\ n = q
    OBVIOUS
  <2> QED
    BY <2>1, <2>2
<1> QED
  BY <1>3, <1>4

\* The block that closes a hashed IV in J0.
BitsBlock(iv) == [ZeroBlock EXCEPT ![BLOCK_LEN] =
                    IF iv = <<>> THEN {} ELSE {[bits |-> Len(iv) * 8]}]

LEMMA BitsBlockTells ==
  ASSUME NEW v, NEW w, IsSeq(v), IsSeq(w)
  PROVE  /\ BitsBlock(v) = ZeroBlock => v = <<>>
         /\ BitsBlock(v) = BitsBlock(w) => Len(v) = Len(w)
<1>1. \A iv : BitsBlock(iv)[BLOCK_LEN] =
                IF iv = <<>> THEN {} ELSE {[bits |-> Len(iv) * 8]}
  <2>1. BLOCK_LEN \in 1..BLOCK_LEN
    BY BlockLength
  <2> QED
    BY <2>1 DEF BitsBlock, ZeroBlock
<1>2. ZeroBlock[BLOCK_LEN] = {}
  <2>1. BLOCK_LEN \in 1..BLOCK_LEN
    BY BlockLength
  <2> QED
    BY <2>1 DEF ZeroBlock
<1>3. ASSUME BitsBlock(v) = ZeroBlock PROVE v = <<>>
  BY <1>1, <1>2, <1>3
<1>4. ASSUME BitsBlock(v) = BitsBlock(w) PROVE Len(v) = Len(w)
  <2>1. (IF v = <<>> THEN {} ELSE {[bits |-> Len(v) * 8]})
          = (IF w = <<>> THEN {} ELSE {[bits |-> Len(w) * 8]})
    BY <1>1, <1>4
  <2>2. PICK a, b : a = Len(v) * 8 /\ b = Len(w) * 8
    OBVIOUS
  <2>3. [bits |-> a] = [bits |-> b] => a = b
    OBVIOUS
  <2>4. (v = <<>> /\ w = <<>>) \/ a = b
    BY <2>1, <2>2, <2>3
  <2>5. Len(v) \in Nat /\ Len(w) \in Nat
    BY DEF IsSeq
  <2> QED
    BY <2>2, <2>4, <2>5
<1> QED
  BY <1>3, <1>4

LEMMA NoPadding == Padded(<<>>) = <<>>
<1>1. Blocks(0) = 0
  BY BlocksAre, BlockLength
<1>2. IsSeq(Padded(<<>>)) /\ Len(Padded(<<>>)) = 0
  BY <1>1, EmptyIs, PaddedIs
<1> QED
  BY <1>2, EmptyIs

\* Two IVs never share a first counter block: an IV of another length than
\* IV_LEN is hashed with its bit count.
LEMMA FirstCounterTells ==
  ASSUME NEW v, NEW w, IsSeq(v), IsSeq(w), J0(v) = J0(w)
  PROVE  v = w
<1> DEFINE S(iv) == Significant(Padded(iv) \o <<BitsBlock(iv)>>)
<1>1. \A iv : J0(iv) = IF Len(iv) = IV_LEN
                       THEN counter_block(iv, <<>>, AsBytes(1))
                       ELSE counter_block(<<>>, S(iv), HashedCounter(S(iv)))
  BY DEF J0, BitsBlock
<1> HIDE DEF S
<1>2. \A iv : /\ J0(iv).native = IF Len(iv) = IV_LEN THEN iv ELSE <<>>
              /\ Len(iv) # IV_LEN => J0(iv).hashed = S(iv)
  BY <1>1 DEF counter_block
<1>3. Len(<<>>) # IV_LEN
  BY EmptyIs, BlockAssumption
<1>4. CASE Len(v) = IV_LEN
  BY <1>2, <1>3, <1>4
<1>5. CASE Len(v) # IV_LEN
  <2>1. Len(w) # IV_LEN
    BY <1>2, <1>3, <1>5
  <2>2. S(v) = S(w)
    BY <1>2, <1>5, <2>1
  <2>3. /\ IsSeq(Padded(v)) /\ IsSeq(Padded(w))
        /\ BitsBlock(v) = ZeroBlock => Padded(v) = <<>>
        /\ BitsBlock(w) = ZeroBlock => Padded(w) = <<>>
    BY BitsBlockTells, NoPadding, PaddedIs
  <2>4. /\ BitsBlock(v) = BitsBlock(w)
        /\ Len(Padded(v)) = Len(Padded(w)) => Padded(v) = Padded(w)
    BY <2>2, <2>3, ClosedBlocks DEF S
  <2>5. Len(v) = Len(w)
    BY <2>4, BitsBlockTells
  <2>6. Padded(v) = Padded(w)
    BY <2>4, <2>5, PaddedIs
  <2> QED
    BY <2>5, <2>6, PaddedSame
<1> QED
  BY <1>4, <1>5

-----------------------------------------------------------------------------
(***************************************************************************)
(* A tag stands for one IV, one additional data and one ciphertext.        *)
(***************************************************************************)
CipherPart(key, y, i) == [key |-> key, block |-> y, at |-> i]
HashPart(key, s, i) == [key |-> key, ghash |-> s, at |-> i]

LEMMA PartsDiffer ==
  /\ \A k, y, i, l, s, j : CipherPart(k, y, i) # HashPart(l, s, j)
  /\ \A k, y, i, l, z, j : CipherPart(k, y, i) = CipherPart(l, z, j) => y = z
  /\ \A k, s, i, l, t, j : HashPart(k, s, i) = HashPart(l, t, j) => s = t
  /\ \A k, y, i : "key" \in DOMAIN CipherPart(k, y, i)
  /\ \A k, s, i : "key" \in DOMAIN HashPart(k, s, i)
<1>1. ASSUME NEW k, NEW y, NEW i, NEW l, NEW s, NEW j,
             CipherPart(k, y, i) = HashPart(l, s, j)
      PROVE  FALSE
  <2>1. "block" \in DOMAIN CipherPart(k, y, i)
    BY DEF CipherPart
  <2>2. "block" \notin DOMAIN HashPart(l, s, j)
    BY DEF HashPart
  <2> QED
    BY <1>1, <2>1, <2>2
<1>2. \A k, y, i, l, z, j : CipherPart(k, y, i) = CipherPart(l, z, j) => y = z
  BY DEF CipherPart
<1>3. \A k, s, i, l, t, j : HashPart(k, s, i) = HashPart(l, t, j) => s = t
  BY DEF HashPart
<1>4. \A k, y, i : "key" \in DOMAIN CipherPart(k, y, i)
  BY DEF CipherPart
<1>5. \A k, s, i : "key" \in DOMAIN HashPart(k, s, i)
  BY DEF HashPart
<1> QED
  BY <1>1, <1>2, <1>3, <1>4, <1>5

\* The blocks a tag's hash is of.
Tagged(add, ct) ==
  Significant((Padded(add) \o Padded(ct)) \o <<length_block(Len(add), Len(ct))>>)

TagByte(key, iv, add, ct, i) ==
  xor({CipherPart(key, J0(iv), i)},
      IF Tagged(add, ct) = <<>> THEN {} ELSE {HashPart(key, Tagged(add, ct), i)})

LEMMA TagIs ==
  ASSUME NEW key, NEW iv, NEW add, NEW ct, NEW n \in Nat, n <= BLOCK_LEN
  PROVE  /\ IsSeq(Tag(key, iv, add, ct, n)) /\ Len(Tag(key, iv, add, ct, n)) = n
         /\ \A i \in 1..n : Tag(key, iv, add, ct, n)[i]
                               = TagByte(key, iv, add, ct, i)
<1> DEFINE T == Tag(key, iv, add, ct, n)
           s == Tagged(add, ct)
           C(i) == {CipherPart(key, J0(iv), i)}
           H(i) == IF s = <<>> THEN {} ELSE {HashPart(key, s, i)}
<1>1. GHASH(key, Padded(add) \o Padded(ct)
                   \o <<length_block(Len(add), Len(ct))>>)
        = [i \in 1..BLOCK_LEN |-> H(i)]
  BY DEF GHASH, Tagged, HashPart
<1>2. \A i \in 1..n : /\ i \in 1..BLOCK_LEN
                      /\ aes_cipher(key, J0(iv))[i] = C(i)
  <2>1. \A i \in 1..BLOCK_LEN : aes_cipher(key, J0(iv))[i] = C(i)
    BY DEF aes_cipher, CipherPart
  <2>2. \A i \in 1..n : i \in 1..BLOCK_LEN
    BY BlockLength
  <2> QED
    BY <2>1, <2>2
<1>3. T = [i \in 1..n |-> xor(aes_cipher(key, J0(iv))[i],
             GHASH(key, Padded(add) \o Padded(ct)
                          \o <<length_block(Len(add), Len(ct))>>)[i])]
  BY DEF Tag
<1>4. \A i \in 1..n : T[i] = xor(C(i), H(i))
  <2> HIDE DEF T, C, H
  <2> QED
    BY <1>1, <1>2, <1>3
<1>5. T = [i \in 1..n |-> T[i]]
  BY <1>3
<1>6. IsSeq(T) /\ Len(T) = n
  <2> HIDE DEF T
  <2> QED
    BY <1>5, SeqOf
<1>7. \A i \in 1..n : T[i] = TagByte(key, iv, add, ct, i)
  BY <1>4 DEF TagByte
<1> QED
  BY <1>6, <1>7

\* No byte of a tag is damaged into a byte of a tag.
LEMMA TagBytesHaveKeys ==
  ASSUME NEW key, NEW iv, NEW add, NEW ct, NEW n \in Nat, n <= BLOCK_LEN,
         NEW i \in 1..n
  PROVE  \A u \in Tag(key, iv, add, ct, n)[i] : "key" \in DOMAIN u
<1>1. PICK b : b = Tag(key, iv, add, ct, n)[i]
  OBVIOUS
<1>2. PICK s, y : b = xor({CipherPart(key, y, i)},
                          IF s = <<>> THEN {} ELSE {HashPart(key, s, i)})
  <2>1. b = xor({CipherPart(key, J0(iv), i)},
                IF Tagged(add, ct) = <<>> THEN {}
                ELSE {HashPart(key, Tagged(add, ct), i)})
    <3>1. b = TagByte(key, iv, add, ct, i)
      BY <1>1, TagIs
    <3> QED
      BY <3>1 DEF TagByte
  <2> QED
    BY <2>1
<1>3. \A u \in b : u = CipherPart(key, y, i) \/ u = HashPart(key, s, i)
  BY <1>2 DEF xor
<1> QED
  BY <1>1, <1>3, PartsDiffer

LEMMA TagTells ==
  ASSUME NEW key, NEW v, NEW w, IsSeq(v), IsSeq(w),
         NEW a, NEW b, IsSeq(a), IsSeq(b), NEW c, NEW d, IsSeq(c), IsSeq(d),
         NEW n \in Nat \ {0}, n <= BLOCK_LEN,
         Tag(key, v, a, c, n) = Tag(key, w, b, d, n)
  PROVE  v = w /\ a = b /\ c = d
<1> DEFINE s == Tagged(a, c)
           t == Tagged(b, d)
<1>0. PICK i \in 1..n : i = 1
  OBVIOUS
<1>1. PICK y, z, p, q :
        /\ y = CipherPart(key, J0(v), i) /\ z = CipherPart(key, J0(w), i)
        /\ p = HashPart(key, s, i) /\ q = HashPart(key, t, i)
  OBVIOUS
<1>2. xor({y}, IF s = <<>> THEN {} ELSE {p}) = xor({z}, IF t = <<>> THEN {} ELSE {q})
  <2>1. TagByte(key, v, a, c, i) = TagByte(key, w, b, d, i)
    <3>1. /\ Tag(key, v, a, c, n)[i] = TagByte(key, v, a, c, i)
          /\ Tag(key, w, b, d, n)[i] = TagByte(key, w, b, d, i)
      BY TagIs
    <3> QED
      BY <3>1
  <2> QED
    BY <1>1, <2>1 DEF TagByte
<1>3. /\ y # p /\ y # q /\ z # p /\ z # q
      /\ y = z => J0(v) = J0(w)
      /\ p = q => s = t
  BY <1>1, PartsDiffer
<1> HIDE DEF s, t
<1>4. y = z /\ s = t
  <2>1. y = z
    BY <1>2, <1>3 DEF xor
  <2>2. (IF s = <<>> THEN {} ELSE {p}) = (IF t = <<>> THEN {} ELSE {q})
    BY <1>2, <1>3, <2>1 DEF xor
  <2> QED
    BY <1>3, <2>1, <2>2
<1>5. v = w
  BY <1>3, <1>4, FirstCounterTells
<1> DEFINE as == Padded(a) \o Padded(c)
           bs == Padded(b) \o Padded(d)
           la == length_block(Len(a), Len(c))
           lb == length_block(Len(b), Len(d))
<1>6. Len(a) \in Nat /\ Len(b) \in Nat /\ Len(c) \in Nat /\ Len(d) \in Nat
  BY DEF IsSeq
<1>7. IsSeq(Padded(a)) /\ IsSeq(Padded(b)) /\ IsSeq(Padded(c)) /\ IsSeq(Padded(d))
  BY PaddedIs
<1>8. /\ IsSeq(as) /\ IsSeq(bs)
      /\ la = ZeroBlock => as = <<>>
      /\ lb = ZeroBlock => bs = <<>>
  <2>1. IsSeq(as) /\ IsSeq(bs)
    BY <1>7, ConcatIs
  <2>2. \A e, f : IsSeq(e) /\ IsSeq(f)
          /\ length_block(Len(e), Len(f)) = ZeroBlock
          => Padded(e) \o Padded(f) = <<>>
    <3> TAKE e, f
    <3> SUFFICES ASSUME IsSeq(e), IsSeq(f),
                        length_block(Len(e), Len(f)) = ZeroBlock
                 PROVE  Padded(e) \o Padded(f) = <<>>
      OBVIOUS
    <3>1. Len(e) \in Nat /\ Len(f) \in Nat
      BY DEF IsSeq
    <3>2. Len(e) = 0 /\ Len(f) = 0
      BY <3>1, LengthBlockTells
    <3>3. Padded(e) = <<>> /\ Padded(f) = <<>>
      BY <3>2, EmptyIs, NoPadding
    <3>4. IsSeq(<<>> \o <<>>) /\ Len(<<>> \o <<>>) = 0
      BY EmptyIs, ConcatIs
    <3> QED
      BY <3>3, <3>4, EmptyIs
  <2> QED
    BY <2>1, <2>2
<1>9. la = lb /\ (Len(as) = Len(bs) => as = bs)
  <2>1. Significant(as \o <<la>>) = Significant(bs \o <<lb>>)
    BY <1>4 DEF Tagged, s, t
  <2>2. PICK e, f, g, h : e = as /\ f = bs /\ g = la /\ h = lb
    OBVIOUS
  <2>3. /\ IsSeq(e) /\ IsSeq(f)
        /\ g = ZeroBlock => e = <<>>
        /\ h = ZeroBlock => f = <<>>
        /\ Significant(e \o <<g>>) = Significant(f \o <<h>>)
    BY <1>8, <2>1, <2>2
  <2>4. g = h /\ (Len(e) = Len(f) => e = f)
    BY <2>3, ClosedBlocks
  <2> QED
    BY <2>2, <2>4
<1>10. Len(a) = Len(b) /\ Len(c) = Len(d)
  BY <1>6, <1>9, LengthBlockTells
<1>11. as = bs
  <2>1. Len(as) = Len(bs)
    <3>1. /\ Len(as) = Len(Padded(a)) + Len(Padded(c))
          /\ Len(bs) = Len(Padded(b)) + Len(Padded(d))
      BY <1>7, ConcatIs
    <3>2. /\ Len(Padded(a)) = Len(Padded(b))
          /\ Len(Padded(c)) = Len(Padded(d))
      BY <1>10, PaddedIs
    <3> QED
      BY <3>1, <3>2
  <2> QED
    BY <1>9, <2>1
<1>12. Padded(a) = Padded(b) /\ Padded(c) = Padded(d)
  <2>1. PICK pa, pb, pc, pd : /\ pa = Padded(a) /\ pb = Padded(b)
                              /\ pc = Padded(c) /\ pd = Padded(d)
    OBVIOUS
  <2>2. /\ IsSeq(pa) /\ IsSeq(pb) /\ IsSeq(pc) /\ IsSeq(pd)
        /\ Len(pa) = Len(pb) /\ Len(pc) = Len(pd) /\ pa \o pc = pb \o pd
    BY <1>7, <1>10, <1>11, <2>1, PaddedIs
  <2>3. PICK e : e = pa \o pc
    OBVIOUS
  <2>4. /\ \A j \in 1..(Len(pa) + Len(pc)) :
             e[j] = IF j <= Len(pa) THEN pa[j] ELSE pc[j - Len(pa)]
        /\ \A j \in 1..(Len(pb) + Len(pd)) :
             e[j] = IF j <= Len(pb) THEN pb[j] ELSE pd[j - Len(pb)]
    BY <2>2, <2>3, ConcatIs
  <2>5. PICK l \in Nat, m \in Nat : /\ l = Len(pa) /\ l = Len(pb)
                                    /\ m = Len(pc) /\ m = Len(pd)
    BY <2>2 DEF IsSeq
  <2>6. \A j \in 1..l : pa[j] = pb[j]
    BY <2>4, <2>5
  <2>7. \A j \in 1..m : pc[j] = pd[j]
    <3> TAKE j \in 1..m
    <3>1. l + j \in 1..(l + m) /\ ~ (l + j <= l) /\ (l + j) - l = j
      BY <2>5
    <3> QED
      BY <2>4, <2>5, <3>1
  <2> QED
    BY <2>1, <2>2, <2>5, <2>6, <2>7, SameSeq
<1> QED
  BY <1>5, <1>10, <1>12, PaddedSame

-----------------------------------------------------------------------------
(***************************************************************************)
(* The inductive invariant: both contexts are under the key, what was      *)
(* sealed is the mode's ciphertext and tag, and what is on its way came    *)
(* from something sealed: no byte of its tag is more than once away from   *)
(* the sealed one.                                                         *)
(***************************************************************************)
Keyed(c) == c.H = Key /\ c.rk = Key

Message(iv, add, tag, data) ==
  [iv |-> iv, add |-> add, tag |-> tag, data |-> data]

SealedMessage(iv, add, text, n) ==
  Message(iv, add, Tag(Key, iv, add, Crypt(Key, iv, text), n),
          Crypt(Key, iv, text))

SealedIs ==
  \A s \in sealed : \E iv \in IVs, add \in Adds, text \in Texts, n \in TagLens :
    s = [msg |-> SealedMessage(iv, add, text, n), text |-> text]

Travelled(m, d) ==
  /\ m = Message(m.iv, m.add, m.tag, m.data)
  /\ m.iv \in IVs
  /\ IsSeq(m.add) /\ IsSeq(m.tag) /\ IsSeq(m.data)
  /\ Len(m.data) <= MaxLen
  /\ Len(m.tag) = Len(d.tag)
  /\ \A i \in 1..Len(m.tag) : m.tag[i] \in {d.tag[i], xor(d.tag[i], Noise)}

WireIs ==
  \A m \in wire : \E s \in sealed :
    Travelled(m, s.msg) /\ (faults = 0 => m = s.msg)

IInv ==
  /\ Keyed(sender) /\ Keyed(receiver)
  /\ faults \in Nat
  /\ SealedIs /\ WireIs
  /\ SealedOpens /\ OpenedWasSealed

LEMMA Arguments ==
  /\ \A iv \in IVs : GoodIV(iv)
  /\ \A s \in Adds \cup Texts : IsSeq(s)
  /\ MaxLen \in Nat
  /\ \A text \in Texts : Len(text) < MaxLen
  /\ \A n \in TagLens : n \in Nat \ {0} /\ n <= BLOCK_LEN
<1>1. \A s \in IVs \cup Adds \cup Texts : IsSeq(s)
  <2> TAKE s \in IVs \cup Adds \cup Texts
  <2>1. s \in Seq({s[i] : i \in DOMAIN s})
    BY ChannelAssumption
  <2>2. \A S : s \in Seq(S) => IsSeq(s)
    BY LenProperties DEF IsSeq
  <2> QED
    BY <2>1, <2>2
<1>2. \A iv \in IVs : GoodIV(iv)
  BY <1>1, ChannelAssumption DEF GoodIV, CounterBytes
<1>3. \A n \in TagLens : n \in 1..BLOCK_LEN
  BY ChannelAssumption
<1>4. \A n \in TagLens : n \in Nat \ {0} /\ n <= BLOCK_LEN
  BY <1>3, BlockLength
<1> QED
  BY <1>1, <1>2, <1>4, ChannelAssumption

LEMMA RoomForMessage ==
  ASSUME NEW src, NEW dst, src = 0, dst \in {0, MaxLen}, NEW bytes, IsSeq(bytes),
         Len(bytes) <= MaxLen
  PROVE  /\ Room(Holding(bytes), src, dst, Len(bytes))
         /\ Holds(Holding(bytes), src, bytes)
<1> DEFINE mem == Holding(bytes)
<1>1. MaxLen \in Nat /\ Len(bytes) \in Nat
  BY Arguments DEF IsSeq
<1>2. /\ DOMAIN mem = 1..(2 * MaxLen) /\ mem = [a \in DOMAIN mem |-> mem[a]]
      /\ \A a \in 1..(2 * MaxLen) :
           mem[a] = IF a <= Len(bytes) THEN bytes[a] ELSE {}
  BY DEF Holding, Mem
<1> HIDE DEF mem
<1>3. Room(mem, src, dst, Len(bytes))
  BY <1>1, <1>2 DEF Room
<1>4. Holds(mem, src, bytes)
  BY <1>1, <1>2 DEF Holds
<1> QED
  BY <1>3, <1>4 DEF mem

\* What the sender gets from gcm_crypt_and_tag.
LEMMA SealsAs ==
  ASSUME NEW c, Keyed(c), NEW iv \in IVs, NEW add \in Adds, NEW text \in Texts,
         NEW n \in TagLens
  PROVE  LET did == gcm_crypt_and_tag(c, "ENCRYPT", iv, add, Holding(text), 0,
                                      MaxLen, Len(text), n)
         IN  /\ Keyed(did.ctx)
             /\ did.tag = Tag(Key, iv, add, Crypt(Key, iv, text), n)
             /\ Cut(did.mem, MaxLen, Len(text)) = Crypt(Key, iv, text)
<1>1. PICK src, dst, len : src = 0 /\ dst = MaxLen /\ len = Len(text)
  OBVIOUS
<1>2. /\ IsSeq(text) /\ IsSeq(add) /\ GoodIV(iv) /\ Len(text) <= MaxLen
      /\ n \in Nat /\ n <= BLOCK_LEN
  BY Arguments DEF IsSeq
<1>3. PICK mem : mem = Holding(text)
  OBVIOUS
<1>4. Room(mem, src, dst, len) /\ Holds(mem, src, text)
  BY <1>1, <1>2, <1>3, RoomForMessage
<1>5. Key # Null /\ c.H = Key /\ c.rk = Key
  BY ChannelAssumption DEF Keyed
<1>6. PICK mode : mode = "ENCRYPT"
  OBVIOUS
<1> DEFINE did == gcm_crypt_and_tag(c, mode, iv, add, mem, src, dst, len, n)
<1>7. /\ Cut(did.mem, dst, len) = Crypt(Key, iv, text)
      /\ did.tag = Tag(Key, iv, add,
                       IF mode = "ENCRYPT" THEN Crypt(Key, iv, text) ELSE text, n)
      /\ did.ctx.H = Key /\ did.ctx.rk = Key
  BY <1>1, <1>2, <1>4, <1>5, CryptAndTagIsGcm
<1> QED
  BY <1>1, <1>3, <1>6, <1>7 DEF Keyed

\* What the receiver gets from gcm_auth_decrypt.
LEMMA OpensAs ==
  ASSUME NEW c, Keyed(c), NEW iv \in IVs, NEW add, IsSeq(add),
         NEW data, IsSeq(data), Len(data) <= MaxLen, NEW tag, IsSeq(tag),
         Len(tag) <= BLOCK_LEN, NEW dst \in {0, MaxLen}
  PROVE  OpenedAs(gcm_auth_decrypt(c, iv, add, Holding(data), 0, dst, Len(data), tag),
                  Key, iv, add, data, tag, dst)
<1>1. PICK src, mem : src = 0 /\ mem = Holding(data)
  OBVIOUS
<1>2. GoodIV(iv)
  BY Arguments
<1>3. Room(mem, src, dst, Len(data)) /\ Holds(mem, src, data)
  BY <1>1, RoomForMessage
<1>4. Key # Null /\ c.H = Key /\ c.rk = Key
  BY ChannelAssumption DEF Keyed
<1>5. OpenedAs(gcm_auth_decrypt(c, iv, add, mem, src, dst, Len(data), tag),
               Key, iv, add, data, tag, dst)
  BY <1>2, <1>3, <1>4, AuthDecryptIsGcm
<1> QED
  BY <1>1, <1>5

\* What arrives with a tag of its own is what was sealed.
LEMMA ArrivesAsSealed ==
  ASSUME NEW m, NEW iv \in IVs, NEW add \in Adds, NEW text \in Texts,
         NEW n \in TagLens, Travelled(m, SealedMessage(iv, add, text, n)),
         m.tag = Tag(Key, m.iv, m.add, m.data, Len(m.tag))
  PROVE  m = SealedMessage(iv, add, text, n)
<1> DEFINE ct == Crypt(Key, iv, text)
           t == Tag(Key, iv, add, ct, n)
           d == SealedMessage(iv, add, text, n)
<1>1. d.iv = iv /\ d.add = add /\ d.tag = t /\ d.data = ct
  BY DEF SealedMessage, Message
<1>2. /\ n \in Nat \ {0} /\ n <= BLOCK_LEN /\ IsSeq(add) /\ IsSeq(text)
      /\ IsSeq(iv) /\ IsSeq(m.iv)
  BY Arguments DEF GoodIV, Travelled
<1>3. IsSeq(ct)
  BY <1>2, CryptIsFrom, CryptFromIs
<1> HIDE DEF ct
<1>4. IsSeq(t) /\ Len(t) = n
  BY <1>2, TagIs
<1>5. /\ IsSeq(m.tag) /\ Len(m.tag) = n /\ IsSeq(m.add) /\ IsSeq(m.data)
      /\ \A i \in 1..n : m.tag[i] \in {t[i], xor(t[i], Noise)}
      /\ m = Message(m.iv, m.add, m.tag, m.data)
  BY <1>1, <1>4 DEF Travelled
<1>6. \A i \in 1..n : m.tag[i] = t[i]
  <2> SUFFICES ASSUME NEW i \in 1..n, m.tag[i] = xor(t[i], Noise) PROVE FALSE
    BY <1>5
  <2>1. PICK u \in Noise : "key" \notin DOMAIN u
    BY ChannelAssumption
  <2>2. PICK a, b : a = t[i] /\ b = m.tag[i]
    OBVIOUS
  <2>3. \A x \in a : "key" \in DOMAIN x
    BY <1>2, <2>2, TagBytesHaveKeys
  <2>4. \A x \in b : "key" \in DOMAIN x
    <3>1. b = Tag(Key, m.iv, m.add, m.data, n)[i]
      BY <1>5, <2>2
    <3> QED
      BY <1>2, <3>1, TagBytesHaveKeys
  <2>5. b = xor(a, Noise)
    BY <2>2
  <2> HIDE DEF t
  <2> QED
    BY <2>1, <2>3, <2>4, <2>5 DEF xor
<1>7. m.tag = t
  BY <1>4, <1>5, <1>6, SameSeq
<1>8. Tag(Key, m.iv, m.add, m.data, n) = Tag(Key, iv, add, ct, n)
  BY <1>4, <1>7
<1>9. m.iv = iv /\ m.add = add /\ m.data = ct
  <2>1. PICK v, a, c : v = m.iv /\ a = m.add /\ c = m.data
    OBVIOUS
  <2>2. v = iv /\ a = add /\ c = ct
    BY <1>2, <1>3, <1>5, <1>8, <2>1, TagTells
  <2> QED
    BY <2>1, <2>2
<1>10. m = Message(iv, add, t, ct)
  BY <1>5, <1>7, <1>9
<1> QED
  BY <1>10 DEF SealedMessage, ct

-----------------------------------------------------------------------------
LEMMA InitEstablishes == Init => IInv
<1> SUFFICES ASSUME Init PROVE IInv
  OBVIOUS
<1>1. Keyed(sender) /\ Keyed(receiver)
  BY ChannelAssumption DEF Init, KeyedCtx, gcm_setkey, gcm_context, Keyed
<1>2. /\ faults \in Nat /\ SealedIs /\ WireIs /\ SealedOpens
      /\ OpenedWasSealed
  BY DEF Init, SealedIs, WireIs, SealedOpens, OpenedWasSealed
<1> QED
  BY <1>1, <1>2 DEF IInv

\* A message just sealed travels unchanged.
LEMMA JustSealed ==
  ASSUME NEW iv \in IVs, NEW add \in Adds, NEW text \in Texts, NEW n \in TagLens
  PROVE  LET m == SealedMessage(iv, add, text, n) IN Travelled(m, m)
<1> DEFINE ct == Crypt(Key, iv, text)
           t == Tag(Key, iv, add, ct, n)
           m == SealedMessage(iv, add, text, n)
<1>1. m = Message(iv, add, t, ct)
  BY DEF SealedMessage
<1>2. /\ IsSeq(add) /\ IsSeq(text) /\ Len(text) <= MaxLen
      /\ n \in Nat /\ n <= BLOCK_LEN
  BY Arguments DEF IsSeq
<1>3. IsSeq(ct) /\ Len(ct) <= MaxLen
  BY <1>2, TextComesBack
<1>4. IsSeq(t)
  BY <1>2, TagIs
<1> HIDE DEF ct, t, m
<1>5. m.iv = iv /\ m.add = add /\ m.tag = t /\ m.data = ct
  BY <1>1 DEF Message
<1>6. Travelled(m, m)
  BY <1>1, <1>2, <1>3, <1>4, <1>5 DEF Travelled
<1> QED
  BY <1>6 DEF m

LEMMA SealKeeps ==
  ASSUME IInv, NEW iv \in IVs, NEW add \in Adds, NEW text \in Texts,
         NEW tag_len \in TagLens, Seal(iv, add, text, tag_len)
  PROVE  IInv'
<1> DEFINE did == gcm_crypt_and_tag(sender, "ENCRYPT", iv, add, Holding(text), 0,
                                    MaxLen, Len(text), tag_len)
           msg == [iv |-> iv, add |-> add, tag |-> did.tag,
                   data |-> SubSeq(did.mem, MaxLen + 1, MaxLen + Len(text))]
           d == SealedMessage(iv, add, text, tag_len)
           s == [msg |-> d, text |-> text]
<1>1. /\ Keyed(did.ctx)
      /\ did.tag = Tag(Key, iv, add, Crypt(Key, iv, text), tag_len)
      /\ Cut(did.mem, MaxLen, Len(text)) = Crypt(Key, iv, text)
  BY SealsAs DEF IInv
<1>2. msg = d
  BY <1>1 DEF Cut, SealedMessage, Message
<1>3. /\ sender' = did.ctx /\ sealed' = sealed \cup {s} /\ wire' = {d}
      /\ faults' = 0 /\ opened' = {} /\ receiver' = receiver
  BY <1>2 DEF Seal
<1> HIDE DEF did, msg, d
<1>4. Keyed(sender)' /\ Keyed(receiver)' /\ faults' \in Nat
  BY <1>1, <1>3 DEF IInv, Keyed
<1>5. SealedIs'
  <2> SUFFICES ASSUME NEW x \in sealed'
               PROVE  \E v \in IVs, a \in Adds, e \in Texts, n \in TagLens :
                        x = [msg |-> SealedMessage(v, a, e, n), text |-> e]
    BY DEF SealedIs
  <2>1. CASE x \in sealed
    BY <2>1 DEF IInv, SealedIs
  <2>2. CASE x = s
    BY <2>2 DEF d
  <2> QED
    BY <1>3, <2>1, <2>2
<1>6. WireIs'
  <2>1. Travelled(d, d) /\ s.msg = d /\ s \in sealed'
    BY <1>3, JustSealed DEF d
  <2>2. Travelled(d, d)'
    BY <2>1
  <2> SUFFICES ASSUME NEW m \in wire'
               PROVE  \E x \in sealed' :
                        Travelled(m, x.msg) /\ (faults' = 0 => m = x.msg)
    BY DEF WireIs, Travelled
  <2>3. m = d
    BY <1>3
  <2> QED
    BY <2>1, <2>3
<1>7. SealedOpens' /\ OpenedWasSealed'
  BY <1>3 DEF SealedOpens, OpenedWasSealed
<1> QED
  BY <1>4, <1>5, <1>6, <1>7 DEF IInv

LEMMA FlipIs ==
  ASSUME NEW bytes, IsSeq(bytes), NEW i \in 1..Len(bytes)
  PROVE  /\ IsSeq(Flip(bytes, i)) /\ Len(Flip(bytes, i)) = Len(bytes)
         /\ \A j \in 1..Len(bytes) :
              Flip(bytes, i)[j] = IF j = i THEN xor(bytes[j], Noise) ELSE bytes[j]
<1> DEFINE f == Flip(bytes, i)
<1>1. PICK n \in Nat : n = Len(bytes)
  BY DEF IsSeq
<1>2. bytes = [j \in 1..n |-> bytes[j]]
  BY <1>1 DEF IsSeq
<1>3. /\ f = [j \in 1..n |-> f[j]]
      /\ \A j \in 1..n : f[j] = IF j = i THEN xor(bytes[j], Noise) ELSE bytes[j]
  BY <1>1, <1>2 DEF Flip
<1> HIDE DEF f
<1>4. IsSeq(f) /\ Len(f) = n
  BY <1>3, SeqOf
<1> QED
  BY <1>1, <1>3, <1>4 DEF f

LEMMA ShorterIs ==
  ASSUME NEW bytes, IsSeq(bytes), bytes # <<>>
  PROVE  /\ IsSeq(ButLast(bytes)) /\ Len(ButLast(bytes)) <= Len(bytes)
         /\ IsSeq(Tail(bytes)) /\ Len(Tail(bytes)) <= Len(bytes)
<1>1. PICK n \in Nat : n = Len(bytes)
  BY DEF IsSeq
<1>2. n # 0
  BY <1>1, EmptyIs
<1>3. IsSeq(ButLast(bytes)) /\ Len(ButLast(bytes)) <= n
  <2>1. PICK p \in Nat, q \in Nat : p = 0 /\ q = n - 1
    BY <1>2
  <2>2. IsSeq(Cut(bytes, p, q)) /\ Len(Cut(bytes, p, q)) = q
    BY CutIs
  <2>3. p + 1 = 1 /\ p + q = n - 1
    BY <2>1
  <2>4. ButLast(bytes) = Cut(bytes, p, q)
    BY <1>1, <2>3 DEF ButLast, Cut
  <2> QED
    BY <2>1, <2>2, <2>4
<1>4. IsSeq(Tail(bytes)) /\ Len(Tail(bytes)) <= n
  <2>1. PICK S : bytes \in Seq(S)
    BY SeqElements
  <2>2. Tail(bytes) \in Seq(S) /\ Len(Tail(bytes)) = n - 1
    BY <1>1, <2>1, HeadTailProperties
  <2>3. IsSeq(Tail(bytes))
    BY <2>2, LenProperties DEF IsSeq
  <2> QED
    BY <2>2, <2>3
<1> QED
  BY <1>1, <1>3, <1>4

\* Damage leaves a message one that has travelled.
LEMMA DamagedTravels ==
  ASSUME NEW m, NEW d, Travelled(m, d), NEW e \in Damaged(m)
  PROVE  Travelled(e, d)
<1> DEFINE v == m.iv
           a == m.add
           t == m.tag
           c == m.data
<1>1. /\ m = Message(v, a, t, c) /\ v \in IVs
      /\ IsSeq(a) /\ IsSeq(t) /\ IsSeq(c) /\ Len(c) <= MaxLen
      /\ Len(t) = Len(d.tag)
      /\ \A i \in 1..Len(t) : t[i] \in {d.tag[i], xor(d.tag[i], Noise)}
  BY DEF Travelled
<1>2. Len(a) \in Nat /\ Len(t) \in Nat /\ Len(c) \in Nat /\ MaxLen \in Nat
  BY <1>1, Arguments DEF IsSeq
<1> HIDE DEF v, a, t, c
<1>3. \A w \in IVs : \A b, u, x :
        /\ IsSeq(b) /\ IsSeq(u) /\ IsSeq(x) /\ Len(x) <= MaxLen
        /\ Len(u) = Len(t)
        /\ \A i \in 1..Len(t) : u[i] \in {d.tag[i], xor(d.tag[i], Noise)}
        /\ e = Message(w, b, u, x)
        => Travelled(e, d)
  BY <1>1 DEF Travelled, Message
<1>4. ASSUME NEW i \in 1..Len(c), e = [m EXCEPT !.data = Flip(@, i)]
      PROVE  Travelled(e, d)
  <2>1. e = Message(v, a, t, Flip(c, i))
    BY <1>1, <1>4 DEF Message
  <2>2. IsSeq(Flip(c, i)) /\ Len(Flip(c, i)) <= MaxLen
    BY <1>1, <1>2, FlipIs
  <2> QED
    BY <1>1, <1>3, <2>1, <2>2
<1>5. ASSUME NEW i \in 1..Len(a), e = [m EXCEPT !.add = Flip(@, i)]
      PROVE  Travelled(e, d)
  <2>1. e = Message(v, Flip(a, i), t, c)
    BY <1>1, <1>5 DEF Message
  <2>2. IsSeq(Flip(a, i))
    BY <1>1, FlipIs
  <2> QED
    BY <1>1, <1>3, <2>1, <2>2
<1>6. ASSUME NEW i \in 1..Len(t), e = [m EXCEPT !.tag = Flip(@, i)]
      PROVE  Travelled(e, d)
  <2>1. e = Message(v, a, Flip(t, i), c)
    BY <1>1, <1>6 DEF Message
  <2>2. /\ IsSeq(Flip(t, i)) /\ Len(Flip(t, i)) = Len(t)
        /\ \A j \in 1..Len(t) :
             Flip(t, i)[j] = IF j = i THEN xor(t[j], Noise) ELSE t[j]
    BY <1>1, FlipIs
  <2>3. PICK u : u = Flip(t, i)
    OBVIOUS
  <2>4. \A j \in 1..Len(t) : u[j] \in {d.tag[j], xor(d.tag[j], Noise)}
    <3> TAKE j \in 1..Len(t)
    <3>1. t[j] = d.tag[j] \/ t[j] = xor(d.tag[j], Noise)
      BY <1>1
    <3>2. u[j] = t[j] \/ u[j] = xor(t[j], Noise)
      BY <2>2, <2>3
    <3>3. xor(xor(d.tag[j], Noise), Noise) = d.tag[j]
      BY XorFacts
    <3> QED
      BY <3>1, <3>2, <3>3
  <2> QED
    BY <1>1, <1>3, <2>1, <2>2, <2>3, <2>4
<1>7. ASSUME NEW w \in IVs, e = [m EXCEPT !.iv = w]
      PROVE  Travelled(e, d)
  <2>1. e = Message(w, a, t, c)
    BY <1>1, <1>7 DEF Message
  <2> QED
    BY <1>1, <1>3, <2>1
<1>8. ASSUME c # <<>>, e = [m EXCEPT !.data = ButLast(@)]
      PROVE  Travelled(e, d)
  <2>1. e = Message(v, a, t, ButLast(c))
    BY <1>1, <1>8 DEF Message
  <2>2. IsSeq(ButLast(c)) /\ Len(ButLast(c)) <= MaxLen
    BY <1>1, <1>2, <1>8, ShorterIs DEF IsSeq
  <2> QED
    BY <1>1, <1>3, <2>1, <2>2
<1>9. ASSUME c # <<>>, e = [m EXCEPT !.data = Tail(@), !.add = Append(@, Head(m.data))]
      PROVE  Travelled(e, d)
  <2>1. e = Message(v, Append(a, Head(c)), t, Tail(c))
    <3>1. PICK f : f = [m EXCEPT !.data = Tail(@)]
      OBVIOUS
    <3>2. f = Message(v, a, t, Tail(c))
      BY <1>1, <3>1 DEF Message
    <3>3. e = [f EXCEPT !.add = Append(@, Head(c))]
      BY <1>9, <3>1 DEF c
    <3> QED
      BY <3>2, <3>3 DEF Message
  <2>2. IsSeq(Tail(c)) /\ Len(Tail(c)) <= MaxLen
    BY <1>1, <1>2, <1>9, ShorterIs DEF IsSeq
  <2>3. IsSeq(Append(a, Head(c)))
    BY <1>1, AppendIs
  <2> QED
    BY <1>1, <1>3, <2>1, <2>2, <2>3
<1>10. ASSUME a # <<>>, e = [m EXCEPT !.add = ButLast(@)]
       PROVE  Travelled(e, d)
  <2>1. e = Message(v, ButLast(a), t, c)
    BY <1>1, <1>10 DEF Message
  <2>2. IsSeq(ButLast(a))
    BY <1>1, <1>10, ShorterIs
  <2> QED
    BY <1>1, <1>3, <2>1, <2>2
<1>11. ASSUME Len(c) # MaxLen, e = [m EXCEPT !.data = Append(@, {})]
       PROVE  Travelled(e, d)
  <2>1. e = Message(v, a, t, Append(c, {}))
    BY <1>1, <1>11 DEF Message
  <2>2. IsSeq(Append(c, {})) /\ Len(Append(c, {})) <= MaxLen
    BY <1>1, <1>2, <1>11, AppendIs
  <2> QED
    BY <1>1, <1>3, <2>1, <2>2
<1>12. ASSUME e = [m EXCEPT !.add = Append(@, {})]
       PROVE  Travelled(e, d)
  <2>1. e = Message(v, Append(a, {}), t, c)
    BY <1>1, <1>12 DEF Message
  <2>2. IsSeq(Append(a, {}))
    BY <1>1, AppendIs
  <2> QED
    BY <1>1, <1>3, <2>1, <2>2
<1>13. \/ \E i \in 1..Len(c) : e = [m EXCEPT !.data = Flip(@, i)]
       \/ \E i \in 1..Len(a) : e = [m EXCEPT !.add = Flip(@, i)]
       \/ \E i \in 1..Len(t) : e = [m EXCEPT !.tag = Flip(@, i)]
       \/ \E w \in IVs : e = [m EXCEPT !.iv = w]
       \/ c # <<>> /\ e = [m EXCEPT !.data = ButLast(@)]
       \/ c # <<>> /\ e = [m EXCEPT !.data = Tail(@), !.add = Append(@, Head(m.data))]
       \/ a # <<>> /\ e = [m EXCEPT !.add = ButLast(@)]
       \/ Len(c) # MaxLen /\ e = [m EXCEPT !.data = Append(@, {})]
       \/ e = [m EXCEPT !.add = Append(@, {})]
  BY Zenon DEF Damaged, v, a, t, c
<1> QED
  BY <1>4, <1>5, <1>6, <1>7, <1>8, <1>9, <1>10, <1>11, <1>12, <1>13

LEMMA DamageKeeps == IInv /\ Damage => IInv'
<1> SUFFICES ASSUME IInv, Damage PROVE IInv'
  OBVIOUS
<1>0. PICK m \in wire : \E e \in Damaged(m) : wire' = {e}
  BY DEF Damage
<1>1. PICK e \in Damaged(m) : wire' = {e}
  BY <1>0
<1>2. /\ faults' = faults + 1 /\ faults \in Nat
      /\ UNCHANGED <<sender, receiver, sealed, opened>>
  BY DEF Damage, IInv
<1>3. PICK s \in sealed : Travelled(m, s.msg)
  BY DEF IInv, WireIs
<1>4. Travelled(e, s.msg)
  BY <1>3, DamagedTravels
<1>5. WireIs'
  <2>1. faults' # 0 /\ s \in sealed'
    BY <1>2
  <2> QED
    BY <1>1, <1>4, <2>1 DEF WireIs, Travelled
<1>6. /\ Keyed(sender)' /\ Keyed(receiver)' /\ faults' \in Nat /\ SealedIs'
      /\ SealedOpens' /\ OpenedWasSealed'
  BY <1>2 DEF IInv, Keyed, SealedIs, SealedOpens, OpenedWasSealed
<1> QED
  BY <1>5, <1>6 DEF IInv

LEMMA OpenKeeps ==
  ASSUME IInv, NEW m \in wire, NEW dst \in {0, MaxLen}, Open(m, dst)
  PROVE  IInv'
<1> DEFINE n == Len(m.data)
           did == gcm_auth_decrypt(receiver, m.iv, m.add, Holding(m.data), 0, dst, n,
                                   m.tag)
           text == Cut(did.mem, dst, n)
           o == [msg |-> m, ret |-> did.ret, faults |-> faults, text |-> text]
<1>1. /\ receiver' = did.ctx /\ opened' = {o} /\ wire' = {}
      /\ sender' = sender /\ sealed' = sealed /\ faults' = faults
  BY DEF Open, Cut
<1>2. PICK s \in sealed : Travelled(m, s.msg) /\ (faults = 0 => m = s.msg)
  BY DEF IInv, WireIs
<1>3. PICK iv \in IVs, add \in Adds, plain \in Texts, k \in TagLens :
        s = [msg |-> SealedMessage(iv, add, plain, k), text |-> plain]
  BY DEF IInv, SealedIs
<1> DEFINE ct == Crypt(Key, iv, plain)
           t == Tag(Key, iv, add, ct, k)
           d == SealedMessage(iv, add, plain, k)
<1>4. /\ d.iv = iv /\ d.add = add /\ d.tag = t /\ d.data = ct
      /\ s.msg = d /\ s.text = plain
  BY <1>3 DEF SealedMessage, Message
<1>5. /\ k \in Nat \ {0} /\ k <= BLOCK_LEN /\ IsSeq(plain)
  BY Arguments
<1>6. IsSeq(t) /\ Len(t) = k
  BY <1>5, TagIs
<1>7. Crypt(Key, iv, ct) = plain
  BY <1>5, TextComesBack
<1>8. /\ m.iv \in IVs /\ IsSeq(m.add) /\ IsSeq(m.tag) /\ IsSeq(m.data)
      /\ Len(m.data) <= MaxLen /\ Len(m.tag) = k
  BY <1>2, <1>4, <1>6 DEF Travelled
<1>9. /\ Keyed(did.ctx)
      /\ IF m.tag = Tag(Key, m.iv, m.add, m.data, Len(m.tag))
         THEN did.ret = "OK" /\ text = Crypt(Key, m.iv, m.data)
         ELSE did.ret # "OK" /\ \A i \in 1..n : text[i] = {}
  <2>1. PICK v, a, u, x : v = m.iv /\ a = m.add /\ u = m.tag /\ x = m.data
    OBVIOUS
  <2>2. Keyed(receiver) /\ Len(u) <= BLOCK_LEN
    BY <1>5, <1>8, <2>1 DEF IInv
  <2>3. OpenedAs(gcm_auth_decrypt(receiver, v, a, Holding(x), 0, dst, Len(x), u),
                 Key, v, a, x, u, dst)
    BY <1>8, <2>1, <2>2, OpensAs
  <2> QED
    BY <2>1, <2>3 DEF OpenedAs, Keyed
<1>10. n \in Nat /\ Len(text) = n
  <2>1. n \in Nat /\ dst \in Nat
    BY <1>8, Arguments DEF IsSeq
  <2> QED
    BY <2>1, CutIs
<1> HIDE DEF did, text
<1>11. ASSUME m.tag = Tag(Key, m.iv, m.add, m.data, Len(m.tag))
       PROVE  m = d /\ did.ret = "OK" /\ text = plain
  <2>1. m = d
    BY <1>2, <1>4, <1>11, ArrivesAsSealed
  <2>2. text = Crypt(Key, m.iv, m.data) /\ did.ret = "OK"
    BY <1>9, <1>11
  <2> QED
    BY <1>4, <1>7, <2>1, <2>2
<1>12. ASSUME faults = 0
       PROVE  m.tag = Tag(Key, m.iv, m.add, m.data, Len(m.tag))
  BY <1>2, <1>4, <1>6, <1>12
<1>13. ASSUME did.ret = "OK" PROVE m = d /\ text = plain
  BY <1>9, <1>11, <1>13
<1>14. o.msg = m /\ o.ret = did.ret /\ o.faults = faults /\ o.text = text
  OBVIOUS
<1> HIDE DEF o, ct, t, d, n
<1>15. SealedOpens'
  <2> SUFFICES ASSUME o.faults = 0
               PROVE  o.ret = "OK" /\ [msg |-> o.msg, text |-> o.text] \in sealed
    BY <1>1 DEF SealedOpens
  <2>1. m = d /\ did.ret = "OK" /\ text = plain
    BY <1>11, <1>12, <1>14
  <2> QED
    BY <1>3, <1>14, <2>1 DEF d
<1>16. OpenedWasSealed'
  <2>1. ASSUME o.ret = "OK" PROVE [msg |-> o.msg, text |-> o.text] \in sealed
    <3>1. m = d /\ text = plain
      BY <1>13, <1>14, <2>1
    <3> QED
      BY <1>3, <1>14, <3>1 DEF d
  <2>2. ASSUME o.ret # "OK" PROVE \A i \in 1..Len(o.text) : o.text[i] = {}
    BY <1>9, <1>10, <1>14, <2>2 DEF n
  <2> QED
    BY <1>1, <2>1, <2>2 DEF OpenedWasSealed
<1>17. /\ Keyed(sender)' /\ Keyed(receiver)' /\ faults' \in Nat
       /\ SealedIs' /\ WireIs'
  BY <1>1, <1>9 DEF IInv, Keyed, SealedIs, WireIs
<1> QED
  BY <1>15, <1>16, <1>17 DEF IInv

LEMMA AlwaysIInv == Spec => []IInv
<1>1. ASSUME IInv, [Next]_vars PROVE IInv'
  <2>1. ASSUME NEW iv \in IVs, NEW add \in Adds, NEW text \in Texts,
               NEW tag_len \in TagLens, Seal(iv, add, text, tag_len)
        PROVE  IInv'
    BY <1>1, <2>1, SealKeeps
  <2>2. CASE Damage
    BY <1>1, <2>2, DamageKeeps
  <2>3. ASSUME NEW m \in wire, NEW dst \in {0, MaxLen}, Open(m, dst)
        PROVE  IInv'
    BY <1>1, <2>3, OpenKeeps
  <2>4. CASE UNCHANGED vars
    BY <1>1, <2>4 DEF vars, IInv, Keyed, SealedIs, WireIs, SealedOpens,
                      OpenedWasSealed
  <2> QED
    BY <1>1, <2>1, <2>2, <2>3, <2>4 DEF Next
<1> QED
  BY <1>1, InitEstablishes, PTL DEF Spec

\* Whatever is sealed under however many IVs, additional data and lengths, a
\* message that arrives undamaged opens to its plaintext: gcm_auth_decrypt
\* regenerates the tag of gcm_crypt_and_tag and undoes its counter mode.
THEOREM UndamagedOpens == Spec => []SealedOpens
<1>1. IInv => SealedOpens
  BY DEF IInv
<1> QED
  BY <1>1, AlwaysIInv, PTL

\* Damage of the kinds of Damaged, any number of times and of any extent, never
\* yields a message that opens unless it is one that was sealed; whatever else
\* arrives leaves zeros in the output of gcm_auth_decrypt.
THEOREM NoForgedMessageOpens == Spec => []OpenedWasSealed
<1>1. IInv => OpenedWasSealed
  BY DEF IInv
<1> QED
  BY <1>1, AlwaysIInv, PTL

=============================================================================
