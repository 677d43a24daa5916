----------------------------- MODULE GcmProofs ------------------------------
(***************************************************************************)
(* A caller that keeps the rules of gcm.h gets Galois/counter mode, for    *)
(* keys, IVs, data and messages of any length and number, in any pieces,   *)
(* and with one context for any number of messages.                        *)
(***************************************************************************)
EXTENDS Gcm, GcmModeProofs

(***************************************************************************)
(* The inductive invariant: the memory, the counter and the hash are those *)
(* of one update of all the bytes fed so far (PiecesJoin), and between     *)
(* updates these are whole blocks.                                         *)
(***************************************************************************)
Sofar == CipherOf(ctx.mode, key, J0(iv), Fresh(input), 0, fed)

Shape ==
  /\ phase \in {"zeroed", "keyed", "started", "partial", "finished"}
  /\ dst \in {0, MaxLen} /\ fed \in 0..MaxLen
  /\ IsSeq(input) /\ Len(input) = MaxLen

Keyed == phase # "zeroed" => key \in Keys /\ ctx.H = key /\ ctx.rk = key

Begun == iv \in IVs /\ add \in Adds
           /\ ctx.len = fed /\ ctx.add_len = Len(add)
           /\ ctx.base_ectr = aes_cipher(key, J0(iv))

AtFed == /\ mem = Written(key, J0(iv), Fresh(input), 0, dst, fed)
         /\ ctx.y = Later(J0(iv), Blocks(fed))

Hashed == phase # "finished" =>
            ctx.buf = HashOf(Padded(add) \o Padded(Sofar))

Tagged == phase = "finished" =>
            \E t \in TagLens : tag = Tag(key, iv, add, Sofar, t)

IInv ==
  /\ Shape /\ Keyed
  /\ InMessage => Begun /\ AtFed /\ Hashed /\ Tagged
  /\ phase = "started" => fed % BLOCK_LEN = 0

-----------------------------------------------------------------------------
(***************************************************************************)
(* What the caller's rules say of the arguments.                           *)
(***************************************************************************)
LEMMA SeqIs ==
  \A s : s \in Seq({s[i] : i \in DOMAIN s}) => IsSeq(s)
<1> SUFFICES ASSUME NEW s, s \in Seq({s[i] : i \in DOMAIN s}) PROVE IsSeq(s)
  OBVIOUS
<1>1. PICK S : s \in Seq(S)
  OBVIOUS
<1> QED
  BY <1>1, LenProperties DEF IsSeq

LEMMA Arguments ==
  /\ MaxLen \in Nat
  /\ \A k \in Keys : k # Null
  /\ \A v \in IVs : GoodIV(v)
  /\ \A a \in Adds : IsSeq(a)
  /\ \A c \in Contents : IsSeq(c) /\ Len(c) = MaxLen
<1>1. \A v \in IVs : GoodIV(v)
  BY CallerAssumption, SeqIs DEF GoodIV, CounterBytes
<1> QED
  BY <1>1, CallerAssumption, SeqIs

LEMMA NoInputIs == IsSeq(NoInput) /\ Len(NoInput) = MaxLen
<1>1. NoInput = [i \in 1..MaxLen |-> NoInput[i]]
  BY DEF NoInput
<1> HIDE DEF NoInput
<1> QED
  BY <1>1, Arguments, SeqOf

\* Input and output of any part of a message.
LEMMA RoomForMessage ==
  ASSUME NEW content, NEW to \in {0, MaxLen}, NEW n \in 0..MaxLen
  PROVE  Room(Fresh(content), 0, to, n)
<1>1. MaxLen \in Nat /\ n \in Nat /\ n <= MaxLen
  BY Arguments
<1>2. DOMAIN Fresh(content) = 1..(2 * MaxLen)
  BY DEF Fresh, Mem
<1>3. Fresh(content) = [a \in DOMAIN Fresh(content) |-> Fresh(content)[a]]
  BY DEF Fresh
<1>4. \A i \in 1..n : 0 + i \in 1..(2 * MaxLen) /\ to + i \in 1..(2 * MaxLen)
  BY <1>1
<1>5. 0 = to \/ 0 + n <= to \/ to + n <= 0
  BY <1>1
<1> QED
  BY <1>1, <1>2, <1>3, <1>4, <1>5 DEF Room

LEMMA InitEstablishes == Init => IInv
  BY NoInputIs, Arguments, BlockLength DEF Init, IInv, Shape, Keyed, InMessage

\* A context cleared, or keyed, is in no message.
LEMMA SetKeyKeeps == ASSUME IInv, NEW k \in Keys, SetKey(k) PROVE IInv'
<1> DEFINE set == gcm_setkey(tables_inited, k)
<1>1. /\ ctx' = set.ctx
      /\ IF set.ret = 0 THEN phase' = "keyed" /\ key' = k
         ELSE phase' = "zeroed" /\ key' = Null
      /\ input' = NoInput /\ dst' = 0 /\ fed' = 0
  BY DEF SetKey
<1>2. set.ret = 0 => set.ctx.H = k /\ set.ctx.rk = k
  BY DEF gcm_setkey, gcm_context
<1> HIDE DEF set
<1>3. Shape'
  BY <1>1, NoInputIs, Arguments DEF Shape
<1>4. Keyed'
  BY <1>1, <1>2 DEF Keyed
<1>5. ~ InMessage' /\ phase' # "started"
  BY <1>1 DEF InMessage
<1> QED
  BY <1>3, <1>4, <1>5 DEF IInv

LEMMA ZeroKeeps == ASSUME IInv, gcm_zero_ctx PROVE IInv'
<1>1. phase' = "zeroed" /\ input' = NoInput /\ dst' = 0 /\ fed' = 0
  BY DEF gcm_zero_ctx
<1> QED
  BY <1>1, NoInputIs, Arguments DEF IInv, Shape, Keyed, InMessage

LEMMA StartKeeps ==
  ASSUME IInv, NEW mode, NEW v \in IVs, NEW a \in Adds, NEW content \in Contents,
         NEW to \in {0, MaxLen}, Start(mode, v, a, content, to)
  PROVE  IInv'
<1>1. /\ phase # "zeroed" /\ ctx' = gcm_start(ctx, mode, v, a)
      /\ phase' = "started" /\ mem' = Fresh(content)
      /\ iv' = v /\ add' = a /\ input' = content /\ dst' = to /\ fed' = 0
      /\ key' = key
  BY DEF Start
<1>2. key \in Keys /\ key # Null /\ ctx.H = key /\ ctx.rk = key
  BY <1>1, Arguments DEF IInv, Keyed
<1>3. GoodIV(v) /\ IsSeq(a) /\ IsCounter(J0(v))
  BY Arguments, J0IsCounter
<1>4. /\ InMessageOf(ctx', key, v, a, <<>>)
      /\ ctx'.mode = mode /\ ctx'.y = J0(v)
  BY <1>1, <1>2, <1>3, StartIs
<1>5. Shape'
  BY <1>1, Arguments DEF Shape
<1>6. Keyed'
  BY <1>1, <1>2, <1>4 DEF Keyed, InMessageOf
<1>7. Begun'
  BY <1>1, <1>4, EmptyIs DEF Begun, InMessageOf
<1>8. AtFed'
  <2>1. Written(key, J0(v), Fresh(content), 0, to, 0) = Fresh(content)
    <3>1. Room(Fresh(content), 0, to, 0)
      BY Arguments, RoomForMessage
    <3>2. \A x : x \notin (to + 1)..(to + 0)
      BY Arguments
    <3>3. Written(key, J0(v), Fresh(content), 0, to, 0)
            = [x \in DOMAIN Fresh(content) |-> Fresh(content)[x]]
      BY <3>2 DEF Written
    <3> QED
      BY <3>1, <3>3 DEF Room
  <2>2. Later(J0(v), Blocks(0)) = J0(v)
    <3>1. Blocks(0) = 0
      BY BlocksAre, BlockLength
    <3> QED
      BY <1>3, <3>1, LaterIs
  <2> QED
    BY <1>1, <1>4, <2>1, <2>2 DEF AtFed
<1>9. Hashed'
  <2>1. Sofar' = <<>>
    <3>1. CipherOf(mode, key, J0(v), Fresh(content), 0, 0) = <<>>
      BY CipherIs, EmptyIs
    <3> QED
      BY <1>1, <1>4, <3>1 DEF Sofar
  <2>2. ctx'.buf = HashOf(Padded(a) \o Padded(<<>>))
    BY <1>4 DEF InMessageOf
  <2> QED
    BY <1>1, <2>1, <2>2 DEF Hashed
<1>10. Tagged'
  BY <1>1 DEF Tagged
<1>11. fed' % BLOCK_LEN = 0
  BY <1>1, BlockLength
<1> QED
  BY <1>5, <1>6, <1>7, <1>8, <1>9, <1>10, <1>11 DEF IInv

LEMMA UpdateKeeps ==
  ASSUME IInv, NEW n \in 0..MaxLen, Update(n)
  PROVE  IInv'
<1> DEFINE did == gcm_update(ctx, mem, fed, dst + fed, n)
           F == Fresh(input)
           y == J0(iv)
           new == CipherOf(ctx.mode, key, ctx.y, mem, fed, n)
<1>1. /\ phase = "started" /\ fed + n <= MaxLen
      /\ ctx' = did.ctx /\ mem' = did.mem
      /\ phase' = IF n % BLOCK_LEN = 0 THEN "started" ELSE "partial"
      /\ fed' = fed + n
      /\ UNCHANGED <<key, iv, add, input, dst>>
  BY DEF Update
<1> HIDE DEF did
<1>2. /\ Shape /\ Begun /\ AtFed /\ Hashed /\ fed % BLOCK_LEN = 0
      /\ key \in Keys /\ ctx.H = key /\ ctx.rk = key
  BY <1>1 DEF IInv, InMessage, Keyed
<1>3. key # Null /\ GoodIV(iv) /\ IsSeq(add) /\ IsCounter(y)
  BY <1>2, Arguments, J0IsCounter DEF Begun
<1>4. /\ MaxLen \in Nat /\ fed \in Nat /\ n \in Nat /\ fed + n \in 0..MaxLen
      /\ dst \in {0, MaxLen}
  BY <1>1, <1>2, Arguments DEF Shape
<1>5. /\ IsSeq(Sofar) /\ Len(Sofar) = fed
  BY <1>4, CipherIs DEF Sofar
<1>6. InMessageOf(ctx, key, iv, add, Sofar)
  BY <1>1, <1>2, <1>5 DEF Begun, Hashed, InMessageOf
<1>7. IsCounter(ctx.y) /\ ctx.y = Later(y, Blocks(fed))
      /\ mem = Written(key, y, F, 0, dst, fed)
  BY <1>2, <1>3, <1>4, LaterIs, BlocksFacts DEF AtFed
<1>8. Room(F, 0, dst, fed + n)
  BY <1>4, RoomForMessage
<1> HIDE DEF F, y
<1>9. /\ Room(mem, fed, dst + fed, n)
      /\ Written(key, ctx.y, mem, fed, dst + fed, n)
           = Written(key, y, F, 0, dst, fed + n)
      /\ Sofar \o new = CipherOf(ctx.mode, key, y, F, 0, fed + n)
      /\ Later(ctx.y, Blocks(n)) = Later(y, Blocks(fed + n))
  <2>1. PICK then, at : then = Written(key, y, F, 0, dst, fed)
                        /\ at = Later(y, Blocks(fed))
    OBVIOUS
  <2>2. /\ Room(then, 0 + fed, dst + fed, n)
        /\ Written(key, at, then, 0 + fed, dst + fed, n)
             = Written(key, y, F, 0, dst, fed + n)
        /\ CipherOf(ctx.mode, key, y, F, 0, fed)
             \o CipherOf(ctx.mode, key, at, then, 0 + fed, n)
             = CipherOf(ctx.mode, key, y, F, 0, fed + n)
        /\ Later(at, Blocks(n)) = Later(y, Blocks(fed + n))
    <3>1. Joins(key, y, F, 0, dst, fed, n, ctx.mode)
      BY <1>2, <1>3, <1>4, <1>8, PiecesJoin DEF y
    <3> HIDE DEF y, new
    <3> QED
      BY <2>1, <3>1 DEF Joins
  <2>3. 0 + fed = fed /\ then = mem /\ at = ctx.y
        /\ Sofar = CipherOf(ctx.mode, key, y, F, 0, fed)
    BY <1>4, <1>7, <2>1 DEF Sofar, y, F
  <2> QED
    BY <2>2, <2>3
<1>10. /\ did.mem = Written(key, ctx.y, mem, fed, dst + fed, n)
       /\ did.ctx.mode = ctx.mode
       /\ did.ctx.y = Later(ctx.y, Blocks(n))
       /\ InMessageOf(did.ctx, key, iv, add, Sofar \o new)
  <2>1. Len(Sofar) % BLOCK_LEN = 0
    BY <1>2, <1>5
  <2>2. PICK to, ct : to = dst + fed /\ ct = Sofar
    OBVIOUS
  <2>3. LET u == gcm_update(ctx, mem, fed, to, n)
        IN  /\ u.mem = Written(key, ctx.y, mem, fed, to, n)
            /\ u.ctx.mode = ctx.mode
            /\ u.ctx.y = Later(ctx.y, Blocks(n))
            /\ InMessageOf(u.ctx, key, iv, add, ct \o new)
    <3>1. IsSeq(ct) /\ InMessageOf(ctx, key, iv, add, ct)
          /\ Len(ct) % BLOCK_LEN = 0 /\ Room(mem, fed, to, n)
      BY <1>5, <1>6, <1>9, <2>1, <2>2
    <3> QED
      BY <1>3, <1>7, <3>1, UpdateInMessage
  <2> QED
    BY <2>2, <2>3 DEF did
<1> HIDE DEF new
<1>11. Sofar' = Sofar \o new
  BY <1>1, <1>9, <1>10 DEF Sofar, y, F
<1>12. Len(Sofar \o new) = fed + n
  BY <1>4, <1>9, CipherIs
<1>13. Shape'
  BY <1>1, <1>2, <1>4 DEF Shape
<1>14. Keyed'
  BY <1>1, <1>2, <1>10 DEF Keyed, InMessageOf
<1>15. Begun'
  BY <1>1, <1>2, <1>10, <1>12 DEF Begun, InMessageOf
<1>16. AtFed'
  BY <1>1, <1>9, <1>10 DEF AtFed, y, F
<1>17. Hashed'
  BY <1>1, <1>10, <1>11 DEF Hashed, InMessageOf
<1>18. Tagged'
  BY <1>1 DEF Tagged
<1>19. phase' = "started" => fed' % BLOCK_LEN = 0
  <2> SUFFICES ASSUME n % BLOCK_LEN = 0 PROVE (fed + n) % BLOCK_LEN = 0
    BY <1>1
  <2>1. fed = (fed \div BLOCK_LEN) * BLOCK_LEN /\ fed \div BLOCK_LEN \in Nat
        /\ n = (n \div BLOCK_LEN) * BLOCK_LEN /\ n \div BLOCK_LEN \in Nat
    BY <1>2, <1>4, BlockLength
  <2>2. PICK p \in Nat, q \in Nat : fed = p * BLOCK_LEN /\ n = q * BLOCK_LEN
    BY <2>1
  <2>3. fed + n = (p + q) * BLOCK_LEN + 0 /\ p + q \in Nat
    BY <2>2, BlockLength
  <2> QED
    BY <2>3, BlockLength, DivisionIs
<1> QED
  BY <1>13, <1>14, <1>15, <1>16, <1>17, <1>18, <1>19 DEF IInv

LEMMA FinishKeeps ==
  ASSUME IInv, NEW t \in TagLens, Finish(t)
  PROVE  IInv'
<1> DEFINE did == gcm_finish(ctx, t)
<1>1. /\ phase \in {"started", "partial"} /\ phase' = "finished"
      /\ ctx' = did.ctx /\ tag' = did.tag
      /\ UNCHANGED <<mem, key, iv, add, input, dst, fed>>
  BY DEF Finish, message
<1> HIDE DEF did
<1>2. /\ Shape /\ Begun /\ AtFed /\ Hashed
      /\ key \in Keys /\ ctx.H = key /\ ctx.rk = key
  BY <1>1 DEF IInv, InMessage, Keyed
<1>3. key # Null /\ IsSeq(add) /\ fed \in Nat /\ t \in Nat /\ t <= BLOCK_LEN
  BY <1>2, Arguments, CallerAssumption, BlockLength DEF Begun, Shape
<1>4. IsSeq(Sofar) /\ Len(Sofar) = fed
  BY <1>3, CipherIs DEF Sofar
<1>5. InMessageOf(ctx, key, iv, add, Sofar)
  BY <1>1, <1>2, <1>4 DEF Begun, Hashed, InMessageOf
<1>6. /\ did.tag = Tag(key, iv, add, Sofar, t)
      /\ did.ctx.H = key /\ did.ctx.rk = key /\ did.ctx.y = ctx.y
      /\ did.ctx.len = ctx.len /\ did.ctx.add_len = ctx.add_len
      /\ did.ctx.mode = ctx.mode /\ did.ctx.base_ectr = ctx.base_ectr
  <2>1. PICK ct : ct = Sofar
    OBVIOUS
  <2>2. LET d == gcm_finish(ctx, t)
        IN  /\ d.tag = Tag(key, iv, add, ct, t)
            /\ d.ctx.H = key /\ d.ctx.rk = key /\ d.ctx.y = ctx.y
            /\ d.ctx.len = ctx.len /\ d.ctx.add_len = ctx.add_len
            /\ d.ctx.mode = ctx.mode /\ d.ctx.base_ectr = ctx.base_ectr
    BY <1>3, <1>4, <1>5, <2>1, FinishIs
  <2> QED
    BY <2>1, <2>2 DEF did
<1>7. Sofar' = Sofar
  BY <1>1, <1>6 DEF Sofar
<1>8. Shape' /\ Keyed' /\ Begun' /\ AtFed' /\ Hashed' /\ phase' # "started"
  BY <1>1, <1>2, <1>6 DEF Shape, Keyed, Begun, AtFed, Hashed
<1>9. Tagged'
  BY <1>1, <1>6, <1>7 DEF Tagged
<1> QED
  BY <1>8, <1>9 DEF IInv

LEMMA StepKeeps == IInv /\ [Next]_vars => IInv'
<1> SUFFICES ASSUME IInv, [Next]_vars PROVE IInv'
  OBVIOUS
<1>1. CASE gcm_initialize
  BY <1>1 DEF gcm_initialize, message, IInv, Shape, Keyed, InMessage, Begun,
              AtFed, Hashed, Tagged, Sofar
<1>2. ASSUME NEW k \in Keys, SetKey(k) PROVE IInv'
  BY <1>2, SetKeyKeeps
<1>3. ASSUME NEW mode, NEW v \in IVs, NEW a \in Adds, NEW content \in Contents,
             NEW to \in {0, MaxLen}, Start(mode, v, a, content, to)
      PROVE  IInv'
  BY <1>3, StartKeeps
<1>4. ASSUME NEW n \in 0..MaxLen, Update(n) PROVE IInv'
  BY <1>4, UpdateKeeps
<1>5. ASSUME NEW t \in TagLens, Finish(t) PROVE IInv'
  BY <1>5, FinishKeeps
<1>6. CASE gcm_zero_ctx
  BY <1>6, ZeroKeeps
<1>7. CASE UNCHANGED vars
  BY <1>7 DEF vars, IInv, Shape, Keyed, InMessage, Begun, AtFed, Hashed, Tagged,
              Sofar
<1> QED
  BY <1>1, <1>2, <1>3, <1>4, <1>5, <1>6, <1>7 DEF Next

LEMMA AlwaysIInv == Spec => []IInv
  BY InitEstablishes, StepKeeps, PTL DEF Spec

-----------------------------------------------------------------------------
(***************************************************************************)
(* What follows from it.                                                   *)
(***************************************************************************)
Fed == SubSeq(input, 1, fed)
Ciphertext == IF ctx.mode = "ENCRYPT" THEN Crypt(key, iv, Fed) ELSE Fed

LEMMA FedIs ==
  ASSUME Shape
  PROVE  IsSeq(Fed) /\ Len(Fed) = fed /\ Holds(Fresh(input), 0, Fed)
<1>1. MaxLen \in Nat /\ fed \in Nat /\ fed <= MaxLen
  BY Arguments DEF Shape
<1>2. /\ IsSeq(Fed) /\ Len(Fed) = fed
      /\ \A i \in 1..fed : Fed[i] = input[i]
  <2>1. Fed = Cut(input, 0, fed) /\ \A i \in 1..fed : 0 + i = i
    BY <1>1 DEF Fed, Cut
  <2>2. PICK z \in Nat : z = 0
    OBVIOUS
  <2>3. /\ IsSeq(Cut(input, z, fed)) /\ Len(Cut(input, z, fed)) = fed
        /\ \A i \in 1..fed : Cut(input, z, fed)[i] = input[z + i]
    BY <1>1, CutIs
  <2> QED
    BY <2>1, <2>2, <2>3
<1>3. \A i \in 1..fed : Fresh(input)[0 + i] = input[i]
  <2> TAKE i \in 1..fed
  <2>1. 0 + i = i /\ i \in Mem /\ i <= MaxLen
    BY <1>1 DEF Mem
  <2> QED
    BY <2>1 DEF Fresh
<1> QED
  BY <1>2, <1>3 DEF Holds

LEMMA SofarIs ==
  ASSUME Shape
  PROVE  Sofar = Ciphertext
<1>1. fed \in Nat
  BY Arguments DEF Shape
<1>2. PICK y : y = J0(iv)
  OBVIOUS
<1>3. CipherOf(ctx.mode, key, y, Fresh(input), 0, fed)
        = IF ctx.mode = "ENCRYPT" THEN CryptFrom(key, y, Fed) ELSE Fed
  BY <1>1, FedIs, CiphertextIs
<1>4. Crypt(key, iv, Fed) = CryptFrom(key, y, Fed)
  BY <1>2, CryptIsFrom
<1> QED
  BY <1>2, <1>3, <1>4 DEF Sofar, Ciphertext

\* Between two calls the counter has moved once per block since the first one,
\* and the hash is that of the data and the ciphertext so far, in whatever
\* pieces they came (gcm_start, gcm_update).
THEOREM ValuesRun == Spec => []RunningValues
<1>1. IInv => RunningValues
  <2> SUFFICES ASSUME IInv, InMessage
               PROVE  /\ ctx.rk = key /\ ctx.H = key
                      /\ ctx.len = fed /\ ctx.add_len = Len(add)
                      /\ AsNumber(ctx.y.ctr)
                           = (AsNumber(J0(iv).ctr) + Blocks(fed)) % Counters
                      /\ phase # "finished" =>
                           ctx.buf = HashOf(Padded(add) \o Padded(Ciphertext))
    BY DEF RunningValues, HashOf, Ciphertext, Fed
  <2>1. ctx.rk = key /\ ctx.H = key /\ ctx.len = fed /\ ctx.add_len = Len(add)
    BY DEF IInv, InMessage, Keyed, Begun
  <2>2. AsNumber(ctx.y.ctr) = (AsNumber(J0(iv).ctr) + Blocks(fed)) % Counters
    <3>1. ctx.y.ctr = CounterAfter(J0(iv).ctr, Blocks(fed))
      BY DEF IInv, AtFed, Later, counter_block
    <3>2. J0(iv).ctr \in CounterBytes /\ Blocks(fed) \in Nat
      BY Arguments, BlocksFacts DEF IInv, Begun, Shape, GoodIV
    <3> QED
      BY <3>1, <3>2, CounterSteps
  <2>3. phase # "finished" => ctx.buf = HashOf(Padded(add) \o Padded(Ciphertext))
    BY SofarIs DEF IInv, Hashed
  <2> QED
    BY <2>1, <2>2, <2>3
<1> QED
  BY <1>1, AlwaysIInv, PTL

\* The output is the input in counter mode, for any split into updates, in
\* place or not, and what was not fed yet is untouched (gcm_update).
THEOREM OutputCorrect == Spec => []OutputIsCounterMode
<1>1. IInv => OutputIsCounterMode
  <2> SUFFICES ASSUME IInv, InMessage
               PROVE  /\ SubSeq(mem, dst + 1, dst + fed) = Crypt(key, iv, Fed)
                      /\ SubSeq(mem, fed + 1, MaxLen)
                           = SubSeq(input, fed + 1, MaxLen)
    BY DEF OutputIsCounterMode, Fed
  <2>1. Shape /\ mem = Written(key, J0(iv), Fresh(input), 0, dst, fed)
    BY DEF IInv, AtFed
  <2>2. /\ MaxLen \in Nat /\ fed \in Nat /\ fed <= MaxLen /\ dst \in {0, MaxLen}
    BY <2>1, Arguments DEF Shape
  <2>3. SubSeq(mem, dst + 1, dst + fed) = Crypt(key, iv, Fed)
    <3>1. PICK y : y = J0(iv)
      OBVIOUS
    <3>2. Room(Fresh(input), 0, dst, fed)
      BY <2>1, RoomForMessage DEF Shape
    <3>3. Cut(Written(key, y, Fresh(input), 0, dst, fed), dst, fed)
            = CryptFrom(key, y, Fed)
      BY <2>1, <3>2, FedIs, OutputIs
    <3> QED
      BY <2>1, <3>1, <3>3, CryptIsFrom DEF Cut
  <2>4. \A i \in (fed + 1)..MaxLen : mem[i] = input[i]
    <3> TAKE i \in (fed + 1)..MaxLen
    <3>1. i \in Mem /\ i <= MaxLen /\ i \notin (dst + 1)..(dst + fed)
      BY <2>2 DEF Mem
    <3>2. i \in DOMAIN Fresh(input) /\ Fresh(input)[i] = input[i]
      BY <3>1 DEF Fresh
    <3> QED
      BY <2>1, <3>1, <3>2 DEF Written
  <2>5. SubSeq(mem, fed + 1, MaxLen) = SubSeq(input, fed + 1, MaxLen)
    <3>1. \A s : /\ IsSeq(SubSeq(s, fed + 1, MaxLen))
                 /\ Len(SubSeq(s, fed + 1, MaxLen)) = MaxLen - fed
                 /\ \A i \in 1..(MaxLen - fed) :
                      SubSeq(s, fed + 1, MaxLen)[i] = s[fed + i]
      <4>1. MaxLen - fed \in Nat /\ fed + (MaxLen - fed) = MaxLen
        BY <2>2
      <4>2. PICK m \in Nat : m = MaxLen - fed
        BY <4>1
      <4>3. \A s : /\ IsSeq(Cut(s, fed, m)) /\ Len(Cut(s, fed, m)) = m
                   /\ \A i \in 1..m : Cut(s, fed, m)[i] = s[fed + i]
        BY <2>2, CutIs
      <4>4. \A s : Cut(s, fed, m) = SubSeq(s, fed + 1, MaxLen)
        BY <4>1, <4>2 DEF Cut
      <4> QED
        BY <4>2, <4>3, <4>4
    <3>2. \A i \in 1..(MaxLen - fed) : mem[fed + i] = input[fed + i]
      BY <2>2, <2>4
    <3>3. PICK p, q : p = SubSeq(mem, fed + 1, MaxLen)
                      /\ q = SubSeq(input, fed + 1, MaxLen)
      OBVIOUS
    <3>4. IsSeq(p) /\ IsSeq(q) /\ Len(p) = MaxLen - fed /\ Len(q) = MaxLen - fed
          /\ \A i \in 1..(MaxLen - fed) : p[i] = q[i]
      BY <3>1, <3>2, <3>3
    <3>5. p = q
      BY <3>4, SameSeq
    <3> QED
      BY <3>3, <3>5
  <2> QED
    BY <2>3, <2>5
<1> QED
  BY <1>1, AlwaysIInv, PTL

\* The tag is that of the additional data and the ciphertext, in either
\* direction, in pieces or not, and also of an empty message (gcm_finish).
THEOREM TagCorrect == Spec => []TagIsOfCiphertext
<1>1. IInv => TagIsOfCiphertext
  <2> SUFFICES ASSUME IInv, phase = "finished"
               PROVE  tag = Tag(key, iv, add, Ciphertext, Len(tag))
    BY DEF TagIsOfCiphertext, Ciphertext, Fed
  <2>1. PICK t \in TagLens : tag = Tag(key, iv, add, Sofar, t)
    BY DEF IInv, InMessage, Tagged
  <2>2. Len(tag) = t
    <3>1. t \in Nat
      BY CallerAssumption, BlockLength
    <3>2. tag = [i \in 1..t |-> tag[i]]
      BY <2>1 DEF Tag
    <3> QED
      BY <3>1, <3>2, SeqOf
  <2> QED
    BY <2>1, <2>2, SofarIs DEF IInv
<1> QED
  BY <1>1, AlwaysIInv, PTL

\* No two bytes of a message, and no byte of it and of its tag, share a byte of
\* keystream, also when the counter wraps inside the message (gcm_update).
THEOREM FreshKeystream == Spec => []KeystreamIsFresh
<1>1. IInv => KeystreamIsFresh
  <2> DEFINE mask == [i \in 1..fed |-> xor(mem[dst + i], input[i])]
             y == J0(iv)
  <2> SUFFICES ASSUME IInv, InMessage, NEW i \in 1..fed
               PROVE  /\ \A j \in 1..(i - 1) : mask[i] # mask[j]
                      /\ \A j \in 1..BLOCK_LEN : mask[i] # ctx.base_ectr[j]
    BY DEF KeystreamIsFresh
  <2>1. /\ Shape /\ mem = Written(key, y, Fresh(input), 0, dst, fed)
        /\ IsCounter(y) /\ ctx.base_ectr = aes_cipher(key, y)
    BY Arguments, J0IsCounter DEF IInv, AtFed, Begun
  <2>2. /\ MaxLen \in Nat /\ fed \in Nat /\ fed <= MaxLen /\ dst \in {0, MaxLen}
    BY <2>1, Arguments DEF Shape
  <2> HIDE DEF y
  <2>3. ASSUME NEW j \in 1..fed PROVE mask[j] = MaskFrom(key, y, j)
    <3>1. mem[dst + j] = xor(MaskFrom(key, y, j), input[j])
      <4>1. /\ dst + j \in Mem /\ dst + j \in (dst + 1)..(dst + fed)
            /\ (dst + j) - dst = j /\ 0 + j = j /\ j \in Mem /\ j <= MaxLen
        BY <2>2 DEF Mem
      <4>2. PICK a : a = dst + j
        OBVIOUS
      <4>3. mem[a] = xor(MaskFrom(key, y, a - dst), Fresh(input)[0 + (a - dst)])
        BY <2>1, <4>1, <4>2 DEF Written, Fresh
      <4>4. Fresh(input)[j] = input[j]
        BY <4>1 DEF Fresh
      <4> QED
        BY <4>1, <4>2, <4>3, <4>4
    <3> QED
      BY <3>1, XorFacts
  <2>4. Blocks(MaxLen) < Counters
    <3>1. Blocks(MaxLen) \in Nat /\ Counters \in Nat
      BY <2>1, <2>2, BlocksFacts, NumberFits DEF IsCounter
    <3> QED
      BY <3>1, CallerAssumption
  <2> HIDE DEF mask
  <2>5. ASSUME NEW j \in 1..(i - 1) PROVE mask[i] # mask[j]
    <3>1. i \in Nat /\ j \in Nat /\ i >= 1 /\ j >= 1 /\ j < i /\ i <= MaxLen
          /\ j \in 1..fed
      BY <2>2
    <3>2. MaskFrom(key, y, i) # MaskFrom(key, y, j)
      BY <2>1, <2>2, <2>4, <3>1, MasksDiffer
    <3> QED
      BY <2>3, <3>1, <3>2
  <2>6. ASSUME NEW j \in 1..BLOCK_LEN PROVE mask[i] # ctx.base_ectr[j]
    <3>1. i \in Nat /\ j \in Nat /\ i >= 1 /\ j >= 1 /\ j <= BLOCK_LEN /\ i <= MaxLen
      BY <2>2, BlockLength
    <3>2. MaskFrom(key, y, i) # aes_cipher(key, y)[j]
      BY <2>1, <2>2, <2>4, <3>1, MasksDiffer
    <3> QED
      BY <2>1, <2>3, <3>2
  <2> QED
    BY <2>5, <2>6
<1> QED
  BY <1>1, AlwaysIInv, PTL

=============================================================================
