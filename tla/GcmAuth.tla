------------------------------ MODULE GcmAuth -------------------------------
(***************************************************************************)
(* gcm_crypt_and_tag and gcm_auth_decrypt together: a sender seals messages*)
(* with one context, each travels with its IV, additional data and tag,    *)
(* may be damaged on the way as in gcmtest.c's records of type 3, and is   *)
(* opened with another context under the same key, in place or not.        *)
(***************************************************************************)
EXTENDS GcmMode, FiniteSets

CONSTANTS Key,        \* the key both sides have set
          IVs, Adds,  \* initialisation vectors, additional data
          Texts,      \* plaintexts
          TagLens,    \* tag lengths in use
          MaxLen,     \* bound: bytes of a message
          MaxSealed,  \* bound: messages sealed
          MaxFaults,  \* bound: how often a message is damaged
          Noise       \* what a damaged byte differs by

\* Sequences of bytes, an IV's bits and its counter as in Gcm; what damages a
\* byte is not made of the cipher's and the hash's results.
ASSUME ChannelAssumption ==
  /\ MaxLen \in Nat
  /\ Key # Null /\ Key.size \in KeySizes
  /\ \A s \in IVs \cup Adds \cup Texts : s \in Seq({s[i] : i \in DOMAIN s})
  /\ \A text \in Texts : Len(text) < MaxLen
  /\ TagLens \subseteq 1..BLOCK_LEN
  /\ \A iv \in IVs : /\ Len(iv) * 8 < WORD
                     /\ J0(iv).ctr \in [1..CTR_LEN -> 0..(BYTE - 1)]
  /\ Blocks(MaxLen) <= Counters - 2
  /\ \E u \in Noise : "key" \notin DOMAIN u

VARIABLES sender, receiver,  \* their contexts
          sealed,            \* history: what was sealed, with its plaintext
          wire,              \* the messages on their way, at most one
          faults,            \* how often it was damaged
          opened             \* the receiver's last result, with the message

vars == <<sender, receiver, sealed, wire, faults, opened>>

KeyedCtx == gcm_setkey(TRUE, Key).ctx

Init ==
  /\ sender = KeyedCtx /\ receiver = KeyedCtx
  /\ sealed = {} /\ wire = {} /\ faults = 0 /\ opened = {}

Mem == 1..(2 * MaxLen)
Holding(bytes) == [a \in Mem |-> IF a <= Len(bytes) THEN bytes[a] ELSE {}]

Seal(iv, add, text, tag_len) ==
  LET did == gcm_crypt_and_tag(sender, "ENCRYPT", iv, add, Holding(text),
                               0, MaxLen, Len(text), tag_len)
      msg == [iv |-> iv, add |-> add, tag |-> did.tag,
              data |-> SubSeq(did.mem, MaxLen + 1, MaxLen + Len(text))]
  IN  /\ Cardinality(sealed) < MaxSealed
      /\ sender' = did.ctx
      /\ sealed' = sealed \cup {[msg |-> msg, text |-> text]}
      /\ wire' = {msg}
      /\ faults' = 0 /\ opened' = {}
      /\ UNCHANGED receiver

Flip(bytes, i) == [bytes EXCEPT ![i] = xor(@, Noise)]
ButLast(bytes) == SubSeq(bytes, 1, Len(bytes) - 1)

\* The ways a message is damaged: a byte changes, the last one is lost, a zero
\* follows, a byte changes sides between add and data, the IV is another one.
Damaged(m) ==
       {[m EXCEPT !.data = Flip(@, i)] : i \in 1..Len(m.data)}
  \cup {[m EXCEPT !.add = Flip(@, i)] : i \in 1..Len(m.add)}
  \cup {[m EXCEPT !.tag = Flip(@, i)] : i \in 1..Len(m.tag)}
  \cup {[m EXCEPT !.iv = iv] : iv \in IVs \ {m.iv}}
  \cup (IF m.data = <<>> THEN {}
        ELSE {[m EXCEPT !.data = ButLast(@)],
              [m EXCEPT !.data = Tail(@), !.add = Append(@, Head(m.data))]})
  \cup (IF m.add = <<>> THEN {} ELSE {[m EXCEPT !.add = ButLast(@)]})
  \cup (IF Len(m.data) = MaxLen THEN {}
        ELSE {[m EXCEPT !.data = Append(@, {})]})
  \cup {[m EXCEPT !.add = Append(@, {})]}

Damage ==
  /\ faults < MaxFaults
  /\ \E m \in wire : \E d \in Damaged(m) : wire' = {d}
  /\ faults' = faults + 1
  /\ UNCHANGED <<sender, receiver, sealed, opened>>

Open(m, dst) ==
  LET n   == Len(m.data)
      did == gcm_auth_decrypt(receiver, m.iv, m.add, Holding(m.data), 0, dst, n,
                              m.tag)
  IN  /\ m \in wire
      /\ receiver' = did.ctx
      /\ opened' = {[msg |-> m, ret |-> did.ret, faults |-> faults,
                     text |-> SubSeq(did.mem, dst + 1, dst + n)]}
      /\ wire' = {}
      /\ UNCHANGED <<sender, sealed, faults>>

Next ==
  \/ \E iv \in IVs, add \in Adds, text \in Texts, tag_len \in TagLens :
       Seal(iv, add, text, tag_len)
  \/ Damage
  \/ \E m \in wire, dst \in {0, MaxLen} : Open(m, dst)

Spec == Init /\ [][Next]_vars

-----------------------------------------------------------------------------
\* A message that arrives as it was sealed opens, and to the plaintext that
\* was sealed (gcm_auth_decrypt regenerates the tag gcm_crypt_and_tag made).
SealedOpens ==
  \A o \in opened : o.faults = 0 =>
    /\ o.ret = "OK"
    /\ [msg |-> o.msg, text |-> o.text] \in sealed

\* What opens was sealed, with this IV, this additional data and this tag;
\* otherwise the caller is told GCM_AUTH_FAILURE and finds only zeros where
\* the plaintext would be (gcm.c:491-493).
OpenedWasSealed ==
  \A o \in opened :
    IF o.ret = "OK"
    THEN [msg |-> o.msg, text |-> o.text] \in sealed
    ELSE \A i \in 1..Len(o.text) : o.text[i] = {}

=============================================================================
