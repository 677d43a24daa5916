----------------------------- MODULE AesTables ------------------------------
(***************************************************************************)
(* The tables aes_init_keygen_tables fills, as the functions its loops     *)
(* compute.  AES_DECRYPTION is taken to be on, so that the reverse tables  *)
(* are there too; aes.h ships with it off.                                 *)
(***************************************************************************)
EXTENDS Words

\* ( x << 1 ) ^ ( ( x & 0x80 ) ? 0x1B : 0x00 ), kept to a byte.
XTIME(x) == XOR[(2 * x) % 256][IF x >= 128 THEN 27 ELSE 0]

\* x ^= XTIME( x ), the step from one power of 3 to the next.
times_3 == [x \in Byte |-> XOR[x][XTIME(x)]]

\* The loop's powers of 3; sixteen steps are taken at once to stay shallow.
pow ==
  LET twice(f) == [x \in Byte |-> f[f[x]]]
      eight == twice(twice(twice(times_3)))
      x[i \in Byte] == IF i = 0 THEN 1
                       ELSE IF i % 16 = 0 THEN eight[eight[x[i-16]]]
                       ELSE times_3[x[i-1]]
  IN  [i \in Byte |-> x[i]]

RCON ==
  LET x[i \in 0..9] == IF i = 0 THEN 1 ELSE XTIME(x[i-1])
  IN  [i \in 0..9 |-> x[i]]

\* pow[0] and pow[255] are both 1, and log[1] is written last for 255; log[0]
\* is never written and never read.
log == [x \in 1..255 |-> CHOOSE i \in 1..255 : pow[i] = x]

MUL(x, y) == IF x # 0 /\ y # 0 THEN pow[(log[x] + log[y]) % 255] ELSE 0

\* The y of MIX, turned left by one; x gathers the four turns.
turn(y) == ((2 * y) % 256) + (y \div 128)
mixed(y) ==
  LET y1 == turn(y)
      y2 == turn(y1)
      y3 == turn(y2)
      y4 == turn(y3)
  IN  XOR[XOR[XOR[XOR[y][y1]][y2]][y3]][y4]

FSb == [i \in Byte |-> IF i = 0 THEN 99 ELSE XOR[mixed(pow[255 - log[i]])][99]]
RSb == [x \in Byte |-> CHOOSE i \in Byte : FSb[i] = x]

\* ( ( x << 8 ) & 0xFFFFFFFF ) | ( x >> 24 )
ROTL8(w) == <<w[4], w[1], w[2], w[3]>>


\* Tables 0 to 3: each is the one before with its words turned.
turned(table) == [i \in Byte |-> ROTL8(table[i])]
four_tables(table) ==
  << table, turned(table), turned(turned(table)), turned(turned(turned(table))) >>

\* The word of FT0 for the entry x of FSb, and that of RT0 for x of RSb.
forward(x) == LET y == XTIME(x) IN <<y, x, x, XOR[y][x]>>

\* Wrong on purpose: two of the four factors change places.
reverse_swapped(x) == <<MUL(14, x), MUL(13, x), MUL(9, x), MUL(11, x)>>

reverse(x) == <<MUL(14, x), MUL(9, x), MUL(13, x), MUL(11, x)>>

FT == four_tables([i \in Byte |-> forward(FSb[i])])
RT == four_tables([i \in Byte |-> reverse(RSb[i])])

-----------------------------------------------------------------------------
(***************************************************************************)
(* What a reader finds in the static arrays after some of the three loops  *)
(* that write them: zeros where nothing was written yet.                   *)
(***************************************************************************)
Loops == {"RCON", "sboxes", "tables"}

arrays(done) ==
  LET bytes(table) == IF "sboxes" \in done THEN table ELSE [i \in Byte |-> 0]
      words(tables) == IF "tables" \in done THEN tables
                       ELSE [k \in 1..4 |-> [i \in Byte |-> ZeroWord]]
  IN  [RCON |-> IF "RCON" \in done THEN RCON ELSE [i \in 0..9 |-> 0],
       FSb |-> bytes(FSb), RSb |-> bytes(RSb),
       FT |-> words(FT), RT |-> words(RT)]

=============================================================================
