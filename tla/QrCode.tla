------------------------------- MODULE QrCode -------------------------------
(***************************************************************************)
(* The QR code of the lightning address: the library public/qrcode.js as   *)
(* renderLightningQr() of public/app.js uses it, with a text of bytes, level *)
(* M and the smallest type that holds the text, here one of the first four.*)
(*                                                                         *)
(* The library picks the mask by a measure of looks; here any mask may be  *)
(* the one.  A board is a function from <<row, column>> to its dark modules. *)
(***************************************************************************)
EXTENDS Integers, Sequences, FiniteSets, SequencesExt, Bitwise

\* What a fold makes of the numbers 1 to n.  Bound to a singleton, the previous
\* value is evaluated once, before the step.
Iterated(step(_, _), start, n) ==
  LET after[i \in 0..n] ==
        IF i = 0 THEN start
        ELSE CHOOSE next \in {step(last, i) : last \in {after[i - 1]}} : TRUE
  IN after[n]

-----------------------------------------------------------------------------
(* The field of 256 elements, and polynomials over it, highest power first *)

\* The table grows by four entries at a time, none of which needs another.
EXP_TABLE ==
  Iterated(LAMBDA table, n :
             table \o [k \in 1..4 |-> LET i == 4 * n + 4 + k
                                      IN (table[i - 4] ^^ table[i - 5])
                           ^^ (table[i - 6] ^^ table[i - 8])],
           <<1, 2, 4, 8, 16, 32, 64, 128>>, 62)

LOG_TABLE == [n \in 1..255 |-> CHOOSE i \in 0..254 : EXP_TABLE[i + 1] = n]

gexp(n) == EXP_TABLE[(n % 255) + 1]

Times(a, b) == IF a = 0 \/ b = 0 THEN 0 ELSE gexp(LOG_TABLE[a] + LOG_TABLE[b])

\* multiply() by <<1, x>>.
TimesRoot(poly, x) ==
  [k \in 1..(Len(poly) + 1) |->
     (IF k <= Len(poly) THEN poly[k] ELSE 0)
       ^^ (IF k > 1 THEN Times(poly[k - 1], x) ELSE 0)] \o <<>>

\* Mutant of getErrorCorrectPolynomial: the roots begin at the second power.
getErrorCorrectPolynomialShifted(n) == Iterated(LAMBDA poly, i : TimesRoot(poly, gexp(i)), <<1>>, n)

getErrorCorrectPolynomial(n) == Iterated(LAMBDA poly, i : TimesRoot(poly, gexp(i - 1)), <<1>>, n)

\* mod(): one step of the long division for each codeword of data.
Remainder(data, divisor) ==
  Iterated(LAMBDA rest, i :
             Tail([k \in DOMAIN rest |->
                     rest[k] ^^ (IF k <= Len(divisor) THEN Times(rest[1], divisor[k]) ELSE 0)] \o <<>>),
           data \o [i \in 1..(Len(divisor) - 1) |-> 0], Len(data))

-----------------------------------------------------------------------------
(* From the text to the codewords *)

\* put(): a number as bits, the highest first.
put(n, length) == [i \in 1..length |-> (n \div 2 ^ (length - i)) % 2]

Number(bits) == Iterated(LAMBDA n, i : 2 * n + bits[i], 0, Len(bits))

\* getRSBlocks() at level M: how many blocks, and their codewords in all and of
\* data.
RsBlocks == <<[count |-> 1, total |-> 26, data |-> 16], [count |-> 1, total |-> 44, data |-> 28],
              [count |-> 1, total |-> 70, data |-> 44], [count |-> 2, total |-> 50, data |-> 32]>>

Capacity(type) == 8 * RsBlocks[type].count * RsBlocks[type].data

\* Byte mode, the length, the bytes.
Written(text) ==
  put(4, 4) \o put(Len(text), 8) \o FlattenSeq([i \in DOMAIN text |-> put(text[i], 8)])

\* make(): the first type that holds the text.
TypeOf(text) ==
  CHOOSE type \in 1..4 :
    /\ Len(Written(text)) <= Capacity(type)
    /\ \A smaller \in 1..(type - 1) : Len(Written(text)) > Capacity(smaller)

\* createData(): the end code if it fits, zeros to a whole byte, and the pads
\* 0xEC and 0x11 in turn.
createData(text) ==
  LET capacity == Capacity(TypeOf(text))
      bits     == Written(text)
      ended    == IF Len(bits) + 4 <= capacity THEN bits \o put(0, 4) ELSE bits
      whole    == ended \o [i \in 1..((8 - (Len(ended) % 8)) % 8) |-> 0]
  IN [i \in 1..(capacity \div 8) |->
        IF 8 * i <= Len(whole) THEN Number(SubSeq(whole, 8 * i - 7, 8 * i))
        ELSE IF (i - Len(whole) \div 8) % 2 = 1 THEN 236 ELSE 17] \o <<>>

\* createBytes(): the data of the blocks interleaved, then their corrections.
createBytes(data, type) ==
  LET rs      == RsBlocks[type]
      divisor == getErrorCorrectPolynomial(rs.total - rs.data)
      block   == [r \in 1..rs.count |-> SubSeq(data, (r - 1) * rs.data + 1, r * rs.data)] \o <<>>
      correct == [r \in 1..rs.count |-> Remainder(block[r], divisor)] \o <<>>
  IN FlattenSeq([i \in 1..rs.data |-> [r \in 1..rs.count |-> block[r][i]]])
       \o FlattenSeq([i \in 1..(rs.total - rs.data) |-> [r \in 1..rs.count |-> correct[r][i]]])

-----------------------------------------------------------------------------
(* The board *)

moduleCount(type) == 4 * type + 17

\* setupPositionProbePattern(): a finder with the light frame around it.
Probe(row, col, n) ==
  LET ring == {0, 6}
  IN [at \in {<<row + r, col + c>> : r \in -1..7, c \in -1..7} \cap ((0..(n - 1)) \X (0..(n - 1))) |->
        LET r == at[1] - row
            c == at[2] - col
        IN \/ r \in 0..6 /\ c \in ring
           \/ c \in 0..6 /\ r \in ring
           \/ r \in 2..4 /\ c \in 2..4]

Probes(n) == Probe(0, 0, n) @@ Probe(n - 7, 0, n) @@ Probe(0, n - 7, n)

\* setupPositionAdjustPattern(): of the patterns at 6 and n - 7, all but one
\* would lie on a finder.
Adjust(n) ==
  IF n = 21 THEN <<>>
  ELSE [at \in ((n - 9)..(n - 5)) \X ((n - 9)..(n - 5)) |->
          \/ at[1] \in {n - 9, n - 5} \/ at[2] \in {n - 9, n - 5} \/ at = <<n - 7, n - 7>>]

Timing(n) ==
  [at \in ((8..(n - 9)) \X {6}) \cup ({6} \X (8..(n - 9))) |-> (at[1] + at[2]) % 2 = 0]

\* getBCHTypeInfo(): 10 bits of correction, and the mask that keeps the whole
\* from being zero.
getBCHTypeInfo(data) ==
  LET reduced == Iterated(LAMBDA d, i : IF d >= 2 ^ (15 - i) THEN d ^^ (1335 * 2 ^ (5 - i)) ELSE d,
                          data * 1024, 5)
  IN (data * 1024 + reduced) ^^ 21522

\* setupTypeInfo(): bit i of the level, which is 0 for M, and the mask, twice.
TypeInfo(mask, n) ==
  LET dark(i) == (getBCHTypeInfo(mask) \div 2 ^ i) % 2 = 1
      vertical ==
        [i \in 0..14 |-> <<IF i < 6 THEN i ELSE IF i < 8 THEN i + 1 ELSE n - 15 + i, 8>>]
      horizontal ==
        [i \in 0..14 |-> <<8, IF i < 8 THEN n - i - 1 ELSE IF i < 9 THEN 7 ELSE 14 - i>>]
      placed == {<<vertical[i], i>> : i \in 0..14} \cup {<<horizontal[i], i>> : i \in 0..14}
  IN (<<n - 8, 8>> :> TRUE)
       @@ [at \in {cell[1] : cell \in placed} |-> \E cell \in placed : cell[1] = at /\ dark(cell[2])]

Fixed(mask, n) == TypeInfo(mask, n) @@ Probes(n) @@ Adjust(n) @@ Timing(n)

\* mapData(): two columns at a time, from the right, without column 6.
Columns(n) ==
  [k \in 1..((n - 1) \div 2) |-> IF n + 1 - 2 * k <= 6 THEN n - 2 * k ELSE n + 1 - 2 * k]

\* The modules in the order they are filled, up and down in turn.
Path(n, fixed) ==
  LET column == Columns(n)
      pass(k) == [i \in 1..(2 * n) |->
                    LET step == (i - 1) \div 2
                    IN <<IF k % 2 = 1 THEN n - 1 - step ELSE step, column[k] - ((i - 1) % 2)>>]
  IN SelectSeq(FlattenSeq([k \in DOMAIN column |-> pass(k)]), LAMBDA at : at \notin fixed)

\* getMaskFunction()
Inverts(mask, i, j) ==
  CASE mask = 0 -> (i + j) % 2 = 0
    [] mask = 1 -> i % 2 = 0
    [] mask = 2 -> j % 3 = 0
    [] mask = 3 -> (i + j) % 3 = 0
    [] mask = 4 -> (i \div 2 + j \div 3) % 2 = 0
    [] mask = 5 -> ((i * j) % 2) + ((i * j) % 3) = 0
    [] mask = 6 -> (((i * j) % 2) + ((i * j) % 3)) % 2 = 0
    [] mask = 7 -> (((i * j) % 3) + ((i + j) % 2)) % 2 = 0

\* makeImpl(): what is left when the codewords end is light before the mask.
Board(text, mask) ==
  LET type  == TypeOf(text)
      n     == moduleCount(type)
      fixed == Fixed(mask, n)
      words == createBytes(createData(text), type)
      path  == Path(n, DOMAIN fixed)
      bit   == [i \in DOMAIN path |->
                  IF i <= 8 * Len(words) THEN put(words[(i + 7) \div 8], 8)[((i - 1) % 8) + 1] ELSE 0]
      cells == {<<path[i], (bit[i] = 1) # Inverts(mask, path[i][1], path[i][2])>> : i \in DOMAIN path}
  IN fixed @@ [at \in Range(path) |-> <<at, TRUE>> \in cells]

-----------------------------------------------------------------------------
(* References: the reading of a board by the rules of the QR standard.     *)

Far(row, col) == LET magnitude(x) == IF x < 0 THEN -x ELSE x
                 IN Max({magnitude(row), magnitude(col)})

\* The finders, the alignment pattern and the two timing lines are seen.
Patterned(board, n) ==
  /\ \A r, c \in 0..7 :
       LET dark == Far(r - 3, c - 3) \in {0, 1, 3}
       IN /\ board[<<r, c>>] = dark
          /\ board[<<n - 1 - r, c>>] = dark
          /\ board[<<r, n - 1 - c>>] = dark
  /\ n > 21 => \A r, c \in -2..2 : board[<<n - 7 + r, n - 7 + c>>] = (Far(r, c) # 1)
  /\ \A i \in 8..(n - 9) : board[<<i, 6>>] = (i % 2 = 0) /\ board[<<6, i>>] = (i % 2 = 0)
  /\ board[<<n - 8, 8>>]

\* The 15 bits for each mask at level M, and where they stand, highest first.
FormatInfo == <<21522, 20773, 24188, 23371, 17913, 16590, 20375, 19104>>

FormatPlaces(n) ==
  {[i \in 1..15 |-> CASE i <= 6 -> <<8, i - 1>> [] i \in {7, 8} -> <<8, i>>
                      [] i = 9 -> <<7, 8>> [] OTHER -> <<15 - i, 8>>],
   [i \in 1..15 |-> IF i <= 7 THEN <<n - i, 8>> ELSE <<8, n - 16 + i>>]}

FormatAt(board, places) == Number([i \in 1..15 |-> IF board[places[i]] THEN 1 ELSE 0])

\* Modules that hold no codeword.
Reserved(n) ==
  {at \in (0..(n - 1)) \X (0..(n - 1)) :
     \/ at[1] < 9 /\ (at[2] < 9 \/ at[2] >= n - 8)
     \/ at[1] >= n - 8 /\ at[2] < 9
     \/ at[1] = 6 \/ at[2] = 6
     \/ n > 21 /\ Far(at[1] - (n - 7), at[2] - (n - 7)) <= 2}

\* The columns but the sixth, numbered from the left, are read in pairs.
ReadOrder(n) ==
  LET place(k) ==
        LET pair == k \div (2 * n)
            step == (k % (2 * n)) \div 2
            col  == n - 2 - 2 * pair - (k % 2)
        IN <<IF pair % 2 = 0 THEN n - 1 - step ELSE step, IF col < 6 THEN col ELSE col + 1>>
      reserved == Reserved(n)
  IN SelectSeq([k \in 1..(n * (n - 1)) |-> place(k - 1)], LAMBDA at : at \notin reserved)

\* The codewords of each block, read from the board.
BlocksRead(board, mask, type) ==
  LET order == ReadOrder(moduleCount(type))
      rs    == RsBlocks[type]
      bit(i) == IF board[order[i]] # Inverts(mask, order[i][1], order[i][2]) THEN 1 ELSE 0
      word  == [w \in 1..(rs.count * rs.total) |->
                  Number([i \in 1..8 |-> bit(8 * (w - 1) + i)])] \o <<>>
  IN [r \in 1..rs.count |-> [i \in 1..rs.total |-> word[rs.count * (i - 1) + r]] \o <<>>] \o <<>>

\* A polynomial's value; a block without error is zero at the roots.
Value(poly, x) == Iterated(LAMBDA sum, i : Times(sum, x) ^^ poly[i], 0, Len(poly))

WithoutError(block, rs) == \A e \in 0..(rs.total - rs.data - 1) : Value(block, gexp(e)) = 0

\* The text of a sequence of data codewords in byte mode.
TextOf(data) ==
  LET bits == FlattenSeq([i \in DOMAIN data |-> put(data[i], 8)])
      length == Number(SubSeq(bits, 5, 12))
  IN IF Number(SubSeq(bits, 1, 4)) # 4 THEN <<>>
     ELSE [i \in 1..length |-> Number(SubSeq(bits, 5 + 8 * i, 12 + 8 * i))]
=============================================================================
