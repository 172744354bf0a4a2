---------------------------- MODULE MCCogWindow -----------------------------
\* Objects and requests for CogWindow: rasters of 5 by 3 pixels in tiles of 2 by
\* 2, so that the last column and the last row of tiles are padded.
EXTENDS Integers, Sequences, SequencesExt

CONSTANTS
  None,  \* an absent value
  Text   \* a declared nodata that is no integer

Tile == 2
WordMod == 4096

W == 5
H == 3
Across == 3

E(type, count, value) == [type |-> type, count |-> count, value |-> value]

Tags(bits, format, predictor) ==
  [width |-> E(3, 1, W), height |-> E(3, 1, H), tile_width |-> E(3, 1, Tile), tile_height |-> E(4, 1, Tile),
   bits |-> E(3, 1, bits), compression |-> E(3, 1, 8), photometric |-> E(3, 1, 1), samples |-> E(3, 1, 1),
   planar |-> E(3, 1, 1), predictor |-> E(3, 1, predictor), format |-> E(3, 1, format),
   scale |-> E(12, 3, 350), tiepoint |-> E(12, 6, 374), offsets |-> E(16, 6, 430), counts |-> E(4, 6, 480),
   nodata |-> E(2, 5, 530)]

\* The raster, and what an encoder makes of one row of a tile (external).
Value(sample, c, r) ==
  CASE sample = "U8" -> IF c = 3 /\ r = 1 THEN 255 ELSE (37 * c + 91 * r) % 200
    [] sample = "I8" -> IF c = 1 /\ r = 2 THEN -1 ELSE ((37 * c + 91 * r) % 200) - 100
    [] sample = "I32" -> CASE c = 4 /\ r = 0 -> 400 [] c = 0 /\ r = 1 -> 16 [] c = 2 /\ r = 2 -> 17
                           [] OTHER -> 500 * c - 900 * r
    [] sample = "F32" -> <<66, 10 * c, 7 * r, 200 - c>>

Code(sample, c, r) ==
  IF c >= W \/ r >= H THEN IF sample = "F32" THEN <<9, 9, 9, 9>> ELSE 9
  ELSE CASE sample = "I8" -> Value(sample, c, r) % 256
         [] sample = "I32" -> Value(sample, c, r) % WordMod
         [] OTHER -> Value(sample, c, r)

Differences(row, mod) ==
  [i \in 1 .. Len(row) |-> IF i = 1 THEN row[1] ELSE (row[i] - row[i - 1]) % mod]

EncodedRow(sample, predictor, c0, r) ==
  LET codes == [i \in 1 .. Tile |-> Code(sample, c0 + i - 1, r)]
      planes == FlattenSeq([p \in 1 .. 4 |-> [i \in 1 .. Tile |-> codes[i][p]]])
  IN  CASE sample = "F32" /\ predictor = 3 -> Differences(planes, 256)
        [] sample = "F32" /\ predictor = 1 -> FlattenSeq([i \in 1 .. Tile |-> Reverse(codes[i])])
        [] predictor = 2 -> Differences(codes, IF sample = "I32" THEN WordMod ELSE 256)
        [] OTHER -> codes

Chunks(sample, predictor) ==
  [i \in 1 .. 6 |-> [r \in 1 .. Tile |->
     EncodedRow(sample, predictor, ((i - 1) % Across) * Tile, ((i - 1) \div Across) * Tile + r - 1)]]

O(magic, sample, bits, format, predictor, nodata) ==
  [size |-> 660, magic |-> magic, ifd |-> 16, entries |-> 16, tags |-> Tags(bits, format, predictor),
   north |-> TRUE, x |-> -4, y |-> 6, nodata |-> nodata,
   offsets |-> [i \in 1 .. 6 |-> 590 + 10 * i], counts |-> [i \in 1 .. 6 |-> 10],
   chunks |-> Chunks(sample, predictor),
   raster |-> [p \in (0 .. W - 1) \X (0 .. H - 1) |-> Value(sample, p[1], p[2])]]

Dir == O("classic", "U8", 8, 1, 2, 255)

Good ==
  {Dir, O("big", "I8", 8, 2, 1, -1), O("big", "I32", 32, 2, 2, 16), O("classic", "I32", 32, 2, 1, 400), O("classic", "F32", 32, 3, 3, Text),
   O("classic", "F32", 32, 3, 1, Text), [Dir EXCEPT !.tags = [t \in DOMAIN Dir.tags \ {"nodata"} |-> Dir.tags[t]]]}

Faulty ==
  {[Dir EXCEPT !.magic = "other"], [Dir EXCEPT !.ifd = 700], [Dir EXCEPT !.entries = 0], [Dir EXCEPT !.entries = 60],
   [Dir EXCEPT !.size = 12], [Dir EXCEPT !.size = 655], [Dir EXCEPT !.size = 500], [Dir EXCEPT !.north = FALSE],
   [Dir EXCEPT !.tags.counts.count = 5], [Dir EXCEPT !.tags.offsets.type = 3], [Dir EXCEPT !.tags.nodata.count = 99],
   [Dir EXCEPT !.tags.compression.value = 5], [Dir EXCEPT !.tags.predictor.value = 3], [Dir EXCEPT !.tags.planar.value = 2],
   [Dir EXCEPT !.tags.bits.value = 16], [Dir EXCEPT !.tags.tile_width.value = 3], [Dir EXCEPT !.tags.scale.value = 650],
   [Dir EXCEPT !.counts[2] = 0], [Dir EXCEPT !.counts[5] = 30], [Dir EXCEPT !.offsets[4] = 658],
   [Dir EXCEPT !.chunks[2] = None], [Dir EXCEPT !.nodata = 300],
   [Dir EXCEPT !.tags.tile_height = E(3, 1, 50000)], [Dir EXCEPT !.tags.compression = E(4, 1, 50000)],
   [Dir EXCEPT !.tags.nodata.type = 3]}

MCObject == Good \cup Faulty

Box(x0, y0, x1, y1) == [x0 |-> x0, y0 |-> y0, x1 |-> x1, y1 |-> y1]

\* Boxes inside, across and outside the extent [-4, 6] x [0, 6].
Boxes ==
  {Box(x, y, x + d, y + 1) : x \in {-9, -5, -3, 0, 3, 6, 9}, y \in {-4, 1, 4, 8}, d \in {1, 4}}

MCRequest ==
  {[kind |-> "extent"]}
  \cup {[kind |-> k, raster |-> s, bbox |-> b] : k \in {"window", "local"}, s \in {"flow_dir", "flow_acc"}, b \in Boxes}

=============================================================================
