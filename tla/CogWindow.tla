----------------------------- MODULE CogWindow ------------------------------
(***************************************************************************)
(* Reading a window of a remote cloud-optimised GeoTIFF                    *)
(* (crates/core/src/cog.rs): the header and directory reads, the checks of *)
(* the layout, the pixel window of a bounding box, the plan of its tiles,  *)
(* the tile-index entries, the compressed chunks, their decoding and the   *)
(* file written; the extent queries; and the local reader of test builds.  *)
(*                                                                         *)
(* Coordinates are integers, a pixel is Pixel units wide.  A directory is  *)
(* a function from tag names to entries; the bytes behind an entry are     *)
(* fields of the object.  A chunk holds the rows of its tile after         *)
(* inflation, as bytes for float samples and as words otherwise, or None   *)
(* where inflation fails or has the wrong length.                          *)
(***************************************************************************)
EXTENDS Integers, Sequences, FiniteSets, FiniteSetsExt, SequencesExt

CONSTANTS
  Object,            \* the objects considered
  Request,           \* extents, windows and local windows asked for
  Tile,              \* required width and height of a tile (512)
  Pixel,             \* width and height of a pixel in coordinate units
  WordMod,           \* 2^32, or a smaller power of two
  Precise,           \* 2^24: every integer up to it is a float of single precision
  MaxShort, MaxLong, \* u16::MAX and u32::MAX
  MaxIfdEntries, MaxIfdBytes, MaxAscii, MaxTiles, MaxChunk, MaxCovered,
  MaxDecoded, MaxWindow,  \* the ceilings of the reader
  NaN,               \* the float that is not a number
  None               \* an absent value

ScalarTag == {"width", "height", "tile_width", "tile_height", "bits", "compression",
              "photometric", "samples", "planar", "predictor", "format"}

\* The field types: ASCII, SHORT, LONG, DOUBLE, LONG8 and one not supported.
FieldWidth == [t \in {2, 3, 4, 12, 16} |-> CASE t = 2 -> 1 [] t = 3 -> 2 [] t = 4 -> 4 [] OTHER -> 8]

CeilDiv(a, b) == -((-a) \div b)

SampleOf(bits, format) ==
  CASE <<bits, format>> = <<8, 1>> -> "U8" [] <<bits, format>> = <<8, 2>> -> "I8"
    [] <<bits, format>> = <<32, 3>> -> "F32" [] <<bits, format>> = <<32, 2>> -> "I32"
    [] OTHER -> None

\* validate_merit_layout: the predictors that go with a sample type.
PredictorOf(sample) == IF sample = "F32" THEN {1, 3} ELSE {1, 2}

\* The running sums of a row of codes.
Sums(row, mod) ==
  LET s[i \in 0 .. Len(row)] == IF i = 0 THEN 0 ELSE (s[i - 1] + row[i]) % mod
  IN  [i \in 1 .. Len(row) |-> s[i]]

\* The predictors: differences of words (2), differences of the bytes of a row
\* in four planes, high bytes first (3).  Plain floats are little-endian.
Undo(sample, predictor, row) ==
  CASE sample = "F32" /\ predictor = 3 ->
         LET s == Sums(row, 256) IN [c \in 1 .. Tile |-> [p \in 1 .. 4 |-> s[(p - 1) * Tile + c]]]
    [] sample = "F32" /\ predictor = 1 -> [c \in 1 .. Tile |-> Reverse(SubSeq(row, 4 * c - 3, 4 * c))]
    [] sample # "F32" /\ predictor = 2 ->
         Sums(row, IF sample \in {"U8", "I8"} THEN 256 ELSE WordMod)
    [] OTHER -> row

Signed(v, mod) == IF v < mod \div 2 THEN v ELSE v - mod

\* The distance of the integers that single precision has around v.
Spacing(v) == Min({u \in {1, 2, 4, 8, 16, 32, 64, 128} : -Precise * u <= v /\ v <= Precise * u})

\* `as f32`: the nearest of them, of two the even one.
Single(v) ==
  LET u == Spacing(v)
      up == 2 * (v % u) > u \/ (2 * (v % u) = u /\ (v \div u) % 2 = 1)
  IN  ((v \div u) + (IF up THEN 1 ELSE 0)) * u

IsEntry(e) == e.type \in Nat /\ e.count \in Nat /\ e.value \in Nat

\* The arrays behind the two tile entries, as long as the object holds them.
HasIndex(o) ==
  /\ \A i \in 1 .. Len(o.offsets) : o.offsets[i] \in Nat /\ o.counts[i] \in Nat
  /\ \A t \in {"offsets", "counts"} \cap DOMAIN o.tags :
       LET e == o.tags[t]
       IN  e.type \in {4, 16} /\ e.value + e.count * FieldWidth[e.type] <= o.size
             => e.count <= Len(o.offsets)

\* What a sample of the raster is in the chunk of its tile.
Stands(sample, code, v) ==
  CASE sample = "I8"  -> v \in -128 .. 127 /\ code = v % 256
    [] sample = "I32" -> v \in -128 * Precise .. 128 * Precise - 1 /\ Signed(code, WordMod) = v
    [] OTHER          -> code = v

\* The raster of an object whose layout is one the reader takes: what a decoder
\* makes of the chunks that inflate.
HasRaster(o) ==
  LET Value(t) == o.tags[t].value
      sample == SampleOf(Value("bits"), Value("format"))
  IN  /\ ScalarTag \subseteq DOMAIN o.tags
      /\ sample # None /\ Value("predictor") \in PredictorOf(sample)
      /\ Value("tile_width") = Tile /\ Value("tile_height") = Tile
      => \A c \in 0 .. Value("width") - 1, r \in 0 .. Value("height") - 1 :
           LET chunk == o.chunks[(r \div Tile) * CeilDiv(Value("width"), Tile) + (c \div Tile) + 1]
           IN  chunk # None =>
                 Stands(sample, Undo(sample, Value("predictor"), chunk[(r % Tile) + 1])[(c % Tile) + 1],
                        o.raster[<<c, r>>])

IsObject(o) ==
  /\ o.size \in Nat /\ o.magic \in {"classic", "big", "other"} /\ o.ifd \in Nat /\ o.entries \in Nat
  /\ \A t \in DOMAIN o.tags : IsEntry(o.tags[t])
  /\ o.north \in BOOLEAN /\ o.x \in Int /\ o.y \in Int
  /\ Len(o.offsets) = Len(o.counts) /\ Len(o.chunks) = Len(o.offsets)
  /\ HasIndex(o) /\ HasRaster(o)

IsRequest(q) ==
  /\ q.kind \in {"extent", "window", "local"}
  /\ q.kind # "extent" => {q.bbox.x0, q.bbox.y0, q.bbox.x1, q.bbox.y1} \subseteq Int

\* What the values of the constants are assumed to be.
CogAssumption ==
  /\ {Tile, Pixel, Precise} \subseteq Nat \ {0} /\ WordMod = 256 * Precise
  /\ None # "outside" /\ NaN \notin Int
  /\ \A o \in Object : IsObject(o)
  /\ \A q \in Request : IsRequest(q)

VARIABLES
  object,   \* the remote object
  request,  \* what is asked for
  pc,       \* the stage
  asked,    \* the byte ranges requested, first byte and end
  window,   \* RasterPixelWindow
  plan,     \* TilePlan: the flat tile indexes, in order
  tiles,    \* ResolvedTilePlan: index, first byte and end of every chunk
  out,      \* the window buffer, by column and row
  answer,   \* the file or extent produced
  error     \* the error

vars == <<object, request, pc, asked, window, plan, tiles, out, answer, error>>

Init ==
  /\ object \in Object /\ request \in Request
  /\ pc = IF request.kind = "local" THEN "local" ELSE "header"
  /\ asked = {} /\ window = None /\ plan = <<>> /\ tiles = <<>> /\ out = <<>>
  /\ answer = None /\ error = None

Fail(e) ==
  /\ pc' = "failed" /\ error' = e
  /\ UNCHANGED <<object, request, asked, window, plan, tiles, out, answer>>

-----------------------------------------------------------------------------
(* The layout. *)

Tag(t) == object.tags[t]

Has(t) == t \in DOMAIN object.tags

InlineWidth == IF object.magic = "big" THEN 8 ELSE 4

CountWidth == IF object.magic = "big" THEN 8 ELSE 2

EntryWidth == IF object.magic = "big" THEN 20 ELSE 12

\* Mutant: the end of a range is not compared with the size of the object.
InObjectUnchecked(start, length) == start >= 0 /\ length >= 0

\* checked_remote_range.
InObject(start, length) == start + length <= object.size

\* remote_inline_scalar: one SHORT or LONG, padded with zeros.
IsScalar(t) ==
  /\ Has(t) /\ Tag(t).type \in {3, 4} /\ Tag(t).count = 1
  /\ Tag(t).value <= IF Tag(t).type = 3 THEN MaxShort ELSE MaxLong

Scalar(t) == Tag(t).value

\* remote_value_range: exactly n doubles, inside the object.
IsDoubles(t, n) ==
  Has(t) /\ Tag(t).type = 12 /\ Tag(t).count = n /\ InObject(Tag(t).value, 8 * n)

\* remote_descriptor: stored inline when all its values fit into the entry.
Bytes(t) == Tag(t).count * FieldWidth[Tag(t).type]

IsInline(t) == Bytes(t) <= InlineWidth

IsDescriptor(t) ==
  /\ Has(t) /\ Tag(t).count > 0 /\ Tag(t).type \in {4, 16}
  /\ IsInline(t) \/ InObject(Tag(t).value, Bytes(t))

Sample == SampleOf(Scalar("bits"), Scalar("format"))

\* The entries of read_remote_layout that must be right, nodata apart.
LayoutOk ==
  /\ \A t \in DOMAIN object.tags : Tag(t).type \in DOMAIN FieldWidth
  /\ \A t \in ScalarTag : IsScalar(t)
  /\ Scalar("width") # 0 /\ Scalar("height") # 0
  /\ IsDoubles("scale", 3) /\ IsDoubles("tiepoint", 6)
  /\ IsDescriptor("offsets") /\ IsDescriptor("counts")
  /\ Tag("offsets").count = Tag("counts").count
  /\ Scalar("photometric") = 1 /\ Scalar("samples") = 1 /\ Scalar("planar") = 1
  /\ Sample # None

\* remote_ascii: absent, or text of at most MaxAscii bytes.
NodataInline == ~Has("nodata") \/ Tag("nodata").count <= InlineWidth

IsText == Tag("nodata").type = 2 /\ (NodataInline \/ InObject(Tag("nodata").value, Tag("nodata").count))

NodataOk == Has("nodata") => IsText /\ Tag("nodata").count \in 1 .. MaxAscii

\* The declared value, an integer or text, with the default of the sample type;
\* the local reader takes the default for a tag it cannot read, too.
Nodata == IF Has("nodata") /\ IsText THEN object.nodata ELSE IF Sample = "U8" THEN 255 ELSE -1

\* One request of the header reader.  The answer may fail or be short.
Get(stage, ranges, valid, next) ==
  /\ pc = stage
  /\ IF ~valid THEN Fail("unsupported")
     ELSE /\ asked' = asked \cup ranges
          /\ \/ pc' = next /\ UNCHANGED error
             \/ pc' = "failed" /\ error' \in {"object_store", "short"}
          /\ UNCHANGED <<object, request, window, plan, tiles, out, answer>>

ReadHeader == Get("header", {<<0, 16>>}, InObject(0, 16), "count")

ReadCount ==
  Get("count", {<<object.ifd, object.ifd + CountWidth>>},
      object.magic # "other" /\ InObject(object.ifd, CountWidth), "entries")

EntriesLength == object.entries * EntryWidth

ReadEntries ==
  LET start == object.ifd + CountWidth
  IN  Get("entries", {<<start, start + EntriesLength>>},
          /\ object.entries \in 1 .. MaxIfdEntries /\ EntriesLength <= MaxIfdBytes
          /\ InObject(start, EntriesLength),
          "nodata")

ReadNodata ==
  Get("nodata",
      IF NodataInline THEN {} ELSE {<<Tag("nodata").value, Tag("nodata").value + Tag("nodata").count>>},
      LayoutOk /\ NodataOk, "transform")

ReadTransform ==
  Get("transform",
      {<<Tag("scale").value, Tag("scale").value + 24>>, <<Tag("tiepoint").value, Tag("tiepoint").value + 48>>},
      TRUE, IF request.kind = "extent" THEN "extent" ELSE "plan")

\* The last conversions of read_remote_layout.
FitsShort == Scalar("compression") <= MaxShort /\ Scalar("predictor") <= MaxShort

\* metadata_from_layout: the origin, and the pixel signs of a north-up raster.
Width == Scalar("width")

Height == Scalar("height")

\* read_remote_extent and read_extent.
ExtentOf ==
  [x0 |-> object.x, y0 |-> object.y - Height * Pixel, x1 |-> object.x + Width * Pixel, y1 |-> object.y]

Extent ==
  /\ pc = "extent"
  /\ IF FitsShort /\ object.north
       THEN /\ answer' = [extent |-> ExtentOf] /\ pc' = "done"
            /\ UNCHANGED <<object, request, asked, window, plan, tiles, out, error>>
       ELSE Fail("unsupported")

-----------------------------------------------------------------------------
(* The window and the plan. *)

TilesAcross == CeilDiv(Width, Scalar("tile_width"))

TilesDown == CeilDiv(Height, Scalar("tile_height"))

\* validate_merit_layout.
KindSample == IF request.raster = "flow_dir" THEN {"U8", "I8"} ELSE {"F32", "I32"}

MeritOk ==
  /\ Scalar("tile_width") = Tile /\ Scalar("tile_height") = Tile
  /\ Tag("offsets").count = TilesAcross * TilesDown
  /\ Sample \in KindSample
  /\ Scalar("compression") \in {8, 32946}
  /\ Scalar("predictor") \in PredictorOf(Sample)

Clamp(v, hi) == IF v < 0 THEN 0 ELSE IF v > hi THEN hi ELSE v

Monus(a, b) == IF a > b THEN a - b ELSE 0

\* Mutant: the far edge is rounded down and gets no margin.
FarTruncated(distance) == distance \div Pixel

\* RasterPixelWindow::from_bbox: one pixel of margin on each side, then clamped.
Near(distance) == (distance \div Pixel) - 1

Far(distance) == CeilDiv(distance, Pixel) + 1

FromBbox(b) ==
  LET c0 == Clamp(Near(b.x0 - object.x), Width)
      r0 == Clamp(Near(object.y - b.y1), Height)
  IN  [col |-> c0, row |-> r0,
       width |-> Monus(Clamp(Far(b.x1 - object.x), Width), c0),
       height |-> Monus(Clamp(Far(object.y - b.y0), Height), r0)]

IsEmpty(w) == w.width = 0 \/ w.height = 0

\* TilePlan::for_window: the tiles in row order.
FirstCol(w) == w.col \div Scalar("tile_width")

FirstRow(w) == w.row \div Scalar("tile_height")

ColCount(w) == ((w.col + w.width - 1) \div Scalar("tile_width")) - FirstCol(w) + 1

RowCount(w) == ((w.row + w.height - 1) \div Scalar("tile_height")) - FirstRow(w) + 1

ForWindow(w) ==
  [k \in 1 .. RowCount(w) * ColCount(w) |->
     (FirstRow(w) + ((k - 1) \div ColCount(w))) * TilesAcross + FirstCol(w) + ((k - 1) % ColCount(w))]

Prepare ==
  /\ pc = "plan"
  /\ LET w == FromBbox(request.bbox)
     IN  IF ~FitsShort \/ ~MeritOk \/ ~object.north THEN Fail("unsupported")
         ELSE IF IsEmpty(w) THEN Fail("outside")
         ELSE IF RowCount(w) * ColCount(w) > MaxTiles THEN Fail("too_many_tiles")
         ELSE /\ window' = w /\ plan' = ForWindow(w) /\ pc' = "index"
              /\ UNCHANGED <<object, request, asked, tiles, out, answer, error>>

\* descriptor_entry_range: an inline descriptor must be one value.
EntryOk(t, i) ==
  /\ i < Tag(t).count
  /\ IF IsInline(t) THEN Tag(t).count = 1
     ELSE InObject(Tag(t).value + i * FieldWidth[Tag(t).type], FieldWidth[Tag(t).type])

EntryRanges(t) ==
  IF IsInline(t) THEN {}
  ELSE LET w == FieldWidth[Tag(t).type]
       IN  {<<Tag(t).value + i * w, Tag(t).value + i * w + w>> : i \in ToSet(plan)}

\* resolve_tile_plan: the two entries of every planned tile in one request.
ReadIndex ==
  Get("index", EntryRanges("offsets") \cup EntryRanges("counts"),
      \A i \in ToSet(plan) : EntryOk("offsets", i) /\ EntryOk("counts", i), "resolve")

\* decode_descriptor_value: the value of the entry that belongs to the tile.
EntryValue(t, i) ==
  IF IsInline(t) THEN Tag(t).value
  ELSE IF t = "offsets" THEN object.offsets[i + 1] ELSE object.counts[i + 1]

Resolve ==
  /\ pc = "resolve"
  /\ tiles' = [k \in 1 .. Len(plan) |->
                 [index |-> plan[k], start |-> EntryValue("offsets", plan[k]),
                  end |-> EntryValue("offsets", plan[k]) + EntryValue("counts", plan[k])]]
  /\ pc' = "tiles"
  /\ UNCHANGED <<object, request, asked, window, plan, out, answer, error>>

-----------------------------------------------------------------------------
(* The chunks. *)

ChunkBytes == [k \in 1 .. Len(tiles) |-> tiles[k].end - tiles[k].start]

\* validate_compressed_ranges.
ChunksOk ==
  /\ \A k \in 1 .. Len(tiles) :
       /\ ChunkBytes[k] \in 1 .. MaxChunk
       /\ InObject(tiles[k].start, ChunkBytes[k])
  /\ SumFunction(ChunkBytes) <= MaxCovered

ReadTiles == Get("tiles", {<<tiles[k].start, tiles[k].end>> : k \in 1 .. Len(tiles)}, ChunksOk, "allocate")

SampleWidth == IF Sample \in {"U8", "I8"} THEN 1 ELSE 4

\* direction_nodata_byte.
NodataByteOk ==
  CASE Sample = "U8" -> Nodata \in 0 .. 255 [] Sample = "I8" -> Nodata \in -128 .. 127 [] OTHER -> TRUE

Cells == (0 .. window.width - 1) \X (0 .. window.height - 1)

\* decode_window allocates the window, filled with nodata; decode_owned_chunk
\* refuses a decoded size over its ceiling.
Allocate ==
  /\ pc = "allocate"
  /\ IF ~NodataByteOk THEN Fail("unsupported")
     ELSE IF \/ window.width * window.height * SampleWidth > MaxWindow
             \/ Tile * Tile * SampleWidth > MaxDecoded THEN Fail("too_large")
     ELSE /\ out' = [p \in Cells |-> None] /\ pc' = "decode"
          /\ UNCHANGED <<object, request, asked, window, plan, tiles, answer, error>>

\* Mutant: the value is compared with nodata after it is rounded.
NormalizedRounded(v) ==
  LET s == Signed(v, WordMod) IN IF Sample # "I32" THEN v ELSE IF Single(s) = Nodata THEN NaN ELSE Single(s)

\* normalize_i32_accumulation, which compares and then rounds; bytes and floats
\* are kept.
Normalized(v) ==
  LET s == Signed(v, WordMod) IN IF Sample # "I32" THEN v ELSE IF s = Nodata THEN NaN ELSE Single(s)

TileCol(i) == i % TilesAcross

TileRow(i) == i \div TilesAcross

\* The part of a padded tile that lies inside the raster.
LiveWidth(i) == Min({Tile, Width - TileCol(i) * Tile})

LiveHeight(i) == Min({Tile, Height - TileRow(i) * Tile})

\* A sample of a tile, by its column and row in it.
Decoded(i, c, r) ==
  Normalized(Undo(Sample, Scalar("predictor"), object.chunks[i + 1][r + 1])[c + 1])

\* decode_owned_chunk: the live samples, row by row.
Clipped(i) ==
  [k \in 1 .. LiveHeight(i) * LiveWidth(i) |->
     Decoded(i, (k - 1) % LiveWidth(i), (k - 1) \div LiveWidth(i))]

\* Mutant: the source rows are taken to be as wide as the padded tile.
CopySpanPadded(i) ==
  LET x == TileCol(i) * Tile
      y == TileRow(i) * Tile
  IN  [stride |-> Tile,
       col |-> Max({window.col, x}), row |-> Max({window.row, y}),
       endCol |-> Min({window.col + window.width, x + LiveWidth(i)}),
       endRow |-> Min({window.row + window.height, y + LiveHeight(i)})]

\* tile_copy_span: where the tile and the window meet.
CopySpan(i) ==
  LET x == TileCol(i) * Tile
      y == TileRow(i) * Tile
  IN  [stride |-> LiveWidth(i),
       col |-> Max({window.col, x}), row |-> Max({window.row, y}),
       endCol |-> Min({window.col + window.width, x + LiveWidth(i)}),
       endRow |-> Min({window.row + window.height, y + LiveHeight(i)})]

\* copy_tile_u8 and copy_tile_f32.
Copied(i) ==
  LET s == CopySpan(i)
      data == Clipped(i)
      At(c, r) == (r - TileRow(i) * Tile) * s.stride + (c - TileCol(i) * Tile) + 1
  IN  [p \in DOMAIN out |->
         LET c == p[1] + window.col
             r == p[2] + window.row
         IN  IF c \in s.col .. s.endCol - 1 /\ r \in s.row .. s.endRow - 1
               THEN IF At(c, r) <= Len(data) THEN data[At(c, r)] ELSE None
               ELSE out[p]]

DecodeTile ==
  /\ pc = "decode" /\ tiles # <<>>
  /\ IF object.chunks[Head(tiles).index + 1] = None THEN Fail("decode")
     ELSE /\ out' = Copied(Head(tiles).index) /\ tiles' = Tail(tiles)
          /\ UNCHANGED <<object, request, pc, asked, window, plan, answer, error>>

\* normalized_nodata.
NormalizedNodata ==
  CASE Sample = "I8" -> IF Nodata \in -128 .. 127 THEN Nodata % 256 ELSE 255
    [] Sample = "I32" -> NaN
    [] OTHER -> Nodata

\* write_window_geotiff and write_tiff_image; the publication of the file is
\* RasterCache's.
WriteWindow ==
  /\ pc = "decode" /\ tiles = <<>>
  /\ \/ Fail("io")
     \/ /\ answer' = [x |-> object.x + window.col * Pixel, y |-> object.y - window.row * Pixel,
                      nodata |-> NormalizedNodata, data |-> out]
        /\ pc' = "done"
        /\ UNCHANGED <<object, request, asked, window, plan, tiles, out, error>>

-----------------------------------------------------------------------------
(* read_local_geotiff_window, of test builds: the library decodes the image. *)

\* The sample of the raster, as a decoder without ceilings reads it (external).
Source(c, r) == Decoded((r \div Tile) * TilesAcross + (c \div Tile), c % Tile, r % Tile)

Decodable == \A i \in 1 .. Len(object.chunks) : object.chunks[i] # None

\* The local files considered are laid out in tiles of Tile; the library decodes
\* others as well.
IsFixture ==
  /\ LayoutOk /\ Scalar("tile_width") = Tile /\ Scalar("tile_height") = Tile
  /\ Tag("offsets").count = TilesAcross * TilesDown
  /\ Scalar("predictor") \in PredictorOf(Sample)

\* crop_window; replace_nodata_with_nan acts on floats, whose nodata is text here.
Cropped(w) ==
  [p \in (0 .. w.width - 1) \X (0 .. w.height - 1) |-> Source(w.col + p[1], w.row + p[2])]

LocalWindow ==
  /\ pc = "local" /\ IsFixture
  /\ LET w == FromBbox(request.bbox)
     IN  IF Sample \notin KindSample \/ ~object.north \/ IsEmpty(w) \/ ~Decodable THEN Fail("unsupported")
         ELSE /\ window' = w
              /\ answer' = [x |-> object.x + w.col * Pixel, y |-> object.y - w.row * Pixel,
                            nodata |-> NormalizedNodata, data |-> Cropped(w)]
              /\ pc' = "done"
              /\ UNCHANGED <<object, request, asked, plan, tiles, out, error>>

Next ==
  \/ ReadHeader \/ ReadCount \/ ReadEntries \/ ReadNodata \/ ReadTransform \/ Extent
  \/ Prepare \/ ReadIndex \/ Resolve \/ ReadTiles \/ Allocate \/ DecodeTile \/ WriteWindow
  \/ LocalWindow

Spec == Init /\ [][Next]_vars

-----------------------------------------------------------------------------
(* Properties. *)

\* The file written is the raster over the window: every pixel is the raster's
\* own, whichever tiles it crosses, how much of an edge tile is padding and which
\* predictor encoded it, and a pixel is nodata in it exactly when it is in the
\* raster.  Integer accumulations are written in single precision: they are the
\* raster's own up to 2^24 and the nearest float beyond.
WindowExact ==
  pc = "done" /\ request.kind = "window" =>
    \A p \in DOMAIN answer.data :
      LET c == ((answer.x - object.x) \div Pixel) + p[1]
          r == ((object.y - answer.y) \div Pixel) + p[2]
          v == object.raster[<<c, r>>]
      IN  /\ answer.data[p] =
               CASE Sample = "I8" -> v % 256
                 [] Sample = "I32" /\ v = Nodata -> NaN
                 [] Sample = "I32" /\ v # Nodata /\ v \notin -Precise .. Precise -> Single(v)
                 [] OTHER -> v
          /\ Sample # "F32" => (answer.data[p] = answer.nodata <=> v = Nodata)

\* The window holds every pixel of the raster that the box meets, and a box is
\* refused as outside only when it meets no pixel.
WindowCovers ==
  request.kind # "extent" /\ (window # None \/ error = "outside") =>
    LET b == request.bbox
        Meets(c, r) ==
          /\ b.x0 <= object.x + (c + 1) * Pixel /\ object.x + c * Pixel <= b.x1
          /\ b.y0 <= object.y - r * Pixel /\ object.y - (r + 1) * Pixel <= b.y1
    IN  \A c \in 0 .. Width - 1, r \in 0 .. Height - 1 :
          Meets(c, r) =>
            /\ window # None
            /\ c \in window.col .. window.col + window.width - 1
            /\ r \in window.row .. window.row + window.height - 1

\* No byte outside the object is asked for, no empty range, and no more bytes of
\* chunks than the ceiling, whatever offsets and counts the directory declares.
RequestsBounded ==
  /\ \A g \in asked : 0 <= g[1] /\ g[1] < g[2] /\ g[2] <= object.size
  /\ pc = "allocate" => SumFunction(ChunkBytes) <= MaxCovered

\* The pixels are right, and no directory makes the reader ask for bytes
\* outside the object or beyond its ceiling (read_window, cog.rs).
WindowExactAndBounded == WindowExact /\ RequestsBounded

=============================================================================
