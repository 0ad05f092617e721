-------------------------------- MODULE Images --------------------------------
(***************************************************************************)
(* Images and what becomes of them: lib/image.c, the codecs of             *)
(* lib/imageio*.c and the assembly of maps from tiles, lib/tileset.c. A    *)
(* pixel is the set of things it shows, a source's picture of one square   *)
(* of the world each, and how opaque it is. Without pixman.                *)
(***************************************************************************)
EXTENDS Grids, TLC

(* The function f. TLC works the values of f out where it compares f, and  *)
(* then not again at each use.                                             *)
Tabled(f) == IF f = f THEN f ELSE f

Pixel(shows, alpha) == [shows |-> shows, alpha |-> alpha]
Clear == Pixel({}, "none")
White == Pixel({}, "full")
Unknown == Pixel({"memory beside the raster"}, "full")

(* struct mapcache_image: columns from the left, rows from the top. The    *)
(* samples of a raster of elevations are pixels here, too.                 *)
Image(w, h, px) == [w |-> w, h |-> h, px |-> Tabled(px), is_elevation |-> FALSE]
Raster(w, h, px) == [w |-> w, h |-> h, px |-> Tabled(px), is_elevation |-> TRUE]
Spots(w, h) == (0 .. w - 1) \X (0 .. h - 1)
Filled(w, h, pixel) == Image(w, h, [s \in Spots(w, h) |-> pixel])

HasAlpha(image) == ~image.is_elevation /\ \E s \in DOMAIN image.px : image.px[s].alpha # "full"

(* The outcome of a step that may set an error of the context.             *)
Good(value) == [code |-> 0, value |-> value]
Bad(code) == [code |-> code, value |-> "none"]
Failed(outcome) == outcome.code # 0

Over(overlay, base) ==
  CASE overlay.alpha = "none" -> base
    [] overlay.alpha = "full" -> overlay
    [] OTHER -> Pixel(overlay.shows \cup base.shows, IF base.alpha = "full" THEN "full" ELSE "some")

(* mapcache_image_merge: the overlay in the middle of the base.            *)
Merge(base, overlay) ==
  LET left == (base.w - overlay.w) \div 2
      top == (base.h - overlay.h) \div 2
      under == {<<left + s[1], top + s[2]>> : s \in DOMAIN overlay.px}
  IN  IF base.is_elevation \/ overlay.is_elevation THEN Good(base)
      ELSE IF base.w < overlay.w \/ base.h < overlay.h THEN Bad(500)
      ELSE Good(Image(base.w, base.h,
                  [s \in DOMAIN base.px |->
                     IF s \in under THEN Over(overlay.px[<<s[1] - left, s[2] - top>>], base.px[s])
                     ELSE base.px[s]]))

-----------------------------------------------------------------------------
(* The tiles of a metatile, mapcache_image_metatile_split: views of one    *)
(* picture, each with the watermark on it. A raster is not cut: a view of  *)
(* it is as large as the whole and may reach beyond it.                    *)

(* Mutant: rows are counted from the top for every grid.                   *)
CornerFromTop(g, height, buffer, p) ==
  <<buffer + p.i * g.tile_sx, buffer + p.j * g.tile_sy>>

Corner(g, height, buffer, p) ==
  <<buffer + p.i * g.tile_sx,
    IF TopLeft(g) THEN buffer + p.j * g.tile_sy
    ELSE height - (buffer + (p.j + 1) * g.tile_sy)>>

View(image, w, h, corner) ==
  [image EXCEPT !.w = w, !.h = h,
                !.px = Tabled([s \in Spots(w, h) |->
                                 LET t == <<corner[1] + s[1], corner[2] + s[2]>>
                                 IN  IF t \in DOMAIN image.px THEN image.px[t] ELSE Unknown])]

Split(g, image, size, buffer, watermark) ==
  [p \in [i : 0 .. size.x - 1, j : 0 .. size.y - 1] |->
     LET height == size.y * g.tile_sy + 2 * buffer
         corner == Corner(g, height, buffer, p)
         tile == View(image, g.tile_sx, g.tile_sy, corner)
     IN  IF image.is_elevation THEN Good(View(image, image.w, image.h, corner))
         ELSE IF watermark = {} THEN Good(tile)
         ELSE Merge(tile, CHOOSE mark \in watermark : TRUE)]

-----------------------------------------------------------------------------
(* Formats. What an image becomes in one: the buffer says how it is        *)
(* written and which picture comes out of it again.                        *)

Format(name, type, extension, mime_type) ==
  [name |-> name, type |-> type, extension |-> extension, mime_type |-> mime_type]
CreatePng(name) == Format(name, "PNG", "png", "image/png")
CreateJpeg(name) == Format(name, "JPEG", "jpg", "image/jpeg")
CreateRaw(name) == Format(name, "RAW", "raw", "application/octet-stream")
CreateJson(name) == Format(name, "JSON", "json", "application/json")
(* The members of a mixed format are kept as they are at that time.        *)
CreateMixed(name, transparent, opaque) ==
  [name |-> name, type |-> "MIXED", extension |-> "xxx", mime_type |-> "none",
   transparent |-> transparent, opaque |-> opaque]

Encoded(type, image) == [type |-> type, image |-> image]
Flat(pixel) == [pixel EXCEPT !.alpha = "full"]

PngEncode(image) == Good(Encoded("PNG", [image EXCEPT !.is_elevation = FALSE]))
JpegEncode(image) ==
  Good(Encoded("JPEG", Image(image.w, image.h, [s \in DOMAIN image.px |-> Flat(image.px[s])])))
RawEncode(image) == IF image.is_elevation THEN Good(Encoded("RAW", image)) ELSE Bad(500)
JsonEncode(image) == IF image.is_elevation THEN Good(Encoded("JSON", image)) ELSE Bad(500)

MixedMember(format, image) ==
  IF format.type # "MIXED" THEN format
  ELSE IF HasAlpha(image) THEN format.transparent ELSE format.opaque

Write(format, image) ==
  LET type == MixedMember(format, image).type
  IN  CASE type = "PNG" -> PngEncode(image)
        [] type = "JPEG" -> JpegEncode(image)
        [] type = "RAW" -> RawEncode(image)
        [] type = "JSON" -> JsonEncode(image)

(* What there are codecs for, and the formats made of them: no mixed one   *)
(* is a member of another.                                                 *)
Pictures == {"PNG", "JPEG", "RAW", "JSON"}
Writable(format) ==
  IF format.type = "MIXED" THEN {format.transparent.type, format.opaque.type} \subseteq Pictures
  ELSE format.type \in Pictures

(* create_empty_image: only of pictures; JSON has none and reports no      *)
(* error. A mixed format takes that of its transparent member, which       *)
(* writes with the format it is given, the mixed one.                      *)
EmptyCreator(format) == IF format.type = "MIXED" THEN format.transparent.type ELSE format.type
CreateEmpty(format, w, h, pixel) ==
  IF EmptyCreator(format) = "JSON" THEN Good(Encoded("NULL", Filled(0, 0, pixel)))
  ELSE Write(format, Filled(w, h, pixel))

(* mapcache_image_create_empty                                             *)
EmptyImage(format, w, h) ==
  CreateEmpty(format, w, h, IF format.mime_type \in {"image/png", "none"} THEN Clear ELSE White)

(* mapcache_imageio_header_sniff: JSON is never recognised.                *)
HeaderSniff(data) == IF data.type \in {"PNG", "JPEG", "RAW"} THEN data.type ELSE "UNKNOWN"
IsValidFormat(data) == HeaderSniff(data) # "UNKNOWN"

(* mapcache_imageio_decode: a JPEG is opaque, a RAW is a square raster.    *)
PngDecode(data) == Good([data.image EXCEPT !.is_elevation = FALSE])
JpegDecode(data) == Good([data.image EXCEPT !.px = Tabled([s \in DOMAIN @ |-> Flat(@[s])]), !.is_elevation = FALSE])
RawDecode(data) == Good([data.image EXCEPT !.h = data.image.w, !.is_elevation = TRUE])
Decode(data) ==
  CASE HeaderSniff(data) = "PNG" -> PngDecode(data)
    [] HeaderSniff(data) = "JPEG" -> JpegDecode(data)
    [] HeaderSniff(data) = "RAW" -> RawDecode(data)
    [] OTHER -> Bad(500)

-----------------------------------------------------------------------------
(* Maps made of tiles.                                                      *)

(* Mutant: the corners of the map and of the tiles change places.          *)
NearestFromMap(a, b, step) == Trunc(2 * (b - a) + step, 2 * step)

(* The first column and row of the pixels of src that a pixel of a map     *)
(* whose corner lies at a takes, when those of src begin at b: the cast    *)
(* truncates, so what lies up to one pixel outside takes the first one.    *)
Nearest(a, b, step) == Trunc(2 * (a - b) + step, 2 * step)

(* image is the picture of the tiles, its corner at <<left, top>>, its     *)
(* pixels step wide; the result is that of bbox, hres by vres.             *)
ResampledNearest(image, left, top, step, bbox, hres, vres, w, h) ==
  Image(w, h, [s \in Spots(w, h) |->
    LET src == <<Nearest(bbox.minx + s[1] * hres, left, step),
                 Nearest(top, bbox.maxy - s[2] * vres, step)>>
    IN  IF src \in DOMAIN image.px THEN image.px[src] ELSE Clear])

Blend(pixels) ==
  Pixel(UNION {p.shows : p \in pixels},
        CASE \A p \in pixels : p.alpha = "full" -> "full"
          [] \A p \in pixels : p.alpha = "none" -> "none"
          [] OTHER -> "some")

ResampledBilinear(image, left, top, step, bbox, hres, vres, w, h) ==
  Image(w, h, [s \in Spots(w, h) |->
    LET x == bbox.minx + s[1] * hres - left
        y == top - (bbox.maxy - s[2] * vres)
        c == <<x \div step, y \div step>>
        right == IF c[1] = image.w - 1 \/ x % step = 0 THEN c[1] ELSE c[1] + 1
        below == IF c[2] = image.h - 1 \/ y % step = 0 THEN c[2] ELSE c[2] + 1
    IN  IF c \in DOMAIN image.px
        THEN Blend({image.px[t] : t \in {c[1], right} \X {c[2], below}})
        ELSE Clear])

Lowest(S) == CHOOSE x \in S : \A i \in S : x <= i
Highest(S) == CHOOSE x \in S : \A i \in S : x >= i
Bounds(tiles) ==
  LET xs == {t.x : t \in tiles}
      ys == {t.y : t \in tiles}
  IN  [minx |-> Lowest(xs), maxx |-> Highest(xs), miny |-> Lowest(ys), maxy |-> Highest(ys)]

(* The tiles side by side; there is none of a raster.                      *)
Mosaic(g, b, tiles) ==
  LET w == (b.maxx - b.minx + 1) * g.tile_sx
      h == (b.maxy - b.miny + 1) * g.tile_sy
      row(t) == IF TopLeft(g) THEN t.y - b.miny ELSE b.maxy - t.y
      within(t, s) == <<s[1] - (t.x - b.minx) * g.tile_sx, s[2] - row(t) * g.tile_sy>>
      at(s) == {t \in tiles : t.data.type # "RAW" /\ within(t, s) \in DOMAIN t.data.image.px}
  IN  Image(w, h, [s \in Spots(w, h) |-> LET t == CHOOSE t \in at(s) : TRUE
                                         IN  IF at(s) = {} THEN Clear ELSE t.data.image.px[within(t, s)]])

Resampled(image, topleft, step, bbox, hres, vres, w, h, mode) ==
  IF mode = "bilinear" /\ (hres # step \/ vres # step)
  THEN ResampledBilinear(image, topleft.minx, topleft.maxy, step, bbox, hres, vres, w, h)
  ELSE ResampledNearest(image, topleft.minx, topleft.maxy, step, bbox, hres, vres, w, h)

(* mapcache_tileset_assemble_map_tiles: tiles of one level, the corner one *)
(* among them, each with what it is and nodata or its data.                *)
AssembleWithin(g, b, z, bbox, w, h, full, mode) ==
  IF \E t \in full : ~IsValidFormat(t.data) THEN Bad(500)
  ELSE Good(Resampled(Mosaic(g, b, full), GetExtent(g, b.minx, IF TopLeft(g) THEN b.miny ELSE b.maxy, z),
                      Resolution(g, z), bbox, HorizontalResolution(bbox, w), VerticalResolution(bbox, h), w, h, mode))
Assemble(g, bbox, w, h, tiles, mode) ==
  IF tiles = {} THEN Good(Filled(w, h, Clear))
  ELSE AssembleWithin(g, Bounds(tiles), (CHOOSE t \in tiles : TRUE).z, bbox, w, h, {t \in tiles : ~t.nodata}, mode)

(* Of two squares of the world: they are less than slack apart; the one    *)
(* holds the other, with slack to spare on its right and below.            *)
Near(e, f, slack) ==
  /\ e.minx < f.maxx + slack /\ f.minx < e.maxx + slack
  /\ e.miny < f.maxy + slack /\ f.miny < e.maxy + slack
Covers(e, f, slack) ==
  /\ e.minx <= f.minx /\ f.maxx + slack <= e.maxx
  /\ e.miny + slack <= f.miny /\ f.maxy <= e.maxy
=============================================================================
