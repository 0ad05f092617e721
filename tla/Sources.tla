-------------------------------- MODULE Sources -------------------------------
(***************************************************************************)
(* Where pictures come from: lib/source_wms.c, source_tms.c,               *)
(* source_mapserver.c and source_dummy.c over lib/http.c, and the          *)
(* rendering of a metatile, lib/tileset.c. What stands behind a source is  *)
(* not part of mapcache: it answers with the picture it is asked for, with *)
(* a text, or not at all.                                                  *)
(***************************************************************************)
EXTENDS Wms

CONSTANT MetresPerUnit    \* the lengths of the grids are multiples of 1/MetresPerUnit of a metre

BackendAnswers == {"picture", "text", "unreachable"}

(* The picture of rectangle e: each pixel shows what lies at its place.    *)
Piece(of, e) == [of |-> of, at |-> e]
PixelAt(e, w, h, c, r) ==
  LET x == HorizontalResolution(e, w)
      y == VerticalResolution(e, h)
  IN  Extent(e.minx + c * x, e.maxy - (r + 1) * y, e.minx + (c + 1) * x, e.maxy - r * y)
PictureOf(of, e, w, h) ==
  Image(w, h, [s \in Spots(w, h) |-> Pixel({Piece(of, PixelAt(e, w, h, s[1], s[2]))}, "full")])

(* mapcache_http_do_request: 502 when there is no answer. That an answer   *)
(* has the status of an error is not noticed: the handle is told to fail   *)
(* after it has been performed.                                            *)
DoRequest(answer, picture) ==
  CASE answer = "picture" -> Good(Encoded("PNG", picture))
    [] answer = "text" -> Good(Encoded("text", picture))
    [] answer = "unreachable" -> Bad(502)

(* What a source leaves in the map: an image, or data not yet decoded.     *)
Drawn(image) == [raw_image |-> {image}, encoded_data |-> {}]
Received(data) == [raw_image |-> {}, encoded_data |-> {data}]

(* Mutant: whatever was received will do.                                  *)
AsReceived(received) == IF Failed(received) THEN received ELSE Good(Received(received.value))

AsPicture(received) ==
  IF Failed(received) THEN received
  ELSE IF ~IsValidFormat(received.value) THEN Bad(502)
  ELSE Good(Received(received.value))

(* _mapcache_source_wms_render_map. A mirror asks for the layers that were *)
(* asked for. None of several dimensions is the same as no dimension.      *)
LayersOf(source, map) == IF source.layers = None THEN map.tileset.name ELSE source.layers
WmsRender(source, map, answer) ==
  AsPicture(DoRequest(answer, PictureOf(<<LayersOf(source, map), Dims(map)>>, map.extent, map.w, map.h)))

(* _GetTileCoords: the first level that is finer than the resolution is,   *)
(* rounded up to a metre.                                                  *)
RoundedUp(n, d) == Ceiling(n, d * MetresPerUnit) * MetresPerUnit
TileCoords(map, flipy) ==
  LET g == map.grid_link.grid
      res_up == Larger(RoundedUp(map.extent.maxx - map.extent.minx, map.w),
                       RoundedUp(map.extent.maxy - map.extent.miny, map.h))
      finer == {z \in DOMAIN g.levels : Resolution(g, z) < res_up}
      z == First(finer)
      across == Resolution(g, z) * map.w
      up == Resolution(g, z) * map.h
  IN  IF finer = {} THEN [x |-> 0, y |-> 0, z |-> 0]
      ELSE [x |-> (2 * (map.extent.minx - g.extent.minx) + across) \div (2 * across),
            y |-> IF flipy THEN 2 ^ z - 1 - (map.extent.miny - g.extent.miny) \div up
                  ELSE (2 * (map.extent.miny - g.extent.miny) + up) \div (2 * up),
            z |-> z]

(* The tile of the server, which has the levels of the grid; its rows are  *)
(* counted from the bottom, or from the top if it is known to do so.       *)
TmsTile(source, g, t) ==
  LET row == IF source.flipy THEN 2 ^ t.z - 1 - t.y ELSE t.y
  IN  PictureOf(<<source.layers, << >> >>, GetExtent([g EXCEPT !.origin = "bottom-left"], t.x, row, t.z),
                g.tile_sx, g.tile_sy)
TmsRender(source, map, answer) ==
  LET t == TileCoords(map, source.flipy)
      received == AsPicture(DoRequest(answer, TmsTile(source, map.grid_link.grid, t)))
      raster == TheOne(received.value.encoded_data).image
  IN  IF Failed(received) \/ ~map.tileset.elevation THEN received
      ELSE IF raster.w # map.grid_link.grid.elevationblock \/ raster.h # map.grid_link.grid.elevationblock THEN Bad(500)
      ELSE Good([received.value EXCEPT !.raw_image = {Raster(raster.w, raster.h, raster.px)}])

(* The map file draws whatever the dimensions are, 500 when it cannot.     *)
MapserverRender(source, map, answer) ==
  IF answer # "picture" THEN Bad(500)
  ELSE Good(Drawn(PictureOf(<<source.layers, << >> >>, map.extent, map.w, map.h)))
DummyRender(map) == Good(Drawn(Filled(map.w, map.h, White)))

(* source->render_map and source->query_info: only WMS answers the latter  *)
RenderMap(cfg, map, answer) ==
  LET source == cfg.sources[map.tileset.source]
  IN  CASE source.type = "wms" -> WmsRender(source, map, answer)
        [] source.type = "tms" -> TmsRender(source, map, answer)
        [] source.type = "mapserver" -> MapserverRender(source, map, answer)
        [] source.type = "dummy" -> DummyRender(map)
QueryInfo(cfg, fi, answer) ==
  LET source == cfg.sources[fi.tileset.source]
  IN  IF source.type # "wms" THEN Bad(500)
      ELSE DoRequest(answer, Filled(1, 1, Pixel({Piece(<<LayersOf(source, fi), Dims(fi)>>,
                                                       PixelAt(fi.extent, fi.w, fi.h, fi.i, fi.j))}, "full")))

-----------------------------------------------------------------------------
(* mapcache_tileset_render_metatile: the tiles of the metatile of a tile,  *)
(* as they go to the cache. Without a format there is one tile and it is   *)
(* what the source has sent. A TIFF file is written in the format of its   *)
(* cache. The data of a metatile of one tile is also what the request for  *)
(* it goes on with.                                                        *)
MapOf(tile, m) ==
  LET t == tile.tileset
      px == MetaPixels(tile.grid_link.grid, m, t.metasize, t.metabuffer)
  IN  Map(t, tile.grid_link, tile.dimensions, MetaExtent(tile.grid_link.grid, m, t.metasize, t.metabuffer), px.w, px.h)

WrittenAs(cfg, tileset, image) ==
  IF cfg.caches[tileset.cache].type = "tiff" THEN JpegEncode(image) ELSE Write(tileset.format, image)

(* The tiles by their place in the metatile, or the code of an error.      *)
RenderMetatile(cfg, tile, m, answer) ==
  LET t == tile.tileset
      g == tile.grid_link.grid
      drawn == RenderMap(cfg, MapOf(tile, m), answer)
      whole == IF drawn.value.raw_image # {} THEN Good(TheOne(drawn.value.raw_image))
               ELSE Decode(TheOne(drawn.value.encoded_data))
      views == Split(g, whole.value, MetaSize(g, m, t.metasize), t.metabuffer,
                     IF t.watermark = None THEN {} ELSE {Filled(g.tile_sx, g.tile_sy, t.watermark)})
      tiles == [p \in DOMAIN views |-> IF Failed(views[p]) THEN views[p] ELSE WrittenAs(cfg, t, views[p].value)]
      bad == {p \in DOMAIN tiles : Failed(tiles[p])}
  IN  IF Failed(drawn) THEN drawn
      ELSE IF t.format = None THEN Good([p \in MetaTiles(g, m, t.metasize) |-> TheOne(drawn.value.encoded_data)])
      ELSE IF Failed(whole) THEN whole
      ELSE IF bad # {} THEN Bad(500)
      ELSE Good([p \in DOMAIN tiles |-> tiles[p].value])
=============================================================================
