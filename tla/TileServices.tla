----------------------------- MODULE TileServices -----------------------------
(***************************************************************************)
(* The services that name a tile in the path: lib/service_tms.c (TMS and   *)
(* gmaps), service_kml.c, service_ve.c, service_owg.c and service_demo.c.  *)
(* A request is a path, a sequence of segments, and parameters. Parsing    *)
(* gives what is asked for or the code of an error; create_capabilities    *)
(* gives the pages that describe a service, as the requests they link to.  *)
(* The level of a request is one of the grid's: the code reads levels[z]   *)
(* before it knows.                                                        *)
(***************************************************************************)
EXTENDS Keys

(* A segment is a word, a list of layers, a number with an extension, or   *)
(* the value of a dimension; a layer is named alone or as name@grid.       *)
Layer(name, grid) == [name |-> name, grid |-> grid]
Segment(word, layers, number, ext, value) ==
  [word |-> word, layers |-> layers, number |-> number, ext |-> ext, value |-> value]
Text(word) == Segment(word, << >>, {}, "", Junk)
Layers(layers) == Segment("", layers, {}, "", Junk)
Number(n) == Segment("", << >>, {n}, "", Junk)
File(n, ext) == Segment("", << >>, {n}, ext, Junk)
Value(v) == Segment("", << >>, {}, "", v)
NoParams == << >>
Request(path, params) == [path |-> path, params |-> params]
Param(params, name) == IF name \in DOMAIN params THEN params[name] ELSE None

IsNumber(segment) == segment.number # {} /\ segment.ext = ""
IsFile(segment) == segment.number # {} /\ segment.ext # ""
NumberOf(segment) == CHOOSE n \in segment.number : TRUE

(* mapcache_tileset_tile_create: every dimension has its default.          *)
DefaultDimensions(tileset) ==
  IF tileset.dimensions = << >> THEN None
  ELSE [i \in DOMAIN tileset.dimensions |-> tileset.dimensions[i].default_value]
Tile(tileset, link, x, y, z) ==
  [tileset |-> tileset, grid_link |-> link, dimensions |-> DefaultDimensions(tileset), x |-> x, y |-> y, z |-> z]
Rows(link, z) == link.grid.levels[z].maxy
FromOtherSide(link, y, z) == Rows(link, z) - y - 1
ValidTile(t) == Valid(t.grid_link, t.x, t.y, t.z)

(* struct mapcache_request_get_tile and _get_capabilities; a page is about *)
(* nothing, a tileset and a grid of it, or a tile.                         *)
GetTile(tiles, format) == [type |-> "GET_TILE", tiles |-> tiles, format |-> format]
Page(kind, about) == [type |-> "GET_CAPABILITIES", service |-> kind, about |-> about]

(* The tileset and the grid a layer names. Without @ it is the first grid; *)
(* a grid the tileset has not leaves the link as it is, held from the      *)
(* layer before.                                                           *)
LinksNamed(tileset, grid) ==
  {tileset.grid_links[i] : i \in {i \in DOMAIN tileset.grid_links : tileset.grid_links[i].grid.name = grid}}
Look(cfg, layer, held) ==
  LET name == GetTileset(cfg, layer.name)
      tileset == cfg.tilesets[name]
      direct == cfg.mode # "normal" \/ layer.grid = None
      links == IF direct THEN {tileset.grid_links[1]}
               ELSE IF LinksNamed(tileset, layer.grid) # {} THEN LinksNamed(tileset, layer.grid)
               ELSE held
  IN  IF name \notin DOMAIN cfg.tilesets \/ links = {} THEN Bad(404)
      ELSE Good([tileset |-> tileset, link |-> CHOOSE l \in links : TRUE])

(* What the loop over layers has found, and whether the next one is of     *)
(* another grid.                                                           *)
Nothing(y) == [code |-> 0, y |-> y, held |-> {}, tiles |-> << >>]
Conflict(held, link) == \E l \in held : l.grid.name # link.grid.name
AsRequest(found) == IF found.code # 0 THEN Bad(found.code) ELSE Good(GetTile(found.tiles, None))
Tilesets(cfg) == {cfg.tilesets[t] : t \in DOMAIN cfg.tilesets}

-----------------------------------------------------------------------------
(* TMS and gmaps.                                                           *)

(* The tiles of all layers, one after the other; rows are counted from the *)
(* bottom, and from the top when reversed. A reversed row is turned round  *)
(* again for every layer.                                                  *)
TmsLayer(cfg, x, z, reverse, acc, layer) ==
  LET found == Look(cfg, layer, acc.held)
      link == found.value.link
      y == IF reverse THEN FromOtherSide(link, acc.y, z) ELSE acc.y
      tile == Tile(found.value.tileset, link, x, IF TopLeft(link.grid) THEN FromOtherSide(link, y, z) ELSE y, z)
  IN  IF acc.code # 0 THEN acc
      ELSE IF Failed(found) THEN [acc EXCEPT !.code = 404]
      ELSE IF Conflict(acc.held, link) THEN [acc EXCEPT !.code = 400]
      ELSE IF ~ValidTile(tile) THEN [acc EXCEPT !.code = 404]
      ELSE [code |-> 0, y |-> y, held |-> {link}, tiles |-> Append(acc.tiles, tile)]

TmsPathOk(path) ==
  /\ Len(path) <= 5
  /\ Len(path) >= 1 => path[1].word = "1.0.0"
  /\ \A i \in {3, 4} \cap DOMAIN path : IsNumber(path[i])
  /\ 5 \in DOMAIN path => IsFile(path[5])

(* A path of gmaps has no version; only TMS has pages. The page of a layer *)
(* is that of no layer in particular.                                      *)
TmsParse(cfg, pathinfo, kind) ==
  LET path == IF kind = "gmaps" THEN <<Text("1.0.0")>> \o pathinfo ELSE pathinfo
      layer(acc, l) == TmsLayer(cfg, NumberOf(path[4]), NumberOf(path[3]), kind = "gmaps", acc, l)
  IN  IF ~TmsPathOk(path) THEN Bad(404)
      ELSE IF Len(path) = 5
           THEN AsRequest(Seqs!FoldLeft(layer, Nothing(NumberOf(path[5])), path[2].layers))
      ELSE IF Len(path) < 3 /\ kind = "tms" THEN Good(Page(kind, IF Len(path) = 0 THEN "services" ELSE "tilemaps"))
      ELSE Bad(404)

(* The links of a page: to a service, or to a tile or a picture of a grid  *)
(* of a tileset.                                                           *)
Link(of, to) == [of |-> of, to |-> to]
Links(t) == Seqs!ToSet(t.grid_links)
LayerOf(t, l) == Layer(t.name, l.grid.name)
Everything(l, z) == (0 .. l.grid.levels[z].maxx - 1) \X (0 .. l.grid.levels[z].maxy - 1)

(* _create_capabilities_tms: it shows the grids with their origin at the   *)
(* bottom.                                                                 *)
TmsPath(t, l, z, x, y) ==
  Request(<<Text("tms"), Text("1.0.0"), Layers(<<LayerOf(t, l)>>), Number(z), Number(x), File(y, "png")>>, NoParams)
TmsPage(cfg, about) ==
  IF about = "services" THEN {Link({}, Request(<<Text("tms"), Text("1.0.0")>>, NoParams))}
  ELSE UNION {{Link({l}, Request(<<Text("tms"), Text("1.0.0"), Layers(<<LayerOf(t, l)>>)>>, NoParams)) :
                 l \in {l \in Links(t) : ~TopLeft(l.grid)}} : t \in Tilesets(cfg)}

-----------------------------------------------------------------------------
(* KML: pages about a tileset and about its tiles.                          *)

KmlParse(cfg, path) ==
  LET found == Look(cfg, path[1].layers[1], {})
      link == found.value.link
      tile == Tile(found.value.tileset, link, NumberOf(path[3]), NumberOf(path[4]), NumberOf(path[2]))
  IN  IF Len(path) \notin {1, 4} \/ Failed(found) THEN Bad(404)
      ELSE IF Len(path) = 1 THEN Good(Page("kml", [tileset |-> found.value.tileset, grid_link |-> link]))
      ELSE IF ~IsNumber(path[2]) \/ ~IsNumber(path[3]) \/ path[4].ext # "kml" \/ ~ValidTile(tile) THEN Bad(404)
      ELSE Good(Page("kml", tile))

(* _create_capabilities_kml: the tiles of level 0, whatever the levels of  *)
(* the tileset are; or the picture of a tile, from the TMS, and the four   *)
(* tiles in its place, if the grid has a next level.                       *)
KmlPath(t, l, z, x, y) ==
  Request(<<Text("kml"), Layers(<<LayerOf(t, l)>>), Number(z), Number(x), File(y, "kml")>>, NoParams)
KmlTiles(about, z, columns, rows) ==
  {Link({about.grid_link}, KmlPath(about.tileset, about.grid_link, z, x, y)) : x \in columns, y \in rows}
KmlPicture(about) ==
  Link({about.grid_link}, TmsPath(about.tileset, about.grid_link, about.z, about.x, about.y))


KmlPage(about) ==
  LET limits == about.grid_link.grid_limits[0]
  IN  IF "z" \notin DOMAIN about
      THEN KmlTiles(about, 0, limits.minx .. limits.maxx - 1, limits.miny .. limits.maxy - 1)
      ELSE {KmlPicture(about)}
           \cup IF about.z = about.grid_link.grid.nlevels - 1 THEN {}
                ELSE KmlTiles(about, about.z + 1, 2 * about.x .. 2 * about.x + 1, 2 * about.y .. 2 * about.y + 1)

-----------------------------------------------------------------------------
(* VE: layer and tile are parameters; tile is a quadkey, the sequence of   *)
(* the quarters from the first level to that of the tile.                  *)

QuadkeyX(quadkey) == Seqs!FoldLeft(LAMBDA x, q : 2 * x + (q % 2), 0, quadkey)
QuadkeyY(quadkey) == Seqs!FoldLeft(LAMBDA y, q : 2 * y + (q \div 2), 0, quadkey)

VeParse(cfg, params) ==
  LET layer == Param(params, "layer")
      quadkey == Param(params, "tile")
      name == GetTileset(cfg, layer.name)
      tileset == cfg.tilesets[name]
      link == CHOOSE l \in LinksNamed(tileset, layer.grid) : TRUE
      z == Len(quadkey)
      y == QuadkeyY(quadkey)
      tile == Tile(tileset, link, QuadkeyX(quadkey), IF TopLeft(link.grid) THEN y ELSE FromOtherSide(link, y, z), z)
  IN  IF layer = None THEN Bad(400)
      ELSE IF name \notin DOMAIN cfg.tilesets \/ LinksNamed(tileset, layer.grid) = {} THEN Bad(404)
      ELSE IF quadkey = None THEN Bad(400)
      ELSE IF z < 1 \/ z >= link.grid.nlevels THEN Bad(404)
      ELSE IF ~ValidTile(tile) THEN Bad(404)
      ELSE Good(GetTile(<<tile>>, None))

-----------------------------------------------------------------------------
(* OWG: rows are counted from the top.                                      *)

OwgLayer(cfg, x, z, acc, layer) ==
  LET found == Look(cfg, layer, acc.held)
      link == found.value.link
      owg_y == FromOtherSide(link, acc.y, z)
      tile == Tile(found.value.tileset, link, x, IF TopLeft(link.grid) THEN FromOtherSide(link, owg_y, z) ELSE owg_y, z)
  IN  IF acc.code # 0 THEN acc
      ELSE IF Failed(found) THEN [acc EXCEPT !.code = 404]
      ELSE IF Conflict(acc.held, link) THEN [acc EXCEPT !.code = 400]
      ELSE IF ~ValidTile(tile) THEN [acc EXCEPT !.code = 404]
      ELSE [acc EXCEPT !.held = {link}, !.tiles = Append(@, tile)]

(* layersettings.json is about the last of the layers.                     *)
SettingsLayer(cfg, acc, layer) ==
  LET found == Look(cfg, layer, acc.held)
  IN  IF acc.code # 0 THEN acc
      ELSE IF Failed(found) THEN [acc EXCEPT !.code = 404]
      ELSE IF Conflict(acc.held, found.value.link) THEN [acc EXCEPT !.code = 400]
      ELSE [acc EXCEPT !.held = {found.value.link}, !.tiles = <<found.value.tileset>>]

OwgParse(cfg, path) ==
  IF Len(path) >= 2 /\ path[2].word = "layersettings.json"
  THEN LET layer(acc, l) == SettingsLayer(cfg, acc, l)
           found == Seqs!FoldLeft(layer, Nothing(0), path[1].layers)
       IN  IF found.code # 0 THEN Bad(found.code)
           ELSE Good(Page("owg", [tileset |-> found.tiles[1], grid_link |-> CHOOSE l \in found.held : TRUE]))
  ELSE IF Len(path) # 5 \/ path[2].word # "tiles" \/ ~IsNumber(path[3]) \/ ~IsNumber(path[4]) \/ ~IsFile(path[5])
       THEN Bad(404)
  ELSE LET layer(acc, l) == OwgLayer(cfg, NumberOf(path[4]), NumberOf(path[3]), acc, l)
       IN  AsRequest(Seqs!FoldLeft(layer, Nothing(NumberOf(path[5])), path[1].layers))

-----------------------------------------------------------------------------
(* Demo: a page of links, and one for each service but itself. Core has    *)
(* the pages.                                                              *)

DemoParse(cfg, path) ==
  IF path = << >> THEN Good(Page("demo", "services"))
  ELSE IF path[1].word \in DOMAIN cfg.services THEN Good(Page("demo", path[1].word))
  ELSE Bad(404)
=============================================================================
