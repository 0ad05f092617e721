---------------------------------- MODULE Wms ---------------------------------
(***************************************************************************)
(* The WMS service, lib/service_wms.c: pictures of any rectangle and size. *)
(* One that is a tile of the first layer's grid is fetched as a tile, the  *)
(* others are put together from tiles or handed on to the sources. What    *)
(* cannot be answered here may be forwarded to another server.             *)
(***************************************************************************)
EXTENDS Wmts

(* struct mapcache_map, mapcache_request_get_map and _proxy                *)
Map(tileset, link, dimensions, e, w, h) ==
  [tileset |-> tileset, grid_link |-> link, dimensions |-> dimensions, extent |-> e, w |-> w, h |-> h]
GetMap(maps, wms) ==
  [type |-> "GET_MAP", maps |-> maps, strategy |-> wms.getmap_strategy,
   resample |-> wms.resample_mode, format |-> wms.getmap_format]
Proxy(rule, params, path) ==
  [type |-> "PROXY", http |-> rule.http, params |-> params,
   pathinfo |-> IF rule.append_pathinfo = "true" THEN path ELSE << >>]

(* mapcache_is_axis_inverted, of those in use here.                        *)
InvertedAxes == {"EPSG:4326"}
Swapped(e) == Extent(e.miny, e.minx, e.maxy, e.maxx)

(* What every picture has to say; then its reference system and rectangle. *)
Is130(params) == params["REQUEST"] = "getmap" /\ Param(params, "VERSION") = "1.3.0"
SrsOf(params) == Param(params, IF Is130(params) THEN "CRS" ELSE "SRS")
Rectangle(params) ==
  IF Is130(params) /\ SrsOf(params) \in InvertedAxes THEN Swapped(params["BBOX"]) ELSE params["BBOX"]
PictureAsked(wms, params) ==
  LET side(p) == Readable(Param(params, p)) /\ params[p] > 0 /\ params[p] <= wms.maxsize
  IN  Readable(Param(params, "BBOX")) /\ side("WIDTH") /\ side("HEIGHT") /\ SrsOf(params) # None

(* The tileset of a layer; a mirror has one, which takes the layer's name. *)
LayerNamed(cfg, name) ==
  IF GetTileset(cfg, name) \notin DOMAIN cfg.tilesets THEN {}
  ELSE IF cfg.mode = "normal" THEN {cfg.tilesets[name]}
  ELSE {[cfg.tilesets["mirror"] EXCEPT !.name = name, !.elevation = FALSE]}
TheOne(S) == CHOOSE x \in S : TRUE

FirstOf(tileset, Suits(_)) ==
  LET fit == {n \in DOMAIN tileset.grid_links : Suits(tileset.grid_links[n].grid)}
  IN  IF fit = {} THEN {} ELSE {tileset.grid_links[CHOOSE n \in fit : \A m \in fit : n <= m]}
LinkForSrs(tileset, srs) == FirstOf(tileset, LAMBDA g : g.srs = srs \/ srs \in g.srs_aliases)

(* The dimensions: those that are given are validated, {} if one is not.   *)
Chosen(tileset, params) ==
  LET given(n) == Param(params, tileset.dimensions[n].name)
      value(n) == IF given(n) = None THEN {tileset.dimensions[n].default_value}
                  ELSE Validated(tileset.dimensions[n], given(n))
  IN  IF tileset.dimensions = << >> THEN {None}
      ELSE IF \E n \in DOMAIN tileset.dimensions : value(n) = {} THEN {}
      ELSE {[n \in DOMAIN tileset.dimensions |-> TheOne(value(n))]}

(* One more layer, with the grid of the first. cell: the tile it is, or    *)
(* none; a tile the tileset does not have is left out.                     *)
MapLayer(cfg, params, main, cell, acc, name) ==
  LET tilesets == LayerNamed(cfg, name)
      tileset == TheOne(tilesets)
      links == IF acc.count = 0 THEN {main} ELSE FirstOf(tileset, LAMBDA g : g.name = main.grid.name)
      dims == Chosen(tileset, params)
      link == TheOne(links)
      c == TheOne(cell)
      tile == [Tile(tileset, link, c.x, c.y, c.z) EXCEPT !.dimensions = TheOne(dims)]
  IN  IF acc.code # 0 THEN acc
      ELSE IF tilesets = {} THEN [acc EXCEPT !.code = 404]
      ELSE IF links = {} THEN [acc EXCEPT !.code = 400]
      ELSE IF cell # {} /\ ~Valid(link, c.x, c.y, c.z)
           THEN [acc EXCEPT !.count = @ + 1, !.code = IF dims = {} THEN 400 ELSE 0]
      ELSE IF dims = {} THEN [acc EXCEPT !.code = 400]
      ELSE [acc EXCEPT !.count = @ + 1,
              !.found = Append(@, IF cell # {} THEN tile
                                  ELSE Map(tileset, link, TheOne(dims), Rectangle(params),
                                           params["WIDTH"], params["HEIGHT"]))]

(* In the combined mirror the list of layers is one name.                  *)
LayerList(cfg, layers) ==
  IF cfg.mode # "combined_mirror" THEN layers
  ELSE <<Seqs!FoldLeft(LAMBDA name, l : name \o "," \o l, Head(layers), Tail(layers))>>

GetMapParse(cfg, wms, params) ==
  LET layers == LayerList(cfg, params["LAYERS"])
      first == LayerNamed(cfg, layers[1])
      links == LinkForSrs(TheOne(first), SrsOf(params))
      main == TheOne(links)
      fits == main.grid.tile_sx = params["WIDTH"] /\ main.grid.tile_sy = params["HEIGHT"]
      cell == IF fits THEN GetCell(main.grid, Rectangle(params)) ELSE {}
      layer(acc, name) == MapLayer(cfg, params, main, cell, acc, name)
      all == Seqs!FoldLeft(layer, [code |-> 0, count |-> 0, found |-> << >>], layers)
  IN  IF Param(params, "LAYERS") = None THEN Bad(400)
      ELSE IF first = {} THEN Bad(404)
      ELSE IF links = {} THEN Bad(400)
      ELSE IF all.code # 0 THEN Bad(all.code)
      ELSE IF cell = {} THEN Good(GetMap(all.found, wms))
      ELSE IF all.found = << >> THEN Bad(404)
      ELSE Good(GetTile(all.found, wms.getmap_format))

(* Here an alias of the reference system is not enough, and the first      *)
(* column and row cannot be asked about.                                   *)
FeatureInfoParse(cfg, params) ==
  LET layers == Param(params, "QUERY_LAYERS")
      name == GetTileset(cfg, layers[1])
      tileset == cfg.tilesets[name]
      links == FirstOf(tileset, LAMBDA g : g.srs = SrsOf(params))
      inside(p, n) == Readable(Param(params, p)) /\ params[p] > 0 /\ params[p] < n
      w == params["WIDTH"]
      h == params["HEIGHT"]
      dims == Chosen(tileset, params)
  IN  IF layers = None THEN Bad(400)
      ELSE IF Len(layers) > 1 THEN Bad(501)
      ELSE IF name \notin DOMAIN cfg.tilesets THEN Bad(404)
      ELSE IF InfoFormats(cfg, tileset) = << >> THEN Bad(404)
      ELSE IF links = {} \/ ~inside("X", w) \/ ~inside("Y", h) THEN Bad(400)
      ELSE IF Param(params, "INFO_FORMAT") = None \/ dims = {} THEN Bad(400)
      ELSE Good(FeatureInfo(tileset, TheOne(links), TheOne(dims), Rectangle(params), w, h,
                            params["X"], params["Y"], params["INFO_FORMAT"]))

(* What mapcache itself can do about the request.                          *)
OwnAnswer(cfg, wms, params) ==
  LET operation == Param(params, "REQUEST")
  IN  IF Param(params, "SERVICE") \notin {None, "wms"} \/ operation = None THEN Bad(400)
      ELSE IF operation = "getcapabilities" THEN Good(Page("wms", "contents"))
      ELSE IF operation \notin {"getmap", "getfeatureinfo"} THEN Bad(501)
      ELSE IF ~PictureAsked(wms, params) THEN Bad(400)
      ELSE IF operation = "getmap" THEN GetMapParse(cfg, wms, params)
      ELSE FeatureInfoParse(cfg, params)

(* ... without asking the forwarding rules first, as a page about the      *)
(* service does, too.                                                      *)
AnsweredHere(wms, own) ==
  /\ ~Failed(own)
  /\ \/ own.value.type = "GET_FEATUREINFO"
     \/ own.value.type = "GET_TILE" /\ Len(own.value.tiles) = 1
     \/ own.value.type \in {"GET_TILE", "GET_MAP"} /\ wms.getmap_strategy = "assemble"

RuleApplies(rule, params) ==
  \A n \in DOMAIN rule.params :
    LET v == Param(params, rule.params[n].name) IN v # None /\ v \in rule.params[n].words
WmsParse(cfg, path, params) ==
  LET wms == cfg.services["wms"]
      own == OwnAnswer(cfg, wms, params)
      apply == {n \in DOMAIN wms.forwarding_rules : RuleApplies(wms.forwarding_rules[n], params)}
  IN  IF AnsweredHere(wms, own) \/ apply = {} THEN own
      ELSE Good(Proxy(wms.forwarding_rules[CHOOSE n \in apply : \A m \in apply : n <= m], params, path))

-----------------------------------------------------------------------------
(* _create_capabilities_wms: the tiles of the first grid of every tileset, *)
(* at the levels it has there, counted from the corner of the grid's       *)
(* extent, and the picture of the whole extent of every grid.              *)
PicturePath(tileset, g, e, w, h) ==
  Request(<< >>, ("SERVICE" :> "wms") @@ ("REQUEST" :> "getmap") @@ ("LAYERS" :> <<tileset.name>>)
                 @@ ("SRS" :> g.srs) @@ ("BBOX" :> e) @@ ("WIDTH" :> w) @@ ("HEIGHT" :> h))
TilePicture(t, l, x, y, z) ==
  LET e == GetExtent([l.grid EXCEPT !.origin = "bottom-left"], x, y, z)
  IN  Link({l}, PicturePath(t, l.grid, e, l.grid.tile_sx, l.grid.tile_sy))
TilePictures(t, l) ==
  UNION {{TilePicture(t, l, at[1], at[2], z) : at \in Everything(l, z)} : z \in l.minz .. l.maxz - 1}
WmsPage(cfg) ==
  UNION {TilePictures(t, t.grid_links[1]) : t \in Tilesets(cfg)}
  \cup UNION {{Link({l}, PicturePath(t, l.grid, l.restricted_extent, 4, 4)) : l \in Links(t)} : t \in Tilesets(cfg)}
=============================================================================
