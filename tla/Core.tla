--------------------------------- MODULE Core ---------------------------------
(***************************************************************************)
(* What becomes of a parsed request: the dispatch to a service             *)
(* (lib/services.c) and the answers that lib/core.c puts together from     *)
(* tiles and maps. Server says how the tiles are fetched.                  *)
(***************************************************************************)
EXTENDS Sources

(* The services in the order they are tried. The prefix of WMS is empty,   *)
(* so WMS takes what no other service does.                                *)
ServiceOrder == <<"tms", "wmts", "demo", "gmaps", "kml", "ve", "owg", "wms">>
Takes(kind, path) == kind = "wms" \/ (path # << >> /\ path[1].word = kind)

ParseRequest(kind, cfg, path, params) ==
  CASE kind \in {"tms", "gmaps"} -> TmsParse(cfg, path, kind)
    [] kind = "wmts" -> WmtsParse(cfg, path, params)
    [] kind = "demo" -> DemoParse(cfg, path)
    [] kind = "kml" -> KmlParse(cfg, path)
    [] kind = "ve" -> VeParse(cfg, params)
    [] kind = "owg" -> OwgParse(cfg, path)
    [] kind = "wms" -> WmsParse(cfg, path, params)

(* mapcache_service_dispatch_request: the service and what it makes of the *)
(* request. A request that says nothing makes WMS forget that it is the    *)
(* service. Only WMTS, and only for parameters, notes an exception besides *)
(* the error.                                                              *)
Dispatch(cfg, r) ==
  LET fit == {n \in DOMAIN ServiceOrder : /\ ServiceOrder[n] \in DOMAIN cfg.services
                                          /\ Takes(ServiceOrder[n], r.path)}
      kind == ServiceOrder[First(fit)]
      parsed == ParseRequest(kind, cfg, IF kind = "wms" THEN r.path ELSE Tail(r.path), r.params)
  IN  IF r.path = None \/ fit = {} THEN [service |-> None, parsed |-> Bad(404), exception |-> FALSE]
      ELSE [service |-> IF kind = "wms" /\ {"SERVICE", "REQUEST"} \cap DOMAIN r.params = {} THEN "forgotten" ELSE kind,
            parsed |-> parsed,
            exception |-> kind = "wmts" /\ Failed(parsed) /\ "SERVICE" \in DOMAIN r.params]

(* The pages of demo. That of a service shows each tileset and grid in a   *)
(* viewer, which names their tiles at the levels of the tileset; here the  *)
(* page has these tiles for links. The viewer of gmaps, which asks TMS,    *)
(* gets one level more, and that of VE has no quarter for level 0.         *)
Shown(cfg, tiles(_, _), srs) ==
  UNION {UNION {tiles(t, l) : l \in {l \in Links(t) : l.grid.srs \in srs}} : t \in Tilesets(cfg)}
EverySrs(cfg) == {cfg.grids[g].srs : g \in DOMAIN cfg.grids}
OfLevels(l, last, link(_, _, _)) ==
  UNION {{link(z, at[1], at[2]) : at \in Everything(l, z)} : z \in (l.minz .. last) \cap DOMAIN l.grid.levels}
Quadkey(z, x, y) == [n \in 1 .. z |-> ((x \div 2 ^ (z - n)) % 2) + 2 * ((y \div 2 ^ (z - n)) % 2)]
DemoTms(t, l, last) == OfLevels(l, last, LAMBDA z, x, y : Link({l}, TmsPath(t, l, z, x, y)))
DemoWmts(t, l) ==
  LET params(z, x, y) == ("SERVICE" :> "wmts") @@ ("REQUEST" :> "gettile") @@ ("LAYER" :> t.name)
                         @@ ("TILEMATRIXSET" :> l.grid.name) @@ ("TILEMATRIX" :> z) @@ ("TILEROW" :> y) @@ ("TILECOL" :> x)
  IN  OfLevels(l, l.maxz - 1, LAMBDA z, x, y : Link({l}, Request(<<Text("wmts")>>, params(z, x, y))))
DemoVe(t, l) ==
  LET params(z, x, y) == ("layer" :> LayerOf(t, l)) @@ ("tile" :> Quadkey(z, x, y))
  IN  OfLevels(l, l.maxz - 1, LAMBDA z, x, y : Link({l}, Request(<<Text("ve")>>, params(z, x, y))))
DemoWms(cfg, t, l) ==
  TilePictures(t, l) \cup IF cfg.services["wms"].getmap_strategy = "assemble"
                          THEN {Link({l}, PicturePath(t, l.grid, l.grid.extent, 4, 4))} ELSE {}
DemoKml(t, l) == {Link({l}, Request(<<Text("kml"), Layers(<<LayerOf(t, l)>>)>>, NoParams))}

DemoPage(cfg, about) ==
  CASE about = "services" ->
         {Link({}, Request(<<Text("demo"), Text(kind)>>, NoParams)) : kind \in DOMAIN cfg.services \ {"demo"}}
    [] about = "tms" -> Shown(cfg, LAMBDA t, l : DemoTms(t, l, l.maxz - 1), EverySrs(cfg))
    [] about = "gmaps" -> Shown(cfg, LAMBDA t, l : DemoTms(t, l, l.maxz), {"EPSG:3857"})
    [] about = "wmts" -> Shown(cfg, DemoWmts, EverySrs(cfg))
    [] about = "ve" -> Shown(cfg, DemoVe, {"EPSG:3857"})
    [] about = "kml" -> Shown(cfg, DemoKml, {"EPSG:4326"})
    [] about = "wms" -> Shown(cfg, LAMBDA t, l : DemoWms(cfg, t, l), EverySrs(cfg))
    [] about = "owg" -> {}

(* service->create_capabilities_response. gmaps has no pages; that of owg  *)
(* has no links.                                                           *)
PageOf(cfg, page) ==
  CASE page.service = "tms" -> Good(TmsPage(cfg, page.about))
    [] page.service = "gmaps" -> Bad(404)
    [] page.service = "wmts" -> Good(WmtsPage(cfg))
    [] page.service = "kml" -> Good(KmlPage(page.about))
    [] page.service = "owg" -> Good({})
    [] page.service = "demo" -> IF page.about = "demo" THEN Bad(400) ELSE Good(DemoPage(cfg, page.about))
    [] page.service = "wms" -> Good(WmsPage(cfg))

-----------------------------------------------------------------------------
(* The tiles to fetch, those of a map column by column.                     *)

(* The members of a finite set in an order.                                *)
InOrder(S, before(_, _)) ==
  Tabled([n \in 1 .. Cardinality(S) |-> CHOOSE s \in S : Cardinality({t \in S : before(t, s)}) = n - 1])

ColumnFirst(s, t) == s.x < t.x \/ (s.x = t.x /\ s.y < t.y)
TilesOfMap(map) ==
  LET places == InOrder(GetMapTiles(map.grid_link, map.extent, map.w, map.h), ColumnFirst)
  IN  [n \in DOMAIN places |->
         [Tile(map.tileset, map.grid_link, places[n].x, places[n].y, places[n].z)
            EXCEPT !.dimensions = map.dimensions]]
MapTiles(maps) == [n \in DOMAIN maps |-> TilesOfMap(maps[n])]
TilesToFetch(parsed) ==
  CASE parsed.type = "GET_TILE" -> parsed.tiles
    [] parsed.type = "GET_MAP" /\ parsed.strategy = "assemble" -> Seqs!FlattenSeq(MapTiles(parsed.maps))
    [] OTHER -> << >>

SameBlock(s, t) ==
  /\ s.tileset = t.tileset
  /\ s.x \div s.tileset.metasize.x = t.x \div t.tileset.metasize.x
  /\ s.y \div s.tileset.metasize.y = t.y \div t.tileset.metasize.y

(* Mutant: a column of tiles has one thread.                               *)
LaunchedPerColumn(tiles) ==
  {n \in DOMAIN tiles : \A m \in 1 .. n - 1 : ~ /\ tiles[m].tileset = tiles[n].tileset
                                                /\ tiles[m].x = tiles[n].x}

(* mapcache_prefetch_tiles launches a thread for the first tile of each    *)
(* metatile.                                                               *)
Launched(tiles) == {n \in DOMAIN tiles : \A m \in 1 .. n - 1 : ~SameBlock(tiles[m], tiles[n])}
Threaded(cfg, tiles) == cfg.threaded_fetching /\ Len(tiles) # 1

-----------------------------------------------------------------------------
(* What is there of a tile after it has been fetched.                       *)
NoData == Encoded("NULL", Filled(0, 0, Clear))
Fetched(data, how) == [code |-> 0, nodata |-> how = "no source", data |-> data, how |-> how]
FetchFailed(code) == [code |-> code, nodata |-> FALSE, data |-> NoData, how |-> "failed"]

Expires(t) == IF t.auto_expire # 0 THEN t.auto_expire ELSE t.expires

(* The answer as it goes to the front end. expires 0: no such header.      *)
Answer(data, mime, expires) == [data |-> data, mime |-> mime, expires |-> expires]
SniffedMime(data) ==
  CASE HeaderSniff(data) = "PNG" -> "image/png" [] HeaderSniff(data) = "JPEG" -> "image/jpeg" [] OTHER -> None
ContentType(format, data) ==
  IF format # None /\ format.mime_type # "none" THEN format.mime_type ELSE SniffedMime(data)

(* The images one over the other, the first at the bottom; decoded one     *)
(* after the other.                                                        *)
MergeNext(below, decoded) ==
  IF Failed(below) THEN below ELSE IF Failed(decoded) THEN decoded ELSE Merge(below.value, decoded.value)
MergeAll(images) == Seqs!FoldLeft(MergeNext, Head(images), Tail(images))

(* Mutant: a tile that is sent as it is has the type of the request.       *)
GetTileAsAsked(cfg, parsed, got) ==
  LET with == {n \in DOMAIN got : ~got[n].nodata}
      first == Lowest(with)
      format == IF parsed.format # None THEN parsed.format ELSE parsed.tiles[first].tileset.format
  IN  IF with = {} THEN Bad(404)
      ELSE Good(Answer(got[first].data, ContentType(format, got[first].data), Expires(parsed.tiles[first].tileset)))

(* Mutant: the answer expires when its first tile does.                    *)
ExpiresWithFirst(tilesets, with) == Expires(tilesets[Lowest(with)])

ExpiresWithAny(tilesets, with) == Lowest({Expires(tilesets[n]) : n \in with})

(* mapcache_core_get_tile, when the tiles are there                        *)
GetTileAnswer(cfg, parsed, got) ==
  LET with == {n \in DOMAIN got : ~got[n].nodata}
      first == Lowest(with)
      own == parsed.tiles[first].tileset.format
      format == IF Cardinality(with) = 1 THEN own
                ELSE IF parsed.format # None THEN parsed.format
                ELSE IF own # None THEN own ELSE cfg.default_format
      order == InOrder(with, <)
      merged == MergeAll([n \in DOMAIN order |-> Decode(got[order[n]].data)])
      data == IF Cardinality(with) = 1 THEN Good(got[first].data)
              ELSE IF Failed(merged) THEN Bad(500) ELSE Write(format, merged.value)
  IN  IF with = {} THEN Bad(404)
      ELSE IF Failed(data) THEN data
      ELSE Good(Answer(data.value, ContentType(format, data.value),
                       ExpiresWithAny([n \in DOMAIN parsed.tiles |-> parsed.tiles[n].tileset], with)))

(* A map and then another one over it: 0 is taken for not yet known.       *)
SoonerOf(expires, other) == IF expires = 0 \/ other < expires THEN other ELSE expires

(* mapcache_fetch_maps, when the tiles are there: for each map, or none    *)
Before(maptiles, n) == Seqs!FoldLeft(LAMBDA sum, k : sum + Len(maptiles[k]), 0, [k \in 1 .. n - 1 |-> k])
OutcomesOf(tiles, got, before) ==
  {[x |-> tiles[n].x, y |-> tiles[n].y, z |-> tiles[n].z, nodata |-> got[before + n].nodata,
    data |-> got[before + n].data] : n \in DOMAIN tiles}
AssembledMap(map, outcomes, resample) ==
  IF \A t \in outcomes : t.nodata THEN {}
  ELSE {Assemble(map.grid_link.grid, map.extent, map.w, map.h, outcomes, resample)}
FetchedMaps(parsed, maptiles, got) ==
  [n \in DOMAIN maptiles |->
     AssembledMap(parsed.maps[n], OutcomesOf(maptiles[n], got, Before(maptiles, n)), parsed.resample)]

(* mapcache_core_get_map, when the maps are there                          *)
MapAnswer(parsed, image, expires) ==
  LET data == Write(parsed.format, image)
  IN  IF Failed(data) THEN data ELSE Good(Answer(data.value, ContentType(parsed.format, data.value), expires))

SoonestOf(parsed, with) ==
  Seqs!FoldLeft(LAMBDA e, n : SoonerOf(e, Expires(parsed.maps[n].tileset)), 0, with)
MapsAnswer(parsed, maps, with) ==
  LET expires == SoonestOf(parsed, with)
      answer(merged) == IF Failed(merged) THEN Bad(500) ELSE MapAnswer(parsed, merged.value, expires)
  IN  IF \E n \in DOMAIN maps : \E m \in maps[n] : Failed(m) THEN Bad(500)
      ELSE IF with = << >> THEN Bad(404)
      ELSE answer(MergeAll([n \in DOMAIN with |-> TheOne(maps[with[n]])]))
WithData(maps) == InOrder({n \in DOMAIN maps : maps[n] # {}}, <)
MergedAnswer(parsed, maps) == MapsAnswer(parsed, maps, WithData(maps))
AssembleAnswer(parsed, got) == MergedAnswer(parsed, Tabled(FetchedMaps(parsed, MapTiles(parsed.maps), got)))

(* ... and when it is the sources that draw the maps: one that has been    *)
(* received goes on as it is.                                              *)
ForwardAnswer(cfg, parsed, answers) ==
  LET drawn == [n \in DOMAIN parsed.maps |-> RenderMap(cfg, parsed.maps[n], answers[n])]
      image(d) == IF Failed(d) THEN d
                  ELSE IF d.value.raw_image # {} THEN Good(TheOne(d.value.raw_image))
                  ELSE Decode(TheOne(d.value.encoded_data))
      merged == MergeAll([n \in DOMAIN drawn |-> image(drawn[n])])
  IN  IF \E n \in DOMAIN parsed.maps : parsed.maps[n].tileset.source = None THEN Bad(404)
      ELSE IF Len(drawn) = 1 /\ ~Failed(drawn[1]) /\ drawn[1].value.raw_image = {}
           THEN LET data == TheOne(drawn[1].value.encoded_data)
                IN  Good(Answer(data, SniffedMime(data), 0))
      ELSE IF Failed(merged) THEN merged
      ELSE MapAnswer(parsed, merged.value, 0)

(* mapcache_core_get_featureinfo. A source is there, or the formats would  *)
(* not be.                                                                 *)
FeatureInfoAnswer(cfg, fi, answer) ==
  LET info == QueryInfo(cfg, fi, answer)
  IN  IF ~Seqs!Contains(InfoFormats(cfg, fi.tileset), fi.format) THEN Bad(404)
      ELSE IF Failed(info) THEN info
      ELSE Good(Answer(info.value, fi.format, 0))

(* mapcache_core_proxy_request: what the other server says is passed on;   *)
(* the code it says it with, too, which is left out here.                  *)
ProxyAnswer(parsed, answer) ==
  LET said == DoRequest(answer, Filled(1, 1, Pixel({Piece(parsed.http.url, parsed.pathinfo)}, "full")))
  IN  IF Failed(said) THEN said ELSE Good(Answer(said.value, SniffedMime(said.value), 0))

(* mapcache_core_respond_to_error: the body is the message in the form of  *)
(* service, nothing, or the empty image.                                   *)
ErrorMime(kind) == IF kind = "wms" THEN "application/vnd.ogc.se_xml" ELSE "text/plain"
ErrorAnswer(reporting, default_format, empty_image, kind) ==
  CASE reporting = "report" -> Answer(Encoded("text", Filled(0, 0, Clear)), ErrorMime(kind), 0)
    [] reporting = "empty_img" -> Answer(empty_image, default_format.mime_type, 0)
    [] reporting = "log" -> Answer(NoData, None, 0)
=============================================================================
