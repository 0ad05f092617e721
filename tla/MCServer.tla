------------------------------- MODULE MCServer -------------------------------
(* Documents of every kind of source, cache, format and service, and a      *)
(* request for everything that can be asked of them.                        *)
EXTENDS Server

-----------------------------------------------------------------------------
(* Elements with their attributes left out.                                 *)
ASource(type, name) ==
  [type |-> type, name |-> name, layers |-> name, url |-> "http", connection_timeout |-> None, flipy |-> None,
   info_formats |-> None, query_layers |-> None, mapfile |-> "file.map"]
AGrid(name, srs, origin, side, resolutions) ==
  [name |-> name, srs |-> srs, aliases |-> {}, units |-> "m", origin |-> origin, extent |-> Extent(0, 0, side, side),
   size |-> [x |-> 2, y |-> 2], elevationblock |-> None, resolutions |-> resolutions]
AFormat(type, name) ==
  [type |-> type, name |-> name, compression |-> None, colors |-> None, quality |-> None, photometric |-> None,
   transparent |-> "PNG", opaque |-> "JPEG"]
ACache(type, name) ==
  [type |-> type, name |-> name, base |-> name, layout |-> None, template |-> None, creation_retry |-> None,
   maxzoom |-> None, hitstats |-> None, pragmas |-> None, servers |-> {"server"}, format |-> None,
   xcount |-> 2, ycount |-> 3, secret |-> "keys"]
ALink(grid) == [grid |-> grid, restricted_extent |-> None, tolerance |-> None, minzoom |-> None, maxzoom |-> None]
ATileset(name, source, cache, format, grids) ==
  [name |-> name, elevation |-> FALSE, grids |-> grids, dimensions |-> None, cache |-> cache, source |-> source,
   metatile |-> None, metabuffer |-> None, watermark |-> None, expires |-> None, auto_expire |-> None, format |-> format]
AService(type) ==
  [type |-> type, enabled |-> "true", rules |-> << >>, full_wms |-> None, format |-> None, resample_mode |-> None,
   maxsize |-> None]
ADocument ==
  [mode |-> None, source |-> << >>, grid |-> << >>, format |-> << >>, cache |-> << >>, tileset |-> << >>,
   service |-> << >>, services |-> None, default_format |-> None, errors |-> None, lock_retry |-> None,
   threaded_fetching |-> None, log_level |-> None, auto_reload |-> None]

Summer == Word("summer", "plain")
Winter == Word("winter", "plain")
Season == [type |-> "values", name |-> "TIME", default |-> Summer, words |-> {Summer, Winter}, intervals |-> None,
           case_sensitive |-> None]
Depth == [type |-> "intervals", name |-> "ELEVATION", default |-> Numeral(0, "plain"), words |-> None,
          intervals |-> {[start |-> 0, end |-> 10, resolution |-> 5]}, case_sensitive |-> None]

Below == AGrid("below", "EPSG:3857", None, 4, <<2, 1>>)
Above == AGrid("above", "EPSG:4326", "top-left", 4, <<2, 1>>)
Both == <<ALink("below"), ALink("above")>>
Basic == [ASource("wms", "basic") EXCEPT !.info_formats = <<"text/plain">>, !.query_layers = "basic"]

(* Metatiles of two tiles with a border, two grids, dimensions, threads.    *)
Plain ==
  [ADocument EXCEPT
     !.source = <<Basic>>, !.grid = <<Below, Above>>, !.cache = <<ACache("disk", "disk")>>,
     !.tileset = <<[ATileset("t", "basic", "disk", "PNG", Both) EXCEPT
                      !.metatile = [x |-> 2, y |-> 1], !.metabuffer = 1, !.expires = 1000],
                   [ATileset("d", "basic", "disk", "PNG", <<ALink("below")>>) EXCEPT
                      !.dimensions = <<Season, Depth>>],
                   ATileset("kept", None, "disk", "PNG", <<ALink("below")>>)>>,
     !.service = <<AService("wms"), AService("tms"), AService("wmts"), AService("kml"), AService("gmaps"),
                   AService("ve"), AService("owg"), AService("demo")>>,
     !.threaded_fetching = "true", !.auto_reload = "true"]

Wide == AGrid("wide", "EPSG:3857", None, 16, <<8, 4>>)
Heights == [AGrid("heights", "EPSG:3857", None, 16, <<8, 4>>) EXCEPT !.elevationblock = 2]
Rule == [http |-> [url |-> "other", connection_timeout |-> None], append_pathinfo |-> "true",
         params |-> <<[name |-> "REQUEST", type |-> "values", words |-> {"getlegendgraphic"}]>>]

(* Tiles of another tile server, in files of many; maps drawn by sources.   *)
Mixed ==
  [ADocument EXCEPT
     !.source = <<[ASource("tms", "tiles") EXCEPT !.flipy = "false"], Basic, ASource("mapserver", "file"),
                  ASource("dummy", "white")>>,
     !.grid = <<Wide, Heights>>, !.format = <<AFormat("MIXED", "mixed"), AFormat("RAW", "raw")>>,
     !.cache = <<ACache("sqlite3", "sqlite"),
                 [ACache("tiff", "tiff") EXCEPT !.template = <<"tileset", "grid", "z", "div_x", "div_y">>]>>,
     !.tileset = <<ATileset("tiff", "tiles", "tiff", "JPEG", <<ALink("wide")>>),
                   [ATileset("high", "tiles", "sqlite", "raw", <<ALink("heights")>>) EXCEPT !.elevation = TRUE],
                   ATileset("w", "basic", "sqlite", None, <<ALink("wide")>>),
                   [ATileset("m", "file", "sqlite", "mixed", <<ALink("wide")>>) EXCEPT
                      !.metatile = [x |-> 2, y |-> 2], !.watermark = Clear],
                   ATileset("b", "white", "sqlite", "PNG", <<ALink("wide")>>)>>,
     !.service = <<AService("tms"),
                   [AService("wms") EXCEPT !.full_wms = "forward", !.rules = <<Rule>>, !.format = "PNG"]>>,
     !.errors = "empty_img"]

(* Any layer of another server.                                             *)
Mirror ==
  [ADocument EXCEPT
     !.mode = "combined_mirror", !.source = <<[ASource("wms", "any") EXCEPT !.layers = None]>>, !.grid = <<Below>>,
     !.cache = <<ACache("memcache", "memcache")>>,
     !.tileset = <<ATileset(None, "any", "memcache", "JPEG", <<ALink("below")>>)>>,
     !.service = <<[AService("wms") EXCEPT !.resample_mode = "nearest"]>>, !.auto_reload = "true", !.errors = "log"]

(* Services listed by their tags, WMS by that of demo: maps without a       *)
(* format.                                                                  *)
Tags == [Plain EXCEPT !.service = << >>, !.services = {"tms", "wmts", "kml", "demo"}]

(* Grids of which levels and places are left out; neither WMS nor TMS.      *)
Cut == <<[ALink("below") EXCEPT !.minzoom = 1],
         [ALink("above") EXCEPT !.restricted_extent = Extent(0, 0, 2, 4), !.tolerance = 0]>>
Few ==
  [Plain EXCEPT !.cache = <<ACache("disk", "cut")>>, !.tileset = <<[@[1] EXCEPT !.grids = Cut, !.cache = "cut"]>>,
     !.service = <<AService("wmts"), AService("kml"), AService("demo"), AService("gmaps"), AService("ve")>>]
Broken == [Plain EXCEPT !.tileset = <<ATileset("t", "basic", "nowhere", "PNG", Both)>>]

MCDocuments == ("plain" :> Plain) @@ ("mixed" :> Mixed) @@ ("mirror" :> Mirror) @@ ("tags" :> Tags) @@ ("few" :> Few)
               @@ ("broken" :> Broken)
MCFirstFiles == DOMAIN MCDocuments

-----------------------------------------------------------------------------
TileFile(kind, layer, z, x, y) ==
  Request(<<Text(kind), Text("1.0.0"), Layers(<<layer>>), Number(z), Number(x), File(y, "png")>>, NoParams)
Picture(layers, bbox, w, h) ==
  ("SERVICE" :> "wms") @@ ("REQUEST" :> "getmap") @@ ("LAYERS" :> layers) @@ ("SRS" :> "EPSG:3857") @@ ("BBOX" :> bbox)
  @@ ("WIDTH" :> w) @@ ("HEIGHT" :> h)
AsMap(layers, bbox, w, h) == Request(<< >>, Picture(layers, bbox, w, h))
Kvp(operation, layer, set, matrix, row, col) ==
  ("SERVICE" :> "wmts") @@ ("REQUEST" :> operation) @@ ("LAYER" :> layer) @@ ("TILEMATRIXSET" :> set)
  @@ ("TILEMATRIX" :> matrix) @@ ("TILEROW" :> row) @@ ("TILECOL" :> col)
T == Layer("t", None)
OfDemo(kind) == Request(<<Text("demo"), Text(kind)>>, NoParams)

MCRequests ==
     ("nothing" :> Request(None, NoParams))
  @@ ("tms" :> TileFile("tms", T, 1, 1, 0))
  @@ ("tms above" :> TileFile("tms", Layer("t", "above"), 1, 1, 0))
  @@ ("gmaps" :> Request(<<Text("gmaps"), Layers(<<T>>), Number(1), Number(1), File(0, "png")>>, NoParams))
  @@ ("gmaps page" :> Request(<<Text("gmaps")>>, NoParams))
  @@ ("owg" :> Request(<<Text("owg"), Layers(<<T>>), Text("tiles"), Number(1), Number(1), File(0, "png")>>, NoParams))
  @@ ("ve" :> Request(<<Text("ve")>>, ("layer" :> Layer("t", "below")) @@ ("tile" :> <<1>>)))
  @@ ("wmts" :> Request(<<Text("wmts"), Text("1.0.0"), Text("t"), Text("default"), Text("above"), Number(1), Number(0),
                          File(1, "png")>>, NoParams))
  @@ ("wmts kvp" :> Request(<<Text("wmts")>>, Kvp("gettile", "t", "below", 1, 0, 1)))
  @@ ("wmts bad" :> Request(<<Text("wmts")>>, Kvp("gettile", "t", "below", 7, 0, 1)))
  @@ ("wmts info" :> Request(<<Text("wmts")>>, ("INFOFORMAT" :> "text/plain") @@ ("I" :> 1) @@ ("J" :> 0)
                                               @@ Kvp("getfeatureinfo", "t", "below", 1, 0, 1)))
  @@ ("winter" :> Request(<<Text("wmts"), Text("1.0.0"), Text("d"), Text("default"), Value(Word("winter", "capitals")),
                            Value(Numeral(5, "padded")), Text("below"), Number(1), Number(1), File(0, "png")>>, NoParams))
  @@ ("summer" :> AsMap(<<"d">>, Extent(0, 0, 2, 2), 2, 2))
  @@ ("kept" :> AsMap(<<"kept">>, Extent(0, 0, 2, 2), 2, 2))
  @@ ("tile" :> AsMap(<<"t">>, Extent(2, 0, 4, 2), 2, 2))
  @@ ("two tiles" :> AsMap(<<"t", "d">>, Extent(2, 0, 4, 2), 2, 2))
  @@ ("map" :> AsMap(<<"t">>, Extent(1, 0, 3, 4), 2, 4))
  @@ ("coarse" :> AsMap(<<"t">>, Extent(-2, 0, 4, 6), 3, 3))
  @@ ("swapped" :> Request(<< >>, ("VERSION" :> "1.3.0") @@ ("CRS" :> "EPSG:4326")
                                  @@ Picture(<<"t">>, Extent(2, 0, 4, 2), 2, 2)))
  @@ ("two maps" :> AsMap(<<"kept", "t", "d">>, Extent(0, 0, 4, 4), 2, 4))
  @@ ("info" :> Request(<< >>, ("REQUEST" :> "getfeatureinfo") @@ ("QUERY_LAYERS" :> <<"t">>) @@ ("X" :> 1) @@ ("Y" :> 1)
                               @@ ("INFO_FORMAT" :> "text/plain") @@ Picture(<<"t">>, Extent(0, 0, 4, 4), 4, 4)))
  @@ ("legend" :> Request(<<Text("legend")>>, "REQUEST" :> "getlegendgraphic"))
  @@ ("layers" :> AsMap(<<"a", "b">>, Extent(0, 0, 4, 4), 2, 4))
  @@ ("wide tms" :> TileFile("tms", Layer("tiff", None), 1, 1, 0))
  @@ ("wide next" :> TileFile("tms", Layer("tiff", None), 1, 1, 1))
  @@ ("high" :> TileFile("tms", Layer("high", None), 1, 0, 1))
  @@ ("file" :> TileFile("tms", Layer("m", None), 1, 0, 1))
  @@ ("as sent" :> TileFile("tms", Layer("w", None), 1, 1, 1))
  @@ ("drawn" :> AsMap(<<"w">>, Extent(4, 0, 12, 8), 4, 4))
  @@ ("drawn over" :> AsMap(<<"b", "w">>, Extent(4, 0, 12, 8), 4, 4))
  @@ ("undrawn" :> AsMap(<<"kept">>, Extent(4, 0, 12, 8), 4, 4))
  @@ ("silent" :> Request(<< >>, NoParams))
  @@ ("wms page" :> Request(<< >>, ("SERVICE" :> "wms") @@ ("REQUEST" :> "getcapabilities")))
  @@ ("wmts page" :> Request(<<Text("wmts"), Text("1.0.0"), Text("WMTSCapabilities.xml")>>, NoParams))
  @@ ("tms page" :> Request(<<Text("tms")>>, NoParams))
  @@ ("tms layers" :> Request(<<Text("tms"), Text("1.0.0")>>, NoParams))
  @@ ("kml page" :> Request(<<Text("kml"), Layers(<<T>>)>>, NoParams))
  @@ ("kml tile" :> Request(<<Text("kml"), Layers(<<T>>), Number(0), Number(0), File(0, "kml")>>, NoParams))
  @@ ("kml above" :> Request(<<Text("kml"), Layers(<<Layer("t", "above")>>), Number(0), Number(0), File(0, "kml")>>,
                             NoParams))
  @@ ("owg page" :> Request(<<Text("owg"), Layers(<<T>>), Text("layersettings.json")>>, NoParams))
  @@ ("demo" :> Request(<<Text("demo")>>, NoParams))
  @@ ("demo demo" :> OfDemo("demo")) @@ ("demo tms" :> OfDemo("tms")) @@ ("demo wms" :> OfDemo("wms"))
  @@ ("demo wmts" :> OfDemo("wmts")) @@ ("demo kml" :> OfDemo("kml")) @@ ("demo gmaps" :> OfDemo("gmaps"))
  @@ ("demo ve" :> OfDemo("ve")) @@ ("demo owg" :> OfDemo("owg"))

OfFew == {"kml page", "kml above", "demo wmts", "demo kml", "demo gmaps", "demo ve"}
OfMixed == {"wide tms", "wide next", "high", "file", "as sent", "drawn", "drawn over", "undrawn", "legend"}
MCAsking ==
     ("plain" :> DOMAIN MCRequests \ (OfMixed \cup {"layers", "silent", "kml above"}))
  @@ ("mixed" :> OfMixed \cup {"nothing"}) @@ ("mirror" :> {"layers", "nothing", "info"})
  @@ ("tags" :> {"map", "wmts", "wmts bad", "silent", "demo tms", "demo wms"})
  @@ ("few" :> OfFew \cup {"wmts kvp", "legend", "wmts page"})
  @@ ("broken" :> {"tms", "wmts bad"}) @@ (None :> {"tms", "wmts bad"})

(* A name of its own, or TLC works the table out at every use of Site.      *)
Table == Tabled([d \in DOMAIN MCDocuments |-> SiteOf(MCDocuments[d], MCRequests)])
MCSite == LET site == Table IN site

(* The picture of an answer: what of, where, where tiles are, and how far   *)
(* off a pixel may be.                                                      *)
Whole == Extent(0, 0, 4, 4)
Meaning(of, at) == [of |-> <<of, << >> >>, at |-> at, covered |-> Whole, slack |-> 1]
TopRight == Meaning("basic", Extent(2, 2, 4, 4))
BottomRight == Meaning("basic", Extent(2, 0, 4, 2))
OfSeason(season, depth, at) == [Meaning("basic", at) EXCEPT !.of = <<"basic", <<season, Numeral(depth, "plain")>> >>]
MeansPlain ==
  [r \in {"gmaps", "owg", "ve", "wmts", "wmts kvp"} |-> TopRight]
  @@ [r \in {"tms", "tms above", "tile"} |-> BottomRight]
  @@ ("winter" :> OfSeason(Word("winter", "capitals"), 5, Extent(0, 0, 2, 2))) @@ ("summer" :> OfSeason(Summer, 0, Extent(0, 0, 2, 2)))
  @@ ("two tiles" :> OfSeason(Summer, 0, Extent(2, 0, 4, 2)))
  @@ ("map" :> Meaning("basic", Extent(1, 0, 3, 4))) @@ ("coarse" :> Meaning("basic", Extent(-2, 0, 4, 6)))
  @@ ("swapped" :> Meaning("basic", Extent(0, 2, 2, 4))) @@ ("two maps" :> OfSeason(Summer, 0, Whole))
MCMeans ==
     ("plain" :> MeansPlain)
  @@ ("mirror" :> ("layers" :> Meaning("a,b", Whole)))
  @@ ("mixed" :> ([r \in {"wide tms"} |-> Meaning("tiles", Extent(8, 0, 16, 8))]
                 @@ ("wide next" :> Meaning("tiles", Extent(8, 8, 16, 16))) @@ ("high" :> Meaning("tiles", Extent(0, 8, 8, 16)))
                 @@ ("file" :> Meaning("file", Extent(0, 8, 8, 16))) @@ ("as sent" :> Meaning("basic", Extent(8, 8, 16, 16)))
                 @@ [r \in {"drawn", "drawn over"} |-> [Meaning("basic", Extent(4, 0, 12, 8)) EXCEPT !.covered = Extent(0, 0, 16, 16)]]))

(* What the theorems about the server ask of its documents. The requests   *)
(* of WMTS are left to the run: what becomes of rows that are counted from *)
(* another side is a question to TilesShowTheirPlace.                      *)
ASSUME DocumentsAssumption == KeysApart(Documents) /\ BlocksTogether(Documents) /\ FormatsTell(Documents)
WmsTiles == {"tms", "tms above", "gmaps", "owg", "ve", "tile", "winter"}
ASSUME MeansAssumption ==
  /\ \A r \in WmsTiles : OneWmsTile("plain", r)
  /\ OneWmsMap("plain", "map") /\ OneWmsMap("plain", "coarse") /\ OneWmsMap("mixed", "drawn")
=============================================================================
