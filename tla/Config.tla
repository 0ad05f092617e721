-------------------------------- MODULE Config --------------------------------
(***************************************************************************)
(* Reading the configuration, lib/configuration_xml.c and                  *)
(* lib/configuration.c with the configuration_parse_xml of the sources,    *)
(* caches and services. A document is a record of what its elements say;   *)
(* Load gives the configuration, or none when an element is refused: the   *)
(* first complaint ends the reading, so the order of the checks decides    *)
(* only the message. Elements are read kind by kind, sources, grids,       *)
(* formats, caches, tilesets, services, whatever their order in the file.  *)
(***************************************************************************)
EXTENDS Images, Dimensions, Sequences, TLC
Seqs == INSTANCE SequencesExt

(* apr_hash_set                                                            *)
With(map, key, value) == (key :> value) @@ map

AtLeast(x, n) == x = None \/ (Readable(x) /\ x >= n)
Between(x, m, n) == x = None \/ (Readable(x) /\ x >= m /\ x <= n)
OneOf(x, S) == x \in S \cup {None}
NewName(el, map) == Readable(el.name) /\ el.name \notin DOMAIN map

(* mapcache_http_configuration_parse_xml: <url>, <connection_timeout>      *)
HttpAccepted(el) == Readable(el.url) /\ AtLeast(el.connection_timeout, 1)

-----------------------------------------------------------------------------
(* <grid>. Sizes and extents are records, the resolutions a sequence.      *)

GridAccepted(cfg, el) ==
  /\ NewName(el, cfg.grids)
  /\ OneOf(el.units, {"dd", "m", "ft"})
  /\ OneOf(el.origin, {"top-left", "bottom-left"})
  /\ Readable(el.extent) /\ el.extent.minx < el.extent.maxx /\ el.extent.miny < el.extent.maxy
  /\ Readable(el.size) /\ el.size.x > 0 /\ el.size.y > 0
  /\ OneOf(el.elevationblock, {2, 3, 5, 9, 17, 33})
  /\ Readable(el.resolutions) /\ el.resolutions # << >>
  /\ Readable(el.srs)

ParseGrid(el) ==
  [Grid(el.name, el.srs, el.aliases, Given(el.origin, "bottom-left"), el.extent,
        el.size.x, el.size.y, el.resolutions) EXCEPT !.elevationblock = Given(el.elevationblock, @)]

(* The built-in grids, with the levels and the pixels of a tile cut down.  *)
WGS84 == Grid("WGS84", "EPSG:4326", {}, "bottom-left", Extent(-4, -2, 4, 2), 2, 2, <<2, 1>>)
GoogleMapsCompatible ==
  Grid("GoogleMapsCompatible", "EPSG:3857", {"EPSG:900913"}, "bottom-left", Extent(-4, -4, 4, 4), 2, 2, <<4, 2>>)
G == Grid("g", "EPSG:900913", {"EPSG:3857"}, "bottom-left", Extent(-4, -4, 4, 4), 2, 2, <<4, 2>>)

-----------------------------------------------------------------------------
(* <source>                                                                 *)

WmsSourceAccepted(cfg, el) ==
  /\ Readable(el.layers) \/ (el.layers = None /\ cfg.mode # "normal")    \* <getmap><params><LAYERS>
  /\ el.info_formats = None \/ (Readable(el.info_formats) /\ Readable(el.query_layers))
  /\ HttpAccepted(el)
TmsSourceAccepted(el) == TRUE
MapserverSourceAccepted(el) == Readable(el.mapfile)
DummySourceAccepted(el) == TRUE

SourceAccepted(cfg, el) ==
  /\ NewName(el, cfg.sources)
  /\ \/ el.type = "wms" /\ WmsSourceAccepted(cfg, el)
     \/ el.type = "tms" /\ TmsSourceAccepted(el)
     \/ el.type = "mapserver" /\ MapserverSourceAccepted(el)
     \/ el.type = "dummy" /\ DummySourceAccepted(el)

(* struct mapcache_source and those of its kinds                           *)
ParseSource(el) ==
  [name |-> el.name, type |-> el.type, layers |-> el.layers, url |-> el.url, flipy |-> el.flipy # None,
   info_formats |-> IF el.type = "wms" /\ el.info_formats # None THEN el.info_formats ELSE << >>]

-----------------------------------------------------------------------------
(* <format>. A second one of the same name replaces the first.             *)

PngAccepted(el) == OneOf(el.compression, {"fast", "best"}) /\ Between(el.colors, 2, 256)
JpegAccepted(el) == Between(el.quality, 1, 100) /\ OneOf(el.photometric, {"RGB", "YCBCR"})
MixedAccepted(cfg, el) == {el.transparent, el.opaque} \subseteq DOMAIN cfg.formats

FormatAccepted(cfg, el) ==
  /\ Readable(el.name)
  /\ \/ el.type = "PNG" /\ PngAccepted(el)
     \/ el.type = "JPEG" /\ JpegAccepted(el)
     \/ el.type = "MIXED" /\ MixedAccepted(cfg, el)
     \/ el.type \in {"JSON", "RAW"}

ParseFormat(cfg, el) ==
  CASE el.type = "PNG" -> CreatePng(el.name)
    [] el.type = "JPEG" -> CreateJpeg(el.name)
    [] el.type = "MIXED" -> CreateMixed(el.name, cfg.formats[el.transparent], cfg.formats[el.opaque])
    [] el.type = "JSON" -> CreateJson(el.name)
    [] el.type = "RAW" -> CreateRaw(el.name)

-----------------------------------------------------------------------------
(* <cache>. template: the placeholders of the path or key, in their order. *)

DiskAccepted(el) ==
  /\ OneOf(el.layout, {"tilecache", "arcgis", "template"})
  /\ el.layout = "template" => Readable(el.template)
  /\ AtLeast(el.creation_retry, 0) /\ Optional(el.maxzoom)
SqliteAccepted(el) == Readable(el.base) /\ el.hitstats # "true" /\ Optional(el.pragmas)
BdbAccepted(el) == Readable(el.base)
TcAccepted(el) == Readable(el.base)
MemcacheAccepted(el) == Readable(el.servers) /\ el.servers # {}
S3Accepted(el) ==
  /\ OneOf(el.layout, {"tilecache", "arcgis", "template"})
  /\ el.layout = "template" => Readable(el.template)
TiffAccepted(cfg, el) ==
  /\ Optional(el.xcount) /\ Optional(el.ycount)
  /\ LET format == Given(el.format, "JPEG")
     IN  format \in DOMAIN cfg.formats /\ cfg.formats[format].type = "JPEG"

CacheAccepted(cfg, el) ==
  /\ NewName(el, cfg.caches)
  /\ \/ el.type = "disk" /\ DiskAccepted(el)
     \/ el.type \in {"sqlite3", "mbtiles"} /\ SqliteAccepted(el)
     \/ el.type = "bdb" /\ BdbAccepted(el)
     \/ el.type = "tokyocabinet" /\ TcAccepted(el)
     \/ el.type = "memcache" /\ MemcacheAccepted(el)
     \/ el.type = "s3" /\ S3Accepted(el)
     \/ el.type = "tiff" /\ TiffAccepted(cfg, el)

ParseCache(el) ==
  [name |-> el.name, type |-> el.type, base |-> el.base, template |-> el.template,
   layout |-> Given(el.layout, "tilecache"), count |-> [x |-> Given(el.xcount, 0), y |-> Given(el.ycount, 0)], secret |-> el.secret]

(* configuration_post_config, when all of the document has been read.      *)
CacheReady(cfg, cache) ==
  LET users == {t \in DOMAIN cfg.tilesets : cfg.tilesets[t].cache = cache.name}
  IN  CASE cache.type = "disk" -> cache.base # None \/ cache.layout = "template"
        [] cache.type = "mbtiles" ->
             /\ Cardinality(users) <= 1
             /\ \A t \in users : Len(cfg.tilesets[t].grid_links) <= 1
        [] cache.type = "s3" ->
             /\ cache.base # None \/ cache.layout = "template"
             /\ cache.secret # None          \* both keys, the host and the bucket
        [] cache.type = "tiff" -> cache.template # None /\ cache.count.x > 0 /\ cache.count.y > 0
        [] OTHER -> TRUE

-----------------------------------------------------------------------------
(* <tileset>. In the mirror modes every tileset is called "mirror".        *)

TilesetName(cfg, el) == IF cfg.mode = "normal" THEN el.name ELSE "mirror"
GetTileset(cfg, name) == IF cfg.mode = "normal" THEN name ELSE "mirror"

(* <grid> of a tileset: the levels minzoom up to maxzoom. A tolerance of 5 *)
(* tiles is cut down to 1, as the levels are.                              *)
LinkOf(cfg, el) ==
  LET g == cfg.grids[el.grid]
      maxzoom == IF el.maxzoom = None THEN g.nlevels ELSE el.maxzoom + 1
  IN  GridLink(g, Given(el.restricted_extent, g.extent), Given(el.tolerance, 1), Given(el.minzoom, 0), maxzoom)
LinkAccepted(cfg, el) ==
  /\ el.grid \in DOMAIN cfg.grids
  /\ Optional(el.restricted_extent)
  /\ AtLeast(el.tolerance, 0) /\ AtLeast(el.minzoom, 0) /\ AtLeast(el.maxzoom, 0)
  /\ LET link == LinkOf(cfg, el) IN link.maxz <= link.grid.nlevels /\ link.minz < link.maxz

ParseTileset(cfg, el) ==
  [name |-> TilesetName(cfg, el), elevation |-> el.elevation,
   grid_links |-> [i \in DOMAIN el.grids |-> LinkOf(cfg, el.grids[i])],
   dimensions |-> IF el.dimensions = None THEN << >>
                  ELSE [i \in DOMAIN el.dimensions |-> Dimension(el.dimensions[i])],
   cache |-> el.cache, source |-> el.source,
   metasize |-> Given(el.metatile, [x |-> 1, y |-> 1]), metabuffer |-> Given(el.metabuffer, 0),
   watermark |-> el.watermark, expires |-> Given(el.expires, 300), auto_expire |-> Given(el.auto_expire, 0),
   format |-> IF el.format = None THEN None ELSE cfg.formats[el.format]]

(* mapcache_tileset_configuration_check                                    *)
TilesetChecked(t) ==
  /\ t.cache # None /\ t.grid_links # << >>
  /\ t.metabuffer >= 0 /\ t.metasize.x >= 1 /\ t.metasize.y >= 1
  /\ t.format = None => t.metasize = [x |-> 1, y |-> 1] /\ t.metabuffer = 0 /\ t.watermark = None

TilesetAccepted(cfg, el) ==
  /\ cfg.mode = "normal" => Readable(el.name)
  /\ TilesetName(cfg, el) \notin DOMAIN cfg.tilesets
  /\ \A i \in DOMAIN el.grids : LinkAccepted(cfg, el.grids[i])
  /\ \/ el.dimensions = None
     \/ el.dimensions # << >> /\ \A i \in DOMAIN el.dimensions : DimensionAccepted(el.dimensions[i])
  /\ OneOf(el.cache, DOMAIN cfg.caches)
  /\ OneOf(el.source, DOMAIN cfg.sources)
  /\ OneOf(el.format, DOMAIN cfg.formats)
  /\ Optional(el.metatile) /\ Optional(el.metabuffer) /\ Optional(el.watermark)
  /\ Optional(el.expires) /\ Optional(el.auto_expire)
  /\ TilesetChecked(ParseTileset(cfg, el))

-----------------------------------------------------------------------------
(* <service> elements, or the children of a <services>, which is looked at *)
(* only when there is no <service>.                                        *)

RuleAccepted(el) ==
  /\ HttpAccepted(el.http)
  /\ \A i \in DOMAIN el.params :
       /\ Readable(el.params[i].name) /\ Readable(el.params[i].words)
       /\ el.params[i].type \in {"values", "regex"}

(* _configuration_parse_wms_xml: full_wms "error" is read and changes      *)
(* nothing.                                                                *)
WmsAccepted(cfg, el) ==
  /\ \A i \in DOMAIN el.rules : RuleAccepted(el.rules[i])
  /\ OneOf(el.full_wms, {"assemble", "forward", "error"})
  /\ OneOf(el.format, DOMAIN cfg.formats)
  /\ OneOf(el.resample_mode, {"nearest", "bilinear"})
  /\ AtLeast(el.maxsize, 1)
ParseWms(cfg, el) ==
  [forwarding_rules |-> el.rules, maxsize |-> Given(el.maxsize, 2048),
   getmap_strategy |-> IF el.full_wms = "forward" THEN "forward" ELSE "assemble",
   getmap_format |-> cfg.formats[Given(el.format, "JPEG")],
   resample_mode |-> Given(el.resample_mode, "bilinear")]
CreateWms ==
  [forwarding_rules |-> << >>, maxsize |-> 2048, getmap_strategy |-> "assemble",
   getmap_format |-> None, resample_mode |-> "bilinear"]

ServiceKinds == {"wms", "tms", "wmts", "kml", "gmaps", "ve", "owg", "demo"}
ServiceListAccepted(cfg, doc) ==
  \A i \in DOMAIN doc.service :
    LET el == doc.service[i]
    IN  el.enabled = "true" => /\ el.type \in ServiceKinds
                               /\ el.type = "wms" => WmsAccepted(cfg, el)
ServiceList(cfg, doc) ==
  LET enabled == {i \in DOMAIN doc.service : doc.service[i].enabled = "true"}
      last(kind) == CHOOSE i \in enabled : /\ doc.service[i].type = kind
                                           /\ \A j \in enabled : doc.service[j].type = kind => j <= i
  IN  [kind \in {doc.service[i].type : i \in enabled} |->
         IF kind = "wms" THEN ParseWms(cfg, doc.service[last(kind)]) ELSE None]

(* parseServices, for the tags that are there and not "false"              *)
ServiceTagsAccepted(tags) == /\ "kml" \in tags => "tms" \in tags
                             /\ tags \cap {"wms", "tms", "wmts", "demo"} # {}
ServiceTags(tags) ==
  [kind \in (IF "demo" \in tags THEN tags \cup {"wms"} ELSE tags) |->
     IF kind = "wms" THEN CreateWms ELSE None]

ServicesAccepted(cfg, doc) ==
  IF doc.service # << >> THEN ServiceListAccepted(cfg, doc)
  ELSE doc.services # None /\ ServiceTagsAccepted(doc.services)
Services(cfg, doc) ==
  IF doc.service # << >> THEN ServiceList(cfg, doc) ELSE ServiceTags(doc.services)

-----------------------------------------------------------------------------
(* The document.                                                            *)

(* mapcache_configuration_create                                           *)
Created ==
  [mode |-> "normal", sources |-> << >>, caches |-> << >>, tilesets |-> << >>, services |-> << >>,
   grids |-> [n \in {"WGS84", "GoogleMapsCompatible", "g"} |->
                CASE n = "WGS84" -> WGS84 [] n = "g" -> G [] OTHER -> GoogleMapsCompatible],
   formats |-> [n \in {"PNG", "PNG8", "JPEG"} |-> IF n = "JPEG" THEN CreateJpeg(n) ELSE CreatePng(n)],
   default_format |-> CreateJpeg("JPEG"), reporting |-> "report", empty_image |-> None,
   threaded_fetching |-> FALSE, autoreload |-> FALSE, lock_retry |-> 10000]

(* Reads the elements of one kind, in the order of the file; a set of none *)
(* or one configuration.                                                   *)
Each(read(_, _), elements, start) ==
  Seqs!FoldLeft(LAMBDA cfgs, el : UNION {read(cfg, el) : cfg \in cfgs}, start, elements)

ReadSource(cfg, el) ==
  IF SourceAccepted(cfg, el) THEN {[cfg EXCEPT !.sources = With(@, el.name, ParseSource(el))]} ELSE {}
ReadGrid(cfg, el) ==
  IF GridAccepted(cfg, el) THEN {[cfg EXCEPT !.grids = With(@, el.name, ParseGrid(el))]} ELSE {}
ReadFormat(cfg, el) ==
  IF FormatAccepted(cfg, el) THEN {[cfg EXCEPT !.formats = With(@, el.name, ParseFormat(cfg, el))]} ELSE {}
ReadCache(cfg, el) ==
  IF CacheAccepted(cfg, el) THEN {[cfg EXCEPT !.caches = With(@, el.name, ParseCache(el))]} ELSE {}
ReadTileset(cfg, el) ==
  IF TilesetAccepted(cfg, el)
  THEN {[cfg EXCEPT !.tilesets = With(@, TilesetName(cfg, el), ParseTileset(cfg, el))]} ELSE {}

(* What follows the services. The empty image is made at once; report_img  *)
(* is not implemented.                                                     *)
GlobalsAccepted(cfg, doc) ==
  /\ OneOf(doc.default_format, DOMAIN cfg.formats)
  /\ OneOf(doc.errors, {"log", "report", "empty_img"})
  /\ Optional(doc.lock_retry)
  /\ OneOf(doc.threaded_fetching, {"true", "false"})
  /\ OneOf(doc.log_level, {"debug", "info", "notice", "warn", "error", "crit", "alert", "emerg"})
  /\ OneOf(doc.auto_reload, {"true", "false"})

WithGlobals(cfg, doc) ==
  LET format == IF doc.default_format = None THEN cfg.default_format ELSE cfg.formats[doc.default_format]
  IN  [cfg EXCEPT !.default_format = format, !.services = Services(cfg, doc),
                  !.reporting = Given(doc.errors, "report"),
                  !.empty_image = IF doc.errors = "empty_img" THEN EmptyImage(format, 2, 2) ELSE None,
                  !.lock_retry = Given(doc.lock_retry, 10000),
                  !.threaded_fetching = doc.threaded_fetching = "true",
                  !.autoreload = doc.auto_reload = "true"]

(* mapcache_configuration_parse and _post_config                           *)
ParseXml(doc) ==
  IF doc = Junk \/ ~OneOf(doc.mode, {"combined_mirror", "split_mirror", "normal"}) THEN {}
  ELSE LET start == {[Created EXCEPT !.mode = Given(doc.mode, "normal")]}
           sources == Each(ReadSource, doc.source, start)
           grids == Each(ReadGrid, doc.grid, sources)
           formats == Each(ReadFormat, doc.format, grids)
           caches == Each(ReadCache, doc.cache, formats)
           tilesets == Each(ReadTileset, doc.tileset, caches)
       IN  {WithGlobals(cfg, doc) : cfg \in
              {c \in tilesets : ServicesAccepted(c, doc) /\ GlobalsAccepted(c, doc)}}
Load(doc) ==
  {cfg \in ParseXml(doc) :
     /\ cfg.empty_image # None => ~Failed(cfg.empty_image)
     /\ \A c \in DOMAIN cfg.caches : CacheReady(cfg, cfg.caches[c])}

=============================================================================
