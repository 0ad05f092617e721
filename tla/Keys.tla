--------------------------------- MODULE Keys ---------------------------------
(***************************************************************************)
(* The names under which the caches keep tiles: lib/util.c and the         *)
(* tile_key of the disk, S3 and TIFF caches. A name is the sequence of its *)
(* parts; numbers, names of tilesets and of grids keep apart what they     *)
(* name, values of dimensions may lose a difference when they are          *)
(* sanitized. A tile is a record of tileset, grid_link, dimensions (the    *)
(* sequence of its values, or None) and x, y, z.                           *)
(***************************************************************************)
EXTENDS Config

Part(tag, value) == <<tag, value>>
Extension(tileset) == IF tileset.format = None THEN "png" ELSE tileset.format.extension

(* mapcache_util_str_sanitize: a value written with slashes or with points *)
(* becomes one written with '#'.                                           *)
Sanitized(v) == IF v.form \in {"slashed", "pointed"} THEN [v EXCEPT !.form = "hashed"] ELSE v
Dims(tile) == IF tile.dimensions = None THEN << >> ELSE tile.dimensions
Backwards(values) == Seqs!Reverse(values)

(* mapcache_util_get_tile_dimkey: only a single value is sanitized.        *)
DimKey(tile, sanitized) ==
  IF Len(Dims(tile)) = 1 /\ sanitized
  THEN Part("dim", <<Sanitized(Dims(tile)[1])>>)
  ELSE Part("dim", Backwards(Dims(tile)))

(* What a placeholder of a template stands for; {ext} tells nothing apart  *)
(* that the others do not.                                                 *)
LevelOf(tile) == tile.grid_link.grid.levels[tile.z]
Placeholder(p, tile, dim) ==
  CASE p = "tileset" -> Part(p, tile.tileset.name)
    [] p = "grid" -> Part(p, tile.grid_link.grid.name)
    [] p = "x" -> Part(p, tile.x)
    [] p = "y" -> Part(p, tile.y)
    [] p = "z" -> Part(p, tile.z)
    [] p = "inv_x" -> Part(p, LevelOf(tile).maxx - tile.x - 1)
    [] p = "inv_y" -> Part(p, LevelOf(tile).maxy - tile.y - 1)
    [] p = "inv_z" -> Part(p, tile.grid_link.grid.nlevels - tile.z - 1)
    [] p = "dim" -> dim
FilledIn(template, tile, dim) == [i \in DOMAIN template |-> Placeholder(template[i], tile, dim)]

(* mapcache_util_get_tile_key                                              *)
TileKey(tile, template, sanitized) ==
  IF template # None THEN FilledIn(template, tile, DimKey(tile, sanitized))
  ELSE <<Part("tileset", tile.tileset.name), Part("grid", tile.grid_link.grid.name),
         DimKey(tile, sanitized), Part("z", tile.z), Part("y", tile.y), Part("x", tile.x)>>

(* _mapcache_cache_disk_base_tile_key: a directory for each dimension.     *)
BaseKey(tile) ==
  <<Part("tileset", tile.tileset.name), Part("grid", tile.grid_link.grid.name)>>
  \o [i \in DOMAIN Dims(tile) |-> Part("directory", Sanitized(Backwards(Dims(tile))[i]))]

(* ..._tilecache_tile_key, three digits at a time (S3 names the row before *)
(* the column, whole), and ..._arcgis_tile_key                             *)
TilecacheKey(tile) ==
  BaseKey(tile) \o
  <<Part("z", tile.z), Part("x", <<tile.x \div 1000000, (tile.x \div 1000) % 1000, tile.x % 1000>>),
    Part("y", <<tile.y \div 1000000, (tile.y \div 1000) % 1000, tile.y % 1000>>)>>
ArcgisKey(tile) == BaseKey(tile) \o <<Part("L", tile.z), Part("R", tile.y), Part("C", tile.x)>>

(* ..._template_tile_key: in {dim} every value follows the name of its     *)
(* dimension.                                                              *)
TemplateKey(tile, template) ==
  FilledIn(template, tile, Part("dim", [i \in DOMAIN Dims(tile) |-> Sanitized(Backwards(Dims(tile))[i])]))

(* _mapcache_cache_tiff_tile_key names a file of many tiles, and their     *)
(* place in it is counted from its last row. Files are numbered, or named  *)
(* after their first tile; {inv_x} is multiplied by the count of rows.     *)
TiffPlaceholder(p, tile, n, dim) ==
  LET left == LevelOf(tile).maxx - tile.x - 1
      above == LevelOf(tile).maxy - tile.y - 1
  IN  CASE p = "div_x" -> Part(p, tile.x \div n.x)
        [] p = "div_y" -> Part(p, tile.y \div n.y)
        [] p = "inv_div_x" -> Part(p, left \div n.x)
        [] p = "inv_div_y" -> Part(p, above \div n.y)
        [] p = "x" -> Part(p, (tile.x \div n.x) * n.x)
        [] p = "y" -> Part(p, (tile.y \div n.y) * n.y)
        [] p = "inv_x" -> Part(p, (left \div n.x) * n.y)
        [] p = "inv_y" -> Part(p, (above \div n.y) * n.y)
        [] OTHER -> Placeholder(p, tile, dim)
TiffFile(tile, template, n) ==
  LET dim == Part("dim", [i \in DOMAIN Dims(tile) |-> Sanitized(Backwards(Dims(tile))[i])])
  IN  [i \in DOMAIN template |-> TiffPlaceholder(template[i], tile, n, dim)]

TiffPlace(tile, n) ==
  LET across == Smaller(n.x, LevelOf(tile).maxx)
      down == Smaller(n.y, LevelOf(tile).maxy)
  IN  (down - (tile.y % down) - 1) * across + (tile.x % across)

KeyOf(cache, tile) ==
  CASE cache.type \in {"disk", "s3"} ->
        (CASE cache.layout = "tilecache" -> TilecacheKey(tile)
           [] cache.layout = "arcgis" -> ArcgisKey(tile)
           [] cache.layout = "template" -> TemplateKey(tile, cache.template))
    [] cache.type = "tiff" ->
         <<Part("place", TiffPlace(tile, cache.count))>> \o TiffFile(tile, cache.template, cache.count)
    [] cache.type = "memcache" -> TileKey(tile, None, TRUE)
    [] cache.type = "mbtiles" -> <<Part("z", tile.z), Part("x", tile.x), Part("y", tile.y)>>
    [] OTHER -> TileKey(tile, IF cache.type = "sqlite3" THEN None ELSE cache.template, FALSE)
=============================================================================
