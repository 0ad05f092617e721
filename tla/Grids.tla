-------------------------------- MODULE Grids ---------------------------------
(***************************************************************************)
(* Grids of tiles, lib/grid.c, and the tiles and metatiles of a tileset,   *)
(* lib/tileset.c: which tiles a grid has, where they lie, and which of     *)
(* them a rectangle needs. Lengths are integers, a resolution is the side  *)
(* of a pixel; the 1e-7 the code adds before it rounds is below one unit.  *)
(***************************************************************************)
EXTENDS Integers, FiniteSets

(* Conversions of C: a cast truncates, floor and ceil do not.              *)
Trunc(a, b) == IF a >= 0 THEN a \div b ELSE -((-a) \div b)
Ceiling(a, b) == -((-a) \div b)
Distance(a, b) == IF a >= b THEN a - b ELSE b - a
Larger(a, b) == IF a >= b THEN a ELSE b
Smaller(a, b) == IF a <= b THEN a ELSE b

Extent(minx, miny, maxx, maxy) == [minx |-> minx, miny |-> miny, maxx |-> maxx, maxy |-> maxy]

(* A level counts the columns and rows that more than a hundredth of the   *)
(* extent reaches into.                                                    *)
Level(e, sx, sy, r) ==
  [resolution |-> r,
   maxx |-> Ceiling(100 * (e.maxx - e.minx) - sx * r, 100 * sx * r),
   maxy |-> Ceiling(100 * (e.maxy - e.miny) - sy * r, 100 * sy * r)]

(* struct mapcache_grid; levels[z] is its level z.                         *)
Grid(name, srs, aliases, origin, e, sx, sy, resolutions) ==
  [name |-> name, srs |-> srs, srs_aliases |-> aliases, origin |-> origin, extent |-> e,
   tile_sx |-> sx, tile_sy |-> sy, elevationblock |-> 17,
   nlevels |-> Cardinality(DOMAIN resolutions),
   levels |-> [z \in 0 .. Cardinality(DOMAIN resolutions) - 1 |-> Level(e, sx, sy, resolutions[z + 1])]]

(* A grid as parseGrid leaves it: lengths in whole numbers, tiles of at    *)
(* least a pixel; the size of a metatile; and the tiles that a level has.  *)
Side == Nat \ {0}
IsExtent(e) == e.minx \in Int /\ e.miny \in Int /\ e.maxx \in Int /\ e.maxy \in Int
IsGrid(g) ==
  /\ IsExtent(g.extent)
  /\ g.tile_sx \in Side /\ g.tile_sy \in Side
  /\ \A z \in DOMAIN g.levels :
       g.levels[z].resolution \in Side /\ g.levels[z].maxx \in Int /\ g.levels[z].maxy \in Int
IsSize(size) == size.x \in Side /\ size.y \in Side
TilesOf(g, z) == [x : 0 .. g.levels[z].maxx - 1, y : 0 .. g.levels[z].maxy - 1, z : {z}]

Resolution(g, z) == g.levels[z].resolution
UnitWidth(g, z) == g.tile_sx * Resolution(g, z)
UnitHeight(g, z) == g.tile_sy * Resolution(g, z)
TopLeft(g) == g.origin = "top-left"

-----------------------------------------------------------------------------
(* Tiles.                                                                   *)

GetExtent(g, x, y, z) ==
  LET left == g.extent.minx + x * UnitWidth(g, z)
      bottom == IF TopLeft(g) THEN g.extent.maxy - (y + 1) * UnitHeight(g, z)
                ELSE g.extent.miny + y * UnitHeight(g, z)
  IN  Extent(left, bottom, left + UnitWidth(g, z), bottom + UnitHeight(g, z))

(* The tiles that extent e needs at level z, tolerance more on each side,  *)
(* and none the level has not.                                             *)
Limits(g, e, tolerance, z) ==
  LET below == IF TopLeft(g) THEN g.extent.maxy - e.maxy ELSE e.miny - g.extent.miny
      above == IF TopLeft(g) THEN g.extent.maxy - e.miny ELSE e.maxy - g.extent.miny
  IN  Extent(Larger(0, (e.minx - g.extent.minx) \div UnitWidth(g, z) - tolerance),
             Larger(0, below \div UnitHeight(g, z) - tolerance),
             Smaller(g.levels[z].maxx,
                     Ceiling(e.maxx - g.extent.minx, UnitWidth(g, z)) + tolerance),
             Smaller(g.levels[z].maxy, Ceiling(above, UnitHeight(g, z)) + tolerance))

ComputeLimits(g, e, tolerance) == [z \in DOMAIN g.levels |-> Limits(g, e, tolerance, z)]

(* struct mapcache_grid_link: a grid of a tileset, the levels minz up to   *)
(* but without maxz, and the tiles there are in each.                      *)
GridLink(g, e, tolerance, minz, maxz) ==
  [grid |-> g, restricted_extent |-> e, grid_limits |-> ComputeLimits(g, e, tolerance),
   minz |-> minz, maxz |-> maxz]

(* mapcache_tileset_tile_validate                                          *)
Valid(link, x, y, z) ==
  /\ z >= link.minz /\ z < link.maxz
  /\ LET l == link.grid_limits[z]
     IN  x >= l.minx /\ x < l.maxx /\ y >= l.miny /\ y < l.maxy

(* Where the tiles lie that a level has: from the first to the last one.   *)
RegionOf(link, z) ==
  LET g == link.grid
      l == link.grid_limits[z]
      first == GetExtent(g, l.minx, l.miny, z)
      last == GetExtent(g, l.maxx - 1, l.maxy - 1, z)
  IN  Extent(first.minx, Smaller(first.miny, last.miny), last.maxx, Larger(first.maxy, last.maxy))

-----------------------------------------------------------------------------
(* From rectangles to tiles. The images have whole pixels: bbox is a       *)
(* multiple of the size.                                                   *)

HorizontalResolution(bbox, w) == (bbox.maxx - bbox.minx) \div w
VerticalResolution(bbox, h) == (bbox.maxy - bbox.miny) \div h
ResolutionOf(bbox, w, h) == Larger(HorizontalResolution(bbox, w), VerticalResolution(bbox, h))

(* The first level that differs by less than a pixel over a tile.          *)
LevelsNear(g, r) ==
  {z \in DOMAIN g.levels : Distance(Resolution(g, z), r) * Larger(g.tile_sx, g.tile_sy) < r}
First(S) == CHOOSE z \in S : \A i \in S : z <= i

(* mapcache_grid_get_closest_level: minz itself is never the answer.       *)
ClosestLevel(link, r) ==
  LET dst(z) == Distance(Resolution(link.grid, z), r)
      better == {z \in link.minz + 1 .. link.maxz - 1 : \A i \in link.minz .. z - 1 : dst(z) < dst(i)}
  IN  IF better = {} THEN 0 ELSE CHOOSE z \in better : \A i \in better : z >= i

(* mapcache_grid_get_cell: the tile that bbox is, within a pixel, as the   *)
(* set of none or one.                                                     *)
GetCell(g, bbox) ==
  LET near == LevelsNear(g, ResolutionOf(bbox, g.tile_sx, g.tile_sy))
      z == First(near)
      dx == bbox.minx - g.extent.minx
      dy == IF TopLeft(g) THEN g.extent.maxy - bbox.maxy ELSE bbox.miny - g.extent.miny
      x == Trunc(2 * dx + UnitWidth(g, z), 2 * UnitWidth(g, z))
      y == Trunc(2 * dy + UnitHeight(g, z), 2 * UnitHeight(g, z))
  IN  IF near = {} THEN {}
      ELSE IF \/ Distance(dx, x * UnitWidth(g, z)) > Resolution(g, z)
              \/ Distance(dy, y * UnitHeight(g, z)) > Resolution(g, z) THEN {}
      ELSE {[x |-> x, y |-> y, z |-> z]}

(* mapcache_grid_get_xy                                                    *)
GetXY(g, dx, dy, z) ==
  [x |-> Trunc(dx - g.extent.minx, UnitWidth(g, z)),
   y |-> Trunc(IF TopLeft(g) THEN g.extent.maxy - dy ELSE dy - g.extent.miny, UnitHeight(g, z))]

(* mapcache_tileset_get_map_tiles: those that are not valid are left out.  *)
GetMapTiles(link, bbox, w, h) ==
  LET z == ClosestLevel(link, ResolutionOf(bbox, w, h))
      bl == GetXY(link.grid, bbox.minx, bbox.miny, z)
      tr == GetXY(link.grid, bbox.maxx, bbox.maxy, z)
  IN  {t \in [x : Smaller(bl.x, tr.x) .. Larger(bl.x, tr.x),
              y : Smaller(bl.y, tr.y) .. Larger(bl.y, tr.y), z : {z}] : Valid(link, t.x, t.y, t.z)}

-----------------------------------------------------------------------------
(* Metatiles, mapcache_tileset_metatile_get: blocks of size.x by size.y    *)
(* tiles and a border of buffer pixels, cut where the level ends. A tile   *)
(* is valid here, so x and y are not negative.                             *)

MetatileOf(t, size) == [x |-> t.x \div size.x, y |-> t.y \div size.y, z |-> t.z]

MetaSize(g, m, size) ==
  [x |-> Smaller(size.x, g.levels[m.z].maxx - m.x * size.x),
   y |-> Smaller(size.y, g.levels[m.z].maxy - m.y * size.y)]

(* tiles[i * metasize_y + j]                                               *)
MetaTiles(g, m, size) ==
  LET s == MetaSize(g, m, size)
  IN  [i : 0 .. s.x - 1, j : 0 .. s.y - 1]
TileAt(m, size, p) == [x |-> m.x * size.x + p.i, y |-> m.y * size.y + p.j, z |-> m.z]

MetaExtent(g, m, size, buffer) ==
  LET r == Resolution(g, m.z)
      s == MetaSize(g, m, size)
      border == buffer * r
      left == g.extent.minx + m.x * size.x * UnitWidth(g, m.z) - border
      height == s.y * UnitHeight(g, m.z) + 2 * border
      bottom == IF TopLeft(g)
                THEN g.extent.maxy - m.y * size.y * UnitHeight(g, m.z) + border - height
                ELSE g.extent.miny + m.y * size.y * UnitHeight(g, m.z) - border
  IN  Extent(left, bottom, left + s.x * UnitWidth(g, m.z) + 2 * border, bottom + height)

MetaPixels(g, m, size, buffer) ==
  [w |-> MetaSize(g, m, size).x * g.tile_sx + 2 * buffer,
   h |-> MetaSize(g, m, size).y * g.tile_sy + 2 * buffer]
=============================================================================
