------------------------------ MODULE GridProofs ------------------------------
(* What holds of the geometry for all grids, metatiles, images and names:  *)
(* that metatiles divide a level, that tiles are cut from a picture where  *)
(* they lie in it, that a tile is found again from its extent, that a map  *)
(* is made of all the tiles it needs and shows what lies there, and that   *)
(* caches tell tiles apart.                                                *)
EXTENDS Sources, SequenceTheorems, TLAPS

-----------------------------------------------------------------------------
(* Quotients.                                                               *)

LEMMA Quotient ==
  ASSUME NEW a \in Int, NEW k \in Side
  PROVE  a \div k \in Int /\ k * (a \div k) <= a /\ a < k * (a \div k) + k
BY DEF Side

LEMMA QuotientIs ==
  ASSUME NEW a \in Int, NEW k \in Side, NEW q \in Int, q * k <= a, a < q * k + k
  PROVE  a \div k = q
<1>1. a \div k \in Int /\ k * (a \div k) <= a /\ a < k * (a \div k) + k BY Quotient
<1> QED BY <1>1 DEF Side

LEMMA QuotientOf ==
  ASSUME NEW q \in Int, NEW k \in Side, NEW i \in 0 .. k - 1
  PROVE  (q * k + i) \div k = q
BY QuotientIs DEF Side

(* What is at least a less than b times k.                                 *)
LEMMA QuotientOrder ==
  ASSUME NEW a \in Int, NEW b \in Int, NEW k \in Side, a <= b
  PROVE  a \div k <= b \div k
<1>1. a \div k \in Int /\ k * (a \div k) <= a /\ a < k * (a \div k) + k BY Quotient
<1>2. b \div k \in Int /\ k * (b \div k) <= b /\ b < k * (b \div k) + k BY Quotient
<1> QED BY <1>1, <1>2 DEF Side

LEMMA RestOf ==
  ASSUME NEW a \in Int, NEW k \in Side
  PROVE  a % k \in 0 .. k - 1 /\ a = k * (a \div k) + (a % k)
BY DEF Side

-----------------------------------------------------------------------------
(* Metatiles divide a level.                                                *)

LEMMA SizeOfMetatile ==
  ASSUME NEW g, NEW m, NEW size, IsGrid(g), IsSize(size), m.z \in DOMAIN g.levels,
         m.x \in Nat, m.y \in Nat
  PROVE  /\ MetaSize(g, m, size).x \in Int /\ MetaSize(g, m, size).y \in Int
         /\ MetaSize(g, m, size).x <= size.x /\ MetaSize(g, m, size).y <= size.y
         /\ MetaSize(g, m, size).x <= g.levels[m.z].maxx - m.x * size.x
         /\ MetaSize(g, m, size).y <= g.levels[m.z].maxy - m.y * size.y
         /\ MetaSize(g, m, size).x \in {size.x, g.levels[m.z].maxx - m.x * size.x}
         /\ MetaSize(g, m, size).y \in {size.y, g.levels[m.z].maxy - m.y * size.y}
<1> DEFINE w == g.levels[m.z].maxx - m.x * size.x
           h == g.levels[m.z].maxy - m.y * size.y
<1>1. w \in Int /\ h \in Int /\ size.x \in Int /\ size.y \in Int
  BY DEF IsGrid, IsSize, Side
<1>2. MetaSize(g, m, size).x = Smaller(size.x, w) /\ MetaSize(g, m, size).y = Smaller(size.y, h)
  BY DEF MetaSize
<1> HIDE DEF w, h
<1>3. /\ Smaller(size.x, w) \in {size.x, w} /\ Smaller(size.x, w) <= size.x /\ Smaller(size.x, w) <= w
      /\ Smaller(size.y, h) \in {size.y, h} /\ Smaller(size.y, h) <= size.y /\ Smaller(size.y, h) <= h
  BY <1>1 DEF Smaller
<1>4. /\ MetaSize(g, m, size).x \in {size.x, w} /\ MetaSize(g, m, size).x <= size.x /\ MetaSize(g, m, size).x <= w
      /\ MetaSize(g, m, size).y \in {size.y, h} /\ MetaSize(g, m, size).y <= size.y /\ MetaSize(g, m, size).y <= h
  BY <1>2, <1>3
<1> QED BY <1>1, <1>4 DEF w, h

(* Whatever the size of metatiles, and wherever a level cuts one: a tile   *)
(* of a metatile is a tile of the level, and its metatile is this one.     *)
THEOREM MetatilesHoldTheirTiles ==
  ASSUME NEW g, NEW m, NEW size, IsGrid(g), IsSize(size), m.z \in DOMAIN g.levels,
         m.x \in Nat, m.y \in Nat, m = [x |-> m.x, y |-> m.y, z |-> m.z],
         NEW p \in MetaTiles(g, m, size)
  PROVE  /\ TileAt(m, size, p) \in TilesOf(g, m.z)
         /\ MetatileOf(TileAt(m, size, p), size) = m
<1> DEFINE s == MetaSize(g, m, size)
           t == TileAt(m, size, p)
<1>1. p.i \in 0 .. s.x - 1 /\ p.j \in 0 .. s.y - 1 BY DEF MetaTiles
<1>2. /\ s.x \in Int /\ s.x <= size.x /\ s.x <= g.levels[m.z].maxx - m.x * size.x
      /\ s.y \in Int /\ s.y <= size.y /\ s.y <= g.levels[m.z].maxy - m.y * size.y
  BY SizeOfMetatile
<1>3. size.x \in Side /\ size.y \in Side /\ g.levels[m.z].maxx \in Int /\ g.levels[m.z].maxy \in Int
  BY DEF IsGrid, IsSize
<1> HIDE DEF s
<1>4. p.i \in 0 .. size.x - 1 /\ p.j \in 0 .. size.y - 1 BY <1>1, <1>2, <1>3 DEF Side
<1>5. t.x = m.x * size.x + p.i /\ t.y = m.y * size.y + p.j /\ t.z = m.z
      /\ t = [x |-> t.x, y |-> t.y, z |-> t.z]
  BY DEF TileAt
<1>6. m.x * size.x \in Nat /\ m.y * size.y \in Nat BY <1>3 DEF Side
<1>7. t.x \in 0 .. g.levels[m.z].maxx - 1 BY <1>1, <1>2, <1>3, <1>5, <1>6
<1>8. t.y \in 0 .. g.levels[m.z].maxy - 1 BY <1>1, <1>2, <1>3, <1>5, <1>6
<1>9. t.x \div size.x = m.x /\ t.y \div size.y = m.y BY <1>3, <1>4, <1>5, QuotientOf
<1>10. t \in TilesOf(g, m.z) BY <1>5, <1>7, <1>8 DEF TilesOf
<1>11. MetatileOf(t, size) = m BY <1>5, <1>9 DEF MetatileOf
<1> QED BY <1>10, <1>11

(* And no tile of a level is left out, nor held twice.                     *)
THEOREM EveryTileHasItsPlace ==
  ASSUME NEW g, NEW size, IsGrid(g), IsSize(size), NEW z \in DOMAIN g.levels, NEW t \in TilesOf(g, z)
  PROVE  LET m == MetatileOf(t, size)
         IN  \E p \in MetaTiles(g, m, size) :
               /\ TileAt(m, size, p) = t
               /\ \A q \in MetaTiles(g, m, size) : TileAt(m, size, q) = t => q = p
<1> DEFINE m == MetatileOf(t, size)
           s == MetaSize(g, m, size)
           p == [i |-> t.x % size.x, j |-> t.y % size.y]
<1>1. /\ t.x \in 0 .. g.levels[z].maxx - 1 /\ t.y \in 0 .. g.levels[z].maxy - 1 /\ t.z = z
      /\ t = [x |-> t.x, y |-> t.y, z |-> t.z]
  BY DEF TilesOf
<1>2. size.x \in Side /\ size.y \in Side /\ g.levels[z].maxx \in Int /\ g.levels[z].maxy \in Int
  BY DEF IsGrid, IsSize
<1>3. m.x = t.x \div size.x /\ m.y = t.y \div size.y /\ m.z = z BY <1>1 DEF MetatileOf
<1>4. t.x % size.x \in 0 .. size.x - 1 /\ t.x = size.x * m.x + (t.x % size.x) BY <1>1, <1>2, <1>3, RestOf
<1>5. t.y % size.y \in 0 .. size.y - 1 /\ t.y = size.y * m.y + (t.y % size.y) BY <1>1, <1>2, <1>3, RestOf
<1>6. m.x \in Nat /\ m.y \in Nat
  <2>1. 0 \div size.x = 0 /\ 0 \div size.y = 0 BY <1>2, QuotientOf DEF Side
  <2>2. 0 <= m.x /\ 0 <= m.y BY <1>1, <1>2, <1>3, <2>1, QuotientOrder
  <2>3. m.x \in Int /\ m.y \in Int BY <1>1, <1>2, <1>3, Quotient
  <2> QED BY <2>2, <2>3
<1> HIDE DEF m
<1>7. /\ s.x \in {size.x, g.levels[z].maxx - m.x * size.x} /\ s.x \in Int
      /\ s.y \in {size.y, g.levels[z].maxy - m.y * size.y} /\ s.y \in Int
  BY <1>3, <1>6, SizeOfMetatile
<1> HIDE DEF s
<1>8. t.x % size.x \in 0 .. s.x - 1 BY <1>1, <1>2, <1>4, <1>6, <1>7 DEF Side
<1>9. t.y % size.y \in 0 .. s.y - 1 BY <1>1, <1>2, <1>5, <1>6, <1>7 DEF Side
<1>10. p \in MetaTiles(g, m, size) BY <1>8, <1>9 DEF MetaTiles, s
<1>11. TileAt(m, size, p) = t
  <2>1. m.x * size.x + (t.x % size.x) = t.x BY <1>1, <1>2, <1>4, <1>6 DEF Side
  <2>2. m.y * size.y + (t.y % size.y) = t.y BY <1>1, <1>2, <1>5, <1>6 DEF Side
  <2>3. TileAt(m, size, p) = [x |-> m.x * size.x + (t.x % size.x), y |-> m.y * size.y + (t.y % size.y), z |-> m.z]
    BY DEF TileAt
  <2> QED BY <1>1, <1>3, <2>1, <2>2, <2>3
<1>12. ASSUME NEW q \in MetaTiles(g, m, size), TileAt(m, size, q) = t PROVE q = p
  <2>1. q.i \in 0 .. s.x - 1 /\ q.j \in 0 .. s.y - 1 /\ q = [i |-> q.i, j |-> q.j] BY DEF MetaTiles, s
  <2>2. m.x * size.x + q.i = t.x /\ m.y * size.y + q.j = t.y BY <1>12 DEF TileAt
  <2>3. q.i = t.x % size.x BY <1>2, <1>4, <1>6, <1>7, <2>1, <2>2 DEF Side
  <2>4. q.j = t.y % size.y BY <1>2, <1>5, <1>6, <1>7, <2>1, <2>2 DEF Side
  <2> QED BY <2>1, <2>3, <2>4
<1> QED BY <1>10, <1>11, <1>12 DEF m

-----------------------------------------------------------------------------
(* Tiles are cut where they lie.                                            *)

LEMMA UnitsOf ==
  ASSUME NEW g, IsGrid(g), NEW z \in DOMAIN g.levels
  PROVE  /\ Resolution(g, z) \in Side /\ g.tile_sx \in Side /\ g.tile_sy \in Side
         /\ UnitWidth(g, z) = g.tile_sx * Resolution(g, z) /\ UnitWidth(g, z) \in Side
         /\ UnitHeight(g, z) = g.tile_sy * Resolution(g, z) /\ UnitHeight(g, z) \in Side
<1>1. Resolution(g, z) \in Side /\ g.tile_sx \in Side /\ g.tile_sy \in Side BY DEF IsGrid, Resolution
<1>2. \A a, b \in Side : a * b \in Side BY DEF Side
<1> QED BY <1>1, <1>2 DEF UnitWidth, UnitHeight

(* A side of n pixels of r each, divided by n.                             *)
LEMMA PixelsOfSide ==
  ASSUME NEW n \in Side, NEW r \in Side
  PROVE  (n * r) \div n = r
<1>1. n * r \in Int /\ r \in Int /\ r * n = n * r BY DEF Side
<1> QED BY <1>1, QuotientIs DEF Side

LEMMA ExtentOfTile ==
  ASSUME NEW g, IsGrid(g), NEW z \in DOMAIN g.levels, NEW x \in Int, NEW y \in Int
  PROVE  LET e == GetExtent(g, x, y, z)
         IN  /\ e.minx = g.extent.minx + x * UnitWidth(g, z)
             /\ e.maxx = e.minx + UnitWidth(g, z)
             /\ e.maxy = e.miny + UnitHeight(g, z)
             /\ e.miny = IF TopLeft(g) THEN g.extent.maxy - (y + 1) * UnitHeight(g, z)
                         ELSE g.extent.miny + y * UnitHeight(g, z)
             /\ IsExtent(e)
             /\ HorizontalResolution(e, g.tile_sx) = Resolution(g, z)
             /\ VerticalResolution(e, g.tile_sy) = Resolution(g, z)
<1> DEFINE e == GetExtent(g, x, y, z)
           u == UnitWidth(g, z)
           v == UnitHeight(g, z)
           r == Resolution(g, z)
           bottom == IF TopLeft(g) THEN g.extent.maxy - (y + 1) * v ELSE g.extent.miny + y * v
<1>1. r \in Side /\ g.tile_sx \in Side /\ g.tile_sy \in Side /\ u = g.tile_sx * r /\ v = g.tile_sy * r
      /\ u \in Side /\ v \in Side
  BY UnitsOf
<1>2. IsExtent(g.extent) BY DEF IsGrid
<1>3. e.minx = g.extent.minx + x * u /\ e.maxx = g.extent.minx + x * u + u /\ e.miny = bottom /\ e.maxy = bottom + v
  BY DEF GetExtent, Extent
<1> HIDE DEF e, u, v, r
<1>4. x * u \in Int /\ y * v \in Int /\ (y + 1) * v \in Int BY <1>1 DEF Side
<1>5. bottom \in Int BY <1>2, <1>4 DEF IsExtent
<1> HIDE DEF bottom
<1>6. IsExtent(e) /\ e.maxx = e.minx + u /\ e.maxy = e.miny + v
  BY <1>1, <1>2, <1>3, <1>4, <1>5 DEF IsExtent, Side
<1>7. e.maxx - e.minx = u /\ e.maxy - e.miny = v BY <1>1, <1>6 DEF IsExtent, Side
<1>8. HorizontalResolution(e, g.tile_sx) = r /\ VerticalResolution(e, g.tile_sy) = r
  BY <1>1, <1>7, PixelsOfSide DEF HorizontalResolution, VerticalResolution
<1> QED BY <1>3, <1>6, <1>8 DEF e, u, v, r, bottom

(* The picture of a metatile has the resolution of its level, with its     *)
(* border and when it is cut at the end of the level.                      *)
LEMMA ExtentOfMetatile ==
  ASSUME NEW g, NEW m, NEW size, NEW buffer \in Nat, IsGrid(g), IsSize(size), m.z \in DOMAIN g.levels,
         m.x \in Nat, m.y \in Nat, MetaSize(g, m, size).x \in Side, MetaSize(g, m, size).y \in Side
  PROVE  LET e == MetaExtent(g, m, size, buffer)
             s == MetaSize(g, m, size)
             px == MetaPixels(g, m, size, buffer)
             r == Resolution(g, m.z)
         IN  /\ px.w = s.x * g.tile_sx + 2 * buffer /\ px.w \in Side
             /\ px.h = s.y * g.tile_sy + 2 * buffer /\ px.h \in Side
             /\ e.minx = g.extent.minx + (m.x * size.x) * UnitWidth(g, m.z) - buffer * r
             /\ e.maxy = IF TopLeft(g) THEN g.extent.maxy - (m.y * size.y) * UnitHeight(g, m.z) + buffer * r
                         ELSE g.extent.miny + (m.y * size.y + s.y) * UnitHeight(g, m.z) + buffer * r
             /\ IsExtent(e)
             /\ HorizontalResolution(e, px.w) = r
             /\ VerticalResolution(e, px.h) = r
<1> DEFINE e == MetaExtent(g, m, size, buffer)
           s == MetaSize(g, m, size)
           px == MetaPixels(g, m, size, buffer)
           u == UnitWidth(g, m.z)
           v == UnitHeight(g, m.z)
           r == Resolution(g, m.z)
           across == m.x * size.x
           down == m.y * size.y
           border == buffer * r
           height == s.y * v + 2 * border
           bottom == IF TopLeft(g) THEN g.extent.maxy - down * v + border - height
                     ELSE g.extent.miny + down * v - border
           left == g.extent.minx + across * u - border
<1>1. r \in Side /\ g.tile_sx \in Side /\ g.tile_sy \in Side /\ u = g.tile_sx * r /\ v = g.tile_sy * r
      /\ u \in Side /\ v \in Side
  BY UnitsOf
<1>2. IsExtent(g.extent) BY DEF IsGrid
<1>3. e.minx = left /\ e.maxx = left + s.x * u + 2 * border /\ e.miny = bottom /\ e.maxy = bottom + height
  BY DEF MetaExtent, Extent
<1>4. px.w = s.x * g.tile_sx + 2 * buffer /\ px.h = s.y * g.tile_sy + 2 * buffer BY DEF MetaPixels
<1>5. s.x \in Side /\ s.y \in Side OBVIOUS
<1>6. across \in Nat /\ down \in Nat BY DEF IsSize, Side
<1> HIDE DEF e, s, px, u, v, r, across, down
<1>7. px.w \in Side /\ px.h \in Side
  <2>1. \A a, b \in Side : a * b + 2 * buffer \in Side BY DEF Side
  <2> QED BY <1>1, <1>4, <1>5, <2>1
<1>8. border \in Nat /\ across * u \in Nat /\ down * v \in Nat /\ s.x * u \in Nat /\ s.y * v \in Nat
  BY <1>1, <1>5, <1>6 DEF Side
<1>9. height = px.h * r /\ s.x * u + 2 * border = px.w * r
  <2>1. \A a, b, c \in Nat : a * (b * c) + 2 * (buffer * c) = (a * b + 2 * buffer) * c OBVIOUS
  <2> QED BY <1>1, <1>4, <1>5, <2>1 DEF Side
<1> HIDE DEF border
<1>10. left \in Int /\ height \in Int BY <1>2, <1>8 DEF IsExtent
<1>11. bottom \in Int BY <1>2, <1>8, <1>10 DEF IsExtent
<1>12. bottom + height = IF TopLeft(g) THEN g.extent.maxy - down * v + border
                         ELSE g.extent.miny + (down + s.y) * v + border
  <2>1. (down + s.y) * v = down * v + s.y * v BY <1>1, <1>5, <1>6 DEF Side
  <2> QED BY <1>2, <1>8, <2>1 DEF IsExtent
<1> HIDE DEF left, height, bottom
<1>13. IsExtent(e) /\ e.maxx - e.minx = px.w * r /\ e.maxy - e.miny = px.h * r
  <2>1. px.w * r \in Int /\ px.h * r \in Int BY <1>1, <1>7 DEF Side
  <2>2. e.maxx = left + px.w * r
    <3>1. left + s.x * u + 2 * border = left + (s.x * u + 2 * border) BY <1>8, <1>10
    <3> QED BY <1>3, <1>9, <3>1
  <2> QED BY <1>3, <1>9, <1>10, <1>11, <2>1, <2>2 DEF IsExtent
<1>14. HorizontalResolution(e, px.w) = r /\ VerticalResolution(e, px.h) = r
  BY <1>1, <1>7, <1>13, PixelsOfSide DEF HorizontalResolution, VerticalResolution
<1> QED BY <1>3, <1>4, <1>7, <1>12, <1>13, <1>14 DEF e, s, px, u, v, r, across, down, border, left

(* Whatever the grid, its origin, the metatile and its border: the pixels  *)
(* that mapcache_image_metatile_split takes for a tile are pixels of the   *)
(* picture, and each shows what belongs there on the tile.                 *)
THEOREM TilesAreCutWhereTheyLie ==
  ASSUME NEW g, NEW m, NEW size, NEW buffer \in Nat, IsGrid(g), IsSize(size), m.z \in DOMAIN g.levels,
         m.x \in Nat, m.y \in Nat, NEW p \in MetaTiles(g, m, size),
         NEW c \in 0 .. g.tile_sx - 1, NEW row \in 0 .. g.tile_sy - 1
  PROVE  LET px == MetaPixels(g, m, size, buffer)
             corner == Corner(g, px.h, buffer, p)
             t == TileAt(m, size, p)
         IN  /\ <<corner[1] + c, corner[2] + row>> \in Spots(px.w, px.h)
             /\ PixelAt(MetaExtent(g, m, size, buffer), px.w, px.h, corner[1] + c, corner[2] + row)
                  = PixelAt(GetExtent(g, t.x, t.y, t.z), g.tile_sx, g.tile_sy, c, row)
<1> DEFINE e == MetaExtent(g, m, size, buffer)
           s == MetaSize(g, m, size)
           px == MetaPixels(g, m, size, buffer)
           corner == Corner(g, px.h, buffer, p)
           t == TileAt(m, size, p)
           f == GetExtent(g, t.x, t.y, t.z)
           u == UnitWidth(g, m.z)
           v == UnitHeight(g, m.z)
           r == Resolution(g, m.z)
           across == m.x * size.x
           down == m.y * size.y
           sx == g.tile_sx
           sy == g.tile_sy
<1>1. r \in Side /\ sx \in Side /\ sy \in Side /\ u = sx * r /\ v = sy * r /\ u \in Side /\ v \in Side
  BY UnitsOf
<1>2. IsExtent(g.extent) BY DEF IsGrid
<1>3. across \in Nat /\ down \in Nat BY DEF IsSize, Side
<1>4. p.i \in 0 .. s.x - 1 /\ p.j \in 0 .. s.y - 1 BY DEF MetaTiles
<1>5. s.x \in Side /\ s.y \in Side
  <2>1. s.x \in Int /\ s.y \in Int BY SizeOfMetatile
  <2> HIDE DEF s
  <2> QED BY <1>4, <2>1 DEF Side
<1>6. t.x = across + p.i /\ t.y = down + p.j /\ t.z = m.z BY DEF TileAt
<1> HIDE DEF s, t
<1>7. t.x \in Int /\ t.y \in Int BY <1>3, <1>4, <1>5, <1>6 DEF Side
<1>8. /\ f.minx = g.extent.minx + t.x * u /\ f.maxy = f.miny + v
      /\ f.miny = IF TopLeft(g) THEN g.extent.maxy - (t.y + 1) * v ELSE g.extent.miny + t.y * v
      /\ IsExtent(f) /\ HorizontalResolution(f, sx) = r /\ VerticalResolution(f, sy) = r
  <2>1. f = GetExtent(g, t.x, t.y, m.z) BY <1>6
  <2> QED BY <1>7, <2>1, ExtentOfTile
<1>9. /\ px.w = s.x * sx + 2 * buffer /\ px.w \in Side /\ px.h = s.y * sy + 2 * buffer /\ px.h \in Side
      /\ e.minx = g.extent.minx + across * u - buffer * r
      /\ e.maxy = IF TopLeft(g) THEN g.extent.maxy - down * v + buffer * r
                  ELSE g.extent.miny + (down + s.y) * v + buffer * r
      /\ IsExtent(e) /\ HorizontalResolution(e, px.w) = r /\ VerticalResolution(e, px.h) = r
  <2>1. MetaSize(g, m, size).x \in Side /\ MetaSize(g, m, size).y \in Side BY <1>5 DEF s
  <2> QED BY <2>1, ExtentOfMetatile DEF s
<1>10. corner[1] = buffer + p.i * sx
       /\ corner[2] = IF TopLeft(g) THEN buffer + p.j * sy ELSE px.h - (buffer + (p.j + 1) * sy)
  BY DEF Corner
<1>11. PixelAt(e, px.w, px.h, corner[1] + c, corner[2] + row)
       = Extent(e.minx + (corner[1] + c) * r, e.maxy - (corner[2] + row + 1) * r,
                e.minx + (corner[1] + c + 1) * r, e.maxy - (corner[2] + row) * r)
  BY <1>9, Zenon DEF PixelAt
<1>12. PixelAt(f, sx, sy, c, row)
       = Extent(f.minx + c * r, f.maxy - (row + 1) * r, f.minx + (c + 1) * r, f.maxy - row * r)
  BY <1>8, Zenon DEF PixelAt
<1> HIDE DEF e, px, corner, f, u, v, r, across, down, sx, sy
<1>13. c \in 0 .. sx - 1 /\ row \in 0 .. sy - 1 BY DEF sx, sy
<1>14. p.i \in Nat /\ p.j \in Nat /\ s.x - p.i - 1 \in Nat /\ s.y - p.j - 1 \in Nat /\ s.x \in Nat /\ s.y \in Nat
  BY <1>4, <1>5 DEF Side
<1>15. c \in Nat /\ row \in Nat /\ sx - c - 1 \in Nat /\ sy - row - 1 \in Nat BY <1>1, <1>13 DEF Side
<1>16. corner[1] \in Nat /\ corner[1] + c \in 0 .. px.w - 1
  <2>1. p.i * sx \in Nat /\ (s.x - p.i - 1) * sx \in Nat BY <1>1, <1>14 DEF Side
  <2>2. s.x * sx = p.i * sx + sx + (s.x - p.i - 1) * sx BY <1>1, <1>14 DEF Side
  <2> QED BY <1>1, <1>9, <1>10, <1>15, <2>1, <2>2 DEF Side
<1>17. corner[2] \in Nat /\ corner[2] + row \in 0 .. px.h - 1
  <2>1. p.j * sy \in Nat /\ (s.y - p.j - 1) * sy \in Nat BY <1>1, <1>14 DEF Side
  <2>2. s.y * sy = p.j * sy + sy + (s.y - p.j - 1) * sy BY <1>1, <1>14 DEF Side
  <2>3. (p.j + 1) * sy = p.j * sy + sy BY <1>1, <1>14 DEF Side
  <2>4. CASE TopLeft(g) BY <1>1, <1>9, <1>10, <1>15, <2>1, <2>2, <2>4 DEF Side
  <2>5. CASE ~TopLeft(g)
    <3>1. corner[2] = buffer + (s.y - p.j - 1) * sy BY <1>1, <1>9, <1>10, <1>15, <2>1, <2>2, <2>3, <2>5 DEF Side
    <3> QED BY <1>1, <1>9, <1>15, <2>1, <2>2, <3>1 DEF Side
  <2> QED BY <2>4, <2>5
<1>18. e.minx + corner[1] * r = f.minx
  <2>1. (buffer + p.i * sx) * r = buffer * r + p.i * u BY <1>1, <1>14 DEF Side
  <2>2. t.x * u = across * u + p.i * u BY <1>1, <1>3, <1>6, <1>14 DEF Side
  <2>3. across * u \in Nat /\ p.i * u \in Nat /\ buffer * r \in Nat BY <1>1, <1>3, <1>14 DEF Side
  <2> QED BY <1>2, <1>8, <1>9, <1>10, <2>1, <2>2, <2>3 DEF IsExtent
<1>19. e.maxy - corner[2] * r = f.maxy
  <2>1. down * v \in Nat /\ p.j * v \in Nat /\ buffer * r \in Nat /\ s.y * v \in Nat BY <1>1, <1>3, <1>14 DEF Side
  <2>2. t.y * v = down * v + p.j * v /\ (t.y + 1) * v = down * v + p.j * v + v
    BY <1>1, <1>3, <1>6, <1>14 DEF Side
  <2>3. CASE TopLeft(g)
    <3>1. (buffer + p.j * sy) * r = buffer * r + p.j * v BY <1>1, <1>14 DEF Side
    <3> QED BY <1>1, <1>2, <1>8, <1>9, <1>10, <2>1, <2>2, <2>3, <3>1 DEF IsExtent, Side
  <2>4. CASE ~TopLeft(g)
    <3>1. corner[2] * r = s.y * v + 2 * (buffer * r) - buffer * r - p.j * v - v
      <4>1. corner[2] = (s.y * sy + 2 * buffer) - (buffer + (p.j + 1) * sy) BY <1>9, <1>10, <2>4
      <4> QED BY <1>1, <1>14, <4>1 DEF Side
    <3>2. (down + s.y) * v = down * v + s.y * v BY <1>1, <1>3, <1>14 DEF Side
    <3> QED BY <1>1, <1>2, <1>8, <1>9, <2>1, <2>2, <2>4, <3>1, <3>2 DEF IsExtent, Side
  <2> QED BY <2>3, <2>4
<1>20. /\ e.minx + (corner[1] + c) * r = f.minx + c * r
       /\ e.minx + (corner[1] + c + 1) * r = f.minx + (c + 1) * r
  <2>1. \A a, b, d \in Nat : (a + b) * d = a * d + b * d /\ (a + b + 1) * d = a * d + (b + 1) * d
                             /\ a * d \in Nat /\ b * d \in Nat /\ (b + 1) * d \in Nat
    OBVIOUS
  <2> QED BY <1>1, <1>8, <1>9, <1>15, <1>16, <1>18, <2>1 DEF IsExtent, Side
<1>21. /\ e.maxy - (corner[2] + row) * r = f.maxy - row * r
       /\ e.maxy - (corner[2] + row + 1) * r = f.maxy - (row + 1) * r
  <2>1. \A a, b, d \in Nat : (a + b) * d = a * d + b * d /\ (a + b + 1) * d = a * d + (b + 1) * d
                             /\ a * d \in Nat /\ b * d \in Nat /\ (b + 1) * d \in Nat
    OBVIOUS
  <2> QED BY <1>1, <1>8, <1>9, <1>15, <1>17, <1>19, <2>1 DEF IsExtent, Side
<1>22. PixelAt(e, px.w, px.h, corner[1] + c, corner[2] + row) = PixelAt(f, sx, sy, c, row)
  BY <1>11, <1>12, <1>20, <1>21, Zenon
<1>23. <<corner[1] + c, corner[2] + row>> \in Spots(px.w, px.h) BY <1>16, <1>17 DEF Spots
<1> QED BY <1>22, <1>23 DEF e, px, corner, f, sx, sy, t

-----------------------------------------------------------------------------
(* Tiles and maps are found from rectangles.                                *)

(* A tile of a level is found again from its extent, whichever side rows   *)
(* are counted from, where the levels before its own differ from it by at  *)
(* least a pixel over the side of a tile.                                  *)
THEOREM TilesAreFoundFromTheirExtent ==
  ASSUME NEW g, IsGrid(g), DOMAIN g.levels \subseteq Int, NEW z \in DOMAIN g.levels, NEW t \in TilesOf(g, z),
         \A i \in DOMAIN g.levels :
           i < z => Distance(Resolution(g, i), Resolution(g, z)) * Larger(g.tile_sx, g.tile_sy) >= Resolution(g, z)
  PROVE  GetCell(g, GetExtent(g, t.x, t.y, z)) = {t}
<1> DEFINE e == GetExtent(g, t.x, t.y, z)
           u == UnitWidth(g, z)
           v == UnitHeight(g, z)
           r == Resolution(g, z)
           near == LevelsNear(g, r)
           x == t.x
           y == t.y
           dx == e.minx - g.extent.minx
           dy == IF TopLeft(g) THEN g.extent.maxy - e.maxy ELSE e.miny - g.extent.miny
<1>1. r \in Side /\ u \in Side /\ v \in Side BY UnitsOf
<1>2. IsExtent(g.extent) BY DEF IsGrid
<1>3. x \in Nat /\ y \in Nat /\ t = [x |-> x, y |-> y, z |-> z] BY DEF TilesOf
<1>4. /\ e.minx = g.extent.minx + x * u /\ e.maxy = e.miny + v
      /\ e.miny = IF TopLeft(g) THEN g.extent.maxy - (y + 1) * v ELSE g.extent.miny + y * v
      /\ IsExtent(e) /\ HorizontalResolution(e, g.tile_sx) = r /\ VerticalResolution(e, g.tile_sy) = r
  BY <1>3, ExtentOfTile
<1>5. ResolutionOf(e, g.tile_sx, g.tile_sy) = r BY <1>4, Zenon DEF ResolutionOf, Larger
<1>6. First(near) = z /\ near # {}
  <2>1. z \in near
    <3>1. Distance(r, r) = 0 BY <1>1 DEF Distance, Side
    <3>2. Larger(g.tile_sx, g.tile_sy) \in Int BY DEF Larger, IsGrid, Side
    <3>3. Distance(r, r) * Larger(g.tile_sx, g.tile_sy) < r BY <1>1, <3>1, <3>2 DEF Side
    <3> QED BY <3>3, Zenon DEF LevelsNear
  <2>2. ASSUME NEW i \in near PROVE z <= i
    <3>1. /\ i \in DOMAIN g.levels /\ i \in Int /\ z \in Int
          /\ Distance(Resolution(g, i), r) * Larger(g.tile_sx, g.tile_sy) < r
      BY DEF LevelsNear
    <3>2. Distance(Resolution(g, i), r) \in Int /\ Larger(g.tile_sx, g.tile_sy) \in Int
      BY <1>1, <3>1 DEF Distance, Larger, IsGrid, Side, Resolution
    <3>3. ~(i < z) BY <1>1, <3>1, <3>2 DEF Side
    <3> QED BY <3>1, <3>3
  <2>3. near \subseteq Int BY DEF LevelsNear
  <2> HIDE DEF near
  <2>4. First(near) \in near /\ First(near) <= z BY <2>1, <2>2 DEF First
  <2> QED BY <2>1, <2>2, <2>3, <2>4
<1> HIDE DEF e, u, v, r, near, x, y
<1>7. x * u \in Nat /\ y * v \in Nat BY <1>1, <1>3 DEF Side
<1>8. dx = x * u BY <1>2, <1>4, <1>7 DEF IsExtent
<1>9. dy = y * v
  <2>1. (y + 1) * v = y * v + v BY <1>1, <1>3 DEF Side
  <2>2. CASE TopLeft(g) BY <1>1, <1>2, <1>4, <1>7, <2>1, <2>2 DEF IsExtent, Side
  <2>3. CASE ~TopLeft(g) BY <1>2, <1>4, <1>7, <2>3 DEF IsExtent
  <2> QED BY <2>2, <2>3
<1> HIDE DEF dx, dy
<1>10. ASSUME NEW q \in Nat, NEW k \in Side PROVE Trunc(2 * (q * k) + k, 2 * k) = q
  <2>1. q * k \in Nat /\ 2 * k \in Side /\ 2 * (q * k) + k \in Nat BY DEF Side
  <2>2. q * (2 * k) = 2 * (q * k) BY DEF Side
  <2>3. (2 * (q * k) + k) \div (2 * k) = q BY <2>1, <2>2, QuotientIs DEF Side
  <2> QED BY <2>1, <2>3 DEF Trunc
<1>11. Trunc(2 * dx + u, 2 * u) = x /\ Trunc(2 * dy + v, 2 * v) = y BY <1>1, <1>3, <1>8, <1>9, <1>10
<1>12. Distance(dx, x * u) = 0 /\ Distance(dy, y * v) = 0 BY <1>7, <1>8, <1>9 DEF Distance
<1>13. ~(Distance(dx, x * u) > r \/ Distance(dy, y * v) > r) BY <1>1, <1>12 DEF Side
<1>14. LevelsNear(g, ResolutionOf(e, g.tile_sx, g.tile_sy)) = near BY <1>5, Zenon DEF near, r
<1>15. GetCell(g, e) = {[x |-> x, y |-> y, z |-> z]}
  BY <1>6, <1>11, <1>13, <1>14, Zenon DEF GetCell, dx, dy, u, v, r
<1> QED BY <1>3, <1>15 DEF e, x, y

(* A coordinate that the column or row q of k units reaches beyond.        *)
LEMMA TruncBelow ==
  ASSUME NEW a \in Int, NEW k \in Side, NEW q \in Nat, a < (q + 1) * k
  PROVE  Trunc(a, k) \in Int /\ Trunc(a, k) <= q
<1>1. CASE a >= 0
  <2>1. a \div k \in Int /\ k * (a \div k) <= a BY Quotient
  <2>2. ~(a \div k >= q + 1) BY <2>1 DEF Side
  <2> QED BY <1>1, <2>1, <2>2 DEF Trunc
<1>2. CASE a < 0
  <2>1. (-a) \div k \in Int /\ 0 \div k <= (-a) \div k BY <1>2, Quotient, QuotientOrder
  <2>2. 0 \div k = 0 BY QuotientIs DEF Side
  <2> QED BY <1>2, <2>1, <2>2 DEF Trunc
<1> QED BY <1>1, <1>2

LEMMA TruncAbove ==
  ASSUME NEW a \in Int, NEW k \in Side, NEW q \in Nat, q * k < a
  PROVE  Trunc(a, k) \in Int /\ q <= Trunc(a, k)
<1>1. q * k \in Nat BY DEF Side
<1>2. a >= 0 BY <1>1
<1>3. a \div k \in Int /\ a < k * (a \div k) + k BY Quotient
<1>4. ~(q >= (a \div k) + 1) BY <1>3 DEF Side
<1> QED BY <1>2, <1>3, <1>4 DEF Trunc

LEMMA Within ==
  ASSUME NEW a \in Int, NEW b \in Int, NEW q \in Int, (a <= q /\ q <= b) \/ (b <= q /\ q <= a)
  PROVE  q \in Smaller(a, b) .. Larger(a, b)
BY DEF Smaller, Larger

(* Whatever a map shows, however it lies: of the level that is chosen, all *)
(* valid tiles that it meets are among its tiles.                          *)
THEOREM MapsHaveTheTilesTheyMeet ==
  ASSUME NEW link, NEW bbox, NEW w, NEW h, IsGrid(link.grid), IsExtent(bbox),
         NEW z, z = ClosestLevel(link, ResolutionOf(bbox, w, h)), z \in DOMAIN link.grid.levels,
         NEW x \in Nat, NEW y \in Nat, Valid(link, x, y, z),
         LET e == GetExtent(link.grid, x, y, z)
         IN  e.minx < bbox.maxx /\ bbox.minx < e.maxx /\ e.miny < bbox.maxy /\ bbox.miny < e.maxy
  PROVE  [x |-> x, y |-> y, z |-> z] \in GetMapTiles(link, bbox, w, h)
<1> DEFINE g == link.grid
           e == GetExtent(g, x, y, z)
           u == UnitWidth(g, z)
           v == UnitHeight(g, z)
           bl == GetXY(g, bbox.minx, bbox.miny, z)
           tr == GetXY(g, bbox.maxx, bbox.maxy, z)
           t == [x |-> x, y |-> y, z |-> z]
<1>1. u \in Side /\ v \in Side BY UnitsOf
<1>2. IsExtent(g.extent) BY DEF IsGrid
<1>3. /\ e.minx = g.extent.minx + x * u /\ e.maxx = e.minx + u /\ e.maxy = e.miny + v
      /\ e.miny = IF TopLeft(g) THEN g.extent.maxy - (y + 1) * v ELSE g.extent.miny + y * v
  BY ExtentOfTile
<1>4. e.minx < bbox.maxx /\ bbox.minx < e.maxx /\ e.miny < bbox.maxy /\ bbox.miny < e.maxy OBVIOUS
<1>5. /\ bl.x = Trunc(bbox.minx - g.extent.minx, u) /\ tr.x = Trunc(bbox.maxx - g.extent.minx, u)
      /\ bl.y = Trunc(IF TopLeft(g) THEN g.extent.maxy - bbox.miny ELSE bbox.miny - g.extent.miny, v)
      /\ tr.y = Trunc(IF TopLeft(g) THEN g.extent.maxy - bbox.maxy ELSE bbox.maxy - g.extent.miny, v)
  BY DEF GetXY
<1>6. z = ClosestLevel(link, ResolutionOf(bbox, w, h)) /\ Valid(link, x, y, z) OBVIOUS
<1> HIDE DEF e, u, v, bl, tr, g
<1>7. x * u \in Nat /\ y * v \in Nat /\ (x + 1) * u = x * u + u /\ (y + 1) * v = y * v + v BY <1>1 DEF Side
<1>8. bl.x \in Int /\ bl.x <= x
  <2>1. bbox.minx - g.extent.minx < (x + 1) * u BY <1>1, <1>2, <1>3, <1>4, <1>7 DEF IsExtent, Side
  <2>2. bbox.minx - g.extent.minx \in Int BY <1>2 DEF IsExtent
  <2> QED BY <1>1, <1>5, <2>1, <2>2, TruncBelow
<1>9. tr.x \in Int /\ x <= tr.x
  <2>1. x * u < bbox.maxx - g.extent.minx BY <1>2, <1>3, <1>4, <1>7 DEF IsExtent
  <2>2. bbox.maxx - g.extent.minx \in Int BY <1>2 DEF IsExtent
  <2> QED BY <1>1, <1>5, <2>1, <2>2, TruncAbove
<1>10. bl.y \in Int /\ tr.y \in Int /\ ((bl.y <= y /\ y <= tr.y) \/ (tr.y <= y /\ y <= bl.y))
  <2>1. CASE TopLeft(g)
    <3>1. g.extent.maxy - bbox.maxy < (y + 1) * v /\ g.extent.maxy - bbox.maxy \in Int
      BY <1>1, <1>2, <1>3, <1>4, <1>7, <2>1 DEF IsExtent, Side
    <3>2. y * v < g.extent.maxy - bbox.miny /\ g.extent.maxy - bbox.miny \in Int
      BY <1>1, <1>2, <1>3, <1>4, <1>7, <2>1 DEF IsExtent, Side
    <3>3. tr.y \in Int /\ tr.y <= y BY <1>1, <1>5, <2>1, <3>1, TruncBelow
    <3>4. bl.y \in Int /\ y <= bl.y BY <1>1, <1>5, <2>1, <3>2, TruncAbove
    <3> QED BY <3>3, <3>4
  <2>2. CASE ~TopLeft(g)
    <3>1. bbox.miny - g.extent.miny < (y + 1) * v /\ bbox.miny - g.extent.miny \in Int
      BY <1>1, <1>2, <1>3, <1>4, <1>7, <2>2 DEF IsExtent, Side
    <3>2. y * v < bbox.maxy - g.extent.miny /\ bbox.maxy - g.extent.miny \in Int
      BY <1>1, <1>2, <1>3, <1>4, <1>7, <2>2 DEF IsExtent, Side
    <3>3. bl.y \in Int /\ bl.y <= y BY <1>1, <1>5, <2>2, <3>1, TruncBelow
    <3>4. tr.y \in Int /\ y <= tr.y BY <1>1, <1>5, <2>2, <3>2, TruncAbove
    <3> QED BY <3>3, <3>4
  <2> QED BY <2>1, <2>2
<1>11. x \in Smaller(bl.x, tr.x) .. Larger(bl.x, tr.x) /\ y \in Smaller(bl.y, tr.y) .. Larger(bl.y, tr.y)
  BY <1>8, <1>9, <1>10, Within
<1> DEFINE box == [x : Smaller(bl.x, tr.x) .. Larger(bl.x, tr.x), y : Smaller(bl.y, tr.y) .. Larger(bl.y, tr.y),
                   z : {z}]
<1>12. t \in box BY <1>11
<1>13. GetMapTiles(link, bbox, w, h) = {s \in box : Valid(link, s.x, s.y, s.z)}
  BY <1>6, Zenon DEF GetMapTiles, bl, tr, g
<1>14. Valid(link, t.x, t.y, t.z) BY <1>6
<1> HIDE DEF box, t
<1>15. t \in GetMapTiles(link, bbox, w, h) BY <1>12, <1>13, <1>14
<1> QED BY <1>15 DEF t

-----------------------------------------------------------------------------
(* Names tell tiles apart.                                                  *)

Thousands(a) == <<a \div 1000000, (a \div 1000) % 1000, a % 1000>>

LEMMA SplitAtThousands ==
  ASSUME NEW a \in Nat, NEW b \in Nat, Thousands(a) = Thousands(b)
  PROVE  a = b
<1>1. a \div 1000000 = b \div 1000000 /\ (a \div 1000) % 1000 = (b \div 1000) % 1000 /\ a % 1000 = b % 1000
  BY SMT DEF Thousands
<1>2. ASSUME NEW c \in Nat PROVE c = 1000000 * (c \div 1000000) + 1000 * ((c \div 1000) % 1000) + (c % 1000)
  BY SMT
<1> QED BY <1>1, <1>2, SMT

LEMMA AtBeginning ==
  ASSUME NEW S, NEW a \in Seq(S), NEW p \in Seq(S), NEW i \in 1 .. Len(a)
  PROVE  (a \o p)[i] = a[i]
<1>1. Len(a) \in Nat /\ Len(p) \in Nat BY LenProperties
<1>2. i \in 1 .. Len(a) + Len(p) /\ i <= Len(a) BY <1>1
<1>3. (a \o p)[i] = IF i <= Len(a) THEN a[i] ELSE p[i - Len(a)] BY <1>2, ConcatProperties
<1> QED BY <1>2, <1>3

LEMMA AtEnd ==
  ASSUME NEW S, NEW a \in Seq(S), NEW p \in Seq(S), NEW i \in 1 .. Len(p)
  PROVE  (a \o p)[Len(a) + i] = p[i]
<1>1. Len(a) \in Nat /\ Len(p) \in Nat BY LenProperties
<1> DEFINE n == Len(a) + i
<1>2. n \in 1 .. Len(a) + Len(p) /\ ~(n <= Len(a)) /\ n - Len(a) = i BY <1>1
<1> HIDE DEF n
<1>3. (a \o p)[n] = IF n <= Len(a) THEN a[n] ELSE p[n - Len(a)] BY <1>2, ConcatProperties
<1>4. (a \o p)[n] = p[i] BY <1>2, <1>3
<1> QED BY <1>4 DEF n

(* The directories of the dimensions.                                      *)
Directories(tile) == [i \in DOMAIN Dims(tile) |-> Part("directory", Sanitized(Backwards(Dims(tile))[i]))]

(* A name of a tileset, a grid, directories and three more parts.          *)
Named(tile, a, b, c) == BaseKey(tile) \o <<a, b, c>>

LEMMA NamesOfFiles ==
  ASSUME NEW V, NEW s, NEW t, Dims(s) \in Seq(V), Dims(t) \in Seq(V),
         NEW a, NEW b, NEW c, NEW d, NEW e, NEW f, Named(s, a, b, c) = Named(t, d, e, f)
  PROVE  s.tileset.name = t.tileset.name /\ s.grid_link.grid.name = t.grid_link.grid.name
         /\ a = d /\ b = e /\ c = f
<1> DEFINE ps == Directories(s)
           pt == Directories(t)
           hs == <<Part("tileset", s.tileset.name), Part("grid", s.grid_link.grid.name)>>
           ht == <<Part("tileset", t.tileset.name), Part("grid", t.grid_link.grid.name)>>
           bs == BaseKey(s)
           bt == BaseKey(t)
           p == <<a, b, c>>
           q == <<d, e, f>>
           S == {ps[i] : i \in DOMAIN ps} \cup {pt[i] : i \in DOMAIN pt}
                \cup {hs[1], hs[2], ht[1], ht[2], p[1], p[2], p[3], q[1], q[2], q[3]}
<1>1. bs = hs \o ps /\ bt = ht \o pt BY DEF BaseKey, Directories
<1>2. /\ DOMAIN ps = 1 .. Len(Dims(s)) /\ DOMAIN pt = 1 .. Len(Dims(t))
      /\ ps = [i \in DOMAIN ps |-> ps[i]] /\ pt = [i \in DOMAIN pt |-> pt[i]]
  BY DEF Directories
<1>3. Len(Dims(s)) \in Nat /\ Len(Dims(t)) \in Nat OBVIOUS
<1>4. /\ hs = <<hs[1], hs[2]>> /\ ht = <<ht[1], ht[2]>> /\ Len(hs) = 2 /\ Len(ht) = 2
      /\ p = <<p[1], p[2], p[3]>> /\ q = <<q[1], q[2], q[3]>> /\ Len(p) = 3 /\ Len(q) = 3
  OBVIOUS
<1>5. /\ hs[1] = <<"tileset", s.tileset.name>> /\ ht[1] = <<"tileset", t.tileset.name>>
      /\ hs[2] = <<"grid", s.grid_link.grid.name>> /\ ht[2] = <<"grid", t.grid_link.grid.name>>
      /\ p[1] = a /\ p[2] = b /\ p[3] = c /\ q[1] = d /\ q[2] = e /\ q[3] = f
  BY DEF Part
<1>6. bs \o p = bt \o q BY DEF Named
<1> HIDE DEF ps, pt, hs, ht, bs, bt, p, q
<1>7. ps \in Seq(S) /\ pt \in Seq(S)
  <2>1. (\A i \in DOMAIN ps : ps[i] \in S) /\ (\A i \in DOMAIN pt : pt[i] \in S) OBVIOUS
  <2> HIDE DEF S
  <2>2. ps \in [1 .. Len(Dims(s)) -> S] /\ pt \in [1 .. Len(Dims(t)) -> S] BY <1>2, <2>1
  <2> QED BY <1>3, <2>2, SeqDef
<1>8. hs \in Seq(S) /\ ht \in Seq(S) /\ p \in Seq(S) /\ q \in Seq(S)
  <2>1. /\ hs[1] \in S /\ hs[2] \in S /\ ht[1] \in S /\ ht[2] \in S
        /\ p[1] \in S /\ p[2] \in S /\ p[3] \in S /\ q[1] \in S /\ q[2] \in S /\ q[3] \in S
    OBVIOUS
  <2> HIDE DEF S
  <2>2. <<hs[1], hs[2]>> \in Seq(S) /\ <<ht[1], ht[2]>> \in Seq(S)
        /\ <<p[1], p[2], p[3]>> \in Seq(S) /\ <<q[1], q[2], q[3]>> \in Seq(S)
    BY <2>1
  <2> QED BY <1>4, <2>2
<1> HIDE DEF S
<1>9. bs \in Seq(S) /\ bt \in Seq(S) BY <1>1, <1>7, <1>8, ConcatProperties
<1>10. Len(bs) = Len(bt) /\ Len(bs) \in Nat /\ Len(bs) >= 2
  <2>1. Len(bs \o p) = Len(bs) + Len(p) BY <1>8, <1>9, ConcatProperties, Zenon
  <2>2. Len(bt \o q) = Len(bt) + Len(q) BY <1>8, <1>9, ConcatProperties, Zenon
  <2>3. Len(bs) \in Nat /\ Len(bt) \in Nat /\ Len(ps) \in Nat BY <1>7, <1>9, LenProperties
  <2>4. Len(bs) = 2 + Len(ps) BY <1>1, <1>4, <1>7, <1>8, ConcatProperties
  <2>5. Len(bs \o p) = Len(bt \o q) BY <1>6
  <2> QED BY <1>4, <2>1, <2>2, <2>3, <2>4, <2>5
<1>11. ASSUME NEW i \in 1 .. 3 PROVE p[i] = q[i]
  <2>1. i \in 1 .. Len(p) /\ i \in 1 .. Len(q) BY <1>4
  <2>2. (bs \o p)[Len(bs) + i] = p[i] BY <1>8, <1>9, <2>1, AtEnd, Zenon
  <2>3. (bt \o q)[Len(bt) + i] = q[i] BY <1>8, <1>9, <2>1, AtEnd, Zenon
  <2> QED BY <1>6, <1>10, <2>2, <2>3
<1>12. ASSUME NEW i \in 1 .. 2 PROVE hs[i] = ht[i]
  <2>1. i \in 1 .. Len(bs) /\ i \in 1 .. Len(bt) BY <1>10
  <2>2. (bs \o p)[i] = bs[i] BY <1>8, <1>9, <2>1, AtBeginning
  <2>3. (bt \o q)[i] = bt[i] BY <1>8, <1>9, <2>1, AtBeginning
  <2>4. (hs \o ps)[i] = hs[i] BY <1>4, <1>7, <1>8, AtBeginning
  <2>5. (ht \o pt)[i] = ht[i] BY <1>4, <1>7, <1>8, AtBeginning
  <2> QED BY <1>1, <1>6, <2>2, <2>3, <2>4, <2>5
<1>13. p[1] = q[1] /\ p[2] = q[2] /\ p[3] = q[3] /\ hs[1] = ht[1] /\ hs[2] = ht[2] BY <1>11, <1>12
<1> QED BY <1>5, <1>13

(* Two tiles that a disk cache or S3 keeps under one name, in the layout   *)
(* of tilecache or of ArcGIS, are the same tile of the same grid and       *)
(* tileset, however many digits its numbers have and dimensions it has.    *)
THEOREM FilesTellTilesApart ==
  ASSUME NEW V, NEW s, NEW t, Dims(s) \in Seq(V), Dims(t) \in Seq(V),
         s.x \in Nat, s.y \in Nat, t.x \in Nat, t.y \in Nat,
         NEW cache, cache.type \in {"disk", "s3"}, cache.layout \in {"tilecache", "arcgis"},
         KeyOf(cache, s) = KeyOf(cache, t)
  PROVE  s.tileset.name = t.tileset.name /\ s.grid_link.grid.name = t.grid_link.grid.name
         /\ s.x = t.x /\ s.y = t.y /\ s.z = t.z
<1>1. CASE cache.layout = "tilecache"
  <2>1. TilecacheKey(s) = TilecacheKey(t) BY <1>1 DEF KeyOf
  <2>2. ASSUME NEW r
        PROVE  TilecacheKey(r) = Named(r, Part("z", r.z), Part("x", Thousands(r.x)), Part("y", Thousands(r.y)))
    BY SMT DEF TilecacheKey, Thousands, Named
  <2>3. Named(s, Part("z", s.z), Part("x", Thousands(s.x)), Part("y", Thousands(s.y)))
        = Named(t, Part("z", t.z), Part("x", Thousands(t.x)), Part("y", Thousands(t.y)))
    BY <2>1, <2>2, Zenon
  <2>4. /\ s.tileset.name = t.tileset.name /\ s.grid_link.grid.name = t.grid_link.grid.name
        /\ Part("z", s.z) = Part("z", t.z) /\ Part("x", Thousands(s.x)) = Part("x", Thousands(t.x))
        /\ Part("y", Thousands(s.y)) = Part("y", Thousands(t.y))
    BY <2>3, NamesOfFiles
  <2>5. s.z = t.z /\ Thousands(s.x) = Thousands(t.x) /\ Thousands(s.y) = Thousands(t.y) BY <2>4 DEF Part
  <2> QED BY <2>4, <2>5, SplitAtThousands
<1>2. CASE cache.layout = "arcgis"
  <2>1. ArcgisKey(s) = ArcgisKey(t) BY <1>2 DEF KeyOf
  <2>2. Named(s, Part("L", s.z), Part("R", s.y), Part("C", s.x))
        = Named(t, Part("L", t.z), Part("R", t.y), Part("C", t.x))
    BY <2>1 DEF ArcgisKey, Named
  <2>3. /\ s.tileset.name = t.tileset.name /\ s.grid_link.grid.name = t.grid_link.grid.name
        /\ Part("L", s.z) = Part("L", t.z) /\ Part("R", s.y) = Part("R", t.y) /\ Part("C", s.x) = Part("C", t.x)
    BY <2>2, NamesOfFiles
  <2> QED BY <2>3 DEF Part
<1> QED BY <1>1, <1>2

(* The same of memcached and of the rows of SQLite, which name the tileset *)
(* and the grid as well.                                                   *)
THEOREM KeysTellTilesApart ==
  ASSUME NEW s, NEW t, NEW cache, cache.type \in {"memcache", "sqlite3"}, KeyOf(cache, s) = KeyOf(cache, t)
  PROVE  s.tileset.name = t.tileset.name /\ s.grid_link.grid.name = t.grid_link.grid.name
         /\ s.x = t.x /\ s.y = t.y /\ s.z = t.z
<1>1. PICK sanitized : TileKey(s, None, sanitized) = TileKey(t, None, sanitized)
  <2>1. CASE cache.type = "memcache" BY <2>1 DEF KeyOf
  <2>2. CASE cache.type = "sqlite3" BY <2>2 DEF KeyOf
  <2> QED BY <2>1, <2>2
<1> QED BY <1>1 DEF TileKey, Part

(* Numbers of one quotient lie close together.                             *)
LEMMA Together ==
  ASSUME NEW a \in Int, NEW b \in Int, NEW k \in Side, a \div k = b \div k
  PROVE  a - b < k /\ b - a < k
<1>1. a \div k \in Int /\ k * (a \div k) <= a /\ a < k * (a \div k) + k BY Quotient
<1>2. k * (b \div k) <= b /\ b < k * (b \div k) + k BY Quotient
<1> DEFINE c == k * (a \div k)
<1>3. c \in Int /\ c <= a /\ a < c + k /\ c <= b /\ b < c + k BY <1>1, <1>2 DEF Side
<1> HIDE DEF c
<1> QED BY <1>3 DEF Side

(* Columns of one file, m columns in a level and k in a file.              *)
LEMMA SameColumn ==
  ASSUME NEW m \in Nat, NEW a \in 0 .. m - 1, NEW b \in 0 .. m - 1, NEW k \in Side, a - b < k, b - a < k,
         a % Smaller(k, m) = b % Smaller(k, m)
  PROVE  a = b
<1>1. CASE k <= m
  <2>1. Smaller(k, m) = k BY <1>1 DEF Smaller, Side
  <2>2. a % k = b % k BY <2>1
  <2>3. a = k * (a \div k) + (a % k) /\ b = k * (b \div k) + (b % k) /\ a % k \in 0 .. k - 1 BY RestOf
  <2> DEFINE x == a \div k
             y == b \div k
  <2>4. x \in Int /\ y \in Int BY Quotient
  <2>5. k * x - k * y < k /\ k * y - k * x < k BY <2>2, <2>3, <2>4 DEF Side
  <2> HIDE DEF x, y
  <2>6. k * (x - y) < k /\ k * (y - x) < k BY <2>4, <2>5 DEF Side
  <2>7. ~(x - y >= 1) /\ ~(y - x >= 1) BY <2>4, <2>6 DEF Side
  <2>8. x = y BY <2>4, <2>7
  <2> QED BY <2>2, <2>3, <2>8 DEF x, y
<1>2. CASE ~(k <= m)
  <2>1. Smaller(k, m) = m BY <1>2 DEF Smaller, Side
  <2>2. \A c \in 0 .. m - 1 : c % m = c OBVIOUS
  <2> QED BY <2>1, <2>2
<1> QED BY <1>1, <1>2

(* A row of k columns and a column of it.                                  *)
LEMMA RowAndColumn ==
  ASSUME NEW k \in Side, NEW a \in Int, NEW b \in Int, NEW i \in 0 .. k - 1, NEW j \in 0 .. k - 1,
         a * k + i = b * k + j
  PROVE  a = b /\ i = j
<1>1. (a * k + i) \div k = a /\ (b * k + j) \div k = b BY QuotientOf
<1>2. a = b BY <1>1
<1> QED BY <1>2 DEF Side

(* The parts of the name of a TIFF file that are about columns, and rows.  *)
Across == {"div_x", "inv_div_x", "x", "inv_x"}
Down == {"div_y", "inv_div_y", "y", "inv_y"}

LEMMA SameFile ==
  ASSUME NEW s, NEW t, NEW n, IsSize(n), s.x \in Int, t.x \in Int, s.y \in Int, t.y \in Int,
         LevelOf(s) = LevelOf(t), LevelOf(s).maxx \in Int, LevelOf(s).maxy \in Int, NEW d, NEW e
  PROVE  /\ \A p \in Across : TiffPlaceholder(p, s, n, d) = TiffPlaceholder(p, t, n, e)
                              => s.x - t.x < n.x /\ t.x - s.x < n.x
         /\ \A p \in Down : TiffPlaceholder(p, s, n, d) = TiffPlaceholder(p, t, n, e)
                            => s.y - t.y < n.y /\ t.y - s.y < n.y
<1> DEFINE a == LevelOf(s).maxx - s.x - 1
           b == LevelOf(s).maxx - t.x - 1
           f == LevelOf(s).maxy - s.y - 1
           h == LevelOf(s).maxy - t.y - 1
<1>1. n.x \in Side /\ n.y \in Side BY DEF IsSize
<1>2. a \in Int /\ b \in Int /\ f \in Int /\ h \in Int OBVIOUS
<1>3. ASSUME NEW c \in Int, NEW g \in Int, NEW k \in Side, NEW l \in Side, (c \div k) * l = (g \div k) * l
      PROVE  c \div k = g \div k
  <2>1. c \div k \in Int /\ g \div k \in Int BY Quotient
  <2> QED BY <1>3, <2>1 DEF Side
<1>4. ASSUME NEW p \in Across, TiffPlaceholder(p, s, n, d) = TiffPlaceholder(p, t, n, e)
      PROVE  s.x - t.x < n.x /\ t.x - s.x < n.x
  <2>1. s.x \div n.x = t.x \div n.x \/ a \div n.x = b \div n.x
    <3>1. CASE p = "div_x" BY <1>4, <3>1 DEF TiffPlaceholder, Part
    <3>2. CASE p = "inv_div_x" BY <1>4, <3>2 DEF TiffPlaceholder, Part
    <3>3. CASE p = "x"
      <4>1. (s.x \div n.x) * n.x = (t.x \div n.x) * n.x BY <1>4, <3>3 DEF TiffPlaceholder, Part
      <4> QED BY <1>1, <1>3, <4>1
    <3>4. CASE p = "inv_x"
      <4>1. (a \div n.x) * n.y = (b \div n.x) * n.y BY <1>4, <3>4 DEF TiffPlaceholder, Part
      <4> HIDE DEF a, b
      <4> QED BY <1>1, <1>2, <1>3, <4>1
    <3> QED BY <3>1, <3>2, <3>3, <3>4 DEF Across
  <2>2. CASE s.x \div n.x = t.x \div n.x BY <1>1, <2>2, Together
  <2>3. CASE a \div n.x = b \div n.x
    <3>1. a - b = t.x - s.x /\ b - a = s.x - t.x OBVIOUS
    <3> HIDE DEF a, b
    <3>2. a - b < n.x /\ b - a < n.x BY <1>1, <1>2, <2>3, Together
    <3> QED BY <3>1, <3>2
  <2> QED BY <2>1, <2>2, <2>3
<1>5. ASSUME NEW p \in Down, TiffPlaceholder(p, s, n, d) = TiffPlaceholder(p, t, n, e)
      PROVE  s.y - t.y < n.y /\ t.y - s.y < n.y
  <2>1. s.y \div n.y = t.y \div n.y \/ f \div n.y = h \div n.y
    <3>1. CASE p = "div_y" BY <1>5, <3>1 DEF TiffPlaceholder, Part
    <3>2. CASE p = "inv_div_y" BY <1>5, <3>2 DEF TiffPlaceholder, Part
    <3>3. CASE p = "y"
      <4>1. (s.y \div n.y) * n.y = (t.y \div n.y) * n.y BY <1>5, <3>3 DEF TiffPlaceholder, Part
      <4> QED BY <1>1, <1>3, <4>1
    <3>4. CASE p = "inv_y"
      <4>1. (f \div n.y) * n.y = (h \div n.y) * n.y BY <1>5, <3>4 DEF TiffPlaceholder, Part
      <4> HIDE DEF f, h
      <4> QED BY <1>1, <1>2, <1>3, <4>1
    <3> QED BY <3>1, <3>2, <3>3, <3>4 DEF Down
  <2>2. CASE s.y \div n.y = t.y \div n.y BY <1>1, <2>2, Together
  <2>3. CASE f \div n.y = h \div n.y
    <3>1. f - h = t.y - s.y /\ h - f = s.y - t.y OBVIOUS
    <3> HIDE DEF f, h
    <3>2. f - h < n.y /\ h - f < n.y BY <1>1, <1>2, <2>3, Together
    <3> QED BY <3>1, <3>2
  <2> QED BY <2>1, <2>2, <2>3
<1> QED BY <1>4, <1>5

(* The parts of a TIFF tile's key.                                         *)
TiffKey(tile, template, n) == <<Part("place", TiffPlace(tile, n))>> \o TiffFile(tile, template, n)

LEMMA PartsOfTiffKey ==
  ASSUME NEW s, NEW t, NEW n, NEW V, NEW template \in Seq(V), TiffKey(s, template, n) = TiffKey(t, template, n)
  PROVE  TiffPlace(s, n) = TiffPlace(t, n) /\ \A i \in DOMAIN template : TiffFile(s, template, n)[i] = TiffFile(t, template, n)[i]
<1> DEFINE fs == TiffFile(s, template, n)
           ft == TiffFile(t, template, n)
           hs == <<Part("place", TiffPlace(s, n))>>
           ht == <<Part("place", TiffPlace(t, n))>>
           S == {fs[i] : i \in DOMAIN fs} \cup {ft[i] : i \in DOMAIN ft} \cup {hs[1], ht[1]}
<1>1. /\ DOMAIN fs = DOMAIN template /\ fs = [i \in DOMAIN fs |-> fs[i]]
      /\ DOMAIN ft = DOMAIN template /\ ft = [i \in DOMAIN ft |-> ft[i]]
  BY DEF TiffFile
<1>2. DOMAIN template = 1 .. Len(template) /\ Len(template) \in Nat BY LenProperties
<1>3. hs = <<hs[1]>> /\ ht = <<ht[1]>> /\ Len(hs) = 1 /\ Len(ht) = 1
      /\ hs[1] = <<"place", TiffPlace(s, n)>> /\ ht[1] = <<"place", TiffPlace(t, n)>>
  BY DEF Part
<1>4. hs \o fs = ht \o ft BY DEF TiffKey
<1> HIDE DEF fs, ft, hs, ht
<1>5. fs \in Seq(S) /\ ft \in Seq(S)
  <2>1. (\A i \in DOMAIN fs : fs[i] \in S) /\ (\A i \in DOMAIN ft : ft[i] \in S) OBVIOUS
  <2> HIDE DEF S
  <2>2. fs \in [1 .. Len(template) -> S] /\ ft \in [1 .. Len(template) -> S] BY <1>1, <1>2, <2>1
  <2> QED BY <1>2, <2>2, SeqDef
<1>6. Len(fs) = Len(template) /\ Len(ft) = Len(template) BY <1>1, <1>2, <1>5, LenProperties
<1>7. hs \in Seq(S) /\ ht \in Seq(S)
  <2>1. hs[1] \in S /\ ht[1] \in S OBVIOUS
  <2> HIDE DEF S
  <2>2. <<hs[1]>> \in Seq(S) /\ <<ht[1]>> \in Seq(S) BY <2>1
  <2> QED BY <1>3, <2>2
<1> HIDE DEF S
<1>8. ASSUME NEW i \in {1} PROVE hs[i] = ht[i]
  <2>1. i \in 1 .. Len(hs) /\ i \in 1 .. Len(ht) BY <1>3
  <2>2. (hs \o fs)[i] = hs[i] BY <1>5, <1>7, <2>1, AtBeginning, Zenon
  <2>3. (ht \o ft)[i] = ht[i] BY <1>5, <1>7, <2>1, AtBeginning, Zenon
  <2> QED BY <1>4, <2>2, <2>3
<1>9. ASSUME NEW i \in DOMAIN template PROVE fs[i] = ft[i]
  <2>1. i \in 1 .. Len(fs) /\ i \in 1 .. Len(ft) BY <1>2, <1>6
  <2>2. (hs \o fs)[Len(hs) + i] = fs[i] BY <1>5, <1>7, <2>1, AtEnd, Zenon
  <2>3. (ht \o ft)[Len(ht) + i] = ft[i] BY <1>5, <1>7, <2>1, AtEnd, Zenon
  <2> QED BY <1>3, <1>4, <2>2, <2>3
<1> QED BY <1>3, <1>8, <1>9 DEF fs, ft

(* Two places in files of one size.                                        *)
LEMMA SamePlace ==
  ASSUME NEW k \in Side, NEW l \in Side, NEW a \in 0 .. k - 1, NEW b \in 0 .. k - 1,
         NEW f \in 0 .. l - 1, NEW h \in 0 .. l - 1,
         (l - f - 1) * k + a = (l - h - 1) * k + b
  PROVE  a = b /\ f = h
<1> DEFINE u == l - f - 1
           v == l - h - 1
<1>1. u \in Int /\ v \in Int /\ (u = v => f = h) BY DEF Side
<1>2. u * k + a = v * k + b OBVIOUS
<1> HIDE DEF u, v
<1> QED BY <1>1, <1>2, RowAndColumn

(* Two tiles of one grid that have the same place in the same TIFF file    *)
(* are the same tile, however the template counts rows and columns and     *)
(* wherever a level ends within a file, if it has the level, and one part  *)
(* each about columns and about rows.                                      *)
THEOREM PlacesTellTilesApart ==
  ASSUME NEW s, NEW t, s.grid_link = t.grid_link, IsGrid(s.grid_link.grid),
         s.grid_link.grid.nlevels \in Int, DOMAIN s.grid_link.grid.levels \subseteq Int,
         s.z \in DOMAIN s.grid_link.grid.levels, t.z \in DOMAIN s.grid_link.grid.levels,
         s.x \in 0 .. LevelOf(s).maxx - 1, s.y \in 0 .. LevelOf(s).maxy - 1,
         t.x \in 0 .. LevelOf(t).maxx - 1, t.y \in 0 .. LevelOf(t).maxy - 1,
         NEW cache, cache.type = "tiff", IsSize(cache.count), NEW V, cache.template \in Seq(V),
         NEW i \in DOMAIN cache.template, cache.template[i] \in Across,
         NEW j \in DOMAIN cache.template, cache.template[j] \in Down,
         NEW k \in DOMAIN cache.template, cache.template[k] \in {"z", "inv_z"},
         KeyOf(cache, s) = KeyOf(cache, t)
  PROVE  s.x = t.x /\ s.y = t.y /\ s.z = t.z
<1> DEFINE n == cache.count
           template == cache.template
           across == Smaller(n.x, LevelOf(s).maxx)
           down == Smaller(n.y, LevelOf(s).maxy)
<1>1. TiffKey(s, template, n) = TiffKey(t, template, n)
  <2>1. KeyOf(cache, s) = TiffKey(s, template, n) BY SMT DEF KeyOf, TiffKey
  <2>2. KeyOf(cache, t) = TiffKey(t, template, n) BY SMT DEF KeyOf, TiffKey
  <2> QED BY <2>1, <2>2
<1>2. TiffPlace(s, n) = TiffPlace(t, n) /\ \A l \in DOMAIN template : TiffFile(s, template, n)[l] = TiffFile(t, template, n)[l]
  <2>1. template \in Seq(V) OBVIOUS
  <2> HIDE DEF n, template
  <2> QED BY <1>1, <2>1, PartsOfTiffKey
<1>3. PICK d, e : \A l \in DOMAIN template :
        TiffPlaceholder(template[l], s, n, d) = TiffPlaceholder(template[l], t, n, e)
  BY <1>2 DEF TiffFile
<1>4. s.z = t.z
  <2>1. TiffPlaceholder(template[k], s, n, d) = TiffPlaceholder(template[k], t, n, e) BY <1>3
  <2>2. s.z \in Int /\ t.z \in Int OBVIOUS
  <2>3. CASE template[k] = "z" BY <2>1, <2>3 DEF TiffPlaceholder, Placeholder, Part
  <2>4. CASE template[k] = "inv_z"
    <3>1. s.grid_link.grid.nlevels - s.z - 1 = s.grid_link.grid.nlevels - t.z - 1
      BY <2>1, <2>4 DEF TiffPlaceholder, Placeholder, Part
    <3> QED BY <2>2, <3>1
  <2> QED BY <2>3, <2>4
<1>5. /\ LevelOf(s) = LevelOf(t) /\ LevelOf(s).maxx \in Int /\ LevelOf(s).maxy \in Int
      /\ t.x \in 0 .. LevelOf(s).maxx - 1 /\ t.y \in 0 .. LevelOf(s).maxy - 1
  <2>1. LevelOf(s) = LevelOf(t) BY <1>4, Zenon DEF LevelOf
  <2>2. LevelOf(s).maxx \in Int /\ LevelOf(s).maxy \in Int BY DEF LevelOf, IsGrid
  <2> QED BY <2>1, <2>2, Zenon
<1>6. n.x \in Side /\ n.y \in Side BY DEF IsSize
<1> DEFINE w == LevelOf(s).maxx
           l == LevelOf(s).maxy
<1>7. /\ s.x \in Nat /\ t.x \in Nat /\ s.y \in Nat /\ t.y \in Nat /\ w \in Side /\ l \in Side /\ w \in Nat /\ l \in Nat
      /\ s.x \in 0 .. w - 1 /\ t.x \in 0 .. w - 1 /\ s.y \in 0 .. l - 1 /\ t.y \in 0 .. l - 1
  <2>1. /\ w \in Int /\ l \in Int /\ s.x \in 0 .. w - 1 /\ t.x \in 0 .. w - 1
        /\ s.y \in 0 .. l - 1 /\ t.y \in 0 .. l - 1
    BY <1>5, Zenon
  <2> HIDE DEF w, l
  <2> QED BY <2>1 DEF Side
<1>8. s.x - t.x < n.x /\ t.x - s.x < n.x /\ s.y - t.y < n.y /\ t.y - s.y < n.y
  <2>1. template[i] \in Across /\ template[j] \in Down OBVIOUS
  <2>2. /\ TiffPlaceholder(template[i], s, n, d) = TiffPlaceholder(template[i], t, n, e)
        /\ TiffPlaceholder(template[j], s, n, d) = TiffPlaceholder(template[j], t, n, e)
    BY <1>3
  <2>3. IsSize(n) OBVIOUS
  <2>4. s.x \in Int /\ t.x \in Int /\ s.y \in Int /\ t.y \in Int BY <1>7
  <2> HIDE DEF template, n
  <2> QED BY <1>5, <2>1, <2>2, <2>3, <2>4, SameFile
<1>9. across \in Side /\ down \in Side BY <1>6, <1>7 DEF Smaller
<1>10. /\ TiffPlace(s, n) = (down - (s.y % down) - 1) * across + (s.x % across)
       /\ TiffPlace(t, n) = (down - (t.y % down) - 1) * across + (t.x % across)
  BY <1>5 DEF TiffPlace
<1>11. s.x % across = t.x % across /\ s.y % down = t.y % down
  <2>1. s.x % across \in 0 .. across - 1 /\ t.x % across \in 0 .. across - 1
        /\ s.y % down \in 0 .. down - 1 /\ t.y % down \in 0 .. down - 1
    <3>1. s.x \in Int /\ t.x \in Int /\ s.y \in Int /\ t.y \in Int BY <1>7
    <3> HIDE DEF across, down
    <3> QED BY <1>9, <3>1, RestOf, Zenon
  <2> DEFINE a == s.x % across
             b == t.x % across
             f == s.y % down
             h == t.y % down
  <2>2. (down - f - 1) * across + a = (down - h - 1) * across + b BY <1>2, <1>10
  <2>3. a \in 0 .. across - 1 /\ b \in 0 .. across - 1 /\ f \in 0 .. down - 1 /\ h \in 0 .. down - 1 BY <2>1
  <2> HIDE DEF across, down
  <2> HIDE DEF a, b, f, h
  <2>4. a = b /\ f = h BY <1>9, <2>2, <2>3, SamePlace
  <2> QED BY <2>4 DEF a, b, f, h
<1>12. s.x = t.x
  <2>1. s.x % Smaller(n.x, w) = t.x % Smaller(n.x, w) BY <1>11
  <2> HIDE DEF across, w, n
  <2> QED BY <1>6, <1>7, <1>8, <2>1, SameColumn
<1>13. s.y = t.y
  <2>1. s.y % Smaller(n.y, l) = t.y % Smaller(n.y, l) BY <1>11
  <2> HIDE DEF down, l, n
  <2> QED BY <1>6, <1>7, <1>8, <2>1, SameColumn
<1> QED BY <1>4, <1>12, <1>13

-----------------------------------------------------------------------------
(* Pictures.                                                                *)

(* A picture, and what lies in it from a corner on.                        *)
Plain(w, h, px) == [w |-> w, h |-> h, px |-> px, is_elevation |-> FALSE]
CutOut(px, corner, w, h) ==
  [s \in Spots(w, h) |-> LET t == <<corner[1] + s[1], corner[2] + s[2]>> IN IF t \in DOMAIN px THEN px[t] ELSE Unknown]

LEMMA PartsOfPlain ==
  ASSUME NEW w, NEW h, NEW px
  PROVE  Plain(w, h, px).w = w /\ Plain(w, h, px).h = h /\ Plain(w, h, px).px = px
BY DEF Plain

LEMMA PlainIsPicture ==
  ASSUME NEW w, NEW h, NEW px
  PROVE  Plain(w, h, px).is_elevation = FALSE
BY DEF Plain

LEMMA PlainStays ==
  ASSUME NEW w, NEW h, NEW px
  PROVE  [Plain(w, h, px) EXCEPT !.is_elevation = FALSE] = Plain(w, h, px)
<1> DEFINE image == Plain(w, h, px)
<1>1. image = [field \in DOMAIN image |-> image[field]] BY DEF Plain
<1>2. image.is_elevation = FALSE BY PlainIsPicture
<1> HIDE DEF image
<1>3. [image EXCEPT !.is_elevation = FALSE] = image BY <1>1, <1>2
<1> QED BY <1>3 DEF image

(* An image of that size which shows what the pixels show.                 *)
ShowsAs(image, w, h, px) ==
  /\ image.w = w /\ image.h = h /\ DOMAIN image.px = DOMAIN px
  /\ \A s \in DOMAIN px : image.px[s] = Pixel(px[s].shows, image.px[s].alpha)

(* What a codec writes of a picture shows what the picture shows.          *)
LEMMA WrittenShowsTheSame ==
  ASSUME NEW cfg, NEW t, NEW w, NEW h, NEW px, Writable(t.format),
         \A s \in DOMAIN px : px[s] = Pixel(px[s].shows, px[s].alpha),
         ~Failed(WrittenAs(cfg, t, Plain(w, h, px)))
  PROVE  /\ WrittenAs(cfg, t, Plain(w, h, px)).value.type \in {"PNG", "JPEG"}
         /\ ShowsAs(WrittenAs(cfg, t, Plain(w, h, px)).value.image, w, h, px)
<1> DEFINE raw == Plain(w, h, px)
           member == MixedMember(t.format, raw)
<1>1. member.type \in Pictures BY SMT DEF Writable, MixedMember, Pictures
<1>2. PngEncode(raw).value.image = raw BY PlainStays DEF PngEncode, Good, Encoded
<1>3. JpegEncode(raw).value.image.w = w /\ JpegEncode(raw).value.image.h = h
      /\ JpegEncode(raw).value.image.px = [s \in DOMAIN px |-> Flat(px[s])]
  BY PartsOfPlain DEF JpegEncode, Good, Encoded, Image, Tabled
<1>4. Failed(RawEncode(raw)) /\ Failed(JsonEncode(raw))
  <2>1. raw.is_elevation = FALSE BY PlainIsPicture
  <2> HIDE DEF raw
  <2> QED BY <2>1 DEF RawEncode, JsonEncode, Failed, Bad
<1>5. Write(t.format, raw) \in {PngEncode(raw), JpegEncode(raw), RawEncode(raw), JsonEncode(raw)}
  <2> HIDE DEF raw
  <2> QED BY <1>1, Zenon DEF Write, Pictures
<1>6. WrittenAs(cfg, t, raw) \in {PngEncode(raw), JpegEncode(raw)}
  <2>1. ~Failed(WrittenAs(cfg, t, raw)) OBVIOUS
  <2> HIDE DEF raw
  <2> QED BY <1>4, <1>5, <2>1, Zenon DEF WrittenAs
<1>7. \A s \in DOMAIN px : Flat(px[s]) = Pixel(px[s].shows, "full")
  <2> SUFFICES ASSUME NEW s \in DOMAIN px PROVE Flat(px[s]) = Pixel(px[s].shows, "full") OBVIOUS
  <2>1. px[s] = Pixel(px[s].shows, px[s].alpha) OBVIOUS
  <2> DEFINE shows == px[s].shows
             alpha == px[s].alpha
  <2> HIDE DEF shows, alpha
  <2>2. [Pixel(shows, alpha) EXCEPT !.alpha = "full"] = Pixel(shows, "full") BY DEF Pixel
  <2> QED BY <2>1, <2>2, Zenon DEF Flat, shows, alpha
<1>9. PngEncode(raw).value.type = "PNG" /\ JpegEncode(raw).value.type = "JPEG"
  BY DEF PngEncode, JpegEncode, Good, Encoded
<1>10. WrittenAs(cfg, t, raw).value.type \in {"PNG", "JPEG"}
  <2> HIDE DEF raw
  <2> QED BY <1>6, <1>9, Zenon
<1>11. CASE WrittenAs(cfg, t, raw) = PngEncode(raw)
  <2>1. WrittenAs(cfg, t, raw).value.image = raw BY <1>2, <1>11, Zenon
  <2>2. raw.w = w /\ raw.h = h /\ raw.px = px BY PartsOfPlain
  <2>3. \A s \in DOMAIN px : px[s] = Pixel(px[s].shows, px[s].alpha) OBVIOUS
  <2> HIDE DEF raw
  <2>4. ShowsAs(raw, w, h, px) BY <2>2, <2>3, Zenon DEF ShowsAs
  <2> QED BY <1>10, <2>1, <2>4, Zenon DEF raw
<1>12. CASE WrittenAs(cfg, t, raw) = JpegEncode(raw)
  <2> DEFINE image == JpegEncode(raw).value.image
  <2>1. image.w = w /\ image.h = h /\ image.px = [s \in DOMAIN px |-> Flat(px[s])] BY <1>3
  <2> HIDE DEF image
  <2>2. DOMAIN image.px = DOMAIN px /\ \A s \in DOMAIN px : image.px[s] = Flat(px[s]) BY <2>1
  <2>5. \A s \in DOMAIN px : Pixel(px[s].shows, "full").alpha = "full" BY DEF Pixel
  <2>6. \A s \in DOMAIN px : image.px[s] = Pixel(px[s].shows, image.px[s].alpha) BY <1>7, <2>2, <2>5, Zenon
  <2>3. WrittenAs(cfg, t, raw).value.image = image BY <1>12 DEF image
  <2>4. ShowsAs(image, w, h, px) BY <2>1, <2>2, <2>6, Zenon DEF ShowsAs
  <2> QED BY <1>10, <2>3, <2>4, Zenon
<1> QED BY <1>6, <1>10, <1>11, <1>12, Zenon

(* What a WMS source is asked for, and answers with.                       *)
AskedOfSource(cfg, tile, m) ==
  LET map == MapOf(tile, m) IN <<LayersOf(cfg.sources[tile.tileset.source], map), Dims(map)>>

LEMMA PictureOfMetatile ==
  ASSUME NEW cfg, NEW tile, NEW m, cfg.sources[tile.tileset.source].type = "wms"
  PROVE  LET px == MetaPixels(tile.grid_link.grid, m, tile.tileset.metasize, tile.tileset.metabuffer)
             e == MetaExtent(tile.grid_link.grid, m, tile.tileset.metasize, tile.tileset.metabuffer)
         IN  RenderMap(cfg, MapOf(tile, m), "picture")
               = Good(Received(Encoded("PNG", PictureOf(AskedOfSource(cfg, tile, m), e, px.w, px.h))))
<1> DEFINE map == MapOf(tile, m)
           source == cfg.sources[tile.tileset.source]
           px == MetaPixels(tile.grid_link.grid, m, tile.tileset.metasize, tile.tileset.metabuffer)
           e == MetaExtent(tile.grid_link.grid, m, tile.tileset.metasize, tile.tileset.metabuffer)
           data == Encoded("PNG", PictureOf(AskedOfSource(cfg, tile, m), e, px.w, px.h))
<1>1. map.extent = e /\ map.w = px.w /\ map.h = px.h /\ map.tileset = tile.tileset BY DEF MapOf, Map
<1>2. RenderMap(cfg, map, "picture") = WmsRender(source, map, "picture") BY <1>1 DEF RenderMap
<1>3. WmsRender(source, map, "picture") = AsPicture(Good(data)) BY <1>1 DEF WmsRender, DoRequest, AskedOfSource
<1>4. AsPicture(Good(data)) = Good(Received(data))
  <2>1. data.type = "PNG" BY DEF Encoded
  <2> HIDE DEF data
  <2>2. IsValidFormat(data) BY <2>1 DEF IsValidFormat, HeaderSniff
  <2> QED BY <2>2 DEF AsPicture, Good, Failed
<1> QED BY <1>2, <1>3, <1>4, Zenon

(* Where a tile of a metatile begins in its picture, and what it is of it. *)
CornerOf(tile, m, p) ==
  LET g == tile.grid_link.grid
      buffer == tile.tileset.metabuffer
  IN  Corner(g, MetaSize(g, m, tile.tileset.metasize).y * g.tile_sy + 2 * buffer, buffer, p)
PlainTile(tile, px, corner) ==
  LET g == tile.grid_link.grid IN Plain(g.tile_sx, g.tile_sy, CutOut(px, corner, g.tile_sx, g.tile_sy))

(* Without a watermark, each tile of a metatile is a view of its picture.  *)
LEMMA TilesOfMetatile ==
  ASSUME NEW cfg, NEW tile, NEW m, NEW w, NEW h, NEW px,
         tile.tileset.format # None, tile.tileset.watermark = None,
         RenderMap(cfg, MapOf(tile, m), "picture") = Good(Received(Encoded("PNG", Plain(w, h, px)))),
         ~Failed(RenderMetatile(cfg, tile, m, "picture")),
         NEW p \in MetaTiles(tile.grid_link.grid, m, tile.tileset.metasize)
  PROVE  LET written == WrittenAs(cfg, tile.tileset, PlainTile(tile, px, CornerOf(tile, m, p)))
         IN  /\ ~Failed(written)
             /\ p \in DOMAIN RenderMetatile(cfg, tile, m, "picture").value
             /\ RenderMetatile(cfg, tile, m, "picture").value[p] = written.value
<1> DEFINE g == tile.grid_link.grid
           ts == tile.tileset
           size == MetaSize(g, m, ts.metasize)
           buffer == ts.metabuffer
           height == size.y * g.tile_sy + 2 * buffer
           corner == Corner(g, height, buffer, p)
           picture == Plain(w, h, px)
           drawn == RenderMap(cfg, MapOf(tile, m), "picture")
           whole == IF drawn.value.raw_image # {} THEN Good(TheOne(drawn.value.raw_image))
                    ELSE Decode(TheOne(drawn.value.encoded_data))
           mark == IF ts.watermark = None THEN {} ELSE {Filled(g.tile_sx, g.tile_sy, ts.watermark)}
           views == Split(g, whole.value, size, buffer, mark)
           tiles == [q \in DOMAIN views |-> IF Failed(views[q]) THEN views[q] ELSE WrittenAs(cfg, ts, views[q].value)]
           bad == {q \in DOMAIN tiles : Failed(tiles[q])}
           cut == CutOut(px, corner, g.tile_sx, g.tile_sy)
           made == RenderMetatile(cfg, tile, m, "picture")
<1>1. drawn = Good(Received(Encoded("PNG", picture))) OBVIOUS
<1>2. ~Failed(drawn) /\ drawn.value.raw_image = {} /\ TheOne(drawn.value.encoded_data) = Encoded("PNG", picture)
  <2> HIDE DEF drawn, picture
  <2>1. TheOne({Encoded("PNG", picture)}) = Encoded("PNG", picture) BY DEF TheOne
  <2> QED BY <1>1, <2>1 DEF Good, Failed, Received
<1>3. whole = Good(picture)
  <2>1. Decode(Encoded("PNG", picture)) = PngDecode(Encoded("PNG", picture))
    <3> HIDE DEF picture
    <3> QED BY DEF Decode, HeaderSniff, Encoded
  <2>2. PngDecode(Encoded("PNG", picture)) = Good(picture)
    <3>1. [picture EXCEPT !.is_elevation = FALSE] = picture BY PlainStays
    <3> HIDE DEF picture
    <3>2. Encoded("PNG", picture).image = picture BY DEF Encoded
    <3> QED BY <3>1, <3>2, Zenon DEF PngDecode
  <2>3. whole = Decode(Encoded("PNG", picture)) BY <1>2, Zenon
  <2> QED BY <2>1, <2>2, <2>3, Zenon
<1>4. ~Failed(whole) /\ whole.value = picture
  <2> HIDE DEF whole, picture
  <2> QED BY <1>3 DEF Good, Failed
<1>5. made = IF bad # {} THEN Bad(500) ELSE Good([q \in DOMAIN tiles |-> tiles[q].value])
  <2>1. made = IF Failed(drawn) THEN drawn
               ELSE IF ts.format = None THEN Good([q \in MetaTiles(g, m, ts.metasize) |-> TheOne(drawn.value.encoded_data)])
               ELSE IF Failed(whole) THEN whole
               ELSE IF bad # {} THEN Bad(500)
               ELSE Good([q \in DOMAIN tiles |-> tiles[q].value])
    BY Zenon DEF RenderMetatile
  <2> HIDE DEF drawn, whole, bad, tiles, made
  <2> QED BY <1>2, <1>4, <2>1, Zenon
<1>6. Failed(Bad(500)) BY DEF Failed, Bad
<1>7. bad = {} /\ made = Good([q \in DOMAIN tiles |-> tiles[q].value]) BY <1>5, <1>6, Zenon
<1>8. made.value = [q \in DOMAIN tiles |-> tiles[q].value]
  <2> DEFINE values == [q \in DOMAIN tiles |-> tiles[q].value]
  <2>1. made = Good(values) BY <1>7, Zenon
  <2> HIDE DEF values, made
  <2>2. made.value = values BY <2>1 DEF Good
  <2> QED BY <2>2 DEF values
<1>9. p \in DOMAIN views /\ views[p] = Good(View(picture, g.tile_sx, g.tile_sy, corner))
  <2>1. ~picture.is_elevation /\ mark = {} BY PlainIsPicture
  <2> HIDE DEF picture, whole, mark
  <2>2. views = Split(g, picture, size, buffer, {}) BY <1>4, <2>1, Zenon
  <2>3. p \in [i : 0 .. size.x - 1, j : 0 .. size.y - 1] BY DEF MetaTiles
  <2> HIDE DEF size, views
  <2> QED BY <2>1, <2>2, <2>3 DEF Split
<1>10. View(picture, g.tile_sx, g.tile_sy, corner)
         = Plain(g.tile_sx, g.tile_sy, cut)
  <2>1. picture.px = px BY PartsOfPlain
  <2>2. View(picture, g.tile_sx, g.tile_sy, corner)
          = [picture EXCEPT !.w = g.tile_sx, !.h = g.tile_sy, !.px = cut]
    <3> HIDE DEF picture, corner
    <3> QED BY <2>1 DEF View, Tabled, CutOut
  <2> HIDE DEF cut
  <2> QED BY <2>2 DEF Plain
<1> HIDE DEF views, made
<1>11. p \in DOMAIN tiles /\ ~Failed(tiles[p]) /\ made.value[p] = tiles[p].value BY <1>7, <1>8, <1>9
<1>12. tiles[p] = WrittenAs(cfg, ts, View(picture, g.tile_sx, g.tile_sy, corner))
  <2>1. ~Failed(views[p]) /\ views[p].value = View(picture, g.tile_sx, g.tile_sy, corner) BY <1>9 DEF Good, Failed
  <2> QED BY <1>9, <2>1, Zenon
<1>13. p \in DOMAIN made.value BY <1>8, <1>11
<1>14. Plain(g.tile_sx, g.tile_sy, cut) = PlainTile(tile, px, CornerOf(tile, m, p))
  BY Zenon DEF PlainTile, CornerOf
<1> QED BY <1>10, <1>11, <1>12, <1>13, <1>14, Zenon DEF made

(* A picture of a tile, of that: each pixel shows the tile's at its place. *)
ShowsTile(data, of, g, t) ==
  LET image == data.image
  IN  /\ data.type \in {"PNG", "JPEG"}
      /\ image.w = g.tile_sx /\ image.h = g.tile_sy /\ DOMAIN image.px = Spots(g.tile_sx, g.tile_sy)
      /\ \A c \in 0 .. g.tile_sx - 1, row \in 0 .. g.tile_sy - 1 :
           image.px[<<c, row>>]
             = Pixel({Piece(of, PixelAt(GetExtent(g, t.x, t.y, t.z), g.tile_sx, g.tile_sy, c, row))},
                     image.px[<<c, row>>].alpha)

(* Whatever the grid, the size of the metatiles, their border and where    *)
(* the level ends: what a WMS source makes of a metatile is cut and        *)
(* written so that each tile, pixel by pixel, shows what was asked for at  *)
(* the tile's own place.                                                   *)
THEOREM TilesShowWhereTheyLie ==
  ASSUME NEW cfg, NEW tile, NEW m, IsGrid(tile.grid_link.grid), IsSize(tile.tileset.metasize),
         tile.tileset.metabuffer \in Nat, m.x \in Nat, m.y \in Nat, m.z \in DOMAIN tile.grid_link.grid.levels,
         cfg.sources[tile.tileset.source].type = "wms",
         tile.tileset.format # None, Writable(tile.tileset.format), tile.tileset.watermark = None,
         ~Failed(RenderMetatile(cfg, tile, m, "picture")),
         NEW p \in MetaTiles(tile.grid_link.grid, m, tile.tileset.metasize)
  PROVE  LET g == tile.grid_link.grid
             t == TileAt(m, tile.tileset.metasize, p)
         IN  /\ p \in DOMAIN RenderMetatile(cfg, tile, m, "picture").value
             /\ ShowsTile(RenderMetatile(cfg, tile, m, "picture").value[p], AskedOfSource(cfg, tile, m), g, t)
<1> DEFINE g == tile.grid_link.grid
           size == tile.tileset.metasize
           buffer == tile.tileset.metabuffer
           of == AskedOfSource(cfg, tile, m)
           px == MetaPixels(g, m, size, buffer)
           e == MetaExtent(g, m, size, buffer)
           shown == [s \in Spots(px.w, px.h) |-> Pixel({Piece(of, PixelAt(e, px.w, px.h, s[1], s[2]))}, "full")]
           corner == Corner(g, px.h, buffer, p)
           spots == Spots(g.tile_sx, g.tile_sy)
           cut == CutOut(shown, corner, g.tile_sx, g.tile_sy)
           view == Plain(g.tile_sx, g.tile_sy, cut)
           made == RenderMetatile(cfg, tile, m, "picture")
<1>1. PictureOf(of, e, px.w, px.h) = Plain(px.w, px.h, shown) BY DEF PictureOf, Image, Tabled, Plain
<1>2. RenderMap(cfg, MapOf(tile, m), "picture") = Good(Received(Encoded("PNG", Plain(px.w, px.h, shown))))
  <2>1. RenderMap(cfg, MapOf(tile, m), "picture") = Good(Received(Encoded("PNG", PictureOf(of, e, px.w, px.h))))
    BY PictureOfMetatile, Zenon
  <2> QED BY <1>1, <2>1, Zenon
<1>3. px.h = MetaSize(g, m, size).y * g.tile_sy + 2 * buffer BY DEF MetaPixels
<1>4. ~Failed(WrittenAs(cfg, tile.tileset, view)) /\ p \in DOMAIN made.value
      /\ made.value[p] = WrittenAs(cfg, tile.tileset, view).value
  <2>1. view = PlainTile(tile, shown, CornerOf(tile, m, p)) BY <1>3, Zenon DEF PlainTile, CornerOf
  <2>2. p \in MetaTiles(tile.grid_link.grid, m, tile.tileset.metasize) OBVIOUS
  <2>3. tile.tileset.format # None /\ tile.tileset.watermark = None OBVIOUS
  <2>4. ~Failed(RenderMetatile(cfg, tile, m, "picture")) OBVIOUS
  <2> HIDE DEF shown, view, px
  <2>5. LET written == WrittenAs(cfg, tile.tileset, PlainTile(tile, shown, CornerOf(tile, m, p)))
        IN  /\ ~Failed(written)
            /\ p \in DOMAIN RenderMetatile(cfg, tile, m, "picture").value
            /\ RenderMetatile(cfg, tile, m, "picture").value[p] = written.value
    BY <1>2, <2>2, <2>3, <2>4, TilesOfMetatile
  <2> QED BY <2>1, <2>5, Zenon
<1>5. DOMAIN cut = spots BY DEF CutOut
<1>6. \A s \in spots : cut[s] = Pixel(cut[s].shows, cut[s].alpha)
  <2>1. \A t \in DOMAIN shown : shown[t] = Pixel(shown[t].shows, shown[t].alpha) BY DEF Pixel
  <2>2. Unknown = Pixel(Unknown.shows, Unknown.alpha) BY DEF Unknown, Pixel
  <2> HIDE DEF shown
  <2>3. \A s \in spots : cut[s] = Unknown \/ \E t \in DOMAIN shown : cut[s] = shown[t] BY Zenon DEF CutOut
  <2> HIDE DEF cut
  <2> QED BY <2>1, <2>2, <2>3, Zenon
<1>7. \A c \in 0 .. g.tile_sx - 1, row \in 0 .. g.tile_sy - 1 :
        LET t == TileAt(m, size, p)
        IN  /\ <<c, row>> \in spots
            /\ cut[<<c, row>>].shows = {Piece(of, PixelAt(GetExtent(g, t.x, t.y, t.z), g.tile_sx, g.tile_sy, c, row))}
  <2> SUFFICES ASSUME NEW c \in 0 .. g.tile_sx - 1, NEW row \in 0 .. g.tile_sy - 1
      PROVE  LET t == TileAt(m, size, p)
             IN  /\ <<c, row>> \in spots
                 /\ cut[<<c, row>>].shows = {Piece(of, PixelAt(GetExtent(g, t.x, t.y, t.z), g.tile_sx, g.tile_sy, c, row))}
    OBVIOUS
  <2> DEFINE t == TileAt(m, size, p)
             at == <<corner[1] + c, corner[2] + row>>
             place == PixelAt(GetExtent(g, t.x, t.y, t.z), g.tile_sx, g.tile_sy, c, row)
  <2>1. at \in Spots(px.w, px.h) /\ PixelAt(e, px.w, px.h, corner[1] + c, corner[2] + row) = place
    <3>1. IsGrid(g) /\ IsSize(size) /\ buffer \in Nat /\ m.z \in DOMAIN g.levels /\ p \in MetaTiles(g, m, size) OBVIOUS
    <3>2. c \in 0 .. g.tile_sx - 1 /\ row \in 0 .. g.tile_sy - 1 /\ m.x \in Nat /\ m.y \in Nat OBVIOUS
    <3> HIDE DEF g, size, buffer, of, shown, spots, cut, view, made
    <3>3. LET pixels == MetaPixels(g, m, size, buffer)
              from == Corner(g, pixels.h, buffer, p)
              own == TileAt(m, size, p)
          IN  /\ <<from[1] + c, from[2] + row>> \in Spots(pixels.w, pixels.h)
              /\ PixelAt(MetaExtent(g, m, size, buffer), pixels.w, pixels.h, from[1] + c, from[2] + row)
                   = PixelAt(GetExtent(g, own.x, own.y, own.z), g.tile_sx, g.tile_sy, c, row)
      BY <3>1, <3>2, TilesAreCutWhereTheyLie
    <3> QED BY <3>3
  <2>2. <<c, row>> \in spots BY DEF Spots
  <2>3. cut[<<c, row>>] = shown[at]
    <3>1. DOMAIN shown = Spots(px.w, px.h) OBVIOUS
    <3> HIDE DEF shown, corner
    <3> QED BY <2>1, <2>2, <3>1 DEF CutOut
  <2>4. shown[at] = Pixel({Piece(of, place)}, "full")
    <3>1. at[1] = corner[1] + c /\ at[2] = corner[2] + row OBVIOUS
    <3> HIDE DEF at, corner, place, px, e, of
    <3> QED BY <2>1, <3>1, Zenon
  <2> HIDE DEF cut, at, shown, place
  <2> QED BY <2>2, <2>3, <2>4 DEF Pixel, place
<1> HIDE DEF cut, made, spots
<1>8. /\ WrittenAs(cfg, tile.tileset, view).value.type \in {"PNG", "JPEG"}
      /\ ShowsAs(WrittenAs(cfg, tile.tileset, view).value.image, g.tile_sx, g.tile_sy, cut)
  <2>1. Writable(tile.tileset.format) OBVIOUS
  <2>2. \A s \in DOMAIN cut : cut[s] = Pixel(cut[s].shows, cut[s].alpha) BY <1>5, <1>6, Zenon
  <2> HIDE DEF g
  <2> QED BY <1>4, <2>1, <2>2, WrittenShowsTheSame
<1> DEFINE t == TileAt(m, size, p)
           data == made.value[p]
<1> HIDE DEF data
<1>9. data.type \in {"PNG", "JPEG"} /\ ShowsAs(data.image, g.tile_sx, g.tile_sy, cut) BY <1>4, <1>8, Zenon DEF data
<1>10. \A c \in 0 .. g.tile_sx - 1, row \in 0 .. g.tile_sy - 1 :
         data.image.px[<<c, row>>]
           = Pixel({Piece(of, PixelAt(GetExtent(g, t.x, t.y, t.z), g.tile_sx, g.tile_sy, c, row))},
                   data.image.px[<<c, row>>].alpha)
  BY <1>5, <1>7, <1>9, Zenon DEF ShowsAs
<1>11. ShowsTile(data, of, g, t) BY <1>5, <1>9, <1>10, Zenon DEF ShowsTile, ShowsAs, spots
<1> QED BY <1>4, <1>11, Zenon DEF made, data

-----------------------------------------------------------------------------
(* Maps put together from tiles, one axis at a time: the pixel of a map    *)
(* lies from a on, res wide, and the pixels of the tiles from b on, each   *)
(* step wide.                                                              *)

(* The pixel that the nearest one is taken to be.                          *)
LEMMA NearestIsNear ==
  ASSUME NEW a \in Int, NEW b \in Int, NEW step \in Side, NEW res \in Side, NEW slack \in Nat,
         3 * step <= 2 * (res + slack), Nearest(a, b, step) >= 0
  PROVE  LET j == Nearest(a, b, step)
         IN  j \in Int /\ b + j * step < a + res + slack /\ a < b + (j + 1) * step + slack
<1> DEFINE n == 2 * (a - b) + step
           k == 2 * step
           j == Nearest(a, b, step)
<1>1. n \in Int /\ k \in Side /\ j = Trunc(n, k) BY DEF Side, Nearest
<1>2. CASE n >= 0
  <2>1. j = n \div k BY <1>1, <1>2 DEF Trunc
  <2>2. j \in Int /\ k * j <= n /\ n < k * j + k BY <1>1, <2>1, Quotient
  <2> DEFINE at == j * step
  <2>3. at \in Int /\ k * j = 2 * at /\ (j + 1) * step = at + step BY <2>2 DEF Side
  <2>4. 2 * at <= 2 * (a - b) + step /\ 2 * (a - b) + step < 2 * at + 2 * step BY <2>2, <2>3
  <2> HIDE DEF at, j
  <2>5. b + at < a + res + slack /\ a < b + at + step + slack BY <2>3, <2>4 DEF Side
  <2>6. b + (at + step) + slack = b + at + step + slack BY <2>3 DEF Side
  <2> QED BY <2>2, <2>3, <2>5, <2>6 DEF at, j
<1>3. CASE n < 0
  <2>1. -n \in Int /\ (-n) \div k \in Int /\ k * ((-n) \div k) <= -n /\ -n < k * ((-n) \div k) + k BY <1>1, Quotient
  <2>2. j = -((-n) \div k) BY <1>1, <1>3 DEF Trunc
  <2> DEFINE q == (-n) \div k
  <2>3. q \in Int /\ -n < k * q + k /\ j = -q BY <2>1, <2>2
  <2> HIDE DEF q
  <2>4. q <= 0 BY <2>3
  <2>5. q >= 0
    <3>1. ~(q + 1 <= 0)
      <4> SUFFICES ASSUME q + 1 <= 0 PROVE FALSE OBVIOUS
      <4>1. k * (q + 1) <= 0 BY <1>1, <2>3 DEF Side
      <4>2. k * (q + 1) = k * q + k BY <1>1, <2>3 DEF Side
      <4> QED BY <1>1, <1>3, <2>3, <4>1, <4>2 DEF Side
    <3> QED BY <2>3, <3>1
  <2>6. j = 0 /\ -n < k BY <1>1, <2>3, <2>4, <2>5 DEF Side
  <2>7. j * step = 0 /\ (j + 1) * step = step BY <2>6 DEF Side
  <2> QED BY <1>3, <2>6, <2>7 DEF Side
<1> QED BY <1>1, <1>2, <1>3

(* It is one of the tiles, where these hold the map's pixel.               *)
LEMMA NearestIsThere ==
  ASSUME NEW a \in Int, NEW b \in Int, NEW step \in Side, NEW res \in Side, NEW w \in Nat,
         b <= a, a + res <= b + w * step, step < 2 * res
  PROVE  Nearest(a, b, step) \in 0 .. w - 1
<1> DEFINE n == 2 * (a - b) + step
           k == 2 * step
           j == n \div k
<1>1. n \in Int /\ k \in Side /\ n >= 0 BY DEF Side
<1>2. Nearest(a, b, step) = j BY <1>1 DEF Nearest, Trunc
<1>3. j \in Int /\ k * j <= n /\ n < k * j + k BY <1>1, Quotient
<1>4. n < k * w
  <2> DEFINE all == w * step
  <2>1. all \in Int /\ k * w = 2 * all BY DEF Side
  <2> HIDE DEF all
  <2>2. a + res <= b + all BY DEF all
  <2> QED BY <2>1, <2>2 DEF Side
<1> HIDE DEF j
<1>5. j >= 0
  <2> SUFFICES ASSUME j + 1 <= 0 PROVE FALSE BY <1>3
  <2>1. k * (j + 1) <= 0 /\ k * (j + 1) = k * j + k BY <1>1, <1>3 DEF Side
  <2> QED BY <1>1, <1>3, <2>1 DEF Side
<1>6. j < w
  <2> SUFFICES ASSUME w <= j PROVE FALSE BY <1>3
  <2>1. k * w <= k * j BY <1>1, <1>3 DEF Side
  <2> QED BY <1>1, <1>3, <1>4, <2>1 DEF Side
<1> QED BY <1>2, <1>3, <1>5, <1>6

(* The two pixels between which the corner lies, bilinearly.               *)
LEMMA BothAreNear ==
  ASSUME NEW a \in Int, NEW b \in Int, NEW step \in Side, NEW res \in Side, NEW slack \in Nat,
         3 * step <= 2 * (res + slack), NEW c \in Int, c = (a - b) \div step, NEW j \in Int, j = c \/ j = c + 1
  PROVE  b + j * step < a + res + slack /\ a < b + (j + 1) * step + slack
<1> DEFINE at == c * step
<1>1. c \in Int /\ step * c <= a - b /\ a - b < step * c + step BY Quotient
<1>2. at \in Int /\ step * c = at /\ (c + 1) * step = at + step /\ (c + 2) * step = at + 2 * step BY <1>1 DEF Side
<1>3. at <= a - b /\ a - b < at + step BY <1>1, <1>2
<1>4. j = c \/ j = c + 1 OBVIOUS
<1> HIDE DEF at
<1>5. CASE j = c BY <1>1, <1>2, <1>3, <1>5 DEF Side, at
<1>6. CASE j = c + 1
  <2>1. j * step = at + step /\ (j + 1) * step = at + 2 * step BY <1>1, <1>2, <1>6
  <2> QED BY <1>1, <1>2, <1>3, <1>6, <2>1 DEF Side
<1> QED BY <1>4, <1>5, <1>6

LEMMA FirstIsThere ==
  ASSUME NEW a \in Int, NEW b \in Int, NEW step \in Side, NEW res \in Side, NEW w \in Nat,
         b <= a, a + res <= b + w * step
  PROVE  (a - b) \div step \in 0 .. w - 1
<1> DEFINE j == (a - b) \div step
           all == w * step
<1>1. j \in Int /\ step * j <= a - b /\ a - b < step * j + step BY Quotient
<1>2. all \in Int /\ step * w = all BY DEF Side
<1> HIDE DEF j
<1>3. j >= 0
  <2> SUFFICES ASSUME j + 1 <= 0 PROVE FALSE BY <1>1
  <2>1. step * (j + 1) <= 0 /\ step * (j + 1) = step * j + step BY <1>1 DEF Side
  <2> QED BY <1>1, <2>1 DEF Side
<1>4. j < w
  <2> SUFFICES ASSUME w <= j PROVE FALSE BY <1>1
  <2>1. step * w <= step * j BY <1>1 DEF Side
  <2> QED BY <1>1, <1>2, <2>1 DEF Side
<1> QED BY <1>1, <1>3, <1>4 DEF j

(* The cells of the tiles that a map needs, first to last, hold each of    *)
(* its pixels that lies among the valid ones, those from l to m.           *)
LEMMA CellsHold ==
  ASSUME NEW p \in Int, NEW q \in Int, NEW o \in Int, NEW u \in Side, NEW l \in Nat, NEW m \in Int,
         NEW a \in Int, NEW c \in Int, p <= a, c <= q, o + l * u <= a, c <= o + m * u
  PROVE  LET first == Larger(Trunc(p - o, u), l)
             last == Smaller(Trunc(q - o, u), m - 1)
         IN  first \in Nat /\ last \in Int /\ o + first * u <= a /\ c <= o + (last + 1) * u
<1> DEFINE lo == Trunc(p - o, u)
           hi == Trunc(q - o, u)
<1>1. lo \in Int /\ (lo > 0 => o + lo * u <= p)
  <2>1. (p - o) \div u \in Int /\ u * ((p - o) \div u) <= p - o BY Quotient
  <2>2. (-(p - o)) \div u \in Int /\ -(p - o) < u * ((-(p - o)) \div u) + u BY Quotient
  <2>3. CASE p - o >= 0
    <3>1. lo = (p - o) \div u BY <2>3 DEF Trunc
    <3> QED BY <2>1, <3>1 DEF Side
  <2>4. CASE ~(p - o >= 0)
    <3>1. lo = -((-(p - o)) \div u) BY <2>4 DEF Trunc
    <3> DEFINE k == (-(p - o)) \div u
    <3>2. k \in Int /\ -(p - o) < u * k + u /\ lo = -k BY <2>2, <3>1
    <3> HIDE DEF k, lo
    <3>3. k >= 0
      <4> SUFFICES ASSUME k + 1 <= 0 PROVE FALSE BY <3>2
      <4>1. u * (k + 1) <= 0 /\ u * (k + 1) = u * k + u BY <3>2 DEF Side
      <4> QED BY <2>4, <3>2, <4>1 DEF Side
    <3> QED BY <3>2, <3>3
  <2> QED BY <2>3, <2>4
<1>2. hi \in Int /\ q <= o + (hi + 1) * u
  <2>1. (q - o) \div u \in Int /\ q - o < u * ((q - o) \div u) + u BY Quotient
  <2>2. (-(q - o)) \div u \in Int /\ u * ((-(q - o)) \div u) <= -(q - o) BY Quotient
  <2>3. CASE q - o >= 0
    <3>1. hi = (q - o) \div u BY <2>3 DEF Trunc
    <3> HIDE DEF hi
    <3>2. (hi + 1) * u = u * hi + u BY <2>1, <3>1 DEF Side
    <3> QED BY <2>1, <3>1, <3>2 DEF Side
  <2>4. CASE ~(q - o >= 0)
    <3>1. hi = -((-(q - o)) \div u) BY <2>4 DEF Trunc
    <3> DEFINE k == (-(q - o)) \div u
    <3>2. k \in Int /\ u * k <= -(q - o) /\ hi = -k BY <2>2, <3>1
    <3> HIDE DEF k, hi
    <3>3. (hi + 1) * u = u - u * k BY <3>2 DEF Side
    <3> QED BY <3>2, <3>3 DEF Side
  <2> QED BY <2>3, <2>4
<1> HIDE DEF lo, hi
<1>3. Larger(lo, l) \in Nat /\ o + Larger(lo, l) * u <= a
  <2>1. CASE lo >= l
    <3>1. Larger(lo, l) = lo BY <2>1 DEF Larger
    <3> DEFINE at == lo * u
    <3>2. at \in Int /\ (lo > 0 => o + at <= p) /\ (lo = 0 => at = 0) /\ (l = 0 => l * u = 0) BY <1>1 DEF Side
    <3> HIDE DEF at
    <3>3. o + at <= a BY <1>1, <2>1, <3>2
    <3> QED BY <1>1, <2>1, <3>1, <3>3 DEF at
  <2>2. CASE ~(lo >= l) BY <1>1, <2>2 DEF Larger
  <2> QED BY <2>1, <2>2
<1>4. Smaller(hi, m - 1) \in Int /\ c <= o + (Smaller(hi, m - 1) + 1) * u
  <2>1. CASE hi <= m - 1
    <3>1. Smaller(hi, m - 1) = hi BY <2>1 DEF Smaller
    <3> DEFINE at == (hi + 1) * u
    <3>2. at \in Int /\ q <= o + at BY <1>2 DEF Side
    <3> HIDE DEF at
    <3>3. c <= o + at BY <3>2
    <3> QED BY <1>2, <3>1, <3>3 DEF at
  <2>2. CASE ~(hi <= m - 1)
    <3>1. Smaller(hi, m - 1) = m - 1 BY <2>2 DEF Smaller
    <3>2. (m - 1) + 1 = m OBVIOUS
    <3>3. c <= o + ((m - 1) + 1) * u BY <3>2
    <3> QED BY <3>1, <3>3
  <2> QED BY <2>1, <2>2
<1> QED BY <1>3, <1>4 DEF lo, hi

(* A picture of the world: its corner at <<left, top>>, its pixels step    *)
(* wide, each the piece of its place; and a pixel of a map, at here: it    *)
(* shows only what is near.                                                *)
Cell(left, top, step, c, r) ==
  Extent(left + c * step, top - (r + 1) * step, left + (c + 1) * step, top - r * step)
OfWorld(image, of, left, top, step) ==
  /\ image.w \in Nat /\ image.h \in Nat /\ DOMAIN image.px = Spots(image.w, image.h)
  /\ \A s \in DOMAIN image.px : image.px[s] = Pixel({Piece(of, Cell(left, top, step, s[1], s[2]))}, image.px[s].alpha)
OfMap(pixel, of, here, slack) ==
  /\ pixel = Pixel(pixel.shows, pixel.alpha)
  /\ \A piece \in pixel.shows : piece.of = of /\ Near(piece.at, here, slack)
HoldsPlace(image, left, top, step, here) ==
  /\ left <= here.minx /\ here.maxx <= left + image.w * step
  /\ top - image.h * step <= here.miny /\ here.maxy <= top

LEMMA PixelOfPicture ==
  ASSUME NEW image, NEW of, NEW left, NEW top, NEW step, OfWorld(image, of, left, top, step), NEW s \in DOMAIN image.px
  PROVE  image.px[s].shows = {Piece(of, Cell(left, top, step, s[1], s[2]))}
<1> DEFINE pixel == image.px[s]
           shown == {Piece(of, Cell(left, top, step, s[1], s[2]))}
<1>1. pixel = Pixel(shown, pixel.alpha) BY Zenon DEF OfWorld
<1> HIDE DEF pixel, shown
<1>2. pixel.shows = shown BY <1>1 DEF Pixel
<1> QED BY <1>2 DEF pixel, shown

(* A cell that is near in columns and in rows.                             *)
LEMMA CellIsNear ==
  ASSUME NEW left \in Int, NEW top \in Int, NEW step \in Side, NEW slack \in Nat, NEW here, IsExtent(here),
         NEW c \in Int, NEW r \in Int,
         left + c * step < here.maxx + slack, here.minx < left + (c + 1) * step + slack,
         -top + r * step < -here.miny + slack, -here.maxy < -top + (r + 1) * step + slack
  PROVE  Near(Cell(left, top, step, c, r), here, slack)
<1> DEFINE cell == Cell(left, top, step, c, r)
<1>1. /\ cell.minx = left + c * step /\ cell.maxx = left + (c + 1) * step
      /\ cell.miny = top - (r + 1) * step /\ cell.maxy = top - r * step
  BY DEF Cell, Extent
<1> DEFINE x == c * step
           x1 == (c + 1) * step
           y == r * step
           y1 == (r + 1) * step
<1>2. x \in Int /\ x1 \in Int /\ y \in Int /\ y1 \in Int BY DEF Side
<1>3. left + x < here.maxx + slack /\ here.minx < left + x1 + slack
      /\ -top + y < -here.miny + slack /\ -here.maxy < -top + y1 + slack
  OBVIOUS
<1> HIDE DEF x, x1, y, y1
<1>4. /\ left + x < here.maxx + slack /\ here.minx < left + x1 + slack
      /\ top - y1 < here.maxy + slack /\ here.miny < top - y + slack
  BY <1>2, <1>3 DEF IsExtent
<1> HIDE DEF cell
<1>5. /\ cell.minx = left + x /\ cell.maxx = left + x1 /\ cell.miny = top - y1 /\ cell.maxy = top - y
  BY <1>1 DEF x, x1, y, y1
<1> QED BY <1>4, <1>5 DEF Near, cell

(* Where a pixel of a map lies.                                            *)
LEMMA PlaceOfPixel ==
  ASSUME NEW bbox, IsExtent(bbox), NEW w, NEW h, NEW c \in Nat, NEW r \in Nat,
         NEW x \in Side, NEW y \in Side, x = HorizontalResolution(bbox, w), y = VerticalResolution(bbox, h),
         NEW here, here = PixelAt(bbox, w, h, c, r)
  PROVE  /\ IsExtent(here)
         /\ here.minx = bbox.minx + c * x /\ here.maxx = here.minx + x
         /\ here.maxy = bbox.maxy - r * y /\ here.miny = here.maxy - y
<1> DEFINE cx == c * x
           ry == r * y
<1>1. /\ here.minx = bbox.minx + c * x /\ here.maxx = bbox.minx + (c + 1) * x
      /\ here.miny = bbox.maxy - (r + 1) * y /\ here.maxy = bbox.maxy - r * y
  BY DEF PixelAt, Extent
<1>2. cx \in Int /\ (c + 1) * x = cx + x /\ ry \in Int /\ (r + 1) * y = ry + y BY DEF Side
<1>3. here.minx = bbox.minx + cx /\ here.maxx = bbox.minx + (cx + x)
      /\ here.miny = bbox.maxy - (ry + y) /\ here.maxy = bbox.maxy - ry
  BY <1>1, <1>2
<1> HIDE DEF cx, ry
<1>4. IsExtent(here) /\ here.maxx = here.minx + x /\ here.miny = here.maxy - y
  BY <1>2, <1>3 DEF IsExtent, Side
<1> QED BY <1>3, <1>4 DEF cx, ry

(* The nearest pixel of the tiles.                                         *)
LEMMA NearestShows ==
  ASSUME NEW image, NEW of, NEW left \in Int, NEW top \in Int, NEW step \in Side, OfWorld(image, of, left, top, step),
         NEW bbox, IsExtent(bbox), NEW w, NEW h, NEW slack \in Nat,
         HorizontalResolution(bbox, w) \in Side, VerticalResolution(bbox, h) \in Side,
         step < 2 * HorizontalResolution(bbox, w), 3 * step <= 2 * (HorizontalResolution(bbox, w) + slack),
         step < 2 * VerticalResolution(bbox, h), 3 * step <= 2 * (VerticalResolution(bbox, h) + slack),
         NEW s \in Spots(w, h), s[1] \in Nat, s[2] \in Nat
  PROVE  LET drawn == ResampledNearest(image, left, top, step, bbox, HorizontalResolution(bbox, w),
                                       VerticalResolution(bbox, h), w, h)
             here == PixelAt(bbox, w, h, s[1], s[2])
         IN  /\ OfMap(drawn.px[s], of, here, slack)
             /\ HoldsPlace(image, left, top, step, here) => drawn.px[s].shows # {}
<1> DEFINE x == HorizontalResolution(bbox, w)
           y == VerticalResolution(bbox, h)
           here == PixelAt(bbox, w, h, s[1], s[2])
           c == Nearest(bbox.minx + s[1] * x, left, step)
           r == Nearest(top, bbox.maxy - s[2] * y, step)
           pixel == ResampledNearest(image, left, top, step, bbox, x, y, w, h).px[s]
<1>1. /\ x \in Side /\ y \in Side /\ step < 2 * x /\ 3 * step <= 2 * (x + slack)
      /\ step < 2 * y /\ 3 * step <= 2 * (y + slack)
  OBVIOUS
<1>2. /\ IsExtent(here) /\ here.minx = bbox.minx + s[1] * x /\ here.maxx = here.minx + x
      /\ here.maxy = bbox.maxy - s[2] * y /\ here.miny = here.maxy - y
  <2> DEFINE col == s[1]
             row == s[2]
  <2>1. col \in Nat /\ row \in Nat /\ IsExtent(bbox) /\ x \in Side /\ y \in Side OBVIOUS
  <2> HIDE DEF col, row
  <2> DEFINE p == PixelAt(bbox, w, h, col, row)
  <2>2. IsExtent(p) BY <2>1, PlaceOfPixel, Zenon
  <2>3. p.minx = bbox.minx + col * x /\ p.maxx = p.minx + x /\ p.maxy = bbox.maxy - row * y /\ p.miny = p.maxy - y
    BY <2>1, PlaceOfPixel
  <2> QED BY <2>2, <2>3, Zenon DEF col, row
<1>3. pixel = IF <<c, r>> \in DOMAIN image.px THEN image.px[<<c, r>>] ELSE Clear
  BY DEF ResampledNearest, Image, Tabled
<1>4. c = Nearest(here.minx, left, step) BY <1>2, Zenon
<1>5. r = Nearest(-here.maxy, -top, step)
  <2>1. r = Nearest(top, here.maxy, step) BY <1>2, Zenon
  <2>2. 2 * (top - here.maxy) + step = 2 * (-here.maxy - -top) + step BY <1>2 DEF IsExtent, Side
  <2> QED BY <2>1, <2>2, Zenon DEF Nearest
<1>6. here.minx \in Int /\ here.maxy \in Int /\ -here.maxy \in Int /\ -top \in Int /\ here.maxx \in Int /\ here.miny \in Int
  BY <1>2 DEF IsExtent
<1>7. here.maxx = here.minx + x /\ here.miny = here.maxy - y BY <1>2
<1>8. DOMAIN image.px = (0 .. image.w - 1) \X (0 .. image.h - 1) /\ image.w \in Nat /\ image.h \in Nat
  BY DEF OfWorld, Spots
<1> HIDE DEF x, y, here, c, r, pixel
<1>9. CASE <<c, r>> \in DOMAIN image.px
  <2>1. c \in Nat /\ r \in Nat BY <1>8, <1>9
  <2>2. left + c * step < here.minx + x + slack /\ here.minx < left + (c + 1) * step + slack
    BY <1>1, <1>4, <1>6, <2>1, NearestIsNear
  <2>3. -top + r * step < -here.maxy + y + slack /\ -here.maxy < -top + (r + 1) * step + slack
    BY <1>1, <1>5, <1>6, <2>1, NearestIsNear
  <2>4. here.minx + x + slack = here.maxx + slack /\ -here.maxy + y + slack = -here.miny + slack
    BY <1>1, <1>6, <1>7 DEF Side
  <2>5. Near(Cell(left, top, step, c, r), here, slack)
    <3>1. c \in Int /\ r \in Int BY <2>1
    <3> QED BY <1>2, <2>2, <2>3, <2>4, <3>1, CellIsNear
  <2>6. pixel = image.px[<<c, r>>] BY <1>3, <1>9
  <2>7. pixel.shows = {Piece(of, Cell(left, top, step, c, r))} BY <1>9, <2>6, PixelOfPicture
  <2>8. pixel = Pixel(pixel.shows, pixel.alpha)
    <3>1. pixel = Pixel({Piece(of, Cell(left, top, step, <<c, r>>[1], <<c, r>>[2]))}, pixel.alpha)
      BY <1>9, <2>6, Zenon DEF OfWorld
    <3>2. <<c, r>>[1] = c /\ <<c, r>>[2] = r OBVIOUS
    <3> QED BY <2>7, <3>1, <3>2, Zenon
  <2>9. \A place : Piece(of, place).of = of /\ Piece(of, place).at = place BY DEF Piece
  <2>10. OfMap(pixel, of, here, slack) BY <2>5, <2>7, <2>8, <2>9, Zenon DEF OfMap
  <2>11. pixel.shows # {} BY <2>7
  <2> QED BY <2>10, <2>11 DEF pixel, x, y, here
<1>10. CASE <<c, r>> \notin DOMAIN image.px
  <2>1. pixel = Clear BY <1>3, <1>10
  <2>2. OfMap(Clear, of, here, slack) BY DEF OfMap, Clear, Pixel
  <2>3. ~HoldsPlace(image, left, top, step, here)
    <3> SUFFICES ASSUME HoldsPlace(image, left, top, step, here) PROVE <<c, r>> \in DOMAIN image.px BY <1>10
    <3> DEFINE wide == image.w * step
               high == image.h * step
    <3>1. left <= here.minx /\ here.maxx <= left + wide /\ top - high <= here.miny /\ here.maxy <= top
      BY DEF HoldsPlace
    <3>2. wide \in Int /\ high \in Int BY <1>8 DEF Side
    <3> HIDE DEF wide, high
    <3>3. here.minx + x <= left + wide /\ -top <= -here.maxy /\ -here.maxy + y <= -top + high
      BY <1>1, <1>6, <1>7, <3>1, <3>2 DEF Side
    <3>4. c \in 0 .. image.w - 1 BY <1>1, <1>4, <1>6, <1>8, <3>1, <3>3, NearestIsThere DEF wide
    <3>5. r \in 0 .. image.h - 1 BY <1>1, <1>5, <1>6, <1>8, <3>3, NearestIsThere DEF high
    <3> QED BY <1>8, <3>4, <3>5
  <2> QED BY <2>1, <2>2, <2>3 DEF pixel, x, y, here
<1> QED BY <1>9, <1>10

(* The pixels of the tiles between which it lies, blended.                 *)
LEMMA BilinearShows ==
  ASSUME NEW image, NEW of, NEW left \in Int, NEW top \in Int, NEW step \in Side, OfWorld(image, of, left, top, step),
         NEW bbox, IsExtent(bbox), NEW w, NEW h, NEW slack \in Nat,
         HorizontalResolution(bbox, w) \in Side, VerticalResolution(bbox, h) \in Side,
         3 * step <= 2 * (HorizontalResolution(bbox, w) + slack),
         3 * step <= 2 * (VerticalResolution(bbox, h) + slack),
         NEW s \in Spots(w, h), s[1] \in Nat, s[2] \in Nat
  PROVE  LET drawn == ResampledBilinear(image, left, top, step, bbox, HorizontalResolution(bbox, w),
                                        VerticalResolution(bbox, h), w, h)
             here == PixelAt(bbox, w, h, s[1], s[2])
         IN  /\ OfMap(drawn.px[s], of, here, slack)
             /\ HoldsPlace(image, left, top, step, here) => drawn.px[s].shows # {}
<1> DEFINE hres == HorizontalResolution(bbox, w)
           vres == VerticalResolution(bbox, h)
           here == PixelAt(bbox, w, h, s[1], s[2])
           x == bbox.minx + s[1] * hres - left
           y == top - (bbox.maxy - s[2] * vres)
           c == x \div step
           r == y \div step
           right == IF c = image.w - 1 \/ x % step = 0 THEN c ELSE c + 1
           below == IF r = image.h - 1 \/ y % step = 0 THEN r ELSE r + 1
           blended == {image.px[t] : t \in {c, right} \X {r, below}}
           pixel == ResampledBilinear(image, left, top, step, bbox, hres, vres, w, h).px[s]
<1>0. OfWorld(image, of, left, top, step) OBVIOUS
<1>1. hres \in Side /\ vres \in Side /\ 3 * step <= 2 * (hres + slack) /\ 3 * step <= 2 * (vres + slack) OBVIOUS
<1>2. /\ IsExtent(here) /\ here.minx = bbox.minx + s[1] * hres /\ here.maxx = here.minx + hres
      /\ here.maxy = bbox.maxy - s[2] * vres /\ here.miny = here.maxy - vres
  <2> DEFINE col == s[1]
             row == s[2]
  <2>1. col \in Nat /\ row \in Nat /\ IsExtent(bbox) /\ hres \in Side /\ vres \in Side OBVIOUS
  <2> HIDE DEF col, row
  <2> DEFINE p == PixelAt(bbox, w, h, col, row)
  <2>2. IsExtent(p) BY <2>1, PlaceOfPixel, Zenon
  <2>3. p.minx = bbox.minx + col * hres /\ p.maxx = p.minx + hres
        /\ p.maxy = bbox.maxy - row * vres /\ p.miny = p.maxy - vres
    BY <2>1, PlaceOfPixel
  <2> QED BY <2>2, <2>3, Zenon DEF col, row
<1>3. pixel = IF <<c, r>> \in DOMAIN image.px THEN Blend(blended) ELSE Clear
  BY DEF ResampledBilinear, Image, Tabled
<1>4. x = here.minx - left /\ y = -here.maxy - -top
  <2> DEFINE across == s[1] * hres
             down == s[2] * vres
  <2>1. across \in Int /\ down \in Int BY <1>1 DEF Side
  <2>2. here.minx = bbox.minx + across /\ here.maxy = bbox.maxy - down BY <1>2
  <2>3. x = bbox.minx + across - left /\ y = top - (bbox.maxy - down) OBVIOUS
  <2>4. bbox.minx \in Int /\ bbox.maxy \in Int BY DEF IsExtent
  <2> HIDE DEF x, y, here, across, down
  <2> QED BY <2>1, <2>2, <2>3, <2>4
<1>5. here.minx \in Int /\ here.maxy \in Int /\ -here.maxy \in Int /\ -top \in Int /\ here.maxx \in Int /\ here.miny \in Int
  BY <1>2 DEF IsExtent
<1>6. here.maxx = here.minx + hres /\ here.miny = here.maxy - vres BY <1>2
<1>7. DOMAIN image.px = (0 .. image.w - 1) \X (0 .. image.h - 1) /\ image.w \in Nat /\ image.h \in Nat
  BY DEF OfWorld, Spots
<1>8. right \in {c, c + 1} /\ (right = c \/ c # image.w - 1) /\ below \in {r, r + 1} /\ (below = r \/ r # image.h - 1)
  OBVIOUS
<1> HIDE DEF hres, vres, here, x, y, right, below, pixel
<1>9. CASE <<c, r>> \in DOMAIN image.px
  <2>1. c \in 0 .. image.w - 1 /\ r \in 0 .. image.h - 1 BY <1>7, <1>9
  <2>2. right \in 0 .. image.w - 1 /\ below \in 0 .. image.h - 1
    <3> HIDE DEF c, r
    <3> QED BY <1>7, <1>8, <2>1
  <2>3. ASSUME NEW i \in {c, c + 1}
        PROVE  i \in Int /\ left + i * step < here.maxx + slack /\ here.minx < left + (i + 1) * step + slack
    <3>1. c = (here.minx - left) \div step BY <1>4
    <3> HIDE DEF c
    <3>2. /\ here.minx \in Int /\ left \in Int /\ step \in Side /\ hres \in Side /\ slack \in Nat
          /\ 3 * step <= 2 * (hres + slack) /\ c \in Int /\ i \in Int /\ (i = c \/ i = c + 1)
      BY <1>1, <1>5, <2>1, <2>3
    <3>4. left + i * step < here.minx + hres + slack /\ here.minx < left + (i + 1) * step + slack
      BY <3>1, <3>2, BothAreNear
    <3>3. here.minx + hres + slack = here.maxx + slack BY <1>1, <1>5, <1>6 DEF Side
    <3> QED BY <3>2, <3>3, <3>4
  <2>4. ASSUME NEW j \in {r, r + 1}
        PROVE  j \in Int /\ -top + j * step < -here.miny + slack /\ -here.maxy < -top + (j + 1) * step + slack
    <3>1. r = (-here.maxy - -top) \div step BY <1>4
    <3> HIDE DEF r
    <3>2. /\ -here.maxy \in Int /\ -top \in Int /\ step \in Side /\ vres \in Side /\ slack \in Nat
          /\ 3 * step <= 2 * (vres + slack) /\ r \in Int /\ j \in Int /\ (j = r \/ j = r + 1)
      BY <1>1, <1>5, <2>1, <2>4
    <3>4. -top + j * step < -here.maxy + vres + slack /\ -here.maxy < -top + (j + 1) * step + slack
      BY <3>1, <3>2, BothAreNear
    <3>3. -here.maxy + vres + slack = -here.miny + slack BY <1>1, <1>5, <1>6 DEF Side
    <3> QED BY <3>2, <3>3, <3>4
  <2> HIDE DEF c, r
  <2>5. ASSUME NEW i \in {c, right}, NEW j \in {r, below}
        PROVE  /\ image.px[<<i, j>>].shows = {Piece(of, Cell(left, top, step, i, j))}
               /\ Near(Cell(left, top, step, i, j), here, slack)
    <3>1. <<i, j>> \in DOMAIN image.px BY <1>7, <2>1, <2>2
    <3> DEFINE t == <<i, j>>
    <3>2. image.px[<<i, j>>].shows = {Piece(of, Cell(left, top, step, i, j))}
      <4>1. t \in DOMAIN image.px /\ t[1] = i /\ t[2] = j BY <3>1
      <4> HIDE DEF t
      <4>2. image.px[t].shows = {Piece(of, Cell(left, top, step, t[1], t[2]))} BY <1>0, <4>1, PixelOfPicture
      <4> QED BY <4>1, <4>2 DEF t
    <3>3. i \in {c, c + 1} /\ j \in {r, r + 1} BY <1>8
    <3>4. /\ i \in Int /\ left + i * step < here.maxx + slack /\ here.minx < left + (i + 1) * step + slack
          /\ j \in Int /\ -top + j * step < -here.miny + slack /\ -here.maxy < -top + (j + 1) * step + slack
      BY <2>3, <2>4, <3>3
    <3>5. Near(Cell(left, top, step, i, j), here, slack) BY <1>2, <3>4, CellIsNear
    <3> QED BY <3>2, <3>5
  <2>6. pixel = Blend(blended) BY <1>3, <1>9, Zenon
  <2> DEFINE shown == UNION {p.shows : p \in blended}
  <2>7. pixel.shows = shown /\ pixel = Pixel(pixel.shows, pixel.alpha)
    <3> HIDE DEF blended
    <3>1. \E alpha : pixel = Pixel(shown, alpha) BY <2>6, Zenon DEF Blend
    <3> HIDE DEF shown
    <3> QED BY <3>1 DEF Pixel
  <2>8. ASSUME NEW piece \in shown PROVE piece.of = of /\ Near(piece.at, here, slack)
    <3>1. PICK p \in blended : piece \in p.shows BY Zenon
    <3>2. PICK t \in {c, right} \X {r, below} : p = image.px[t] BY <3>1, Zenon
    <3>3. PICK i \in {c, right}, j \in {r, below} : t = <<i, j>> OBVIOUS
    <3>4. image.px[<<i, j>>].shows = {Piece(of, Cell(left, top, step, i, j))} /\ Near(Cell(left, top, step, i, j), here, slack)
      BY <2>5
    <3> HIDE DEF blended
    <3>5. piece = Piece(of, Cell(left, top, step, i, j)) BY <3>1, <3>2, <3>3, <3>4
    <3>6. piece.of = of /\ piece.at = Cell(left, top, step, i, j) BY <3>5 DEF Piece
    <3> QED BY <3>4, <3>6
  <2>9. OfMap(pixel, of, here, slack)
    <3> HIDE DEF shown
    <3> QED BY <2>7, <2>8, Zenon DEF OfMap
  <2>10. shown # {}
    <3>1. image.px[<<c, r>>] \in blended BY Zenon
    <3>2. Piece(of, Cell(left, top, step, c, r)) \in image.px[<<c, r>>].shows BY <2>5
    <3> HIDE DEF blended
    <3>3. Piece(of, Cell(left, top, step, c, r)) \in shown BY <3>1, <3>2, Zenon
    <3> QED BY <3>3
  <2> QED BY <2>7, <2>9, <2>10, Zenon DEF pixel, hres, vres, here
<1>10. CASE <<c, r>> \notin DOMAIN image.px
  <2>1. pixel = Clear BY <1>3, <1>10, Zenon
  <2>2. OfMap(Clear, of, here, slack) BY DEF OfMap, Clear, Pixel
  <2>3. ~HoldsPlace(image, left, top, step, here)
    <3> SUFFICES ASSUME HoldsPlace(image, left, top, step, here) PROVE <<c, r>> \in DOMAIN image.px BY <1>10
    <3> DEFINE wide == image.w * step
               high == image.h * step
    <3>1. left <= here.minx /\ here.maxx <= left + wide /\ top - high <= here.miny /\ here.maxy <= top
      BY DEF HoldsPlace
    <3>2. wide \in Int /\ high \in Int BY <1>7 DEF Side
    <3> HIDE DEF wide, high
    <3>3. here.minx + hres <= left + wide /\ -top <= -here.maxy /\ -here.maxy + vres <= -top + high
      BY <1>1, <1>5, <1>6, <3>1, <3>2 DEF Side
    <3>4. (here.minx - left) \div step \in 0 .. image.w - 1
      BY <1>1, <1>5, <1>7, <3>1, <3>3, FirstIsThere DEF wide
    <3>5. (-here.maxy - -top) \div step \in 0 .. image.h - 1
      BY <1>1, <1>5, <1>7, <3>3, FirstIsThere DEF high
    <3>6. c \in 0 .. image.w - 1 /\ r \in 0 .. image.h - 1 BY <1>4, <3>4, <3>5, Zenon
    <3> HIDE DEF c, r
    <3> QED BY <1>7, <3>6
  <2> QED BY <2>1, <2>2, <2>3, Zenon DEF pixel, hres, vres, here
<1> QED BY <1>9, <1>10, Zenon

(* A tile's place beside and below the one in the upper left corner, and   *)
(* its pixels.                                                             *)
LiesBeside(g, z, x, y, minx, miny, maxy) ==
  LET corner == GetExtent(g, minx, IF TopLeft(g) THEN miny ELSE maxy, z)
      e == GetExtent(g, x, y, z)
  IN  /\ e.minx = corner.minx + (x - minx) * UnitWidth(g, z)
      /\ e.maxy = corner.maxy - (IF TopLeft(g) THEN y - miny ELSE maxy - y) * UnitHeight(g, z)

LEMMA PlaceInMosaic ==
  ASSUME NEW g, IsGrid(g), NEW z \in DOMAIN g.levels, NEW x \in Int, NEW y \in Int,
         NEW minx \in Int, NEW miny \in Int, NEW maxy \in Int
  PROVE  LiesBeside(g, z, x, y, minx, miny, maxy)
<1> DEFINE at == IF TopLeft(g) THEN miny ELSE maxy
           row == IF TopLeft(g) THEN y - miny ELSE maxy - y
           corner == GetExtent(g, minx, at, z)
           e == GetExtent(g, x, y, z)
           u == UnitWidth(g, z)
           v == UnitHeight(g, z)
<1>1. u \in Side /\ v \in Side BY UnitsOf
<1>2. at \in Int OBVIOUS
<1>3. /\ e.minx = g.extent.minx + x * u /\ e.maxy = e.miny + v
      /\ e.miny = IF TopLeft(g) THEN g.extent.maxy - (y + 1) * v ELSE g.extent.miny + y * v
  BY ExtentOfTile
<1>4. /\ corner.minx = g.extent.minx + minx * u /\ corner.maxy = corner.miny + v
      /\ corner.miny = IF TopLeft(g) THEN g.extent.maxy - (at + 1) * v ELSE g.extent.miny + at * v
  <2> HIDE DEF at
  <2> QED BY <1>2, ExtentOfTile
<1>5. g.extent.minx \in Int /\ g.extent.miny \in Int /\ g.extent.maxy \in Int BY DEF IsGrid, IsExtent
<1> HIDE DEF at, row, corner, e, u, v
<1>6. x * u \in Int /\ minx * u \in Int /\ (x - minx) * u = x * u - minx * u BY <1>1 DEF Side
<1>7. e.minx = corner.minx + (x - minx) * u BY <1>3, <1>4, <1>5, <1>6
<1>8. ASSUME TopLeft(g) PROVE e.maxy = corner.maxy - row * v
  <2>1. at = miny /\ row = y - miny BY <1>8 DEF at, row
  <2>2. y * v \in Int /\ miny * v \in Int /\ (y + 1) * v = y * v + v /\ (miny + 1) * v = miny * v + v
        /\ (y - miny) * v = y * v - miny * v
    BY <1>1 DEF Side
  <2>3. e.maxy = g.extent.maxy - y * v /\ corner.maxy = g.extent.maxy - miny * v
    <3>1. e.maxy = g.extent.maxy - (y * v + v) + v /\ corner.maxy = g.extent.maxy - (miny * v + v) + v
      BY <1>3, <1>4, <1>8, <2>1, <2>2, Zenon
    <3> QED BY <1>1, <1>5, <2>2, <3>1 DEF Side
  <2>4. e.maxy = corner.maxy - (y - miny) * v BY <1>5, <2>2, <2>3
  <2> QED BY <1>7, <2>1, <2>4, Zenon
<1>9. ASSUME ~TopLeft(g) PROVE e.maxy = corner.maxy - row * v
  <2>1. at = maxy /\ row = maxy - y BY <1>9 DEF at, row
  <2>2. y * v \in Int /\ maxy * v \in Int /\ (maxy - y) * v = maxy * v - y * v BY <1>1 DEF Side
  <2>3. e.maxy = g.extent.miny + y * v + v /\ corner.maxy = g.extent.miny + maxy * v + v
    BY <1>3, <1>4, <1>9, <2>1, Zenon
  <2>4. e.maxy = corner.maxy - (maxy - y) * v BY <1>1, <1>5, <2>2, <2>3 DEF Side
  <2> QED BY <1>7, <2>1, <2>4, Zenon
<1>10. e.maxy = corner.maxy - row * v BY <1>8, <1>9
<1> QED BY <1>7, <1>10, Zenon DEF LiesBeside, at, row, corner, e, u, v

LEMMA CellOfTile ==
  ASSUME NEW e, NEW left \in Int, NEW top \in Int, NEW n \in Int, NEW m \in Int, NEW sx \in Side, NEW sy \in Side,
         NEW step \in Side, e.minx = left + n * (sx * step), e.maxy = top - m * (sy * step),
         HorizontalResolution(e, sx) = step, VerticalResolution(e, sy) = step, NEW c \in Int, NEW r \in Int
  PROVE  PixelAt(e, sx, sy, c, r) = Cell(left, top, step, n * sx + c, m * sy + r)
<1> DEFINE a == n * sx + c
           b == m * sy + r
<1>1. PixelAt(e, sx, sy, c, r)
        = Extent(e.minx + c * step, e.maxy - (r + 1) * step, e.minx + (c + 1) * step, e.maxy - r * step)
  BY Zenon DEF PixelAt
<1>2. /\ a * step = n * (sx * step) + c * step /\ (a + 1) * step = n * (sx * step) + (c + 1) * step
      /\ b * step = m * (sy * step) + r * step /\ (b + 1) * step = m * (sy * step) + (r + 1) * step
  BY DEF Side
<1> DEFINE x == n * (sx * step)
           y == m * (sy * step)
           c0 == c * step
           c1 == (c + 1) * step
           r0 == r * step
           r1 == (r + 1) * step
<1>3. x \in Int /\ y \in Int /\ c0 \in Int /\ c1 \in Int /\ r0 \in Int /\ r1 \in Int BY DEF Side
<1>4. e.minx = left + x /\ e.maxy = top - y OBVIOUS
<1> HIDE DEF x, y, c0, c1, r0, r1, a, b
<1>5. e.minx + c0 = left + (x + c0) /\ e.maxy - r1 = top - (y + r1)
      /\ e.minx + c1 = left + (x + c1) /\ e.maxy - r0 = top - (y + r0)
  BY <1>3, <1>4
<1>6. a * step = x + c0 /\ (a + 1) * step = x + c1 /\ b * step = y + r0 /\ (b + 1) * step = y + r1
  BY <1>2, Zenon DEF x, y, c0, c1, r0, r1
<1>7. Cell(left, top, step, a, b) = Extent(left + (x + c0), top - (y + r1), left + (x + c1), top - (y + r0))
  BY <1>6, Zenon DEF Cell
<1>8. PixelAt(e, sx, sy, c, r) = Extent(e.minx + c0, e.maxy - r1, e.minx + c1, e.maxy - r0)
  BY <1>1, Zenon DEF c0, c1, r0, r1
<1> QED BY <1>5, <1>7, <1>8, Zenon DEF a, b

(* Tiles that show where they lie, side by side without a gap, are a       *)
(* picture of the world.                                                   *)
SideBySide(b, tiles) ==
  /\ b.minx \in Int /\ b.maxx \in Int /\ b.miny \in Int /\ b.maxy \in Int
  /\ b.minx <= b.maxx /\ b.miny <= b.maxy
  /\ \A t \in tiles : t.x \in b.minx .. b.maxx /\ t.y \in b.miny .. b.maxy
  /\ \A x \in b.minx .. b.maxx, y \in b.miny .. b.maxy : \E t \in tiles : t.x = x /\ t.y = y
ShowTheirPlace(tiles, of, g, z) == \A t \in tiles : ShowsTile(t.data, of, g, [x |-> t.x, y |-> t.y, z |-> z])

(* The tile that holds a column or row.                                    *)
LEMMA TileOfSpot ==
  ASSUME NEW k \in Side, NEW n \in Int, NEW i \in 0 .. (n + 1) * k - 1
  PROVE  i \div k \in 0 .. n /\ i - (i \div k) * k \in 0 .. k - 1
<1> DEFINE q == i \div k
<1>1. q \in Int /\ k * q <= i /\ i < k * q + k BY Quotient
<1> HIDE DEF q
<1>2. q >= 0
  <2> SUFFICES ASSUME q + 1 <= 0 PROVE FALSE BY <1>1
  <2>1. k * (q + 1) <= 0 /\ k * (q + 1) = k * q + k BY <1>1 DEF Side
  <2> QED BY <1>1, <2>1 DEF Side
<1>3. q <= n
  <2> SUFFICES ASSUME n + 1 <= q PROVE FALSE BY <1>1
  <2>1. k * (n + 1) <= k * q /\ k * (n + 1) = (n + 1) * k BY <1>1 DEF Side
  <2> QED BY <1>1, <2>1 DEF Side
<1>4. q * k = k * q BY <1>1 DEF Side
<1>5. i - q * k \in 0 .. k - 1 BY <1>1, <1>4 DEF Side
<1> QED BY <1>1, <1>2, <1>3, <1>5 DEF q

LEMMA MosaicShows ==
  ASSUME NEW g, IsGrid(g), NEW z \in DOMAIN g.levels, NEW b, NEW tiles, NEW of,
         SideBySide(b, tiles), ShowTheirPlace(tiles, of, g, z)
  PROVE  LET corner == GetExtent(g, b.minx, IF TopLeft(g) THEN b.miny ELSE b.maxy, z)
             image == Mosaic(g, b, tiles)
         IN  /\ OfWorld(image, of, corner.minx, corner.maxy, Resolution(g, z))
             /\ image.w = (b.maxx - b.minx + 1) * g.tile_sx /\ image.h = (b.maxy - b.miny + 1) * g.tile_sy
<1> DEFINE corner == GetExtent(g, b.minx, IF TopLeft(g) THEN b.miny ELSE b.maxy, z)
           image == Mosaic(g, b, tiles)
           step == Resolution(g, z)
           sx == g.tile_sx
           sy == g.tile_sy
           w == (b.maxx - b.minx + 1) * sx
           h == (b.maxy - b.miny + 1) * sy
           row(t) == IF TopLeft(g) THEN t.y - b.miny ELSE b.maxy - t.y
           within(t, s) == <<s[1] - (t.x - b.minx) * sx, s[2] - row(t) * sy>>
           at(s) == {t \in tiles : t.data.type # "RAW" /\ within(t, s) \in DOMAIN t.data.image.px}
           drawn(s) == LET t == CHOOSE t \in at(s) : TRUE
                       IN  IF at(s) = {} THEN Clear ELSE t.data.image.px[within(t, s)]
<1>0. IsGrid(g) /\ z \in DOMAIN g.levels OBVIOUS
<1>1. image.w = w /\ image.h = h /\ image.px = [s \in Spots(w, h) |-> drawn(s)]
  BY DEF Mosaic, Image, Tabled
<1>2. sx \in Side /\ sy \in Side /\ step \in Side /\ UnitWidth(g, z) = sx * step /\ UnitHeight(g, z) = sy * step
  BY UnitsOf
<1>3. /\ b.minx \in Int /\ b.maxx \in Int /\ b.miny \in Int /\ b.maxy \in Int
      /\ b.minx <= b.maxx /\ b.miny <= b.maxy
      /\ \A t \in tiles : t.x \in b.minx .. b.maxx /\ t.y \in b.miny .. b.maxy
      /\ \A x \in b.minx .. b.maxx, y \in b.miny .. b.maxy : \E t \in tiles : t.x = x /\ t.y = y
  BY Zenon DEF SideBySide
<1>4. IsExtent(corner)
  <2> DEFINE y == IF TopLeft(g) THEN b.miny ELSE b.maxy
  <2>1. y \in Int BY <1>3
  <2> HIDE DEF y
  <2> QED BY <1>3, <2>1, ExtentOfTile
<1>5. ASSUME NEW t \in tiles, NEW s, within(t, s) \in DOMAIN t.data.image.px, s[1] \in Int, s[2] \in Int
      PROVE  LET pixel == t.data.image.px[within(t, s)]
             IN  pixel = Pixel({Piece(of, Cell(corner.minx, corner.maxy, step, s[1], s[2]))}, pixel.alpha)
  <2> DEFINE e == GetExtent(g, t.x, t.y, z)
             n == t.x - b.minx
             m == row(t)
             c == s[1] - n * sx
             r == s[2] - m * sy
             pixel == t.data.image.px[<<c, r>>]
             tile == [x |-> t.x, y |-> t.y, z |-> z]
  <2>1. t.x \in Int /\ t.y \in Int BY <1>3
  <2>2. n \in Int /\ m \in Int BY <1>3, <2>1
  <2>3. ShowsTile(t.data, of, g, tile) BY Zenon DEF ShowTheirPlace
  <2>4. tile.x = t.x /\ tile.y = t.y /\ tile.z = z OBVIOUS
  <2>5. <<c, r>> \in DOMAIN t.data.image.px BY <1>5
  <2> HIDE DEF tile, pixel, e, c, r
  <2>6. DOMAIN t.data.image.px = Spots(sx, sy) BY <2>3, Zenon DEF ShowsTile
  <2>7. c \in 0 .. sx - 1 /\ r \in 0 .. sy - 1 BY <2>5, <2>6 DEF Spots
  <2>8. t.data.image.px[<<c, r>>]
          = Pixel({Piece(of, PixelAt(GetExtent(g, tile.x, tile.y, tile.z), sx, sy, c, r))}, t.data.image.px[<<c, r>>].alpha)
    BY <2>3, <2>7, Zenon DEF ShowsTile
  <2>9. pixel = Pixel({Piece(of, PixelAt(e, sx, sy, c, r))}, pixel.alpha) BY <2>4, <2>8, Zenon DEF pixel, e
  <2>10. e.minx = corner.minx + n * (sx * step) /\ e.maxy = corner.maxy - m * (sy * step)
    <3>1. b.minx \in Int /\ b.miny \in Int /\ b.maxy \in Int BY <1>3
    <3>2. LiesBeside(g, z, t.x, t.y, b.minx, b.miny, b.maxy) BY <1>0, <2>1, <3>1, PlaceInMosaic
    <3>3. e.minx = corner.minx + n * UnitWidth(g, z) /\ e.maxy = corner.maxy - m * UnitHeight(g, z)
      BY <3>2, Zenon DEF LiesBeside, e
    <3> HIDE DEF n, m, corner, sx, sy, step
    <3> QED BY <1>2, <3>3, Zenon
  <2>11. HorizontalResolution(e, sx) = step /\ VerticalResolution(e, sy) = step BY <2>1, ExtentOfTile DEF e
  <2>12. n * sx + c = s[1] /\ m * sy + r = s[2]
    <3> DEFINE across == n * sx
               down == m * sy
               p == s[1]
               q == s[2]
    <3>1. across \in Int /\ down \in Int BY <1>2, <2>2 DEF Side
    <3>2. c = p - across /\ r = q - down /\ p \in Int /\ q \in Int BY <1>5, Zenon DEF c, r
    <3> HIDE DEF across, down, p, q
    <3>3. across + c = p /\ down + r = q BY <3>1, <3>2
    <3> QED BY <3>3 DEF across, down, p, q
  <2> HIDE DEF n, m, sx, sy, step, corner
  <2>13. PixelAt(e, sx, sy, c, r) = Cell(corner.minx, corner.maxy, step, n * sx + c, m * sy + r)
    <3>1. corner.minx \in Int /\ corner.maxy \in Int BY <1>4 DEF IsExtent
    <3>2. c \in Int /\ r \in Int BY <2>7
    <3> QED BY <1>2, <2>2, <2>10, <2>11, <3>1, <3>2, CellOfTile
  <2>14. pixel = Pixel({Piece(of, Cell(corner.minx, corner.maxy, step, s[1], s[2]))}, pixel.alpha)
    BY <2>9, <2>12, <2>13, Zenon
  <2> QED BY <2>14, Zenon DEF pixel, c, r, n, m, sx, sy, step, corner
<1>6. ASSUME NEW s \in Spots(w, h) PROVE at(s) # {} /\ s[1] \in Int /\ s[2] \in Int
  <2> DEFINE i == s[1]
             j == s[2]
             col == i \div sx
             down == j \div sy
             x == b.minx + col
             y == IF TopLeft(g) THEN b.miny + down ELSE b.maxy - down
  <2>1. i \in 0 .. w - 1 /\ j \in 0 .. h - 1 BY DEF Spots
  <2>2. col \in 0 .. b.maxx - b.minx /\ i - col * sx \in 0 .. sx - 1
    <3> DEFINE n == b.maxx - b.minx
    <3>1. n \in Int /\ sx \in Side /\ i \in 0 .. (n + 1) * sx - 1 BY <1>2, <1>3, <2>1
    <3> HIDE DEF n, i, sx
    <3> QED BY <3>1, TileOfSpot DEF n
  <2>3. down \in 0 .. b.maxy - b.miny /\ j - down * sy \in 0 .. sy - 1
    <3> DEFINE n == b.maxy - b.miny
    <3>1. n \in Int /\ sy \in Side /\ j \in 0 .. (n + 1) * sy - 1 BY <1>2, <1>3, <2>1
    <3> HIDE DEF n, j, sy
    <3> QED BY <3>1, TileOfSpot DEF n
  <2> HIDE DEF i, j, col, down
  <2>4. x \in b.minx .. b.maxx /\ y \in b.miny .. b.maxy BY <1>3, <2>2, <2>3
  <2>5. PICK t \in tiles : t.x = x /\ t.y = y BY <1>3, <2>4
  <2>6. t.x - b.minx = col /\ row(t) = down BY <1>3, <2>2, <2>3, <2>5
  <2>7. within(t, s) = <<i - col * sx, j - down * sy>> BY <2>6, Zenon DEF i, j
  <2>8. ShowsTile(t.data, of, g, [x |-> t.x, y |-> t.y, z |-> z]) BY Zenon DEF ShowTheirPlace
  <2>9. t.data.type \in {"PNG", "JPEG"} /\ DOMAIN t.data.image.px = Spots(sx, sy) BY <2>8, Zenon DEF ShowsTile
  <2>10. <<i - col * sx, j - down * sy>> \in Spots(sx, sy) BY <2>2, <2>3 DEF Spots
  <2>11. t.data.type # "RAW" BY <2>9
  <2>12. t \in at(s) BY <2>7, <2>9, <2>10, <2>11, Zenon
  <2>13. at(s) # {} BY <2>12, Zenon
  <2>14. s[1] \in Int /\ s[2] \in Int
    <3> HIDE DEF w, h
    <3> QED BY <2>1 DEF i, j
  <2> QED BY <2>13, <2>14, Zenon
<1>7. ASSUME NEW s \in Spots(w, h)
      PROVE  drawn(s) = Pixel({Piece(of, Cell(corner.minx, corner.maxy, step, s[1], s[2]))}, drawn(s).alpha)
  <2> DEFINE t == CHOOSE t \in at(s) : TRUE
  <2>1. t \in at(s) BY <1>6, Zenon
  <2>2. drawn(s) = t.data.image.px[within(t, s)] BY <1>6, Zenon
  <2>3. t \in tiles /\ within(t, s) \in DOMAIN t.data.image.px BY <2>1, Zenon
  <2> HIDE DEF t, drawn, within, corner, step
  <2> QED BY <1>5, <1>6, <2>2, <2>3, Zenon
<1>8. w \in Nat /\ h \in Nat
  <2> DEFINE n == b.maxx - b.minx + 1
             m == b.maxy - b.miny + 1
  <2>1. n \in Nat /\ m \in Nat BY <1>3
  <2> HIDE DEF n, m
  <2>2. n * sx \in Nat /\ m * sy \in Nat BY <1>2, <2>1 DEF Side
  <2> QED BY <2>2 DEF n, m
<1> HIDE DEF image, drawn, w, h, corner, step, sx, sy
<1>9. OfWorld(image, of, corner.minx, corner.maxy, step)
  <2>1. DOMAIN image.px = Spots(w, h) /\ \A s \in Spots(w, h) : image.px[s] = drawn(s) BY <1>1
  <2> QED BY <1>1, <1>7, <1>8, <2>1, Zenon DEF OfWorld
<1> QED BY <1>1, <1>9, Zenon DEF image, w, h, corner, step, sx, sy

(* The tiles of a map: a rectangle of the valid ones.                      *)
LEMMA TruncOrder ==
  ASSUME NEW a \in Int, NEW b \in Int, NEW k \in Side, a <= b
  PROVE  Trunc(a, k) \in Int /\ Trunc(b, k) \in Int /\ Trunc(a, k) <= Trunc(b, k)
<1>1. a \div k \in Int /\ b \div k \in Int /\ a \div k <= b \div k BY Quotient, QuotientOrder
<1>2. (-a) \div k \in Int /\ (-b) \div k \in Int /\ (-b) \div k <= (-a) \div k BY Quotient, QuotientOrder
<1>3. 0 \div k = 0 BY QuotientIs DEF Side
<1>4. CASE a >= 0 BY <1>1, <1>4 DEF Trunc
<1>5. CASE b < 0 BY <1>2, <1>5 DEF Trunc
<1>6. CASE a < 0 /\ b >= 0
  <2>1. 0 <= b \div k /\ 0 <= (-a) \div k BY <1>3, <1>6, QuotientOrder
  <2> QED BY <1>1, <1>2, <1>6, <2>1 DEF Trunc
<1> QED BY <1>4, <1>5, <1>6

Bound(p, q, l, m) == [first |-> Larger(Smaller(p, q), l), last |-> Smaller(Larger(p, q), m - 1)]
MapBounds(link, bbox, z) ==
  LET l == link.grid_limits[z]
      bl == GetXY(link.grid, bbox.minx, bbox.miny, z)
      tr == GetXY(link.grid, bbox.maxx, bbox.maxy, z)
      x == Bound(bl.x, tr.x, l.minx, l.maxx)
      y == Bound(bl.y, tr.y, l.miny, l.maxy)
  IN  Extent(x.first, y.first, x.last, y.last)

LEMMA InBound ==
  ASSUME NEW p \in Int, NEW q \in Int, NEW l \in Int, NEW m \in Int
  PROVE  /\ Bound(p, q, l, m).first \in Int /\ Bound(p, q, l, m).last \in Int
         /\ \A i : i \in Bound(p, q, l, m).first .. Bound(p, q, l, m).last
                     <=> i \in Smaller(p, q) .. Larger(p, q) /\ i >= l /\ i < m
BY DEF Bound, Larger, Smaller

TilesIn(b, z) == [x : b.minx .. b.maxx, y : b.miny .. b.maxy, z : {z}]
IsRectangle(b) == b.minx \in Int /\ b.maxx \in Int /\ b.miny \in Int /\ b.maxy \in Int /\ b.minx <= b.maxx /\ b.miny <= b.maxy

LEMMA RectangleOfTiles ==
  ASSUME NEW link, NEW bbox, NEW w, NEW h, IsGrid(link.grid), IsExtent(bbox),
         NEW z \in DOMAIN link.grid.levels, z = ClosestLevel(link, ResolutionOf(bbox, w, h)),
         NEW l, l = link.grid_limits[z], l.minx \in Int, l.miny \in Int, l.maxx \in Int, l.maxy \in Int,
         GetMapTiles(link, bbox, w, h) # {}, NEW b, b = MapBounds(link, bbox, z)
  PROVE  /\ IsRectangle(b) /\ GetMapTiles(link, bbox, w, h) = TilesIn(b, z)
         /\ l.minx < l.maxx /\ l.miny < l.maxy
<1> DEFINE g == link.grid
           bl == GetXY(g, bbox.minx, bbox.miny, z)
           tr == GetXY(g, bbox.maxx, bbox.maxy, z)
           x == Bound(bl.x, tr.x, l.minx, l.maxx)
           y == Bound(bl.y, tr.y, l.miny, l.maxy)
           box == [x : Smaller(bl.x, tr.x) .. Larger(bl.x, tr.x), y : Smaller(bl.y, tr.y) .. Larger(bl.y, tr.y), z : {z}]
           tiles == GetMapTiles(link, bbox, w, h)
<1>1. bl.x \in Int /\ tr.x \in Int /\ bl.y \in Int /\ tr.y \in Int
  <2>1. UnitWidth(g, z) \in Side /\ UnitHeight(g, z) \in Side BY UnitsOf
  <2>2. /\ bbox.minx \in Int /\ bbox.miny \in Int /\ bbox.maxx \in Int /\ bbox.maxy \in Int
        /\ g.extent.minx \in Int /\ g.extent.miny \in Int /\ g.extent.maxx \in Int /\ g.extent.maxy \in Int
    BY DEF IsGrid, IsExtent
  <2>3. \A a \in Int, k \in Side : Trunc(a, k) \in Int
    <3>1. ASSUME NEW a \in Int, NEW k \in Side PROVE Trunc(a, k) \in Int
      <4>1. a <= a OBVIOUS
      <4> QED BY <4>1, TruncOrder
    <3> QED BY <3>1
  <2>4. \A dx, dy \in Int : GetXY(g, dx, dy, z).x \in Int /\ GetXY(g, dx, dy, z).y \in Int
    <3> SUFFICES ASSUME NEW dx \in Int, NEW dy \in Int PROVE GetXY(g, dx, dy, z).x \in Int /\ GetXY(g, dx, dy, z).y \in Int
      OBVIOUS
    <3> DEFINE below == IF TopLeft(g) THEN g.extent.maxy - dy ELSE dy - g.extent.miny
    <3>1. below \in Int /\ dx - g.extent.minx \in Int BY <2>2
    <3>2. GetXY(g, dx, dy, z).x = Trunc(dx - g.extent.minx, UnitWidth(g, z))
          /\ GetXY(g, dx, dy, z).y = Trunc(below, UnitHeight(g, z))
      BY DEF GetXY
    <3> HIDE DEF below
    <3> QED BY <2>1, <2>3, <3>1, <3>2
  <2> QED BY <2>2, <2>4
<1>2. l.minx \in Int /\ l.miny \in Int /\ l.maxx \in Int /\ l.maxy \in Int OBVIOUS
<1>3. b.minx = x.first /\ b.maxx = x.last /\ b.miny = y.first /\ b.maxy = y.last BY DEF MapBounds, Extent
<1>4. tiles = {t \in box : Valid(link, t.x, t.y, t.z)}
  <2>1. z = ClosestLevel(link, ResolutionOf(bbox, w, h)) OBVIOUS
  <2> QED BY <2>1, Zenon DEF GetMapTiles
<1>5. PICK s \in tiles : TRUE OBVIOUS
<1> HIDE DEF tiles, bl, tr
<1>6. s \in box /\ Valid(link, s.x, s.y, z)
  <2>1. s \in box /\ Valid(link, s.x, s.y, s.z) BY <1>4, <1>5, Zenon
  <2> QED BY <2>1
<1>7. \A i, j : Valid(link, i, j, z) <=> i >= l.minx /\ i < l.maxx /\ j >= l.miny /\ j < l.maxy
  BY <1>6, Zenon DEF Valid
<1>8. /\ x.first \in Int /\ x.last \in Int
      /\ \A i : i \in x.first .. x.last <=> i \in Smaller(bl.x, tr.x) .. Larger(bl.x, tr.x) /\ i >= l.minx /\ i < l.maxx
  BY <1>1, <1>2, InBound
<1>9. /\ y.first \in Int /\ y.last \in Int
      /\ \A i : i \in y.first .. y.last <=> i \in Smaller(bl.y, tr.y) .. Larger(bl.y, tr.y) /\ i >= l.miny /\ i < l.maxy
  BY <1>1, <1>2, InBound
<1> HIDE DEF x, y
<1>10. \A t : t \in tiles <=> t \in [x : x.first .. x.last, y : y.first .. y.last, z : {z}]
  <2> SUFFICES ASSUME NEW t PROVE t \in tiles <=> t \in [x : x.first .. x.last, y : y.first .. y.last, z : {z}] OBVIOUS
  <2>1. t \in tiles <=> t \in box /\ Valid(link, t.x, t.y, t.z) BY <1>4, Zenon
  <2>2. t \in box => t.z = z OBVIOUS
  <2>3. t \in tiles <=> t \in box /\ t.x >= l.minx /\ t.x < l.maxx /\ t.y >= l.miny /\ t.y < l.maxy
    <3> HIDE DEF box
    <3> QED BY <1>7, <2>1, <2>2, Zenon
  <2>4. t \in box /\ t.x >= l.minx /\ t.x < l.maxx /\ t.y >= l.miny /\ t.y < l.maxy
          => t \in [x : x.first .. x.last, y : y.first .. y.last, z : {z}]
    BY <1>8, <1>9
  <2>5. t \in [x : x.first .. x.last, y : y.first .. y.last, z : {z}]
          => t \in box /\ t.x >= l.minx /\ t.x < l.maxx /\ t.y >= l.miny /\ t.y < l.maxy
    <3> SUFFICES ASSUME t \in [x : x.first .. x.last, y : y.first .. y.last, z : {z}]
        PROVE  t \in box /\ t.x >= l.minx /\ t.x < l.maxx /\ t.y >= l.miny /\ t.y < l.maxy
      OBVIOUS
    <3>1. t.x \in x.first .. x.last /\ t.y \in y.first .. y.last /\ t = [x |-> t.x, y |-> t.y, z |-> z] OBVIOUS
    <3>2. /\ t.x \in Smaller(bl.x, tr.x) .. Larger(bl.x, tr.x) /\ t.x >= l.minx /\ t.x < l.maxx
          /\ t.y \in Smaller(bl.y, tr.y) .. Larger(bl.y, tr.y) /\ t.y >= l.miny /\ t.y < l.maxy
      BY <1>8, <1>9, <3>1, Zenon
    <3> QED BY <3>1, <3>2
  <2> QED BY <2>3, <2>4, <2>5, Zenon
<1>11. tiles = TilesIn(b, z) BY <1>3, <1>10 DEF TilesIn
<1>12. s.x \in x.first .. x.last /\ s.y \in y.first .. y.last BY <1>5, <1>10
<1>13. x.first <= x.last /\ y.first <= y.last BY <1>8, <1>9, <1>12
<1>14. l.minx < l.maxx /\ l.miny < l.maxy
  <2>1. s.x \in Int /\ s.y \in Int BY <1>8, <1>9, <1>12
  <2> QED BY <1>2, <1>6, <1>7, <2>1
<1> QED BY <1>3, <1>8, <1>9, <1>11, <1>13, <1>14, Zenon DEF IsRectangle, tiles

(* From the first to the last tile, on one axis; then both: what lies in   *)
(* the map and where there are valid tiles lies on one of the map's.       *)
Spans(b, o, u, a, c) == b.first \in Nat /\ b.last \in Int /\ o + b.first * u <= a /\ c <= o + (b.last + 1) * u

LEMMA AxisHolds ==
  ASSUME NEW p \in Int, NEW q \in Int, NEW o \in Int, NEW u \in Side, NEW l \in Nat, NEW m \in Int, p <= q,
         NEW a \in Int, NEW c \in Int, p <= a, c <= q, o + l * u <= a, c <= o + m * u, NEW b,
         b \in {Bound(Trunc(p - o, u), Trunc(q - o, u), l, m), Bound(Trunc(q - o, u), Trunc(p - o, u), l, m)}
  PROVE  Spans(b, o, u, a, c)
<1> DEFINE lo == Trunc(p - o, u)
           hi == Trunc(q - o, u)
           first == Larger(lo, l)
           last == Smaller(hi, m - 1)
<1>1. first \in Nat /\ last \in Int /\ o + first * u <= a /\ c <= o + (last + 1) * u BY CellsHold
<1>2. lo \in Int /\ hi \in Int /\ lo <= hi
  <2>1. p - o \in Int /\ q - o \in Int /\ p - o <= q - o OBVIOUS
  <2> QED BY <2>1, TruncOrder
<1> HIDE DEF lo, hi, first, last
<1>3. Smaller(lo, hi) = lo /\ Larger(lo, hi) = hi /\ Smaller(hi, lo) = lo /\ Larger(hi, lo) = hi
  BY <1>2 DEF Smaller, Larger
<1>4. b \in {Bound(lo, hi, l, m), Bound(hi, lo, l, m)} BY DEF lo, hi
<1>5. b = [first |-> first, last |-> last] BY <1>3, <1>4, Zenon DEF Bound, first, last
<1>6. b.first = first /\ b.last = last BY <1>5
<1> QED BY <1>1, <1>6, Zenon DEF Spans

LEMMA RegionOfLimits ==
  ASSUME NEW link, IsGrid(link.grid), NEW z \in DOMAIN link.grid.levels, NEW l, l = link.grid_limits[z],
         l.minx \in Nat, l.miny \in Nat, l.maxx \in Int, l.maxy \in Int, l.minx < l.maxx, l.miny < l.maxy,
         NEW u, NEW v, u = UnitWidth(link.grid, z), v = UnitHeight(link.grid, z),
         NEW e, e = link.grid.extent
  PROVE  LET region == RegionOf(link, z)
         IN  /\ region.minx = e.minx + l.minx * u /\ region.maxx = e.minx + l.maxx * u
             /\ TopLeft(link.grid) =>
                  region.miny = -(-e.maxy + l.maxy * v) /\ region.maxy = -(-e.maxy + l.miny * v)
             /\ ~TopLeft(link.grid) => region.miny = e.miny + l.miny * v /\ region.maxy = e.miny + l.maxy * v
<1> DEFINE g == link.grid
           region == RegionOf(link, z)
           first == GetExtent(g, l.minx, l.miny, z)
           last == GetExtent(g, l.maxx - 1, l.maxy - 1, z)
           x1 == l.minx * u
           x2 == l.maxx * u
           y1 == l.miny * v
           y2 == l.maxy * v
           y3 == (l.maxy - 1) * v
           y4 == (l.miny + 1) * v
<1>1. region = Extent(first.minx, Smaller(first.miny, last.miny), last.maxx, Larger(first.maxy, last.maxy))
  BY Zenon DEF RegionOf
<1>2. /\ region.minx = first.minx /\ region.miny = Smaller(first.miny, last.miny)
      /\ region.maxx = last.maxx /\ region.maxy = Larger(first.maxy, last.maxy)
  <2> HIDE DEF region, first, last
  <2> QED BY <1>1 DEF Extent
<1>3. u \in Side /\ v \in Side BY UnitsOf
<1>4. /\ first.minx = e.minx + l.minx * u /\ first.maxy = first.miny + v
      /\ first.miny = IF TopLeft(g) THEN e.maxy - (l.miny + 1) * v ELSE e.miny + l.miny * v
  <2>1. l.minx \in Int /\ l.miny \in Int OBVIOUS
  <2> QED BY <2>1, ExtentOfTile
<1>5. /\ last.minx = e.minx + (l.maxx - 1) * u /\ last.maxx = last.minx + u /\ last.maxy = last.miny + v
      /\ last.miny = IF TopLeft(g) THEN e.maxy - ((l.maxy - 1) + 1) * v ELSE e.miny + (l.maxy - 1) * v
  <2>1. l.maxx - 1 \in Int /\ l.maxy - 1 \in Int OBVIOUS
  <2> QED BY <2>1, ExtentOfTile
<1>6. e.minx \in Int /\ e.miny \in Int /\ e.maxy \in Int BY DEF IsGrid, IsExtent
<1> HIDE DEF region, first, last
<1>7. /\ x1 \in Int /\ x2 \in Int /\ y1 \in Int /\ y2 \in Int /\ y3 \in Int /\ y4 \in Int
      /\ (l.maxx - 1) * u = x2 - u /\ y3 = y2 - v /\ y4 = y1 + v /\ ((l.maxy - 1) + 1) * v = y2
  BY <1>3 DEF Side
<1>8. y1 <= y3
  <2>1. l.miny <= l.maxy - 1 /\ v >= 0 /\ l.miny \in Int /\ l.maxy - 1 \in Int /\ v \in Int BY <1>3 DEF Side
  <2> QED BY <2>1
<1>9. /\ first.minx = e.minx + x1 /\ last.maxx = e.minx + x2
  <2>1. last.minx = e.minx + (x2 - u) BY <1>5, <1>7
  <2> HIDE DEF x1, x2
  <2>2. last.maxx = e.minx + x2 BY <1>3, <1>5, <1>6, <1>7, <2>1 DEF Side
  <2> QED BY <1>4, <2>2 DEF x1
<1>10. ASSUME TopLeft(g) PROVE region.miny = -(-e.maxy + y2) /\ region.maxy = -(-e.maxy + y1)
  <2>1. first.miny = e.maxy - y4 /\ last.miny = e.maxy - y2 BY <1>4, <1>5, <1>7, <1>10
  <2> HIDE DEF x1, x2, y1, y2, y3, y4
  <2>2. first.miny = e.maxy - y1 - v /\ first.maxy = e.maxy - y1 /\ last.maxy = e.maxy - y2 + v
    BY <1>3, <1>4, <1>5, <1>6, <1>7, <2>1 DEF Side
  <2> QED BY <1>2, <1>3, <1>6, <1>7, <1>8, <2>1, <2>2 DEF Side, Smaller, Larger
<1>11. ASSUME ~TopLeft(g) PROVE region.miny = e.miny + y1 /\ region.maxy = e.miny + y2
  <2>1. first.miny = e.miny + y1 /\ last.miny = e.miny + y3 BY <1>4, <1>5, <1>11
  <2> HIDE DEF x1, x2, y1, y2, y3, y4
  <2>2. first.maxy = e.miny + y1 + v /\ last.maxy = e.miny + y2
    BY <1>3, <1>4, <1>5, <1>6, <1>7, <2>1 DEF Side
  <2> QED BY <1>2, <1>3, <1>6, <1>7, <1>8, <2>1, <2>2 DEF Side, Smaller, Larger
<1> QED BY <1>2, <1>9, <1>10, <1>11, Zenon DEF region

(* One extent in another.                                                  *)
Inside(e, f) == f.minx <= e.minx /\ e.maxx <= f.maxx /\ f.miny <= e.miny /\ e.maxy <= f.maxy

LEMMA MapTilesHold ==
  ASSUME NEW link, IsGrid(link.grid), NEW z \in DOMAIN link.grid.levels, NEW l, l = link.grid_limits[z],
         l.minx \in Nat, l.miny \in Nat, l.maxx \in Int, l.maxy \in Int, l.minx < l.maxx, l.miny < l.maxy,
         NEW bbox, IsExtent(bbox), bbox.minx <= bbox.maxx, bbox.miny <= bbox.maxy,
         NEW here, IsExtent(here), Inside(here, bbox), Inside(here, RegionOf(link, z)),
         NEW b, b = MapBounds(link, bbox, z), NEW image,
         image.w = (b.maxx - b.minx + 1) * link.grid.tile_sx, image.h = (b.maxy - b.miny + 1) * link.grid.tile_sy,
         NEW corner, corner = GetExtent(link.grid, b.minx, IF TopLeft(link.grid) THEN b.miny ELSE b.maxy, z)
  PROVE  HoldsPlace(image, corner.minx, corner.maxy, Resolution(link.grid, z), here)
<1> DEFINE g == link.grid
           e == g.extent
           u == UnitWidth(g, z)
           v == UnitHeight(g, z)
           step == Resolution(g, z)
           region == RegionOf(link, z)
           bl == GetXY(g, bbox.minx, bbox.miny, z)
           tr == GetXY(g, bbox.maxx, bbox.maxy, z)
           x == Bound(bl.x, tr.x, l.minx, l.maxx)
           y == Bound(bl.y, tr.y, l.miny, l.maxy)
<1>1. u \in Side /\ v \in Side /\ step \in Side /\ u = g.tile_sx * step /\ v = g.tile_sy * step
      /\ g.tile_sx \in Side /\ g.tile_sy \in Side
  BY UnitsOf
<1>2. e.minx \in Int /\ e.miny \in Int /\ e.maxx \in Int /\ e.maxy \in Int /\ -e.maxy \in Int BY DEF IsGrid, IsExtent
<1>3. /\ bbox.minx \in Int /\ bbox.miny \in Int /\ bbox.maxx \in Int /\ bbox.maxy \in Int
      /\ -bbox.miny \in Int /\ -bbox.maxy \in Int
      /\ here.minx \in Int /\ here.miny \in Int /\ here.maxx \in Int /\ here.maxy \in Int
      /\ -here.miny \in Int /\ -here.maxy \in Int
  BY DEF IsExtent
<1>4. /\ bl.x = Trunc(bbox.minx - e.minx, u) /\ tr.x = Trunc(bbox.maxx - e.minx, u)
      /\ TopLeft(g) => bl.y = Trunc(e.maxy - bbox.miny, v) /\ tr.y = Trunc(e.maxy - bbox.maxy, v)
      /\ ~TopLeft(g) => bl.y = Trunc(bbox.miny - e.miny, v) /\ tr.y = Trunc(bbox.maxy - e.miny, v)
  BY DEF GetXY
<1>5. b.minx = x.first /\ b.maxx = x.last /\ b.miny = y.first /\ b.maxy = y.last BY DEF MapBounds, Extent
<1>6. /\ region.minx = e.minx + l.minx * u /\ region.maxx = e.minx + l.maxx * u
      /\ TopLeft(g) => region.miny = -(-e.maxy + l.maxy * v) /\ region.maxy = -(-e.maxy + l.miny * v)
      /\ ~TopLeft(g) => region.miny = e.miny + l.miny * v /\ region.maxy = e.miny + l.maxy * v
  BY RegionOfLimits
<1>7. /\ bbox.minx <= here.minx /\ here.maxx <= bbox.maxx /\ bbox.miny <= here.miny /\ here.maxy <= bbox.maxy
      /\ region.minx <= here.minx /\ here.maxx <= region.maxx /\ region.miny <= here.miny /\ here.maxy <= region.maxy
  BY Zenon DEF Inside
<1>8. IsGrid(g) /\ z \in DOMAIN g.levels /\ bbox.minx <= bbox.maxx /\ bbox.miny <= bbox.maxy
      /\ l.minx \in Nat /\ l.miny \in Nat /\ l.maxx \in Int /\ l.maxy \in Int
      /\ image.w = (b.maxx - b.minx + 1) * g.tile_sx /\ image.h = (b.maxy - b.miny + 1) * g.tile_sy
      /\ corner = GetExtent(g, b.minx, IF TopLeft(g) THEN b.miny ELSE b.maxy, z)
  OBVIOUS
<1> HIDE DEF g, e, u, v, step, region, bl, tr
<1>9. Spans(x, e.minx, u, here.minx, here.maxx)
  <2>1. x \in {Bound(Trunc(bbox.minx - e.minx, u), Trunc(bbox.maxx - e.minx, u), l.minx, l.maxx),
               Bound(Trunc(bbox.maxx - e.minx, u), Trunc(bbox.minx - e.minx, u), l.minx, l.maxx)}
    BY <1>4
  <2>2. e.minx + l.minx * u <= here.minx /\ here.maxx <= e.minx + l.maxx * u BY <1>6, <1>7
  <2>3. x = Bound(Trunc(bbox.minx - e.minx, u), Trunc(bbox.maxx - e.minx, u), l.minx, l.maxx) BY <1>4
  <2> HIDE DEF x
  <2> DEFINE p == bbox.minx
             q == bbox.maxx
             o == e.minx
             a == here.minx
             c == here.maxx
             first == l.minx
             end == l.maxx
  <2>4. /\ p \in Int /\ q \in Int /\ o \in Int /\ u \in Side /\ first \in Nat /\ end \in Int /\ p <= q
        /\ a \in Int /\ c \in Int /\ p <= a /\ c <= q /\ o + first * u <= a /\ c <= o + end * u
        /\ x \in {Bound(Trunc(p - o, u), Trunc(q - o, u), first, end), Bound(Trunc(q - o, u), Trunc(p - o, u), first, end)}
    BY <1>1, <1>2, <1>3, <1>7, <1>8, <2>1, <2>2, Zenon
  <2> HIDE DEF p, q, o, a, c, first, end
  <2>5. Spans(x, o, u, a, c) BY <2>4, AxisHolds
  <2> QED BY <2>5 DEF o, a, c
<1>10. ASSUME TopLeft(g)
       PROVE  Spans(y, -e.maxy, v, -here.maxy, -here.miny)
  <2>1. -bbox.maxy - -e.maxy = e.maxy - bbox.maxy /\ -bbox.miny - -e.maxy = e.maxy - bbox.miny BY <1>2, <1>3
  <2>2. y \in {Bound(Trunc(-bbox.maxy - -e.maxy, v), Trunc(-bbox.miny - -e.maxy, v), l.miny, l.maxy),
               Bound(Trunc(-bbox.miny - -e.maxy, v), Trunc(-bbox.maxy - -e.maxy, v), l.miny, l.maxy)}
    BY <1>4, <1>10, <2>1
  <2>3. -bbox.maxy <= -bbox.miny /\ -bbox.maxy <= -here.maxy /\ -here.miny <= -bbox.miny BY <1>3, <1>7, <1>8
  <2>4. -e.maxy + l.miny * v <= -here.maxy /\ -here.miny <= -e.maxy + l.maxy * v
    <3> DEFINE low == l.miny * v
               up == l.maxy * v
    <3>1. low \in Int /\ up \in Int BY <1>1, <1>8 DEF Side
    <3>2. -(-e.maxy + up) <= here.miny /\ here.maxy <= -(-e.maxy + low) BY <1>6, <1>7, <1>10
    <3> HIDE DEF low, up
    <3>3. -e.maxy + low <= -here.maxy /\ -here.miny <= -e.maxy + up BY <1>2, <1>3, <3>1, <3>2
    <3> QED BY <3>3 DEF low, up
  <2> HIDE DEF y
  <2> DEFINE p == -bbox.maxy
             q == -bbox.miny
             o == -e.maxy
             a == -here.maxy
             c == -here.miny
             first == l.miny
             end == l.maxy
  <2>9. /\ p \in Int /\ q \in Int /\ o \in Int /\ v \in Side /\ first \in Nat /\ end \in Int /\ p <= q
        /\ a \in Int /\ c \in Int /\ p <= a /\ c <= q /\ o + first * v <= a /\ c <= o + end * v
        /\ y \in {Bound(Trunc(p - o, v), Trunc(q - o, v), first, end), Bound(Trunc(q - o, v), Trunc(p - o, v), first, end)}
    BY <1>1, <1>2, <1>3, <1>8, <2>2, <2>3, <2>4, Zenon
  <2> HIDE DEF p, q, o, a, c, first, end
  <2>10. Spans(y, o, v, a, c) BY <2>9, AxisHolds
  <2> QED BY <2>10 DEF o, a, c
<1>11. ASSUME ~TopLeft(g)
       PROVE  Spans(y, e.miny, v, here.miny, here.maxy)
  <2>1. y \in {Bound(Trunc(bbox.miny - e.miny, v), Trunc(bbox.maxy - e.miny, v), l.miny, l.maxy),
               Bound(Trunc(bbox.maxy - e.miny, v), Trunc(bbox.miny - e.miny, v), l.miny, l.maxy)}
    BY <1>4, <1>11
  <2>2. e.miny + l.miny * v <= here.miny /\ here.maxy <= e.miny + l.maxy * v BY <1>6, <1>7, <1>11
  <2> HIDE DEF y
  <2> DEFINE p == bbox.miny
             q == bbox.maxy
             o == e.miny
             a == here.miny
             c == here.maxy
             first == l.miny
             end == l.maxy
  <2>9. /\ p \in Int /\ q \in Int /\ o \in Int /\ v \in Side /\ first \in Nat /\ end \in Int /\ p <= q
        /\ a \in Int /\ c \in Int /\ p <= a /\ c <= q /\ o + first * v <= a /\ c <= o + end * v
        /\ y \in {Bound(Trunc(p - o, v), Trunc(q - o, v), first, end), Bound(Trunc(q - o, v), Trunc(p - o, v), first, end)}
    BY <1>1, <1>2, <1>3, <1>7, <1>8, <2>1, <2>2, Zenon
  <2> HIDE DEF p, q, o, a, c, first, end
  <2>10. Spans(y, o, v, a, c) BY <2>9, AxisHolds
  <2> QED BY <2>10 DEF o, a, c
<1> HIDE DEF x, y
<1>12. b.minx \in Int /\ b.maxx \in Int /\ b.miny \in Int /\ b.maxy \in Int
  BY <1>5, <1>9, <1>10, <1>11 DEF Spans
<1> DEFINE n == b.maxx - b.minx + 1
           m == b.maxy - b.miny + 1
           at == IF TopLeft(g) THEN b.miny ELSE b.maxy
           x1 == b.minx * u
           x2 == (b.maxx + 1) * u
           y1 == b.miny * v
           y2 == (b.maxy + 1) * v
<1>13. image.w * step = x2 - x1 /\ image.h * step = y2 - y1
  <2>1. n \in Int /\ m \in Int /\ image.w = n * g.tile_sx /\ image.h = m * g.tile_sy BY <1>8, <1>12
  <2> HIDE DEF n, m
  <2>2. image.w * step = n * u /\ image.h * step = m * v BY <1>1, <2>1 DEF Side
  <2>3. n * u = x2 - x1 /\ m * v = y2 - y1 BY <1>1, <1>12 DEF Side, n, m
  <2> QED BY <2>2, <2>3
<1>14. corner.minx = e.minx + x1
       /\ (TopLeft(g) => corner.maxy = e.maxy - y1) /\ (~TopLeft(g) => corner.maxy = e.miny + y2)
  <2>1. at \in Int /\ corner = GetExtent(g, b.minx, at, z) BY <1>8, <1>12
  <2> HIDE DEF at
  <2>2. /\ corner.minx = e.minx + b.minx * u /\ corner.maxy = corner.miny + v
        /\ corner.miny = IF TopLeft(g) THEN e.maxy - (at + 1) * v ELSE e.miny + at * v
    BY <1>8, <1>12, <2>1, ExtentOfTile DEF e, u, v
  <2>3. TopLeft(g) => (at + 1) * v = y1 + v BY <1>1, <1>12 DEF at, Side
  <2>4. ~TopLeft(g) => at * v = y2 - v BY <1>1, <1>12 DEF at, Side
  <2>5. y1 \in Int /\ y2 \in Int BY <1>1, <1>12 DEF Side
  <2> HIDE DEF x1, x2, y1, y2
  <2>6. TopLeft(g) => corner.miny = e.maxy - (y1 + v) BY <2>2, <2>3
  <2>7. ~TopLeft(g) => corner.miny = e.miny + (y2 - v) BY <2>2, <2>4
  <2>8. corner.minx = e.minx + x1 BY <2>2 DEF x1
  <2> QED BY <1>1, <1>2, <2>2, <2>5, <2>6, <2>7, <2>8 DEF Side
<1>15. x1 \in Int /\ x2 \in Int /\ y1 \in Int /\ y2 \in Int BY <1>1, <1>12 DEF Side
<1>16. e.minx + x1 <= here.minx /\ here.maxx <= e.minx + x2 BY <1>5, <1>9 DEF Spans
<1>17. /\ TopLeft(g) => -e.maxy + y1 <= -here.maxy /\ -here.miny <= -e.maxy + y2
       /\ ~TopLeft(g) => e.miny + y1 <= here.miny /\ here.maxy <= e.miny + y2
  BY <1>5, <1>10, <1>11 DEF Spans
<1> HIDE DEF x1, x2, y1, y2
<1> DEFINE wide == image.w * step
           high == image.h * step
<1>18. wide = x2 - x1 /\ high = y2 - y1 BY <1>13
<1> HIDE DEF wide, high
<1>19. /\ corner.minx <= here.minx /\ here.maxx <= corner.minx + wide
       /\ corner.maxy - high <= here.miny /\ here.maxy <= corner.maxy
  BY <1>2, <1>3, <1>14, <1>15, <1>16, <1>17, <1>18
<1> QED BY <1>19 DEF HoldsPlace, wide, high, step, g

(* Maps show the world.                                                     *)
ShowsWorld(px, of, bbox, w, h, covered, slack) ==
  /\ DOMAIN px = Spots(w, h)
  /\ \A s \in Spots(w, h) :
       LET here == PixelAt(bbox, w, h, s[1], s[2])
       IN  OfMap(px[s], of, here, slack) /\ (Covers(covered, here, slack) => px[s].shows # {})
MapShows(outcome, of, bbox, w, h, covered, slack) ==
  \E px : outcome = Good(Plain(w, h, px)) /\ ShowsWorld(px, of, bbox, w, h, covered, slack)

(* A map with whole pixels.                                                *)
IsMap(bbox, w, h) ==
  /\ IsExtent(bbox) /\ w \in Side /\ h \in Side
  /\ HorizontalResolution(bbox, w) \in Side /\ VerticalResolution(bbox, h) \in Side

LEMMA SizeOfMap ==
  ASSUME NEW a \in Int, NEW b \in Int, NEW n \in Side, (b - a) \div n \in Side
  PROVE  /\ a <= b
         /\ \A i \in 0 .. n - 1 : i * ((b - a) \div n) >= 0 /\ (i + 1) * ((b - a) \div n) <= b - a
<1> DEFINE r == (b - a) \div n
           all == n * r
<1>1. r \in Int /\ all <= b - a /\ r >= 1 /\ n >= 1 /\ n \in Int BY Quotient DEF Side
<1> HIDE DEF r
<1>2. all \in Int /\ all >= 0 BY <1>1
<1>3. ASSUME NEW i \in 0 .. n - 1 PROVE i * r >= 0 /\ (i + 1) * r <= all
  <2>1. i \in Int /\ i >= 0 /\ i + 1 <= n /\ i + 1 \in Int BY <1>1
  <2> QED BY <1>1, <2>1
<1>4. ASSUME NEW i \in 0 .. n - 1 PROVE i * r >= 0 /\ (i + 1) * r <= b - a
  <2> DEFINE p == (i + 1) * r
  <2>1. p \in Int BY <1>1
  <2>2. i * r >= 0 /\ p <= all BY <1>3
  <2> HIDE DEF all, p
  <2>3. p <= b - a BY <1>1, <1>2, <2>1, <2>2
  <2> QED BY <2>2, <2>3 DEF p
<1>5. a <= b
  <2> HIDE DEF all
  <2> QED BY <1>1, <1>2
<1> QED BY <1>4, <1>5 DEF r

LEMMA PixelInMap ==
  ASSUME NEW bbox, NEW w, NEW h, IsMap(bbox, w, h), NEW s \in Spots(w, h), NEW here, here = PixelAt(bbox, w, h, s[1], s[2])
  PROVE  s[1] \in Nat /\ s[2] \in Nat /\ IsExtent(here) /\ Inside(here, bbox)
<1> DEFINE c == s[1]
           r == s[2]
           x == HorizontalResolution(bbox, w)
           y == VerticalResolution(bbox, h)
           x1 == c * x
           x2 == (c + 1) * x
           y1 == r * y
           y2 == (r + 1) * y
<1>1. /\ IsExtent(bbox) /\ w \in Side /\ h \in Side /\ x \in Side /\ y \in Side
      /\ bbox.minx \in Int /\ bbox.miny \in Int /\ bbox.maxx \in Int /\ bbox.maxy \in Int
      /\ x = (bbox.maxx - bbox.minx) \div w /\ y = (bbox.maxy - bbox.miny) \div h
  BY DEF IsMap, IsExtent, HorizontalResolution, VerticalResolution
<1>2. c \in 0 .. w - 1 /\ r \in 0 .. h - 1 BY DEF Spots
<1>3. here = PixelAt(bbox, w, h, c, r) OBVIOUS
<1> HIDE DEF c, r, x, y
<1>4. c \in Nat /\ r \in Nat BY <1>1, <1>2 DEF Side
<1>5. x1 >= 0 /\ x2 <= bbox.maxx - bbox.minx
  <2>1. (bbox.maxx - bbox.minx) \div w \in Side BY <1>1
  <2>2. \A i \in 0 .. w - 1 : i * ((bbox.maxx - bbox.minx) \div w) >= 0
          /\ (i + 1) * ((bbox.maxx - bbox.minx) \div w) <= bbox.maxx - bbox.minx
    BY <1>1, <2>1, SizeOfMap
  <2> QED BY <1>1, <1>2, <2>2
<1>6. y1 >= 0 /\ y2 <= bbox.maxy - bbox.miny
  <2>1. (bbox.maxy - bbox.miny) \div h \in Side BY <1>1
  <2>2. \A i \in 0 .. h - 1 : i * ((bbox.maxy - bbox.miny) \div h) >= 0
          /\ (i + 1) * ((bbox.maxy - bbox.miny) \div h) <= bbox.maxy - bbox.miny
    BY <1>1, <2>1, SizeOfMap
  <2> QED BY <1>1, <1>2, <2>2
<1>7. /\ IsExtent(here)
      /\ here.minx = bbox.minx + x1 /\ here.maxx = here.minx + x
      /\ here.maxy = bbox.maxy - y1 /\ here.miny = here.maxy - y
  <2>1. x = HorizontalResolution(bbox, w) /\ y = VerticalResolution(bbox, h) BY DEF x, y
  <2>2. here.minx = bbox.minx + c * x /\ here.maxx = here.minx + x /\ here.maxy = bbox.maxy - r * y /\ here.miny = here.maxy - y
    BY <1>1, <1>3, <1>4, <2>1, PlaceOfPixel
  <2>3. x1 \in Int /\ y1 \in Int BY <1>1, <1>4 DEF Side
  <2>4. here.minx = bbox.minx + x1 /\ here.maxy = bbox.maxy - y1 BY <2>2
  <2> HIDE DEF x1, x2, y1, y2
  <2>5. IsExtent(here) BY <1>1, <2>2, <2>3, <2>4 DEF IsExtent, Side
  <2> QED BY <2>2, <2>4, <2>5
<1>8. x1 \in Int /\ x2 = x1 + x /\ y1 \in Int /\ y2 = y1 + y BY <1>1, <1>4 DEF Side
<1> HIDE DEF x1, x2, y1, y2
<1>9. /\ bbox.minx <= here.minx /\ here.maxx <= bbox.maxx
      /\ bbox.miny <= here.miny /\ here.maxy <= bbox.maxy
  BY <1>1, <1>5, <1>6, <1>7, <1>8 DEF Side
<1> QED BY <1>4, <1>7, <1>9 DEF Inside, c, r

LEMMA CoveredInside ==
  ASSUME NEW covered, NEW here, NEW slack \in Nat, NEW region, IsExtent(covered), IsExtent(here), IsExtent(region),
         Inside(covered, region), Covers(covered, here, slack)
  PROVE  Inside(here, region)
BY DEF IsExtent, Inside, Covers

(* The bounds of the tiles of a map.                                       *)
LEMMA EndsOfRange ==
  ASSUME NEW a \in Int, NEW b \in Int, a <= b
  PROVE  Lowest(a .. b) = a /\ Highest(a .. b) = b
<1>1. \E x \in a .. b : \A i \in a .. b : x <= i
  <2>1. a \in a .. b /\ \A i \in a .. b : a <= i OBVIOUS
  <2> QED BY <2>1
<1>2. \E x \in a .. b : \A i \in a .. b : x >= i
  <2>1. b \in a .. b /\ \A i \in a .. b : b >= i OBVIOUS
  <2> QED BY <2>1
<1> DEFINE lowest == Lowest(a .. b)
           highest == Highest(a .. b)
<1>3. lowest \in a .. b /\ \A i \in a .. b : lowest <= i BY <1>1 DEF Lowest
<1>4. highest \in a .. b /\ \A i \in a .. b : highest >= i BY <1>2 DEF Highest
<1> HIDE DEF lowest, highest
<1>5. lowest = a /\ highest = b BY <1>3, <1>4
<1> QED BY <1>5 DEF lowest, highest

(* The tiles of a map with what was got of each.                           *)
AllOf(places, tiles) ==
  /\ \A t \in tiles : [x |-> t.x, y |-> t.y, z |-> t.z] \in places /\ ~t.nodata
  /\ \A place \in places : \E t \in tiles : t.x = place.x /\ t.y = place.y

LEMMA BoundsOfMap ==
  ASSUME NEW b, IsRectangle(b), b = Extent(b.minx, b.miny, b.maxx, b.maxy),
         NEW z, NEW tiles, AllOf(TilesIn(b, z), tiles)
  PROVE  SideBySide(b, tiles) /\ Bounds(tiles) = b /\ tiles # {} /\ \A t \in tiles : t.z = z
<1>0. b.minx \in Int /\ b.maxx \in Int /\ b.miny \in Int /\ b.maxy \in Int /\ b.minx <= b.maxx /\ b.miny <= b.maxy
  BY DEF IsRectangle
<1> DEFINE places == [x : b.minx .. b.maxx, y : b.miny .. b.maxy, z : {z}]
           xs == {t.x : t \in tiles}
           ys == {t.y : t \in tiles}
<1>1. \A t \in tiles : [x |-> t.x, y |-> t.y, z |-> t.z] \in places BY Zenon DEF AllOf, TilesIn
<1>2. \A place \in places : \E t \in tiles : t.x = place.x /\ t.y = place.y BY Zenon DEF AllOf, TilesIn
<1>3. ASSUME NEW t \in tiles PROVE t.x \in b.minx .. b.maxx /\ t.y \in b.miny .. b.maxy /\ t.z = z
  <2> DEFINE place == [x |-> t.x, y |-> t.y, z |-> t.z]
  <2>1. place \in places BY <1>1
  <2>2. place.x = t.x /\ place.y = t.y /\ place.z = t.z OBVIOUS
  <2> HIDE DEF place
  <2>3. place.x \in b.minx .. b.maxx /\ place.y \in b.miny .. b.maxy /\ place.z = z BY <2>1
  <2> QED BY <2>2, <2>3
<1>4. ASSUME NEW i \in b.minx .. b.maxx, NEW j \in b.miny .. b.maxy PROVE \E t \in tiles : t.x = i /\ t.y = j
  <2> DEFINE place == [x |-> i, y |-> j, z |-> z]
  <2>1. place \in places /\ place.x = i /\ place.y = j OBVIOUS
  <2> HIDE DEF place, places
  <2> QED BY <1>2, <2>1, Zenon
<1>5. SideBySide(b, tiles) BY <1>0, <1>3, <1>4, Zenon DEF SideBySide
<1>6. xs = b.minx .. b.maxx
  <2>1. b.miny \in b.miny .. b.maxy BY <1>0
  <2>2. ASSUME NEW i \in b.minx .. b.maxx PROVE i \in xs BY <1>4, <2>1, Zenon
  <2>3. ASSUME NEW i \in xs PROVE i \in b.minx .. b.maxx BY <1>3, Zenon
  <2> QED BY <2>2, <2>3, Zenon
<1>7. ys = b.miny .. b.maxy
  <2>1. b.minx \in b.minx .. b.maxx BY <1>0
  <2>2. ASSUME NEW i \in b.miny .. b.maxy PROVE i \in ys BY <1>4, <2>1, Zenon
  <2>3. ASSUME NEW i \in ys PROVE i \in b.miny .. b.maxy BY <1>3, Zenon
  <2> QED BY <2>2, <2>3, Zenon
<1>8. Bounds(tiles) = [minx |-> Lowest(xs), maxx |-> Highest(xs), miny |-> Lowest(ys), maxy |-> Highest(ys)]
  BY Zenon DEF Bounds
<1>9. Lowest(xs) = b.minx /\ Highest(xs) = b.maxx /\ Lowest(ys) = b.miny /\ Highest(ys) = b.maxy
  BY <1>0, <1>6, <1>7, EndsOfRange
<1> HIDE DEF xs, ys
<1>10. Bounds(tiles) = [minx |-> b.minx, maxx |-> b.maxx, miny |-> b.miny, maxy |-> b.maxy] BY <1>8, <1>9, Zenon
<1>11. b = [minx |-> b.minx, miny |-> b.miny, maxx |-> b.maxx, maxy |-> b.maxy] BY DEF Extent
<1>12. Bounds(tiles) = b
  <2> DEFINE p == b.minx
             q == b.miny
             r == b.maxx
             s == b.maxy
  <2>1. Bounds(tiles) = [minx |-> p, maxx |-> r, miny |-> q, maxy |-> s] BY <1>10
  <2>2. b = [minx |-> p, miny |-> q, maxx |-> r, maxy |-> s] BY <1>11
  <2> HIDE DEF p, q, r, s
  <2>3. [minx |-> p, maxx |-> r, miny |-> q, maxy |-> s] = [minx |-> p, miny |-> q, maxx |-> r, maxy |-> s] OBVIOUS
  <2> QED BY <2>1, <2>2, <2>3, Zenon
<1>13. tiles # {}
  <2>1. b.minx \in b.minx .. b.maxx /\ b.miny \in b.miny .. b.maxy BY <1>0
  <2> QED BY <1>4, <2>1, Zenon
<1> QED BY <1>3, <1>5, <1>12, <1>13, Zenon

(* Tiles that are not much coarser than the map.                           *)
AreFine(step, bbox, w, h, slack) ==
  \A res \in {HorizontalResolution(bbox, w), VerticalResolution(bbox, h)} :
    step < 2 * res /\ 3 * step <= 2 * (res + slack)

LEMMA ResampledShows ==
  ASSUME NEW image, NEW of, NEW corner, corner.minx \in Int, corner.maxy \in Int, NEW step \in Side,
         OfWorld(image, of, corner.minx, corner.maxy, step), NEW bbox, NEW w, NEW h, IsMap(bbox, w, h),
         NEW slack \in Nat, AreFine(step, bbox, w, h, slack), NEW covered, NEW mode,
         \A s \in Spots(w, h) :
           LET here == PixelAt(bbox, w, h, s[1], s[2])
           IN  Covers(covered, here, slack) => HoldsPlace(image, corner.minx, corner.maxy, step, here),
         NEW outcome,
         outcome = Good(Resampled(image, corner, step, bbox, HorizontalResolution(bbox, w), VerticalResolution(bbox, h),
                                  w, h, mode))
  PROVE  MapShows(outcome, of, bbox, w, h, covered, slack)
<1> DEFINE hres == HorizontalResolution(bbox, w)
           vres == VerticalResolution(bbox, h)
           left == corner.minx
           top == corner.maxy
           near == ResampledNearest(image, left, top, step, bbox, hres, vres, w, h)
           blend == ResampledBilinear(image, left, top, step, bbox, hres, vres, w, h)
           drawn == Resampled(image, corner, step, bbox, hres, vres, w, h, mode)
<1>1. IsExtent(bbox) /\ hres \in Side /\ vres \in Side BY DEF IsMap
<1>2. /\ step < 2 * hres /\ 3 * step <= 2 * (hres + slack)
      /\ step < 2 * vres /\ 3 * step <= 2 * (vres + slack)
  BY Zenon DEF AreFine
<1>3. drawn \in {near, blend} BY Zenon DEF Resampled
<1>4. near = Plain(w, h, near.px) /\ DOMAIN near.px = Spots(w, h)
      /\ blend = Plain(w, h, blend.px) /\ DOMAIN blend.px = Spots(w, h)
  <2>1. ASSUME NEW px PROVE Image(w, h, px) = Plain(w, h, px) /\ Plain(w, h, px).px = px
    BY PartsOfPlain DEF Image, Tabled, Plain
  <2>2. \E f : near = Image(w, h, f) /\ DOMAIN f = Spots(w, h)
    <3> DEFINE f == [s \in Spots(w, h) |->
                       LET src == <<Nearest(bbox.minx + s[1] * hres, left, step), Nearest(top, bbox.maxy - s[2] * vres, step)>>
                       IN  IF src \in DOMAIN image.px THEN image.px[src] ELSE Clear]
    <3>1. near = Image(w, h, f) BY Zenon DEF ResampledNearest
    <3>2. DOMAIN f = Spots(w, h) BY Zenon
    <3> HIDE DEF f, near
    <3> QED BY <3>1, <3>2
  <2>3. \E f : blend = Image(w, h, f) /\ DOMAIN f = Spots(w, h)
    <3> DEFINE f == [s \in Spots(w, h) |->
                       LET x == bbox.minx + s[1] * hres - left
                           y == top - (bbox.maxy - s[2] * vres)
                           c == <<x \div step, y \div step>>
                           right == IF c[1] = image.w - 1 \/ x % step = 0 THEN c[1] ELSE c[1] + 1
                           below == IF c[2] = image.h - 1 \/ y % step = 0 THEN c[2] ELSE c[2] + 1
                       IN  IF c \in DOMAIN image.px
                           THEN Blend({image.px[t] : t \in {c[1], right} \X {c[2], below}})
                           ELSE Clear]
    <3>1. blend = Image(w, h, f) BY Zenon DEF ResampledBilinear
    <3>2. DOMAIN f = Spots(w, h) BY Zenon
    <3> HIDE DEF f, blend
    <3> QED BY <3>1, <3>2
  <2> HIDE DEF near, blend
  <2> QED BY <2>1, <2>2, <2>3
<1>5. ASSUME NEW s \in Spots(w, h), NEW here, here = PixelAt(bbox, w, h, s[1], s[2])
      PROVE  /\ OfMap(near.px[s], of, here, slack) /\ OfMap(blend.px[s], of, here, slack)
             /\ Covers(covered, here, slack) => near.px[s].shows # {} /\ blend.px[s].shows # {}
  <2>1. s[1] \in Nat /\ s[2] \in Nat BY PixelInMap
  <2>2. Covers(covered, here, slack) => HoldsPlace(image, left, top, step, here) BY <1>5, Zenon
  <2>3. left \in Int /\ top \in Int /\ OfWorld(image, of, left, top, step) OBVIOUS
  <2> HIDE DEF left, top
  <2>4. LET shown == ResampledNearest(image, left, top, step, bbox, HorizontalResolution(bbox, w),
                                      VerticalResolution(bbox, h), w, h)
            place == PixelAt(bbox, w, h, s[1], s[2])
        IN  /\ OfMap(shown.px[s], of, place, slack)
            /\ HoldsPlace(image, left, top, step, place) => shown.px[s].shows # {}
    BY <1>1, <1>2, <2>1, <2>3, NearestShows
  <2>5. LET shown == ResampledBilinear(image, left, top, step, bbox, HorizontalResolution(bbox, w),
                                       VerticalResolution(bbox, h), w, h)
            place == PixelAt(bbox, w, h, s[1], s[2])
        IN  /\ OfMap(shown.px[s], of, place, slack)
            /\ HoldsPlace(image, left, top, step, place) => shown.px[s].shows # {}
    BY <1>1, <1>2, <2>1, <2>3, BilinearShows
  <2> QED BY <1>5, <2>2, <2>4, <2>5, Zenon
<1>6. ShowsWorld(near.px, of, bbox, w, h, covered, slack) /\ ShowsWorld(blend.px, of, bbox, w, h, covered, slack)
  <2> HIDE DEF near, blend
  <2> QED BY <1>4, <1>5, Zenon DEF ShowsWorld
<1>7. outcome = Good(drawn) OBVIOUS
<1> HIDE DEF near, blend, drawn
<1> QED BY <1>3, <1>4, <1>6, <1>7, Zenon DEF MapShows

(* A map of valid tiles that are fine enough, of one source each and at    *)
(* their places: what shows in each pixel lies near it, and where there    *)
(* are valid tiles around a pixel, something shows. However the rows are   *)
(* counted, wherever the map ends, blended or not.                         *)
THEOREM MapsOfTilesShowTheWorld ==
  ASSUME NEW link, IsGrid(link.grid), NEW bbox, NEW w, NEW h, IsMap(bbox, w, h),
         NEW z \in DOMAIN link.grid.levels, z = ClosestLevel(link, ResolutionOf(bbox, w, h)),
         NEW l, l = link.grid_limits[z], l.minx \in Nat, l.miny \in Nat, l.maxx \in Int, l.maxy \in Int,
         NEW slack \in Nat, AreFine(Resolution(link.grid, z), bbox, w, h, slack),
         NEW covered, IsExtent(covered), Inside(covered, RegionOf(link, z)),
         NEW of, NEW tiles, NEW mode, GetMapTiles(link, bbox, w, h) # {},
         AllOf(GetMapTiles(link, bbox, w, h), tiles), ShowTheirPlace(tiles, of, link.grid, z)
  PROVE  MapShows(Assemble(link.grid, bbox, w, h, tiles, mode), of, bbox, w, h, covered, slack)
<1> DEFINE g == link.grid
           step == Resolution(g, z)
           b == MapBounds(link, bbox, z)
           at == IF TopLeft(g) THEN b.miny ELSE b.maxy
           corner == GetExtent(g, b.minx, at, z)
           image == Mosaic(g, b, tiles)
           region == RegionOf(link, z)
<1>1. step \in Side BY UnitsOf
<1>2. IsExtent(bbox) BY DEF IsMap
<1>3. bbox.minx <= bbox.maxx /\ bbox.miny <= bbox.maxy
  <2>1. bbox.minx \in Int /\ bbox.maxx \in Int /\ bbox.miny \in Int /\ bbox.maxy \in Int BY <1>2 DEF IsExtent
  <2>2. w \in Side /\ h \in Side /\ (bbox.maxx - bbox.minx) \div w \in Side /\ (bbox.maxy - bbox.miny) \div h \in Side
    BY DEF IsMap, HorizontalResolution, VerticalResolution
  <2> QED BY <2>1, <2>2, SizeOfMap
<1>4. IsRectangle(b) /\ GetMapTiles(link, bbox, w, h) = TilesIn(b, z) /\ l.minx < l.maxx /\ l.miny < l.maxy
  <2>1. l.minx \in Int /\ l.miny \in Int OBVIOUS
  <2>2. b = MapBounds(link, bbox, z) OBVIOUS
  <2> HIDE DEF b
  <2> QED BY <1>2, <2>1, <2>2, RectangleOfTiles
<1>5. b = Extent(b.minx, b.miny, b.maxx, b.maxy)
  <2>1. \E p, q, r, s : b = Extent(p, q, r, s) BY Zenon DEF MapBounds
  <2> HIDE DEF b
  <2> QED BY <2>1 DEF Extent
<1>6. b = MapBounds(link, bbox, z) OBVIOUS
<1> HIDE DEF b
<1>7. SideBySide(b, tiles) /\ Bounds(tiles) = b /\ tiles # {} /\ \A t \in tiles : t.z = z
  <2>1. AllOf(TilesIn(b, z), tiles) BY <1>4, Zenon
  <2> QED BY <1>4, <1>5, <2>1, BoundsOfMap
<1>8. /\ OfWorld(image, of, corner.minx, corner.maxy, step)
      /\ image.w = (b.maxx - b.minx + 1) * g.tile_sx /\ image.h = (b.maxy - b.miny + 1) * g.tile_sy
  BY <1>7, MosaicShows
<1>9. {t \in tiles : ~t.nodata} = tiles
  <2>1. \A t \in tiles : ~t.nodata BY Zenon DEF AllOf
  <2> QED BY <2>1
<1>10. ~\E t \in tiles : ~IsValidFormat(t.data)
  <2> SUFFICES ASSUME NEW t \in tiles PROVE IsValidFormat(t.data) OBVIOUS
  <2>1. ShowsTile(t.data, of, g, [x |-> t.x, y |-> t.y, z |-> z]) BY Zenon DEF ShowTheirPlace
  <2>2. t.data.type \in {"PNG", "JPEG"} BY <2>1, Zenon DEF ShowsTile
  <2> QED BY <2>2 DEF IsValidFormat, HeaderSniff
<1>11. Assemble(g, bbox, w, h, tiles, mode)
         = Good(Resampled(image, corner, step, bbox, HorizontalResolution(bbox, w), VerticalResolution(bbox, h), w, h, mode))
  <2>1. (CHOOSE t \in tiles : TRUE).z = z BY <1>7, Zenon
  <2>2. Assemble(g, bbox, w, h, tiles, mode) = AssembleWithin(g, b, z, bbox, w, h, tiles, mode)
    BY <1>7, <1>9, <2>1, Zenon DEF Assemble
  <2>3. AssembleWithin(g, b, z, bbox, w, h, tiles, mode)
          = Good(Resampled(image, corner, step, bbox, HorizontalResolution(bbox, w), VerticalResolution(bbox, h), w, h, mode))
    BY <1>10, Zenon DEF AssembleWithin
  <2> QED BY <2>2, <2>3, Zenon
<1>12. IsExtent(corner)
  <2>1. at \in Int /\ b.minx \in Int BY <1>4 DEF IsRectangle
  <2> HIDE DEF at
  <2> QED BY <2>1, ExtentOfTile
<1>13. IsExtent(region)
  <2>1. IsExtent(GetExtent(g, l.minx, l.miny, z)) /\ IsExtent(GetExtent(g, l.maxx - 1, l.maxy - 1, z))
    <3>1. l.minx \in Int /\ l.miny \in Int /\ l.maxx - 1 \in Int /\ l.maxy - 1 \in Int OBVIOUS
    <3> QED BY <3>1, ExtentOfTile
  <2> DEFINE first == GetExtent(g, l.minx, l.miny, z)
             last == GetExtent(g, l.maxx - 1, l.maxy - 1, z)
  <2>2. region = Extent(first.minx, Smaller(first.miny, last.miny), last.maxx, Larger(first.maxy, last.maxy))
    BY Zenon DEF RegionOf
  <2> HIDE DEF first, last, region
  <2>3. IsExtent(first) /\ IsExtent(last) BY <2>1 DEF first, last
  <2> QED BY <2>2, <2>3 DEF IsExtent, Extent, Smaller, Larger
<1>14. ASSUME NEW s \in Spots(w, h), NEW here, here = PixelAt(bbox, w, h, s[1], s[2]), Covers(covered, here, slack)
       PROVE  HoldsPlace(image, corner.minx, corner.maxy, step, here)
  <2>1. IsExtent(here) /\ Inside(here, bbox) BY <1>14, PixelInMap
  <2>2. Inside(here, region)
    <3> HIDE DEF region
    <3>1. Inside(covered, region) BY DEF region
    <3> QED BY <1>13, <1>14, <2>1, <3>1, CoveredInside
  <2> QED BY <1>2, <1>3, <1>4, <1>6, <1>8, <2>1, <2>2, MapTilesHold
<1>15. \A s \in Spots(w, h) :
         LET here == PixelAt(bbox, w, h, s[1], s[2])
         IN  Covers(covered, here, slack) => HoldsPlace(image, corner.minx, corner.maxy, step, here)
  BY <1>14, Zenon
<1>16. corner.minx \in Int /\ corner.maxy \in Int BY <1>12 DEF IsExtent
<1> DEFINE outcome == Assemble(g, bbox, w, h, tiles, mode)
<1>17. MapShows(outcome, of, bbox, w, h, covered, slack)
  <2>1. outcome = Good(Resampled(image, corner, step, bbox, HorizontalResolution(bbox, w), VerticalResolution(bbox, h), w, h, mode))
    BY <1>11
  <2>2. OfWorld(image, of, corner.minx, corner.maxy, step) BY <1>8
  <2>3. AreFine(step, bbox, w, h, slack) OBVIOUS
  <2> HIDE DEF outcome, image, corner, step, region, g
  <2> QED BY <1>1, <1>15, <1>16, <2>1, <2>2, <2>3, ResampledShows
<1> QED BY <1>17
=============================================================================
