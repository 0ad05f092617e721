--------------------------------- MODULE Wmts ---------------------------------
(***************************************************************************)
(* The WMTS service, lib/service_wmts.c. A tile is named by parameters or  *)
(* by the path; both say the same things, which are then checked in one    *)
(* order. Rows are counted from the top, whatever the grid.                *)
(***************************************************************************)
EXTENDS TileServices

(* What a request says, None where it says nothing and Junk where it is    *)
(* no number; extension: that of the last segment of a path.               *)
Asked(style, dims, matrixset, matrix, row, col, j, i, infoformat, extension) ==
  [style |-> style, dims |-> dims, matrixset |-> matrixset, matrix |-> matrix, row |-> row, col |-> col,
   j |-> j, i |-> i, infoformat |-> infoformat, extension |-> extension]

(* Dimensions that are not among the parameters have their defaults.       *)
KvpAsked(tileset, params) ==
  LET feature == params["REQUEST"] = "getfeatureinfo"
      dims == [n \in DOMAIN tileset.dimensions |->
                 Given(Param(params, tileset.dimensions[n].name), tileset.dimensions[n].default_value)]
  IN  Asked(Given(Param(params, "STYLE"), "default"), dims, Param(params, "TILEMATRIXSET"),
            Param(params, "TILEMATRIX"), Param(params, "TILEROW"), Param(params, "TILECOL"),
            IF feature THEN Param(params, "J") ELSE None, IF feature THEN Param(params, "I") ELSE None,
            IF feature THEN Param(params, "INFOFORMAT") ELSE None, None)

(* version / layer / style / dimensions / set / matrix / row / column.ext, *)
(* or ... / column / j / i.ext. The last segment of the longer form has a  *)
(* point: the code writes past the segment where it finds none.            *)
RestAsked(tileset, path) ==
  LET d == Len(tileset.dimensions)
      has(k) == k \in DOMAIN path
      whole(k) == IF ~has(k) THEN None ELSE IF IsNumber(path[k]) THEN NumberOf(path[k]) ELSE Junk
      stem(k) == IF ~has(k) THEN None ELSE IF path[k].number # {} THEN NumberOf(path[k]) ELSE Junk
      ext(k) == IF has(k) /\ path[k].ext # "" THEN {path[k].ext} ELSE {}
      exts == ext(7 + d) \cup ext(9 + d)
  IN  Asked(IF has(3) THEN path[3].word ELSE None,
            [n \in 1 .. d |-> IF has(3 + n) THEN path[3 + n].value ELSE None],
            IF has(4 + d) THEN path[4 + d].word ELSE None, whole(5 + d), whole(6 + d), stem(7 + d),
            whole(8 + d), stem(9 + d), None, IF exts = {} THEN None ELSE CHOOSE e \in exts : TRUE)

(* Mutant: rows are those of the grid, also where its origin is below.     *)
RowOfGridAsIs(link, asked) == asked.row

RowOfGrid(link, asked) ==
  IF TopLeft(link.grid) THEN asked.row ELSE FromOtherSide(link, asked.row, asked.matrix)

(* The values of the dimensions, each as it is validated; {} if not.       *)
Validated(dim, v) == IF Readable(v) THEN Validate(dim, v) ELSE {}
AllValid(tileset, values) ==
  \A n \in DOMAIN tileset.dimensions : Validated(tileset.dimensions[n], values[n]) # {}
AsValidated(tileset, values) ==
  IF tileset.dimensions = << >> THEN None
  ELSE [n \in DOMAIN tileset.dimensions |->
          CHOOSE v \in Validated(tileset.dimensions[n], values[n]) : TRUE]

(* A place in a tile, or in a map: the requested dimensions do not get     *)
(* there in WMTS.                                                          *)
FeatureInfo(tileset, link, dimensions, e, w, h, i, j, format) ==
  [type |-> "GET_FEATUREINFO", tileset |-> tileset, grid_link |-> link, dimensions |-> dimensions,
   extent |-> e, w |-> w, h |-> h, i |-> i, j |-> j, format |-> format]
InfoFormats(cfg, tileset) ==
  IF tileset.source = None THEN << >> ELSE cfg.sources[tileset.source].info_formats
Indexed(formats, extension) == {k \in DOMAIN formats : ToString(k - 1) = extension}

WmtsFeature(cfg, tileset, link, asked) ==
  LET formats == InfoFormats(cfg, tileset)
      indexed == Indexed(formats, asked.extension)
      format == IF asked.extension = None THEN asked.infoformat ELSE formats[CHOOSE k \in indexed : TRUE]
      g == link.grid
      e == GetExtent(g, asked.col, RowOfGrid(link, asked), asked.matrix)
  IN  IF asked.i = None \/ (asked.infoformat = None /\ asked.extension = None) \/ formats = << >> THEN Bad(400)
      ELSE IF asked.extension # None /\ indexed = {} THEN Bad(404)
      ELSE IF ~Readable(asked.i) \/ asked.i < 0 \/ asked.i >= g.tile_sx THEN Bad(404)
      ELSE IF ~Readable(asked.j) \/ asked.j < 0 \/ asked.j >= g.tile_sy THEN Bad(404)
      ELSE Good(FeatureInfo(tileset, link, DefaultDimensions(tileset), e, g.tile_sx, g.tile_sy,
                            asked.i, asked.j, format))

WmtsChecked(cfg, tileset, asked) ==
  LET links == LinksNamed(tileset, asked.matrixset)
      link == CHOOSE l \in links : TRUE
      level == asked.matrix
      tile == [Tile(tileset, link, asked.col, RowOfGrid(link, asked), level)
                 EXCEPT !.dimensions = AsValidated(tileset, asked.dims)]
  IN  IF asked.style # "default" \/ ~AllValid(tileset, asked.dims) \/ links = {} THEN Bad(404)
      ELSE IF ~Readable(level) \/ level < link.minz \/ level >= link.maxz THEN Bad(404)
      ELSE IF ~Readable(asked.row) \/ asked.row < 0 \/ ~Readable(asked.col) \/ asked.col < 0 THEN Bad(404)
      ELSE IF asked.j # None THEN WmtsFeature(cfg, tileset, link, asked)
      ELSE IF ValidTile(tile) THEN Good(GetTile(<<tile>>, None))
      ELSE Bad(404)

WmtsKvpParse(cfg, params) ==
  LET operation == Param(params, "REQUEST")
      name == GetTileset(cfg, Param(params, "LAYER"))
      missing == {p \in {"INFOFORMAT", "I", "J"} : Param(params, p) = None}
  IN  IF params["SERVICE"] # "wmts" \/ operation = None THEN Bad(400)
      ELSE IF operation = "getcapabilities" THEN Good(Page("wmts", "contents"))
      ELSE IF operation \notin {"gettile", "getfeatureinfo"} THEN Bad(501)
      ELSE IF Param(params, "LAYER") = None \/ name \notin DOMAIN cfg.tilesets THEN Bad(400)
      ELSE IF operation = "getfeatureinfo" /\ missing # {} THEN Bad(400)
      ELSE WmtsChecked(cfg, cfg.tilesets[name], KvpAsked(cfg.tilesets[name], params))

WmtsRestParse(cfg, path) ==
  LET name == GetTileset(cfg, path[2].word)
      tileset == cfg.tilesets[name]
  IN  IF path = << >> \/ path[1].word # "1.0.0" THEN Bad(404)
      ELSE IF Len(path) = 1 THEN Bad(404)
      ELSE IF path[2].word = "WMTSCapabilities.xml" THEN Good(Page("wmts", "contents"))
      ELSE IF name \notin DOMAIN cfg.tilesets THEN Bad(404)
      ELSE IF Len(path) > 9 + Len(tileset.dimensions) THEN Bad(404)
      ELSE WmtsChecked(cfg, tileset, RestAsked(tileset, path))

WmtsParse(cfg, path, params) ==
  IF Param(params, "SERVICE") # None THEN WmtsKvpParse(cfg, params) ELSE WmtsRestParse(cfg, path)

-----------------------------------------------------------------------------
(* _create_capabilities_wmts: every matrix of a grid, whatever the levels  *)
(* and the extent a tileset restricts it to: the limits name the matrices  *)
(* as grid:level, which none is called. A dimension has the default, or    *)
(* the values of a list.                                                   *)
Spelled(dim) == IF dim.type = "values" THEN dim.words ELSE {dim.default_value}
WmtsPath(tileset, values, link, z, row, col) ==
  Request(<<Text("wmts"), Text("1.0.0"), Text(tileset.name), Text("default")>>
          \o [n \in DOMAIN values |-> Value(values[n])]
          \o <<Text(link.grid.name), Number(z), Number(row), File(col, Extension(tileset))>>, NoParams)
SpelledAll(t) ==
  {v \in [DOMAIN t.dimensions -> UNION {Spelled(t.dimensions[n]) : n \in DOMAIN t.dimensions}] :
     \A n \in DOMAIN v : v[n] \in Spelled(t.dimensions[n])}
WmtsLinks(t, l, z) ==
  {Link({l}, WmtsPath(t, values, l, z, at[2], at[1])) : values \in SpelledAll(t), at \in Everything(l, z)}
WmtsPage(cfg) ==
  UNION {UNION {UNION {WmtsLinks(t, l, z) : z \in DOMAIN l.grid.levels} : l \in Links(t)} : t \in Tilesets(cfg)}
=============================================================================
