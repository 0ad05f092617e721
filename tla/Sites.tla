--------------------------------- MODULE Sites --------------------------------
(***************************************************************************)
(* What a configuration makes of every request. Neither changes while the  *)
(* server runs, so all that depends on them alone is a table here: how a   *)
(* request is parsed, which tiles it needs, what comes of rendering them   *)
(* (or a whole map) for each thing a source may say, and which pages there *)
(* are. Server adds what happens in time.                                  *)
(***************************************************************************)
EXTENDS Core

CacheKey(cfg, t) ==
  LET cache == cfg.caches[t.tileset.cache] IN <<Part(cache.type, cache.base)>> \o KeyOf(cache, t)
BlockOf(t) == MetatileOf(t, t.tileset.metasize)
TileOfBlock(t, p) ==
  LET place == TileAt(BlockOf(t), t.tileset.metasize, p) IN [t EXCEPT !.x = place.x, !.y = place.y]

(* tileset_tile_set_many, or tile_set for each tile of a metatile          *)
Stores(cfg, t, data) ==
  LET key == [p \in DOMAIN data |-> CacheKey(cfg, TileOfBlock(t, p))]
  IN  [k \in {key[p] : p \in DOMAIN data} |-> data[CHOOSE p \in DOMAIN data : key[p] = k]]

(* What comes of rendering a tile: what the cache then holds, and the data *)
(* the request goes on with, which only a metatile of one tile leaves it.  *)
Work(cfg, t, answer) ==
  LET tiles == RenderMetatile(cfg, t, BlockOf(t), answer)
      only == [i |-> 0, j |-> 0]
  IN  IF Failed(tiles) THEN [code |-> tiles.code, stores |-> << >>, alone |-> NoData]
      ELSE [code |-> 0, stores |-> Tabled(Stores(cfg, t, tiles.value)),
            alone |-> IF DOMAIN tiles.value = {only} THEN tiles.value[only] ELSE NoData]
Wanted(cfg, t) ==
  [tile |-> t, key |-> CacheKey(cfg, t),
   work |-> IF t.tileset.source = None THEN << >> ELSE Tabled([answer \in BackendAnswers |-> Work(cfg, t, answer)])]

(* The answer that does not come from tiles, for each thing the sources    *)
(* may say.                                                                *)
Said(parsed) ==
  IF parsed.type = "GET_MAP" THEN [DOMAIN parsed.maps -> BackendAnswers] ELSE [{1} -> BackendAnswers]
PageAnswer(cfg, page) ==
  LET links == PageOf(cfg, page)
  IN  IF Failed(links) THEN links ELSE Good(Answer(Encoded("page", Filled(0, 0, Clear)), "page", 0))
WithoutTiles(cfg, parsed, said) ==
  CASE parsed.type = "GET_CAPABILITIES" -> PageAnswer(cfg, parsed)
    [] parsed.type = "GET_FEATUREINFO" -> FeatureInfoAnswer(cfg, parsed, said[1])
    [] parsed.type = "PROXY" -> ProxyAnswer(parsed, said[1])
    [] parsed.type = "GET_MAP" -> ForwardAnswer(cfg, parsed, said)
Tiled(parsed) == parsed.type = "GET_TILE" \/ (parsed.type = "GET_MAP" /\ parsed.strategy = "assemble")

(* The links of a page that lead to a refusal.                             *)
DeadLinks(cfg, parsed) ==
  LET links == PageOf(cfg, parsed)
  IN  IF Failed(links) THEN {} ELSE {l \in links.value : Failed(Dispatch(cfg, l.to).parsed)}

Handling(cfg, r) ==
  LET d == Dispatch(cfg, r)
      tiles == TilesToFetch(d.parsed.value)
  IN  IF Failed(d.parsed)
      THEN [service |-> d.service, exception |-> d.exception, parsed |-> d.parsed, wants |-> << >>, says |-> << >>,
            dead |-> {}]
      ELSE [service |-> d.service, exception |-> FALSE, parsed |-> d.parsed,
            wants |-> Tabled([n \in DOMAIN tiles |-> Wanted(cfg, tiles[n])]),
            says |-> IF Tiled(d.parsed.value) THEN << >>
                     ELSE Tabled([said \in Said(d.parsed.value) |-> WithoutTiles(cfg, d.parsed.value, said)]),
            dead |-> IF d.parsed.value.type = "GET_CAPABILITIES" THEN DeadLinks(cfg, d.parsed.value) ELSE {}]

(* A document that loads, with requests of these names; {} for another.    *)
SiteOf(doc, requests) ==
  {[cfg |-> cfg, handling |-> Tabled([r \in DOMAIN requests |-> Handling(cfg, requests[r])])] : cfg \in Load(doc)}
=============================================================================
