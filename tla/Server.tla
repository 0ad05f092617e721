-------------------------------- MODULE Server --------------------------------
(***************************************************************************)
(* A process that answers requests, one after the other: cgi/mapcache.c    *)
(* (FastCGI), a child of Apache (apache/mod_mapcache.c) or a worker of     *)
(* nginx (nginx/ngx_http_mapcache_module.c, without NGINX_RW). Meanwhile   *)
(* the configuration file is edited and taken away, sources fail, other    *)
(* processes render, and the process may die and be replaced.              *)
(*                                                                         *)
(* What a document makes of a request never changes: Site is the table of  *)
(* it.                                                                     *)
(***************************************************************************)
EXTENDS Sites

CONSTANTS
  Frontends,    \* the kinds of server: of "cgi", "apache" and "nginx"
  Documents,    \* name -> contents the configuration file may have
  Site,         \* document -> {what it makes of the requests}, or {} when it is refused
  FirstFiles,   \* the documents the file may have at first
  Requests,     \* name -> [path, params]
  Asking,       \* the file's document, or None -> the names of the requests then made
  Means,        \* document -> request -> the picture that a right answer shows
  MaxRequests,  \* bound: requests the process answers
  MaxEdits      \* bound: changes of the file

ASSUME ServerAssumption ==
  /\ Frontends \subseteq {"cgi", "apache", "nginx"}
  /\ Site = [d \in DOMAIN Documents |-> SiteOf(Documents[d], Requests)]
  /\ FirstFiles \subseteq DOMAIN Documents
  /\ Asking \in [DOMAIN Documents \cup {None} -> SUBSET DOMAIN Requests]
  /\ DOMAIN Means \subseteq DOMAIN Documents
  /\ None \notin DOMAIN Documents
  /\ {MaxRequests, MaxEdits} \subseteq Nat

(* The tiles of a request are a list, and valid: of a level of their grid. *)
(* What their tilesets have of the readers of Config, and of whoever wrote *)
(* the document: a tileset without a format has a source that sends data,  *)
(* not one that draws.                                                     *)
Sound(cfg, t) ==
  /\ t.expires \in Int /\ t.auto_expire \in Int
  /\ t.format # None => Writable(t.format)
  /\ t.source # None =>
       cfg.sources[t.source].type \in {"wms", "tms"} \cup IF t.format = None THEN {} ELSE {"mapserver", "dummy"}
OnItsGrid(t) ==
  LET g == t.grid_link.grid
  IN  /\ DOMAIN t = {"tileset", "grid_link", "dimensions", "x", "y", "z"}
      /\ IsGrid(g) /\ IsSize(t.tileset.metasize) /\ t.tileset.metabuffer \in Nat
      /\ t.z \in DOMAIN g.levels /\ [x |-> t.x, y |-> t.y, z |-> t.z] \in TilesOf(g, t.z)
ASSUME TilesetAssumption ==
  \A d \in DOMAIN Documents : \A site \in Site[d] : \A r \in DOMAIN Requests :
    LET wants == site.handling[r].wants
    IN  /\ Len(wants) \in Nat /\ DOMAIN wants = 1 .. Len(wants)
        /\ \A n \in DOMAIN wants : Sound(site.cfg, wants[n].tile.tileset) /\ OnItsGrid(wants[n].tile)

(* What the services make of a request: the code of an error, or a request *)
(* of one of the kinds of mapcache_request_type, whose format is one that  *)
(* can be written.                                                         *)
Codes == {0, 400, 404, 500, 501, 502}
ServiceNames == {ServiceOrder[n] : n \in DOMAIN ServiceOrder}
RequestTypes == {"GET_CAPABILITIES", "GET_TILE", "GET_MAP", "GET_FEATUREINFO", "PROXY"}
Understood(parsed) ==
  /\ parsed.type \in RequestTypes
  /\ parsed.type \in {"GET_TILE", "GET_MAP"} =>
       "format" \in DOMAIN parsed /\ (parsed.format # None => Writable(parsed.format))
(* Maps that the sources draw: only the reader of the WMS service lets     *)
(* them, and it gives maps a format.                                       *)
Drawable(cfg, parsed) ==
  parsed.type = "GET_MAP" /\ parsed.strategy # "assemble" =>
    /\ parsed.format # None
    /\ Len(parsed.maps) \in Nat /\ DOMAIN parsed.maps = 1 .. Len(parsed.maps)
    /\ \A n \in DOMAIN parsed.maps :
         LET source == parsed.maps[n].tileset.source
         IN  source # None => cfg.sources[source].type \in {"wms", "tms", "mapserver", "dummy"}
ASSUME HandlingAssumption ==
  \A d \in DOMAIN Documents : \A site \in Site[d] :
    /\ site.cfg.default_format # None /\ Writable(site.cfg.default_format)
    /\ \A r \in DOMAIN Requests :
         LET handling == site.handling[r]
         IN  /\ handling.service \in ServiceNames \cup {None, "forgotten"}
             /\ handling.parsed.code \in Codes
             /\ ~Failed(handling.parsed) =>
                  Understood(handling.parsed.value) /\ Drawable(site.cfg, handling.parsed.value)
             /\ \A said \in DOMAIN handling.says : handling.says[said].code \in Codes

VARIABLES
  frontend,    \* the kind of server
  file,        \* the document in the file, or None, and when it was written
  mtime,       \* the time of the file that was last read
  config,      \* the document of ctx->config
  memory,      \* of the configuration: "none", "live" or "freed"
  service,     \* ctx->service: the kind, and whether its memory is freed
  exceptions,  \* of ctx->exceptions: "none", "live" or "freed"
  pc,          \* where the process is
  request,     \* the request it works on
  error,       \* ctx->_errcode
  got,         \* the tiles fetched so far, by their number
  stored,      \* what the caches hold: key -> data
  reply,       \* the last answer
  taken, edits,
  born, lost   \* history: the first document read; the file has been away

vars == <<frontend, file, mtime, config, memory, service, exceptions, pc, request, error, got,
          stored, reply, taken, edits, born, lost>>
world == <<frontend, stored>>
loading == <<mtime, config, memory, born, lost>>
counts == <<taken, edits>>

Cfg(d) == TheOne(Site[d]).cfg
Loads(d) == d # None /\ Site[d] # {}
Handled(d, r) == TheOne(Site[d]).handling[r]
Now == Handled(config, request)
Tiles == [n \in DOMAIN Now.wants |-> Now.wants[n].tile]
NonBlocking == frontend = "nginx"

NoService == [kind |-> None, freed |-> FALSE]
Reply(code, answer) == [code |-> code, data |-> answer.data, mime |-> answer.mime, expires |-> answer.expires]
Bare(code) == Reply(code, Answer(NoData, None, 0))
NoReply == Bare(0)
(* An answer out of memory that is not the process's any more.             *)
Undefined == Bare(-1)

(* What the caches hold when all that the requests of d want was seeded.   *)
Seeded(d) ==
  LET works == {want.work : want \in UNION {{Handled(d, r).wants[n] : n \in DOMAIN Handled(d, r).wants} : r \in Asking[d]}}
      held == {work["picture"].stores : work \in works \ {<< >>}}
  IN  [key \in UNION {DOMAIN tiles : tiles \in held} |-> (CHOOSE tiles \in held : key \in DOMAIN tiles)[key]]

Init ==
  /\ frontend \in Frontends
  /\ \E d \in FirstFiles :
       /\ file = [doc |-> d, written |-> 1]
       /\ IF frontend = "cgi"
          THEN config = None /\ memory = "none" /\ born = None /\ stored = << >>
          ELSE /\ Loads(d) /\ config = d /\ memory = "live" /\ born = d
               /\ stored \in IF frontend = "nginx" THEN {<< >>, Seeded(d)} ELSE {<< >>}
  /\ mtime = 0
  /\ service = NoService /\ exceptions = "none"
  /\ pc = "idle" /\ request = None /\ error = 0 /\ got = << >>
  /\ reply = NoReply
  /\ taken = 0 /\ edits = 0 /\ lost = FALSE

-----------------------------------------------------------------------------
(* The file is looked at when it is opened and when it is read.            *)
Edit(d) ==
  /\ frontend = "cgi" /\ edits < MaxEdits
  /\ pc \in {"load", "read", "idle"}
  /\ file' = [doc |-> d, written |-> file.written + 1]
  /\ edits' = edits + 1
  /\ lost' = (lost \/ d = None)
  /\ UNCHANGED <<world, mtime, config, memory, born, service, exceptions, pc, request, error, got, reply, taken>>

(* The main loop of the CGI; the handlers of the modules.                  *)
Accept(r) ==
  /\ pc = "idle" /\ taken < MaxRequests /\ r \in Asking[file.doc]
  /\ taken' = taken + 1
  /\ request' = r
  /\ got' = << >> /\ reply' = NoReply
  /\ service' = IF frontend = "apache" THEN NoService ELSE service
  /\ pc' = IF memory = "freed" THEN "astray"
           ELSE IF frontend = "cgi" /\ (config = None \/ Cfg(config).autoreload) THEN "load"
           ELSE "dispatch"
  /\ UNCHANGED <<world, file, loading, exceptions, error, edits>>

(* The configuration the process works with has been freed.                *)
Astray ==
  /\ pc = "astray"
  /\ \/ pc' = "dead" /\ reply' = NoReply
     \/ pc' = "cleanup" /\ reply' = Undefined
  /\ UNCHANGED <<world, file, loading, service, exceptions, request, error, got, counts>>

-----------------------------------------------------------------------------
(* load_config.                                                             *)

(* The request's pool is the one the server or its configuration lives in. *)
OpenFails ==
  /\ pc = "load" /\ file.doc = None
  /\ error' = 500
  /\ memory' = "freed"
  /\ pc' = "respond"
  /\ UNCHANGED <<world, file, mtime, config, born, lost, service, exceptions, request, got, reply, counts>>

(* Mutant: the time of the reading is remembered, which an edit may share.  *)
StatOfClock ==
  /\ pc = "load" /\ file.doc # None
  /\ IF config # None /\ file.written <= mtime
     THEN pc' = "dispatch" /\ UNCHANGED mtime
     ELSE pc' = "read" /\ mtime' = MaxEdits + 1
  /\ UNCHANGED <<world, file, config, memory, born, lost, service, exceptions, request, error, got, reply, counts>>

Stat ==
  /\ pc = "load" /\ file.doc # None
  /\ IF config # None /\ file.written <= mtime
     THEN pc' = "dispatch" /\ UNCHANGED mtime
     ELSE pc' = "read" /\ mtime' = file.written
  /\ UNCHANGED <<world, file, config, memory, born, lost, service, exceptions, request, error, got, reply, counts>>

FirstDocument == IF born = None THEN file.doc ELSE born

(* A new configuration: the pool of the old one is destroyed, and with it  *)
(* the service of the last request.                                        *)
Read ==
  /\ pc = "read" /\ Loads(file.doc)
  /\ config' = file.doc /\ memory' = "live" /\ born' = FirstDocument
  /\ service' = [service EXCEPT !.freed = service.kind # None]
  /\ pc' = "dispatch"
  /\ UNCHANGED <<world, file, mtime, lost, exceptions, request, error, got, reply, counts>>

(* Mutant: what is kept is read again until it is right.                   *)
ReadAgain ==
  /\ pc = "read" /\ ~Loads(file.doc) /\ config # None
  /\ pc' = "load" /\ mtime' = 0
  /\ UNCHANGED <<world, file, config, memory, born, lost, service, exceptions, request, error, got, reply, counts>>

ReadKeepsOld ==
  /\ pc = "read" /\ ~Loads(file.doc) /\ config # None
  /\ pc' = "dispatch"
  /\ UNCHANGED <<world, file, loading, service, exceptions, request, error, got, reply, counts>>

(* Mutant: a document that is refused ends the configuration in use.       *)
EveryRefusalFrees ==
  /\ pc = "read" /\ ~Loads(file.doc)
  /\ error' = 500 /\ memory' = "freed" /\ born' = FirstDocument
  /\ pc' = "respond"
  /\ UNCHANGED <<world, file, mtime, config, lost, service, exceptions, request, got, reply, counts>>

(* There is none to keep: ctx->config stays with what was read, and the    *)
(* pool of it goes with the request.                                       *)
FirstReadFails ==
  /\ pc = "read" /\ ~Loads(file.doc) /\ config = None
  /\ error' = 500 /\ memory' = "freed" /\ born' = FirstDocument
  /\ pc' = "respond"
  /\ UNCHANGED <<world, file, mtime, config, lost, service, exceptions, request, got, reply, counts>>

-----------------------------------------------------------------------------
(* The request.                                                             *)

Next1(parsed) ==
  CASE parsed.type = "GET_CAPABILITIES" -> "page"
    [] parsed.type = "GET_TILE" -> "fetch"
    [] parsed.type = "GET_MAP" -> IF parsed.strategy = "assemble" THEN "fetch" ELSE "forward"
    [] parsed.type = "GET_FEATUREINFO" -> "info"
    [] parsed.type = "PROXY" -> "proxy"

DispatchRequest ==
  /\ pc = "dispatch"
  /\ service' = CASE Now.service = None -> service
                  [] Now.service = "forgotten" -> NoService
                  [] OTHER -> [kind |-> Now.service, freed |-> FALSE]
  /\ exceptions' = IF Now.exception /\ exceptions = "none" THEN "live" ELSE exceptions
  /\ error' = Now.parsed.code
  /\ \/ pc' = IF Failed(Now.parsed) THEN "refuse" ELSE Next1(Now.parsed.value)
     \/ Now.exception /\ exceptions = "freed" /\ pc' = "dead"
  /\ UNCHANGED <<world, file, loading, request, got, reply, counts>>

(* What a tile request comes to, TileGet in one step. elsewhere: another   *)
(* process has its metatile locked and renders it, with or without success.*)
Ways == BackendAnswers \cup {"rendered elsewhere", "failed elsewhere"}

(* Mutant: a worker that may not wait renders all the same.                *)
FetchAndRender(want, way) ==
  LET done == want.work[IF way \in BackendAnswers THEN way ELSE "picture"]
  IN  IF want.key \in DOMAIN stored THEN [outcome |-> Fetched(stored[want.key], "hit"), stores |-> << >>]
      ELSE IF want.work = << >> THEN [outcome |-> Fetched(NoData, "no source"), stores |-> << >>]
      ELSE [outcome |-> IF Failed(done) THEN FetchFailed(done.code) ELSE Fetched(done.alone, "rendered"),
            stores |-> done.stores]

Fetch(want, way) ==
  LET done == want.work[IF way \in BackendAnswers THEN way ELSE "picture"]
      unchanged(outcome) == [outcome |-> outcome, stores |-> << >>]
  IN  IF want.key \in DOMAIN stored THEN unchanged(Fetched(stored[want.key], "hit"))
      ELSE IF want.work = << >> THEN unchanged(Fetched(NoData, "no source"))
      ELSE IF NonBlocking THEN unchanged(FetchFailed(404))
      ELSE IF way = "failed elsewhere" THEN unchanged(Fetched(NoData, "waited"))
      ELSE IF way = "rendered elsewhere" THEN [outcome |-> Fetched(NoData, "waited"), stores |-> done.stores]
      ELSE [outcome |-> IF Failed(done) THEN FetchFailed(done.code) ELSE Fetched(done.alone, "rendered"),
            stores |-> done.stores]

Kept(tiles) ==
  [key \in DOMAIN tiles \cup DOMAIN stored |-> IF key \in DOMAIN tiles THEN tiles[key] ELSE stored[key]]

FetchTile(n, way) ==
  LET f == Fetch(Now.wants[n], way)
  IN  /\ got' = [m \in DOMAIN got \cup {n} |-> IF m = n THEN f.outcome ELSE got[m]]
      /\ stored' = Kept(f.stores)

(* Without threads: one after the other, up to the first failure.          *)
Fetching == pc = "fetch" /\ error = 0
FetchNext(way) ==
  LET n == Cardinality(DOMAIN got) + 1
  IN  /\ Fetching /\ ~Threaded(Cfg(config), Tiles) /\ n \in DOMAIN Tiles
      /\ FetchTile(n, way)
      /\ error' = got'[n].code
      /\ UNCHANGED <<frontend, file, loading, service, exceptions, pc, request, reply, counts>>

(* _thread_get_tile, with a context of its own                             *)
FetchInThread(n, way) ==
  /\ Fetching /\ Threaded(Cfg(config), Tiles)
  /\ n \in Launched(Tiles) \ DOMAIN got
  /\ FetchTile(n, way)
  /\ UNCHANGED <<frontend, file, loading, service, exceptions, pc, request, error, reply, counts>>

(* Mutant: the request's error is how many threads had one.                *)
CountOfErrors ==
  /\ Fetching /\ Threaded(Cfg(config), Tiles)
  /\ Launched(Tiles) \subseteq DOMAIN got
  /\ error' = Cardinality({n \in Launched(Tiles) : Failed(got[n])})
  /\ pc' = "rest"
  /\ UNCHANGED <<world, file, loading, service, exceptions, request, got, reply, counts>>

(* The error of the first thread that has one becomes that of the request. *)
JoinThreads ==
  LET bad == {n \in Launched(Tiles) : Failed(got[n])}
  IN  /\ Fetching /\ Threaded(Cfg(config), Tiles)
      /\ Launched(Tiles) \subseteq DOMAIN got
      /\ error' = IF bad = {} THEN 0 ELSE got[Lowest(bad)].code
      /\ pc' = "rest"
      /\ UNCHANGED <<world, file, loading, service, exceptions, request, got, reply, counts>>

Rest == DOMAIN Tiles \ DOMAIN got
FetchRest(way) ==
  /\ pc = "rest" /\ error = 0 /\ Rest # {}
  /\ FetchTile(Lowest(Rest), way)
  /\ error' = got'[Lowest(Rest)].code
  /\ UNCHANGED <<frontend, file, loading, service, exceptions, pc, request, reply, counts>>

-----------------------------------------------------------------------------
(* The answers.                                                             *)

Refuse(code) ==
  /\ error' = code /\ pc' = "respond"
  /\ UNCHANGED <<world, file, loading, service, exceptions, request, got, reply, counts>>
Sent(outcome) ==
  \/ Failed(outcome) /\ Refuse(outcome.code)
  \/ /\ ~Failed(outcome)
     /\ reply' = Reply(200, outcome.value) /\ pc' = "cleanup"
     /\ UNCHANGED <<world, file, loading, service, exceptions, request, error, got, counts>>

FetchedAll == pc \in {"fetch", "rest"} /\ error = 0 /\ Rest = {} /\ (pc = "rest" \/ ~Threaded(Cfg(config), Tiles))

SendTile ==
  /\ FetchedAll /\ Now.parsed.value.type = "GET_TILE"
  /\ Sent(GetTileAnswer(Cfg(config), Now.parsed.value, got))

(* A service that was listed by its tag has no format for maps.            *)
NoFormat == Now.parsed.value.format = None
SendMap ==
  /\ FetchedAll /\ Now.parsed.value.type = "GET_MAP" /\ ~NoFormat
  /\ Sent(AssembleAnswer(Now.parsed.value, got))

Die == pc' = "dead" /\ UNCHANGED <<world, file, loading, service, exceptions, request, error, got, reply, counts>>
MapWithoutFormat ==
  /\ FetchedAll /\ Now.parsed.value.type = "GET_MAP" /\ NoFormat
  /\ LET outcome == AssembleAnswer([Now.parsed.value EXCEPT !.format = CreatePng("PNG")], got)
     IN  IF Failed(outcome) THEN Refuse(outcome.code) ELSE Die

(* A map that the sources draw, a page, what a source says of a feature,   *)
(* the answer of another server. The worker of nginx refuses the first and *)
(* has no answer to the last two, which it reads all the same.             *)
ForwardMap(said) ==
  /\ pc = "forward"
  /\ Sent(IF NonBlocking THEN Bad(400) ELSE Now.says[said])
SendPage(said) == pc = "page" /\ Sent(Now.says[said])
SendInfo(said) == pc = "info" /\ ~NonBlocking /\ Sent(Now.says[said])
SendProxied(said) == pc = "proxy" /\ ~NonBlocking /\ Sent(Now.says[said])
NothingToSend == pc \in {"info", "proxy"} /\ NonBlocking /\ Die

(* Errors. The service that gives them their form is that of the last      *)
(* request that had one, and may be gone; WMS and WMTS look at the         *)
(* exceptions. nginx is told the code alone, except by the dispatch.       *)
Form == IF service.kind \in {"wms", "wmts"} THEN service.kind ELSE None
Unsafe == service.freed \/ (Form # None /\ exceptions = "freed")
Complaint ==
  LET cfg == IF config = None THEN Created ELSE Cfg(config)
      image == IF cfg.empty_image = None THEN NoData ELSE cfg.empty_image.value
  IN  IF config = None /\ born = None THEN Bare(error)
      ELSE Reply(error, ErrorAnswer(cfg.reporting, cfg.default_format, image, Form))
CodeAlone == NonBlocking /\ pc # "refuse"

RespondToError ==
  /\ \/ pc \in {"refuse", "respond"}
     \/ pc \in {"fetch", "rest"} /\ error # 0
  /\ \/ /\ reply' = IF CodeAlone THEN Bare(error) ELSE Complaint
        /\ pc' = "cleanup"
     \/ /\ Unsafe /\ ~CodeAlone
        /\ pc' = "dead" /\ UNCHANGED reply
  /\ UNCHANGED <<world, file, loading, service, exceptions, request, error, got, counts>>

(* The pool of the request is destroyed. The CGI clears the exceptions     *)
(* afterwards, nginx before; neither forgets them, nor the service.        *)
Cleanup ==
  /\ pc = "cleanup"
  /\ error' = 0 /\ got' = << >>
  /\ exceptions' = IF frontend = "apache" THEN "none" ELSE IF exceptions = "none" THEN "none" ELSE "freed"
  /\ \/ pc' = "idle"
     \/ pc' = "dead" /\ exceptions # "none" /\ (frontend = "cgi" \/ exceptions = "freed") /\ frontend # "apache"
  /\ UNCHANGED <<world, file, loading, service, request, reply, counts>>

(* A process that has died is replaced. A child of Apache or nginx has the *)
(* configuration of its parent; the CGI may be replaced at any time.       *)
Fresh ==
  /\ pc' = "idle" /\ service' = NoService /\ exceptions' = "none" /\ error' = 0 /\ got' = << >>
  /\ lost' = (file.doc = None)
  /\ UNCHANGED <<world, file, request, reply, counts>>
Forgotten == config' = None /\ memory' = "none" /\ born' = None /\ mtime' = 0
Respawn ==
  /\ pc = "dead" /\ Fresh
  /\ IF frontend = "cgi" THEN Forgotten ELSE UNCHANGED <<config, memory, born, mtime>>
Recycle == pc = "idle" /\ frontend = "cgi" /\ memory # "none" /\ Fresh /\ Forgotten

(* The bound on the requests is reached.                                   *)
Finished == pc = "idle" /\ taken = MaxRequests /\ UNCHANGED vars

-----------------------------------------------------------------------------
Serve ==
  \/ Astray \/ OpenFails \/ Stat \/ Read \/ ReadKeepsOld \/ FirstReadFails
  \/ DispatchRequest
  \/ \E way \in Ways : FetchNext(way) \/ FetchRest(way)
  \/ Fetching /\ \E n \in DOMAIN Tiles, way \in Ways : FetchInThread(n, way)
  \/ JoinThreads \/ SendTile \/ SendMap \/ MapWithoutFormat
  \/ /\ pc \in {"forward", "page", "info", "proxy"}
     /\ \E said \in DOMAIN Now.says : ForwardMap(said) \/ SendPage(said) \/ SendInfo(said) \/ SendProxied(said)
  \/ NothingToSend \/ RespondToError \/ Cleanup \/ Respawn
Next ==
  \/ \E d \in DOMAIN Documents \cup {None} : Edit(d)
  \/ \E r \in DOMAIN Requests : Accept(r)
  \/ Serve \/ Recycle \/ Finished

(* The process gets the processor, sources answer or time out, and the     *)
(* server replaces a process that has died: WF_vars(Serve), with the steps *)
(* of Serve told by the counters and ENABLED <<Serve>>_vars worked out,    *)
(* since TLC would render every answer once more to find it. That Serve is *)
(* enabled wherever the process is busy follows from the absence of        *)
(* deadlock. That requests or edits come, nobody promises.                 *)
Busy == pc # "idle"
Fairness == []<>~Busy \/ []<><<Busy /\ UNCHANGED counts>>_vars
Spec == Init /\ [][Next]_vars /\ Fairness

-----------------------------------------------------------------------------
(* What some of the theorems about the properties ask of the documents.    *)

Loaded(documents) == {d \in DOMAIN documents : Site[d] # {}}
TilesWanted(d) ==
  UNION {{Handled(d, r).wants[n].tile : n \in DOMAIN Handled(d, r).wants} : r \in DOMAIN Requests}
BlockTiles(t) == {TileOfBlock(t, p) : p \in MetaTiles(t.grid_link.grid, BlockOf(t), t.tileset.metasize)}
SameTile(s, t) ==
  /\ s.tileset = t.tileset /\ s.grid_link.grid = t.grid_link.grid /\ s.dimensions = t.dimensions
  /\ s.x = t.x /\ s.y = t.y /\ s.z = t.z

(* Where a cache keeps a wanted tile, nobody keeps another one, of this or *)
(* another document, nor the same one out of another source or cache.      *)
KeysApart(documents) ==
  \A d, e \in Loaded(documents) : \A s \in TilesWanted(d), u \in TilesWanted(e) :
    s.tileset.source # None =>
      \A t \in BlockTiles(s) : CacheKey(Cfg(d), t) = CacheKey(Cfg(e), u) =>
        /\ SameTile(t, u)
        /\ Cfg(d).caches[t.tileset.cache] = Cfg(e).caches[t.tileset.cache]
        /\ Cfg(d).sources[t.tileset.source] = Cfg(e).sources[t.tileset.source]

(* What mapcache_prefetch_tiles does not compare of the tiles of a request *)
(* is the same for those of one metatile.                                  *)
BlocksTogether(documents) ==
  \A d \in Loaded(documents), r \in DOMAIN Requests :
    LET wants == Handled(d, r).wants
    IN  \A m, n \in DOMAIN wants : SameBlock(wants[m].tile, wants[n].tile) =>
          /\ wants[m].tile.grid_link.grid = wants[n].tile.grid_link.grid
          /\ wants[m].tile.dimensions = wants[n].tile.dimensions
          /\ wants[m].tile.z = wants[n].tile.z

(* The type of content of a format is that of all it writes. That of a     *)
(* mixed one is read off the data, which is not done for a RAW member. A   *)
(* TIFF cache keeps JPEG, whatever the format of the tileset is.           *)
MimeOfType == [PNG |-> "image/png", JPEG |-> "image/jpeg", RAW |-> "application/octet-stream"]
Written(format) == IF format.type = "MIXED" THEN {format.transparent.type, format.opaque.type} ELSE {format.type}
KeptTypes(cfg, tileset) ==
  IF tileset.format = None THEN {"PNG"}
  ELSE IF cfg.caches[tileset.cache].type = "tiff" THEN {"JPEG"} ELSE Written(tileset.format)
Told(format, types) ==
  \A type \in types \cap DOMAIN MimeOfType :
    IF format.mime_type = "none" THEN type # "RAW" ELSE format.mime_type = MimeOfType[type]
FormatsTell(documents) ==
  \A d \in Loaded(documents) :
    /\ Told(Cfg(d).default_format, Written(Cfg(d).default_format))
    /\ \A t \in TilesWanted(d) :
         LET format == t.tileset.format
         IN  format # None => Told(format, KeptTypes(Cfg(d), t.tileset) \cup Written(format))
    /\ \A r \in DOMAIN Requests :
         LET parsed == Handled(d, r).parsed
         IN  ~Failed(parsed) /\ parsed.value.type \in {"GET_TILE", "GET_MAP"} /\ parsed.value.format # None =>
               Told(parsed.value.format, Written(parsed.value.format))

(* A request for one tile, without a watermark, that a WMS draws, whose    *)
(* right picture is what the tile is of, at the place that it has in its   *)
(* grid.                                                                   *)
OneWmsTile(d, r) ==
  /\ d \in Loaded(Documents) \cap DOMAIN Means /\ r \in DOMAIN Requests \cap DOMAIN Means[d]
  /\ DOMAIN Handled(d, r).wants = {1}
  /\ LET t == Handled(d, r).wants[1].tile
         source == Cfg(d).sources[t.tileset.source]
     IN  /\ t.tileset.source # None /\ source.type = "wms"
         /\ t.tileset.format # None /\ t.tileset.watermark = None
         /\ Means[d][r].of = <<LayersOf(source, t), Dims(t)>>
         /\ Means[d][r].at = GetExtent(t.grid_link.grid, t.x, t.y, t.z)

(* A request for a map of one such layer, whose right picture is that of   *)
(* its extent. Where tiles make it, they are not much coarser than the map,*)
(* and the valid ones of their level cover what has to be shown.           *)
FineEnough(step, res, slack) == step < 2 * res /\ 3 * step <= 2 * (res + slack)
TilesFit(map, meaning) ==
  LET link == map.grid_link
      z == ClosestLevel(link, ResolutionOf(map.extent, map.w, map.h))
      l == link.grid_limits[z]
      region == RegionOf(link, z)
  IN  /\ map.tileset.format # None /\ map.tileset.watermark = None
      /\ IsGrid(link.grid) /\ z \in DOMAIN link.grid.levels
      /\ l.minx \in Nat /\ l.miny \in Nat /\ l.maxx \in Int /\ l.maxy \in Int
      /\ FineEnough(Resolution(link.grid, z), HorizontalResolution(map.extent, map.w), meaning.slack)
      /\ FineEnough(Resolution(link.grid, z), VerticalResolution(map.extent, map.h), meaning.slack)
      /\ region.minx <= meaning.covered.minx /\ meaning.covered.maxx <= region.maxx
      /\ region.miny <= meaning.covered.miny /\ meaning.covered.maxy <= region.maxy
OneWmsMap(d, r) ==
  /\ d \in Loaded(Documents) \cap DOMAIN Means /\ r \in DOMAIN Requests \cap DOMAIN Means[d]
  /\ LET parsed == Handled(d, r).parsed.value
         map == parsed.maps[1]
         source == Cfg(d).sources[map.tileset.source]
         meaning == Means[d][r]
     IN  /\ ~Failed(Handled(d, r).parsed) /\ parsed.type = "GET_MAP" /\ DOMAIN parsed.maps = {1}
         /\ map.tileset.source # None /\ source.type = "wms"
         /\ meaning.of = <<LayersOf(source, map), Dims(map)>> /\ meaning.at = map.extent
         /\ IsExtent(map.extent) /\ map.w \in Side /\ map.h \in Side
         /\ HorizontalResolution(map.extent, map.w) \in Side /\ VerticalResolution(map.extent, map.h) \in Side
         /\ IsExtent(meaning.covered) /\ meaning.slack \in Nat
         /\ parsed.strategy = "assemble" => TilesFit(map, meaning)

-----------------------------------------------------------------------------
(* Properties.                                                              *)

TypeOK ==
  /\ frontend \in Frontends
  /\ file.doc \in DOMAIN Documents \cup {None} /\ file.written \in 1 .. MaxEdits + 1
  /\ mtime \in 0 .. MaxEdits + 1
  /\ {config, born} \subseteq DOMAIN Documents \cup {None}
  /\ memory \in {"none", "live", "freed"}
  /\ service.kind \in ServiceNames \cup {None}
  /\ service.freed \in BOOLEAN /\ lost \in BOOLEAN
  /\ exceptions \in {"none", "live", "freed"}
  /\ pc \in {"idle", "astray", "load", "read", "dispatch", "refuse", "fetch", "rest", "forward", "page",
             "info", "proxy", "respond", "cleanup", "dead"}
  /\ request \in DOMAIN Requests \cup {None}
  /\ error \in Codes
  /\ \A n \in DOMAIN got : got[n].nodata \in BOOLEAN
  /\ reply.code \in Codes \cup {-1, 200}
  /\ taken \in 0 .. MaxRequests /\ edits \in 0 .. MaxEdits

(* An answer to a request whose right picture is known, with a picture.    *)
Pictured(type) ==
  /\ reply.code = 200 /\ config # None /\ config \in DOMAIN Means /\ request \in DOMAIN Means[config]
  /\ Now.parsed.value.type = type
  /\ reply.data.type \in {"PNG", "JPEG", "RAW"}
Meant == Means[config][request]

(* A tile that is asked for, by whichever service, shows the layers and    *)
(* the dimensions that were asked for at the place that its name means,    *)
(* pixel by pixel: however the rows are counted, the metatile is cut, the  *)
(* caches name their tiles and whatever was stored before.                 *)
TilesShowTheirPlace ==
  Pictured("GET_TILE") =>
    LET image == reply.data.image
    IN  \A s \in DOMAIN image.px :
          image.px[s].shows = {Piece(Meant.of, PixelAt(Meant.at, image.w, image.h, s[1], s[2]))}

(* Each pixel of a map shows, for one of the layers, what lies within a    *)
(* pixel of the tiles from where the pixel is; a pixel may show nothing    *)
(* only where no tile is, or at the right and lower edges of the tiles,    *)
(* half a pixel of which the nearest-neighbour rounding leaves out.        *)
MapsShowTheWorld ==
  Pictured("GET_MAP") =>
    LET image == reply.data.image
    IN  \A s \in DOMAIN image.px :
          LET here == PixelAt(Meant.at, image.w, image.h, s[1], s[2])
          IN  /\ Covers(Meant.covered, here, Meant.slack) => image.px[s].shows # {}
              /\ \A piece \in image.px[s].shows :
                   piece.of = Meant.of /\ Near(piece.at, here, Meant.slack)

(* The Content-Type of a tile or map is that of its body, also when the    *)
(* body comes out of a cache and was written for another request. The TIFF *)
(* cache keeps this only because its tilesets here have its format.        *)
Drawing == config # None /\ Now.parsed.value.type \in {"GET_TILE", "GET_MAP"}
MimeTellsTheBody ==
  reply.code = 200 /\ Drawing /\ reply.data.type \in DOMAIN MimeOfType => reply.mime = MimeOfType[reply.data.type]

(* A tile made of several may be kept no longer than each of them. The     *)
(* error tells an answer from a complaint.                                 *)
NothingOutlivesItsTiles ==
  pc = "cleanup" /\ error = 0 /\ reply.code = 200 /\ config # None /\ Now.parsed.value.type = "GET_TILE" =>
    \A n \in DOMAIN got : ~got[n].nodata => reply.expires <= Expires(Tiles[n].tileset)

(* Who edits the file, at whatever moment, is not overlooked: the time     *)
(* that is remembered is that of the document in use or an earlier one.    *)
EditsAreNoticed ==
  (memory = "live" /\ pc # "read" /\ mtime = file.written /\ Loads(file.doc)) => config = file.doc

(* As long as the file is there and the first document was sound, no edit  *)
(* takes the running configuration away.                                   *)
BadEditsDoNoHarm == (memory = "freed") => (lost \/ ~Loads(born))

(* One thread per metatile is enough: what the request fetches afterwards  *)
(* has been stored by one of its threads, unless that one waited for       *)
(* another process.                                                        *)
ThreadsRenderForTheRest ==
  pc = "rest" => \A n \in DOMAIN got \ Launched(Tiles) :
    got[n].how = "rendered" => \E m \in Launched(Tiles) : SameBlock(Tiles[m], Tiles[n]) /\ got[m].how = "waited"

(* Whatever a source says, only pictures are kept.                         *)
OnlyPicturesAreKept == \A k \in DOMAIN stored : stored[k].type \in Pictures

(* A link of the pages about the services is refused only if it leads to a *)
(* service that is not configured, as the pictures of KML do without TMS,  *)
(* or to a grid of which the tileset leaves out levels or places, which    *)
(* the pages of WMTS, KML and demo do not heed; or if it is the whole      *)
(* world as a quadkey, which VE refuses. All others are served, whichever  *)
(* service writes them and however it counts.                              *)
Served(l) == \A z \in DOMAIN l.grid.levels : \A at \in Everything(l, z) : Valid(l, at[1], at[2], z)
MayBeRefused(link) ==
  \/ link.to.path # << >> /\ link.to.path[1].word \notin DOMAIN Cfg(config).services
  \/ \E l \in link.of : ~Served(l)
  \/ Param(link.to.params, "tile") = << >>

(* The worker of nginx changes no cache, whatever is asked.                *)
ReadOnlyWorkers == [][frontend = "nginx" => stored' = stored]_vars

(* Every request comes to an end, if only that of its process.             *)
RequestsEnd == (pc # "idle") ~> (pc = "idle")
=============================================================================
